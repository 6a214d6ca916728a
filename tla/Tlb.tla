-------------------------------- MODULE Tlb --------------------------------
(***************************************************************************)
(* The translations that the CPU has cached, beside the page tables that it *)
(* fills them from.  The code declares flushTLB (kernel.h:75) and calls it  *)
(* nowhere, nor does it use invlpg.                                         *)
(***************************************************************************)

EXTENDS PageTables

VARIABLE tlb (* the frame that each cached page is translated to *)

\* The CPU may cache a translation when it is used, and before.
Fill(p) ==
  /\ p \in DOMAIN ptes
  /\ p \notin DOMAIN tlb
  /\ tlb' = With(tlb, p, ptes[p])
  /\ UNCHANGED vars

\* It may forget one at any time.
Evict(p) ==
  /\ p \in DOMAIN tlb
  /\ tlb' = Without(tlb, p)
  /\ UNCHANGED vars

TlbInit == Init /\ tlb = Empty

TlbNext ==
  \/ Next /\ UNCHANGED tlb
  \/ \E p \in Pages : Fill(p) \/ Evict(p)

TlbSpec == TlbInit /\ [][TlbNext]_<<vars, tlb>>

\* Comment of mapPages: "Returns true only on successful mapping".  A page
\* that was mapped with success, and that its client holds, is translated to
\* the frame that it was mapped to.
HeldPagesReachTheirFrames ==
  \A p \in DOMAIN held \cap DOMAIN tlb : tlb[p] = held[p]

=============================================================================

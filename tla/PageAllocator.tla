--------------------------- MODULE PageAllocator ---------------------------
(***************************************************************************)
(* What every page manager of the kernel promises, whatever its data        *)
(* structure: a page is free, or granted to one client, or neither (set     *)
(* aside when the manager was initialised).  A grant takes free pages only, *)
(* so no page is ever granted twice, and a release gives back granted pages *)
(* only.  PhysicalMemory (buddy bitmaps) and AddressSpace (sorted list of   *)
(* blocks) are both shown to implement it.                                  *)
(***************************************************************************)

CONSTANT Pages

VARIABLES
  free,    (* pages that a request may be served from *)
  granted  (* pages that a client holds               *)

pageVars == <<free, granted>>

Init ==
  /\ free \subseteq Pages
  /\ granted = {}

Grant ==
  /\ free' \in (SUBSET free) \ {free}
  /\ granted' = granted \cup (free \ free')

Release ==
  /\ granted' \in (SUBSET granted) \ {granted}
  /\ free' = free \cup (granted \ granted')

Next == Grant \/ Release

Spec == Init /\ [][Next]_pageVars

=============================================================================

------------------------- MODULE BestFitAllocator -------------------------
(***************************************************************************)
(* What the virtual page manager promises beyond PageAllocator: a request   *)
(* takes the front of the smallest run of free pages that is long enough,   *)
(* the lowest one if several are as small.  Free pages are a plain set here:*)
(* there are no blocks to split, merge or lose track of.                    *)
(***************************************************************************)

EXTENDS Integers, FiniteSets

CONSTANT Pages

VARIABLES
  free,    (* pages that a request may be served from *)
  granted  (* pages that a client holds               *)

pageVars == <<free, granted>>

\* The maximal runs of consecutive free pages, as <<first, last>>.
Runs ==
  {r \in free \X free :
     /\ r[1] .. r[2] \subseteq free
     /\ r[1] <= r[2]
     /\ r[1] - 1 \notin free
     /\ r[2] + 1 \notin free}

Length(r) == r[2] - r[1] + 1

\* r is the run that a request for count pages is served from.
IsBestFit(r, count) ==
  /\ r \in Runs
  /\ Length(r) >= count
  /\ \A s \in Runs :
       Length(s) >= count =>
         \/ Length(r) < Length(s)
         \/ Length(r) = Length(s) /\ r[1] <= s[1]

Init ==
  /\ free \subseteq Pages
  /\ granted = {}

Request(count) ==
  \E r \in Runs :
    /\ IsBestFit(r, count)
    /\ free' = free \ (r[1] .. r[1] + count - 1)
    /\ granted' = granted \cup (r[1] .. r[1] + count - 1)

Release(first, count) ==
  LET released == first .. first + count - 1
  IN  /\ released \subseteq granted
      /\ granted' = granted \ released
      /\ free' = free \cup released

Next ==
  \E count \in 1 .. Cardinality(Pages) :
    \/ Request(count)
    \/ \E first \in Pages : Release(first, count)

Spec == Init /\ [][Next]_pageVars

-----------------------------------------------------------------------------
(* A best-fit allocator is a page allocator. *)

Allocator == INSTANCE PageAllocator

=============================================================================

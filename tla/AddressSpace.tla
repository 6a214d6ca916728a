--------------------------- MODULE AddressSpace ---------------------------
(***************************************************************************)
(* The virtual page manager, requestPages, freePages and                    *)
(* defragAddressSpaceList of src/src/boot/virtualmemmgmt.cpp, for one of    *)
(* its two address spaces (kernel or general): the code is the same, its    *)
(* list and its count differ.                                               *)
(*                                                                          *)
(* An address space is a vector of blocks that tile it from its first page  *)
(* to its last, available and used ones in turn.  The model has the         *)
(* capacity of that vector, because freePages writes through a reference    *)
(* into it after it has inserted.  An address is modelled by its page       *)
(* number; mapping the pages to frames is the business of PageTables.       *)
(***************************************************************************)

EXTENDS Integers, FiniteSets, SequencesExt

CONSTANTS
  InitialList,     (* the blocks that initialize() writes                   *)
  InitialCapacity  (* the size that the vector is constructed with          *)

Start == InitialList[1].base
End == Last(InitialList).base + Last(InitialList).pageCount
Pages == Start .. End - 1

PagesOfBlock(block) == block.base .. block.base + block.pageCount - 1

Blocks == [available : BOOLEAN, base : Start .. End, pageCount : 0 .. End - Start]

ASSUME ListAssumption ==
  /\ InitialList \in Seq([available : BOOLEAN, base : Nat, pageCount : Nat \ {0}])
  /\ Len(InitialList) > 1
  /\ Last(InitialList).available
  /\ \A i \in 1 .. Len(InitialList) - 1 :
       /\ InitialList[i].available # InitialList[i + 1].available
       /\ InitialList[i + 1].base = InitialList[i].base + InitialList[i].pageCount
  /\ InitialCapacity = Len(InitialList)

VARIABLES
  list,                (* kernelAddressSpaceList or generalAddressSpaceList *)
  capacity,            (* of that vector                                    *)
  pagesAvailableCount, (* kernelPagesAvailableCount, or general...          *)
  panicked,            (* why the kernel has panicked, or "no"              *)
  claims               (* how many clients hold each page: a history        *)
                       (* variable                                          *)

vars == <<list, capacity, pagesAvailableCount, panicked, claims>>

-----------------------------------------------------------------------------
(* The vector *)

\* std::vector grows to twice its size when an insertion finds it full.
Grown(cap, size) == IF size > cap THEN 2 * (size - 1) ELSE cap

AvailableIn(l) == {p \in Pages : \E i \in DOMAIN l : l[i].available /\ p \in PagesOfBlock(l[i])}

-----------------------------------------------------------------------------
(* defragAddressSpaceList *)

\* A block of no pages goes, and one like the block before it becomes part of it.
WithBlock(merged, block) ==
  IF block.pageCount = 0 THEN merged
  ELSE IF merged # <<>> /\ Last(merged).available = block.available
  THEN [merged EXCEPT ![Len(merged)].pageCount = @ + block.pageCount]
  ELSE Append(merged, block)

\* What the first i blocks of l become, for each i.
Merged(l) ==
  LET merged[i \in 0 .. Len(l)] ==
        IF i = 0 THEN <<>> ELSE WithBlock(merged[i - 1], l[i])
  IN  merged

Defragmented(l) == Merged(l)[Len(l)]

\* The check counts the last block as available, whether it is or not.
TotalSeen(l) ==
  LET total[i \in 0 .. Len(l)] ==
        IF i = 0 THEN 0
        ELSE IF l[i].available \/ i = Len(l) THEN total[i - 1] + l[i].pageCount
        ELSE total[i - 1]
  IN  total[Len(l)]

ListMono(l) ==
  \A i \in 1 .. Len(l) - 1 :
    /\ l[i].pageCount # 0
    /\ l[i].available # l[i + 1].available
    /\ l[i + 1].base = l[i].base + l[i].pageCount

\* Mutant: only the total is checked.
RejectedByTotal(l, available) ==
  IF TotalSeen(l) # available THEN "total is wrong" ELSE "no"

\* Why the integrity check rejects list l with this many pages available.
Rejected(l, available) ==
  IF l[1].base # Start \/ ~ ListMono(l) \/ Last(l).pageCount = 0
  THEN "blocks are not in order"
  ELSE IF TotalSeen(l) # available THEN "total is wrong" ELSE "no"

\* Nothing runs after a panic, so the state that it stops in is left as it was.
Panic(why) ==
  /\ panicked' = why
  /\ UNCHANGED <<list, capacity, pagesAvailableCount, claims>>

\* The list l becomes the address space's list, defragmented, if it passes.
Install(l, cap, available, newClaims) ==
  LET defragmented == Defragmented(l)
      why == Rejected(defragmented, available)
  IN  IF why = "no"
      THEN /\ list' = defragmented
           /\ capacity' = cap
           /\ pagesAvailableCount' = available
           /\ claims' = newClaims
           /\ UNCHANGED panicked
      ELSE Panic(why)

ClaimsPlus(first, count, n) ==
  [p \in Pages |-> IF p \in first .. first + count - 1 THEN claims[p] + n ELSE claims[p]]

-----------------------------------------------------------------------------
(* requestPages *)

\* Mutant: blocks that are too small are not passed over.
FittingAny(count) == {i \in DOMAIN list : list[i].available}

Fitting(count) == {i \in DOMAIN list : list[i].available /\ list[i].pageCount >= count}

\* Mutant: the first block that is large enough.
FirstFitIndex(count) == CHOOSE i \in Fitting(count) : \A j \in Fitting(count) : i <= j

\* The first of the smallest blocks that are large enough.
BestFitIndex(count) ==
  CHOOSE i \in Fitting(count) :
    \A j \in Fitting(count) :
      \/ list[i].pageCount < list[j].pageCount
      \/ list[i].pageCount = list[j].pageCount /\ i <= j

\* The list with the first count pages of block i used.
Split(i, count) ==
  LET block == list[i]
      taken == [block EXCEPT !.available = FALSE, !.pageCount = count]
      rest == [block EXCEPT !.base = @ + count, !.pageCount = @ - count]
  IN  IF block.pageCount = count
      THEN [list EXCEPT ![i] = taken]
      ELSE InsertAt([list EXCEPT ![i] = taken], i + 1, rest)

\* Mutant: the address is read from the block after the one that was taken.
RequestPagesWrongBlock(count) ==
  /\ panicked = "no"
  /\ count # 0
  /\ count <= pagesAvailableCount
  /\ IF Fitting(count) = {}
     THEN Panic("no block fits")
     ELSE LET i == BestFitIndex(count)
              split == Split(i, count)
          IN  Install(split, Grown(capacity, Len(split)), pagesAvailableCount - count,
                      ClaimsPlus(list[i].base + count, count, 1))

RequestPages(count) ==
  /\ panicked = "no"
  /\ count # 0
  /\ count <= pagesAvailableCount
  /\ IF Fitting(count) = {}
     THEN Panic("no block fits")
     ELSE LET i == BestFitIndex(count)
              split == Split(i, count)
          IN  Install(split, Grown(capacity, Len(split)), pagesAvailableCount - count,
                      ClaimsPlus(list[i].base, count, 1))

-----------------------------------------------------------------------------
(* freePages *)

\* Mutant: a range at the end of its block is not found.
HoldingInside(first, count) ==
  {i \in DOMAIN list :
     list[i].base <= first /\ first + count < list[i].base + list[i].pageCount}

\* The blocks that hold the whole range.
Holding(first, count) ==
  {i \in DOMAIN list :
     list[i].base <= first /\ first + count <= list[i].base + list[i].pageCount}

\* What freePages makes of used block i: the range is available, what is
\* before and after it is not.
Cut(i, first, count) ==
  LET block == list[i]
      last == block.base + block.pageCount
  IN  [head   |-> [block EXCEPT !.pageCount = first - block.base],
       middle |-> [available |-> TRUE, base |-> first, pageCount |-> count],
       tail   |-> [available |-> FALSE, base |-> first + count,
                   pageCount |-> last - (first + count)]]

\* Two insertions, then the block itself is shortened, through a reference
\* that was taken before them: if they moved the vector, that write is lost.
CutList(i, first, count) ==
  LET cut == Cut(i, first, count)
      front == IF Len(list) + 2 > capacity THEN list[i] ELSE cut.head
  IN  SubSeq(list, 1, i - 1) \o <<front, cut.middle, cut.tail>>
        \o SubSeq(list, i + 1, Len(list))

\* A range that no block holds is ignored, with the same result as one that
\* was freed; the client has given it up all the same.
FreePages(first, count) ==
  LET i == Min(Holding(first, count))
      exact == list[i].base = first /\ list[i].pageCount = count
      freed == IF exact
               THEN [list EXCEPT ![i].available = TRUE]
               ELSE CutList(i, first, count)
      cap == IF exact
             THEN capacity
             ELSE Grown(Grown(capacity, Len(list) + 1), Len(list) + 2)
  IN  /\ panicked = "no"
      /\ count # 0
      /\ CASE Holding(first, count) = {} ->
                claims' = ClaimsPlus(first, count, -1)
                /\ UNCHANGED <<list, capacity, pagesAvailableCount, panicked>>
           [] Holding(first, count) # {} /\ list[i].available ->
                Panic("freed an available block")
           [] OTHER ->
                Install(freed, cap, pagesAvailableCount + count,
                        ClaimsPlus(first, count, -1))

-----------------------------------------------------------------------------
\* Clients give back pages that they were given, all at once or in parts.
Held(first, count) ==
  /\ first .. first + count - 1 \subseteq Pages
  /\ \A p \in first .. first + count - 1 : claims[p] > 0

Init ==
  /\ list = InitialList
  /\ capacity = InitialCapacity
  /\ pagesAvailableCount = Cardinality(AvailableIn(InitialList))
  /\ panicked = "no"
  /\ claims = [p \in Pages |-> 0]

Next ==
  \E count \in 1 .. End - Start :
    \/ RequestPages(count)
    \/ \E first \in Pages : Held(first, count) /\ FreePages(first, count)

Spec == Init /\ [][Next]_vars

-----------------------------------------------------------------------------
TypeOK ==
  /\ list \in Seq(Blocks)
  /\ capacity \in Nat
  /\ pagesAvailableCount \in 0 .. End - Start
  /\ panicked \in {"no", "no block fits", "freed an available block",
                   "blocks are not in order", "total is wrong"}
  /\ claims \in [Pages -> Nat]

\* The blocks tile the address space: whatever was split, cut and merged, no
\* page was lost or doubled, and the vector had room for every block.
BlocksTileTheSpace ==
  /\ \A p \in Pages : Cardinality({i \in DOMAIN list : p \in PagesOfBlock(list[i])}) = 1
  /\ UNION {PagesOfBlock(list[i]) : i \in DOMAIN list} = Pages
  /\ Len(list) <= capacity

\* No page is granted to two clients, a granted page is in a used block, and
\* a page that was used from the start is never granted.
NoDoubleGrant ==
  \A p \in Pages :
    /\ claims[p] <= 1
    /\ claims[p] = 1 => p \notin AvailableIn(list) /\ p \in AvailableIn(InitialList)

\* Nothing leaks: a page of the address space that is neither available nor
\* granted was used from the start, and the count that requestPages refuses
\* by agrees.
NothingLeaks ==
  /\ \A p \in AvailableIn(InitialList) : claims[p] = 0 => p \in AvailableIn(list)
  /\ pagesAvailableCount = Cardinality(AvailableIn(list))

\* The manager serves requests from the smallest run of free pages, splitting
\* and merging blocks as it may.
BestFit == INSTANCE BestFitAllocator WITH
  free <- AvailableIn(list),
  granted <- {p \in Pages : claims[p] > 0}

ImplementsBestFit == BestFit!Spec

\* defragAddressSpaceList asserts, as an integrity check, that the blocks are
\* in order: each starts where the one before it ends and they alternate.
BlocksStayInOrder == panicked # "blocks are not in order"

\* Comment of requestPages: it "Returns INVALID_ADDRESS and allocatedCount = 0
\* if request count is count == 0 or greater than currently available kernel
\* pages".  Any other request is to be served, not to stop the kernel.
AvailableCountsAreServed == panicked # "no block fits"

=============================================================================

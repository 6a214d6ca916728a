-------------------------- MODULE PhysicalMemory --------------------------
(***************************************************************************)
(* The physical page manager, src/src/boot/phymemmgmt.cpp.                  *)
(*                                                                          *)
(* One bitmap per buddy order: bit b of order k stands for the pages        *)
(* b * 2^k .. (b + 1) * 2^k - 1 and is set when the buddy may not be handed *)
(* out.  A bitmap is modelled by the set of its set bits.  A request either *)
(* asks for contiguous pages (first fit over order 0, above 1 MiB) or is    *)
(* served from the bitmap of the closest buddy size.                        *)
(*                                                                          *)
(* An address is modelled by its page number.                               *)
(***************************************************************************)

EXTENDS Integers, FiniteSets

CONSTANTS
  PagesTotal,  (* phyMemPagesTotalCount                                     *)
  MaxOrder,    (* PHY_MEM_BUDDY_MAX_ORDER - 1, the order of the largest     *)
               (* buddies                                                   *)
  BitsPerByte, (* bits per unit of a bitmap: its size is rounded up to this *)
  LowPages,    (* MIB_2 / 2 / pageSize, where contiguous requests start     *)
  Reserved     (* the pages that initialize() marks used                    *)

Orders == 0 .. MaxOrder
Pages == 0 .. PagesTotal - 1

buddySizes[k \in Orders] == IF k = 0 THEN 1 ELSE 2 * buddySizes[k - 1]

ASSUME ConstantsAssumption ==
  /\ PagesTotal \in Nat
  /\ MaxOrder \in Nat
  /\ BitsPerByte \in Nat \ {0}
  /\ LowPages \in Nat
  /\ Reserved \subseteq Pages

(***************************************************************************)
(* The code neither checks nor ensures that memory ends on a boundary of    *)
(* its largest buddies.  It does on machines whose map ends at 4 GiB or at  *)
(* a multiple of 2 MiB; the model stays with those.                         *)
(***************************************************************************)
ASSUME MemoryAlignment ==
  \E n \in 0 .. PagesTotal : PagesTotal = n * buddySizes[MaxOrder]

VARIABLES
  buddyBitmaps,              (* the set of set bits of each order           *)
  phyMemPagesAvailableCount, (* pages that are not marked used              *)
  claims                     (* of each page, how many clients hold it: a   *)
                             (* history variable                            *)

vars == <<buddyBitmaps, phyMemPagesAvailableCount, claims>>

-----------------------------------------------------------------------------
(* Indexing: BuddyBitmapIndex and the bitmap sizes. *)

\* The buddy of order k that page p lies in.
BuddyOf(p, k) == p \div buddySizes[k]

\* The pages of buddy b of order k.
PagesOfBuddy(b, k) == b * buddySizes[k] .. (b + 1) * buddySizes[k] - 1

\* The number of bits a bitmap has: whole bytes, so the last byte may hold
\* bits of buddies that do not exist.
BitmapBits(k) ==
  LET required == PagesTotal \div buddySizes[k]
  IN  BitsPerByte * ((required + BitsPerByte - 1) \div BitsPerByte)

ClearBits(k) == (0 .. BitmapBits(k) - 1) \ buddyBitmaps[k]

Lowest(S) == CHOOSE x \in S : \A y \in S : x <= y

-----------------------------------------------------------------------------
(* markPages *)

\* Mutant: only the first buddy is followed up.
TouchedFirstOnly(first, last, k) == {BuddyOf(first, k)}

\* The buddies of order k that the pages first .. last touch.
Touched(first, last, k) == BuddyOf(first, k) .. BuddyOf(last, k)

\* Mutant: the higher orders are not updated.
SyncedNot(first, last, lowest) ==
  [k \in Orders |-> IF k = 0 THEN lowest ELSE buddyBitmaps[k]]

\* Higher orders follow the order below them, from the bottom up: a buddy is
\* set once one of its halves is.  Nothing here clears a bit.
Synced(first, last, lowest) ==
  LET synced[k \in Orders] ==
        IF k = 0
        THEN lowest
        ELSE LET below == synced[k - 1]
             IN  buddyBitmaps[k] \cup
                   {b \in Touched(first, last, k) :
                      2 * b \in below \/ 2 * b + 1 \in below}
  IN  synced

\* Mutant: addresses beyond the end of memory are marked as well.
MarkUsedUnchecked(first, count) ==
  LET marked == first .. first + count - 1
  IN  /\ buddyBitmaps' = Synced(first, first + count - 1, buddyBitmaps[0] \cup marked)
      /\ phyMemPagesAvailableCount' =
           phyMemPagesAvailableCount - Cardinality(marked \ buddyBitmaps[0])

MarkUsed(first, count) ==
  LET marked == first .. first + count - 1
  IN  IF first < PagesTotal
      THEN /\ buddyBitmaps' = Synced(first, first + count - 1,
                                     buddyBitmaps[0] \cup marked)
           /\ phyMemPagesAvailableCount' =
                phyMemPagesAvailableCount - Cardinality(marked \ buddyBitmaps[0])
      ELSE UNCHANGED <<buddyBitmaps, phyMemPagesAvailableCount>>

\* Mutant: the count of available pages is not put back.
MarkFreeUncounted(first, count) ==
  /\ buddyBitmaps' = Synced(first, first + count - 1,
                            buddyBitmaps[0] \ (first .. first + count - 1))
  /\ UNCHANGED phyMemPagesAvailableCount

MarkFree(first, count) ==
  LET marked == first .. first + count - 1
  IN  /\ buddyBitmaps' = Synced(first, first + count - 1,
                                buddyBitmaps[0] \ marked)
      /\ phyMemPagesAvailableCount' =
           phyMemPagesAvailableCount + Cardinality(marked \cap buddyBitmaps[0])

-----------------------------------------------------------------------------
(* requestPages *)

\* The pages of a grant are held by the client that asked for them.
Claim(first, count) ==
  claims' = [p \in Pages |->
               IF p \in first .. first + count - 1 THEN claims[p] + 1 ELSE claims[p]]

Refused(count) == count = 0 \/ count > phyMemPagesAvailableCount

\* Mutant: the last page of the run is not looked at.
FreeRunsShort(count) ==
  {first \in LowPages .. PagesTotal - count :
     first .. first + count - 2 \subseteq Pages \ buddyBitmaps[0]}

\* Where a run of count free pages above the first MiB starts.
FreeRuns(count) ==
  {first \in LowPages .. PagesTotal - count :
     first .. first + count - 1 \subseteq Pages \ buddyBitmaps[0]}

\* RequestType::PhysicalContiguous: the first run that is long enough.
RequestContiguous(count) ==
  /\ ~ Refused(count)
  /\ FreeRuns(count) # {}
  /\ LET first == Lowest(FreeRuns(count))
     IN  MarkUsed(first, count) /\ Claim(first, count)

\* Mutant: the smallest order that holds count pages, whatever it wastes.
ClosestLevelAbove(count) == Lowest({k \in Orders : count <= buddySizes[k]})

\* The smallest order that holds count pages, or the one below it when a
\* quarter of that buddy or more than a quarter would be wasted.
ClosestLevel(count) ==
  LET level == Lowest({k \in Orders : count <= buddySizes[k]})
      perfectFit == count = buddySizes[level]
  IN  IF ~ perfectFit /\ count - buddySizes[level - 1] < buddySizes[level - 2]
      THEN level - 1
      ELSE level

\* The orders from the closest one down in which some bit is clear.
ServingOrders(count) == {k \in 0 .. ClosestLevel(count) : ClearBits(k) # {}}

\* The order and the bit that a request without PhysicalContiguous is served
\* from: the largest order not above the closest one, its first clear bit.
ServingOrder(count) ==
  CHOOSE k \in ServingOrders(count) : \A j \in ServingOrders(count) : j <= k

ServingBuddy(count) == Lowest(ClearBits(ServingOrder(count)))

RequestBuddy(count) ==
  /\ ~ Refused(count)
  /\ count <= buddySizes[MaxOrder]
  /\ ServingOrders(count) # {}
  /\ LET size == buddySizes[ServingOrder(count)]
         first == ServingBuddy(count) * size
     IN  MarkUsed(first, size) /\ Claim(first, size)

-----------------------------------------------------------------------------
(* Every caller gives back one page at a time: Virtual::unmapPages. *)

FreePage(p) ==
  /\ claims[p] > 0
  /\ MarkFree(p, 1)
  /\ claims' = [claims EXCEPT ![p] = @ - 1]

-----------------------------------------------------------------------------
\* The state that initialize() leaves: it marks the reserved pages one range
\* after the other in bitmaps that are all clear.
Init ==
  /\ buddyBitmaps = [k \in Orders |-> {BuddyOf(p, k) : p \in Reserved}]
  /\ phyMemPagesAvailableCount = PagesTotal - Cardinality(Reserved)
  /\ claims = [p \in Pages |-> 0]

Next ==
  \/ \E count \in 1 .. PagesTotal : RequestContiguous(count)
  \/ \E count \in 1 .. buddySizes[MaxOrder] : RequestBuddy(count)
  \/ \E p \in Pages : FreePage(p)

Spec == Init /\ [][Next]_vars

-----------------------------------------------------------------------------
TypeOK ==
  /\ buddyBitmaps \in [Orders -> SUBSET Nat]
  /\ buddyBitmaps[0] \subseteq Pages
  /\ phyMemPagesAvailableCount \in 0 .. PagesTotal
  /\ claims \in [Pages -> Nat]

\* No page is held by two clients of requestPages, and a page that a client
\* holds is marked used and was not reserved at boot.  The two ways to ask
\* search different bitmaps and mark the same pages: this fails as soon as
\* one of them misses what the other one did.
NoDoubleAllocation ==
  \A p \in Pages :
    /\ claims[p] <= 1
    /\ claims[p] = 1 => p \in buddyBitmaps[0] /\ p \notin Reserved

\* phyMemPagesAvailableCount, kept by increments and decrements in markPages,
\* is the number of clear bits of order 0: it is what requestPages refuses by.
AvailableIsFreeCount ==
  phyMemPagesAvailableCount = Cardinality(Pages \ buddyBitmaps[0])

\* A clear bit of any order promises that the whole buddy is free, so every
\* buddy that a used page lies in is set: requestPages takes a clear bit of a
\* high order without looking at the orders below it.
UsedPageMarksItsBuddies ==
  \A k \in Orders : \A p \in buddyBitmaps[0] : BuddyOf(p, k) \in buddyBitmaps[k]

\* The counts that a request without PhysicalContiguous would be served now.
ServedCounts ==
  {count \in 1 .. buddySizes[MaxOrder] :
     ~ Refused(count) /\ ServingOrders(count) # {}}

\* Comment of requestPages: a buddy is handed out whole unless more than a
\* quarter of it would be wasted.  So at most a quarter of any grant is waste,
\* whichever order the search ends in.
WasteIsAtMostAQuarter ==
  \A count \in ServedCounts :
    LET size == buddySizes[ServingOrder(count)]
    IN  4 * (size - count) <= size

\* The manager grants and releases pages the way any page manager does: free
\* are the clear bits of order 0, granted what the clients hold.
Allocator == INSTANCE PageAllocator WITH
  free <- Pages \ buddyBitmaps[0],
  granted <- {p \in Pages : claims[p] > 0}

ImplementsPageAllocator == Allocator!Spec

\* Comment of requestPages: "Actual number of pages assigned is returned in
\* allocatedCount".  Pages can be assigned only where there is memory and
\* where nobody holds them, and allocatedCount is the size of the buddy.
AllocatedCountIsActual ==
  \A count \in ServedCounts :
    PagesOfBuddy(ServingBuddy(count), ServingOrder(count))
      \subseteq Pages \ buddyBitmaps[0]

=============================================================================

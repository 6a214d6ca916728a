----------------------- MODULE PhysicalMemoryProofs -----------------------
(***************************************************************************)
(* Proofs about PhysicalMemory, for every size of memory, every number of   *)
(* orders and every set of reserved pages.                                  *)
(***************************************************************************)

EXTENDS PhysicalMemory, FiniteSetTheorems, NaturalFacts, TLAPS

-----------------------------------------------------------------------------
(* Arithmetic *)

\* Lowest picks the least element of a nonempty set of naturals.
LEMMA LowestIsLeast ==
  ASSUME NEW S \in SUBSET Nat, S # {}
  PROVE  Lowest(S) \in S /\ \A y \in S : Lowest(S) <= y
BY LeastNatural DEF Lowest

\* Division is monotonic.
LEMMA DivisionMonotonic ==
  ASSUME NEW p \in Nat, NEW q \in Nat, p <= q, NEW s \in Nat \ {0}
  PROVE  p \div s <= q \div s
<1> DEFINE a == p \div s
           b == q \div s
<1>1. /\ a \in Nat /\ s * a <= p
      /\ b \in Nat /\ q < s * b + s
  BY Division
<1> HIDE DEF a, b
<1>2. CASE b < a
  <2>1. b + 1 <= a
    BY <1>1, <1>2
  <2>2. s * (b + 1) <= s * a
    BY <2>1, <1>1
  <2>3. s * (b + 1) = s * b + s
    BY <1>1
  <2> QED BY <1>1, <2>2, <2>3
<1>3. a <= b
  BY <1>1, <1>2
<1> QED BY <1>3 DEF a, b

\* The half of a buddy that a page lies in lies in that buddy.
LEMMA DivisionTwice ==
  ASSUME NEW p \in Nat, NEW s \in Nat \ {0}
  PROVE  /\ (p \div s) \div 2 = p \div (2 * s)
         /\ \/ p \div s = 2 * (p \div (2 * s))
            \/ p \div s = 2 * (p \div (2 * s)) + 1
<1> DEFINE c == p \div s
           b == c \div 2
<1>1. c \in Nat /\ s * c <= p /\ p < s * c + s
  BY Division
<1> HIDE DEF c
<1>2. b \in Nat /\ (c = 2 * b \/ c = 2 * b + 1)
  BY <1>1
<1> HIDE DEF b
<1>3. (2 * s) * b <= p /\ p < (2 * s) * b + 2 * s
  <2>1. CASE c = 2 * b
    <3>1. s * c = (2 * s) * b
      BY <2>1, <1>2
    <3> QED BY <3>1, <1>1, <1>2
  <2>2. CASE c = 2 * b + 1
    <3>1. s * c = (2 * s) * b + s
      BY <2>2, <1>2
    <3> QED BY <3>1, <1>1, <1>2
  <2> QED BY <2>1, <2>2, <1>2
<1>4. p \div (2 * s) = b
  BY <1>2, <1>3, DivisionUnique, 2 * s \in Nat \ {0}
<1> QED BY <1>2, <1>4 DEF b, c

-----------------------------------------------------------------------------
(* The sizes of the buddies *)

\* The order below an order above the first one is an order.
LEMMA OrderBelow ==
  \A k \in Orders \ {0} : k - 1 \in Orders
BY ConstantsAssumption DEF Orders

\* buddySizes is the function that its recursive definition describes.
LEMMA BuddySizesDefined ==
  buddySizes = [k \in Orders |-> IF k = 0 THEN 1 ELSE 2 * buddySizes[k - 1]]
<1> DEFINE Upto(g, n) ==
             g = [k \in 0 .. n |-> IF k = 0 THEN 1 ELSE 2 * g[k - 1]]
           Missing == {n \in Nat : ~ \E g : Upto(g, n)}
<1>1. Missing = {}
  <2> SUFFICES ASSUME Missing # {}
               PROVE  FALSE
    OBVIOUS
  <2>1. PICK n \in Missing : \A m \in Missing : n <= m
    <3>1. Missing \in SUBSET Nat
      OBVIOUS
    <3> HIDE DEF Missing
    <3> QED BY <3>1, LeastNatural
  <2>2. n \in Nat
    OBVIOUS
  <2>3. CASE n = 0
    <3>1. Upto([k \in 0 .. 0 |-> 1], 0)
      OBVIOUS
    <3> QED BY <3>1, <2>3
  <2>4. CASE n > 0
    <3>0. n - 1 \in Nat /\ ~ (n <= n - 1)
      BY <2>2, <2>4
    <3>1. \E h : Upto(h, n - 1)
      BY <3>0, <2>1 DEF Missing
    <3>2. PICK h : Upto(h, n - 1)
      BY <3>1
    <3> DEFINE g == [k \in 0 .. n |-> IF k = 0 THEN 1 ELSE 2 * h[k - 1]]
    <3>3. \A k \in 0 .. n : k # 0 => g[k - 1] = h[k - 1]
      <4> SUFFICES ASSUME NEW k \in 0 .. n, k # 0
                   PROVE  g[k - 1] = h[k - 1]
        OBVIOUS
      <4>1. k - 1 \in 0 .. n /\ k - 1 \in 0 .. n - 1
        BY <2>2
      <4> QED BY <4>1, <3>2
    <3>4. g = [k \in 0 .. n |-> IF k = 0 THEN 1 ELSE 2 * g[k - 1]]
      <4> HIDE <3>2
      <4>1. \A k \in 0 .. n : (IF k = 0 THEN 1 ELSE 2 * h[k - 1])
                              = (IF k = 0 THEN 1 ELSE 2 * g[k - 1])
        <5> HIDE DEF g
        <5> QED BY <3>3
      <4> QED BY <4>1
    <3> HIDE DEF g
    <3> QED BY <3>4, <2>2
  <2> QED BY <2>2, <2>3, <2>4
<1>2. \E g : Upto(g, MaxOrder)
  BY <1>1, ConstantsAssumption
<1> QED
  BY <1>2 DEF buddySizes, Orders

\* They are positive, and each order doubles the one below it.
LEMMA BuddySizes ==
  /\ \A k \in Orders : buddySizes[k] \in Nat \ {0}
  /\ buddySizes[0] = 1
  /\ \A k \in Orders \ {0} : buddySizes[k] = 2 * buddySizes[k - 1]
<1>1. /\ buddySizes[0] = 1
      /\ \A k \in Orders \ {0} : buddySizes[k] = 2 * buddySizes[k - 1]
  BY BuddySizesDefined, ConstantsAssumption DEF Orders
<1> DEFINE Bad == {k \in Orders : buddySizes[k] \notin Nat \ {0}}
<1>2. Bad = {}
  <2> SUFFICES ASSUME Bad # {}
               PROVE  FALSE
    OBVIOUS
  <2>1. PICK k \in Bad : \A j \in Bad : k <= j
    <3>1. Bad \in SUBSET Nat
      BY DEF Orders
    <3> HIDE DEF Bad
    <3> QED BY <3>1, LeastNatural
  <2>2. k \in Orders \ {0}
    BY <1>1
  <2>3. k - 1 \in Orders /\ ~ (k <= k - 1)
    BY <2>2, OrderBelow DEF Orders
  <2>4. k - 1 \notin Bad
    BY <2>1, <2>3
  <2> QED BY <1>1, <2>2, <2>3, <2>4
<1> QED
  BY <1>1, <1>2

\* Memory is a whole number of buddies of every order, not only of the
\* largest ones.
LEMMA MemoryIsWholeBuddies ==
  \A k \in Orders : \E n \in Nat : PagesTotal = n * buddySizes[k]
<1> DEFINE Whole(k) == \E n \in Nat : PagesTotal = n * buddySizes[k]
           Bad == {j \in Nat : j <= MaxOrder /\ ~ Whole(MaxOrder - j)}
<1>1. Bad = {}
  <2> SUFFICES ASSUME Bad # {}
               PROVE  FALSE
    OBVIOUS
  <2>1. PICK j \in Bad : \A i \in Bad : j <= i
    <3>1. Bad \in SUBSET Nat
      OBVIOUS
    <3> HIDE DEF Bad
    <3> QED BY <3>1, LeastNatural
  <2>2. j # 0
    <3>1. Whole(MaxOrder - 0)
      BY MemoryAlignment, ConstantsAssumption
    <3> QED BY <3>1
  <2>3. Whole(MaxOrder - (j - 1))
    BY <2>1, <2>2, ConstantsAssumption
  <2> DEFINE k == MaxOrder - (j - 1)
  <2>4. k \in Orders \ {0} /\ k - 1 = MaxOrder - j
    BY <2>2, ConstantsAssumption DEF Orders
  <2>5. buddySizes[k] = 2 * buddySizes[k - 1] /\ buddySizes[k - 1] \in Nat
    BY <2>4, BuddySizes, OrderBelow
  <2>6. PICK n \in Nat : PagesTotal = n * buddySizes[k]
    BY <2>3
  <2>7. PagesTotal = (2 * n) * buddySizes[k - 1]
    BY <2>5, <2>6
  <2>8. 2 * n \in Nat
    OBVIOUS
  <2> QED BY <2>4, <2>7, <2>8
<1>2. \A k \in Orders : MaxOrder - k \in Nat /\ MaxOrder - k <= MaxOrder
                        /\ MaxOrder - (MaxOrder - k) = k
  BY ConstantsAssumption DEF Orders
<1> HIDE DEF Whole
<1>3. \A k \in Orders : Whole(k)
  BY <1>1, <1>2
<1> QED
  BY <1>3 DEF Whole

\* So a buddy whose first page exists lies in memory entirely.
LEMMA BuddyInMemory ==
  ASSUME NEW k \in Orders, NEW b \in Nat, b * buddySizes[k] < PagesTotal
  PROVE  b * buddySizes[k] + buddySizes[k] <= PagesTotal
<1> DEFINE s == buddySizes[k]
<1>1. s \in Nat \ {0}
  BY BuddySizes
<1>2. PICK n \in Nat : PagesTotal = n * s
  BY MemoryIsWholeBuddies
<1>0. b * s < n * s
  BY <1>2
<1> HIDE DEF s
<1>3. CASE n <= b
  <2>1. n * s <= b * s
    BY <1>1, <1>3
  <2> QED BY <2>1, <1>1, <1>0
<1>4. CASE b + 1 <= n
  <2>1. (b + 1) * s <= n * s
    BY <1>1, <1>4
  <2>2. (b + 1) * s = b * s + s
    BY <1>1
  <2> QED BY <2>1, <2>2, <1>2 DEF s
<1> QED
  BY <1>3, <1>4

-----------------------------------------------------------------------------
(* Synchronising the higher orders *)

\* Synced is the function that its recursive definition describes.
LEMMA SyncedDefined ==
  ASSUME NEW STATE first, NEW STATE last, NEW STATE lowest
  PROVE  Synced(first, last, lowest) =
           [k \in Orders |->
              IF k = 0
              THEN lowest
              ELSE buddyBitmaps[k] \cup
                     {b \in Touched(first, last, k) :
                        \/ 2 * b \in Synced(first, last, lowest)[k - 1]
                        \/ 2 * b + 1 \in Synced(first, last, lowest)[k - 1]}]
<1> DEFINE Add(k, below) ==
             buddyBitmaps[k] \cup {b \in Touched(first, last, k) :
                                     2 * b \in below \/ 2 * b + 1 \in below}
           Upto(g, n) ==
             g = [k \in 0 .. n |-> IF k = 0 THEN lowest ELSE Add(k, g[k - 1])]
           Missing == {n \in Nat : ~ \E g : Upto(g, n)}
<1>1. Missing = {}
  <2> SUFFICES ASSUME Missing # {}
               PROVE  FALSE
    OBVIOUS
  <2>1. PICK n \in Missing : \A m \in Missing : n <= m
    <3>1. Missing \in SUBSET Nat
      OBVIOUS
    <3> HIDE DEF Missing
    <3> QED BY <3>1, LeastNatural
  <2>2. n \in Nat
    OBVIOUS
  <2>3. CASE n = 0
    <3>1. Upto([k \in 0 .. 0 |-> lowest], 0)
      OBVIOUS
    <3> QED BY <3>1, <2>3
  <2>4. CASE n > 0
    <3> HIDE DEF Add
    <3>0. n - 1 \in Nat /\ ~ (n <= n - 1)
      BY <2>2, <2>4
    <3>1. \E h : Upto(h, n - 1)
      BY <3>0, <2>1 DEF Missing
    <3>2. PICK h : Upto(h, n - 1)
      BY <3>1
    <3> DEFINE g == [k \in 0 .. n |-> IF k = 0 THEN lowest ELSE Add(k, h[k - 1])]
    <3>3. \A k \in 0 .. n : k # 0 => g[k - 1] = h[k - 1]
      <4> SUFFICES ASSUME NEW k \in 0 .. n, k # 0
                   PROVE  g[k - 1] = h[k - 1]
        OBVIOUS
      <4>1. k - 1 \in 0 .. n /\ k - 1 \in 0 .. n - 1
        BY <2>2
      <4> QED BY <4>1, <3>2
    <3>4. g = [k \in 0 .. n |-> IF k = 0 THEN lowest ELSE Add(k, g[k - 1])]
      <4>1. \A k \in 0 .. n : (IF k = 0 THEN lowest ELSE Add(k, h[k - 1]))
                              = (IF k = 0 THEN lowest ELSE Add(k, g[k - 1]))
        <5> HIDE DEF g
        <5> QED BY <3>3
      <4> QED BY <4>1
    <3> HIDE DEF g
    <3> QED BY <3>4, <2>2
  <2> QED BY <2>2, <2>3, <2>4
<1>2. \E g : Upto(g, MaxOrder)
  BY <1>1, ConstantsAssumption
<1> QED
  BY <1>2 DEF Synced, Orders

\* The bit of a buddy is set if the bit of one of its halves is.
HalfMarksWhole(bitmaps) ==
  \A k \in Orders \ {0} : \A b \in Nat :
    2 * b \in bitmaps[k - 1] \/ 2 * b + 1 \in bitmaps[k - 1] => b \in bitmaps[k]

\* markPages leaves bitmaps of which that is true, whatever range of pages it
\* sets or clears in order 0.
LEMMA SyncedMarksWhole ==
  ASSUME NEW STATE first, first \in Nat, NEW STATE last, last \in Nat,
         NEW STATE lowest, lowest \in SUBSET Nat,
         lowest \ buddyBitmaps[0] \subseteq first .. last,
         buddyBitmaps \in [Orders -> SUBSET Nat],
         HalfMarksWhole(buddyBitmaps)
  PROVE  LET bitmaps == Synced(first, last, lowest)
         IN  /\ bitmaps \in [Orders -> SUBSET Nat]
             /\ bitmaps[0] = lowest
             /\ HalfMarksWhole(bitmaps)
<1> DEFINE S == Synced(first, last, lowest)
<1>1. S = [k \in Orders |->
             IF k = 0
             THEN lowest
             ELSE buddyBitmaps[k] \cup
                    {b \in Touched(first, last, k) :
                       2 * b \in S[k - 1] \/ 2 * b + 1 \in S[k - 1]}]
  BY SyncedDefined
<1> HIDE DEF S
<1>0. \A k \in Orders \ {0} :
        S[k] = buddyBitmaps[k] \cup
                 {b \in Touched(first, last, k) :
                    2 * b \in S[k - 1] \/ 2 * b + 1 \in S[k - 1]}
  BY <1>1
<1>2. 0 \in Orders
  BY ConstantsAssumption DEF Orders
<1>3. \A k \in Orders : Touched(first, last, k) \subseteq Nat
  BY BuddySizes, Division DEF Touched, BuddyOf
<1>4. S[0] = lowest
  BY <1>1, <1>2
<1>5. S \in [Orders -> SUBSET Nat]
  BY <1>1, <1>3
<1>6. \A k \in Orders : \A c \in S[k] :
        c \in buddyBitmaps[k] \/ c \in Touched(first, last, k)
  <2> SUFFICES ASSUME NEW k \in Orders, NEW c \in S[k]
               PROVE  c \in buddyBitmaps[k] \/ c \in Touched(first, last, k)
    OBVIOUS
  <2>1. CASE k = 0
    <3>1. Touched(first, last, 0) = first .. last
      BY BuddySizes, DivisionUnique DEF Touched, BuddyOf
    <3> QED BY <3>1, <2>1, <1>4
  <2>2. CASE k # 0
    BY <2>2, <1>1
  <2> QED BY <2>1, <2>2
<1>7. HalfMarksWhole(S)
  <2> SUFFICES ASSUME NEW k \in Orders \ {0}, NEW b \in Nat, NEW c \in {2 * b, 2 * b + 1},
                      c \in S[k - 1]
               PROVE  b \in S[k]
    BY DEF HalfMarksWhole
  <2>0. k - 1 \in Orders
    BY OrderBelow
  <2>1. CASE c \in buddyBitmaps[k - 1]
    <3>1. b \in buddyBitmaps[k]
      BY <2>1 DEF HalfMarksWhole
    <3> QED BY <3>1, <1>1
  <2>2. CASE c \in Touched(first, last, k - 1)
    <3> DEFINE s == buddySizes[k - 1]
    <3>1. s \in Nat \ {0} /\ buddySizes[k] = 2 * s
      BY <2>0, BuddySizes
    <3>2. first \div s <= c /\ c <= last \div s
      BY <2>2 DEF Touched, BuddyOf
    <3>3. /\ first \div s \in Nat /\ last \div s \in Nat
          /\ (first \div s) \div 2 = first \div (2 * s)
          /\ (last \div s) \div 2 = last \div (2 * s)
      BY <3>1, Division, DivisionTwice
    <3>4. c \in Nat /\ c \div 2 = b
      OBVIOUS
    <3>5. first \div (2 * s) <= b /\ b <= last \div (2 * s)
      <4> HIDE DEF s
      <4>1. (first \div s) \div 2 <= c \div 2 /\ c \div 2 <= (last \div s) \div 2
        BY <3>2, <3>3, <3>4, DivisionMonotonic, 2 \in Nat \ {0}
      <4> QED BY <4>1, <3>3, <3>4
    <3>6. b \in Touched(first, last, k)
      <4>1. first \div (2 * s) \in Int /\ last \div (2 * s) \in Int
        BY <3>3
      <4> QED BY <3>1, <3>5, <4>1 DEF Touched, BuddyOf
    <3>7. 2 * b \in S[k - 1] \/ 2 * b + 1 \in S[k - 1]
      OBVIOUS
    <3> QED BY <3>6, <3>7, <1>0
  <2> QED BY <2>0, <2>1, <2>2, <1>6
<1> QED
  BY <1>4, <1>5, <1>7 DEF S

\* From order to order upwards, the bits of all buddies around a used page are
\* set.
LEMMA WholeMarksAll ==
  ASSUME buddyBitmaps \in [Orders -> SUBSET Nat],
         buddyBitmaps[0] \subseteq Pages,
         HalfMarksWhole(buddyBitmaps)
  PROVE  UsedPageMarksItsBuddies
<1> SUFFICES ASSUME NEW p \in buddyBitmaps[0]
             PROVE  \A k \in Orders : BuddyOf(p, k) \in buddyBitmaps[k]
  BY DEF UsedPageMarksItsBuddies
<1>0. p \in Nat
  BY DEF Pages
<1> DEFINE Bad == {k \in Orders : BuddyOf(p, k) \notin buddyBitmaps[k]}
<1>1. Bad = {}
  <2> SUFFICES ASSUME Bad # {}
               PROVE  FALSE
    OBVIOUS
  <2>1. PICK k \in Bad : \A j \in Bad : k <= j
    <3>1. Bad \in SUBSET Nat
      BY DEF Orders
    <3> HIDE DEF Bad
    <3> QED BY <3>1, LeastNatural
  <2>2. k # 0
    BY <1>0, BuddySizes, DivisionUnique DEF BuddyOf
  <2>3. k - 1 \in Orders /\ ~ (k <= k - 1)
    BY <2>2, OrderBelow DEF Orders
  <2>4. BuddyOf(p, k - 1) \in buddyBitmaps[k - 1]
    BY <2>1, <2>3
  <2>5. /\ BuddyOf(p, k) \in Nat
        /\ \/ BuddyOf(p, k - 1) = 2 * BuddyOf(p, k)
           \/ BuddyOf(p, k - 1) = 2 * BuddyOf(p, k) + 1
    <3>1. buddySizes[k - 1] \in Nat \ {0} /\ buddySizes[k] = 2 * buddySizes[k - 1]
      BY <2>2, <2>3, BuddySizes
    <3>2. /\ p \div (2 * buddySizes[k - 1]) \in Nat
          /\ \/ p \div buddySizes[k - 1] = 2 * (p \div (2 * buddySizes[k - 1]))
             \/ p \div buddySizes[k - 1] = 2 * (p \div (2 * buddySizes[k - 1])) + 1
      BY <1>0, <3>1, Division, DivisionTwice, 2 * buddySizes[k - 1] \in Nat \ {0}
    <3> QED BY <3>1, <3>2 DEF BuddyOf
  <2>6. BuddyOf(p, k) \in buddyBitmaps[k]
    BY <2>2, <2>4, <2>5 DEF HalfMarksWhole
  <2> QED BY <2>6
<1> QED
  BY <1>1

-----------------------------------------------------------------------------
(* The inductive invariant *)

\* NoDoubleAllocation is not inductive alone: that a clear bit of a high
\* order covers free pages only rests on the bitmaps agreeing from order to
\* order, and that a released page was not a reserved one on reserved pages
\* staying used.
IInv ==
  /\ TypeOK
  /\ HalfMarksWhole(buddyBitmaps)
  /\ AvailableIsFreeCount
  /\ NoDoubleAllocation
  /\ Reserved \subseteq buddyBitmaps[0]

\* The pages of the memory are a finite set of PagesTotal elements.
LEMMA PagesFinite ==
  /\ IsFiniteSet(Pages)
  /\ Cardinality(Pages) = PagesTotal
BY FS_Interval, ConstantsAssumption DEF Pages

\* A count of free pages is between 0 and the number of pages.
LEMMA FreeCountBound ==
  ASSUME NEW S
  PROVE  /\ IsFiniteSet(Pages \ S)
         /\ Cardinality(Pages \ S) \in 0 .. PagesTotal
<1>1. Pages \ S \in SUBSET Pages
  OBVIOUS
<1>2. IsFiniteSet(Pages \ S) /\ Cardinality(Pages \ S) <= PagesTotal
  BY <1>1, PagesFinite, FS_Subset
<1> QED
  BY <1>2, FS_CardinalityType, ConstantsAssumption

\* Marking pages used, all of them in memory.
LEMMA MarkUsedStep ==
  ASSUME TypeOK, HalfMarksWhole(buddyBitmaps), AvailableIsFreeCount,
         NEW STATE first, first \in Nat, NEW STATE count, count \in Nat \ {0},
         first + count <= PagesTotal,
         MarkUsed(first, count)
  PROVE  /\ buddyBitmaps' \in [Orders -> SUBSET Nat]
         /\ buddyBitmaps'[0] = buddyBitmaps[0] \cup (first .. first + count - 1)
         /\ buddyBitmaps'[0] \subseteq Pages
         /\ HalfMarksWhole(buddyBitmaps')
         /\ phyMemPagesAvailableCount' = Cardinality(Pages \ buddyBitmaps'[0])
<1> DEFINE marked == first .. first + count - 1
           lowest == buddyBitmaps[0] \cup marked
<1>1. first < PagesTotal
  BY ConstantsAssumption
<1>2. /\ buddyBitmaps' = Synced(first, first + count - 1, lowest)
      /\ phyMemPagesAvailableCount' =
           phyMemPagesAvailableCount - Cardinality(marked \ buddyBitmaps[0])
  BY <1>1 DEF MarkUsed
<1>3. marked \subseteq Pages
  BY ConstantsAssumption DEF Pages
<1>4. /\ first + count - 1 \in Nat
      /\ lowest \in SUBSET Nat
      /\ lowest \ buddyBitmaps[0] \subseteq first .. first + count - 1
  BY DEF TypeOK, Pages
<1>5. /\ buddyBitmaps' \in [Orders -> SUBSET Nat]
      /\ buddyBitmaps'[0] = lowest
      /\ HalfMarksWhole(buddyBitmaps')
  <2>1. buddyBitmaps \in [Orders -> SUBSET Nat]
    BY DEF TypeOK
  <2> HIDE DEF lowest
  <2> QED BY <1>2, <1>4, <2>1, SyncedMarksWhole
<1>6. phyMemPagesAvailableCount' = Cardinality(Pages \ lowest)
  <2> DEFINE F == Pages \ buddyBitmaps[0]
  <2>1. F \cap marked = marked \ buddyBitmaps[0]
    BY <1>3
  <2>2. F \ marked = Pages \ lowest
    OBVIOUS
  <2>3. IsFiniteSet(F)
    BY FreeCountBound
  <2>4. Cardinality(F \ marked) = Cardinality(F) - Cardinality(F \cap marked)
    <3> HIDE DEF F, marked
    <3> QED BY <2>3, FS_Difference
  <2>5. phyMemPagesAvailableCount = Cardinality(F)
    BY DEF AvailableIsFreeCount
  <2> QED BY <1>2, <2>1, <2>2, <2>4, <2>5
<1> QED
  BY <1>3, <1>5, <1>6 DEF TypeOK

\* Marking one page free.
LEMMA MarkFreeStep ==
  ASSUME TypeOK, HalfMarksWhole(buddyBitmaps), AvailableIsFreeCount,
         NEW p \in Pages,
         MarkFree(p, 1)
  PROVE  /\ buddyBitmaps' \in [Orders -> SUBSET Nat]
         /\ buddyBitmaps'[0] = buddyBitmaps[0] \ {p}
         /\ HalfMarksWhole(buddyBitmaps')
         /\ phyMemPagesAvailableCount' = Cardinality(Pages \ buddyBitmaps'[0])
<1>0. p \in Nat /\ p .. p + 1 - 1 = {p} /\ p + 1 - 1 = p
  BY DEF Pages
<1> DEFINE lowest == buddyBitmaps[0] \ {p}
           freed == {p} \cap buddyBitmaps[0]
<1>1. /\ buddyBitmaps' = Synced(p, p, lowest)
      /\ phyMemPagesAvailableCount' = phyMemPagesAvailableCount + Cardinality(freed)
  BY <1>0 DEF MarkFree
<1>2. lowest \in SUBSET Nat /\ lowest \ buddyBitmaps[0] \subseteq p .. p
  BY DEF TypeOK, Pages
<1>3. /\ buddyBitmaps' \in [Orders -> SUBSET Nat]
      /\ buddyBitmaps'[0] = lowest
      /\ HalfMarksWhole(buddyBitmaps')
  <2>1. buddyBitmaps \in [Orders -> SUBSET Nat]
    BY DEF TypeOK
  <2> HIDE DEF lowest
  <2> QED BY <1>0, <1>1, <1>2, <2>1, SyncedMarksWhole
<1>4. phyMemPagesAvailableCount' = Cardinality(Pages \ lowest)
  <2> DEFINE F == Pages \ buddyBitmaps[0]
  <2>1. F \cup freed = Pages \ lowest /\ F \cap freed = {}
    OBVIOUS
  <2>2. IsFiniteSet(F) /\ Cardinality(F) \in Nat
    BY FreeCountBound
  <2>3. IsFiniteSet(freed) /\ Cardinality(freed) \in Nat
    <3>1. freed \in SUBSET {p}
      OBVIOUS
    <3>2. IsFiniteSet({p})
      BY FS_Singleton
    <3> HIDE DEF freed
    <3> QED BY <3>1, <3>2, FS_Subset, FS_CardinalityType
  <2>4. Cardinality(F \cup freed) = Cardinality(F) + Cardinality(freed)
    <3> HIDE DEF F, freed
    <3>1. Cardinality(F \cup freed) =
            Cardinality(F) + Cardinality(freed) - Cardinality(F \cap freed)
      BY <2>2, <2>3, FS_Union
    <3>2. Cardinality(F \cap freed) = 0
      BY <2>1, FS_EmptySet
    <3> QED BY <2>2, <2>3, <3>1, <3>2
  <2>5. phyMemPagesAvailableCount = Cardinality(F)
    BY DEF AvailableIsFreeCount
  <2> QED BY <1>1, <2>1, <2>4, <2>5
<1> QED
  BY <1>3, <1>4

\* A grant of pages that are free and in memory preserves the invariant.
LEMMA GrantStep ==
  ASSUME IInv,
         NEW STATE first, first \in Nat, NEW STATE count, count \in Nat \ {0},
         first + count <= PagesTotal,
         (first .. first + count - 1) \cap buddyBitmaps[0] = {},
         MarkUsed(first, count), Claim(first, count)
  PROVE  IInv'
<1> DEFINE marked == first .. first + count - 1
<1>1. /\ buddyBitmaps' \in [Orders -> SUBSET Nat]
      /\ buddyBitmaps'[0] = buddyBitmaps[0] \cup marked
      /\ buddyBitmaps'[0] \subseteq Pages
      /\ HalfMarksWhole(buddyBitmaps')
      /\ phyMemPagesAvailableCount' = Cardinality(Pages \ buddyBitmaps'[0])
  BY MarkUsedStep DEF IInv
<1>2. phyMemPagesAvailableCount' \in 0 .. PagesTotal
  BY <1>1, FreeCountBound
<1>3. claims' = [p \in Pages |-> IF p \in marked THEN claims[p] + 1 ELSE claims[p]]
  BY DEF Claim
<1>4. claims' \in [Pages -> Nat]
  BY <1>3 DEF IInv, TypeOK
<1>5. NoDoubleAllocation'
  <2> SUFFICES ASSUME NEW p \in Pages
               PROVE  /\ claims'[p] <= 1
                      /\ claims'[p] = 1 => p \in buddyBitmaps'[0] /\ p \notin Reserved
    BY DEF NoDoubleAllocation
  <2>1. /\ claims[p] \in Nat /\ claims[p] <= 1
        /\ claims[p] = 1 => p \in buddyBitmaps[0] /\ p \notin Reserved
        /\ p \in Reserved => p \in buddyBitmaps[0]
    BY DEF IInv, TypeOK, NoDoubleAllocation
  <2>2. CASE p \in marked
    <3>1. p \notin buddyBitmaps[0] /\ claims[p] = 0
      BY <2>1, <2>2
    <3>2. claims'[p] = 1
      BY <1>3, <2>2, <3>1
    <3> HIDE DEF marked
    <3> QED BY <1>1, <2>1, <2>2, <3>1, <3>2
  <2>3. CASE p \notin marked
    <3>1. claims'[p] = claims[p]
      BY <1>3, <2>3
    <3> HIDE DEF marked
    <3> QED BY <1>1, <2>1, <3>1
  <2> QED BY <2>2, <2>3
<1>6. Reserved \subseteq buddyBitmaps'[0]
  BY <1>1 DEF IInv
<1> QED
  BY <1>1, <1>2, <1>4, <1>5, <1>6 DEF IInv, TypeOK, AvailableIsFreeCount

-----------------------------------------------------------------------------
(* What a request is served from *)

\* A contiguous request takes free pages in memory.
LEMMA ContiguousServed ==
  ASSUME NEW count \in 1 .. PagesTotal, FreeRuns(count) # {}
  PROVE  /\ Lowest(FreeRuns(count)) \in Nat
         /\ Lowest(FreeRuns(count)) + count <= PagesTotal
         /\ (Lowest(FreeRuns(count)) .. Lowest(FreeRuns(count)) + count - 1)
              \cap buddyBitmaps[0] = {}
<1>1. FreeRuns(count) \in SUBSET Nat
  BY ConstantsAssumption DEF FreeRuns
<1>2. PICK first : first = Lowest(FreeRuns(count))
  OBVIOUS
<1>3. first \in FreeRuns(count)
  BY <1>1, <1>2, LowestIsLeast
<1>4. /\ first \in LowPages .. PagesTotal - count
      /\ first .. first + count - 1 \subseteq Pages \ buddyBitmaps[0]
  BY <1>3 DEF FreeRuns
<1>5. /\ first \in Nat /\ first + count <= PagesTotal
      /\ (first .. first + count - 1) \cap buddyBitmaps[0] = {}
  BY <1>4, ConstantsAssumption
<1> QED
  BY <1>2, <1>5

\* The search for a buddy starts at an order that exists.
LEMMA ClosestLevelBound ==
  ASSUME NEW count \in 1 .. buddySizes[MaxOrder]
  PROVE  /\ ClosestLevel(count) \in Int
         /\ ClosestLevel(count) <= MaxOrder
<1> DEFINE Fitting == {k \in Orders : count <= buddySizes[k]}
<1>1. Fitting \in SUBSET Nat /\ Fitting # {}
  BY ConstantsAssumption, BuddySizes DEF Orders
<1>2. Lowest(Fitting) \in Fitting
  <2> HIDE DEF Fitting
  <2> QED BY <1>1, LowestIsLeast
<1>3. Lowest(Fitting) \in Orders
  BY <1>2
<1> HIDE DEF Fitting
<1>4. ClosestLevel(count) \in {Lowest(Fitting), Lowest(Fitting) - 1}
  BY DEF ClosestLevel, Fitting
<1> QED
  BY <1>3, <1>4, ConstantsAssumption DEF Orders

\* It ends in an order that exists, if in any.
LEMMA ServingOrderExists ==
  ASSUME NEW count \in 1 .. buddySizes[MaxOrder], ServingOrders(count) # {}
  PROVE  /\ ServingOrder(count) \in Orders
         /\ ServingOrder(count) <= ClosestLevel(count)
         /\ ClearBits(ServingOrder(count)) # {}
<1> DEFINE S == ServingOrders(count)
           Depths == {d \in Nat : \E k \in S : d = MaxOrder - k}
<1>1. S \subseteq Orders
  BY ClosestLevelBound, ConstantsAssumption DEF ServingOrders, Orders
<1>2. \A k \in S : k \in Int /\ k <= MaxOrder
  BY <1>1 DEF Orders
<1> HIDE DEF S
<1>3. Depths \in SUBSET Nat /\ Depths # {}
  <2>1. PICK k \in S : TRUE
    BY DEF S
  <2>2. MaxOrder - k \in Depths
    BY <1>2, ConstantsAssumption
  <2> QED BY <2>2
<1>4. PICK d \in Depths : \A e \in Depths : d <= e
  <2> HIDE DEF Depths
  <2> QED BY <1>3, LeastNatural
<1>5. PICK k \in S : d = MaxOrder - k
  OBVIOUS
<1>6. \A j \in S : j <= k
  <2> SUFFICES ASSUME NEW j \in S
               PROVE  j <= k
    OBVIOUS
  <2>1. MaxOrder - j \in Depths
    BY <1>2, ConstantsAssumption
  <2>2. d <= MaxOrder - j
    BY <1>4, <2>1
  <2> QED BY <1>2, <1>5, <2>2, ConstantsAssumption
<1>7. ServingOrder(count) \in S
  BY <1>5, <1>6 DEF ServingOrder, S
<1> QED
  BY <1>1, <1>7 DEF S, ServingOrders

\* The largest buddy that a request may be given is not the smallest one that
\* holds it unless it fills three quarters of that.
LEMMA ClosestLevelWaste ==
  ASSUME NEW count \in 1 .. buddySizes[MaxOrder],
         NEW k \in Orders, k <= ClosestLevel(count)
  PROVE  4 * (buddySizes[k] - count) <= buddySizes[k]
<1> DEFINE Fitting == {j \in Orders : count <= buddySizes[j]}
           level == Lowest(Fitting)
<1>1. Fitting \in SUBSET Nat /\ Fitting # {}
  BY ConstantsAssumption, BuddySizes DEF Orders
<1>2. level \in Fitting /\ \A j \in Fitting : level <= j
  <2> HIDE DEF Fitting
  <2> QED BY <1>1, LowestIsLeast
<1>3. level \in Orders /\ count <= buddySizes[level]
  BY <1>2
<1>4. ASSUME k < level
      PROVE  buddySizes[k] < count
  <2>1. k \notin Fitting
    BY <1>2, <1>3, <1>4 DEF Orders
  <2> HIDE DEF level
  <2> QED BY <2>1, BuddySizes
<1>5. ClosestLevel(count) =
        IF count # buddySizes[level] /\ count - buddySizes[level - 1] < buddySizes[level - 2]
        THEN level - 1 ELSE level
  BY DEF ClosestLevel
<1> HIDE DEF level
<1>6. CASE k < level
  BY <1>4, <1>6, BuddySizes
<1>7. CASE k >= level
  <2>1. k = level /\ (count = buddySizes[level]
                       \/ ~ (count - buddySizes[level - 1] < buddySizes[level - 2]))
    BY <1>3, <1>5, <1>7 DEF Orders
  <2>2. CASE count = buddySizes[level]
    BY <2>1, <2>2, BuddySizes
  <2>3. CASE count # buddySizes[level]
    <3>1. level # 0
      BY <1>3, <2>3, BuddySizes
    <3>2. level - 1 \in Orders /\ level - 1 < level
      BY <1>3, <3>1, OrderBelow DEF Orders
    <3>3. buddySizes[level - 1] < count
      <4>1. level - 1 \notin Fitting
        BY <1>2, <1>3, <3>2 DEF Orders
      <4> QED BY <3>2, <4>1, BuddySizes
    <3>4. level # 1
      BY <1>3, <2>3, <3>3, BuddySizes
    <3>5. level - 2 \in Orders
      BY <1>3, <3>1, <3>4, ConstantsAssumption DEF Orders
    <3>6. /\ buddySizes[level] = 2 * buddySizes[level - 1]
          /\ buddySizes[level - 1] = 2 * buddySizes[level - 2]
      <4>1. level - 1 \in Orders \ {0} /\ (level - 1) - 1 = level - 2
        BY <1>3, <3>2, <3>4 DEF Orders
      <4>2. buddySizes[level - 1] = 2 * buddySizes[(level - 1) - 1]
        BY <4>1, BuddySizes
      <4> QED BY <1>3, <3>1, <4>1, <4>2, BuddySizes
    <3>7. buddySizes[level - 2] \in Nat
      BY <3>5, BuddySizes
    <3> QED BY <2>1, <2>3, <3>6, <3>7
  <2> QED BY <2>2, <2>3
<1> QED
  BY <1>3, <1>6, <1>7 DEF Orders

\* The buddy it finds holds no used page.
LEMMA ServingBuddyIsFree ==
  ASSUME TypeOK, UsedPageMarksItsBuddies,
         NEW k \in Orders, ClearBits(k) # {}
  PROVE  LET first == Lowest(ClearBits(k)) * buddySizes[k]
         IN  /\ Lowest(ClearBits(k)) \in Nat
             /\ first \in Nat
             /\ (first .. first + buddySizes[k] - 1) \cap buddyBitmaps[0] = {}
<1> DEFINE b == Lowest(ClearBits(k))
           s == buddySizes[k]
<1>1. ClearBits(k) \in SUBSET Nat
  BY DEF ClearBits
<1>2. b \in ClearBits(k)
  BY <1>1, LowestIsLeast
<1>3. b \in Nat /\ b \notin buddyBitmaps[k]
  BY <1>1, <1>2 DEF ClearBits
<1>4. s \in Nat \ {0}
  BY BuddySizes
<1> HIDE DEF b
<1>5. ASSUME NEW p \in b * s .. b * s + s - 1, p \in buddyBitmaps[0]
      PROVE  FALSE
  <2>1. p \in Nat
    BY <1>5 DEF TypeOK, Pages
  <2>2. BuddyOf(p, k) \in buddyBitmaps[k]
    BY <1>5 DEF UsedPageMarksItsBuddies
  <2>3. b * s \in Nat /\ b * s = s * b
    BY <1>3, <1>4
  <2>4. p \div s = b
    <3>1. s * b <= p /\ p < s * b + s
      BY <2>1, <2>3, <1>4
    <3> HIDE DEF s
    <3> QED BY <3>1, <2>1, <1>3, <1>4, DivisionUnique
  <2> QED BY <2>2, <2>4, <1>3 DEF BuddyOf
<1>6. b * s \in Nat
  BY <1>3, <1>4
<1> QED
  BY <1>3, <1>5, <1>6 DEF b

-----------------------------------------------------------------------------
(* The invariant holds *)

\* What initialize() leaves satisfies the invariant.
LEMMA InitEstablishes ==
  Init => IInv
<1> SUFFICES ASSUME Init
             PROVE  IInv
  OBVIOUS
<1>1. \A p \in Reserved : p \in Nat
  BY ConstantsAssumption DEF Pages
<1>2. 0 \in Orders
  BY ConstantsAssumption DEF Orders
<1>3. buddyBitmaps[0] = Reserved
  <2>1. \A p \in Reserved : BuddyOf(p, 0) = p
    BY <1>1, BuddySizes, DivisionUnique DEF BuddyOf
  <2>2. buddyBitmaps[0] = {BuddyOf(p, 0) : p \in Reserved}
    BY <1>2 DEF Init
  <2> QED BY <2>1, <2>2
<1>4. buddyBitmaps \in [Orders -> SUBSET Nat]
  <2>1. \A k \in Orders : \A p \in Reserved : BuddyOf(p, k) \in Nat
    BY <1>1, BuddySizes, Division DEF BuddyOf
  <2> QED BY <2>1 DEF Init
<1>5. HalfMarksWhole(buddyBitmaps)
  <2> SUFFICES ASSUME NEW k \in Orders \ {0}, NEW b \in Nat, NEW c \in {2 * b, 2 * b + 1},
                      c \in buddyBitmaps[k - 1]
               PROVE  b \in buddyBitmaps[k]
    BY DEF HalfMarksWhole
  <2>1. k - 1 \in Orders
    BY OrderBelow
  <2>2. PICK p \in Reserved : c = BuddyOf(p, k - 1)
    BY <2>1 DEF Init
  <2>3. buddySizes[k - 1] \in Nat \ {0} /\ buddySizes[k] = 2 * buddySizes[k - 1]
    BY <2>1, BuddySizes
  <2>4. (p \div buddySizes[k - 1]) \div 2 = p \div (2 * buddySizes[k - 1])
    BY <1>1, <2>3, DivisionTwice
  <2>5. c \div 2 = b
    OBVIOUS
  <2>6. BuddyOf(p, k) = b
    BY <2>2, <2>3, <2>4, <2>5 DEF BuddyOf
  <2> QED BY <2>6 DEF Init
<1>6. phyMemPagesAvailableCount = Cardinality(Pages \ Reserved)
  <2>1. Pages \cap Reserved = Reserved
    BY ConstantsAssumption
  <2>2. Cardinality(Pages \ Reserved) = Cardinality(Pages) - Cardinality(Pages \cap Reserved)
    BY PagesFinite, FS_Difference
  <2> QED BY <2>1, <2>2, PagesFinite DEF Init
<1>7. claims = [p \in Pages |-> 0]
  BY DEF Init
<1> QED
  BY <1>3, <1>4, <1>5, <1>6, <1>7, FreeCountBound, ConstantsAssumption
  DEF IInv, TypeOK, AvailableIsFreeCount, NoDoubleAllocation

\* Every request and every release preserves the invariant.
LEMMA NextPreserves ==
  IInv /\ [Next]_vars => IInv'
<1> SUFFICES ASSUME IInv, [Next]_vars
             PROVE  IInv'
  OBVIOUS
<1>0. UsedPageMarksItsBuddies
  BY WholeMarksAll DEF IInv, TypeOK
<1>1. ASSUME NEW count \in 1 .. PagesTotal, RequestContiguous(count)
      PROVE  IInv'
  <2> DEFINE first == Lowest(FreeRuns(count))
  <2>1. FreeRuns(count) # {} /\ MarkUsed(first, count) /\ Claim(first, count)
    BY <1>1 DEF RequestContiguous
  <2>2. /\ first \in Nat
        /\ first + count <= PagesTotal
        /\ (first .. first + count - 1) \cap buddyBitmaps[0] = {}
    BY <2>1, ContiguousServed
  <2>3. count \in Nat \ {0}
    OBVIOUS
  <2> HIDE DEF first
  <2> QED BY <2>1, <2>2, <2>3, GrantStep
<1>2. ASSUME NEW count \in 1 .. buddySizes[MaxOrder], RequestBuddy(count)
      PROVE  IInv'
  <2> DEFINE k == ServingOrder(count)
             b == Lowest(ClearBits(k))
             s == buddySizes[k]
             first == b * s
  <2>1. ServingOrders(count) # {} /\ MarkUsed(first, s) /\ Claim(first, s)
    BY <1>2 DEF RequestBuddy, ServingBuddy
  <2>2. k \in Orders /\ ClearBits(k) # {}
    BY <2>1, ServingOrderExists
  <2> HIDE DEF k
  <2>3. s \in Nat \ {0}
    BY <2>2, BuddySizes
  <2>4. /\ b \in Nat /\ first \in Nat
        /\ (first .. first + s - 1) \cap buddyBitmaps[0] = {}
    BY <2>2, <1>0, ServingBuddyIsFree DEF IInv
  <2> HIDE DEF b
  <2>5. CASE first < PagesTotal
    <3>1. first + s <= PagesTotal
      BY <2>2, <2>4, <2>5, BuddyInMemory
    <3> HIDE DEF first, s
    <3> QED BY <2>1, <2>3, <2>4, <3>1, GrantStep
  <2>6. CASE ~ (first < PagesTotal)
    <3>1. buddyBitmaps' = buddyBitmaps
          /\ phyMemPagesAvailableCount' = phyMemPagesAvailableCount
      BY <2>1, <2>6 DEF MarkUsed
    <3>2. claims' = claims
      <4>1. \A p \in Pages : p \notin first .. first + s - 1
        BY <2>4, <2>6, ConstantsAssumption DEF Pages
      <4>2. claims' = [p \in Pages |-> claims[p]]
        BY <2>1, <4>1 DEF Claim
      <4> QED BY <4>2 DEF IInv, TypeOK
    <3> QED BY <3>1, <3>2
            DEF IInv, TypeOK, AvailableIsFreeCount, NoDoubleAllocation, HalfMarksWhole
  <2> QED BY <2>5, <2>6
<1>3. ASSUME NEW p \in Pages, FreePage(p)
      PROVE  IInv'
  <2>1. /\ buddyBitmaps' \in [Orders -> SUBSET Nat]
        /\ buddyBitmaps'[0] = buddyBitmaps[0] \ {p}
        /\ HalfMarksWhole(buddyBitmaps')
        /\ phyMemPagesAvailableCount' = Cardinality(Pages \ buddyBitmaps'[0])
    BY <1>3, MarkFreeStep DEF IInv, FreePage
  <2>2. claims[p] = 1 /\ p \notin Reserved
    BY <1>3 DEF FreePage, IInv, TypeOK, NoDoubleAllocation
  <2>3. /\ claims' \in [Pages -> Nat]
        /\ claims'[p] = 0
        /\ \A q \in Pages \ {p} : claims'[q] = claims[q]
    BY <1>3, <2>2 DEF FreePage, IInv, TypeOK
  <2>4. phyMemPagesAvailableCount' \in 0 .. PagesTotal
    BY <2>1, FreeCountBound
  <2>5. NoDoubleAllocation'
    BY <2>1, <2>3 DEF NoDoubleAllocation, IInv
  <2>6. Reserved \subseteq buddyBitmaps'[0]
    BY <2>1, <2>2 DEF IInv
  <2> QED
    BY <2>1, <2>3, <2>4, <2>5, <2>6 DEF IInv, TypeOK, AvailableIsFreeCount
<1>4. CASE UNCHANGED vars
  BY <1>4
  DEF vars, IInv, TypeOK, AvailableIsFreeCount, NoDoubleAllocation, HalfMarksWhole
<1> QED
  BY <1>1, <1>2, <1>3, <1>4 DEF Next

\* So it holds in every state the manager reaches.
LEMMA InvariantHolds ==
  Spec => []IInv
BY InitEstablishes, NextPreserves, PTL DEF Spec

\* In the terms of the abstract allocator, such a grant takes pages from the
\* free ones to the granted ones.
LEMMA GrantMapsToGrant ==
  ASSUME IInv, IInv',
         NEW STATE first, first \in Nat, NEW STATE count, count \in Nat \ {0},
         first + count <= PagesTotal,
         (first .. first + count - 1) \cap buddyBitmaps[0] = {},
         MarkUsed(first, count), Claim(first, count)
  PROVE  Allocator!Grant
<1> DEFINE marked == first .. first + count - 1
           freePages == Pages \ buddyBitmaps[0]
           grantedPages == {p \in Pages : claims[p] > 0}
<1>1. buddyBitmaps'[0] = buddyBitmaps[0] \cup marked
  BY MarkUsedStep DEF IInv
<1>2. marked \subseteq freePages /\ marked # {}
  <2>1. first \in marked
    OBVIOUS
  <2>2. marked \subseteq Pages
    BY ConstantsAssumption DEF Pages
  <2> QED BY <2>1, <2>2
<1>3. \A p \in Pages : claims'[p] > 0 <=> claims[p] > 0 \/ p \in marked
  BY DEF Claim, IInv, TypeOK
<1> HIDE DEF marked
<1>4. freePages' = freePages \ marked /\ freePages \ freePages' = marked
  BY <1>1, <1>2
<1>5. grantedPages' = grantedPages \cup marked
  BY <1>2, <1>3
<1>6. freePages' \in (SUBSET freePages) \ {freePages}
  BY <1>2, <1>4
<1> QED
  BY <1>4, <1>5, <1>6 DEF Allocator!Grant

-----------------------------------------------------------------------------
(* The theorems *)

\* The bitmaps, the count and the claims keep their types: in particular the
\* count stays between 0 and the number of pages, so the decrements and
\* increments of markPages never wrap.
THEOREM TypeCorrect ==
  Spec => []TypeOK
BY InvariantHolds, PTL DEF IInv

\* The count that requestPages refuses by is the number of free pages.
THEOREM AvailableCorrect ==
  Spec => []AvailableIsFreeCount
BY InvariantHolds, PTL DEF IInv

\* The bitmaps of the higher orders never show a buddy with a used page free.
THEOREM BuddiesCorrect ==
  Spec => []UsedPageMarksItsBuddies
<1>1. IInv => UsedPageMarksItsBuddies
  BY WholeMarksAll DEF IInv, TypeOK
<1> QED
  BY <1>1, InvariantHolds, PTL

\* No page is granted to two clients, whichever mix of contiguous and buddy
\* requests and of releases page by page came before.
THEOREM NoPageGrantedTwice ==
  Spec => []NoDoubleAllocation
BY InvariantHolds, PTL DEF IInv

\* Whichever order the search for a buddy ends in, at most a quarter of what
\* is handed out was not asked for.
THEOREM WasteBounded ==
  Spec => []WasteIsAtMostAQuarter
<1>1. WasteIsAtMostAQuarter
  <2> SUFFICES ASSUME NEW count \in ServedCounts
               PROVE  4 * (buddySizes[ServingOrder(count)] - count)
                        <= buddySizes[ServingOrder(count)]
    BY DEF WasteIsAtMostAQuarter
  <2>1. count \in 1 .. buddySizes[MaxOrder] /\ ServingOrders(count) # {}
    BY DEF ServedCounts
  <2> QED BY <2>1, ServingOrderExists, ClosestLevelWaste
<1> QED
  BY <1>1, PTL

\* The buddy bitmaps implement the abstract page allocator.
THEOREM PhysicalImplementsAllocator ==
  Spec => ImplementsPageAllocator
<1> DEFINE freePages == Pages \ buddyBitmaps[0]
           grantedPages == {p \in Pages : claims[p] > 0}
<1>1. Init => Allocator!Init
  BY DEF Init, Allocator!Init
<1>2. IInv /\ IInv' /\ [Next]_vars => [Allocator!Next]_(Allocator!pageVars)
  <2> SUFFICES ASSUME IInv, IInv', [Next]_vars
               PROVE  \/ Allocator!Grant
                      \/ Allocator!Release
                      \/ UNCHANGED Allocator!pageVars
    BY DEF Allocator!Next
  <2>1. ASSUME NEW count \in 1 .. PagesTotal, RequestContiguous(count)
        PROVE  Allocator!Grant
    <3> DEFINE first == Lowest(FreeRuns(count))
    <3>1. FreeRuns(count) # {} /\ MarkUsed(first, count) /\ Claim(first, count)
      BY <2>1 DEF RequestContiguous
    <3>2. /\ first \in Nat
          /\ first + count <= PagesTotal
          /\ (first .. first + count - 1) \cap buddyBitmaps[0] = {}
      BY <3>1, ContiguousServed
    <3>3. count \in Nat \ {0}
      OBVIOUS
    <3> HIDE DEF first
    <3> QED BY <3>1, <3>2, <3>3, GrantMapsToGrant
  <2>2. ASSUME NEW count \in 1 .. buddySizes[MaxOrder], RequestBuddy(count)
        PROVE  Allocator!Grant \/ UNCHANGED Allocator!pageVars
    <3> DEFINE k == ServingOrder(count)
               b == Lowest(ClearBits(k))
               s == buddySizes[k]
               first == b * s
    <3>1. ServingOrders(count) # {} /\ MarkUsed(first, s) /\ Claim(first, s)
      BY <2>2 DEF RequestBuddy, ServingBuddy
    <3>2. k \in Orders /\ ClearBits(k) # {}
      BY <3>1, ServingOrderExists
    <3> HIDE DEF k
    <3>3. s \in Nat \ {0}
      BY <3>2, BuddySizes
    <3>4. /\ b \in Nat /\ first \in Nat
          /\ (first .. first + s - 1) \cap buddyBitmaps[0] = {}
      BY <3>2, ServingBuddyIsFree, WholeMarksAll DEF IInv, TypeOK
    <3> HIDE DEF b
    <3>5. CASE first < PagesTotal
      <4>1. first + s <= PagesTotal
        BY <3>2, <3>4, <3>5, BuddyInMemory
      <4> HIDE DEF first, s
      <4> QED BY <3>1, <3>3, <3>4, <4>1, GrantMapsToGrant
    <3>6. CASE ~ (first < PagesTotal)
      <4>1. buddyBitmaps' = buddyBitmaps
        BY <3>1, <3>6 DEF MarkUsed
      <4>2. \A p \in Pages : p \notin first .. first + s - 1
        BY <3>4, <3>6, ConstantsAssumption DEF Pages
      <4>3. \A p \in Pages : claims'[p] = claims[p]
        BY <3>1, <4>2 DEF Claim
      <4> QED BY <4>1, <4>3 DEF Allocator!pageVars
    <3> QED BY <3>5, <3>6
  <2>3. ASSUME NEW p \in Pages, FreePage(p)
        PROVE  Allocator!Release
    <3>1. buddyBitmaps'[0] = buddyBitmaps[0] \ {p}
      BY <2>3, MarkFreeStep DEF IInv, FreePage
    <3>2. claims[p] = 1 /\ p \in buddyBitmaps[0]
      BY <2>3 DEF FreePage, IInv, TypeOK, NoDoubleAllocation
    <3>3. claims'[p] = 0 /\ \A q \in Pages \ {p} : claims'[q] = claims[q]
      BY <2>3, <3>2 DEF FreePage, IInv, TypeOK
    <3>4. grantedPages' = grantedPages \ {p} /\ p \in grantedPages
      BY <3>2, <3>3
    <3>5. freePages' = freePages \cup {p}
      BY <3>1
    <3>6. grantedPages \ grantedPages' = {p}
      BY <3>4
    <3> QED
      BY <3>4, <3>5, <3>6 DEF Allocator!Release
  <2>4. CASE UNCHANGED vars
    BY <2>4 DEF vars, Allocator!pageVars
  <2> QED
    BY <2>1, <2>2, <2>3, <2>4 DEF Next
<1> QED
  BY <1>1, <1>2, InvariantHolds, PTL
  DEF Spec, ImplementsPageAllocator, Allocator!Spec

=============================================================================

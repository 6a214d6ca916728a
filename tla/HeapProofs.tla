----------------------------- MODULE HeapProofs -----------------------------
(***************************************************************************)
(* Proofs about Heap, for every size of the region, of its headers and of   *)
(* the entry table and for every set of sizes that clients ask for.         *)
(***************************************************************************)

EXTENDS Heap, FiniteSetTheorems, NaturalFacts, TLAPS

-----------------------------------------------------------------------------
(* Regions: what follows holds of any entries, be they those of the heap's  *)
(* region before a step or after it.                                        *)

Tiles(sizes) ==
  /\ sizes \in [DOMAIN sizes -> Nat \ {0}]
  /\ DOMAIN sizes \subseteq Addresses
  /\ HeaderSize \in DOMAIN sizes
  /\ \A e \in DOMAIN sizes : EndOf(sizes, e) \in DOMAIN sizes \cup {RegionSize}
  /\ \A e, f \in DOMAIN sizes : e < f => EndOf(sizes, e) <= f

PayloadIn(sizes, e) == e + 1 .. e + sizes[e]

FreeIn(sizes, taken) == UNION {PayloadIn(sizes, e) : e \in DOMAIN sizes \ taken}

\* Entry e made count units long, with a new entry for the rest of it.
SplitAt(sizes, e, count) ==
  [f \in DOMAIN sizes \cup {e + 1 + count} |->
     CASE f = e             -> count
       [] f = e + 1 + count -> sizes[e] - count - 1
       [] OTHER             -> sizes[f]]

\* Addresses and sizes in a tiled region are numbers within it.
LEMMA TilesBounds ==
  ASSUME NEW sizes, Tiles(sizes), NEW e \in DOMAIN sizes
  PROVE  /\ e \in Nat /\ HeaderSize <= e /\ e < RegionSize
         /\ sizes[e] \in Nat \ {0}
         /\ e + sizes[e] < RegionSize
<1>1. e \in Nat /\ HeaderSize <= e /\ e < RegionSize
  BY RegionAssumption DEF Tiles, Addresses
<1>2. sizes[e] \in Nat \ {0}
  BY DEF Tiles
<1>3. EndOf(sizes, e) <= RegionSize
  BY <1>1, RegionAssumption DEF Tiles, Addresses
<1> QED
  BY <1>1, <1>2, <1>3, RegionAssumption DEF EndOf

\* Payloads of different entries have nothing in common, nor does a payload
\* contain the header of an entry.
LEMMA PayloadsDisjoint ==
  ASSUME NEW sizes, Tiles(sizes), NEW e \in DOMAIN sizes, NEW f \in DOMAIN sizes, e # f
  PROVE  /\ PayloadIn(sizes, e) \cap PayloadIn(sizes, f) = {}
         /\ f \notin PayloadIn(sizes, e)
<1>1. /\ e \in Nat /\ sizes[e] \in Nat \ {0}
      /\ f \in Nat /\ sizes[f] \in Nat \ {0}
  BY TilesBounds
<1>2. CASE e < f
  <2>1. e + 1 + sizes[e] <= f
    BY <1>2 DEF Tiles, EndOf
  <2> QED BY <1>1, <2>1 DEF PayloadIn
<1>3. CASE f < e
  <2>1. f + 1 + sizes[f] <= e
    BY <1>3 DEF Tiles, EndOf
  <2> QED BY <1>1, <2>1 DEF PayloadIn
<1> QED
  BY <1>1, <1>2, <1>3

\* Splitting an entry leaves a region that is tiled.
LEMMA SplitTiles ==
  ASSUME NEW sizes, Tiles(sizes), NEW e \in DOMAIN sizes,
         NEW count \in Nat \ {0}, sizes[e] >= count + 2
  PROVE  /\ e + 1 + count \notin DOMAIN sizes
         /\ Tiles(SplitAt(sizes, e, count))
<1> DEFINE rest == e + 1 + count
           after == SplitAt(sizes, e, count)
<1>1. e \in Nat /\ sizes[e] \in Nat \ {0} /\ HeaderSize <= e /\ e + sizes[e] < RegionSize
  BY TilesBounds
<1>2. rest \in Nat /\ e < rest /\ rest < e + sizes[e]
  BY <1>1
<1>3. rest \notin DOMAIN sizes
  <2>1. rest \in PayloadIn(sizes, e) /\ rest # e
    BY <1>1, <1>2 DEF PayloadIn
  <2> QED BY <2>1, PayloadsDisjoint
<1>4. /\ DOMAIN after = DOMAIN sizes \cup {rest}
      /\ after[e] = count
      /\ after[rest] = sizes[e] - count - 1
      /\ \A f \in DOMAIN sizes \ {e} : after[f] = sizes[f]
  BY <1>1, <1>2, <1>3 DEF SplitAt
<1>5. after = [f \in DOMAIN after |-> after[f]]
  BY DEF SplitAt
<1> HIDE DEF after
<1>6. after \in [DOMAIN after -> Nat \ {0}]
  <2>1. \A f \in DOMAIN sizes : sizes[f] \in Nat \ {0}
    BY DEF Tiles
  <2>2. \A f \in DOMAIN after : after[f] \in Nat \ {0}
    BY <2>1, <1>1, <1>2, <1>4
  <2> QED BY <2>2, <1>5
<1>7. DOMAIN after \subseteq Addresses
  BY <1>1, <1>2, <1>4, RegionAssumption DEF Tiles, Addresses
<1>8. /\ EndOf(after, e) = rest
      /\ EndOf(after, rest) = EndOf(sizes, e)
      /\ \A f \in DOMAIN sizes \ {e} : EndOf(after, f) = EndOf(sizes, f)
  BY <1>1, <1>2, <1>4 DEF EndOf
<1>9. \A f \in DOMAIN after : EndOf(after, f) \in DOMAIN after \cup {RegionSize}
  BY <1>4, <1>8 DEF Tiles
<1>10. ASSUME NEW f \in DOMAIN after, NEW g \in DOMAIN after, f < g
       PROVE  EndOf(after, f) <= g
  <2>1. \A h \in DOMAIN sizes : h \in Nat /\ sizes[h] \in Nat \ {0}
    BY TilesBounds
  <2>2. CASE f = e
    <3>1. CASE g = rest
      BY <1>2, <1>8, <2>2, <3>1
    <3>2. CASE g \in DOMAIN sizes
      <4>1. e + 1 + sizes[e] <= g
        BY <3>2, <2>2, <1>10 DEF Tiles, EndOf
      <4> QED BY <4>1, <1>1, <1>2, <1>8, <2>1, <2>2, <3>2
    <3> QED BY <3>1, <3>2, <1>4
  <2>3. CASE f = rest
    <3>1. g \in DOMAIN sizes /\ e < g
      BY <1>2, <1>4, <1>10, <2>1, <2>3
    <3> QED BY <3>1, <2>3, <1>8 DEF Tiles
  <2>4. CASE f \in DOMAIN sizes \ {e}
    <3>1. CASE g = rest
      <4>1. ~ (e < f)
        <5> SUFFICES ASSUME e < f PROVE FALSE
          OBVIOUS
        <5>1. e + 1 + sizes[e] <= f
          BY <2>4 DEF Tiles, EndOf
        <5> QED BY <5>1, <1>1, <1>2, <1>10, <2>1, <2>4, <3>1
      <4>2. f < e
        BY <4>1, <2>1, <2>4, <1>1
      <4>3. EndOf(sizes, f) <= e
        BY <4>2, <2>4 DEF Tiles
      <4>4. EndOf(sizes, f) \in Nat
        BY <2>1, <2>4 DEF EndOf
      <4> QED BY <4>3, <4>4, <1>1, <1>2, <1>8, <2>4, <3>1
    <3>2. CASE g \in DOMAIN sizes
      BY <3>2, <2>4, <1>8, <1>10 DEF Tiles
    <3> QED BY <3>1, <3>2, <1>4
  <2> QED BY <2>2, <2>3, <2>4, <1>4
<1> QED
  BY <1>3, <1>4, <1>6, <1>7, <1>9, <1>10 DEF Tiles, after

-----------------------------------------------------------------------------
(* What is free in a region, and how much that is *)

\* The free units are finitely many, at most the size of the region.
LEMMA FreeIsFinite ==
  ASSUME NEW sizes, Tiles(sizes), NEW taken
  PROVE  /\ IsFiniteSet(FreeIn(sizes, taken))
         /\ Cardinality(FreeIn(sizes, taken)) \in 0 .. RegionSize
<1> DEFINE region == 1 .. RegionSize
<1>1. IsFiniteSet(region) /\ Cardinality(region) = RegionSize
  BY FS_Interval, RegionAssumption
<1>2. ASSUME NEW e \in DOMAIN sizes
      PROVE  PayloadIn(sizes, e) \subseteq region
  BY TilesBounds, RegionAssumption DEF PayloadIn
<1>3. FreeIn(sizes, taken) \in SUBSET region
  BY <1>2 DEF FreeIn
<1> HIDE DEF region
<1>4. IsFiniteSet(FreeIn(sizes, taken)) /\ Cardinality(FreeIn(sizes, taken)) <= RegionSize
  BY <1>1, <1>3, FS_Subset
<1> QED
  BY <1>4, FS_CardinalityType, RegionAssumption

\* Taking an entry as it is removes its payload from what is free.
LEMMA TakenWhole ==
  ASSUME NEW sizes, Tiles(sizes), NEW taken, NEW e \in DOMAIN sizes \ taken
  PROVE  /\ PayloadIn(sizes, e) \subseteq FreeIn(sizes, taken)
         /\ FreeIn(sizes, taken \cup {e}) = FreeIn(sizes, taken) \ PayloadIn(sizes, e)
<1>1. PayloadIn(sizes, e) \subseteq FreeIn(sizes, taken)
  BY DEF FreeIn
<1>2. \A f \in DOMAIN sizes \ {e} : PayloadIn(sizes, f) \cap PayloadIn(sizes, e) = {}
  BY PayloadsDisjoint
<1>3. FreeIn(sizes, taken \cup {e}) = FreeIn(sizes, taken) \ PayloadIn(sizes, e)
  BY <1>2 DEF FreeIn
<1> QED
  BY <1>1, <1>3

\* Taking the front of an entry removes that and the header of the new entry.
LEMMA TakenPart ==
  ASSUME NEW sizes, Tiles(sizes), NEW taken, taken \subseteq DOMAIN sizes,
         NEW e \in DOMAIN sizes \ taken,
         NEW count \in Nat \ {0}, sizes[e] >= count + 2
  PROVE  /\ e + 1 .. e + 1 + count \subseteq FreeIn(sizes, taken)
         /\ FreeIn(SplitAt(sizes, e, count), taken \cup {e}) =
              FreeIn(sizes, taken) \ (e + 1 .. e + 1 + count)
<1> DEFINE rest == e + 1 + count
           after == SplitAt(sizes, e, count)
           front == e + 1 .. e + 1 + count
<1>1. e \in Nat /\ sizes[e] \in Nat \ {0}
  BY TilesBounds
<1>2. rest \notin DOMAIN sizes
  BY SplitTiles
<1>3. /\ DOMAIN after = DOMAIN sizes \cup {rest}
      /\ after[rest] = sizes[e] - count - 1
      /\ \A f \in DOMAIN sizes \ {e} : after[f] = sizes[f]
  BY <1>1, <1>2 DEF SplitAt
<1> HIDE DEF after
<1>4. front \subseteq PayloadIn(sizes, e)
  BY <1>1 DEF PayloadIn
<1>5. PayloadIn(after, rest) = PayloadIn(sizes, e) \ front
  BY <1>1, <1>3 DEF PayloadIn
<1>6. \A f \in DOMAIN sizes \ {e} :
        /\ PayloadIn(after, f) = PayloadIn(sizes, f)
        /\ PayloadIn(sizes, f) \cap front = {}
  BY <1>3, <1>4, PayloadsDisjoint DEF PayloadIn
<1>7. DOMAIN after \ (taken \cup {e}) = (DOMAIN sizes \ (taken \cup {e})) \cup {rest}
  BY <1>1, <1>2, <1>3
<1>8. front \subseteq FreeIn(sizes, taken)
  BY <1>4 DEF FreeIn
<1> HIDE DEF front, rest
<1>9. FreeIn(after, taken \cup {e}) = FreeIn(sizes, taken) \ front
  <2>1. ASSUME NEW x \in FreeIn(after, taken \cup {e})
        PROVE  x \in FreeIn(sizes, taken) \ front
    <3>1. PICK f \in (DOMAIN sizes \ (taken \cup {e})) \cup {rest} : x \in PayloadIn(after, f)
      BY <1>7 DEF FreeIn
    <3> QED BY <3>1, <1>5, <1>6 DEF FreeIn
  <2>2. ASSUME NEW x \in FreeIn(sizes, taken) \ front
        PROVE  x \in FreeIn(after, taken \cup {e})
    <3>1. PICK f \in DOMAIN sizes \ taken : x \in PayloadIn(sizes, f)
      BY DEF FreeIn
    <3>2. CASE f = e
      BY <3>1, <3>2, <1>5, <1>7 DEF FreeIn
    <3>3. CASE f # e
      BY <3>1, <3>3, <1>6, <1>7 DEF FreeIn
    <3> QED BY <3>2, <3>3
  <2> QED BY <2>1, <2>2
<1> QED
  BY <1>8, <1>9 DEF after, front, rest

\* How much removing an interval of units from a finite set leaves.
LEMMA IntervalRemoved ==
  ASSUME NEW S, IsFiniteSet(S), NEW a \in Nat, NEW b \in Nat, a <= b + 1,
         a .. b \subseteq S
  PROVE  Cardinality(S \ (a .. b)) = Cardinality(S) - (b + 1 - a)
<1> DEFINE I == a .. b
<1>1. IsFiniteSet(I) /\ Cardinality(I) = b + 1 - a
  BY FS_Interval
<1>2. I \subseteq S
  OBVIOUS
<1> HIDE DEF I
<1>3. S \cap I = I
  BY <1>2
<1>4. Cardinality(S \ I) = Cardinality(S) - Cardinality(S \cap I)
  BY <1>1, FS_Difference
<1> QED
  BY <1>1, <1>3, <1>4 DEF I

-----------------------------------------------------------------------------
(* The inductive invariant *)

\* The entry table has each pointer once, all those that clients hold.
TableShape ==
  /\ entryTable \in Seq(Addresses)
  /\ \A i, j \in DOMAIN entryTable : entryTable[i] = entryTable[j] => i = j
  /\ {entryTable[i] : i \in DOMAIN entryTable} = DOMAIN live
  /\ IsFiniteSet(DOMAIN live)
  /\ Len(entryTable) = Cardinality(DOMAIN live)

\* Clients hold exactly the payloads of the used entries.
ClaimsShape ==
  /\ used \subseteq Entries
  /\ live \in [DOMAIN live -> Nat \ {0}]
  /\ DOMAIN live = {e + 1 : e \in used}
  /\ \A e \in used : live[e + 1] <= size[e]

\* Tiling and the exact count of free units support each other, and a free is
\* only known to be of a used entry through the table.
IInv ==
  /\ Tiles(size)
  /\ ClaimsShape
  /\ TableShape
  /\ remaining = Cardinality(FreeIn(size, used))
  /\ failed \in {"no", "null entry", "entry table overrun", "corrupt entry"}

\* Nothing but the outcome changes when the heap stops the kernel.
LEMMA FailKeepsIInv ==
  ASSUME IInv,
         NEW how \in {"null entry", "entry table overrun", "corrupt entry"},
         Fail(how)
  PROVE  IInv'
BY DEF IInv, Fail, Tiles, ClaimsShape, TableShape, FreeIn, PayloadIn, EndOf, Entries

\* The integrity check at the end of a call passes or reports a corrupt entry.
LEMMA CheckedOutcome ==
  ASSUME NEW sizes, NEW left
  PROVE  Checked(sizes, left) \in {"no", "corrupt entry"}
BY DEF Checked

\* The region that create leaves is one free entry.
LEMMA InitIInv ==
  Init => IInv
<1> SUFFICES ASSUME Init PROVE IInv
  OBVIOUS
<1>1. DOMAIN size = {HeaderSize} /\ size[HeaderSize] = RegionSize - HeaderSize - 1
  BY DEF Init
<1>2. size \in [DOMAIN size -> Nat \ {0}]
  BY <1>1, RegionAssumption DEF Init
<1>3. Tiles(size)
  BY <1>1, <1>2, RegionAssumption DEF Tiles, EndOf, Addresses
<1>4. remaining = Cardinality(FreeIn(size, used))
  <2>1. FreeIn(size, used) = HeaderSize + 1 .. RegionSize - 1
    <3>1. FreeIn(size, used) = PayloadIn(size, HeaderSize)
      BY <1>1 DEF Init, FreeIn
    <3> QED BY <3>1, <1>1, RegionAssumption DEF PayloadIn
  <2>2. Cardinality(HeaderSize + 1 .. RegionSize - 1) = RegionSize - HeaderSize - 1
    BY FS_Interval, RegionAssumption
  <2> QED BY <2>1, <2>2 DEF Init
<1>5. ClaimsShape
  BY DEF Init, ClaimsShape, Entries
<1>6. TableShape
  BY FS_EmptySet DEF Init, TableShape
<1> QED
  BY <1>3, <1>4, <1>5, <1>6 DEF IInv, Init

-----------------------------------------------------------------------------
(* The entry table *)

\* A pointer that the table does not have joins it.
LEMMA TableAppended ==
  ASSUME TableShape, NEW c \in Addresses, c \notin DOMAIN live,
         entryTable' = Append(entryTable, c),
         DOMAIN live' = DOMAIN live \cup {c}
  PROVE  TableShape'
<1>1. entryTable \in Seq(Addresses) /\ Len(entryTable) \in Nat
  BY DEF TableShape
<1>2. /\ entryTable' \in Seq(Addresses)
      /\ Len(entryTable') = Len(entryTable) + 1
      /\ \A i \in DOMAIN entryTable : entryTable'[i] = entryTable[i]
      /\ entryTable'[Len(entryTable) + 1] = c
      /\ DOMAIN entryTable' = DOMAIN entryTable \cup {Len(entryTable) + 1}
  BY <1>1
<1>3. \A i \in DOMAIN entryTable : entryTable[i] \in DOMAIN live
  BY DEF TableShape
<1>4. \A i, j \in DOMAIN entryTable' : entryTable'[i] = entryTable'[j] => i = j
  BY <1>2, <1>3 DEF TableShape
<1>5. {entryTable'[i] : i \in DOMAIN entryTable'} = DOMAIN live'
  <2>1. {entryTable'[i] : i \in DOMAIN entryTable'}
          = {entryTable[i] : i \in DOMAIN entryTable} \cup {c}
    BY <1>2
  <2> QED BY <2>1 DEF TableShape
<1>6. IsFiniteSet(DOMAIN live') /\ Cardinality(DOMAIN live') = Cardinality(DOMAIN live) + 1
  BY FS_AddElement DEF TableShape
<1> QED
  BY <1>2, <1>4, <1>5, <1>6 DEF TableShape, Addresses

\* A pointer leaves the table and the last one takes its place.
LEMMA TableRemoved ==
  ASSUME TableShape, NEW i \in DOMAIN entryTable,
         entryTable' = WithoutEntry(i),
         DOMAIN live' = DOMAIN live \ {entryTable[i]}
  PROVE  TableShape'
<1> DEFINE n == Len(entryTable)
<1>1. /\ entryTable \in Seq(Addresses) /\ n \in Nat /\ DOMAIN entryTable = 1 .. n
      /\ i \in 1 .. n
  BY DEF TableShape
<1>2. /\ DOMAIN entryTable' = 1 .. n - 1
      /\ \A j \in 1 .. n - 1 : entryTable'[j] = entryTable[IF j = i THEN n ELSE j]
  BY DEF WithoutEntry
<1>3. entryTable' \in Seq(Addresses) /\ Len(entryTable') = n - 1
  <2>1. \A j \in 1 .. n : entryTable[j] \in Addresses
    BY <1>1
  <2>2. \A j \in 1 .. n - 1 : (IF j = i THEN n ELSE j) \in 1 .. n
    BY <1>1
  <2>3. entryTable' \in [1 .. n - 1 -> Addresses]
    BY <2>1, <2>2 DEF WithoutEntry
  <2>4. n - 1 \in Nat
    BY <1>1
  <2> HIDE DEF n
  <2> QED BY <2>3, <2>4
<1>4. \A j, k \in 1 .. n : entryTable[j] = entryTable[k] => j = k
  BY <1>1 DEF TableShape
<1>5. \A j, k \in DOMAIN entryTable' : entryTable'[j] = entryTable'[k] => j = k
  <2> SUFFICES ASSUME NEW j \in 1 .. n - 1, NEW k \in 1 .. n - 1,
                      entryTable'[j] = entryTable'[k]
               PROVE  j = k
    BY <1>2
  <2>1. (IF j = i THEN n ELSE j) = (IF k = i THEN n ELSE k)
    <3>1. (IF j = i THEN n ELSE j) \in 1 .. n /\ (IF k = i THEN n ELSE k) \in 1 .. n
      BY <1>1
    <3> QED BY <3>1, <1>2, <1>4
  <2> QED BY <2>1, <1>1
<1>6. {entryTable'[j] : j \in DOMAIN entryTable'} = DOMAIN live'
  <2>1. ASSUME NEW j \in 1 .. n - 1
        PROVE  entryTable'[j] \in DOMAIN live'
    <3> DEFINE k == IF j = i THEN n ELSE j
    <3>1. k \in 1 .. n /\ k # i /\ entryTable'[j] = entryTable[k]
      BY <1>1, <1>2
    <3> HIDE DEF k
    <3>2. entryTable[k] \in DOMAIN live /\ entryTable[k] # entryTable[i]
      BY <3>1, <1>1, <1>4 DEF TableShape
    <3> QED BY <3>1, <3>2
  <2>2. ASSUME NEW c \in DOMAIN live'
        PROVE  \E j \in 1 .. n - 1 : entryTable'[j] = c
    <3>1. PICK k \in 1 .. n : entryTable[k] = c
      BY <1>1 DEF TableShape
    <3>2. k # i
      BY <3>1
    <3>3. CASE k = n
      BY <3>1, <3>2, <3>3, <1>1, <1>2, i \in 1 .. n - 1
    <3>4. CASE k # n
      <4>1. k \in 1 .. n - 1
        <5>1. n \in Nat
          BY <1>1
        <5> HIDE DEF n
        <5> QED BY <5>1, <3>4
      <4>2. entryTable'[k] = c
        BY <4>1, <1>2, <3>1, <3>2
      <4> QED BY <4>1, <4>2
    <3> QED BY <3>3, <3>4
  <2> HIDE DEF n
  <2>3. {entryTable'[j] : j \in 1 .. n - 1} = DOMAIN live'
    BY <2>1, <2>2
  <2> QED BY <2>3, <1>2
<1>7. /\ IsFiniteSet(DOMAIN live')
      /\ Cardinality(DOMAIN live') = Cardinality(DOMAIN live) - 1
  <2>1. entryTable[i] \in DOMAIN live
    BY DEF TableShape
  <2> QED BY <2>1, FS_RemoveElement DEF TableShape
<1> QED
  BY <1>3, <1>5, <1>6, <1>7 DEF TableShape, Addresses

-----------------------------------------------------------------------------
(* allocate and free preserve the inductive invariant *)

\* An allocation takes the front of a free entry, or all of it.
LEMMA TakeKeepsIInv ==
  ASSUME IInv, NEW count \in Counts, NEW e \in Fitting(count), Take(e, count)
  PROVE  IInv'
<1>1. CASE Len(entryTable) >= EntryTableCapacity
  BY <1>1, FailKeepsIInv DEF Take
<1>2. CASE ~ (Len(entryTable) >= EntryTableCapacity)
  <2>1. /\ size' = SizesAfter(e, count)
        /\ used' = used \cup {e}
        /\ remaining' = RemainingAfter(e, count)
        /\ entryTable' = Append(entryTable, e + 1)
        /\ live' = [c \in DOMAIN live \cup {e + 1} |->
                      IF c = e + 1 THEN count ELSE live[c]]
        /\ failed' \in {"no", "corrupt entry"}
    BY <1>2, CheckedOutcome DEF Take
  <2>2. /\ Tiles(size) /\ ClaimsShape /\ TableShape
        /\ remaining = Cardinality(FreeIn(size, used))
    BY DEF IInv
  <2>3. e \in DOMAIN size \ used /\ size[e] >= count
    BY DEF Fitting, Entries
  <2>4. count \in Nat \ {0}
    BY CountsAssumption, RegionAssumption
  <2>5. /\ e \in Nat /\ HeaderSize <= e /\ e < RegionSize
        /\ size[e] \in Nat \ {0} /\ e + size[e] < RegionSize
    BY <2>2, <2>3, TilesBounds
  <2>6. /\ Tiles(size')
        /\ DOMAIN size \subseteq DOMAIN size'
        /\ \A f \in DOMAIN size \ {e} : size'[f] = size[f]
        /\ size'[e] >= count
    <3>1. CASE Splits(e, count)
      <4>1. size' = SplitAt(size, e, count)
        BY <2>1, <3>1 DEF SizesAfter, SplitAt, Entries
      <4>2. e + 1 + count \notin DOMAIN size /\ Tiles(SplitAt(size, e, count))
        BY <2>2, <2>3, <2>4, <3>1, SplitTiles DEF Splits
      <4> QED BY <4>1, <4>2, <2>3, <2>4, <2>5 DEF SplitAt
    <3>2. CASE ~ Splits(e, count)
      BY <2>1, <2>2, <2>3, <3>2 DEF SizesAfter
    <3> QED BY <3>1, <3>2
  <2>7. remaining' = Cardinality(FreeIn(size', used'))
    <3>0. IsFiniteSet(FreeIn(size, used))
      BY <2>2, FreeIsFinite
    <3>1. CASE Splits(e, count)
      <4>1. size' = SplitAt(size, e, count)
        BY <2>1, <3>1 DEF SizesAfter, SplitAt, Entries
      <4>2. /\ e + 1 .. e + 1 + count \subseteq FreeIn(size, used)
            /\ FreeIn(size', used') = FreeIn(size, used) \ (e + 1 .. e + 1 + count)
        <5>1. used \subseteq DOMAIN size /\ size[e] >= count + 2
          BY <2>2, <3>1 DEF Splits, ClaimsShape, Entries
        <5>2. /\ e + 1 .. e + 1 + count \subseteq FreeIn(size, used)
              /\ FreeIn(SplitAt(size, e, count), used \cup {e})
                   = FreeIn(size, used) \ (e + 1 .. e + 1 + count)
          BY <5>1, <2>2, <2>3, <2>4, TakenPart
        <5> QED BY <5>2, <4>1, <2>1
      <4>3. Cardinality(FreeIn(size, used) \ (e + 1 .. e + 1 + count))
              = Cardinality(FreeIn(size, used)) - (e + 1 + count + 1 - (e + 1))
        BY <4>2, <3>0, <2>4, <2>5, IntervalRemoved
      <4>4. remaining' = remaining - (count + 1)
        BY <2>1, <3>1 DEF RemainingAfter
      <4> QED BY <4>2, <4>3, <4>4, <2>2, <2>4, <2>5
    <3>2. CASE ~ Splits(e, count)
      <4>1. size' = size
        BY <2>1, <3>2 DEF SizesAfter
      <4>2. /\ e + 1 .. e + size[e] \subseteq FreeIn(size, used)
            /\ FreeIn(size', used') = FreeIn(size, used) \ (e + 1 .. e + size[e])
        BY <4>1, <2>1, <2>2, <2>3, TakenWhole DEF PayloadIn
      <4>3. Cardinality(FreeIn(size, used) \ (e + 1 .. e + size[e]))
              = Cardinality(FreeIn(size, used)) - (e + size[e] + 1 - (e + 1))
        BY <4>2, <3>0, <2>5, IntervalRemoved
      <4>4. remaining' = remaining - size[e]
        BY <2>1, <3>2 DEF RemainingAfter
      <4> QED BY <4>2, <4>3, <4>4, <2>2, <2>5
    <3> QED BY <3>1, <3>2
  <2>8. e + 1 \notin DOMAIN live
    <3>1. \A f \in used : f \in Nat
      BY <2>2, TilesBounds DEF ClaimsShape, Entries
    <3> QED BY <3>1, <2>2, <2>3, <2>5 DEF ClaimsShape
  <2>9. /\ DOMAIN live' = DOMAIN live \cup {e + 1}
        /\ live'[e + 1] = count
        /\ \A c \in DOMAIN live : live'[c] = live[c]
        /\ live' \in [DOMAIN live' -> Nat \ {0}]
    BY <2>1, <2>2, <2>4, <2>8 DEF ClaimsShape
  <2>10. ClaimsShape'
    <3>1. used' \subseteq Entries'
      BY <2>1, <2>2, <2>3, <2>6 DEF ClaimsShape, Entries
    <3>2. DOMAIN live' = {f + 1 : f \in used'}
      BY <2>1, <2>2, <2>9 DEF ClaimsShape
    <3>3. ASSUME NEW f \in used'
          PROVE  live'[f + 1] <= size'[f]
      <4>1. CASE f = e
        BY <4>1, <2>4, <2>6, <2>9, TilesBounds
      <4>2. CASE f # e
        <5>1. f \in used /\ f \in DOMAIN size \ {e} /\ f + 1 \in DOMAIN live
          BY <4>2, <2>1, <2>2 DEF ClaimsShape, Entries
        <5> QED BY <5>1, <2>2, <2>6, <2>9 DEF ClaimsShape
      <4> QED BY <4>1, <4>2
    <3> QED BY <3>1, <3>2, <3>3, <2>9 DEF ClaimsShape
  <2>11. TableShape'
    <3>1. e + 1 \in Addresses
      BY <2>5, RegionAssumption DEF Addresses
    <3> QED BY <3>1, <2>1, <2>2, <2>8, <2>9, TableAppended
  <2> QED
    BY <2>1, <2>6, <2>7, <2>10, <2>11 DEF IInv
<1> QED
  BY <1>1, <1>2

\* The search finds the lowest entry that fits, if there is one.
LEMMA AllocateKeepsIInv ==
  ASSUME IInv, NEW count \in Counts, Allocate(count)
  PROVE  IInv'
<1>1. CASE Fitting(count) = {}
  BY <1>1, FailKeepsIInv DEF Allocate
<1>2. CASE Fitting(count) # {}
  <2>1. Fitting(count) \in SUBSET Nat
    BY TilesBounds DEF IInv, Fitting, Entries
  <2>2. Lowest(Fitting(count)) \in Fitting(count)
    BY <1>2, <2>1, LeastNatural DEF Lowest
  <2> QED BY <1>2, <2>2, TakeKeepsIInv DEF Allocate
<1> QED
  BY <1>1, <1>2

\* What a client holds is in the table, so that its free finds it.
LEMMA FreeKeepsIInv ==
  ASSUME IInv, NEW chunk \in DOMAIN live, Free(chunk)
  PROVE  IInv'
<1> DEFINE found == {i \in DOMAIN entryTable : entryTable[i] = chunk}
           e == chunk - 1
           i == Lowest(found)
<1>1. /\ Tiles(size) /\ ClaimsShape /\ TableShape
      /\ remaining = Cardinality(FreeIn(size, used))
  BY DEF IInv
<1>2. \A f \in used : f \in Nat /\ f \in DOMAIN size
  BY <1>1, TilesBounds DEF ClaimsShape, Entries
<1>3. e \in used /\ e \in DOMAIN size /\ e \in Nat /\ chunk = e + 1
  <2>1. PICK f \in used : chunk = f + 1
    BY <1>1 DEF ClaimsShape
  <2> QED BY <2>1, <1>2
<1>4. found # {} /\ found \in SUBSET Nat
  BY <1>1 DEF TableShape
<1>5. i \in DOMAIN entryTable /\ entryTable[i] = chunk
  <2>1. i \in found
    <3> HIDE DEF found
    <3> QED BY <1>4, LeastNatural DEF Lowest
  <2> QED BY <2>1
<1>6. /\ size' = size
      /\ used' = used \ {e}
      /\ remaining' = remaining + size[e]
      /\ entryTable' = WithoutEntry(i)
      /\ live' = [c \in DOMAIN live \ {chunk} |-> live[c]]
      /\ failed' \in {"no", "corrupt entry"}
  BY <1>4, CheckedOutcome DEF Free
<1> HIDE DEF found, e, i
<1>7. Tiles(size')
  BY <1>1, <1>6
<1>8. remaining' = Cardinality(FreeIn(size', used'))
  <2> DEFINE before == FreeIn(size, used \ {e})
             last == e + size[e]
  <2>1. e \in DOMAIN size \ (used \ {e}) /\ (used \ {e}) \cup {e} = used
    BY <1>3
  <2>2. PayloadIn(size, e) \subseteq before /\ FreeIn(size, used) = before \ PayloadIn(size, e)
    BY <1>1, <2>1, TakenWhole
  <2>3. /\ e \in Nat /\ size[e] \in Nat \ {0}
        /\ e + 1 \in Nat /\ last \in Nat /\ e + 1 <= last + 1
        /\ last + 1 - (e + 1) = size[e]
    BY <1>1, <1>3, TilesBounds
  <2>4. IsFiniteSet(before) /\ Cardinality(before) \in 0 .. RegionSize
    BY <1>1, FreeIsFinite
  <2>5. PayloadIn(size, e) = e + 1 .. last
    BY DEF PayloadIn
  <2> HIDE DEF before, last
  <2>6. Cardinality(before \ (e + 1 .. last)) = Cardinality(before) - (last + 1 - (e + 1))
    BY <2>2, <2>3, <2>4, <2>5, IntervalRemoved
  <2>7. remaining = Cardinality(before) - size[e]
    BY <1>1, <2>2, <2>3, <2>5, <2>6
  <2>8. remaining' = Cardinality(before)
    <3>1. Cardinality(before) \in Int
      BY <2>4, RegionAssumption
    <3>2. remaining' = remaining + size[e]
      BY <1>6
    <3>3. size[e] \in Int
      BY <2>3
    <3> QED BY <3>1, <3>2, <3>3, <2>7
  <2> QED BY <2>8, <1>6 DEF before
<1>9. ClaimsShape'
  <2>1. used' \subseteq Entries'
    BY <1>1, <1>6 DEF ClaimsShape, Entries
  <2>2. live' \in [DOMAIN live' -> Nat \ {0}]
    BY <1>1, <1>6 DEF ClaimsShape
  <2>3. DOMAIN live' = {f + 1 : f \in used'}
    <3>1. DOMAIN live' = {f + 1 : f \in used} \ {e + 1}
      BY <1>1, <1>3, <1>6 DEF ClaimsShape
    <3>2. \A f \in used : f # e => f + 1 # e + 1
      BY <1>2, <1>3
    <3> QED BY <3>1, <3>2, <1>6
  <2>4. \A f \in used' : live'[f + 1] <= size'[f]
    BY <1>1, <1>2, <1>3, <1>6, <2>3 DEF ClaimsShape
  <2> QED BY <2>1, <2>2, <2>3, <2>4 DEF ClaimsShape
<1>10. TableShape'
  BY <1>1, <1>5, <1>6, TableRemoved
<1> QED
  BY <1>6, <1>7, <1>8, <1>9, <1>10 DEF IInv

\* No step leaves the inductive invariant.
LEMMA NextIInv ==
  IInv /\ [Next]_vars => IInv'
<1> SUFFICES ASSUME IInv, [Next]_vars PROVE IInv'
  OBVIOUS
<1>1. CASE \E count \in Counts : Allocate(count)
  BY <1>1, AllocateKeepsIInv
<1>2. CASE \E chunk \in DOMAIN live : Free(chunk)
  BY <1>2, FreeKeepsIInv
<1>3. CASE UNCHANGED vars
  <2>1. /\ size' = size /\ used' = used /\ remaining' = remaining
        /\ entryTable' = entryTable /\ failed' = failed /\ live' = live
    BY <1>3 DEF vars
  <2>2. Tiles(size') /\ remaining' = Cardinality(FreeIn(size', used'))
    BY <2>1 DEF IInv
  <2>3. ClaimsShape' /\ TableShape'
    BY <2>1 DEF IInv, ClaimsShape, TableShape, Entries
  <2> QED BY <2>1, <2>2, <2>3 DEF IInv
<1> QED
  BY <1>1, <1>2, <1>3 DEF Next

\* It holds in every state that the heap reaches.
LEMMA Invariance ==
  Spec => []IInv
BY InitIInv, NextIInv, PTL DEF Spec

-----------------------------------------------------------------------------
(* What follows from the inductive invariant *)

\* The walk over the region meets every entry and ends at the region's end,
\* after any sequence of allocations and frees.
THEOREM TilesCorrect ==
  Spec => []EntriesTileTheRegion
<1>1. IInv => EntriesTileTheRegion
  BY DEF IInv, Tiles, EntriesTileTheRegion, Entries
<1> QED
  BY <1>1, Invariance, PTL

\* heap->remaining is the size of the free payloads at every moment.
THEOREM RemainingCorrect ==
  Spec => []RemainingIsFree
<1>1. IInv => RemainingIsFree
  BY DEF IInv, RemainingIsFree, FreeUnits, FreeIn, PayloadIn, Payload, Entries
<1> QED
  BY <1>1, Invariance, PTL

\* The entry table lists what clients hold, so that no free of a client that
\* frees what it holds is refused.
THEOREM TableCorrect ==
  Spec => []TableListsLiveChunks
<1>1. IInv => TableListsLiveChunks
  BY DEF IInv, TableShape, TableListsLiveChunks
<1> QED
  BY <1>1, Invariance, PTL

\* No allocation hands out what another client holds or what the heap keeps
\* its own records in.
THEOREM ChunksCorrect ==
  Spec => []ChunksAreDisjoint
<1>1. ASSUME IInv, NEW c \in DOMAIN live
      PROVE  /\ c - 1 \in used
             /\ c - 1 \in DOMAIN size
             /\ c - 1 \in Nat /\ c \in Nat
             /\ Chunk(c) \subseteq PayloadIn(size, c - 1)
  <2>1. PICK e \in used : c = e + 1
    BY <1>1 DEF IInv, ClaimsShape
  <2>2. e \in DOMAIN size
    BY <1>1 DEF IInv, ClaimsShape, Entries
  <2>3. e \in Nat /\ size[e] \in Nat \ {0}
    BY <1>1, <2>2, TilesBounds DEF IInv
  <2>4. c - 1 = e
    BY <2>1, <2>3
  <2>5. live[c] \in Nat \ {0} /\ live[c] <= size[e]
    BY <1>1, <2>1 DEF IInv, ClaimsShape
  <2>6. Chunk(c) \subseteq PayloadIn(size, e)
    BY <2>1, <2>3, <2>5 DEF Chunk, PayloadIn
  <2> QED BY <2>1, <2>2, <2>3, <2>4, <2>6
<1>2. ASSUME IInv
      PROVE  ChunksAreDisjoint
  <2> SUFFICES ASSUME NEW c \in DOMAIN live
               PROVE  /\ c - 1 \in used
                      /\ Chunk(c) \cap Entries = {}
                      /\ \A d \in DOMAIN live \ {c} : Chunk(c) \cap Chunk(d) = {}
    BY DEF ChunksAreDisjoint
  <2>1. /\ c - 1 \in used /\ c - 1 \in DOMAIN size
        /\ c - 1 \in Nat /\ c \in Nat
        /\ Chunk(c) \subseteq PayloadIn(size, c - 1)
    BY <1>1, <1>2
  <2>2. Chunk(c) \cap Entries = {}
    <3>1. c - 1 \notin PayloadIn(size, c - 1)
      <4>1. size[c - 1] \in Nat
        BY <2>1, TilesBounds, <1>2 DEF IInv
      <4> QED BY <4>1, <2>1 DEF PayloadIn
    <3>2. \A f \in DOMAIN size \ {c - 1} : f \notin PayloadIn(size, c - 1)
      BY <2>1, <1>2, PayloadsDisjoint DEF IInv
    <3> QED BY <2>1, <3>1, <3>2 DEF Entries
  <2>3. ASSUME NEW d \in DOMAIN live \ {c}
        PROVE  Chunk(c) \cap Chunk(d) = {}
    <3>1. /\ d - 1 \in DOMAIN size /\ d - 1 \in Nat /\ d \in Nat
          /\ Chunk(d) \subseteq PayloadIn(size, d - 1)
      BY <1>1, <1>2
    <3>2. d - 1 # c - 1
      BY <2>1, <3>1
    <3>3. PayloadIn(size, c - 1) \cap PayloadIn(size, d - 1) = {}
      BY <2>1, <3>1, <3>2, <1>2, PayloadsDisjoint DEF IInv
    <3> QED BY <2>1, <3>1, <3>3
  <2> QED BY <2>1, <2>2, <2>3
<1> QED
  BY <1>2, Invariance, PTL

\* The variables keep their types.
THEOREM TypeCorrect ==
  Spec => []TypeOK
<1>1. ASSUME IInv PROVE TypeOK
  <2>1. Tiles(size) /\ ClaimsShape /\ TableShape
    BY <1>1 DEF IInv
  <2>2. remaining \in 0 .. RegionSize
    BY <1>1, <2>1, FreeIsFinite DEF IInv
  <2>3. DOMAIN live \subseteq Addresses
    <3> SUFFICES ASSUME NEW e \in used PROVE e + 1 \in Addresses
      BY <2>1 DEF ClaimsShape
    <3>1. e \in DOMAIN size
      BY <2>1 DEF ClaimsShape, Entries
    <3> QED BY <3>1, <2>1, TilesBounds, RegionAssumption DEF Addresses
  <2> QED
    BY <1>1, <2>1, <2>2, <2>3 DEF IInv, Tiles, ClaimsShape, TableShape, TypeOK, Entries
<1> QED
  BY <1>1, Invariance, PTL

=============================================================================

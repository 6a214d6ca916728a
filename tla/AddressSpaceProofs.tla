------------------------- MODULE AddressSpaceProofs -------------------------
(***************************************************************************)
(* For any list of blocks that an address space starts with, and any        *)
(* capacity of its vector: requests and releases keep the blocks a tiling   *)
(* of the space, grant no page twice and lose none, and serve each request  *)
(* from the smallest run of free pages that is long enough.                 *)
(***************************************************************************)

EXTENDS AddressSpace, SequenceTheorems, NaturalFacts

AnyBlock == [available : BOOLEAN, base : Nat, pageCount : Nat]

EndOf(block) == block.base + block.pageCount

\* The pages of the available blocks of l.
FreeIn(l) ==
  {p \in Int : \E i \in 1 .. Len(l) : l[i].available /\ l[i].base <= p /\ p < EndOf(l[i])}

\* The first n blocks of l follow each other from the start of the space.
Follows(l, n) ==
  /\ l[1].base = Start
  /\ \A i \in 1 .. n - 1 : l[i + 1].base = EndOf(l[i])

Alternates(l) == \A i \in 1 .. Len(l) - 1 : l[i].available # l[i + 1].available

NoneEmpty(l) == \A i \in 1 .. Len(l) : l[i].pageCount # 0

\* What defragAddressSpaceList has made of blocks that reach up to reach.
Merging(m, reach) ==
  /\ m \in Seq(AnyBlock)
  /\ NoneEmpty(m) /\ Alternates(m)
  /\ IF m = <<>> THEN reach = Start
     ELSE Follows(m, Len(m)) /\ EndOf(m[Len(m)]) = reach

\* A list that tiles the space, and one that has been defragmented.
Chain(l) ==
  /\ l \in Seq(AnyBlock) /\ l # <<>>
  /\ Follows(l, Len(l)) /\ EndOf(l[Len(l)]) = End

Tiling(l) == Chain(l) /\ NoneEmpty(l) /\ Alternates(l)

-----------------------------------------------------------------------------
(* Blocks and sequences of blocks *)

\* What a block is made of.
LEMMA BlockParts ==
  ASSUME NEW b \in AnyBlock
  PROVE  b.available \in BOOLEAN /\ b.base \in Nat /\ b.pageCount \in Nat /\ EndOf(b) \in Nat
BY DEF AnyBlock, EndOf

\* A block with another length.
LEMMA Resized ==
  ASSUME NEW b \in AnyBlock, NEW n \in Nat
  PROVE  /\ [b EXCEPT !.pageCount = n] \in AnyBlock
         /\ [b EXCEPT !.pageCount = n].available = b.available
         /\ [b EXCEPT !.pageCount = n].base = b.base
         /\ [b EXCEPT !.pageCount = n].pageCount = n
BY DEF AnyBlock

\* The last block of a list that is not empty.
LEMMA LastBlock ==
  ASSUME NEW m \in Seq(AnyBlock), m # <<>>
  PROVE  /\ Len(m) \in Nat \ {0}
         /\ Last(m) = m[Len(m)]
         /\ m[Len(m)] \in AnyBlock
BY DEF Last

\* What is known of a list of blocks that was built from another one.
LEMMA Inserted ==
  ASSUME NEW l \in Seq(AnyBlock), NEW i \in 1 .. Len(l) + 1, NEW b \in AnyBlock
  PROVE  /\ InsertAt(l, i, b) \in Seq(AnyBlock)
         /\ Len(InsertAt(l, i, b)) = Len(l) + 1
         /\ \A j \in 1 .. Len(l) + 1 :
              InsertAt(l, i, b)[j] = IF j < i THEN l[j] ELSE IF j = i THEN b ELSE l[j - 1]
<1> DEFINE before == SubSeq(l, 1, i - 1)
           after == SubSeq(l, i, Len(l))
           front == before \o <<b>>
<1>1. /\ before \in Seq(AnyBlock) /\ Len(before) = i - 1
      /\ \A j \in 1 .. i - 1 : before[j] = l[j]
  BY SubSeqProperties
<1>2. /\ after \in Seq(AnyBlock) /\ Len(after) = Len(l) - i + 1
      /\ \A j \in 1 .. Len(l) - i + 1 : after[j] = l[i + j - 1]
  BY SubSeqProperties
<1>3. <<b>> \in Seq(AnyBlock) /\ Len(<<b>>) = 1 /\ <<b>>[1] = b
  OBVIOUS
<1>4. InsertAt(l, i, b) = front \o after
  BY DEF InsertAt
<1> HIDE DEF before, after
<1>5. /\ front \in Seq(AnyBlock) /\ Len(front) = i
      /\ \A j \in 1 .. i : front[j] = IF j < i THEN l[j] ELSE b
  BY <1>1, <1>3, ConcatProperties
<1> HIDE DEF front
<1>6. /\ front \o after \in Seq(AnyBlock) /\ Len(front \o after) = Len(l) + 1
      /\ \A j \in 1 .. Len(l) + 1 :
           (front \o after)[j] = IF j <= i THEN front[j] ELSE after[j - i]
  <2>1. /\ front \o after \in Seq(AnyBlock)
        /\ Len(front \o after) = Len(front) + Len(after)
        /\ \A j \in 1 .. Len(front) + Len(after) :
             (front \o after)[j] = IF j <= Len(front) THEN front[j] ELSE after[j - Len(front)]
    BY <1>2, <1>5, ConcatProperties
  <2>2. Len(front) = i /\ Len(front) + Len(after) = Len(l) + 1
    BY <1>2, <1>5
  <2> QED BY <2>1, <2>2
<1> QED
  BY <1>2, <1>4, <1>5, <1>6

-----------------------------------------------------------------------------
(* defragAddressSpaceList *)

\* Merged is the function that its recursive definition describes.
LEMMA MergedDefined ==
  ASSUME NEW l, Len(l) \in Nat
  PROVE  /\ Merged(l)[0] = <<>>
         /\ \A n \in 1 .. Len(l) : Merged(l)[n] = WithBlock(Merged(l)[n - 1], l[n])
<1> DEFINE Upto(g, n) ==
             g = [i \in 0 .. n |-> IF i = 0 THEN <<>> ELSE WithBlock(g[i - 1], l[i])]
           Missing == {n \in Nat : ~ \E g : Upto(g, n)}
<1>1. Missing = {}
  <2> SUFFICES ASSUME Missing # {}
               PROVE  FALSE
    OBVIOUS
  <2>1. PICK n \in Missing : \A m \in Missing : n <= m
    <3>1. Missing \in SUBSET Nat
      OBVIOUS
    <3> HIDE DEF Missing
    <3> QED BY <3>1, LeastNatural
  <2>2. n \in Nat
    OBVIOUS
  <2>3. CASE n = 0
    <3>1. Upto([i \in 0 .. 0 |-> <<>>], 0)
      OBVIOUS
    <3> QED BY <3>1, <2>3
  <2>4. CASE n > 0
    <3>0. n - 1 \in Nat /\ ~ (n <= n - 1)
      BY <2>2, <2>4
    <3>1. \E h : Upto(h, n - 1)
      BY <3>0, <2>1 DEF Missing
    <3>2. PICK h : Upto(h, n - 1)
      BY <3>1
    <3> DEFINE g == [i \in 0 .. n |-> IF i = 0 THEN <<>> ELSE WithBlock(h[i - 1], l[i])]
    <3>3. \A i \in 0 .. n : i # 0 => g[i - 1] = h[i - 1]
      <4> SUFFICES ASSUME NEW i \in 0 .. n, i # 0
                   PROVE  g[i - 1] = h[i - 1]
        OBVIOUS
      <4>1. i - 1 \in 0 .. n /\ i - 1 \in 0 .. n - 1
        BY <2>2
      <4> QED BY <4>1, <3>2
    <3>4. g = [i \in 0 .. n |-> IF i = 0 THEN <<>> ELSE WithBlock(g[i - 1], l[i])]
      <4>1. \A i \in 0 .. n : (IF i = 0 THEN <<>> ELSE WithBlock(h[i - 1], l[i]))
                              = (IF i = 0 THEN <<>> ELSE WithBlock(g[i - 1], l[i]))
        <5> HIDE DEF g
        <5> QED BY <3>3
      <4> QED BY <4>1
    <3> HIDE DEF g
    <3> QED BY <3>4, <2>2
  <2> QED BY <2>2, <2>3, <2>4
<1>2. \E g : Upto(g, Len(l))
  BY <1>1
<1>3. Merged(l) = [i \in 0 .. Len(l) |->
                     IF i = 0 THEN <<>> ELSE WithBlock(Merged(l)[i - 1], l[i])]
  BY <1>2 DEF Merged
<1> QED
  BY <1>3

\* m with n more pages in its last block.
Longer(m, n) == [m EXCEPT ![Len(m)].pageCount = @ + n]

\* Only the length of the last block changes.
LEMMA Grows ==
  ASSUME NEW m \in Seq(AnyBlock), m # <<>>, NEW n \in Nat
  PROVE  /\ Longer(m, n) \in Seq(AnyBlock)
         /\ Len(Longer(m, n)) = Len(m) /\ Longer(m, n) # <<>>
         /\ \A i \in 1 .. Len(m) - 1 : Longer(m, n)[i] = m[i]
         /\ Longer(m, n)[Len(m)] \in AnyBlock
         /\ Longer(m, n)[Len(m)].available = m[Len(m)].available
         /\ Longer(m, n)[Len(m)].base = m[Len(m)].base
         /\ Longer(m, n)[Len(m)].pageCount = m[Len(m)].pageCount + n
<1> DEFINE last == m[Len(m)]
           grown == [last EXCEPT !.pageCount = last.pageCount + n]
<1>1. last \in AnyBlock /\ Len(m) \in 1 .. Len(m)
  BY LastBlock
<1>2. last.pageCount + n \in Nat
  BY <1>1, BlockParts
<1>3. /\ grown \in AnyBlock /\ grown.available = last.available /\ grown.base = last.base
      /\ grown.pageCount = last.pageCount + n
  BY <1>1, <1>2, Resized
<1>4. Longer(m, n) = [m EXCEPT ![Len(m)] = grown]
  BY DEF Longer
<1> HIDE DEF grown
<1>5. /\ Longer(m, n) \in Seq(AnyBlock) /\ Len(Longer(m, n)) = Len(m)
      /\ \A j \in 1 .. Len(m) : Longer(m, n)[j] = IF j = Len(m) THEN grown ELSE m[j]
  BY <1>1, <1>3, <1>4, ExceptSeq
<1> QED
  BY <1>1, <1>3, <1>5, EmptySeq

\* What the next block changes of those that were merged before: at most the
\* length of the last one.
LEMMA WithBlockKeeps ==
  ASSUME NEW m \in Seq(AnyBlock), NEW b \in AnyBlock
  PROVE  /\ WithBlock(m, b) \in Seq(AnyBlock)
         /\ Len(m) <= Len(WithBlock(m, b)) /\ Len(WithBlock(m, b)) <= Len(m) + 1
         /\ \A i \in 1 .. Len(m) - 1 : WithBlock(m, b)[i] = m[i]
         /\ m # <<>> => WithBlock(m, b)[Len(m)].base = m[Len(m)].base
<1>1. b.pageCount \in Nat
  BY BlockParts
<1>2. CASE b.pageCount = 0
  BY <1>2 DEF WithBlock
<1>3. CASE b.pageCount # 0 /\ m # <<>> /\ Last(m).available = b.available
  <2>1. WithBlock(m, b) = Longer(m, b.pageCount)
    BY <1>3 DEF WithBlock, Longer
  <2> QED BY <1>1, <1>3, <2>1, Grows
<1>4. CASE b.pageCount # 0 /\ ~ (m # <<>> /\ Last(m).available = b.available)
  <2>1. WithBlock(m, b) = Append(m, b)
    BY <1>4 DEF WithBlock
  <2> QED BY <2>1, AppendProperties, LenProperties
<1> QED
  BY <1>2, <1>3, <1>4

\* A block that begins where those before it end leaves nothing out and
\* makes nothing available that was not.
LEMMA MergingStep ==
  ASSUME NEW m, NEW b \in AnyBlock, Merging(m, b.base)
  PROVE  /\ Merging(WithBlock(m, b), EndOf(b))
         /\ FreeIn(WithBlock(m, b)) =
              FreeIn(m) \cup {p \in Int : b.available /\ b.base <= p /\ p < EndOf(b)}
<1> DEFINE t == WithBlock(m, b)
           more == {p \in Int : b.available /\ b.base <= p /\ p < EndOf(b)}
<1>0. /\ b.base \in Nat /\ b.pageCount \in Nat /\ EndOf(b) = b.base + b.pageCount
      /\ m \in Seq(AnyBlock)
  BY BlockParts DEF Merging, EndOf
<1>1. CASE b.pageCount = 0
  <2>1. t = m /\ EndOf(b) = b.base
    BY <1>0, <1>1 DEF WithBlock
  <2>2. more = {}
    BY <1>0, <2>1
  <2> HIDE DEF t
  <2> QED BY <2>1, <2>2 DEF t
<1>2. CASE b.pageCount # 0 /\ m # <<>> /\ Last(m).available = b.available
  <2>1. t = Longer(m, b.pageCount)
    BY <1>2 DEF WithBlock, Longer
  <2> HIDE DEF t
  <2> DEFINE n == Len(m)
  <2>2. n \in Nat \ {0} /\ m[n] \in AnyBlock /\ m[n].available = b.available
    BY <1>2, <1>0, LastBlock
  <2>3. /\ t \in Seq(AnyBlock) /\ Len(t) = n /\ t # <<>>
        /\ \A i \in 1 .. n - 1 : t[i] = m[i]
        /\ t[n].available = m[n].available /\ t[n].base = m[n].base
        /\ t[n].pageCount = m[n].pageCount + b.pageCount
    <3>1. m \in Seq(AnyBlock) /\ m # <<>> /\ b.pageCount \in Nat
      BY <1>0, <1>2
    <3> QED BY <2>1, <3>1, Grows
  <2>4. EndOf(m[n]) = b.base /\ m[n].base \in Nat /\ m[n].pageCount \in Nat /\ m[n].pageCount # 0
    BY <1>2, <2>2, BlockParts DEF Merging, NoneEmpty
  <2>5. EndOf(t[n]) = EndOf(b)
    BY <2>3, <2>4, <1>0 DEF EndOf
  <2>6. Follows(t, n)
    <3>1. t[1].base = m[1].base
      BY <2>2, <2>3
    <3>2. ASSUME NEW i \in 1 .. n - 1
          PROVE  t[i + 1].base = EndOf(t[i])
      <4>1. t[i + 1].base = m[i + 1].base /\ t[i] = m[i]
        BY <2>2, <2>3
      <4> QED BY <1>2, <4>1 DEF Merging, Follows
    <3> QED BY <1>2, <3>1, <3>2 DEF Merging, Follows
  <2>7. NoneEmpty(t)
    <3> SUFFICES ASSUME NEW i \in 1 .. n
                 PROVE  t[i].pageCount # 0
      BY <2>3 DEF NoneEmpty
    <3>1. CASE i = n
      BY <3>1, <2>3, <2>4, <1>0
    <3>2. CASE i # n
      BY <3>2, <2>2, <2>3 DEF Merging, NoneEmpty
    <3> QED BY <3>1, <3>2
  <2>8. Alternates(t)
    <3> SUFFICES ASSUME NEW i \in 1 .. n - 1
                 PROVE  t[i].available # t[i + 1].available
      BY <2>3 DEF Alternates
    <3>1. t[i].available = m[i].available /\ t[i + 1].available = m[i + 1].available
      BY <2>2, <2>3
    <3> QED BY <3>1 DEF Merging, Alternates
  <2>9. FreeIn(t) = FreeIn(m) \cup more
    <3>1. ASSUME NEW p \in Int
          PROVE  p \in FreeIn(t) <=> p \in FreeIn(m) \/ p \in more
      <4>1. (t[n].base <= p /\ p < EndOf(t[n]))
              <=> (m[n].base <= p /\ p < EndOf(m[n])) \/ (b.base <= p /\ p < EndOf(b))
        BY <1>0, <2>3, <2>4, <2>5 DEF EndOf
      <4>2. p \in FreeIn(t)
              <=> \/ \E i \in 1 .. n - 1 : t[i].available /\ t[i].base <= p /\ p < EndOf(t[i])
                  \/ t[n].available /\ t[n].base <= p /\ p < EndOf(t[n])
        BY <2>2, <2>3 DEF FreeIn
      <4>3. p \in FreeIn(m)
              <=> \/ \E i \in 1 .. n - 1 : m[i].available /\ m[i].base <= p /\ p < EndOf(m[i])
                  \/ m[n].available /\ m[n].base <= p /\ p < EndOf(m[n])
        BY <2>2 DEF FreeIn
      <4> QED BY <2>2, <2>3, <4>1, <4>2, <4>3
    <3> QED BY <3>1 DEF FreeIn
  <2> QED BY <2>3, <2>5, <2>6, <2>7, <2>8, <2>9 DEF Merging, t
<1>3. CASE b.pageCount # 0 /\ ~ (m # <<>> /\ Last(m).available = b.available)
  <2>1. t = Append(m, b)
    BY <1>3 DEF WithBlock
  <2> HIDE DEF t
  <2> DEFINE n == Len(m)
  <2>2. n \in Nat /\ (m # <<>> => n # 0 /\ m[n] \in AnyBlock /\ Last(m) = m[n])
    BY <1>0, LastBlock, LenProperties
  <2>3. /\ t \in Seq(AnyBlock) /\ Len(t) = n + 1 /\ t # <<>>
        /\ \A i \in 1 .. n : t[i] = m[i]
        /\ t[n + 1] = b
    BY <1>0, <2>1, AppendProperties
  <2>4. m = <<>> <=> n = 0
    BY <1>0, <2>2, EmptySeq
  <2>5. m # <<>> => m[n].available # b.available
    BY <1>3, <2>2
  <2>6. Follows(t, n + 1)
    <3>1. t[1].base = Start
      BY <2>2, <2>3, <2>4 DEF Merging, Follows
    <3>2. ASSUME NEW i \in 1 .. n
          PROVE  t[i + 1].base = EndOf(t[i])
      <4>1. CASE i = n
        BY <4>1, <2>3, <2>4 DEF Merging
      <4>2. CASE i # n
        BY <4>2, <2>2, <2>3, <2>4 DEF Merging, Follows
      <4> QED BY <4>1, <4>2
    <3> QED BY <2>2, <3>1, <3>2 DEF Follows
  <2>7. NoneEmpty(t)
    BY <1>3, <2>2, <2>3 DEF Merging, NoneEmpty
  <2>8. Alternates(t)
    <3> SUFFICES ASSUME NEW i \in 1 .. n
                 PROVE  t[i].available # t[i + 1].available
      BY <2>2, <2>3 DEF Alternates
    <3>1. CASE i = n
      BY <3>1, <2>3, <2>4, <2>5
    <3>2. CASE i # n
      BY <3>2, <2>2, <2>3, <2>4 DEF Merging, Alternates
    <3> QED BY <3>1, <3>2
  <2>9. FreeIn(t) = FreeIn(m) \cup more
    BY <2>2, <2>3 DEF FreeIn
  <2> QED BY <2>2, <2>3, <2>6, <2>7, <2>8, <2>9 DEF Merging, t
<1> QED
  BY <1>1, <1>2, <1>3

\* Defragmentation makes lists of blocks, none longer than what it was given.
LEMMA MergedType ==
  ASSUME NEW l \in Seq(AnyBlock), NEW n \in 0 .. Len(l)
  PROVE  Merged(l)[n] \in Seq(AnyBlock) /\ Len(Merged(l)[n]) <= n
<1> DEFINE Right(i) == Merged(l)[i] \in Seq(AnyBlock) /\ Len(Merged(l)[i]) <= i
           Bad == {i \in 0 .. Len(l) : ~ Right(i)}
<1>1. /\ Len(l) \in Nat /\ Merged(l)[0] = <<>>
      /\ \A i \in 1 .. Len(l) : Merged(l)[i] = WithBlock(Merged(l)[i - 1], l[i])
  BY MergedDefined, LenProperties
<1>2. Bad = {}
  <2> SUFFICES ASSUME Bad # {}
               PROVE  FALSE
    OBVIOUS
  <2>1. PICK i \in Bad : \A j \in Bad : i <= j
    <3>1. Bad \in SUBSET Nat
      BY <1>1
    <3> HIDE DEF Bad
    <3> QED BY <3>1, LeastNatural
  <2>2. i # 0
    <3>1. Right(0)
      BY <1>1, EmptySeq
    <3> QED BY <3>1
  <2>3. i \in 1 .. Len(l) /\ i - 1 \in 0 .. Len(l) /\ ~ (i <= i - 1)
    BY <1>1, <2>2
  <2>4. Right(i - 1)
    BY <2>1, <2>3
  <2>5. l[i] \in AnyBlock
    BY <2>3
  <2> DEFINE s == Merged(l)[i - 1]
  <2>6. s \in Seq(AnyBlock) /\ Len(s) <= i - 1 /\ Merged(l)[i] = WithBlock(s, l[i])
    BY <1>1, <2>3, <2>4
  <2> HIDE DEF s
  <2>7. WithBlock(s, l[i]) \in Seq(AnyBlock) /\ Len(WithBlock(s, l[i])) <= Len(s) + 1
    BY <2>5, <2>6, WithBlockKeeps
  <2>8. Len(s) \in Nat /\ Len(WithBlock(s, l[i])) \in Nat
    BY <2>6, <2>7, LenProperties
  <2>9. Right(i)
    <3>1. Len(WithBlock(s, l[i])) <= i
      BY <2>3, <2>6, <2>7, <2>8
    <3> QED BY <2>6, <2>7, <3>1
  <2> QED BY <2>9
<1> QED
  BY <1>2

\* What has been merged stays, but for the length of the last block.
LEMMA MergedKeeps ==
  ASSUME NEW l \in Seq(AnyBlock), NEW k \in 0 .. Len(l), NEW n \in k .. Len(l),
         NEW m, m = Merged(l)[k], m # <<>>, NEW u, u = Merged(l)[n]
  PROVE  /\ Len(m) <= Len(u)
         /\ Len(m) > 1 => u[Len(m) - 1] = m[Len(m) - 1]
         /\ u[Len(m)].base = m[Len(m)].base
<1> DEFINE Kept(t) ==
             /\ Len(m) <= Len(t)
             /\ \A i \in 1 .. Len(m) - 1 : t[i] = m[i]
             /\ t[Len(m)].base = m[Len(m)].base
           Bad == {j \in k .. Len(l) : ~ Kept(Merged(l)[j])}
<1>1. /\ Len(l) \in Nat
      /\ \A i \in 1 .. Len(l) : Merged(l)[i] = WithBlock(Merged(l)[i - 1], l[i])
  BY MergedDefined, LenProperties
<1>2. m \in Seq(AnyBlock) /\ Len(m) \in Nat \ {0}
  BY MergedType, LastBlock
<1>3. Bad = {}
  <2> SUFFICES ASSUME Bad # {}
               PROVE  FALSE
    OBVIOUS
  <2>1. PICK j \in Bad : \A i \in Bad : j <= i
    <3>1. Bad \in SUBSET Nat
      BY <1>1
    <3> HIDE DEF Bad
    <3> QED BY <3>1, LeastNatural
  <2>2. j # k
    <3>1. Kept(m)
      BY <1>2
    <3> QED BY <3>1
  <2>3. j \in 1 .. Len(l) /\ j - 1 \in k .. Len(l) /\ j - 1 \in 0 .. Len(l) /\ ~ (j <= j - 1)
    BY <1>1, <2>2
  <2> DEFINE s == Merged(l)[j - 1]
  <2>4. Kept(s)
    BY <2>1, <2>3
  <2>5. s \in Seq(AnyBlock) /\ l[j] \in AnyBlock /\ Merged(l)[j] = WithBlock(s, l[j])
    <3>1. s \in Seq(AnyBlock)
      BY <2>3, MergedType
    <3>2. l[j] \in AnyBlock /\ Merged(l)[j] = WithBlock(s, l[j])
      BY <1>1, <2>3
    <3> QED BY <3>1, <3>2
  <2> HIDE DEF s
  <2>6. /\ Len(s) <= Len(WithBlock(s, l[j])) /\ Len(s) \in Nat /\ s # <<>>
        /\ WithBlock(s, l[j]) \in Seq(AnyBlock)
        /\ \A i \in 1 .. Len(s) - 1 : WithBlock(s, l[j])[i] = s[i]
        /\ WithBlock(s, l[j])[Len(s)].base = s[Len(s)].base
    <3>1. Len(s) \in Nat /\ s # <<>>
      BY <1>2, <2>4, <2>5, EmptySeq, LenProperties
    <3> QED BY <2>5, <3>1, WithBlockKeeps
  <2> DEFINE t == WithBlock(s, l[j])
  <2>7. Len(t) \in Nat
    BY <2>6, LenProperties
  <2> HIDE DEF t
  <2>8. Kept(t)
    <3>1. Len(m) <= Len(s) /\ Len(s) <= Len(t)
      BY <2>4, <2>6 DEF t
    <3>2. ASSUME NEW i \in 1 .. Len(m) - 1
          PROVE  t[i] = m[i]
      <4>1. i \in 1 .. Len(s) - 1
        BY <1>2, <2>6, <3>1
      <4>2. t[i] = s[i] /\ s[i] = m[i]
        BY <2>4, <2>6, <4>1 DEF t
      <4> QED BY <4>2
    <3>3. t[Len(m)].base = m[Len(m)].base
      <4>1. CASE Len(m) = Len(s)
        BY <2>4, <2>6, <4>1 DEF t
      <4>2. CASE Len(m) # Len(s)
        <5>1. Len(m) \in 1 .. Len(s) - 1
          BY <1>2, <2>6, <3>1, <4>2
        <5> QED BY <2>4, <2>6, <5>1 DEF t
      <4> QED BY <4>1, <4>2
    <3> QED BY <1>2, <2>6, <2>7, <3>1, <3>2, <3>3
  <2> QED BY <2>5, <2>8 DEF t
<1>4. n \in k .. Len(l) /\ n \notin Bad
  BY <1>3
<1>5. Kept(u)
  BY <1>4
<1> QED
  BY <1>2, <1>5

\* Blocks that follow each other from the start become a list that reaches as
\* far, and has the same pages available.
LEMMA MergedMerging ==
  ASSUME NEW l \in Seq(AnyBlock), NEW n \in 1 .. Len(l), Follows(l, n)
  PROVE  /\ Merging(Merged(l)[n], EndOf(l[n]))
         /\ FreeIn(Merged(l)[n]) =
              {p \in Int : \E i \in 1 .. n :
                             l[i].available /\ l[i].base <= p /\ p < EndOf(l[i])}
<1> DEFINE Reach(j) == IF j = 0 THEN Start ELSE EndOf(l[j])
           Free(j) == {p \in Int : \E i \in 1 .. j :
                         l[i].available /\ l[i].base <= p /\ p < EndOf(l[i])}
           Right(j) == Merging(Merged(l)[j], Reach(j)) /\ FreeIn(Merged(l)[j]) = Free(j)
           Bad == {j \in 0 .. n : ~ Right(j)}
<1>1. /\ Len(l) \in Nat /\ Merged(l)[0] = <<>>
      /\ \A i \in 1 .. Len(l) : Merged(l)[i] = WithBlock(Merged(l)[i - 1], l[i])
  BY MergedDefined, LenProperties
<1>2. Bad = {}
  <2> SUFFICES ASSUME Bad # {}
               PROVE  FALSE
    OBVIOUS
  <2>1. PICK j \in Bad : \A i \in Bad : j <= i
    <3>1. Bad \in SUBSET Nat
      BY <1>1
    <3> HIDE DEF Bad
    <3> QED BY <3>1, LeastNatural
  <2>2. j # 0
    <3>1. Merging(<<>>, Start) /\ FreeIn(<<>>) = {}
      BY EmptySeq DEF Merging, NoneEmpty, Alternates, FreeIn
    <3>2. Right(0)
      BY <1>1, <3>1
    <3> QED BY <3>2
  <2>3. j \in 1 .. n /\ j \in 1 .. Len(l) /\ j - 1 \in 0 .. n /\ ~ (j <= j - 1)
    BY <1>1, <2>2
  <2>4. Right(j - 1)
    BY <2>1, <2>3
  <2>5. l[j] \in AnyBlock /\ l[j].base = Reach(j - 1)
    <3>1. CASE j = 1
      BY <3>1, <2>3 DEF Follows
    <3>2. CASE j # 1
      <4>1. j - 1 \in 1 .. n - 1 /\ j - 1 # 0 /\ j - 1 + 1 = j
        BY <2>3, <3>2
      <4>2. l[j - 1 + 1].base = EndOf(l[j - 1])
        BY <4>1 DEF Follows
      <4> QED BY <2>3, <4>1, <4>2
    <3> QED BY <3>1, <3>2
  <2>6. Merged(l)[j] = WithBlock(Merged(l)[j - 1], l[j])
    BY <1>1, <2>3
  <2>7. /\ Merging(Merged(l)[j], EndOf(l[j]))
        /\ FreeIn(Merged(l)[j]) =
             Free(j - 1) \cup {p \in Int : l[j].available /\ l[j].base <= p /\ p < EndOf(l[j])}
    BY <2>4, <2>5, <2>6, MergingStep
  <2>8. Free(j) = Free(j - 1)
          \cup {p \in Int : l[j].available /\ l[j].base <= p /\ p < EndOf(l[j])}
    BY <2>3
  <2>9. Right(j)
    BY <2>2, <2>7, <2>8
  <2> QED BY <2>9
<1>3. n \in 0 .. n /\ n # 0
  BY <1>1
<1>4. Right(n)
  <2>1. n \notin Bad
    BY <1>2
  <2> QED BY <1>3, <2>1
<1> QED
  BY <1>3, <1>4

-----------------------------------------------------------------------------
(* Lists that tile the space *)

\* The list that an address space starts with tiles it.
LEMMA InitialTiling ==
  /\ Tiling(InitialList)
  /\ Start \in Nat /\ End \in Nat /\ Start < End
<1> DEFINE n == Len(InitialList)
<1>1. /\ n \in Nat /\ n > 1
      /\ \A i \in 1 .. n : /\ InitialList[i] \in AnyBlock
                           /\ InitialList[i].pageCount \in Nat \ {0}
                           /\ InitialList[i].base \in Nat
      /\ InitialList \in Seq(AnyBlock)
  <2>1. InitialList \in Seq([available : BOOLEAN, base : Nat, pageCount : Nat \ {0}]) /\ n > 1
    BY ListAssumption
  <2>2. \A i \in 1 .. n :
          InitialList[i] \in [available : BOOLEAN, base : Nat, pageCount : Nat \ {0}]
    BY <2>1, ElementOfSeq
  <2>3. \A i \in 1 .. n : /\ InitialList[i] \in AnyBlock
                          /\ InitialList[i].pageCount \in Nat \ {0}
                          /\ InitialList[i].base \in Nat
    BY <2>2 DEF AnyBlock
  <2>4. n \in Nat /\ InitialList = [i \in 1 .. n |-> InitialList[i]]
    BY <2>1
  <2>5. InitialList \in Seq(AnyBlock)
    BY <2>3, <2>4
  <2> QED BY <2>1, <2>3, <2>4, <2>5
<1>2. NoneEmpty(InitialList) /\ Alternates(InitialList)
  BY <1>1, ListAssumption DEF NoneEmpty, Alternates
<1>3. Follows(InitialList, n) /\ InitialList # <<>> /\ EndOf(InitialList[n]) = End
  BY <1>1, ListAssumption DEF Follows, EndOf, Start, End, Last
<1>4. Start \in Nat /\ End \in Nat
  BY <1>1, <1>3 DEF Start, EndOf
<1>5. Start < End
  <2> DEFINE Bad == {i \in 1 .. n : InitialList[i].base < Start}
  <2>1. Bad = {}
    <3> SUFFICES ASSUME Bad # {} PROVE FALSE
      OBVIOUS
    <3>1. PICK i \in Bad : \A j \in Bad : i <= j
      <4>1. Bad \in SUBSET Nat
        BY <1>1
      <4> HIDE DEF Bad
      <4> QED BY <4>1, LeastNatural
    <3>2. i # 1
      BY <1>1 DEF Start
    <3>3. i - 1 \in 1 .. n - 1 /\ i - 1 \in 1 .. n /\ ~ (i <= i - 1) /\ i - 1 + 1 = i
      BY <1>1, <3>2
    <3>4. InitialList[i].base = InitialList[i - 1].base + InitialList[i - 1].pageCount
      BY <3>3, ListAssumption
    <3>5. ~ (InitialList[i - 1].base < Start)
      BY <3>1, <3>3
    <3> QED BY <1>1, <1>4, <3>3, <3>4, <3>5
  <2>2. ~ (InitialList[n].base < Start)
    BY <1>1, <2>1
  <2> QED BY <1>1, <1>3, <1>4, <2>2 DEF EndOf
<1> QED
  BY <1>1, <1>2, <1>3, <1>4, <1>5 DEF Tiling, Chain

\* What a list that tiles the space is made of.
LEMMA ChainParts ==
  ASSUME NEW l, Chain(l)
  PROVE  /\ l \in Seq(AnyBlock) /\ Len(l) \in Nat \ {0} /\ DOMAIN l = 1 .. Len(l)
         /\ \A i \in 1 .. Len(l) : /\ l[i] \in AnyBlock
                                   /\ l[i].available \in BOOLEAN
                                   /\ l[i].base \in Nat
                                   /\ l[i].pageCount \in Nat
                                   /\ EndOf(l[i]) \in Nat
                                   /\ EndOf(l[i]) = l[i].base + l[i].pageCount
         /\ l[1].base = Start /\ EndOf(l[Len(l)]) = End
         /\ \A i \in 1 .. Len(l) - 1 : l[i + 1].base = EndOf(l[i])
<1>1. l \in Seq(AnyBlock) /\ l # <<>>
  BY DEF Chain
<1>2. Len(l) \in Nat \ {0} /\ DOMAIN l = 1 .. Len(l)
  BY <1>1, LastBlock, LenProperties
<1>3. \A i \in 1 .. Len(l) : l[i] \in AnyBlock
  BY <1>1
<1> QED
  BY <1>1, <1>2, <1>3, BlockParts DEF Chain, Follows, EndOf

\* Blocks that follow each other lie in order.
LEMMA Ordered ==
  ASSUME NEW l, Chain(l), NEW i \in 1 .. Len(l), NEW j \in i + 1 .. Len(l)
  PROVE  EndOf(l[i]) <= l[j].base
<1> DEFINE Bad == {k \in i + 1 .. Len(l) : ~ (EndOf(l[i]) <= l[k].base)}
<1>1. Bad = {}
  <2> SUFFICES ASSUME Bad # {} PROVE FALSE
    OBVIOUS
  <2>1. PICK k \in Bad : \A m \in Bad : k <= m
    <3>1. Bad \in SUBSET Nat
      BY ChainParts
    <3> HIDE DEF Bad
    <3> QED BY <3>1, LeastNatural
  <2>2. k \in i + 1 .. Len(l) /\ k \in Nat /\ i \in Nat /\ Len(l) \in Nat
    BY ChainParts
  <2>3. l[i + 1].base = EndOf(l[i]) /\ EndOf(l[i]) \in Nat
    <3>1. i \in 1 .. Len(l) - 1
      BY <2>2
    <3> QED BY <3>1, ChainParts
  <2>4. k # i + 1
    BY <2>3
  <2>5. /\ k - 1 \in i + 1 .. Len(l) /\ k - 1 \in 1 .. Len(l) - 1
        /\ k - 1 \in 1 .. Len(l) /\ k - 1 + 1 = k /\ ~ (k <= k - 1)
    BY <2>2, <2>4
  <2>6. EndOf(l[i]) <= l[k - 1].base
    BY <2>1, <2>5
  <2>7. l[k].base = EndOf(l[k - 1]) /\ l[k - 1].base <= EndOf(l[k - 1])
    <3>1. l[k - 1 + 1].base = EndOf(l[k - 1]) /\ l[k - 1].base \in Nat /\ l[k - 1].pageCount \in Nat
      BY <2>5, ChainParts
    <3> QED BY <2>5, <3>1 DEF EndOf
  <2>8. l[k].base \in Nat /\ l[k - 1].base \in Nat /\ EndOf(l[k - 1]) \in Nat
    BY <2>2, <2>5, ChainParts
  <2> QED BY <2>3, <2>6, <2>7, <2>8
<1> QED
  BY <1>1

\* No block of the list reaches out of the space.
LEMMA WithinSpace ==
  ASSUME NEW l, Chain(l), NEW i \in 1 .. Len(l)
  PROVE  Start <= l[i].base /\ l[i].base <= EndOf(l[i]) /\ EndOf(l[i]) <= End
<1>1. /\ Len(l) \in Nat \ {0} /\ 1 \in 1 .. Len(l) /\ Len(l) \in 1 .. Len(l)
      /\ l[1].base = Start /\ EndOf(l[Len(l)]) = End
  BY ChainParts
<1>2. \A j \in 1 .. Len(l) : /\ l[j].base \in Nat /\ EndOf(l[j]) \in Nat
                             /\ l[j].base <= EndOf(l[j])
  BY ChainParts
<1>3. Start <= l[i].base
  <2>1. CASE i = 1
    BY <1>1, <1>2, <2>1
  <2>2. CASE i # 1
    <3>1. EndOf(l[1]) <= l[i].base
      BY <1>1, <2>2, Ordered
    <3> QED BY <1>1, <1>2, <3>1
  <2> QED BY <2>1, <2>2
<1>4. EndOf(l[i]) <= End
  <2>1. CASE i = Len(l)
    BY <1>1, <1>2, <2>1
  <2>2. CASE i # Len(l)
    <3>1. EndOf(l[i]) <= l[Len(l)].base
      BY <1>1, <2>2, Ordered
    <3> QED BY <1>1, <1>2, <3>1
  <2> QED BY <2>1, <2>2
<1> QED
  BY <1>2, <1>3, <1>4

\* Each page of the space is in a block.
LEMMA Located ==
  ASSUME NEW l, Chain(l), NEW p \in Int, Start <= p, p < End
  PROVE  \E i \in 1 .. Len(l) : l[i].base <= p /\ p < EndOf(l[i])
<1> DEFINE Past == {i \in 1 .. Len(l) : p < EndOf(l[i])}
<1>1. PICK i \in Past : \A j \in Past : i <= j
  <2>1. Past \in SUBSET Nat /\ Len(l) \in Past
    BY ChainParts
  <2> HIDE DEF Past
  <2> QED BY <2>1, LeastNatural
<1>2. CASE i = 1
  BY <1>1, <1>2, ChainParts
<1>3. CASE i # 1
  <2>1. i - 1 \in 1 .. Len(l) /\ i - 1 \in 1 .. Len(l) - 1 /\ i - 1 + 1 = i /\ ~ (i <= i - 1)
    BY <1>3, ChainParts
  <2>2. ~ (p < EndOf(l[i - 1]))
    BY <1>1, <2>1
  <2>3. l[i - 1 + 1].base = EndOf(l[i - 1]) /\ EndOf(l[i - 1]) \in Nat
    BY <2>1, ChainParts
  <2> QED BY <1>1, <2>1, <2>2, <2>3
<1> QED
  BY <1>2, <1>3

\* ... and in no other.
LEMMA Alone ==
  ASSUME NEW l, Chain(l), NEW p \in Int,
         NEW i \in 1 .. Len(l), l[i].base <= p, p < EndOf(l[i]),
         NEW j \in 1 .. Len(l), l[j].base <= p, p < EndOf(l[j])
  PROVE  i = j
<1>1. \A k \in 1 .. Len(l) : l[k].base \in Nat /\ EndOf(l[k]) \in Nat
  BY ChainParts
<1>2. i \in Nat /\ j \in Nat /\ Len(l) \in Nat
  BY ChainParts
<1>3. CASE i < j
  <2>1. EndOf(l[i]) <= l[j].base
    BY <1>2, <1>3, Ordered
  <2> QED BY <1>1, <2>1
<1>4. CASE j < i
  <2>1. EndOf(l[j]) <= l[i].base
    BY <1>2, <1>4, Ordered
  <2> QED BY <1>1, <2>1
<1> QED
  BY <1>2, <1>3, <1>4

\* Available pages are those of the available blocks.
LEMMA AvailablePages ==
  ASSUME NEW l, Chain(l)
  PROVE  /\ AvailableIn(l) = FreeIn(l)
         /\ AvailableIn(l) \subseteq Pages
         /\ \A i \in 1 .. Len(l) : \A p \in Int :
              l[i].base <= p /\ p < EndOf(l[i]) =>
                /\ p \in Pages
                /\ p \in AvailableIn(l) <=> l[i].available
<1>1. /\ DOMAIN l = 1 .. Len(l) /\ Start \in Nat /\ End \in Nat
      /\ \A i \in 1 .. Len(l) : /\ l[i].base \in Nat /\ l[i].pageCount \in Nat
                                /\ EndOf(l[i]) = l[i].base + l[i].pageCount
  BY ChainParts, InitialTiling
<1>2. ASSUME NEW i \in 1 .. Len(l), NEW p \in Int
      PROVE  p \in PagesOfBlock(l[i]) <=> l[i].base <= p /\ p < EndOf(l[i])
  BY <1>1, <1>2 DEF PagesOfBlock
<1>3. ASSUME NEW i \in 1 .. Len(l), NEW p \in Int, l[i].base <= p, p < EndOf(l[i])
      PROVE  p \in Pages
  <2>1. Start <= l[i].base /\ EndOf(l[i]) <= End
    BY WithinSpace
  <2>2. l[i].base \in Int /\ EndOf(l[i]) \in Int /\ Start \in Int /\ End \in Int
    BY <1>1
  <2>3. Start <= p /\ p <= End - 1
    BY <1>3, <2>1, <2>2
  <2> QED BY <1>1, <2>3 DEF Pages
<1>4. Pages \subseteq Int
  BY <1>1 DEF Pages
<1>5. AvailableIn(l) = FreeIn(l)
  BY <1>1, <1>2, <1>3, <1>4 DEF AvailableIn, FreeIn
<1>6. ASSUME NEW i \in 1 .. Len(l), NEW p \in Int, l[i].base <= p, p < EndOf(l[i])
      PROVE  p \in FreeIn(l) <=> l[i].available
  BY <1>6, Alone DEF FreeIn
<1>7. AvailableIn(l) \subseteq Pages
  BY DEF AvailableIn
<1>8. ASSUME NEW i \in 1 .. Len(l), NEW p \in Int, l[i].base <= p, p < EndOf(l[i])
      PROVE  p \in Pages /\ (p \in AvailableIn(l) <=> l[i].available)
  BY <1>3, <1>5, <1>6, <1>8
<1> QED
  BY <1>5, <1>7, <1>8

\* Defragmented, a list that tiles the space does so without an empty block,
\* and available and used blocks alternate; the same pages are available.
LEMMA DefragmentedTiles ==
  ASSUME NEW l, Chain(l)
  PROVE  /\ Tiling(Defragmented(l))
         /\ AvailableIn(Defragmented(l)) = AvailableIn(l)
         /\ Len(Defragmented(l)) <= Len(l)
<1> DEFINE n == Len(l)
           d == Merged(l)[n]
<1>1. l \in Seq(AnyBlock) /\ n \in Nat \ {0} /\ n \in 1 .. n /\ n \in 0 .. n /\ EndOf(l[n]) = End
  BY ChainParts
<1>2. Follows(l, n)
  BY DEF Chain
<1>3. Merging(d, End) /\ FreeIn(d) = FreeIn(l)
  <2>1. /\ Merging(d, EndOf(l[n]))
        /\ FreeIn(d) = {p \in Int : \E i \in 1 .. n :
                          l[i].available /\ l[i].base <= p /\ p < EndOf(l[i])}
    BY <1>1, <1>2, MergedMerging
  <2> QED BY <1>1, <2>1 DEF FreeIn
<1>4. Len(d) <= n
  BY <1>1, MergedType
<1> HIDE DEF d
<1>5. Tiling(d)
  <2>1. d # <<>>
    BY <1>3, InitialTiling DEF Merging
  <2> QED BY <1>3, <2>1 DEF Merging, Tiling, Chain
<1>6. AvailableIn(d) = AvailableIn(l)
  <2>1. Chain(d)
    BY <1>5 DEF Tiling
  <2> QED BY <1>3, <2>1, AvailablePages
<1> QED
  BY <1>4, <1>5, <1>6 DEF Defragmented, d

-----------------------------------------------------------------------------
(* What requestPages and freePages do to one block *)

\* The list s is l with block i replaced by the blocks mid.
Replaces(s, l, i, mid) ==
  /\ s \in Seq(AnyBlock) /\ Len(s) = Len(l) + Len(mid) - 1
  /\ \A j \in 1 .. Len(s) :
       s[j] = IF j < i THEN l[j] ELSE IF j < i + Len(mid) THEN mid[j - i + 1]
              ELSE l[j - Len(mid) + 1]

\* Blocks that follow each other from where b begins to where it ends.
Fills(mid, b) ==
  /\ mid \in Seq(AnyBlock) /\ mid # <<>>
  /\ mid[1].base = b.base /\ EndOf(mid[Len(mid)]) = EndOf(b)
  /\ \A j \in 1 .. Len(mid) - 1 : mid[j + 1].base = EndOf(mid[j])

\* A list that tiles the space still does when one of its blocks is replaced
\* by others that fill it.
LEMMA Replaced ==
  ASSUME NEW l, Chain(l), NEW i \in 1 .. Len(l), NEW mid, Fills(mid, l[i]),
         NEW s, Replaces(s, l, i, mid)
  PROVE  /\ Chain(s)
         /\ \A p \in Int : p \in AvailableIn(s)
              <=> \/ p \in AvailableIn(l) /\ ~ (l[i].base <= p /\ p < EndOf(l[i]))
                  \/ p \in FreeIn(mid)
<1> DEFINE n == Len(l)
           k == Len(mid)
<1>1. n \in Nat \ {0} /\ k \in Nat \ {0} /\ Len(s) = n + k - 1 /\ i \in Nat /\ i <= n
  BY ChainParts, LastBlock DEF Fills, Replaces
<1>2. /\ \A j \in 1 .. i - 1 : s[j] = l[j]
      /\ \A j \in 1 .. k : s[i + j - 1] = mid[j]
      /\ \A j \in i + 1 .. n : s[j + k - 1] = l[j]
  <2>1. ASSUME NEW j \in 1 .. i - 1
        PROVE  s[j] = l[j]
    BY <1>1 DEF Replaces
  <2>2. ASSUME NEW j \in 1 .. k
        PROVE  s[i + j - 1] = mid[j]
    <3>1. /\ i + j - 1 \in 1 .. Len(s) /\ ~ (i + j - 1 < i) /\ i + j - 1 < i + k
          /\ i + j - 1 - i + 1 = j
      BY <1>1
    <3>2. s[i + j - 1] = mid[i + j - 1 - i + 1]
      BY <3>1 DEF Replaces
    <3> QED BY <3>1, <3>2
  <2>3. ASSUME NEW j \in i + 1 .. n
        PROVE  s[j + k - 1] = l[j]
    <3>1. /\ j + k - 1 \in 1 .. Len(s) /\ ~ (j + k - 1 < i) /\ ~ (j + k - 1 < i + k)
          /\ j + k - 1 - k + 1 = j
      BY <1>1
    <3>2. s[j + k - 1] = l[j + k - 1 - k + 1]
      BY <3>1 DEF Replaces
    <3> QED BY <3>1, <3>2
  <2> QED BY <2>1, <2>2, <2>3
<1>3. /\ \A j \in 1 .. n : l[j].base \in Nat /\ EndOf(l[j]) \in Nat
      /\ \A j \in 1 .. n - 1 : l[j + 1].base = EndOf(l[j])
      /\ l[1].base = Start /\ EndOf(l[n]) = End
  BY ChainParts
<1>4. s[1].base = Start
  <2>1. CASE i = 1
    <3>1. s[i + 1 - 1] = mid[1] /\ i + 1 - 1 = 1
      BY <1>1, <1>2, <2>1
    <3> QED BY <1>3, <2>1, <3>1 DEF Fills
  <2>2. CASE i # 1
    BY <1>1, <1>2, <1>3, <2>2
  <2> QED BY <2>1, <2>2
<1>5. EndOf(s[n + k - 1]) = End
  <2>1. CASE i = n
    BY <1>1, <1>2, <1>3, <2>1 DEF Fills
  <2>2. CASE i # n
    <3>1. n \in i + 1 .. n
      BY <1>1, <2>2
    <3> QED BY <1>2, <1>3, <3>1
  <2> QED BY <2>1, <2>2
<1>6. ASSUME NEW j \in 1 .. n + k - 2
      PROVE  s[j + 1].base = EndOf(s[j])
  <2>1. CASE j + 1 < i
    <3>1. s[j] = l[j] /\ s[j + 1] = l[j + 1] /\ j \in 1 .. n - 1
      BY <1>1, <1>2, <2>1
    <3> QED BY <1>3, <3>1
  <2>2. CASE j + 1 = i
    <3>1. s[j] = l[j] /\ j \in 1 .. n - 1
      BY <1>1, <1>2, <2>2
    <3>2. s[i + 1 - 1] = mid[1] /\ i + 1 - 1 = j + 1
      BY <1>1, <1>2, <2>2
    <3> QED BY <1>3, <2>2, <3>1, <3>2 DEF Fills
  <2>3. CASE i <= j /\ j + 1 < i + k
    <3> DEFINE h == j - i + 1
    <3>1. h \in 1 .. k /\ h + 1 \in 1 .. k /\ h \in 1 .. k - 1 /\ i + h - 1 = j /\ i + (h + 1) - 1 = j + 1
      BY <1>1, <2>3
    <3>2. s[j] = mid[h] /\ s[j + 1] = mid[h + 1]
      <4> HIDE DEF h
      <4>1. s[i + h - 1] = mid[h] /\ s[i + (h + 1) - 1] = mid[h + 1]
        BY <1>2, <3>1
      <4> QED BY <3>1, <4>1
    <3> HIDE DEF h
    <3> QED BY <3>1, <3>2 DEF Fills
  <2>4. CASE j + 1 = i + k
    <3>1. s[i + k - 1] = mid[k] /\ i + k - 1 = j
      BY <1>1, <1>2, <2>4
    <3>2. i + 1 \in i + 1 .. n /\ i + 1 + k - 1 = j + 1 /\ i \in 1 .. n - 1
      BY <1>1, <2>4
    <3>3. s[i + 1 + k - 1] = l[i + 1]
      BY <1>2, <3>2
    <3> QED BY <1>3, <3>1, <3>2, <3>3 DEF Fills
  <2>5. CASE i + k < j + 1
    <3> DEFINE h == j - k + 1
    <3>1. /\ h \in i + 1 .. n /\ h + 1 \in i + 1 .. n /\ h \in 1 .. n - 1
          /\ h + k - 1 = j /\ h + 1 + k - 1 = j + 1
      BY <1>1, <2>5
    <3>2. s[j] = l[h] /\ s[j + 1] = l[h + 1]
      <4> HIDE DEF h
      <4>1. s[h + k - 1] = l[h] /\ s[h + 1 + k - 1] = l[h + 1]
        BY <1>2, <3>1
      <4> QED BY <3>1, <4>1
    <3> HIDE DEF h
    <3> QED BY <1>3, <3>1, <3>2
  <2> QED BY <1>1, <2>1, <2>2, <2>3, <2>4, <2>5
<1>7. Chain(s)
  <2>1. s \in Seq(AnyBlock) /\ s # <<>> /\ Len(s) - 1 = n + k - 2
    BY <1>1, EmptySeq DEF Replaces
  <2> QED BY <1>1, <1>4, <1>5, <1>6, <2>1 DEF Chain, Follows
<1>8. ASSUME NEW p \in Int
      PROVE  p \in FreeIn(s) <=> \/ p \in FreeIn(l) /\ ~ (l[i].base <= p /\ p < EndOf(l[i]))
                                 \/ p \in FreeIn(mid)
  <2> DEFINE In(b) == b.available /\ b.base <= p /\ p < EndOf(b)
  <2>1. p \in FreeIn(s) <=> \/ \E j \in 1 .. i - 1 : In(l[j])
                            \/ \E j \in 1 .. k : In(mid[j])
                            \/ \E j \in i + 1 .. n : In(l[j])
    <3>1. p \in FreeIn(s) <=> \E j \in 1 .. n + k - 1 : In(s[j])
      BY <1>1 DEF FreeIn
    <3>2. (\E j \in 1 .. n + k - 1 : In(s[j]))
            <=> \/ \E j \in 1 .. i - 1 : In(s[j])
                \/ \E j \in 1 .. k : In(s[i + j - 1])
                \/ \E j \in i + 1 .. n : In(s[j + k - 1])
      <4> HIDE DEF In
      <4>1. ASSUME NEW j \in 1 .. n + k - 1, In(s[j])
            PROVE  \/ \E h \in 1 .. i - 1 : In(s[h])
                   \/ \E h \in 1 .. k : In(s[i + h - 1])
                   \/ \E h \in i + 1 .. n : In(s[h + k - 1])
        <5>1. CASE j < i
          BY <1>1, <4>1, <5>1
        <5>2. CASE i <= j /\ j < i + k
          <6>1. j - i + 1 \in 1 .. k /\ i + (j - i + 1) - 1 = j
            BY <1>1, <5>2
          <6> QED BY <4>1, <6>1
        <5>3. CASE i + k <= j
          <6>1. j - k + 1 \in i + 1 .. n /\ (j - k + 1) + k - 1 = j
            BY <1>1, <5>3
          <6> QED BY <4>1, <6>1
        <5> QED BY <1>1, <5>1, <5>2, <5>3
      <4>2. ASSUME NEW h \in 1 .. i - 1
            PROVE  h \in 1 .. n + k - 1
        BY <1>1
      <4>3. ASSUME NEW h \in 1 .. k
            PROVE  i + h - 1 \in 1 .. n + k - 1
        BY <1>1
      <4>4. ASSUME NEW h \in i + 1 .. n
            PROVE  h + k - 1 \in 1 .. n + k - 1
        BY <1>1
      <4> QED BY <4>1, <4>2, <4>3, <4>4
    <3> QED BY <1>2, <3>1, <3>2
  <2>2. p \in FreeIn(l) <=> \E j \in 1 .. n : In(l[j])
    BY DEF FreeIn
  <2>3. p \in FreeIn(mid) <=> \E j \in 1 .. k : In(mid[j])
    BY DEF FreeIn
  <2>4. ASSUME NEW j \in 1 .. n, j # i, In(l[j])
        PROVE  ~ (l[i].base <= p /\ p < EndOf(l[i]))
    BY <2>4, Alone
  <2>5. \A j \in 1 .. n : j \in 1 .. i - 1 \/ j = i \/ j \in i + 1 .. n
    BY <1>1
  <2>6. \A j \in 1 .. i - 1 : j \in 1 .. n /\ j # i
    BY <1>1
  <2>7. \A j \in i + 1 .. n : j \in 1 .. n /\ j # i
    BY <1>1
  <2>8. In(l[i]) => l[i].base <= p /\ p < EndOf(l[i])
    OBVIOUS
  <2> HIDE DEF In
  <2> QED BY <2>1, <2>2, <2>3, <2>4, <2>5, <2>6, <2>7, <2>8
<1>9. AvailableIn(s) = FreeIn(s) /\ AvailableIn(l) = FreeIn(l)
  BY <1>7, AvailablePages
<1> QED
  BY <1>7, <1>8, <1>9

\* The two parts of a block that is split, and the three of one that is cut.
LEMMA Parts ==
  ASSUME NEW b \in AnyBlock, NEW n \in Nat
  PROVE  /\ [b EXCEPT !.available = FALSE, !.pageCount = n] =
              [available |-> FALSE, base |-> b.base, pageCount |-> n]
         /\ [b EXCEPT !.pageCount = n] =
              [available |-> b.available, base |-> b.base, pageCount |-> n]
         /\ [b EXCEPT !.available = TRUE] =
              [available |-> TRUE, base |-> b.base, pageCount |-> b.pageCount]
<1>1. ASSUME NEW c \in AnyBlock, NEW d \in AnyBlock,
             c.available = d.available, c.base = d.base, c.pageCount = d.pageCount
      PROVE  c = d
  BY <1>1 DEF AnyBlock
<1>2. ASSUME NEW c \in AnyBlock, NEW v \in BOOLEAN
      PROVE  LET d == [c EXCEPT !.available = v]
             IN  /\ d \in AnyBlock
                 /\ d.available = v /\ d.base = c.base /\ d.pageCount = c.pageCount
  BY DEF AnyBlock
<1>3. ASSUME NEW v \in BOOLEAN, NEW e \in Nat, NEW k \in Nat
      PROVE  LET d == [available |-> v, base |-> e, pageCount |-> k]
             IN  d \in AnyBlock /\ d.available = v /\ d.base = e /\ d.pageCount = k
  BY DEF AnyBlock
<1>4. b.available \in BOOLEAN /\ b.base \in Nat /\ b.pageCount \in Nat
  BY BlockParts
<1>5. [b EXCEPT !.available = TRUE] =
        [available |-> TRUE, base |-> b.base, pageCount |-> b.pageCount]
  <2> DEFINE left == [b EXCEPT !.available = TRUE]
             right == [available |-> TRUE, base |-> b.base, pageCount |-> b.pageCount]
  <2>1. left \in AnyBlock /\ left.available = TRUE /\ left.base = b.base /\ left.pageCount = b.pageCount
    BY <1>2
  <2>2. right \in AnyBlock /\ right.available = TRUE /\ right.base = b.base /\ right.pageCount = b.pageCount
    BY <1>3, <1>4
  <2> HIDE DEF left, right
  <2>3. left = right
    BY <1>1, <2>1, <2>2
  <2> QED BY <2>3 DEF left, right
<1>6. [b EXCEPT !.pageCount = n] =
        [available |-> b.available, base |-> b.base, pageCount |-> n]
  <2> DEFINE left == [b EXCEPT !.pageCount = n]
             right == [available |-> b.available, base |-> b.base, pageCount |-> n]
  <2>1. left \in AnyBlock /\ left.available = b.available /\ left.base = b.base /\ left.pageCount = n
    BY Resized
  <2>2. right \in AnyBlock /\ right.available = b.available /\ right.base = b.base /\ right.pageCount = n
    BY <1>3, <1>4
  <2> HIDE DEF left, right
  <2>3. left = right
    BY <1>1, <2>1, <2>2
  <2> QED BY <2>3 DEF left, right
<1>7. [b EXCEPT !.available = FALSE, !.pageCount = n] =
        [available |-> FALSE, base |-> b.base, pageCount |-> n]
  <2> DEFINE c == [b EXCEPT !.available = FALSE]
  <2>1. c \in AnyBlock /\ c.available = FALSE /\ c.base = b.base
    BY <1>2
  <2> HIDE DEF c
  <2>2. [c EXCEPT !.pageCount = n] \in AnyBlock /\ [c EXCEPT !.pageCount = n].available = c.available
        /\ [c EXCEPT !.pageCount = n].base = c.base /\ [c EXCEPT !.pageCount = n].pageCount = n
    BY <2>1, Resized
  <2> DEFINE left == [b EXCEPT !.available = FALSE, !.pageCount = n]
             right == [available |-> FALSE, base |-> b.base, pageCount |-> n]
  <2>3. left \in AnyBlock /\ left.available = FALSE /\ left.base = b.base /\ left.pageCount = n
    BY <2>1, <2>2 DEF c
  <2>4. right \in AnyBlock /\ right.available = FALSE /\ right.base = b.base /\ right.pageCount = n
    BY <1>3, <1>4
  <2> HIDE DEF left, right
  <2>5. left = right
    BY <1>1, <2>3, <2>4
  <2> QED BY <2>5 DEF left, right
<1> QED
  BY <1>5, <1>6, <1>7

\* What is left of a block that is split.
LEMMA RestOfBlock ==
  ASSUME NEW b \in AnyBlock, NEW a \in Nat, NEW n \in Nat
  PROVE  [b EXCEPT !.base = a, !.pageCount = n] =
           [available |-> b.available, base |-> a, pageCount |-> n]
<1>1. ASSUME NEW c \in AnyBlock, NEW d \in AnyBlock,
             c.available = d.available, c.base = d.base, c.pageCount = d.pageCount
      PROVE  c = d
  BY <1>1 DEF AnyBlock
<1>2. ASSUME NEW c \in AnyBlock
      PROVE  LET d == [c EXCEPT !.base = a]
             IN  /\ d \in AnyBlock
                 /\ d.available = c.available /\ d.base = a /\ d.pageCount = c.pageCount
  BY DEF AnyBlock
<1>3. ASSUME NEW v \in BOOLEAN, NEW e \in Nat, NEW k \in Nat
      PROVE  LET d == [available |-> v, base |-> e, pageCount |-> k]
             IN  d \in AnyBlock /\ d.available = v /\ d.base = e /\ d.pageCount = k
  BY DEF AnyBlock
<1>4. b.available \in BOOLEAN /\ b.base \in Nat /\ b.pageCount \in Nat
  BY BlockParts
<1>5. [b EXCEPT !.base = a, !.pageCount = n] =
        [available |-> b.available, base |-> a, pageCount |-> n]
  <2> DEFINE c == [b EXCEPT !.base = a]
  <2>1. c \in AnyBlock /\ c.available = b.available /\ c.base = a
    BY <1>2
  <2> HIDE DEF c
  <2>2. [c EXCEPT !.pageCount = n] \in AnyBlock /\ [c EXCEPT !.pageCount = n].available = c.available
        /\ [c EXCEPT !.pageCount = n].base = c.base /\ [c EXCEPT !.pageCount = n].pageCount = n
    BY <2>1, Resized
  <2> DEFINE left == [b EXCEPT !.base = a, !.pageCount = n]
             right == [available |-> b.available, base |-> a, pageCount |-> n]
  <2>3. left \in AnyBlock /\ left.available = b.available /\ left.base = a /\ left.pageCount = n
    BY <2>1, <2>2 DEF c
  <2>4. right \in AnyBlock /\ right.available = b.available /\ right.base = a /\ right.pageCount = n
    BY <1>3, <1>4
  <2> HIDE DEF left, right
  <2>5. left = right
    BY <1>1, <2>3, <2>4
  <2> QED BY <2>5 DEF left, right
<1> QED
  BY <1>5

\* One block replaced by another.
LEMMA OneReplaced ==
  ASSUME NEW l \in Seq(AnyBlock), NEW i \in 1 .. Len(l), NEW b \in AnyBlock
  PROVE  Replaces([l EXCEPT ![i] = b], l, i, <<b>>)
<1> DEFINE s == [l EXCEPT ![i] = b]
<1>1. s \in Seq(AnyBlock) /\ Len(s) = Len(l) /\ Len(l) \in Nat
  BY ExceptSeq, LenProperties
<1>2. \A j \in 1 .. Len(l) : s[j] = IF j = i THEN b ELSE l[j]
  BY ExceptSeq
<1>3. Len(<<b>>) = 1 /\ <<b>>[1] = b
  OBVIOUS
<1> HIDE DEF s
<1>4. ASSUME NEW j \in 1 .. Len(s)
      PROVE  s[j] = IF j < i THEN l[j] ELSE IF j < i + 1 THEN <<b>>[j - i + 1] ELSE l[j - 1 + 1]
  <2>1. CASE j < i
    BY <1>1, <1>2, <2>1
  <2>2. CASE j = i
    BY <1>1, <1>2, <1>3, <2>2
  <2>3. CASE j > i
    <3>1. ~ (j < i) /\ ~ (j < i + 1) /\ j - 1 + 1 = j /\ j # i
      BY <1>1, <2>3
    <3>2. s[j] = l[j]
      BY <1>1, <1>2, <3>1
    <3> QED BY <3>1, <3>2
  <2> QED BY <1>1, <2>1, <2>2, <2>3
<1> QED
  BY <1>1, <1>3, <1>4 DEF Replaces, s

\* One block replaced by several, as freePages does.
LEMMA Spliced ==
  ASSUME NEW l \in Seq(AnyBlock), NEW i \in 1 .. Len(l), NEW mid \in Seq(AnyBlock)
  PROVE  Replaces(SubSeq(l, 1, i - 1) \o mid \o SubSeq(l, i + 1, Len(l)), l, i, mid)
<1> DEFINE before == SubSeq(l, 1, i - 1)
           after == SubSeq(l, i + 1, Len(l))
           front == before \o mid
           s == front \o after
           n == Len(l)
           k == Len(mid)
<1>0. n \in Nat /\ k \in Nat /\ i \in Nat
  BY LenProperties
<1>1. /\ before \in Seq(AnyBlock) /\ Len(before) = i - 1
      /\ \A j \in 1 .. i - 1 : before[j] = l[j]
  BY <1>0, SubSeqProperties
<1>2. /\ after \in Seq(AnyBlock) /\ Len(after) = n - i
      /\ \A j \in 1 .. n - i : after[j] = l[i + j]
  <2>1. IF i + 1 <= n THEN Len(after) = n - (i + 1) + 1 ELSE Len(after) = 0
    BY <1>0, SubSeqProperties
  <2>2. after \in Seq(AnyBlock) /\ Len(after) = n - i
    BY <1>0, <2>1, SubSeqProperties
  <2>3. \A j \in 1 .. n - (i + 1) + 1 : after[j] = l[i + 1 + j - 1]
    BY <1>0, SubSeqProperties
  <2>4. ASSUME NEW j \in 1 .. n - i
        PROVE  after[j] = l[i + j]
    <3>1. j \in 1 .. n - (i + 1) + 1 /\ i + 1 + j - 1 = i + j
      BY <1>0
    <3>2. after[j] = l[i + 1 + j - 1]
      BY <2>3, <3>1
    <3> QED BY <3>1, <3>2
  <2> QED BY <2>2, <2>4
<1> HIDE DEF before, after
<1>3. /\ front \in Seq(AnyBlock) /\ Len(front) = i - 1 + k
      /\ \A j \in 1 .. i - 1 + k : front[j] = IF j <= i - 1 THEN before[j] ELSE mid[j - (i - 1)]
  <2>1. /\ front \in Seq(AnyBlock) /\ Len(front) = Len(before) + Len(mid)
        /\ \A j \in 1 .. Len(before) + Len(mid) :
             front[j] = IF j <= Len(before) THEN before[j] ELSE mid[j - Len(before)]
    BY <1>1, ConcatProperties
  <2> QED BY <1>1, <2>1
<1> HIDE DEF front
<1>4. /\ s \in Seq(AnyBlock) /\ Len(s) = n + k - 1
      /\ \A j \in 1 .. n + k - 1 :
           s[j] = IF j <= i - 1 + k THEN front[j] ELSE after[j - (i - 1 + k)]
  <2>1. /\ s \in Seq(AnyBlock) /\ Len(s) = Len(front) + Len(after)
        /\ \A j \in 1 .. Len(front) + Len(after) :
             s[j] = IF j <= Len(front) THEN front[j] ELSE after[j - Len(front)]
    BY <1>2, <1>3, ConcatProperties
  <2>2. Len(front) + Len(after) = n + k - 1
    BY <1>0, <1>2, <1>3
  <2> QED BY <1>3, <2>1, <2>2
<1> HIDE DEF s
<1>5. ASSUME NEW j \in 1 .. n + k - 1
      PROVE  s[j] = IF j < i THEN l[j] ELSE IF j < i + k THEN mid[j - i + 1] ELSE l[j - k + 1]
  <2>1. CASE j < i
    <3>1. j \in 1 .. i - 1 /\ j \in 1 .. i - 1 + k /\ j <= i - 1 /\ j <= i - 1 + k
      BY <1>0, <2>1
    <3>2. s[j] = front[j] /\ front[j] = before[j] /\ before[j] = l[j]
      BY <1>1, <1>3, <1>4, <3>1
    <3> QED BY <2>1, <3>2
  <2>2. CASE i <= j /\ j < i + k
    <3>1. j <= i - 1 + k /\ ~ (j <= i - 1) /\ j - (i - 1) = j - i + 1 /\ j \in 1 .. i - 1 + k
      BY <1>0, <2>2
    <3>2. s[j] = front[j] /\ front[j] = mid[j - (i - 1)]
      BY <1>3, <1>4, <3>1
    <3> QED BY <1>0, <2>2, <3>1, <3>2
  <2>3. CASE i + k <= j
    <3>1. /\ ~ (j <= i - 1 + k) /\ j - (i - 1 + k) \in 1 .. n - i
          /\ i + (j - (i - 1 + k)) = j - k + 1
      BY <1>0, <2>3
    <3>2. s[j] = after[j - (i - 1 + k)] /\ after[j - (i - 1 + k)] = l[i + (j - (i - 1 + k))]
      BY <1>2, <1>4, <3>1
    <3> QED BY <1>0, <2>3, <3>1, <3>2
  <2>4. j < i \/ (i <= j /\ j < i + k) \/ i + k <= j
    BY <1>0
  <2> QED BY <2>1, <2>2, <2>3, <2>4
<1>6. s = SubSeq(l, 1, i - 1) \o mid \o SubSeq(l, i + 1, Len(l))
  BY DEF s, front, before, after
<1> QED
  BY <1>4, <1>5, <1>6 DEF Replaces

\* The blocks that stand for one block, two or three.
LEMMA FewBlocks ==
  ASSUME NEW a \in AnyBlock, NEW b \in AnyBlock, NEW c \in AnyBlock
  PROVE  /\ <<a>> \in Seq(AnyBlock) /\ Len(<<a>>) = 1 /\ <<a>> # <<>> /\ <<a>>[1] = a
         /\ <<a, b>> \in Seq(AnyBlock) /\ Len(<<a, b>>) = 2 /\ <<a, b>> # <<>>
         /\ <<a, b>>[1] = a /\ <<a, b>>[2] = b
         /\ <<a, b, c>> \in Seq(AnyBlock) /\ Len(<<a, b, c>>) = 3 /\ <<a, b, c>> # <<>>
         /\ <<a, b, c>>[1] = a /\ <<a, b, c>>[2] = b /\ <<a, b, c>>[3] = c
OBVIOUS

\* requestPages: the front of the block is used, the rest is still available.
LEMMA SplitTiles ==
  ASSUME Tiling(list), NEW i \in 1 .. Len(list), list[i].available,
         NEW count \in Nat \ {0}, count <= list[i].pageCount
  PROVE  LET range == list[i].base .. list[i].base + count - 1
         IN  /\ Chain(Split(i, count))
             /\ range \subseteq AvailableIn(list)
             /\ AvailableIn(Split(i, count)) = AvailableIn(list) \ range
             /\ Len(Split(i, count)) = Len(list) \/ Len(Split(i, count)) = Len(list) + 1
<1> DEFINE b == list[i]
           taken == [available |-> FALSE, base |-> b.base, pageCount |-> count]
           rest == [available |-> b.available, base |-> b.base + count,
                    pageCount |-> b.pageCount - count]
           s == Split(i, count)
           range == b.base .. b.base + count - 1
           In(p) == b.base <= p /\ p < EndOf(b)
<1>1. /\ Chain(list) /\ list \in Seq(AnyBlock) /\ Len(list) \in Nat /\ i \in Nat
      /\ b \in AnyBlock /\ b.base \in Nat /\ b.pageCount \in Nat
      /\ EndOf(b) = b.base + b.pageCount /\ EndOf(b) \in Nat /\ b.available = TRUE
  BY ChainParts DEF Tiling
<1> HIDE DEF b
<1>2. b.base + count \in Nat /\ b.pageCount - count \in Nat /\ count \in Nat
  BY <1>1 DEF b
<1>3. /\ taken \in AnyBlock /\ taken.available = FALSE /\ taken.base = b.base
      /\ taken.pageCount = count /\ EndOf(taken) = b.base + count
      /\ rest \in AnyBlock /\ rest.available = TRUE /\ rest.base = b.base + count
      /\ rest.pageCount = b.pageCount - count /\ EndOf(rest) = EndOf(b)
  <2>1. /\ taken = [available |-> FALSE, base |-> b.base, pageCount |-> count]
        /\ rest = [available |-> TRUE, base |-> b.base + count, pageCount |-> b.pageCount - count]
    BY <1>1
  <2> HIDE DEF taken, rest
  <2>2. /\ taken \in AnyBlock /\ taken.available = FALSE /\ taken.base = b.base
        /\ taken.pageCount = count /\ EndOf(taken) = b.base + count
    BY <1>1, <1>2, <2>1 DEF AnyBlock, EndOf
  <2>3. /\ rest \in AnyBlock /\ rest.available = TRUE /\ rest.base = b.base + count
        /\ rest.pageCount = b.pageCount - count
        /\ EndOf(rest) = (b.base + count) + (b.pageCount - count)
    BY <1>2, <2>1 DEF AnyBlock, EndOf
  <2> QED BY <1>1, <1>2, <2>2, <2>3
<1>4. /\ [b EXCEPT !.available = FALSE, !.pageCount = count] = taken
      /\ [b EXCEPT !.base = b.base + count, !.pageCount = b.pageCount - count] = rest
  <2>1. [b EXCEPT !.available = FALSE, !.pageCount = count] = taken
    BY <1>1, <1>2, Parts
  <2> DEFINE e == b.base + count
             m == b.pageCount - count
  <2>2. rest = [available |-> b.available, base |-> e, pageCount |-> m] /\ e \in Nat /\ m \in Nat
    BY <1>2
  <2> HIDE DEF e, m, rest
  <2>3. [b EXCEPT !.base = e, !.pageCount = m]
          = [available |-> b.available, base |-> e, pageCount |-> m]
    BY <1>1, <2>2, RestOfBlock
  <2> QED BY <2>1, <2>2, <2>3 DEF e, m
<1>5. s = IF b.pageCount = count THEN [list EXCEPT ![i] = taken]
          ELSE InsertAt([list EXCEPT ![i] = taken], i + 1, rest)
  BY <1>4 DEF Split, b
<1>6. range \subseteq AvailableIn(list) /\ \A p \in Int : In(p) => p \in AvailableIn(list)
  <2>1. \A p \in Int : In(p) => p \in AvailableIn(list)
    BY <1>1, AvailablePages DEF b
  <2>2. \A p \in range : p \in Int /\ In(p)
    BY <1>1, <1>2
  <2> QED BY <2>1, <2>2
<1>7. AvailableIn(list) \subseteq Int
  BY <1>1, AvailablePages DEF FreeIn
<1> HIDE DEF taken, rest, s
<1>8. CASE b.pageCount = count
  <2>1. Replaces(s, list, i, <<taken>>)
    BY <1>1, <1>3, <1>5, <1>8, OneReplaced
  <2>2. Fills(<<taken>>, b)
    BY <1>1, <1>3, <1>8, FewBlocks DEF Fills
  <2>3. FreeIn(<<taken>>) = {}
    BY <1>3, FewBlocks DEF FreeIn
  <2>4. /\ Chain(s)
        /\ \A p \in Int : p \in AvailableIn(s)
             <=> (p \in AvailableIn(list) /\ ~ In(p)) \/ p \in FreeIn(<<taken>>)
    <3>1. Fills(<<taken>>, list[i])
      BY <2>2 DEF b
    <3>2. Chain(s)
      BY <1>1, <2>1, <3>1, Replaced
    <3>3. \A p \in Int : p \in AvailableIn(s)
            <=> \/ p \in AvailableIn(list) /\ ~ (list[i].base <= p /\ p < EndOf(list[i]))
                \/ p \in FreeIn(<<taken>>)
      BY <1>1, <2>1, <3>1, Replaced
    <3> QED BY <3>2, <3>3 DEF b
  <2>5. AvailableIn(s) = AvailableIn(list) \ range
    <3>1. \A p \in Int : p \in range <=> In(p)
      BY <1>1, <1>2, <1>8
    <3>2. AvailableIn(s) \subseteq Int
      BY <2>4, AvailablePages DEF FreeIn
    <3> HIDE DEF range, In
    <3> QED BY <3>2, <1>7, <2>3, <2>4, <3>1
  <2>6. Len(s) = Len(list)
    BY <1>1, <1>3, <2>1, FewBlocks DEF Replaces
  <2> QED BY <1>6, <2>4, <2>5, <2>6 DEF b, s
<1>9. CASE b.pageCount # count
  <2> DEFINE t == [list EXCEPT ![i] = taken]
  <2>1. /\ t \in Seq(AnyBlock) /\ Len(t) = Len(list)
        /\ \A j \in 1 .. Len(list) : t[j] = IF j = i THEN taken ELSE list[j]
    BY <1>1, <1>3, ExceptSeq
  <2>2. s = InsertAt(t, i + 1, rest)
    BY <1>5, <1>9
  <2> HIDE DEF t
  <2>3. /\ s \in Seq(AnyBlock) /\ Len(s) = Len(list) + 1
        /\ \A j \in 1 .. Len(list) + 1 :
             s[j] = IF j < i + 1 THEN t[j] ELSE IF j = i + 1 THEN rest ELSE t[j - 1]
    <3> DEFINE k == i + 1
    <3>1. k \in 1 .. Len(t) + 1
      BY <1>1, <2>1
    <3> HIDE DEF k
    <3>2. /\ InsertAt(t, k, rest) \in Seq(AnyBlock)
          /\ Len(InsertAt(t, k, rest)) = Len(t) + 1
          /\ \A j \in 1 .. Len(t) + 1 :
               InsertAt(t, k, rest)[j] = IF j < k THEN t[j]
                                             ELSE IF j = k THEN rest ELSE t[j - 1]
      <4>1. t \in Seq(AnyBlock) /\ rest \in AnyBlock /\ k \in 1 .. Len(t) + 1
        BY <1>3, <2>1, <3>1
      <4>2. InsertAt(t, k, rest) \in Seq(AnyBlock)
        BY <4>1, Inserted
      <4>3. Len(InsertAt(t, k, rest)) = Len(t) + 1
        BY <4>1, Inserted
      <4>4. \A j \in 1 .. Len(t) + 1 :
               InsertAt(t, k, rest)[j] = IF j < k THEN t[j]
                                             ELSE IF j = k THEN rest ELSE t[j - 1]
        BY <4>1, Inserted
      <4> QED BY <4>2, <4>3, <4>4
    <3> QED BY <2>1, <2>2, <3>2 DEF k
  <2>4. Replaces(s, list, i, <<taken, rest>>)
    <3>1. Len(<<taken, rest>>) = 2 /\ <<taken, rest>>[1] = taken /\ <<taken, rest>>[2] = rest
      BY <1>3, FewBlocks
    <3>2. ASSUME NEW j \in 1 .. Len(list) + 1, j < i
          PROVE  s[j] = list[j]
      BY <1>1, <2>1, <2>3, <3>2
    <3>3. s[i] = taken /\ s[i + 1] = rest
      BY <1>1, <2>1, <2>3
    <3>4. ASSUME NEW j \in 1 .. Len(list) + 1, j > i + 1
          PROVE  s[j] = list[j - 1]
      <4>1. ~ (j < i + 1) /\ j # i + 1 /\ j - 1 \in 1 .. Len(list) /\ j - 1 # i
        BY <1>1, <3>4
      <4>2. s[j] = t[j - 1] /\ t[j - 1] = list[j - 1]
        BY <2>1, <2>3, <4>1
      <4> QED BY <4>2
    <3>5. ASSUME NEW j \in 1 .. Len(list) + 1
          PROVE  s[j] = IF j < i THEN list[j]
                        ELSE IF j < i + 2 THEN <<taken, rest>>[j - i + 1] ELSE list[j - 2 + 1]
      <4>1. CASE j < i
        BY <3>2, <4>1
      <4>2. CASE j = i
        <5>1. ~ (j < i) /\ j < i + 2 /\ j - i + 1 = 1
          BY <1>1, <4>2
        <5> QED BY <3>1, <3>3, <4>2, <5>1
      <4>3. CASE j = i + 1
        <5>1. ~ (j < i) /\ j < i + 2 /\ j - i + 1 = 2
          BY <1>1, <4>3
        <5> QED BY <3>1, <3>3, <4>3, <5>1
      <4>4. CASE j > i + 1
        <5>1. ~ (j < i) /\ ~ (j < i + 2) /\ j - 2 + 1 = j - 1
          BY <1>1, <4>4
        <5> QED BY <3>4, <4>4, <5>1
      <4> QED BY <1>1, <4>1, <4>2, <4>3, <4>4
    <3>6. Len(list) + Len(<<taken, rest>>) - 1 = Len(list) + 1
      BY <1>1, <3>1
    <3> QED BY <2>3, <3>1, <3>5, <3>6 DEF Replaces
  <2>5. Fills(<<taken, rest>>, b)
    BY <1>3, FewBlocks DEF Fills
  <2>6. \A p \in Int : p \in FreeIn(<<taken, rest>>) <=> b.base + count <= p /\ p < EndOf(b)
    BY <1>3, FewBlocks DEF FreeIn
  <2>7. /\ Chain(s)
        /\ \A p \in Int : p \in AvailableIn(s)
             <=> (p \in AvailableIn(list) /\ ~ In(p)) \/ p \in FreeIn(<<taken, rest>>)
    <3>1. Fills(<<taken, rest>>, list[i])
      BY <2>5 DEF b
    <3>2. Chain(s)
      BY <1>1, <2>4, <3>1, Replaced
    <3>3. \A p \in Int : p \in AvailableIn(s)
            <=> \/ p \in AvailableIn(list) /\ ~ (list[i].base <= p /\ p < EndOf(list[i]))
                \/ p \in FreeIn(<<taken, rest>>)
      BY <1>1, <2>4, <3>1, Replaced
    <3> QED BY <3>2, <3>3 DEF b
  <2>8. AvailableIn(s) = AvailableIn(list) \ range
    <3>1. \A p \in Int : In(p) => (p \in range <=> ~ (b.base + count <= p /\ p < EndOf(b)))
      BY <1>1, <1>2
    <3>2. \A p \in Int : p \in range => In(p)
      BY <1>1, <1>2
    <3>3. FreeIn(<<taken, rest>>) \subseteq Int
      BY DEF FreeIn
    <3>4. \A p \in Int : b.base + count <= p /\ p < EndOf(b) => In(p)
      BY <1>1, <1>2
    <3>5. AvailableIn(s) \subseteq Int
      BY <2>7, AvailablePages DEF FreeIn
    <3> HIDE DEF range, In
    <3> QED BY <3>5, <1>6, <1>7, <2>6, <2>7, <3>1, <3>2, <3>3, <3>4
  <2> QED BY <1>6, <2>3, <2>7, <2>8 DEF b, s
<1> QED
  BY <1>8, <1>9

\* The three blocks that freePages makes of one, as it means them to be and
\* with the first one left as long as it was.
LEMMA CutBlocks ==
  ASSUME Tiling(list), NEW i \in 1 .. Len(list), ~ list[i].available,
         NEW first \in Int, NEW count \in Nat \ {0},
         list[i].base <= first, first + count <= EndOf(list[i])
  PROVE  LET cut == Cut(i, first, count)
         IN  /\ first \in Nat
             /\ cut.head \in AnyBlock /\ cut.middle \in AnyBlock /\ cut.tail \in AnyBlock
             /\ ~ cut.head.available /\ cut.middle.available /\ ~ cut.tail.available
             /\ cut.head.base = list[i].base /\ EndOf(cut.head) = first
             /\ cut.middle.base = first /\ EndOf(cut.middle) = first + count
             /\ cut.middle.pageCount = count
             /\ cut.tail.base = first + count /\ EndOf(cut.tail) = EndOf(list[i])
<1> DEFINE b == list[i]
           head == [available |-> b.available, base |-> b.base, pageCount |-> first - b.base]
           middle == [available |-> TRUE, base |-> first, pageCount |-> count]
           tail == [available |-> FALSE, base |-> first + count,
                    pageCount |-> (b.base + b.pageCount) - (first + count)]
           cut == Cut(i, first, count)
<1>1. /\ b \in AnyBlock /\ b.base \in Nat /\ b.pageCount \in Nat
      /\ EndOf(b) = b.base + b.pageCount /\ EndOf(b) \in Nat /\ b.available = FALSE
  BY ChainParts DEF Tiling
<1> HIDE DEF b
<1>2. b.base <= first /\ first + count <= EndOf(b)
  BY DEF b
<1>3. /\ first \in Nat /\ first + count \in Nat /\ first - b.base \in Nat
      /\ (b.base + b.pageCount) - (first + count) \in Nat
  BY <1>1, <1>2
<1>4. [b EXCEPT !.pageCount = first - b.base] = head
  BY <1>1, <1>3, Parts
<1>5. cut.head = [list[i] EXCEPT !.pageCount = first - list[i].base]
  BY DEF Cut
<1>6. cut.head = head /\ cut.middle = middle /\ cut.tail = tail
  <2>1. cut.head = head
    BY <1>4, <1>5 DEF b
  <2>2. cut.middle = middle
    BY DEF Cut
  <2>3. cut.tail = tail
    BY DEF Cut, b
  <2> QED BY <2>1, <2>2, <2>3
<1> HIDE DEF cut
<1>7. /\ head \in AnyBlock /\ ~ head.available /\ head.base = b.base
      /\ EndOf(head) = b.base + (first - b.base)
  BY <1>1, <1>3 DEF AnyBlock, EndOf
<1>8. /\ middle \in AnyBlock /\ middle.available /\ middle.base = first
      /\ EndOf(middle) = first + count /\ middle.pageCount = count
  BY <1>1, <1>3 DEF AnyBlock, EndOf
<1>9. /\ tail \in AnyBlock /\ ~ tail.available /\ tail.base = first + count
      /\ EndOf(tail) = (first + count) + ((b.base + b.pageCount) - (first + count))
  BY <1>1, <1>3 DEF AnyBlock, EndOf
<1>10. EndOf(head) = first /\ EndOf(tail) = EndOf(b)
  <2>1. ASSUME NEW x \in Int, NEW y \in Int
        PROVE  x + (y - x) = y
    OBVIOUS
  <2>2. first \in Int /\ first + count \in Int /\ b.base \in Int /\ b.base + b.pageCount \in Int
    BY <1>1, <1>3
  <2> HIDE DEF head, tail
  <2>3. b.base + (first - b.base) = first
    BY <2>1, <2>2
  <2>4. (first + count) + ((b.base + b.pageCount) - (first + count)) = b.base + b.pageCount
    BY <2>1, <2>2
  <2> QED BY <1>1, <1>7, <1>9, <2>3, <2>4
<1> HIDE DEF head, middle, tail
<1> QED
  BY <1>3, <1>6, <1>7, <1>8, <1>9, <1>10 DEF cut, b

\* freePages, when the whole block is given back.
LEMMA ExactTiles ==
  ASSUME Tiling(list), NEW i \in 1 .. Len(list), ~ list[i].available
  PROVE  LET s == [list EXCEPT ![i].available = TRUE]
         IN  /\ Chain(s) /\ Len(s) = Len(list)
             /\ \A p \in Int : p \in AvailableIn(s)
                  <=> p \in AvailableIn(list) \/ (list[i].base <= p /\ p < EndOf(list[i]))
<1> DEFINE b == list[i]
           freed == [available |-> TRUE, base |-> b.base, pageCount |-> b.pageCount]
           s == [list EXCEPT ![i].available = TRUE]
<1>1. /\ Chain(list) /\ list \in Seq(AnyBlock) /\ Len(list) \in Nat
      /\ b \in AnyBlock /\ b.base \in Nat /\ b.pageCount \in Nat
      /\ EndOf(b) = b.base + b.pageCount
  BY ChainParts DEF Tiling
<1> HIDE DEF b
<1>2. /\ freed \in AnyBlock /\ freed.available /\ freed.base = b.base
      /\ EndOf(freed) = b.base + b.pageCount
  BY <1>1 DEF AnyBlock, EndOf
<1>3. s = [list EXCEPT ![i] = freed]
  <2>1. [b EXCEPT !.available = TRUE] = freed
    BY <1>1, Parts
  <2> QED BY <2>1 DEF b
<1> HIDE DEF s, freed
<1>4. Replaces(s, list, i, <<freed>>)
  BY <1>1, <1>2, <1>3, OneReplaced
<1>5. Fills(<<freed>>, list[i])
  BY <1>1, <1>2, FewBlocks DEF Fills, b
<1>6. Chain(s)
  BY <1>1, <1>4, <1>5, Replaced
<1>7. \A p \in Int : p \in AvailableIn(s)
        <=> \/ p \in AvailableIn(list) /\ ~ (list[i].base <= p /\ p < EndOf(list[i]))
            \/ p \in FreeIn(<<freed>>)
  BY <1>1, <1>4, <1>5, Replaced
<1>8. \A p \in Int : p \in FreeIn(<<freed>>) <=> list[i].base <= p /\ p < EndOf(list[i])
  BY <1>1, <1>2, FewBlocks DEF FreeIn, b
<1>9. Len(s) = Len(list)
  BY <1>1, <1>2, <1>4, FewBlocks DEF Replaces
<1> QED
  BY <1>6, <1>7, <1>8, <1>9 DEF s

\* freePages, when a part of the block is given back and the vector has room.
LEMMA CutTiles ==
  ASSUME Tiling(list), NEW i \in 1 .. Len(list), ~ list[i].available,
         NEW first \in Int, NEW count \in Nat \ {0},
         list[i].base <= first, first + count <= EndOf(list[i]),
         ~ (Len(list) + 2 > capacity)
  PROVE  LET s == CutList(i, first, count)
         IN  /\ Chain(s) /\ Len(s) = Len(list) + 2
             /\ \A p \in Int : p \in AvailableIn(s)
                  <=> p \in AvailableIn(list) \/ (first <= p /\ p < first + count)
<1> DEFINE b == list[i]
           cut == Cut(i, first, count)
           mid == <<cut.head, cut.middle, cut.tail>>
           s == CutList(i, first, count)
<1>1. /\ Chain(list) /\ list \in Seq(AnyBlock) /\ Len(list) \in Nat
      /\ b.base \in Nat /\ EndOf(b) \in Nat /\ first + count <= EndOf(b) /\ b.base <= first
      /\ b.available = FALSE
  BY ChainParts DEF Tiling
<1>2. /\ first \in Nat
      /\ cut.head \in AnyBlock /\ cut.middle \in AnyBlock /\ cut.tail \in AnyBlock
      /\ ~ cut.head.available /\ cut.middle.available /\ ~ cut.tail.available
      /\ cut.head.base = b.base /\ EndOf(cut.head) = first
      /\ cut.middle.base = first /\ EndOf(cut.middle) = first + count
      /\ cut.tail.base = first + count /\ EndOf(cut.tail) = EndOf(b)
  BY CutBlocks, SMTT(60)
<1> HIDE DEF b, cut
<1>3. /\ mid \in Seq(AnyBlock) /\ Len(mid) = 3 /\ mid # <<>>
      /\ mid[1] = cut.head /\ mid[2] = cut.middle /\ mid[3] = cut.tail
  BY <1>2, FewBlocks
<1>4. s = SubSeq(list, 1, i - 1) \o mid \o SubSeq(list, i + 1, Len(list))
  BY DEF CutList, cut
<1> HIDE DEF mid, s
<1>5. Replaces(s, list, i, mid)
  BY <1>1, <1>3, <1>4, Spliced
<1>6. Fills(mid, list[i])
  BY <1>2, <1>3 DEF Fills, b
<1>7. Chain(s)
  BY <1>1, <1>5, <1>6, Replaced
<1>8. \A p \in Int : p \in AvailableIn(s)
        <=> (p \in AvailableIn(list) /\ ~ (b.base <= p /\ p < EndOf(b))) \/ p \in FreeIn(mid)
  BY <1>1, <1>5, <1>6, Replaced DEF b
<1>9. \A p \in Int : p \in FreeIn(mid) <=> first <= p /\ p < first + count
  BY <1>2, <1>3 DEF FreeIn
<1>10. \A p \in Int : b.base <= p /\ p < EndOf(b) => p \notin AvailableIn(list)
  BY <1>1, AvailablePages DEF b
<1>11. Len(s) = Len(list) + 2
  BY <1>1, <1>3, <1>5 DEF Replaces
<1> QED
  BY <1>7, <1>8, <1>9, <1>10, <1>11 DEF s

\* A block that is not empty is the last one, or part of it, when it is added.
LEMMA WithBlockLast ==
  ASSUME NEW m \in Seq(AnyBlock), NEW b \in AnyBlock, b.pageCount # 0,
         NEW t, t = WithBlock(m, b)
  PROVE  /\ t \in Seq(AnyBlock) /\ t # <<>>
         /\ t[Len(t)].available = b.available
<1>1. CASE m # <<>> /\ Last(m).available = b.available
  <2>1. t = Longer(m, b.pageCount)
    BY <1>1 DEF WithBlock, Longer
  <2>2. b.pageCount \in Nat /\ m[Len(m)].available = b.available
    BY <1>1, BlockParts, LastBlock
  <2> QED BY <1>1, <2>1, <2>2, Grows
<1>2. CASE ~ (m # <<>> /\ Last(m).available = b.available)
  <2>1. t = Append(m, b)
    BY <1>2 DEF WithBlock
  <2>2. t \in Seq(AnyBlock) /\ Len(t) = Len(m) + 1 /\ t[Len(m) + 1] = b /\ t # <<>>
    BY <2>1, AppendProperties
  <2> QED BY <2>2
<1> QED
  BY <1>1, <1>2

\* A block that does not begin where the one before it ends stays so, unless
\* the two are alike or one of them is empty.
LEMMA GapStays ==
  ASSUME NEW s \in Seq(AnyBlock), NEW i \in 1 .. Len(s) - 1, Follows(s, i),
         s[i].pageCount # 0, s[i + 1].pageCount # 0,
         s[i].available # s[i + 1].available, s[i + 1].base # EndOf(s[i])
  PROVE  ~ ListMono(Defragmented(s))
<1> DEFINE m == Merged(s)[i]
           more == Merged(s)[i + 1]
           k == Len(m)
           t == Merged(s)[Len(s)]
<1>1. /\ Len(s) \in Nat /\ i \in Nat /\ i \in 1 .. Len(s) /\ i + 1 \in 1 .. Len(s)
      /\ i - 1 \in 0 .. Len(s) /\ i + 1 \in 0 .. Len(s) /\ Len(s) \in i + 1 .. Len(s)
      /\ Len(s) \in 0 .. Len(s) /\ i + 1 - 1 = i
  BY LenProperties
<1>2. s[i] \in AnyBlock /\ s[i + 1] \in AnyBlock
  BY <1>1
<1>3. Merging(m, EndOf(s[i]))
  BY <1>1, MergedMerging
<1>4. m = WithBlock(Merged(s)[i - 1], s[i]) /\ more = WithBlock(m, s[i + 1])
  BY <1>1, MergedDefined
<1>5. m \in Seq(AnyBlock) /\ m # <<>> /\ m[k].available = s[i].available
  <2>1. Merged(s)[i - 1] \in Seq(AnyBlock)
    BY <1>1, MergedType
  <2> QED BY <1>2, <1>4, <2>1, WithBlockLast
<1>6. EndOf(m[k]) = EndOf(s[i])
  BY <1>3, <1>5 DEF Merging
<1> HIDE DEF m
<1>7. more = Append(m, s[i + 1])
  <2>1. Last(m).available # s[i + 1].available
    BY <1>5, LastBlock
  <2> QED BY <1>4, <2>1 DEF WithBlock
<1>8. /\ k \in Nat \ {0} /\ more \in Seq(AnyBlock) /\ more # <<>> /\ Len(more) = k + 1
      /\ more[k] = m[k] /\ more[k + 1] = s[i + 1]
  BY <1>2, <1>5, <1>7, AppendProperties, LastBlock
<1> HIDE DEF more, k
<1>9. k + 1 <= Len(t) /\ t[k] = m[k] /\ t[k + 1].base = s[i + 1].base
  <2>1. more = Merged(s)[i + 1] /\ more # <<>>
    BY <1>8 DEF more
  <2>2. /\ Len(more) <= Len(t)
        /\ Len(more) > 1 => t[Len(more) - 1] = more[Len(more) - 1]
        /\ t[Len(more)].base = more[Len(more)].base
    BY <1>1, <2>1, MergedKeeps
  <2>3. Len(more) > 1 /\ Len(more) - 1 = k
    BY <1>8
  <2> QED BY <1>8, <2>2, <2>3
<1>10. t \in Seq(AnyBlock) /\ Len(t) \in Nat
  BY <1>1, MergedType, LenProperties
<1> HIDE DEF t
<1>11. k \in 1 .. Len(t) - 1
  BY <1>8, <1>9, <1>10
<1>12. t[k + 1].base # t[k].base + t[k].pageCount
  BY <1>6, <1>9 DEF EndOf
<1>13. ~ ListMono(t)
  BY <1>11, <1>12 DEF ListMono
<1> QED
  BY <1>13 DEF Defragmented, t

\* freePages, when the insertions move the vector: the block is not shortened,
\* so the next one begins before it ends, which defragmentation does not mend.
LEMMA CutIsLost ==
  ASSUME Tiling(list), NEW i \in 1 .. Len(list), ~ list[i].available,
         NEW first \in Int, NEW count \in Nat \ {0},
         list[i].base <= first, first + count <= EndOf(list[i]),
         Len(list) + 2 > capacity, NEW available
  PROVE  Rejected(Defragmented(CutList(i, first, count)), available)
           = "blocks are not in order"
<1> DEFINE b == list[i]
           cut == Cut(i, first, count)
           mid == <<b, cut.middle, cut.tail>>
           s == CutList(i, first, count)
           n == Len(list)
<1>1. /\ Chain(list) /\ list \in Seq(AnyBlock) /\ n \in Nat /\ i \in Nat /\ i <= n
      /\ b \in AnyBlock /\ b.available = FALSE /\ b.pageCount # 0
      /\ EndOf(b) \in Nat /\ first + count <= EndOf(b)
      /\ list[1].base = Start /\ \A j \in 1 .. n - 1 : list[j + 1].base = EndOf(list[j])
  BY ChainParts DEF Tiling, NoneEmpty
<1>2. /\ first \in Nat /\ cut.middle \in AnyBlock /\ cut.tail \in AnyBlock
      /\ cut.middle.available /\ cut.middle.base = first /\ cut.middle.pageCount = count
  BY CutBlocks, SMTT(60)
<1> HIDE DEF b, cut
<1>3. mid \in Seq(AnyBlock) /\ Len(mid) = 3 /\ mid[1] = b /\ mid[2] = cut.middle
  BY <1>1, <1>2, FewBlocks
<1>4. s = SubSeq(list, 1, i - 1) \o mid \o SubSeq(list, i + 1, Len(list))
  BY DEF CutList, cut, b
<1> HIDE DEF mid, s
<1>5. Replaces(s, list, i, mid)
  BY <1>1, <1>3, <1>4, Spliced
<1>6. s \in Seq(AnyBlock) /\ Len(s) = n + 2 /\ i \in 1 .. Len(s) - 1
  BY <1>1, <1>3, <1>5 DEF Replaces
<1>7. ASSUME NEW j \in 1 .. i
      PROVE  s[j] = list[j]
  <2>1. CASE j < i
    BY <1>1, <1>6, <2>1, <1>5 DEF Replaces
  <2>2. CASE j = i
    <3>1. i \in 1 .. Len(s) /\ ~ (i < i) /\ i < i + Len(mid) /\ i - i + 1 = 1
      BY <1>1, <1>3, <1>6
    <3>2. s[i] = mid[i - i + 1]
      BY <1>5, <3>1 DEF Replaces
    <3> QED BY <1>3, <2>2, <3>1, <3>2 DEF b
  <2> QED BY <1>1, <2>1, <2>2
<1>8. s[i] = b /\ s[i + 1] = cut.middle
  <2>1. i + 1 \in 1 .. Len(s) /\ ~ (i + 1 < i) /\ i + 1 < i + Len(mid) /\ i + 1 - i + 1 = 2
    BY <1>1, <1>3, <1>6
  <2>2. s[i + 1] = mid[i + 1 - i + 1]
    BY <1>5, <2>1 DEF Replaces
  <2> QED BY <1>1, <1>3, <1>7, <2>1, <2>2 DEF b
<1>9. Follows(s, i)
  <2>1. s[1].base = Start
    BY <1>1, <1>7
  <2>2. ASSUME NEW j \in 1 .. i - 1
        PROVE  s[j + 1].base = EndOf(s[j])
    <3>1. j \in 1 .. i /\ j + 1 \in 1 .. i /\ j \in 1 .. n - 1
      BY <1>1
    <3>2. s[j + 1] = list[j + 1] /\ s[j] = list[j]
      BY <1>7, <3>1
    <3> QED BY <1>1, <3>1, <3>2
  <2> QED BY <2>1, <2>2 DEF Follows
<1>10. s[i + 1].base # EndOf(s[i])
  BY <1>1, <1>2, <1>8
<1>11. /\ s[i].pageCount # 0 /\ s[i + 1].pageCount # 0
       /\ s[i].available # s[i + 1].available
  BY <1>1, <1>2, <1>8
<1>12. ~ ListMono(Defragmented(s))
  BY <1>6, <1>9, <1>10, <1>11, GapStays
<1> QED
  BY <1>12 DEF Rejected, s

-----------------------------------------------------------------------------
(* What requestPages and freePages look for *)

\* requestPages finds the first of the smallest blocks that are large enough.
LEMMA BestFits ==
  ASSUME Tiling(list), NEW count, Fitting(count) # {}
  PROVE  /\ BestFitIndex(count) \in Fitting(count)
         /\ \A j \in Fitting(count) :
              \/ list[BestFitIndex(count)].pageCount < list[j].pageCount
              \/ /\ list[BestFitIndex(count)].pageCount = list[j].pageCount
                 /\ BestFitIndex(count) <= j
<1> DEFINE F == Fitting(count)
           Size(i) == list[i].pageCount
           Sizes == {Size(i) : i \in F}
<1>1. Len(list) \in Nat /\ DOMAIN list = 1 .. Len(list) /\ \A i \in 1 .. Len(list) : Size(i) \in Nat
  BY ChainParts DEF Tiling
<1>2. F \subseteq 1 .. Len(list)
  BY <1>1 DEF Fitting
<1>3. PICK n \in Sizes : \A k \in Sizes : n <= k
  <2>1. Sizes \in SUBSET Nat /\ Sizes # {}
    BY <1>1, <1>2
  <2> HIDE DEF Sizes
  <2> QED BY <2>1, LeastNatural
<1> DEFINE Smallest == {i \in F : Size(i) = n}
<1>4. PICK i \in Smallest : \A j \in Smallest : i <= j
  <2>1. Smallest \in SUBSET Nat /\ Smallest # {}
    BY <1>1, <1>2, <1>3
  <2> HIDE DEF Smallest
  <2> QED BY <2>1, LeastNatural
<1>5. ASSUME NEW j \in F
      PROVE  Size(i) < Size(j) \/ (Size(i) = Size(j) /\ i <= j)
  <2>1. Size(i) \in Nat /\ Size(j) \in Nat /\ Size(i) <= Size(j)
    BY <1>1, <1>2, <1>3, <1>4
  <2>2. CASE Size(i) = Size(j)
    BY <1>4, <2>2
  <2> QED BY <2>1, <2>2
<1>6. i \in F
  BY <1>4
<1>7. \E h \in F : \A j \in F : Size(h) < Size(j) \/ (Size(h) = Size(j) /\ h <= j)
  BY <1>5, <1>6
<1> QED
  BY <1>7 DEF BestFitIndex

\* A range of pages none of which is available lies in one used block, and
\* freePages finds that block.
LEMMA HolderFound ==
  ASSUME Tiling(list), NEW first \in Int, NEW count \in Nat \ {0},
         \A p \in first .. first + count - 1 : p \in Pages /\ p \notin AvailableIn(list)
  PROVE  /\ Holding(first, count) # {}
         /\ LET i == Min(Holding(first, count))
            IN  /\ i \in 1 .. Len(list) /\ ~ list[i].available
                /\ list[i].base <= first /\ first + count <= EndOf(list[i])
<1>1. /\ Chain(list) /\ Len(list) \in Nat /\ DOMAIN list = 1 .. Len(list)
      /\ \A i \in 1 .. Len(list) : /\ list[i].base \in Nat /\ EndOf(list[i]) \in Nat
                                   /\ EndOf(list[i]) = list[i].base + list[i].pageCount
                                   /\ list[i].available \in BOOLEAN
      /\ EndOf(list[Len(list)]) = End /\ Start \in Nat /\ End \in Nat
      /\ \A i \in 1 .. Len(list) - 1 : list[i + 1].base = EndOf(list[i])
  BY ChainParts, InitialTiling DEF Tiling
<1>2. Holding(first, count) =
        {i \in 1 .. Len(list) : list[i].base <= first /\ first + count <= EndOf(list[i])}
  BY <1>1 DEF Holding
<1>3. ASSUME NEW p \in first .. first + count - 1
      PROVE  p \in Int /\ Start <= p /\ p < End /\ p \notin AvailableIn(list)
  <2>1. p \in Pages /\ p \notin AvailableIn(list)
    OBVIOUS
  <2>2. p \in Int /\ Start <= p /\ p <= End - 1
    BY <1>1, <2>1 DEF Pages
  <2> QED BY <1>1, <2>1, <2>2
<1>4. first \in first .. first + count - 1
  OBVIOUS
<1>5. PICK i \in 1 .. Len(list) : list[i].base <= first /\ first < EndOf(list[i])
  BY <1>1, <1>3, <1>4, Located
<1>6. ~ list[i].available
  BY <1>1, <1>3, <1>4, <1>5, AvailablePages
<1>7. first + count <= EndOf(list[i])
  <2> SUFFICES ASSUME EndOf(list[i]) < first + count
               PROVE  FALSE
    BY <1>1
  <2> DEFINE p == EndOf(list[i])
  <2>1. p \in first .. first + count - 1
    BY <1>1, <1>5
  <2>2. p \in Int /\ p < End /\ p \notin AvailableIn(list)
    BY <1>3, <2>1
  <2>3. i # Len(list)
    <3>1. EndOf(list[i]) # EndOf(list[Len(list)])
      BY <1>1, <2>2
    <3> QED BY <3>1
  <2>4. i \in 1 .. Len(list) - 1 /\ i + 1 \in 1 .. Len(list)
    <3>1. Len(list) \in Nat
      BY <1>1
    <3> QED BY <2>3, <3>1
  <2>5. list[i + 1].base = p /\ list[i + 1].available # list[i].available
    BY <1>1, <2>4 DEF Tiling, Alternates
  <2>6. p < EndOf(list[i + 1])
    <3>1. list[i + 1].pageCount # 0 /\ list[i + 1].pageCount \in Nat /\ list[i + 1].base \in Nat
      BY <1>1, <2>4, ChainParts DEF Tiling, NoneEmpty
    <3> QED BY <1>1, <2>4, <2>5, <3>1
  <2>7. list[i + 1].available
    BY <1>1, <1>6, <2>4, <2>5
  <2>8. list[i + 1].base <= p
    BY <1>1, <2>5
  <2> HIDE DEF p
  <2>9. p \in AvailableIn(list)
    BY <1>1, <2>2, <2>4, <2>6, <2>7, <2>8, AvailablePages
  <2> QED BY <2>2, <2>9
<1>8. Holding(first, count) # {}
  BY <1>2, <1>5, <1>7
<1> DEFINE k == Min(Holding(first, count))
<1>9. k \in Holding(first, count)
  <2>1. Holding(first, count) \in SUBSET Nat
    BY <1>1, <1>2
  <2>2. \E h \in Holding(first, count) : \A j \in Holding(first, count) : h <= j
    BY <1>8, <2>1, LeastNatural
  <2> QED BY <2>2 DEF Min
<1> HIDE DEF k
<1>10. k \in 1 .. Len(list) /\ list[k].base <= first /\ first + count <= EndOf(list[k])
  BY <1>2, <1>9
<1>11. first < EndOf(list[k])
  BY <1>1, <1>10
<1>12. k = i
  BY <1>1, <1>5, <1>10, <1>11, Alone
<1> QED
  BY <1>6, <1>8, <1>10, <1>12 DEF k

-----------------------------------------------------------------------------
(* The inductive invariant *)

\* The list tiles the space, and the vector has room for it.
Consistent == Tiling(list) /\ capacity \in Nat /\ Len(list) <= capacity

\* What is available is what was so from the start and nobody holds.
Conserved ==
  /\ claims \in [Pages -> {0, 1}]
  /\ \A p \in Pages : p \in AvailableIn(list) <=> p \in AvailableIn(InitialList) /\ claims[p] = 0
  /\ \A p \in Pages : claims[p] = 1 => p \in AvailableIn(InitialList)
  /\ pagesAvailableCount = Cardinality(AvailableIn(list))

\* Clients that give back what they hold never free an available block.
StoppedForAReason ==
  panicked \in {"no", "no block fits", "blocks are not in order", "total is wrong"}

IInv == Consistent /\ Conserved /\ StoppedForAReason

\* A panic changes nothing but the fact that there was one.
Stopped ==
  /\ UNCHANGED <<list, capacity, pagesAvailableCount, claims>>
  /\ StoppedForAReason'

\* The vector has room for what was inserted.
LEMMA Room ==
  ASSUME NEW cap \in Nat, NEW size \in Nat, size <= cap \/ size > 1
  PROVE  Grown(cap, size) \in Nat /\ size <= Grown(cap, size)
BY DEF Grown

\* The available pages are finitely many.
LEMMA AvailableFinite ==
  ASSUME NEW l, Chain(l)
  PROVE  /\ IsFiniteSet(AvailableIn(l))
         /\ Cardinality(AvailableIn(l)) \in 0 .. End - Start
<1>1. Start \in Nat /\ End \in Nat /\ Start < End /\ AvailableIn(l) \in SUBSET Pages
  BY InitialTiling, AvailablePages
<1>2. IsFiniteSet(Pages) /\ Cardinality(Pages) = End - Start
  <2>1. /\ IsFiniteSet(Start .. End - 1)
        /\ Cardinality(Start .. End - 1) = IF Start > End - 1 THEN 0 ELSE (End - 1) - Start + 1
    BY <1>1, FS_Interval
  <2> QED BY <1>1, <2>1 DEF Pages
<1>3. IsFiniteSet(AvailableIn(l)) /\ Cardinality(AvailableIn(l)) <= Cardinality(Pages)
  BY <1>1, <1>2, FS_Subset
<1>4. Cardinality(AvailableIn(l)) \in Nat
  BY <1>3, FS_CardinalityType
<1> QED
  BY <1>1, <1>2, <1>3, <1>4

\* A range has as many pages as its length says.
LEMMA RangeCounted ==
  ASSUME NEW first \in Int, NEW count \in Nat \ {0}
  PROVE  LET range == first .. first + count - 1
         IN  IsFiniteSet(range) /\ Cardinality(range) = count
<1> DEFINE last == first + count - 1
<1>1. last \in Int /\ ~ (first > last) /\ (last - first) + 1 = count
  OBVIOUS
<1> HIDE DEF last
<1>2. IsFiniteSet(first .. last) /\ Cardinality(first .. last) = count
  BY <1>1, FS_Interval
<1> QED
  BY <1>2 DEF last

\* When a range of available pages is taken, that many fewer are available.
LEMMA RangeTaken ==
  ASSUME NEW S, IsFiniteSet(S), NEW range, IsFiniteSet(range), range \subseteq S
  PROVE  Cardinality(S \ range) = Cardinality(S) - Cardinality(range)
<1>1. IsFiniteSet(S \ range)
  BY FS_Difference
<1>2. Cardinality(S) \in Nat /\ Cardinality(range) \in Nat /\ Cardinality(S \ range) \in Nat
  BY <1>1, FS_CardinalityType
<1>3. Cardinality((S \ range) \cup range) =
        Cardinality(S \ range) + Cardinality(range) - Cardinality((S \ range) \cap range)
  BY <1>1, FS_Union
<1>4. (S \ range) \cup range = S /\ (S \ range) \cap range = {}
  OBVIOUS
<1>5. Cardinality((S \ range) \cap range) = 0
  BY <1>4, FS_EmptySet
<1>6. Cardinality(S) = Cardinality(S \ range) + (Cardinality(range) - 0)
  BY <1>3, <1>4, <1>5
<1> QED
  BY <1>2, <1>6

\* When a range of used pages is given back, that many more are available.
LEMMA RangeGiven ==
  ASSUME NEW S, IsFiniteSet(S), NEW range, IsFiniteSet(range), S \cap range = {}
  PROVE  Cardinality(S \cup range) = Cardinality(S) + Cardinality(range)
<1>1. Cardinality(S) \in Nat /\ Cardinality(range) \in Nat
  BY FS_CardinalityType
<1>2. Cardinality(S \cup range) =
        Cardinality(S) + Cardinality(range) - Cardinality(S \cap range)
  BY FS_Union
<1>3. Cardinality(S \cap range) = 0
  BY FS_EmptySet
<1> QED
  BY <1>1, <1>2, <1>3

\* A list that was installed passed the check; if it did not, the kernel stops.
LEMMA Installed ==
  ASSUME NEW l, NEW cap, NEW available, NEW newClaims,
         panicked = "no", Install(l, cap, available, newClaims)
  PROVE  \/ /\ list' = Defragmented(l) /\ capacity' = cap
            /\ pagesAvailableCount' = available /\ claims' = newClaims
            /\ panicked' = "no"
            /\ Rejected(Defragmented(l), available) = "no"
         \/ Stopped
<1>1. Rejected(Defragmented(l), available)
        \in {"no", "blocks are not in order", "total is wrong"}
  BY DEF Rejected
<1> QED
  BY <1>1 DEF Install, Panic, Stopped, StoppedForAReason

\* A request either stops the kernel or takes the front of the block that fits
\* best.
LEMMA RequestTakes ==
  ASSUME IInv, NEW count \in Nat \ {0}, RequestPages(count)
  PROVE  \/ Stopped
         \/ \E i \in 1 .. Len(list) :
              /\ i = BestFitIndex(count) /\ Fitting(count) # {}
              /\ list[i].available /\ count <= list[i].pageCount
              /\ list[i].base .. list[i].base + count - 1 \subseteq AvailableIn(list)
              /\ Consistent'
              /\ AvailableIn(list') =
                   AvailableIn(list) \ (list[i].base .. list[i].base + count - 1)
              /\ pagesAvailableCount' = pagesAvailableCount - count
              /\ claims' = ClaimsPlus(list[i].base, count, 1)
              /\ panicked' = "no"
<1>1. panicked = "no" /\ Tiling(list) /\ capacity \in Nat /\ Len(list) <= capacity
  BY DEF RequestPages, IInv, Consistent
<1>2. CASE Fitting(count) = {}
  BY <1>1, <1>2 DEF RequestPages, Panic, Stopped, StoppedForAReason
<1>3. CASE Fitting(count) # {}
  <2> DEFINE i == BestFitIndex(count)
             split == Split(i, count)
  <2>1. Install(split, Grown(capacity, Len(split)), pagesAvailableCount - count,
                ClaimsPlus(list[i].base, count, 1))
    BY <1>3 DEF RequestPages
  <2>2. Len(list) \in Nat \ {0} /\ DOMAIN list = 1 .. Len(list)
    BY <1>1, ChainParts DEF Tiling
  <2>3. i \in Fitting(count)
    BY <1>1, <1>3, BestFits
  <2> HIDE DEF i
  <2>4. i \in 1 .. Len(list) /\ list[i].available /\ list[i].pageCount >= count
    BY <2>2, <2>3 DEF Fitting
  <2>5. list[i].pageCount \in Nat /\ count <= list[i].pageCount
    BY <1>1, <2>4, ChainParts DEF Tiling
  <2> DEFINE range == list[i].base .. list[i].base + count - 1
  <2>6. /\ Chain(split) /\ range \subseteq AvailableIn(list)
        /\ AvailableIn(split) = AvailableIn(list) \ range
        /\ Len(split) = Len(list) \/ Len(split) = Len(list) + 1
    BY <1>1, <2>4, <2>5, SplitTiles
  <2>7. /\ Tiling(Defragmented(split)) /\ AvailableIn(Defragmented(split)) = AvailableIn(split)
        /\ Len(Defragmented(split)) <= Len(split)
    BY <2>6, DefragmentedTiles
  <2> HIDE DEF split
  <2>8. /\ Grown(capacity, Len(split)) \in Nat
        /\ Len(split) <= Grown(capacity, Len(split)) /\ Len(split) \in Nat
    <3>1. Len(split) \in Nat /\ (Len(split) <= capacity \/ Len(split) > 1)
      BY <1>1, <2>2, <2>6
    <3> QED BY <1>1, <3>1, Room
  <2>9. Len(Defragmented(split)) \in Nat
    BY <2>7, ChainParts DEF Tiling
  <2>10. CASE Stopped
    BY <2>10
  <2>11. CASE /\ list' = Defragmented(split) /\ capacity' = Grown(capacity, Len(split))
              /\ pagesAvailableCount' = pagesAvailableCount - count
              /\ claims' = ClaimsPlus(list[i].base, count, 1)
              /\ panicked' = "no"
    <3>1. Tiling(list')
      BY <2>7, <2>11
    <3>2. Len(list') <= capacity' /\ capacity' \in Nat
      BY <2>7, <2>8, <2>9, <2>11
    <3>3. Consistent'
      BY <3>1, <3>2 DEF Consistent
    <3>4. AvailableIn(list') = AvailableIn(list) \ range
      BY <2>6, <2>7, <2>11
    <3> QED BY <1>3, <2>4, <2>5, <2>6, <2>11, <3>3, <3>4 DEF i
  <2> QED BY <1>1, <2>1, <2>10, <2>11, Installed
<1> QED
  BY <1>2, <1>3

\* A release either stops the kernel or makes available what the client held.
LEMMA FreeGives ==
  ASSUME IInv, NEW count \in Nat \ {0}, NEW first \in Pages,
         Held(first, count), FreePages(first, count)
  PROVE  \/ Stopped
         \/ /\ \A p \in first .. first + count - 1 :
                 p \in Pages /\ claims[p] = 1 /\ p \notin AvailableIn(list)
            /\ Consistent'
            /\ AvailableIn(list') = AvailableIn(list) \cup (first .. first + count - 1)
            /\ pagesAvailableCount' = pagesAvailableCount + count
            /\ claims' = ClaimsPlus(first, count, -1)
            /\ panicked' = "no"
<1> DEFINE range == first .. first + count - 1
           i == Min(Holding(first, count))
           exact == list[i].base = first /\ list[i].pageCount = count
           freed == IF exact THEN [list EXCEPT ![i].available = TRUE]
                    ELSE CutList(i, first, count)
           cap == IF exact THEN capacity
                  ELSE Grown(Grown(capacity, Len(list) + 1), Len(list) + 2)
<1>1. /\ panicked = "no" /\ Tiling(list) /\ capacity \in Nat /\ Len(list) <= capacity
      /\ Chain(list) /\ Len(list) \in Nat \ {0}
  <2>1. panicked = "no" /\ Tiling(list) /\ capacity \in Nat /\ Len(list) <= capacity
    BY DEF FreePages, IInv, Consistent
  <2> QED BY <2>1, ChainParts DEF Tiling
<1>2. Pages \subseteq Int /\ first \in Int
  <2>1. Pages \subseteq Int
    BY InitialTiling DEF Pages
  <2> QED BY <2>1
<1>3. \A p \in range : p \in Pages /\ claims[p] = 1 /\ p \notin AvailableIn(list)
  <2> SUFFICES ASSUME NEW p \in range
               PROVE  p \in Pages /\ claims[p] = 1 /\ p \notin AvailableIn(list)
    OBVIOUS
  <2>1. p \in Pages /\ claims[p] > 0
    BY DEF Held
  <2>2. claims[p] \in {0, 1}
    BY <2>1 DEF IInv, Conserved
  <2>3. claims[p] = 1
    BY <2>1, <2>2
  <2>4. claims[p] # 0
    BY <2>3
  <2> QED BY <2>1, <2>3, <2>4 DEF IInv, Conserved
<1>4. /\ Holding(first, count) # {}
      /\ i \in 1 .. Len(list) /\ ~ list[i].available
      /\ list[i].base <= first /\ first + count <= EndOf(list[i])
  BY <1>1, <1>2, <1>3, HolderFound
<1>5. Install(freed, cap, pagesAvailableCount + count, ClaimsPlus(first, count, -1))
  BY <1>4 DEF FreePages
<1> HIDE DEF i
<1>6. ASSUME Rejected(Defragmented(freed), pagesAvailableCount + count) = "no"
      PROVE  /\ Chain(freed) /\ Len(freed) \in Nat /\ Len(freed) <= cap /\ cap \in Nat
             /\ \A p \in Int : p \in AvailableIn(freed) <=> p \in AvailableIn(list) \/ p \in range
  <2>0. \A p \in Int : p \in range <=> first <= p /\ p < first + count
    BY <1>2
  <2>1. CASE exact
    <3> DEFINE s == [list EXCEPT ![i].available = TRUE]
    <3>1. freed = s /\ cap = capacity
      BY <2>1
    <3>2. EndOf(list[i]) = first + count /\ list[i].base = first
      BY <2>1 DEF EndOf
    <3>3. Chain(s) /\ Len(s) = Len(list)
      BY <1>1, <1>4, ExactTiles
    <3>4. \A p \in Int : p \in AvailableIn(s)
            <=> p \in AvailableIn(list) \/ (list[i].base <= p /\ p < EndOf(list[i]))
      BY <1>1, <1>4, ExactTiles
    <3> HIDE DEF s, freed, cap, range
    <3> QED BY <1>1, <2>0, <3>1, <3>2, <3>3, <3>4
  <2>2. CASE ~ exact
    <3> DEFINE s == CutList(i, first, count)
    <3>1. freed = s /\ cap = Grown(Grown(capacity, Len(list) + 1), Len(list) + 2)
      BY <2>2
    <3>2. ~ (Len(list) + 2 > capacity)
      <4> SUFFICES ASSUME Len(list) + 2 > capacity
                   PROVE  FALSE
        OBVIOUS
      <4>1. Rejected(Defragmented(s), pagesAvailableCount + count) = "blocks are not in order"
        BY <1>1, <1>2, <1>4, CutIsLost
      <4> QED BY <1>6, <3>1, <4>1
    <3>3. Chain(s) /\ Len(s) = Len(list) + 2
      BY <1>1, <1>2, <1>4, <3>2, CutTiles
    <3>4. \A p \in Int : p \in AvailableIn(s)
            <=> p \in AvailableIn(list) \/ (first <= p /\ p < first + count)
      BY <1>1, <1>2, <1>4, <3>2, CutTiles
    <3>5. cap \in Nat /\ Len(list) + 2 <= cap
      <4> DEFINE c == Grown(capacity, Len(list) + 1)
      <4>1. c \in Nat
        <5>1. Len(list) + 1 \in Nat /\ Len(list) + 1 > 1
          BY <1>1
        <5> QED BY <1>1, <5>1, Room
      <4> HIDE DEF c
      <4>2. Len(list) + 2 \in Nat /\ Len(list) + 2 > 1
        BY <1>1
      <4>3. Grown(c, Len(list) + 2) \in Nat /\ Len(list) + 2 <= Grown(c, Len(list) + 2)
        BY <4>1, <4>2, Room
      <4> QED BY <3>1, <4>3 DEF c
    <3> HIDE DEF s, freed, cap, range
    <3> QED BY <1>1, <2>0, <3>1, <3>3, <3>4, <3>5
  <2> QED BY <2>1, <2>2
<1> HIDE DEF freed, cap
<1>7. CASE /\ list' = Defragmented(freed) /\ capacity' = cap
           /\ pagesAvailableCount' = pagesAvailableCount + count
           /\ claims' = ClaimsPlus(first, count, -1)
           /\ panicked' = "no"
           /\ Rejected(Defragmented(freed), pagesAvailableCount + count) = "no"
  <2>1. /\ Chain(freed) /\ Len(freed) \in Nat /\ Len(freed) <= cap /\ cap \in Nat
        /\ \A p \in Int : p \in AvailableIn(freed) <=> p \in AvailableIn(list) \/ p \in range
    BY <1>6, <1>7
  <2>2. /\ Tiling(Defragmented(freed)) /\ AvailableIn(Defragmented(freed)) = AvailableIn(freed)
        /\ Len(Defragmented(freed)) <= Len(freed)
    BY <2>1, DefragmentedTiles
  <2>3. Len(Defragmented(freed)) \in Nat
    BY <2>2, ChainParts DEF Tiling
  <2>4. Consistent'
    <3>1. Tiling(list')
      BY <1>7, <2>2
    <3>2. Len(list') <= capacity' /\ capacity' \in Nat
      BY <1>7, <2>1, <2>2, <2>3
    <3> QED BY <3>1, <3>2 DEF Consistent
  <2>5. AvailableIn(list') = AvailableIn(list) \cup range
    <3>1. AvailableIn(list') = AvailableIn(freed)
      BY <1>7, <2>2
    <3>2. AvailableIn(freed) \subseteq Int /\ AvailableIn(list) \subseteq Int /\ range \subseteq Int
      <4>1. AvailableIn(freed) \subseteq Pages /\ AvailableIn(list) \subseteq Pages
        BY <1>1, <2>1, AvailablePages
      <4>2. range \subseteq Int
        BY <1>2
      <4> QED BY <1>2, <4>1, <4>2
    <3> HIDE DEF range
    <3> QED BY <2>1, <3>1, <3>2
  <2> QED BY <1>3, <1>7, <2>4, <2>5
<1>8. CASE Stopped
  BY <1>8
<1> QED
  BY <1>1, <1>5, <1>7, <1>8, Installed

\* The first state satisfies the invariant.
LEMMA InitHolds == Init => IInv
<1> SUFFICES ASSUME Init
             PROVE  IInv
  OBVIOUS
<1>1. Consistent
  <2>1. Len(InitialList) \in Nat
    BY InitialTiling, ChainParts DEF Tiling
  <2> QED BY <2>1, InitialTiling, ListAssumption DEF Init, Consistent
<1>2. claims \in [Pages -> {0, 1}] /\ \A p \in Pages : claims[p] = 0
  BY DEF Init
<1>3. Conserved
  BY <1>2 DEF Init, Conserved
<1> QED
  BY <1>1, <1>3 DEF Init, IInv, StoppedForAReason

\* A panic keeps it, and so does a step that changes nothing.
LEMMA StoppedKeeps ==
  ASSUME IInv, Stopped \/ UNCHANGED vars
  PROVE  IInv'
<1>1. UNCHANGED <<list, capacity, pagesAvailableCount, claims>> /\ StoppedForAReason'
  BY DEF Stopped, vars, IInv, StoppedForAReason
<1>2. Consistent'
  BY <1>1 DEF IInv, Consistent
<1>3. Conserved'
  BY <1>1 DEF IInv, Conserved
<1> QED
  BY <1>1, <1>2, <1>3 DEF IInv

\* A request keeps it.
LEMMA RequestKeeps ==
  ASSUME IInv, NEW count \in Nat \ {0}, RequestPages(count)
  PROVE  IInv'
<1>1. CASE Stopped
  BY <1>1, StoppedKeeps
<1>2. ASSUME NEW i \in 1 .. Len(list),
             list[i].base .. list[i].base + count - 1 \subseteq AvailableIn(list),
             Consistent',
             AvailableIn(list') =
               AvailableIn(list) \ (list[i].base .. list[i].base + count - 1),
             pagesAvailableCount' = pagesAvailableCount - count,
             claims' = ClaimsPlus(list[i].base, count, 1),
             panicked' = "no"
      PROVE  IInv'
  <2> DEFINE range == list[i].base .. list[i].base + count - 1
  <2>1. /\ Chain(list) /\ list[i].base \in Nat /\ AvailableIn(list) \subseteq Pages
    BY ChainParts, AvailablePages DEF IInv, Consistent, Tiling
  <2>2. ASSUME NEW p \in Pages
        PROVE  claims'[p] = IF p \in range THEN claims[p] + 1 ELSE claims[p]
    BY <1>2 DEF ClaimsPlus
  <2>3. \A p \in range : p \in Pages /\ claims[p] = 0 /\ p \in AvailableIn(InitialList)
    BY <1>2, <2>1 DEF IInv, Conserved
  <2>4. \A p \in Pages : claims[p] \in {0, 1}
    BY DEF IInv, Conserved
  <2>5. \A p \in Pages : claims'[p] = IF p \in range THEN 1 ELSE claims[p]
    BY <2>2, <2>3
  <2>6. claims' \in [Pages -> {0, 1}]
    <3>1. claims' = [p \in Pages |-> IF p \in range THEN claims[p] + 1 ELSE claims[p]]
      BY <1>2 DEF ClaimsPlus
    <3>2. \A p \in Pages : claims'[p] \in {0, 1}
      <4> HIDE DEF range
      <4> QED BY <2>4, <2>5
    <3> HIDE DEF range
    <3> QED BY <3>1, <3>2
  <2>7. \A p \in Pages : p \in AvailableIn(list')
                           <=> p \in AvailableIn(InitialList) /\ claims'[p] = 0
    <3>1. \A p \in Pages : p \in AvailableIn(list) <=> p \in AvailableIn(InitialList) /\ claims[p] = 0
      BY DEF IInv, Conserved
    <3> HIDE DEF range
    <3> QED BY <1>2, <2>5, <3>1 DEF range
  <2>8. \A p \in Pages : claims'[p] = 1 => p \in AvailableIn(InitialList)
    <3>1. \A p \in Pages : claims[p] = 1 => p \in AvailableIn(InitialList)
      BY DEF IInv, Conserved
    <3> HIDE DEF range
    <3> QED BY <2>3, <2>5, <3>1
  <2>9. pagesAvailableCount' = Cardinality(AvailableIn(list'))
    <3>1. IsFiniteSet(AvailableIn(list)) /\ pagesAvailableCount = Cardinality(AvailableIn(list))
      BY <2>1, AvailableFinite DEF IInv, Conserved
    <3>2. IsFiniteSet(range) /\ Cardinality(range) = count
      <4> DEFINE first == list[i].base
      <4>1. first \in Int
        BY <2>1
      <4> HIDE DEF first
      <4>2. LET r == first .. first + count - 1
            IN  IsFiniteSet(r) /\ Cardinality(r) = count
        BY <4>1, RangeCounted
      <4> QED BY <4>2 DEF first
    <3> HIDE DEF range
    <3>3. Cardinality(AvailableIn(list) \ range) = Cardinality(AvailableIn(list)) - count
      BY <1>2, <3>1, <3>2, RangeTaken DEF range
    <3> QED BY <1>2, <3>1, <3>3 DEF range
  <2>10. Conserved'
    BY <2>6, <2>7, <2>8, <2>9 DEF Conserved
  <2> QED BY <1>2, <2>10 DEF IInv, StoppedForAReason
<1> QED
  BY <1>1, <1>2, RequestTakes

\* A release keeps it.
LEMMA FreeKeeps ==
  ASSUME IInv, NEW count \in Nat \ {0}, NEW first \in Pages,
         Held(first, count), FreePages(first, count)
  PROVE  IInv'
<1>1. CASE Stopped
  BY <1>1, StoppedKeeps
<1>2. CASE /\ \A p \in first .. first + count - 1 :
                p \in Pages /\ claims[p] = 1 /\ p \notin AvailableIn(list)
           /\ Consistent'
           /\ AvailableIn(list') = AvailableIn(list) \cup (first .. first + count - 1)
           /\ pagesAvailableCount' = pagesAvailableCount + count
           /\ claims' = ClaimsPlus(first, count, -1)
           /\ panicked' = "no"
  <2> DEFINE range == first .. first + count - 1
  <2>1. /\ Chain(list) /\ first \in Int /\ AvailableIn(list) \subseteq Pages
    <3>1. Chain(list) /\ Pages \subseteq Int
      BY InitialTiling DEF IInv, Consistent, Tiling, Pages
    <3> QED BY <3>1, AvailablePages
  <2>2. ASSUME NEW p \in Pages
        PROVE  claims'[p] = IF p \in range THEN claims[p] + (-1) ELSE claims[p]
    BY <1>2 DEF ClaimsPlus
  <2>3. \A p \in range : p \in Pages /\ claims[p] = 1 /\ p \in AvailableIn(InitialList)
    BY <1>2 DEF IInv, Conserved
  <2>4. \A p \in Pages : claims[p] \in {0, 1}
    BY DEF IInv, Conserved
  <2>5. \A p \in Pages : claims'[p] = IF p \in range THEN 0 ELSE claims[p]
    BY <2>2, <2>3
  <2>6. claims' \in [Pages -> {0, 1}]
    <3>1. claims' = [p \in Pages |-> IF p \in range THEN claims[p] + (-1) ELSE claims[p]]
      BY <1>2 DEF ClaimsPlus
    <3>2. \A p \in Pages : claims'[p] \in {0, 1}
      <4> HIDE DEF range
      <4> QED BY <2>4, <2>5
    <3> HIDE DEF range
    <3> QED BY <3>1, <3>2
  <2>7. \A p \in Pages : p \in AvailableIn(list')
                           <=> p \in AvailableIn(InitialList) /\ claims'[p] = 0
    <3>1. \A p \in Pages : p \in AvailableIn(list) <=> p \in AvailableIn(InitialList) /\ claims[p] = 0
      BY DEF IInv, Conserved
    <3> HIDE DEF range
    <3> QED BY <1>2, <2>3, <2>5, <3>1 DEF range
  <2>8. \A p \in Pages : claims'[p] = 1 => p \in AvailableIn(InitialList)
    <3>1. \A p \in Pages : claims[p] = 1 => p \in AvailableIn(InitialList)
      BY DEF IInv, Conserved
    <3> HIDE DEF range
    <3> QED BY <2>3, <2>5, <3>1
  <2>9. pagesAvailableCount' = Cardinality(AvailableIn(list'))
    <3>1. IsFiniteSet(AvailableIn(list)) /\ pagesAvailableCount = Cardinality(AvailableIn(list))
      BY <2>1, AvailableFinite DEF IInv, Conserved
    <3>2. AvailableIn(list) \cap range = {}
      BY <1>2
    <3>3. IsFiniteSet(range) /\ Cardinality(range) = count
      BY <2>1, RangeCounted
    <3> HIDE DEF range
    <3>4. Cardinality(AvailableIn(list) \cup range) = Cardinality(AvailableIn(list)) + count
      BY <3>1, <3>2, <3>3, RangeGiven
    <3> QED BY <1>2, <3>1, <3>4 DEF range
  <2>10. Conserved'
    BY <2>6, <2>7, <2>8, <2>9 DEF Conserved
  <2> QED BY <1>2, <2>10 DEF IInv, StoppedForAReason
<1> QED
  BY <1>1, <1>2, FreeGives

\* Requests and releases are for at least one page.
LEMMA CountsArePositive ==
  ASSUME NEW count \in 1 .. End - Start
  PROVE  count \in Nat \ {0}
BY InitialTiling

\* Every step keeps it.
LEMMA NextKeeps == IInv /\ [Next]_vars => IInv'
<1> SUFFICES ASSUME IInv, [Next]_vars
             PROVE  IInv'
  OBVIOUS
<1>1. ASSUME NEW count \in 1 .. End - Start, RequestPages(count)
      PROVE  IInv'
  BY <1>1, CountsArePositive, RequestKeeps
<1>2. ASSUME NEW count \in 1 .. End - Start, NEW first \in Pages,
             Held(first, count), FreePages(first, count)
      PROVE  IInv'
  BY <1>2, CountsArePositive, FreeKeeps
<1>3. CASE UNCHANGED vars
  BY <1>3, StoppedKeeps
<1> QED
  BY <1>1, <1>2, <1>3 DEF Next

\* The invariant holds in every reachable state.
LEMMA Invariance == Spec => []IInv
BY InitHolds, NextKeeps, PTL DEF Spec

-----------------------------------------------------------------------------
(* What requestPages and freePages promise *)

\* The list, the count and the claims are always of the kind that the code
\* declares: no block reaches out of the space, and the count neither wraps
\* below zero nor exceeds the space.
THEOREM TypeCorrect == Spec => []TypeOK
<1>1. IInv => TypeOK
  <2> SUFFICES ASSUME IInv
               PROVE  TypeOK
    OBVIOUS
  <2>1. Chain(list) /\ list \in Seq(AnyBlock) /\ Len(list) \in Nat
    BY ChainParts DEF IInv, Consistent, Tiling
  <2>2. ASSUME NEW i \in 1 .. Len(list)
        PROVE  list[i] \in Blocks
    <3>1. /\ list[i] \in AnyBlock /\ list[i].base \in Nat /\ list[i].pageCount \in Nat
          /\ list[i].available \in BOOLEAN
          /\ EndOf(list[i]) = list[i].base + list[i].pageCount
          /\ Start <= list[i].base /\ EndOf(list[i]) <= End
          /\ Start \in Nat /\ End \in Nat
      BY <2>1, ChainParts, WithinSpace, InitialTiling
    <3>2. list[i].base \in Start .. End /\ list[i].pageCount \in 0 .. End - Start
      BY <3>1
    <3> QED BY <3>1, <3>2 DEF AnyBlock, Blocks
  <2>3. list \in Seq(Blocks)
    <3>1. list = [i \in 1 .. Len(list) |-> list[i]]
      BY <2>1
    <3>2. [i \in 1 .. Len(list) |-> list[i]] \in [1 .. Len(list) -> Blocks]
      BY <2>2
    <3>3. [i \in 1 .. Len(list) |-> list[i]] \in Seq(Blocks)
      BY <2>1, <3>2, SeqDef
    <3> QED BY <3>1, <3>3
  <2>4. pagesAvailableCount \in 0 .. End - Start
    BY <2>1, AvailableFinite DEF IInv, Conserved
  <2>5. claims \in [Pages -> Nat]
    BY DEF IInv, Conserved
  <2> QED BY <2>3, <2>4, <2>5 DEF TypeOK, IInv, Consistent, StoppedForAReason
<1> QED
  BY <1>1, Invariance, PTL

\* Splitting, cutting and merging lose no page and double none, and the
\* vector always has room for the blocks.
THEOREM BlocksTile == Spec => []BlocksTileTheSpace
<1>1. IInv => BlocksTileTheSpace
  <2> SUFFICES ASSUME IInv
               PROVE  BlocksTileTheSpace
    OBVIOUS
  <2>1. /\ Chain(list) /\ DOMAIN list = 1 .. Len(list) /\ Start \in Nat /\ End \in Nat
        /\ \A i \in 1 .. Len(list) : /\ list[i].base \in Nat /\ list[i].pageCount \in Nat
                                     /\ EndOf(list[i]) = list[i].base + list[i].pageCount
    BY ChainParts, InitialTiling DEF IInv, Consistent, Tiling
  <2>2. ASSUME NEW i \in 1 .. Len(list), NEW p \in Int
        PROVE  p \in PagesOfBlock(list[i]) <=> list[i].base <= p /\ p < EndOf(list[i])
    BY <2>1 DEF PagesOfBlock
  <2>3. \A p \in Pages : p \in Int /\ Start <= p /\ p < End
    BY <2>1 DEF Pages
  <2>4. ASSUME NEW p \in Pages
        PROVE  Cardinality({i \in DOMAIN list : p \in PagesOfBlock(list[i])}) = 1
    <3>1. PICK i \in 1 .. Len(list) : list[i].base <= p /\ p < EndOf(list[i])
      BY <2>1, <2>3, Located
    <3>2. {j \in DOMAIN list : p \in PagesOfBlock(list[j])} = {i}
      <4>1. i \in DOMAIN list /\ p \in PagesOfBlock(list[i])
        BY <2>1, <2>2, <2>3, <3>1
      <4>2. ASSUME NEW j \in DOMAIN list, p \in PagesOfBlock(list[j])
            PROVE  j = i
        BY <2>1, <2>2, <2>3, <3>1, <4>2, Alone
      <4> QED BY <4>1, <4>2
    <3> QED BY <3>2, FS_Singleton
  <2>5. UNION {PagesOfBlock(list[i]) : i \in DOMAIN list} = Pages
    <3>1. ASSUME NEW i \in DOMAIN list, NEW p \in PagesOfBlock(list[i])
          PROVE  p \in Pages
      <4>1. i \in 1 .. Len(list) /\ p \in Int
        BY <2>1 DEF PagesOfBlock
      <4>2. list[i].base <= p /\ p < EndOf(list[i])
        BY <2>2, <4>1
      <4> QED BY <2>1, <4>1, <4>2, AvailablePages
    <3>2. ASSUME NEW p \in Pages
          PROVE  \E i \in DOMAIN list : p \in PagesOfBlock(list[i])
      BY <2>1, <2>2, <2>3, Located
    <3> QED BY <3>1, <3>2
  <2> QED BY <2>4, <2>5 DEF BlocksTileTheSpace, IInv, Consistent
<1> QED
  BY <1>1, Invariance, PTL

\* No page is granted to two clients, or granted while it is available, or
\* granted though it was used from the start.
THEOREM GrantedOnce == Spec => []NoDoubleGrant
<1>1. IInv => NoDoubleGrant
  <2> SUFFICES ASSUME IInv, NEW p \in Pages
               PROVE  /\ claims[p] <= 1
                      /\ claims[p] = 1 => /\ p \notin AvailableIn(list)
                                          /\ p \in AvailableIn(InitialList)
    BY DEF NoDoubleGrant
  <2>1. claims[p] \in {0, 1}
    BY DEF IInv, Conserved
  <2>2. claims[p] <= 1 /\ (claims[p] = 1 => claims[p] # 0)
    BY <2>1
  <2> QED BY <2>2 DEF IInv, Conserved
<1> QED
  BY <1>1, Invariance, PTL

\* A page that is neither available nor granted was used from the start, and
\* the count that requestPages refuses by is the number of available pages.
THEOREM NoneLeaks == Spec => []NothingLeaks
<1>1. IInv => NothingLeaks
  <2> SUFFICES ASSUME IInv
               PROVE  NothingLeaks
    OBVIOUS
  <2>1. AvailableIn(InitialList) \subseteq Pages
    BY DEF AvailableIn
  <2> QED BY <2>1 DEF IInv, Conserved, NothingLeaks
<1> QED
  BY <1>1, Invariance, PTL

\* The block that freePages finds for pages that a client holds is never an
\* available one, so that panic is out of the reach of such clients.
THEOREM OnlyUsedBlocksAreFreed == Spec => [](panicked # "freed an available block")
<1>1. IInv => panicked # "freed an available block"
  BY DEF IInv, StoppedForAReason
<1> QED
  BY <1>1, Invariance, PTL

-----------------------------------------------------------------------------
(* The refinement of BestFitAllocator *)

\* The runs of available pages are the available blocks.
LEMMA RunsAreBlocks ==
  ASSUME IInv, NEW r
  PROVE  r \in BestFit!Runs
           <=> \E i \in 1 .. Len(list) :
                 list[i].available /\ r = <<list[i].base, EndOf(list[i]) - 1>>
<1> DEFINE free == AvailableIn(list)
<1>1. /\ Tiling(list) /\ Chain(list) /\ Len(list) \in Nat /\ free \subseteq Pages
      /\ \A i \in 1 .. Len(list) : /\ list[i].base \in Nat /\ list[i].pageCount \in Nat
                                   /\ list[i].pageCount # 0 /\ EndOf(list[i]) \in Nat
                                   /\ EndOf(list[i]) = list[i].base + list[i].pageCount
                                   /\ list[i].available \in BOOLEAN
      /\ list[1].base = Start /\ EndOf(list[Len(list)]) = End
      /\ \A i \in 1 .. Len(list) - 1 : /\ list[i + 1].base = EndOf(list[i])
                                       /\ list[i].available # list[i + 1].available
      /\ Start \in Nat /\ End \in Nat
  <2>1. Tiling(list) /\ Chain(list)
    BY DEF IInv, Consistent, Tiling
  <2>2. free \subseteq Pages
    BY <2>1, AvailablePages
  <2> QED BY <2>1, <2>2, ChainParts, InitialTiling DEF Tiling, NoneEmpty, Alternates
<1>2. ASSUME NEW i \in 1 .. Len(list)
      PROVE  /\ list[i].base \in Int /\ EndOf(list[i]) - 1 \in Int
             /\ list[i].base <= EndOf(list[i]) - 1
             /\ EndOf(list[i]) - 1 < EndOf(list[i])
             /\ EndOf(list[i]) - 1 + 1 = EndOf(list[i])
  <2>1. /\ list[i].base \in Nat /\ list[i].pageCount \in Nat /\ list[i].pageCount # 0
        /\ EndOf(list[i]) = list[i].base + list[i].pageCount
    BY <1>1
  <2> QED BY <2>1
<1>3. ASSUME NEW i \in 1 .. Len(list), NEW p \in Int, list[i].base <= p, p < EndOf(list[i])
      PROVE  p \in free <=> list[i].available
  BY <1>1, <1>3, AvailablePages
<1>4. \A p \in free : p \in Int /\ Start <= p /\ p < End
  BY <1>1 DEF Pages
<1> HIDE DEF free
<1>5. ASSUME NEW i \in 1 .. Len(list), list[i].available
      PROVE  list[i].base - 1 \notin free /\ EndOf(list[i]) \notin free
  <2>1. list[i].base - 1 \notin free
    <3>1. CASE i = 1
      <4>1. ~ (Start <= list[i].base - 1)
        BY <1>1, <3>1
      <4> QED BY <1>4, <4>1
    <3>2. CASE i # 1
      <4> DEFINE j == i - 1
      <4>1. j \in 1 .. Len(list) /\ j \in 1 .. Len(list) - 1 /\ j + 1 = i
        BY <1>1, <3>2
      <4> HIDE DEF j
      <4>2. list[i].base = EndOf(list[j]) /\ list[j].available # list[i].available
        BY <1>1, <4>1
      <4>3. /\ list[i].base - 1 \in Int /\ list[j].base <= list[i].base - 1
            /\ list[i].base - 1 < EndOf(list[j])
        BY <1>2, <4>1, <4>2
      <4>4. ~ list[j].available
        BY <1>1, <1>5, <4>1, <4>2
      <4> QED BY <1>3, <4>1, <4>3, <4>4
    <3> QED BY <3>1, <3>2
  <2>2. EndOf(list[i]) \notin free
    <3>1. CASE i = Len(list)
      <4>1. ~ (EndOf(list[i]) < End)
        BY <1>1, <3>1
      <4> QED BY <1>4, <4>1
    <3>2. CASE i # Len(list)
      <4> DEFINE j == i + 1
      <4>1. j \in 1 .. Len(list) /\ i \in 1 .. Len(list) - 1
        BY <1>1, <3>2
      <4>2. list[j].base = EndOf(list[i]) /\ list[i].available # list[j].available
        BY <1>1, <4>1
      <4> HIDE DEF j
      <4>3. EndOf(list[i]) \in Int /\ list[j].base <= EndOf(list[i]) /\ EndOf(list[i]) < EndOf(list[j])
        BY <1>1, <4>1, <4>2
      <4>4. ~ list[j].available
        BY <1>1, <1>5, <4>1, <4>2
      <4> QED BY <1>3, <4>1, <4>3, <4>4
    <3> QED BY <3>1, <3>2
  <2> QED BY <2>1, <2>2
<1>6. r \in BestFit!Runs
        <=> /\ r \in free \X free
            /\ r[1] .. r[2] \subseteq free /\ r[1] <= r[2]
            /\ r[1] - 1 \notin free /\ r[2] + 1 \notin free
  BY DEF BestFit!Runs, free
<1>7. ASSUME NEW i \in 1 .. Len(list), list[i].available,
             r = <<list[i].base, EndOf(list[i]) - 1>>
      PROVE  r \in BestFit!Runs
  <2> DEFINE a == list[i].base
             e == EndOf(list[i]) - 1
  <2>1. a \in Int /\ e \in Int /\ a <= e /\ e < EndOf(list[i]) /\ e + 1 = EndOf(list[i])
    BY <1>2
  <2>2. \A p \in a .. e : p \in free
    BY <1>3, <1>7, <2>1
  <2>3. a - 1 \notin free /\ e + 1 \notin free
    BY <1>5, <1>7, <2>1
  <2>4. r[1] = a /\ r[2] = e /\ r = <<a, e>>
    BY <1>7
  <2> HIDE DEF a, e
  <2>5. a \in free /\ e \in free
    BY <2>1, <2>2
  <2> QED BY <1>6, <2>1, <2>2, <2>3, <2>4, <2>5
<1>8. ASSUME r \in BestFit!Runs
      PROVE  \E i \in 1 .. Len(list) :
               list[i].available /\ r = <<list[i].base, EndOf(list[i]) - 1>>
  <2> DEFINE a == r[1]
             e == r[2]
  <2>1. /\ a \in free /\ e \in free /\ r = <<a, e>> /\ a \in Int /\ e \in Int /\ a <= e
        /\ \A p \in Int : a <= p /\ p <= e => p \in free
        /\ a - 1 \notin free /\ e + 1 \notin free
    BY <1>4, <1>6, <1>8
  <2> HIDE DEF a, e
  <2>2. PICK i \in 1 .. Len(list) : list[i].base <= a /\ a < EndOf(list[i])
    BY <1>1, <1>4, <2>1, Located
  <2>3. list[i].available
    BY <1>3, <2>1, <2>2
  <2>4. a = list[i].base
    <3> SUFFICES ASSUME list[i].base < a
                 PROVE  FALSE
      BY <1>1, <2>1, <2>2
    <3>1. a - 1 \in Int /\ list[i].base <= a - 1 /\ a - 1 < EndOf(list[i])
      BY <1>1, <2>1, <2>2
    <3> QED BY <1>3, <2>1, <2>3, <3>1
  <2>5. e < EndOf(list[i])
    <3> SUFFICES ASSUME EndOf(list[i]) <= e
                 PROVE  FALSE
      BY <1>1, <2>1
    <3>1. EndOf(list[i]) \in free
      BY <1>1, <2>1, <2>2
    <3> QED BY <1>5, <2>3, <3>1
  <2>6. e = EndOf(list[i]) - 1
    <3> SUFFICES ASSUME e < EndOf(list[i]) - 1
                 PROVE  FALSE
      BY <1>1, <2>1, <2>5
    <3>1. e + 1 \in Int /\ list[i].base <= e + 1 /\ e + 1 < EndOf(list[i])
      BY <1>1, <2>1, <2>4
    <3> QED BY <1>3, <2>1, <2>3, <3>1
  <2> QED BY <2>1, <2>3, <2>4, <2>6
<1> QED
  BY <1>7, <1>8

\* Which pages are held after a step that gave or took a range.
LEMMA GrantedAfter ==
  ASSUME IInv, NEW range \in SUBSET Pages, NEW n \in {1, -1},
         \A p \in range : claims[p] = IF n = 1 THEN 0 ELSE 1,
         claims' = [p \in Pages |-> IF p \in range THEN claims[p] + n ELSE claims[p]]
  PROVE  {p \in Pages : claims'[p] > 0} =
           IF n = 1 THEN {p \in Pages : claims[p] > 0} \cup range
           ELSE {p \in Pages : claims[p] > 0} \ range
<1>1. \A p \in Pages : claims[p] \in {0, 1}
  BY DEF IInv, Conserved
<1>2. ASSUME NEW p \in Pages
      PROVE  claims'[p] = IF p \in range THEN claims[p] + n ELSE claims[p]
  OBVIOUS
<1>3. CASE n = 1
  <2>1. ASSUME NEW p \in Pages
        PROVE  claims'[p] > 0 <=> claims[p] > 0 \/ p \in range
    BY <1>1, <1>2, <1>3
  <2> QED BY <1>3, <2>1
<1>4. CASE n = -1
  <2>1. ASSUME NEW p \in Pages
        PROVE  claims'[p] > 0 <=> claims[p] > 0 /\ p \notin range
    BY <1>1, <1>2, <1>4
  <2>2. n # 1
    BY <1>4
  <2> QED BY <2>1, <2>2
<1> QED
  BY <1>3, <1>4

\* A request takes the front of the run of available pages that fits best.
LEMMA RequestRefines ==
  ASSUME IInv, NEW count \in Nat \ {0}, RequestPages(count)
  PROVE  BestFit!Request(count) \/ Stopped
<1>1. CASE Stopped
  BY <1>1
<1>2. ASSUME NEW i \in 1 .. Len(list),
             i = BestFitIndex(count), Fitting(count) # {},
             list[i].available, count <= list[i].pageCount,
             list[i].base .. list[i].base + count - 1 \subseteq AvailableIn(list),
             AvailableIn(list') =
               AvailableIn(list) \ (list[i].base .. list[i].base + count - 1),
             claims' = ClaimsPlus(list[i].base, count, 1)
      PROVE  BestFit!Request(count)
  <2> DEFINE r == <<list[i].base, EndOf(list[i]) - 1>>
             range == list[i].base .. list[i].base + count - 1
             granted == {p \in Pages : claims[p] > 0}
  <2>1. /\ Tiling(list) /\ DOMAIN list = 1 .. Len(list) /\ Len(list) \in Nat
        /\ AvailableIn(list) \subseteq Pages
        /\ \A j \in 1 .. Len(list) : /\ list[j].base \in Nat /\ list[j].pageCount \in Nat
                                     /\ EndOf(list[j]) = list[j].base + list[j].pageCount
                                     /\ EndOf(list[j]) \in Nat
    BY ChainParts, AvailablePages DEF IInv, Consistent, Tiling
  <2>2. r \in BestFit!Runs
    BY <1>2, RunsAreBlocks
  <2>3. ASSUME NEW j \in 1 .. Len(list)
        PROVE  BestFit!Length(<<list[j].base, EndOf(list[j]) - 1>>) = list[j].pageCount
    <3>1. (EndOf(list[j]) - 1) - list[j].base + 1 = list[j].pageCount
      BY <2>1
    <3> QED BY <3>1 DEF BestFit!Length
  <2>4. \A j \in Fitting(count) :
          \/ list[i].pageCount < list[j].pageCount
          \/ list[i].pageCount = list[j].pageCount /\ i <= j
    BY <1>2, <2>1, BestFits
  <2>5. ASSUME NEW s \in BestFit!Runs, BestFit!Length(s) >= count
        PROVE  \/ BestFit!Length(r) < BestFit!Length(s)
               \/ BestFit!Length(r) = BestFit!Length(s) /\ r[1] <= s[1]
    <3>1. PICK j \in 1 .. Len(list) :
            list[j].available /\ s = <<list[j].base, EndOf(list[j]) - 1>>
      BY <2>5, RunsAreBlocks
    <3>2. BestFit!Length(r) = list[i].pageCount /\ BestFit!Length(s) = list[j].pageCount
      BY <2>3, <3>1
    <3>3. j \in Fitting(count)
      BY <2>1, <2>5, <3>1, <3>2 DEF Fitting
    <3>4. r[1] = list[i].base /\ s[1] = list[j].base
      BY <3>1
    <3>5. i <= j => list[i].base <= list[j].base
      <4>1. CASE i = j
        BY <2>1, <4>1
      <4>2. CASE i < j
        <5>1. j \in i + 1 .. Len(list)
          BY <2>1, <4>2
        <5>2. EndOf(list[i]) <= list[j].base
          BY <2>1, <5>1, Ordered DEF Tiling
        <5>3. list[i].base <= EndOf(list[i])
          BY <2>1
        <5> QED BY <2>1, <5>2, <5>3
      <4> QED BY <2>1, <4>1, <4>2
    <3> QED BY <2>4, <3>2, <3>3, <3>4, <3>5
  <2>6. BestFit!Length(r) >= count
    BY <1>2, <2>1, <2>3
  <2>7. BestFit!IsBestFit(r, count)
    <3> HIDE DEF r
    <3> QED BY <2>2, <2>5, <2>6 DEF BestFit!IsBestFit
  <2>8. range \in SUBSET Pages /\ \A p \in range : claims[p] = 0
    BY <1>2, <2>1 DEF IInv, Conserved
  <2>9. {p \in Pages : claims'[p] > 0} = granted \cup range
    <3>1. claims' = [p \in Pages |-> IF p \in range THEN claims[p] + 1 ELSE claims[p]]
      BY <1>2 DEF ClaimsPlus
    <3> HIDE DEF range
    <3> QED BY <2>8, <3>1, GrantedAfter
  <2>10. r[1] = list[i].base
    OBVIOUS
  <2> HIDE DEF r
  <2> QED BY <1>2, <2>2, <2>7, <2>9, <2>10 DEF BestFit!Request
<1> QED
  BY <1>1, <1>2, RequestTakes

\* A release gives back what was granted.
LEMMA FreeRefines ==
  ASSUME IInv, NEW count \in Nat \ {0}, NEW first \in Pages,
         Held(first, count), FreePages(first, count)
  PROVE  BestFit!Release(first, count) \/ Stopped
<1>1. CASE Stopped
  BY <1>1
<1>2. CASE /\ \A p \in first .. first + count - 1 :
                p \in Pages /\ claims[p] = 1 /\ p \notin AvailableIn(list)
           /\ AvailableIn(list') = AvailableIn(list) \cup (first .. first + count - 1)
           /\ claims' = ClaimsPlus(first, count, -1)
  <2> DEFINE range == first .. first + count - 1
             granted == {p \in Pages : claims[p] > 0}
  <2>1. range \in SUBSET Pages /\ \A p \in range : claims[p] = 1
    BY <1>2
  <2>2. range \subseteq granted
    BY <2>1
  <2>3. {p \in Pages : claims'[p] > 0} = granted \ range
    <3>1. claims' = [p \in Pages |-> IF p \in range THEN claims[p] + (-1) ELSE claims[p]]
      BY <1>2 DEF ClaimsPlus
    <3> HIDE DEF range
    <3> QED BY <2>1, <3>1, GrantedAfter
  <2> QED BY <1>2, <2>2, <2>3 DEF BestFit!Release
<1> QED
  BY <1>1, <1>2, FreeGives

\* The numbers of pages that can be asked for.
LEMMA PagesCounted == 1 .. BestFit!Cardinality(Pages) = 1 .. End - Start
<1>1. Start \in Nat /\ End \in Nat /\ Start < End
  BY InitialTiling
<1>2. Cardinality(Start .. End - 1) = IF Start > End - 1 THEN 0 ELSE (End - 1) - Start + 1
  BY <1>1, FS_Interval
<1>3. BestFit!Cardinality(Pages) = Cardinality(Pages)
  BY DEF BestFit!Cardinality, Cardinality
<1> QED
  BY <1>1, <1>2, <1>3 DEF Pages

\* The page manager with its list of blocks implements the allocator that has
\* only a set of free pages: whatever was split and merged, each request is
\* served from the front of the lowest of the shortest runs that suffice.
THEOREM Refinement == Spec => ImplementsBestFit
<1>1. Init => BestFit!Init
  <2> SUFFICES ASSUME Init
               PROVE  BestFit!Init
    OBVIOUS
  <2>1. AvailableIn(list) \subseteq Pages
    BY DEF AvailableIn
  <2>2. {p \in Pages : claims[p] > 0} = {}
    BY DEF Init
  <2> QED BY <2>1, <2>2 DEF BestFit!Init
<1>2. IInv /\ [Next]_vars => [BestFit!Next]_(BestFit!pageVars)
  <2> SUFFICES ASSUME IInv, [Next]_vars
               PROVE  [BestFit!Next]_(BestFit!pageVars)
    OBVIOUS
  <2>1. ASSUME Stopped \/ UNCHANGED vars
        PROVE  UNCHANGED BestFit!pageVars
    BY <2>1 DEF Stopped, vars, BestFit!pageVars
  <2>2. ASSUME NEW count \in 1 .. End - Start, RequestPages(count)
        PROVE  [BestFit!Next]_(BestFit!pageVars)
    <3>1. BestFit!Request(count) \/ Stopped
      BY <2>2, CountsArePositive, RequestRefines
    <3>2. count \in 1 .. BestFit!Cardinality(Pages)
      BY PagesCounted
    <3>3. CASE BestFit!Request(count)
      BY <3>2, <3>3 DEF BestFit!Next
    <3>4. CASE Stopped
      BY <2>1, <3>4
    <3> QED BY <3>1, <3>3, <3>4
  <2>3. ASSUME NEW count \in 1 .. End - Start, NEW first \in Pages,
               Held(first, count), FreePages(first, count)
        PROVE  [BestFit!Next]_(BestFit!pageVars)
    <3>1. BestFit!Release(first, count) \/ Stopped
      BY <2>3, CountsArePositive, FreeRefines
    <3>2. count \in 1 .. BestFit!Cardinality(Pages)
      BY PagesCounted
    <3>3. CASE BestFit!Release(first, count)
      BY <3>2, <3>3 DEF BestFit!Next
    <3>4. CASE Stopped
      BY <2>1, <3>4
    <3> QED BY <3>1, <3>3, <3>4
  <2>4. CASE UNCHANGED vars
    BY <2>1, <2>4
  <2> QED BY <2>2, <2>3, <2>4 DEF Next
<1> QED
  BY <1>1, <1>2, Invariance, PTL DEF Spec, ImplementsBestFit, BestFit!Spec

-----------------------------------------------------------------------------
(* The refinement of PageAllocator, which BestFitAllocator implements *)

\* A best-fit request takes the front of a run of free pages, at least one.
LEMMA BestFitGrants ==
  ASSUME NEW count \in Nat \ {0}, BestFit!Request(count)
  PROVE  BestFit!Allocator!Grant
<1> DEFINE free == AvailableIn(list)
           freeNext == AvailableIn(list')
           granted == {p \in Pages : claims[p] > 0}
           grantedNext == {p \in Pages : claims'[p] > 0}
<1>1. PICK r \in BestFit!Runs :
        /\ BestFit!IsBestFit(r, count)
        /\ freeNext = free \ (r[1] .. r[1] + count - 1)
        /\ grantedNext = granted \cup (r[1] .. r[1] + count - 1)
  BY DEF BestFit!Request
<1> DEFINE front == r[1] .. r[1] + count - 1
<1>2. front \subseteq free /\ front # {}
  <2>1. free \subseteq Int
    BY InitialTiling DEF AvailableIn, Pages
  <2>2. r[1] \in Int /\ r[2] \in Int /\ r[1] .. r[2] \subseteq free
    BY <2>1 DEF BestFit!Runs
  <2>3. r[1] + count - 1 <= r[2]
    BY <1>1, <2>2 DEF BestFit!IsBestFit, BestFit!Length
  <2>4. r[1] \in front
    BY <2>2
  <2>5. front \subseteq r[1] .. r[2]
    BY <2>2, <2>3
  <2> QED BY <2>2, <2>4, <2>5
<1>3. freeNext = free \ front /\ grantedNext = granted \cup front
  BY <1>1
<1> HIDE DEF free, freeNext, granted, grantedNext, front
<1>4. freeNext # free /\ front = free \ freeNext
  BY <1>2, <1>3
<1>5. freeNext \in (SUBSET free) \ {free} /\ grantedNext = granted \cup (free \ freeNext)
  BY <1>3, <1>4
<1> QED
  BY <1>5 DEF BestFit!Allocator!Grant, free, freeNext, granted, grantedNext

\* A release gives back granted pages, at least one.
LEMMA BestFitReleases ==
  ASSUME NEW count \in Nat \ {0}, NEW first \in Pages, BestFit!Release(first, count)
  PROVE  BestFit!Allocator!Release
<1> DEFINE free == AvailableIn(list)
           freeNext == AvailableIn(list')
           granted == {p \in Pages : claims[p] > 0}
           grantedNext == {p \in Pages : claims'[p] > 0}
           released == first .. first + count - 1
<1>1. first \in released
  BY InitialTiling DEF Pages
<1>2. /\ released \subseteq granted
      /\ grantedNext = granted \ released
      /\ freeNext = free \cup released
  BY DEF BestFit!Release
<1> HIDE DEF free, freeNext, granted, grantedNext, released
<1>3. grantedNext # granted /\ released = granted \ grantedNext
  BY <1>1, <1>2
<1>4. /\ grantedNext \in (SUBSET granted) \ {granted}
      /\ freeNext = free \cup (granted \ grantedNext)
  BY <1>2, <1>3
<1> QED
  BY <1>4 DEF BestFit!Allocator!Release, free, freeNext, granted, grantedNext

\* Serving requests from the smallest run of free pages that is long enough is
\* one way to be a page allocator.
THEOREM BestFitImplementsAllocator == BestFit!Spec => BestFit!Allocator!Spec
<1>1. BestFit!Init => BestFit!Allocator!Init
  BY DEF BestFit!Init, BestFit!Allocator!Init
<1>2. [BestFit!Next]_(BestFit!pageVars)
        => [BestFit!Allocator!Next]_(BestFit!Allocator!pageVars)
  <2>1. ASSUME NEW count \in 1 .. End - Start, BestFit!Request(count)
        PROVE  BestFit!Allocator!Next
    BY <2>1, CountsArePositive, BestFitGrants DEF BestFit!Allocator!Next
  <2>2. ASSUME NEW count \in 1 .. End - Start, NEW first \in Pages,
               BestFit!Release(first, count)
        PROVE  BestFit!Allocator!Next
    BY <2>2, CountsArePositive, BestFitReleases DEF BestFit!Allocator!Next
  <2>3. UNCHANGED BestFit!pageVars => UNCHANGED BestFit!Allocator!pageVars
    BY DEF BestFit!pageVars, BestFit!Allocator!pageVars
  <2> QED BY <2>1, <2>2, <2>3, PagesCounted DEF BestFit!Next
<1> QED
  BY <1>1, <1>2, PTL DEF BestFit!Spec, BestFit!Allocator!Spec

\* Serving requests best fit from a list of blocks, the virtual page manager
\* is a page allocator: no page is granted twice, and only granted pages are
\* given back.
THEOREM ImplementsAllocator == Spec => BestFit!Allocator!Spec
BY Refinement, BestFitImplementsAllocator DEF ImplementsBestFit

=============================================================================

-------------------------- MODULE PageTablesProofs --------------------------
(***************************************************************************)
(* For any set of pages, any set of frames and any number of entries in a   *)
(* table: mapping and unmapping keep exactly the held pages translated,     *)
(* keep exactly the tables that those pages need, and give every frame one  *)
(* use.                                                                     *)
(***************************************************************************)

EXTENDS PageTables, NaturalFacts, TLAPS

Partial(D, R) == UNION {[d -> R] : d \in SUBSET D}

AnyTable == {Table(p, j) : p \in Pages, j \in Levels}

Memories ==
  [free : SUBSET Frames,
   tables : Partial(AnyTable, Frames),
   ptes : Partial(Pages, Frames \cup DeviceFrames),
   outOfMemory : BOOLEAN]

\* The tables that the translation of these pages takes.
Needed(pages) == {Table(p, j) : p \in pages, j \in Levels}

\* Every frame is free, or reserved for a page that is going to be mapped, or
\* a table, or behind a page, and is only one of these, once.
OneUse(fr, tb, pt, reserved) ==
  /\ \A f \in Frames : \/ f \in fr \/ f \in reserved
                       \/ \E t \in DOMAIN tb : tb[t] = f
                       \/ \E p \in DOMAIN pt : pt[p] = f
  /\ fr \cap reserved = {}
  /\ \A t \in DOMAIN tb : tb[t] \notin fr /\ tb[t] \notin reserved
  /\ \A p \in DOMAIN pt : pt[p] \notin fr /\ pt[p] \notin reserved
  /\ \A t \in DOMAIN tb, p \in DOMAIN pt : tb[t] # pt[p]
  /\ \A t, u \in DOMAIN tb : tb[t] = tb[u] => t = u
  /\ \A p, q \in DOMAIN pt : pt[p] = pt[q] /\ pt[p] \in Frames => p = q

-----------------------------------------------------------------------------
(* Partial functions *)

\* A partial function has its domain and its values where it should.
LEMMA PartialParts ==
  ASSUME NEW D, NEW R, NEW f
  PROVE  f \in Partial(D, R) <=> /\ f = [x \in DOMAIN f |-> f[x]] /\ DOMAIN f \subseteq D
                                 /\ \A x \in DOMAIN f : f[x] \in R
<1>1. ASSUME f \in Partial(D, R)
      PROVE  /\ f = [x \in DOMAIN f |-> f[x]] /\ DOMAIN f \subseteq D
             /\ \A x \in DOMAIN f : f[x] \in R
  <2>1. PICK d \in SUBSET D : f \in [d -> R]
    BY <1>1 DEF Partial
  <2> QED BY <2>1
<1>2. ASSUME f = [x \in DOMAIN f |-> f[x]], DOMAIN f \subseteq D,
             \A x \in DOMAIN f : f[x] \in R
      PROVE  f \in Partial(D, R)
  <2>1. f \in [DOMAIN f -> R]
    BY <1>2
  <2> QED BY <1>2, <2>1 DEF Partial
<1> QED
  BY <1>1, <1>2

\* So it has with one more value.
LEMMA WithKeepsType ==
  ASSUME NEW D, NEW R, NEW f \in Partial(D, R), NEW x \in D, NEW y \in R
  PROVE  With(f, x, y) \in Partial(D, R)
<1>1. DOMAIN f \subseteq D /\ \A z \in DOMAIN f : f[z] \in R
  BY PartialParts
<1>2. With(f, x, y) \in [DOMAIN f \cup {x} -> R]
  BY <1>1 DEF With
<1> QED
  BY <1>1, <1>2 DEF Partial

\* And with one value less.
LEMMA WithoutKeepsType ==
  ASSUME NEW D, NEW R, NEW f \in Partial(D, R), NEW x
  PROVE  Without(f, x) \in Partial(D, R)
<1>1. DOMAIN f \subseteq D /\ \A z \in DOMAIN f : f[z] \in R
  BY PartialParts
<1>2. Without(f, x) \in [DOMAIN f \ {x} -> R]
  BY <1>1 DEF Without, Restrict
<1> QED
  BY <1>1, <1>2 DEF Partial

-----------------------------------------------------------------------------
(* The uses of frames *)

\* A free frame becomes a table.
LEMMA TableAdded ==
  ASSUME NEW fr, NEW tb, NEW pt, NEW reserved, OneUse(fr, tb, pt, reserved),
         NEW f \in fr, NEW t, t \notin DOMAIN tb
  PROVE  OneUse(fr \ {f}, With(tb, t, f), pt, reserved)
<1> DEFINE new == With(tb, t, f)
<1>1. DOMAIN new = DOMAIN tb \cup {t} /\ new[t] = f /\ \A u \in DOMAIN tb : new[u] = tb[u]
  BY DEF With
<1> HIDE DEF new
<1>2. OneUse(fr \ {f}, new, pt, reserved)
  BY <1>1 DEF OneUse
<1> QED BY <1>2 DEF new

\* A table's frame becomes free.
LEMMA TableRemoved ==
  ASSUME NEW fr, NEW tb, NEW pt, NEW reserved, OneUse(fr, tb, pt, reserved),
         NEW t \in DOMAIN tb
  PROVE  OneUse(fr \cup {tb[t]}, Without(tb, t), pt, reserved)
<1> DEFINE new == Without(tb, t)
<1>1. DOMAIN new = DOMAIN tb \ {t} /\ \A u \in DOMAIN new : new[u] = tb[u]
  BY DEF Without, Restrict
<1> HIDE DEF new
<1>2. OneUse(fr \cup {tb[t]}, new, pt, reserved)
  BY <1>1 DEF OneUse
<1> QED BY <1>2 DEF new

\* A page is mapped to a frame that is reserved for it, or to a device's.
LEMMA PageAdded ==
  ASSUME NEW fr \in SUBSET Frames, NEW tb, NEW pt, NEW reserved,
         OneUse(fr, tb, pt, reserved), \A t \in DOMAIN tb : tb[t] \in Frames,
         NEW p, p \notin DOMAIN pt, NEW f, f \in reserved \/ f \notin Frames
  PROVE  OneUse(fr, tb, With(pt, p, f), reserved \ {f})
<1> DEFINE new == With(pt, p, f)
<1>1. DOMAIN new = DOMAIN pt \cup {p} /\ new[p] = f /\ \A q \in DOMAIN pt : new[q] = pt[q]
  BY DEF With
<1> HIDE DEF new
<1>2. OneUse(fr, tb, new, reserved \ {f})
  BY <1>1 DEF OneUse
<1> QED BY <1>2 DEF new

\* A page's frame becomes free, unless it is a device's.
LEMMA PageRemoved ==
  ASSUME NEW fr, NEW tb, NEW pt, NEW reserved, OneUse(fr, tb, pt, reserved),
         \A t \in DOMAIN tb : tb[t] \in Frames, reserved \subseteq Frames,
         NEW p \in DOMAIN pt
  PROVE  OneUse(IF pt[p] \in Frames THEN fr \cup {pt[p]} ELSE fr, tb, Without(pt, p), reserved)
<1> DEFINE new == Without(pt, p)
           more == IF pt[p] \in Frames THEN fr \cup {pt[p]} ELSE fr
<1>1. DOMAIN new = DOMAIN pt \ {p} /\ \A q \in DOMAIN new : new[q] = pt[q]
  BY DEF Without, Restrict
<1> HIDE DEF new
<1>2. OneUse(more, tb, new, reserved)
  BY <1>1 DEF OneUse
<1> QED BY <1>2 DEF new

-----------------------------------------------------------------------------
(* Which table translates a page *)

\* The pages that one entry of a table stands for, level by level.
LEMMA Spans ==
  /\ span[0] = 1 /\ \A j \in 1 .. 3 : span[j] = TableEntries * span[j - 1]
  /\ \A j \in 0 .. 3 : span[j] \in Nat \ {0}
<1> DEFINE T == TableEntries
           g == [j \in 0 .. 3 |-> IF j = 0 THEN 1 ELSE IF j = 1 THEN T
                                  ELSE IF j = 2 THEN T * T ELSE T * (T * T)]
<1>1. T \in Nat \ {0}
  BY PageTablesAssumption
<1> HIDE DEF T
<1>2. g = [j \in 0 .. 3 |-> IF j = 0 THEN 1 ELSE T * g[j - 1]]
  <2>1. \A j \in 0 .. 3 : g[j] = IF j = 0 THEN 1 ELSE T * g[j - 1]
    <3>1. g[0] = 1 /\ g[1] = T * g[0] /\ g[2] = T * g[1] /\ g[3] = T * g[2]
      BY <1>1
    <3> HIDE DEF g
    <3> QED BY <3>1
  <2> QED BY <2>1
<1> HIDE DEF g
<1>3. \E f : f = [j \in 0 .. 3 |-> IF j = 0 THEN 1 ELSE T * f[j - 1]]
  BY <1>2
<1>4. span = [j \in 0 .. 3 |-> IF j = 0 THEN 1 ELSE T * span[j - 1]]
  BY <1>3 DEF span, T
<1>5. span[0] = 1 /\ span[1] = T * span[0] /\ span[2] = T * span[1] /\ span[3] = T * span[2]
  BY <1>4
<1>6. span[1] \in Nat \ {0}
  BY <1>1, <1>5
<1>7. span[2] \in Nat \ {0}
  BY <1>1, <1>5, <1>6
<1>8. span[3] \in Nat \ {0}
  BY <1>1, <1>5, <1>7
<1> QED
  BY <1>5, <1>6, <1>7, <1>8 DEF T

\* A table's entry in the table above it is found by one more division.
LEMMA TableAbove ==
  ASSUME NEW p \in Nat, NEW j \in {1, 2}
  PROVE  (p \div span[j]) \div TableEntries = p \div span[j + 1]
<1>1. span[j] \in Nat \ {0} /\ span[j + 1] = TableEntries * span[j]
  <2>1. j \in 0 .. 3 /\ j + 1 \in 1 .. 3 /\ j + 1 - 1 = j
    OBVIOUS
  <2> QED BY <2>1, Spans
<1> QED
  BY <1>1, DivisionByProduct, PageTablesAssumption

-----------------------------------------------------------------------------
(* The state of the memory as a record *)

\* What the parts of a memory are.
LEMMA Fields ==
  ASSUME NEW st \in Memories
  PROVE  /\ st.free \subseteq Frames /\ st.free \subseteq Nat
         /\ st.tables \in Partial(AnyTable, Frames)
         /\ DOMAIN st.tables \subseteq AnyTable
         /\ \A t \in DOMAIN st.tables : st.tables[t] \in Frames
         /\ st.ptes \in Partial(Pages, Frames \cup DeviceFrames)
         /\ DOMAIN st.ptes \subseteq Pages
         /\ \A p \in DOMAIN st.ptes : st.ptes[p] \in Frames \cup DeviceFrames
         /\ st.outOfMemory \in BOOLEAN
<1>1. /\ st.free \subseteq Frames /\ st.tables \in Partial(AnyTable, Frames)
      /\ st.ptes \in Partial(Pages, Frames \cup DeviceFrames) /\ st.outOfMemory \in BOOLEAN
  BY DEF Memories
<1> QED
  BY <1>1, PartialParts, PageTablesAssumption

\* A memory with other free frames.
LEMMA SetFree ==
  ASSUME NEW st \in Memories, NEW fr \in SUBSET Frames, NEW new, new = [st EXCEPT !.free = fr]
  PROVE  /\ new \in Memories /\ new.free = fr /\ new.tables = st.tables
         /\ new.ptes = st.ptes /\ new.outOfMemory = st.outOfMemory
BY DEF Memories

\* A memory with other tables.
LEMMA SetTables ==
  ASSUME NEW st \in Memories, NEW tb \in Partial(AnyTable, Frames),
         NEW new, new = [st EXCEPT !.tables = tb]
  PROVE  /\ new \in Memories /\ new.free = st.free /\ new.tables = tb
         /\ new.ptes = st.ptes /\ new.outOfMemory = st.outOfMemory
BY DEF Memories

\* A memory with other mappings.
LEMMA SetPtes ==
  ASSUME NEW st \in Memories, NEW pt \in Partial(Pages, Frames \cup DeviceFrames),
         NEW new, new = [st EXCEPT !.ptes = pt]
  PROVE  /\ new \in Memories /\ new.free = st.free /\ new.tables = st.tables
         /\ new.ptes = pt /\ new.outOfMemory = st.outOfMemory
BY DEF Memories

\* A memory that has run out.
LEMMA SetOutOfMemory ==
  ASSUME NEW st \in Memories, NEW new, new = [st EXCEPT !.outOfMemory = TRUE]
  PROVE  /\ new \in Memories /\ new.free = st.free /\ new.tables = st.tables
         /\ new.ptes = st.ptes /\ new.outOfMemory = TRUE
BY DEF Memories

\* Lowest is what its name says.
LEMMA LowestIsLeast ==
  ASSUME NEW S \in SUBSET Nat, S # {}
  PROVE  Lowest(S) \in S /\ \A y \in S : Lowest(S) <= y
BY LeastNatural DEF Lowest

-----------------------------------------------------------------------------
(* mapPages *)

\* The uses of frames in the state st.
Exclusive(st, reserved) == OneUse(st.free, st.tables, st.ptes, reserved)

\* Making sure of one table.
LEMMA TableMade ==
  ASSUME NEW st \in Memories, NEW table \in AnyTable, NEW reserved,
         ~ st.outOfMemory => Exclusive(st, reserved),
         NEW new, new = WithTable(st, table)
  PROVE  /\ new \in Memories /\ new.ptes = st.ptes
         /\ st.outOfMemory => new = st
         /\ ~ new.outOfMemory => /\ ~ st.outOfMemory
                                 /\ Exclusive(new, reserved)
                                 /\ DOMAIN new.tables = DOMAIN st.tables \cup {table}
<1>1. CASE st.outOfMemory \/ table \in DOMAIN st.tables
  <2>1. new = st
    BY <1>1 DEF WithTable
  <2> QED BY <1>1, <2>1
<1>2. CASE ~ st.outOfMemory /\ table \notin DOMAIN st.tables /\ st.free = {}
  <2>1. new = [st EXCEPT !.outOfMemory = TRUE]
    BY <1>2 DEF WithTable
  <2> QED BY <1>2, <2>1, SetOutOfMemory
<1>3. CASE ~ st.outOfMemory /\ table \notin DOMAIN st.tables /\ st.free # {}
  <2> DEFINE f == Lowest(st.free)
             fr == st.free \ {f}
             tb == With(st.tables, table, f)
             mid == [st EXCEPT !.free = fr]
  <2>1. f \in st.free /\ f \in Frames
    BY <1>3, Fields, LowestIsLeast
  <2>2. new = [mid EXCEPT !.tables = With(mid.tables, table, f)]
    BY <1>3 DEF WithTable
  <2>3. tb \in Partial(AnyTable, Frames) /\ fr \in SUBSET Frames
    BY <2>1, Fields, WithKeepsType
  <2>4. /\ mid \in Memories /\ mid.free = fr /\ mid.tables = st.tables
        /\ mid.ptes = st.ptes /\ mid.outOfMemory = st.outOfMemory
    BY <2>3, SetFree
  <2>5. OneUse(fr, tb, st.ptes, reserved)
    BY <1>3, <2>1, TableAdded DEF Exclusive
  <2>6. DOMAIN tb = DOMAIN st.tables \cup {table}
    BY DEF With
  <2> HIDE DEF f, fr, mid
  <2>7. new = [mid EXCEPT !.tables = tb]
    BY <2>2, <2>4
  <2> HIDE DEF tb
  <2>8. /\ new \in Memories /\ new.free = fr /\ new.tables = tb
        /\ new.ptes = st.ptes /\ new.outOfMemory = st.outOfMemory
    BY <2>3, <2>4, <2>7, SetTables
  <2> QED BY <1>3, <2>5, <2>6, <2>8 DEF Exclusive
<1>4. st.outOfMemory \in BOOLEAN
  BY Fields
<1> QED
  BY <1>1, <1>2, <1>3, <1>4

\* Making sure of all tables that a page takes.
LEMMA TablesMade ==
  ASSUME NEW st \in Memories, NEW p \in Pages, NEW reserved,
         ~ st.outOfMemory => Exclusive(st, reserved),
         NEW new, new = WithTables(st, p)
  PROVE  /\ new \in Memories /\ new.ptes = st.ptes
         /\ st.outOfMemory => new = st
         /\ ~ new.outOfMemory => /\ ~ st.outOfMemory
                                 /\ Exclusive(new, reserved)
                                 /\ DOMAIN new.tables = DOMAIN st.tables \cup Needed({p})
<1> DEFINE a == WithTable(st, Table(p, 3))
           b == WithTable(a, Table(p, 2))
<1>1. Table(p, 3) \in AnyTable /\ Table(p, 2) \in AnyTable /\ Table(p, 1) \in AnyTable
  BY DEF AnyTable, Levels
<1>2. /\ a \in Memories /\ a.ptes = st.ptes
      /\ st.outOfMemory => a = st
      /\ ~ a.outOfMemory => /\ ~ st.outOfMemory
                            /\ Exclusive(a, reserved)
                            /\ DOMAIN a.tables = DOMAIN st.tables \cup {Table(p, 3)}
  BY <1>1, TableMade
<1> HIDE DEF a
<1>3. /\ b \in Memories /\ b.ptes = a.ptes
      /\ a.outOfMemory => b = a
      /\ ~ b.outOfMemory => /\ ~ a.outOfMemory
                            /\ Exclusive(b, reserved)
                            /\ DOMAIN b.tables = DOMAIN a.tables \cup {Table(p, 2)}
  BY <1>1, <1>2, TableMade
<1>4. new = WithTable(b, Table(p, 1))
  BY DEF WithTables, a
<1> HIDE DEF b
<1>5. /\ new \in Memories /\ new.ptes = b.ptes
      /\ b.outOfMemory => new = b
      /\ ~ new.outOfMemory => /\ ~ b.outOfMemory
                              /\ Exclusive(new, reserved)
                              /\ DOMAIN new.tables = DOMAIN b.tables \cup {Table(p, 1)}
  BY <1>1, <1>3, <1>4, TableMade
<1>6. Needed({p}) = {Table(p, 1), Table(p, 2), Table(p, 3)}
  <2>1. Levels = {1, 2, 3}
    BY DEF Levels
  <2> QED BY <2>1 DEF Needed
<1> QED
  BY <1>2, <1>3, <1>5, <1>6

\* Page p of a state between two calls can be mapped to the frame f, which is
\* reserved or a device's.
Mappable(st, p, f, reserved) ==
  /\ st \in Memories /\ p \in Pages /\ f \in Frames \cup DeviceFrames
  /\ f \in Frames => f \in reserved
  /\ ~ st.outOfMemory => /\ Exclusive(st, reserved)
                         /\ DOMAIN st.tables = Needed(DOMAIN st.ptes)
                         /\ p \notin DOMAIN st.ptes

IsMapped(new, st, p, f, reserved) ==
  /\ new \in Memories
  /\ ~ new.outOfMemory => /\ ~ st.outOfMemory
                          /\ Exclusive(new, reserved \ {f})
                          /\ new.ptes = With(st.ptes, p, f)
                          /\ DOMAIN new.tables = Needed(DOMAIN new.ptes)

\* One page is mapped, with the tables that it lacks.
LEMMA PageMapped ==
  ASSUME NEW st, NEW p, NEW f, NEW reserved, Mappable(st, p, f, reserved)
  PROVE  IsMapped(Mapped(st, p, f), st, p, f, reserved)
<1> DEFINE new == Mapped(st, p, f)
<1>1. /\ st \in Memories /\ p \in Pages /\ f \in Frames \cup DeviceFrames
      /\ f \in Frames => f \in reserved
      /\ ~ st.outOfMemory => /\ Exclusive(st, reserved)
                             /\ DOMAIN st.tables = Needed(DOMAIN st.ptes)
                             /\ p \notin DOMAIN st.ptes
  BY DEF Mappable
<1> DEFINE ready == WithTables(st, p)
           pt == With(ready.ptes, p, f)
<1>2. /\ ready \in Memories /\ ready.ptes = st.ptes
      /\ st.outOfMemory => ready = st
      /\ ~ ready.outOfMemory => /\ ~ st.outOfMemory
                                /\ Exclusive(ready, reserved)
                                /\ DOMAIN ready.tables = DOMAIN st.tables \cup Needed({p})
  BY <1>1, TablesMade
<1>3. new = IF ready.outOfMemory \/ p \in DOMAIN ready.ptes THEN ready
            ELSE [ready EXCEPT !.ptes = pt]
  BY DEF Mapped
<1> HIDE DEF ready, new
<1>4. ASSUME ready.outOfMemory \/ p \in DOMAIN ready.ptes
      PROVE  IsMapped(new, st, p, f, reserved)
  BY <1>1, <1>2, <1>3, <1>4 DEF IsMapped
<1>5. ASSUME ~ ready.outOfMemory, p \notin DOMAIN ready.ptes
      PROVE  IsMapped(new, st, p, f, reserved)
  <2>1. pt \in Partial(Pages, Frames \cup DeviceFrames)
    BY <1>1, <1>2, Fields, WithKeepsType
  <2>2. OneUse(ready.free, ready.tables, pt, reserved \ {f})
    <3>1. ready.free \in SUBSET Frames /\ \A t \in DOMAIN ready.tables : ready.tables[t] \in Frames
      BY <1>2, Fields
    <3> QED BY <1>1, <1>2, <1>5, <3>1, PageAdded DEF Exclusive
  <2>3. DOMAIN pt = DOMAIN st.ptes \cup {p}
    BY <1>2 DEF With
  <2>4. pt = With(st.ptes, p, f)
    BY <1>2
  <2> HIDE DEF pt
  <2>5. /\ new \in Memories /\ new.free = ready.free /\ new.tables = ready.tables
        /\ new.ptes = pt /\ new.outOfMemory = ready.outOfMemory
    BY <1>2, <1>3, <1>5, <2>1, SetPtes
  <2>6. Needed(DOMAIN st.ptes) \cup Needed({p}) = Needed(DOMAIN st.ptes \cup {p})
    BY DEF Needed
  <2>7. DOMAIN new.tables = Needed(DOMAIN new.ptes)
    BY <1>1, <1>2, <1>5, <2>3, <2>5, <2>6
  <2> QED BY <1>2, <1>5, <2>2, <2>4, <2>5, <2>7 DEF Exclusive, IsMapped
<1>6. ready.outOfMemory \in BOOLEAN
  BY <1>2, Fields
<1>7. IsMapped(new, st, p, f, reserved)
  BY <1>4, <1>5, <1>6 DEF IsMapped
<1> QED BY <1>7 DEF new

\* Mapping is the function that its recursive definition describes.
LEMMA MappingDefined ==
  ASSUME NEW st, NEW first, NEW frame, NEW count \in Nat,
         NEW g, g = Mapping(st, first, frame, count)
  PROVE  /\ g[0] = st
         /\ \A i \in 1 .. count : g[i] = Mapped(g[i - 1], first + i - 1, frame + i - 1)
<1> DEFINE Upto(h, n) ==
             h = [i \in 0 .. n |-> IF i = 0 THEN st
                                   ELSE Mapped(h[i - 1], first + i - 1, frame + i - 1)]
           Missing == {n \in Nat : ~ \E h : Upto(h, n)}
<1>1. Missing = {}
  <2> SUFFICES ASSUME Missing # {}
               PROVE  FALSE
    OBVIOUS
  <2>1. PICK n \in Missing : \A m \in Missing : n <= m
    <3>1. Missing \in SUBSET Nat
      OBVIOUS
    <3> HIDE DEF Missing
    <3> QED BY <3>1, LeastNatural
  <2>2. n \in Nat
    OBVIOUS
  <2>3. CASE n = 0
    <3>1. Upto([i \in 0 .. 0 |-> st], 0)
      OBVIOUS
    <3> QED BY <3>1, <2>3
  <2>4. CASE n > 0
    <3>1. n - 1 \in Nat /\ ~ (n <= n - 1)
      BY <2>2, <2>4
    <3>2. \E h : Upto(h, n - 1)
      BY <3>1, <2>1 DEF Missing
    <3>3. PICK h : Upto(h, n - 1)
      BY <3>2
    <3> DEFINE k == [i \in 0 .. n |-> IF i = 0 THEN st
                                      ELSE Mapped(h[i - 1], first + i - 1, frame + i - 1)]
    <3>4. \A i \in 0 .. n : i # 0 => k[i - 1] = h[i - 1]
      <4> SUFFICES ASSUME NEW i \in 0 .. n, i # 0
                   PROVE  k[i - 1] = h[i - 1]
        OBVIOUS
      <4>1. i - 1 \in 0 .. n /\ i - 1 \in 0 .. n - 1
        BY <2>2
      <4> QED BY <4>1, <3>3
    <3>5. Upto(k, n)
      <4>1. \A i \in 0 .. n :
              (IF i = 0 THEN st ELSE Mapped(h[i - 1], first + i - 1, frame + i - 1))
                = (IF i = 0 THEN st ELSE Mapped(k[i - 1], first + i - 1, frame + i - 1))
        <5> HIDE DEF k
        <5> QED BY <3>4
      <4> QED BY <4>1
    <3> HIDE DEF k
    <3> QED BY <3>5, <2>2
  <2> QED BY <2>2, <2>3, <2>4
<1>2. \E h : Upto(h, count)
  BY <1>1
<1>3. g = [i \in 0 .. count |-> IF i = 0 THEN st
                                ELSE Mapped(g[i - 1], first + i - 1, frame + i - 1)]
  BY <1>2 DEF Mapping
<1>4. ASSUME NEW i \in 0 .. count
      PROVE  g[i] = IF i = 0 THEN st ELSE Mapped(g[i - 1], first + i - 1, frame + i - 1)
  BY <1>3, Zenon
<1>5. 0 \in 0 .. count /\ \A i \in 1 .. count : i \in 0 .. count /\ i # 0
  OBVIOUS
<1> QED
  BY <1>4, <1>5

\* Entries with n pages from first mapped to the frames from frame on.
Filled(pt, first, frame, n) ==
  [p \in DOMAIN pt \cup RangeFrom(first, n) |->
     IF p \in RangeFrom(first, n) THEN frame + p - first ELSE pt[p]]

\* The mappings of i pages are those of the pages before the last one, and its own.
LEMMA FilledFurther ==
  ASSUME NEW pt, NEW first \in Nat, NEW frame \in Nat, NEW i \in Nat \ {0},
         NEW b, b = Filled(pt, first, frame, i - 1),
         NEW last, last = first + i - 1, NEW f, f = frame + i - 1
  PROVE  Filled(pt, first, frame, i) = With(b, last, f)
<1> DEFINE a == Filled(pt, first, frame, i)
           c == With(b, last, f)
<1>1. /\ DOMAIN a = DOMAIN pt \cup RangeFrom(first, i)
      /\ DOMAIN b = DOMAIN pt \cup RangeFrom(first, i - 1)
      /\ DOMAIN c = DOMAIN b \cup {last}
  BY DEF Filled, With
<1>2. /\ \A p : p \in RangeFrom(first, i) <=> p \in RangeFrom(first, i - 1) \/ p = last
      /\ last \notin RangeFrom(first, i - 1)
      /\ frame + last - first = f
  BY DEF RangeFrom
<1>3. DOMAIN a = DOMAIN c
  BY <1>1, <1>2
<1>4. ASSUME NEW p \in DOMAIN a
      PROVE  a[p] = c[p]
  <2>1. a[p] = IF p \in RangeFrom(first, i) THEN frame + p - first ELSE pt[p]
    BY DEF Filled
  <2>2. p # last =>
          c[p] = IF p \in RangeFrom(first, i - 1) THEN frame + p - first ELSE pt[p]
    BY <1>1, <1>3 DEF Filled, With
  <2>3. p = last => c[p] = f
    BY DEF With
  <2> QED BY <1>2, <2>1, <2>2, <2>3
<1>5. a = [p \in DOMAIN a |-> a[p]] /\ c = [p \in DOMAIN c |-> c[p]]
  BY DEF Filled, With
<1> QED
  BY <1>3, <1>4, <1>5

\* A state of the memory between two calls, but for frames that are reserved.
Settled(st, reserved) ==
  Exclusive(st, reserved) /\ DOMAIN st.tables = Needed(DOMAIN st.ptes)

\* mapPages maps each page of a range to its frame, or runs out of memory.
LEMMA PagesMapped ==
  ASSUME NEW st \in Memories, NEW first \in Nat, NEW frame \in Nat, NEW count \in Nat,
         RangeFrom(first, count) \subseteq Pages,
         RangeFrom(first, count) \cap DOMAIN st.ptes = {},
         RangeFrom(frame, count) \subseteq Frames \cup DeviceFrames,
         NEW reserved, reserved = RangeFrom(frame, count) \cap Frames,
         Settled(st, reserved),
         NEW new, new = MapPages(st, first, frame, count)
  PROVE  /\ new \in Memories
         /\ ~ new.outOfMemory => /\ Settled(new, {})
                                 /\ new.ptes = Filled(st.ptes, first, frame, count)
<1> DEFINE g == Mapping(st, first, frame, count)
           Reserved(i) == {f \in reserved : frame + i <= f}
           Right(i) == /\ g[i] \in Memories
                       /\ ~ g[i].outOfMemory =>
                            /\ Settled(g[i], Reserved(i))
                            /\ g[i].ptes = Filled(st.ptes, first, frame, i)
           Bad == {i \in 0 .. count : ~ Right(i)}
<1>1. /\ g[0] = st
      /\ \A i \in 1 .. count : g[i] = Mapped(g[i - 1], first + i - 1, frame + i - 1)
  BY MappingDefined
<1>2. new = g[count]
  BY DEF MapPages
<1> HIDE DEF g
<1>3. Right(0)
  <2>1. Reserved(0) = reserved
    BY DEF RangeFrom
  <2>2. RangeFrom(first, 0) = {}
    BY DEF RangeFrom
  <2>3. DOMAIN st.ptes \cup RangeFrom(first, 0) = DOMAIN st.ptes
    BY <2>2
  <2>4. st.ptes = [p \in DOMAIN st.ptes |-> st.ptes[p]]
    BY Fields, PartialParts
  <2>5. st.ptes = Filled(st.ptes, first, frame, 0)
    BY <2>2, <2>3, <2>4 DEF Filled
  <2> HIDE DEF Reserved
  <2> QED BY <1>1, <2>1, <2>5
<1>4. ASSUME NEW i \in 1 .. count, Right(i - 1)
      PROVE  Right(i)
  <2> DEFINE s == g[i - 1]
             p == first + i - 1
             f == frame + i - 1
  <2>1. i \in Nat \ {0} /\ p \in Nat /\ f \in Nat /\ p \in RangeFrom(first, count)
        /\ f \in RangeFrom(frame, count) /\ p \notin RangeFrom(first, i - 1)
    BY DEF RangeFrom
  <2>2. g[i] = Mapped(s, p, f)
    BY <1>1
  <2>3. /\ s \in Memories
        /\ ~ s.outOfMemory => /\ Settled(s, Reserved(i - 1))
                              /\ s.ptes = Filled(st.ptes, first, frame, i - 1)
    BY <1>4
  <2>4. f \in Frames => f \in Reserved(i - 1)
    BY <2>1
  <2>5. Reserved(i) = Reserved(i - 1) \ {f}
    <3>1. \A e \in reserved : e \in Nat
      BY PageTablesAssumption
    <3> QED BY <3>1
  <2>6. p = first + i - 1 /\ f = frame + i - 1
    OBVIOUS
  <2>7. p \in Pages /\ p \notin DOMAIN st.ptes /\ f \in Frames \cup DeviceFrames
    BY <2>1
  <2> DEFINE rest == Reserved(i - 1)
             next == g[i]
             filled == Filled(st.ptes, first, frame, i - 1)
  <2>8. /\ f \in Frames => f \in rest
        /\ next = Mapped(s, p, f) /\ s \in Memories
        /\ ~ s.outOfMemory => Settled(s, rest) /\ s.ptes = filled
    BY <2>2, <2>3, <2>4
  <2> HIDE DEF s, p, f, Reserved, rest, next
  <2>9. /\ Filled(st.ptes, first, frame, i) = With(filled, p, f)
        /\ DOMAIN filled = DOMAIN st.ptes \cup RangeFrom(first, i - 1)
    <3> HIDE DEF filled
    <3>1. filled = Filled(st.ptes, first, frame, i - 1)
      BY DEF filled
    <3>2. Filled(st.ptes, first, frame, i) = With(filled, p, f)
      BY <2>1, <2>6, <3>1, FilledFurther
    <3>3. DOMAIN filled = DOMAIN st.ptes \cup RangeFrom(first, i - 1)
      BY <3>1 DEF Filled
    <3> QED BY <3>2, <3>3
  <2> HIDE DEF filled
  <2>10. Mappable(s, p, f, rest)
    BY <2>1, <2>7, <2>8, <2>9 DEF Settled, Mappable
  <2>11. IsMapped(next, s, p, f, rest)
    BY <2>8, <2>10, PageMapped
  <2>12. ~ next.outOfMemory => /\ Settled(next, Reserved(i))
                               /\ next.ptes = Filled(st.ptes, first, frame, i)
    BY <2>5, <2>8, <2>9, <2>11 DEF Settled, IsMapped, rest
  <2> QED BY <2>11, <2>12 DEF IsMapped, next
<1> HIDE DEF Right
<1>5. Bad = {}
  <2> SUFFICES ASSUME Bad # {}
               PROVE  FALSE
    OBVIOUS
  <2>1. PICK i \in Bad : \A j \in Bad : i <= j
    <3>1. Bad \in SUBSET Nat
      OBVIOUS
    <3> HIDE DEF Bad
    <3> QED BY <3>1, LeastNatural
  <2>2. i \in 1 .. count /\ i - 1 \in 0 .. count /\ ~ (i <= i - 1)
    BY <1>3
  <2>3. Right(i - 1)
    BY <2>1, <2>2
  <2> QED BY <1>4, <2>2, <2>3
<1>6. Right(count)
  BY <1>5
<1>7. Reserved(count) = {}
  <2>1. \A f \in reserved : f \in Nat /\ f <= frame + count - 1
    BY PageTablesAssumption DEF RangeFrom
  <2> QED BY <2>1
<1> HIDE DEF Reserved
<1> QED
  BY <1>2, <1>6, <1>7 DEF Right

-----------------------------------------------------------------------------
(* unmapPages *)

\* Page p is not mapped any more, and its tables below level j, if nothing
\* else needs them, are gone.
Cleared(st, p, j) ==
  /\ st \in Memories /\ p \in Pages /\ p \notin DOMAIN st.ptes
  /\ Exclusive(st, {})
  /\ DOMAIN st.tables = Needed(DOMAIN st.ptes) \cup {Table(p, k) : k \in j .. 3}

\* Two tables are the same if they are of one level and for the same pages.
LEMMA TableParts ==
  ASSUME NEW p, NEW j
  PROVE  /\ Table(p, j)[1] = j /\ Table(p, j)[2] = p \div span[j]
         /\ \A q, k : Table(p, j) = Table(q, k) <=> j = k /\ p \div span[j] = q \div span[k]
BY DEF Table

\* A table is empty when no page that is left is translated by it, provided
\* that those below it have been looked at before.
LEMMA EmptyIffNotNeeded ==
  ASSUME NEW st, NEW p, NEW j \in Levels, Cleared(st, p, j)
  PROVE  PresentEntries(Table(p, j), st) = {} <=> Table(p, j) \notin Needed(DOMAIN st.ptes)
<1> DEFINE P == DOMAIN st.ptes
<1>1. /\ P \subseteq Nat /\ p \in Nat
      /\ DOMAIN st.tables = Needed(P) \cup {Table(p, k) : k \in j .. 3}
      /\ j \in {1, 2, 3}
  <2>1. st \in Memories /\ p \in Pages
        /\ DOMAIN st.tables = Needed(P) \cup {Table(p, k) : k \in j .. 3}
    BY DEF Cleared
  <2>2. P \subseteq Pages
    BY <2>1, Fields
  <2>3. j \in {1, 2, 3}
    BY DEF Levels
  <2> QED BY <2>1, <2>2, <2>3, PageTablesAssumption
<1>2. \A t : t \in Needed(P) <=> \E q \in P, k \in {1, 2, 3} : t = Table(q, k)
  BY DEF Needed, Levels
<1>3. Table(p, j)[1] = j /\ Table(p, j)[2] = p \div span[j]
  BY TableParts
<1>4. CASE j = 1
  <2>1. PresentEntries(Table(p, 1), st) = {q \in P : Table(q, 1) = Table(p, 1)}
    BY <1>3, <1>4 DEF PresentEntries
  <2>2. Table(p, 1) \in Needed(P) <=> \E q \in P : Table(q, 1) = Table(p, 1)
    <3>1. \A q \in P, k \in {1, 2, 3} : Table(p, 1) = Table(q, k) => k = 1
      BY TableParts
    <3> HIDE DEF P
    <3> QED BY <1>2, <3>1
  <2> HIDE DEF P
  <2> QED BY <1>4, <2>1, <2>2 DEF P
<1>5. CASE j # 1
  <2> DEFINE i == j - 1
             entries == {t \in DOMAIN st.tables :
                           t[1] = i /\ t[2] \div TableEntries = p \div span[j]}
  <2>1. PresentEntries(Table(p, j), st) = entries
    BY <1>3, <1>5 DEF PresentEntries
  <2>2. i \in {1, 2} /\ j = i + 1 /\ i \in {1, 2, 3}
    BY <1>1, <1>5
  <2> HIDE DEF P, i
  <2>3. ASSUME NEW q \in P
        PROVE  Table(q, i)[1] = i /\ Table(q, i)[2] \div TableEntries = q \div span[j]
    <3>1. Table(q, i)[1] = i /\ Table(q, i)[2] = q \div span[i]
      BY TableParts
    <3>2. (q \div span[i]) \div TableEntries = q \div span[i + 1]
      BY <1>1, <2>2, TableAbove
    <3> QED BY <2>2, <3>1, <3>2
  <2>4. ASSUME Table(p, j) \in Needed(P)
        PROVE  entries # {}
    <3>1. PICK q \in P, k \in {1, 2, 3} : Table(p, j) = Table(q, k)
      BY <1>2, <2>4
    <3>2. p \div span[j] = q \div span[j]
      BY <3>1, TableParts
    <3>3. Table(q, i) \in DOMAIN st.tables
      BY <1>1, <1>2, <2>2
    <3>4. Table(q, i) \in entries
      BY <2>3, <3>2, <3>3
    <3> QED BY <3>4
  <2>5. ASSUME NEW t \in entries
        PROVE  Table(p, j) \in Needed(P)
    <3>1. t \in DOMAIN st.tables /\ t[1] = i /\ t[2] \div TableEntries = p \div span[j]
      OBVIOUS
    <3>2. \A k \in j .. 3 : t # Table(p, k)
      <4>1. \A k \in j .. 3 : Table(p, k)[1] = k /\ k # i
        BY <2>2, TableParts
      <4> QED BY <3>1, <4>1
    <3>3. t \in Needed(P)
      BY <1>1, <3>1, <3>2
    <3>4. PICK q \in P, k \in {1, 2, 3} : t = Table(q, k)
      BY <1>2, <3>3
    <3>5. k = i
      BY <3>1, <3>4, TableParts
    <3>6. p \div span[j] = q \div span[j]
      BY <2>3, <3>1, <3>4, <3>5
    <3>7. Table(p, j) = Table(q, j)
      BY <3>6, TableParts
    <3> QED BY <1>1, <1>2, <3>7
  <2> HIDE DEF entries
  <2> QED BY <2>1, <2>4, <2>5 DEF P
<1> QED
  BY <1>4, <1>5

\* Making sure that a table which has become empty is gone.
LEMMA TableDropped ==
  ASSUME NEW st, NEW p, NEW j \in Levels, Cleared(st, p, j),
         NEW new, new = WithoutTable(st, Table(p, j))
  PROVE  /\ Cleared(new, p, j + 1)
         /\ new.ptes = st.ptes /\ new.outOfMemory = st.outOfMemory
<1> DEFINE table == Table(p, j)
           P == DOMAIN st.ptes
           Above(i) == {Table(p, k) : k \in i .. 3}
<1>1. /\ st \in Memories /\ p \in Pages /\ p \notin P
      /\ OneUse(st.free, st.tables, st.ptes, {})
      /\ DOMAIN st.tables = Needed(P) \cup Above(j)
  BY DEF Cleared, Exclusive
<1>2. j \in 1 .. 3
  BY DEF Levels
<1>3. Above(j) = {table} \cup Above(j + 1)
  <2>1. \A k : k \in j .. 3 <=> k = j \/ k \in j + 1 .. 3
    BY <1>2
  <2> QED BY <2>1
<1>4. table \notin Above(j + 1)
  <2>1. \A k \in j + 1 .. 3 : k # j
    BY <1>2
  <2> QED BY <2>1, TableParts
<1>5. table \in DOMAIN st.tables
  BY <1>1, <1>3
<1>6. PresentEntries(table, st) = {} <=> table \notin Needed(P)
  BY EmptyIffNotNeeded
<1>7. new = IF PresentEntries(table, st) = {}
            THEN [st EXCEPT !.free = @ \cup {st.tables[table]}, !.tables = Without(@, table)]
            ELSE st
  BY <1>5 DEF WithoutTable
<1> HIDE DEF table, Above, P
<1>8. CASE table \in Needed(P)
  <2>1. new = st
    BY <1>6, <1>7, <1>8
  <2>2. DOMAIN st.tables = Needed(P) \cup Above(j + 1)
    BY <1>1, <1>3, <1>8
  <2> QED BY <1>1, <2>1, <2>2 DEF Cleared, Exclusive, Above, P
<1>9. CASE table \notin Needed(P)
  <2> DEFINE fr == st.free \cup {st.tables[table]}
             tb == Without(st.tables, table)
             mid == [st EXCEPT !.free = fr]
  <2>1. new = [mid EXCEPT !.tables = Without(mid.tables, table)]
    BY <1>6, <1>7, <1>9
  <2>2. fr \in SUBSET Frames
    BY <1>1, <1>5, Fields
  <2>3. tb \in Partial(AnyTable, Frames)
    BY <1>1, Fields, WithoutKeepsType
  <2>4. /\ mid \in Memories /\ mid.free = fr /\ mid.tables = st.tables
        /\ mid.ptes = st.ptes /\ mid.outOfMemory = st.outOfMemory
    BY <1>1, <2>2, SetFree
  <2>5. OneUse(fr, tb, st.ptes, {})
    BY <1>1, <1>5, TableRemoved
  <2>6. DOMAIN tb = DOMAIN st.tables \ {table}
    BY DEF Without, Restrict
  <2> HIDE DEF fr, mid
  <2>7. new = [mid EXCEPT !.tables = tb]
    BY <2>1, <2>4
  <2> HIDE DEF tb
  <2>8. /\ new \in Memories /\ new.free = fr /\ new.tables = tb
        /\ new.ptes = st.ptes /\ new.outOfMemory = st.outOfMemory
    BY <2>3, <2>4, <2>7, SetTables
  <2>9. DOMAIN new.tables = Needed(P) \cup Above(j + 1)
    BY <1>1, <1>3, <1>4, <1>9, <2>6, <2>8
  <2> QED BY <1>1, <2>5, <2>8, <2>9 DEF Cleared, Exclusive, Above, P
<1> QED
  BY <1>8, <1>9

\* All that a page was translated by, from the bottom.
LEMMA TablesDropped ==
  ASSUME NEW st, NEW p, Cleared(st, p, 1), NEW new, new = WithoutTables(st, p)
  PROVE  /\ new \in Memories /\ Settled(new, {})
         /\ new.ptes = st.ptes /\ new.outOfMemory = st.outOfMemory
<1> DEFINE a == WithoutTable(st, Table(p, 1))
           b == WithoutTable(a, Table(p, 2))
<1>1. 1 \in Levels /\ 2 \in Levels /\ 3 \in Levels /\ 1 + 1 = 2 /\ 2 + 1 = 3 /\ 3 + 1 = 4
  BY DEF Levels
<1>2. Cleared(a, p, 2) /\ a.ptes = st.ptes /\ a.outOfMemory = st.outOfMemory
  BY <1>1, TableDropped
<1> HIDE DEF a
<1>3. Cleared(b, p, 3) /\ b.ptes = a.ptes /\ b.outOfMemory = a.outOfMemory
  BY <1>1, <1>2, TableDropped
<1>4. new = WithoutTable(b, Table(p, 3))
  BY DEF WithoutTables, a
<1> HIDE DEF b
<1>5. Cleared(new, p, 4) /\ new.ptes = b.ptes /\ new.outOfMemory = b.outOfMemory
  BY <1>1, <1>3, <1>4, TableDropped
<1>6. {Table(p, k) : k \in 4 .. 3} = {}
  OBVIOUS
<1> QED
  BY <1>2, <1>3, <1>5, <1>6 DEF Cleared, Settled

\* Page p of a state between two calls can be unmapped, and its frame freed if
\* it has one of its own.
Unmappable(st, p, freePhysicalPage) ==
  /\ st \in Memories /\ ~ st.outOfMemory /\ Settled(st, {})
  /\ p \in DOMAIN st.ptes
  /\ freePhysicalPage \in BOOLEAN
  /\ freePhysicalPage <=> st.ptes[p] \in Frames

IsUnmapped(new, st, p) ==
  /\ new \in Memories /\ ~ new.outOfMemory /\ Settled(new, {})
  /\ new.ptes = Without(st.ptes, p)

\* One page is unmapped, and the tables that only it needed are given back.
LEMMA PageUnmapped ==
  ASSUME NEW st, NEW p, NEW freePhysicalPage, Unmappable(st, p, freePhysicalPage)
  PROVE  IsUnmapped(Unmapped(st, p, freePhysicalPage), st, p)
<1> DEFINE new == Unmapped(st, p, freePhysicalPage)
           fr == IF st.ptes[p] \in Frames THEN st.free \cup {st.ptes[p]} ELSE st.free
           pt == Without(st.ptes, p)
           mid == [st EXCEPT !.ptes = pt]
           cleared == [mid EXCEPT !.free = fr]
<1>1. /\ st \in Memories /\ ~ st.outOfMemory /\ p \in DOMAIN st.ptes
      /\ OneUse(st.free, st.tables, st.ptes, {})
      /\ DOMAIN st.tables = Needed(DOMAIN st.ptes)
      /\ freePhysicalPage \in BOOLEAN
      /\ freePhysicalPage <=> st.ptes[p] \in Frames
  BY DEF Unmappable, Settled, Exclusive
<1>2. pt \in Partial(Pages, Frames \cup DeviceFrames)
  BY <1>1, Fields, WithoutKeepsType
<1>3. /\ mid \in Memories /\ mid.free = st.free /\ mid.tables = st.tables
      /\ mid.ptes = pt /\ mid.outOfMemory = st.outOfMemory
  BY <1>1, <1>2, SetPtes
<1>4. new = WithoutTables(cleared, p)
  <2>1. new = WithoutTables([st EXCEPT !.ptes = Without(@, p),
                                       !.free = IF freePhysicalPage THEN @ \cup {st.ptes[p]}
                                                ELSE @], p)
    BY <1>1 DEF Unmapped
  <2>2. [st EXCEPT !.ptes = Without(@, p),
                   !.free = IF freePhysicalPage THEN @ \cup {st.ptes[p]} ELSE @]
          = [mid EXCEPT !.free = IF freePhysicalPage THEN mid.free \cup {st.ptes[p]}
                                 ELSE mid.free]
    OBVIOUS
  <2>3. (IF freePhysicalPage THEN mid.free \cup {st.ptes[p]} ELSE mid.free) = fr
    BY <1>1, <1>3
  <2> HIDE DEF mid, fr, new
  <2> QED BY <2>1, <2>2, <2>3
<1>5. fr \in SUBSET Frames
  BY <1>1, Fields
<1>6. OneUse(fr, st.tables, pt, {})
  <2>1. \A t \in DOMAIN st.tables : st.tables[t] \in Frames
    BY <1>1, Fields
  <2> QED BY <1>1, <2>1, PageRemoved
<1>7. DOMAIN pt = DOMAIN st.ptes \ {p}
  BY DEF Without, Restrict
<1> HIDE DEF new, mid, fr, pt
<1>8. /\ cleared \in Memories /\ cleared.free = fr /\ cleared.tables = st.tables
      /\ cleared.ptes = pt /\ cleared.outOfMemory = st.outOfMemory
  BY <1>3, <1>5, SetFree
<1> HIDE DEF cleared
<1>9. Cleared(cleared, p, 1)
  <2>1. Needed(DOMAIN st.ptes) = Needed(DOMAIN pt) \cup {Table(p, k) : k \in 1 .. 3}
    BY <1>1, <1>7 DEF Needed, Levels
  <2>2. p \in Pages
    BY <1>1, Fields
  <2> QED BY <1>1, <1>6, <1>7, <1>8, <2>1, <2>2 DEF Cleared, Exclusive
<1>10. /\ new \in Memories /\ Settled(new, {})
       /\ new.ptes = cleared.ptes /\ new.outOfMemory = cleared.outOfMemory
  BY <1>4, <1>9, TablesDropped
<1>11. IsUnmapped(new, st, p)
  BY <1>1, <1>8, <1>10 DEF IsUnmapped, pt
<1> QED BY <1>11 DEF new

\* Unmapping is the function that its recursive definition describes.
LEMMA UnmappingDefined ==
  ASSUME NEW st, NEW first, NEW freePhysicalPage, NEW count \in Nat,
         NEW g, g = Unmapping(st, first, count, freePhysicalPage)
  PROVE  /\ g[0] = st
         /\ \A i \in 1 .. count : g[i] = Unmapped(g[i - 1], first + i - 1, freePhysicalPage)
<1> DEFINE Upto(h, n) ==
             h = [i \in 0 .. n |-> IF i = 0 THEN st
                                   ELSE Unmapped(h[i - 1], first + i - 1, freePhysicalPage)]
           Missing == {n \in Nat : ~ \E h : Upto(h, n)}
<1>1. Missing = {}
  <2> SUFFICES ASSUME Missing # {}
               PROVE  FALSE
    OBVIOUS
  <2>1. PICK n \in Missing : \A m \in Missing : n <= m
    <3>1. Missing \in SUBSET Nat
      OBVIOUS
    <3> HIDE DEF Missing
    <3> QED BY <3>1, LeastNatural
  <2>2. n \in Nat
    OBVIOUS
  <2>3. CASE n = 0
    <3>1. Upto([i \in 0 .. 0 |-> st], 0)
      OBVIOUS
    <3> QED BY <3>1, <2>3
  <2>4. CASE n > 0
    <3>1. n - 1 \in Nat /\ ~ (n <= n - 1)
      BY <2>2, <2>4
    <3>2. \E h : Upto(h, n - 1)
      BY <3>1, <2>1 DEF Missing
    <3>3. PICK h : Upto(h, n - 1)
      BY <3>2
    <3> DEFINE k == [i \in 0 .. n |-> IF i = 0 THEN st
                                      ELSE Unmapped(h[i - 1], first + i - 1, freePhysicalPage)]
    <3>4. \A i \in 0 .. n : i # 0 => k[i - 1] = h[i - 1]
      <4> SUFFICES ASSUME NEW i \in 0 .. n, i # 0
                   PROVE  k[i - 1] = h[i - 1]
        OBVIOUS
      <4>1. i - 1 \in 0 .. n /\ i - 1 \in 0 .. n - 1
        BY <2>2
      <4> QED BY <4>1, <3>3
    <3>5. Upto(k, n)
      <4>1. \A i \in 0 .. n :
              (IF i = 0 THEN st ELSE Unmapped(h[i - 1], first + i - 1, freePhysicalPage))
                = (IF i = 0 THEN st ELSE Unmapped(k[i - 1], first + i - 1, freePhysicalPage))
        <5> HIDE DEF k
        <5> QED BY <3>4
      <4> QED BY <4>1
    <3> HIDE DEF k
    <3> QED BY <3>5, <2>2
  <2> QED BY <2>2, <2>3, <2>4
<1>2. \E h : Upto(h, count)
  BY <1>1
<1>3. g = [i \in 0 .. count |-> IF i = 0 THEN st
                                ELSE Unmapped(g[i - 1], first + i - 1, freePhysicalPage)]
  BY <1>2 DEF Unmapping
<1>4. ASSUME NEW i \in 0 .. count
      PROVE  g[i] = IF i = 0 THEN st ELSE Unmapped(g[i - 1], first + i - 1, freePhysicalPage)
  BY <1>3, Zenon
<1>5. 0 \in 0 .. count /\ \A i \in 1 .. count : i \in 0 .. count /\ i # 0
  OBVIOUS
<1> QED
  BY <1>4, <1>5

\* unmapPages unmaps each page of a range.
LEMMA PagesUnmapped ==
  ASSUME NEW st \in Memories, ~ st.outOfMemory, Settled(st, {}),
         NEW first \in Nat, NEW count \in Nat,
         RangeFrom(first, count) \subseteq DOMAIN st.ptes,
         NEW freePhysicalPage \in BOOLEAN,
         \A p \in RangeFrom(first, count) : st.ptes[p] \in Frames <=> freePhysicalPage,
         NEW new, new = UnmapPages(st, first, count, freePhysicalPage)
  PROVE  /\ new \in Memories /\ ~ new.outOfMemory /\ Settled(new, {})
         /\ new.ptes = Restrict(st.ptes, DOMAIN st.ptes \ RangeFrom(first, count))
<1> DEFINE g == Unmapping(st, first, count, freePhysicalPage)
           Left(i) == DOMAIN st.ptes \ RangeFrom(first, i)
           Right(i) == /\ g[i] \in Memories /\ ~ g[i].outOfMemory /\ Settled(g[i], {})
                       /\ g[i].ptes = Restrict(st.ptes, Left(i))
           Bad == {i \in 0 .. count : ~ Right(i)}
<1>1. /\ g[0] = st
      /\ \A i \in 1 .. count : g[i] = Unmapped(g[i - 1], first + i - 1, freePhysicalPage)
  BY UnmappingDefined
<1>2. new = g[count]
  BY DEF UnmapPages
<1> HIDE DEF g
<1>3. Right(0)
  <2>1. Left(0) = DOMAIN st.ptes
    BY DEF RangeFrom
  <2>2. st.ptes = [p \in DOMAIN st.ptes |-> st.ptes[p]]
    BY Fields, PartialParts
  <2>3. st.ptes = Restrict(st.ptes, Left(0))
    BY <2>1, <2>2 DEF Restrict
  <2> QED BY <1>1, <2>3
<1>4. ASSUME NEW i \in 1 .. count, Right(i - 1)
      PROVE  Right(i)
  <2> DEFINE s == g[i - 1]
             p == first + i - 1
             next == g[i]
  <2>1. /\ i \in Nat \ {0} /\ p \in RangeFrom(first, count) /\ p \notin RangeFrom(first, i - 1)
        /\ \A q : q \in RangeFrom(first, i) <=> q \in RangeFrom(first, i - 1) \/ q = p
    BY DEF RangeFrom
  <2>2. next = Unmapped(s, p, freePhysicalPage)
    BY <1>1
  <2>3. /\ s \in Memories /\ ~ s.outOfMemory /\ Settled(s, {})
        /\ s.ptes = Restrict(st.ptes, Left(i - 1))
    BY <1>4
  <2> HIDE DEF s, p, next
  <2>4. DOMAIN s.ptes = Left(i - 1) /\ p \in DOMAIN s.ptes /\ s.ptes[p] = st.ptes[p]
    BY <2>1, <2>3 DEF Restrict
  <2>5. Unmappable(s, p, freePhysicalPage)
    BY <2>1, <2>3, <2>4 DEF Unmappable
  <2>6. IsUnmapped(next, s, p)
    BY <2>2, <2>5, PageUnmapped
  <2>7. DOMAIN s.ptes \ {p} = Left(i)
    BY <2>1, <2>4
  <2>8. next.ptes = Restrict(s.ptes, Left(i))
    BY <2>6, <2>7 DEF IsUnmapped, Without
  <2>9. \A q \in Left(i) : s.ptes[q] = st.ptes[q]
    BY <2>1, <2>3, <2>7 DEF Restrict
  <2>10. next.ptes = Restrict(st.ptes, Left(i))
    BY <2>8, <2>9 DEF Restrict
  <2> QED BY <2>6, <2>10 DEF IsUnmapped, next
<1> HIDE DEF Right
<1>5. Bad = {}
  <2> SUFFICES ASSUME Bad # {}
               PROVE  FALSE
    OBVIOUS
  <2>1. PICK i \in Bad : \A j \in Bad : i <= j
    <3>1. Bad \in SUBSET Nat
      OBVIOUS
    <3> HIDE DEF Bad
    <3> QED BY <3>1, LeastNatural
  <2>2. i \in 1 .. count /\ i - 1 \in 0 .. count /\ ~ (i <= i - 1)
    BY <1>3
  <2>3. Right(i - 1)
    BY <2>1, <2>2
  <2> QED BY <1>4, <2>2, <2>3
<1>6. Right(count)
  BY <1>5
<1> QED
  BY <1>2, <1>6 DEF Right

-----------------------------------------------------------------------------
(* The invariant *)

\* Until memory runs out: frames have one use each, the tables are those that
\* the mapped pages need, and the mapped pages are those that clients hold.
IInv ==
  /\ Current \in Memories
  /\ ~ outOfMemory => Settled(Current, {}) /\ ptes = held

\* The invariant holds at first.
LEMMA InitHolds == Init => IInv
<1> SUFFICES ASSUME Init
             PROVE  IInv
  OBVIOUS
<1>1. free = Frames /\ tables = Empty /\ ptes = Empty /\ outOfMemory = FALSE /\ held = Empty
  BY DEF Init
<1>2. DOMAIN Empty = {} /\ \A R : Empty \in [{} -> R]
  BY DEF Empty
<1>3. Empty \in Partial(AnyTable, Frames) /\ Empty \in Partial(Pages, Frames \cup DeviceFrames)
  BY <1>2 DEF Partial
<1>4. Current \in Memories
  BY <1>1, <1>3 DEF Current, Memories
<1>5. OneUse(free, tables, ptes, {})
  BY <1>1, <1>2 DEF OneUse
<1>6. DOMAIN tables = Needed(DOMAIN ptes)
  BY <1>1, <1>2 DEF Needed
<1> QED
  BY <1>1, <1>4, <1>5, <1>6 DEF IInv, Settled, Exclusive, Current

\* What holds of the record holds of the variables that it is made of.
LEMMA BecomeRecord ==
  ASSUME NEW st \in Memories, Become(st), ~ st.outOfMemory => Settled(st, {}) /\ st.ptes = held'
  PROVE  IInv'
<1>1. /\ free' = st.free /\ tables' = st.tables /\ ptes' = st.ptes
      /\ outOfMemory' = st.outOfMemory
  BY DEF Become
<1>2. Current' = st
  BY <1>1 DEF Current, Memories
<1> QED
  BY <1>1, <1>2 DEF IInv

\* The memory that the variables make up.
LEMMA CurrentParts ==
  /\ Current.free = free /\ Current.tables = tables /\ Current.ptes = ptes
  /\ Current.outOfMemory = outOfMemory
BY DEF Current

\* Clients hold the range as the entries have it.
LEMMA HeldIsFilled ==
  ASSUME NEW first, NEW frame, NEW count, Hold(first, frame, count), ptes = held
  PROVE  held' = Filled(ptes, first, frame, count)
BY DEF Hold, Filled

\* A request of pages with memory behind them keeps the invariant.
LEMMA RequestBackedHolds ==
  ASSUME IInv, NEW first \in Pages, NEW count \in 1 .. MaxCount, RequestBacked(first, count)
  PROVE  IInv'
<1>1. /\ ~ outOfMemory /\ Current \in Memories /\ Settled(Current, {}) /\ ptes = held
      /\ count \in Nat /\ first \in Nat
  BY PageTablesAssumption DEF IInv, RequestBacked
<1>2. ASSUME Runs(count) = {}
      PROVE  IInv'
  <2>1. outOfMemory' = TRUE /\ UNCHANGED <<free, tables, ptes>>
    BY <1>2 DEF RequestBacked
  <2>2. Current' \in Memories
    BY <1>1, <2>1 DEF Current, Memories
  <2> QED BY <2>1, <2>2 DEF IInv
<1>3. ASSUME Runs(count) # {}
      PROVE  IInv'
  <2> DEFINE frame == Lowest(Runs(count))
             range == RangeFrom(frame, count)
             fr == free \ range
             st == [Current EXCEPT !.free = fr]
             new == MapPages(st, first, frame, count)
  <2>1. Become(new) /\ Hold(first, frame, count)
    <3>1. Become(MapPages([Current EXCEPT !.free = @ \ range], first, frame, count))
          /\ Hold(first, frame, count)
      BY <1>3 DEF RequestBacked
    <3>2. [Current EXCEPT !.free = @ \ range] = st
      BY CurrentParts
    <3> HIDE DEF frame, range, st
    <3> QED BY <3>1, <3>2
  <2>2. RangeFrom(first, count) \subseteq Pages /\ RangeFrom(first, count) \cap DOMAIN ptes = {}
    BY <1>1 DEF RequestBacked, Granted
  <2>3. free \subseteq Frames /\ free \subseteq Nat
    BY <1>1, Fields, CurrentParts
  <2>4. frame \in Runs(count)
    <3>1. Runs(count) \in SUBSET Nat
      BY <2>3 DEF Runs
    <3> QED BY <1>3, <3>1, LowestIsLeast
  <2>5. frame \in Nat /\ range \subseteq free
    BY <2>3, <2>4 DEF Runs
  <2> HIDE DEF frame
  <2>6. fr \in SUBSET Frames
    BY <2>3
  <2>7. /\ st \in Memories /\ st.free = fr /\ st.tables = tables
        /\ st.ptes = ptes /\ st.outOfMemory = outOfMemory
    BY <1>1, <2>6, SetFree, CurrentParts
  <2>8. OneUse(free, tables, ptes, {}) /\ DOMAIN tables = Needed(DOMAIN ptes)
    BY <1>1, CurrentParts DEF Settled, Exclusive
  <2> HIDE DEF range
  <2>9. OneUse(fr, tables, ptes, range)
    BY <2>5, <2>8 DEF OneUse
  <2> HIDE DEF st, fr
  <2>10. Settled(st, range)
    BY <2>7, <2>8, <2>9 DEF Settled, Exclusive
  <2>11. range = RangeFrom(frame, count) \cap Frames /\ RangeFrom(frame, count) \subseteq Frames \cup DeviceFrames
    BY <2>3, <2>5 DEF range
  <2>12. RangeFrom(first, count) \cap DOMAIN st.ptes = {}
    BY <2>2, <2>7
  <2> HIDE DEF new
  <2>13. /\ new \in Memories
         /\ ~ new.outOfMemory => /\ Settled(new, {})
                                 /\ new.ptes = Filled(st.ptes, first, frame, count)
    BY <1>1, <2>2, <2>5, <2>7, <2>10, <2>11, <2>12, PagesMapped DEF new
  <2>14. held' = Filled(ptes, first, frame, count)
    BY <1>1, <2>1, HeldIsFilled
  <2> QED BY <2>1, <2>7, <2>13, <2>14, BecomeRecord
<1> QED
  BY <1>2, <1>3

\* Mapping a device's frames keeps the invariant.
LEMMA MapDeviceHolds ==
  ASSUME IInv, NEW first \in Pages, NEW count \in 1 .. MaxCount, NEW frame \in DeviceFrames,
         MapDevice(first, frame, count)
  PROVE  IInv'
<1> DEFINE new == MapPages(Current, first, frame, count)
<1>1. /\ ~ outOfMemory /\ Current \in Memories /\ Settled(Current, {}) /\ ptes = held
      /\ count \in Nat /\ first \in Nat /\ frame \in Nat
  BY PageTablesAssumption DEF IInv, MapDevice
<1>2. /\ RangeFrom(first, count) \subseteq Pages /\ RangeFrom(first, count) \cap DOMAIN ptes = {}
      /\ RangeFrom(frame, count) \subseteq DeviceFrames
      /\ Become(new) /\ Hold(first, frame, count)
  BY <1>1 DEF MapDevice, Granted
<1>3. RangeFrom(frame, count) \cap Frames = {}
  BY <1>2, PageTablesAssumption
<1> HIDE DEF new
<1>4. /\ new \in Memories
      /\ ~ new.outOfMemory => /\ Settled(new, {})
                              /\ new.ptes = Filled(Current.ptes, first, frame, count)
  BY <1>1, <1>2, <1>3, CurrentParts, PagesMapped DEF new
<1>5. held' = Filled(ptes, first, frame, count)
  BY <1>1, <1>2, HeldIsFilled
<1> QED
  BY <1>2, <1>4, <1>5, CurrentParts, BecomeRecord

\* Unmapping what a client holds keeps the invariant.
LEMMA FreeHolds ==
  ASSUME IInv, NEW first \in Pages, NEW count \in 1 .. MaxCount, NEW backed \in BOOLEAN,
         Free(first, count, backed)
  PROVE  IInv'
<1> DEFINE new == UnmapPages(Current, first, count, backed)
<1>1. /\ Current \in Memories /\ ~ Current.outOfMemory /\ Settled(Current, {}) /\ ptes = held
      /\ count \in Nat /\ first \in Nat
  BY PageTablesAssumption, CurrentParts DEF IInv, Free
<1>2. /\ RangeFrom(first, count) \subseteq DOMAIN Current.ptes
      /\ \A p \in RangeFrom(first, count) : Current.ptes[p] \in Frames <=> backed
      /\ Become(new)
      /\ held' = Restrict(Current.ptes, DOMAIN Current.ptes \ RangeFrom(first, count))
  BY <1>1, CurrentParts DEF Free
<1> HIDE DEF new
<1>3. /\ new \in Memories /\ ~ new.outOfMemory /\ Settled(new, {})
      /\ new.ptes = Restrict(Current.ptes, DOMAIN Current.ptes \ RangeFrom(first, count))
  BY <1>1, <1>2, PagesUnmapped DEF new
<1> QED
  BY <1>2, <1>3, BecomeRecord

\* The invariant holds always.
LEMMA Invariance == Spec => []IInv
<1>1. IInv /\ [Next]_vars => IInv'
  <2> SUFFICES ASSUME IInv, [Next]_vars
               PROVE  IInv'
    OBVIOUS
  <2>1. CASE Next
    <3>1. PICK first \in Pages, count \in 1 .. MaxCount :
            \/ RequestBacked(first, count)
            \/ \E frame \in DeviceFrames : MapDevice(first, frame, count)
            \/ \E backed \in BOOLEAN : Free(first, count, backed)
      BY <2>1 DEF Next
    <3> QED BY <3>1, RequestBackedHolds, MapDeviceHolds, FreeHolds
  <2>2. CASE UNCHANGED vars
    <3>1. UNCHANGED <<free, tables, ptes, outOfMemory, held>>
      BY <2>2 DEF vars
    <3> QED BY <3>1 DEF IInv, Current
  <2> QED BY <2>1, <2>2
<1> QED
  BY <1>1, InitHolds, PTL DEF Spec

-----------------------------------------------------------------------------
\* Free frames and the frames of tables are the manager's, what is mapped is a
\* frame or a device's, and a table stands where a walk looks for it.
THEOREM TypeCorrect == Spec => []TypeOK
<1>1. IInv => TypeOK
  <2> SUFFICES ASSUME IInv
               PROVE  TypeOK
    OBVIOUS
  <2>1. Current \in Memories
    BY DEF IInv
  <2>2. /\ free \subseteq Frames
        /\ DOMAIN tables \subseteq AnyTable /\ \A t \in DOMAIN tables : tables[t] \in Frames
        /\ DOMAIN ptes \subseteq Pages
        /\ \A p \in DOMAIN ptes : ptes[p] \in Frames \cup DeviceFrames
        /\ outOfMemory \in BOOLEAN
    BY <2>1, Fields, CurrentParts
  <2> QED BY <2>2 DEF TypeOK, AnyTable
<1> QED
  BY <1>1, Invariance, PTL

\* mapPages and unmapPages: until memory runs out, exactly the pages that
\* clients hold are translated, each to the frame that it was promised.
THEOREM HeldPagesMapped == Spec => []HeldPagesAreMapped
<1>1. IInv => HeldPagesAreMapped
  BY DEF IInv, HeldPagesAreMapped
<1> QED
  BY <1>1, Invariance, PTL

\* mapPages and unmapPages: a table is there exactly while a page needs it, at
\* each level, whatever pages are mapped and unmapped.
THEOREM TablesNeeded == Spec => []TablesAreWhatIsNeeded
<1>1. IInv => TablesAreWhatIsNeeded
  BY CurrentParts DEF IInv, TablesAreWhatIsNeeded, Settled, Needed
<1> QED
  BY <1>1, Invariance, PTL

\* mapPages, unmapPages and their callers: no frame is lost and none has two
\* uses, of being free, a table, or behind a page.
THEOREM FramesUsedOnce == Spec => []EveryFrameHasOneUse
<1>1. IInv => EveryFrameHasOneUse
  <2> SUFFICES ASSUME IInv, ~ outOfMemory
               PROVE  LET inTables == {tables[t] : t \in DOMAIN tables}
                          backing == {ptes[p] : p \in DOMAIN ptes} \cap Frames
                      IN  /\ free \cup inTables \cup backing = Frames
                          /\ free \cap inTables = {} /\ free \cap backing = {}
                          /\ inTables \cap backing = {}
                          /\ \A p, q \in DOMAIN ptes :
                               ptes[p] = ptes[q] /\ ptes[p] \in Frames => p = q
    BY DEF EveryFrameHasOneUse
  <2>1. OneUse(free, tables, ptes, {})
    BY CurrentParts DEF IInv, Settled, Exclusive
  <2>2. free \subseteq Frames /\ \A t \in DOMAIN tables : tables[t] \in Frames
    BY Fields, CurrentParts DEF IInv
  <2> QED BY <2>1, <2>2 DEF OneUse
<1> QED
  BY <1>1, Invariance, PTL

=============================================================================

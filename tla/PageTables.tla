----------------------------- MODULE PageTables -----------------------------
(***************************************************************************)
(* Mapping virtual pages to frames, mapPages and unmapPages of              *)
(* src/src/boot/virtualmemmgmt.cpp, with the part of requestPages that      *)
(* backs a granted range with frames and the part of freePages that unmaps  *)
(* one.                                                                     *)
(*                                                                          *)
(* A virtual page is translated by a PML4 entry and three levels of tables  *)
(* below it.  mapPages creates the tables that are missing, each in a frame *)
(* of the physical page manager; unmapPages gives back those that have      *)
(* become empty.  That manager is reduced to its set of free frames, from   *)
(* which a contiguous request takes the lowest run; which virtual pages are *)
(* granted is up to AddressSpace.                                           *)
(***************************************************************************)

EXTENDS Integers, Functions

CONSTANTS
  Pages,        (* virtual pages that clients may be granted                *)
  Frames,       (* frames of the physical page manager                      *)
  DeviceFrames, (* device registers: not managed, mapped where a driver asks*)
  TableEntries, (* PML4_ENTRY_COUNT                                         *)
  MaxCount      (* bound: the pages of one request                          *)

ASSUME PageTablesAssumption ==
  /\ Pages \subseteq Nat
  /\ Frames \subseteq Nat /\ DeviceFrames \subseteq Nat
  /\ Frames \cap DeviceFrames = {}
  /\ TableEntries \in Nat \ {0}

VARIABLES
  free,    (* frames that the physical page manager has left                *)
  tables,  (* the frame of each table that is present, by level and prefix  *)
  ptes,    (* the frame of each page whose level 1 entry is present         *)
  outOfMemory, (* the kernel has panicked: no frame was left                *)
  held     (* the frames that clients were granted or asked for, by page: a *)
           (* history variable                                              *)

memory == <<free, tables, ptes, outOfMemory>>
vars == <<free, tables, ptes, outOfMemory, held>>

-----------------------------------------------------------------------------
(* CrawlResult: the tables that translate a page *)

Levels == 1 .. 3

span[j \in 0 .. 3] == IF j = 0 THEN 1 ELSE TableEntries * span[j - 1]

\* The table of level j that page p is translated by.
Table(p, j) == <<j, p \div span[j]>>

\* The tables and pages that the entries of a table point to.
PresentEntries(table, st) ==
  IF table[1] = 1
  THEN {p \in DOMAIN st.ptes : Table(p, 1) = table}
  ELSE {t \in DOMAIN st.tables :
          t[1] = table[1] - 1 /\ t[2] \div TableEntries = table[2]}

Lowest(S) == CHOOSE x \in S : \A y \in S : x <= y

With(f, x, y) == [z \in DOMAIN f \cup {x} |-> IF z = x THEN y ELSE f[z]]

Without(f, x) == Restrict(f, DOMAIN f \ {x})

-----------------------------------------------------------------------------
(* mapPages.  A state of the memory is passed along its loops as a record.   *)

\* Mutant: the frame of a new table stays free.
WithTableStillFree(st, table) ==
  IF st.outOfMemory \/ table \in DOMAIN st.tables \/ st.free = {}
  THEN st
  ELSE [st EXCEPT !.tables = With(@, table, Lowest(st.free))]

\* The table, created in the lowest free frame if it is missing.
WithTable(st, table) ==
  CASE st.outOfMemory \/ table \in DOMAIN st.tables -> st
    [] ~ st.outOfMemory /\ table \notin DOMAIN st.tables /\ st.free = {} ->
         [st EXCEPT !.outOfMemory = TRUE]
    [] OTHER ->
         [st EXCEPT !.free = @ \ {Lowest(st.free)},
                    !.tables = With(@, table, Lowest(st.free))]

\* All that a page is translated by, from the top.
WithTables(st, p) == WithTable(WithTable(WithTable(st, Table(p, 3)), Table(p, 2)), Table(p, 1))

\* One page.  An entry that is present already is left as it is.
Mapped(st, p, frame) ==
  LET ready == WithTables(st, p)
  IN  IF ready.outOfMemory \/ p \in DOMAIN ready.ptes
      THEN ready
      ELSE [ready EXCEPT !.ptes = With(@, p, frame)]

\* Mutant: every page of the range is mapped to the first frame.
MappingOneFrame(st, first, frame, count) ==
  LET mapping[i \in 0 .. count] ==
        IF i = 0 THEN st ELSE Mapped(mapping[i - 1], first + i - 1, frame)
  IN  mapping

\* After each of the pages of a range.
Mapping(st, first, frame, count) ==
  LET mapping[i \in 0 .. count] ==
        IF i = 0 THEN st ELSE Mapped(mapping[i - 1], first + i - 1, frame + i - 1)
  IN  mapping

MapPages(st, first, frame, count) == Mapping(st, first, frame, count)[count]

-----------------------------------------------------------------------------
(* unmapPages *)

\* Mutant: tables are kept when they become empty.
WithoutTableNot(st, table) == st

\* A table that has become empty is given back and its entry cleared.
WithoutTable(st, table) ==
  IF table \in DOMAIN st.tables /\ PresentEntries(table, st) = {}
  THEN [st EXCEPT !.free = @ \cup {st.tables[table]}, !.tables = Without(@, table)]
  ELSE st

\* From the bottom, as a table may become empty when one below it goes.
WithoutTables(st, p) ==
  WithoutTable(WithoutTable(WithoutTable(st, Table(p, 1)), Table(p, 2)), Table(p, 3))

\* Mutant: the frame is given back whether it is to be or not.
UnmappedAndFreed(st, p, freePhysicalPage) ==
  LET cleared ==
        IF p \in DOMAIN st.ptes
        THEN [st EXCEPT !.ptes = Without(@, p), !.free = @ \cup {st.ptes[p]}]
        ELSE st
  IN  WithoutTables(cleared, p)

\* One page, and its frame when freePhysicalPage asks for it.
Unmapped(st, p, freePhysicalPage) ==
  LET cleared ==
        IF p \in DOMAIN st.ptes
        THEN [st EXCEPT !.ptes = Without(@, p),
                        !.free = IF freePhysicalPage THEN @ \cup {st.ptes[p]} ELSE @]
        ELSE st
  IN  WithoutTables(cleared, p)

\* After each of the pages of a range.
Unmapping(st, first, count, freePhysicalPage) ==
  LET unmapping[i \in 0 .. count] ==
        IF i = 0 THEN st ELSE Unmapped(unmapping[i - 1], first + i - 1, freePhysicalPage)
  IN  unmapping

UnmapPages(st, first, count, freePhysicalPage) ==
  Unmapping(st, first, count, freePhysicalPage)[count]

-----------------------------------------------------------------------------
(* What clients do *)

RangeFrom(first, count) == first .. first + count - 1

Current == [free |-> free, tables |-> tables, ptes |-> ptes, outOfMemory |-> outOfMemory]

Become(st) ==
  /\ free' = st.free
  /\ tables' = st.tables
  /\ ptes' = st.ptes
  /\ outOfMemory' = st.outOfMemory

Granted(first, count) ==
  /\ RangeFrom(first, count) \subseteq Pages
  /\ RangeFrom(first, count) \cap DOMAIN held = {}

Hold(first, frame, count) ==
  held' = [p \in DOMAIN held \cup RangeFrom(first, count) |->
             IF p \in RangeFrom(first, count) THEN frame + p - first ELSE held[p]]

Runs(count) == {f \in free : RangeFrom(f, count) \subseteq free}

\* requestPages with AllocatePhysical: the lowest run of frames backs the
\* range.  Without one, and when no frame is left for a table, it panics.
RequestBacked(first, count) ==
  /\ ~ outOfMemory
  /\ Granted(first, count)
  /\ IF Runs(count) = {}
     THEN outOfMemory' = TRUE /\ UNCHANGED <<free, tables, ptes, held>>
     ELSE LET frame == Lowest(Runs(count))
          IN  /\ Become(MapPages([Current EXCEPT !.free = @ \ RangeFrom(frame, count)],
                                 first, frame, count))
              /\ Hold(first, frame, count)

\* requestPages without it, then mapPages to device registers.
MapDevice(first, frame, count) ==
  /\ ~ outOfMemory
  /\ Granted(first, count)
  /\ RangeFrom(frame, count) \subseteq DeviceFrames
  /\ Become(MapPages(Current, first, frame, count))
  /\ Hold(first, frame, count)

\* freePages of a range granted by one of them, in full or in part; only for
\* one that is backed by frames is AllocatePhysical passed.
Free(first, count, backed) ==
  /\ ~ outOfMemory
  /\ RangeFrom(first, count) \subseteq DOMAIN held
  /\ \A p \in RangeFrom(first, count) : held[p] \in Frames <=> backed
  /\ Become(UnmapPages(Current, first, count, backed))
  /\ held' = Restrict(held, DOMAIN held \ RangeFrom(first, count))

-----------------------------------------------------------------------------
Empty == [x \in {} |-> 0]

Init ==
  /\ free = Frames
  /\ tables = Empty
  /\ ptes = Empty
  /\ outOfMemory = FALSE
  /\ held = Empty

Next ==
  \E first \in Pages, count \in 1 .. MaxCount :
    \/ RequestBacked(first, count)
    \/ \E frame \in DeviceFrames : MapDevice(first, frame, count)
    \/ \E backed \in BOOLEAN : Free(first, count, backed)

Spec == Init /\ [][Next]_vars

-----------------------------------------------------------------------------
TypeOK ==
  /\ free \subseteq Frames
  /\ DOMAIN tables \subseteq {Table(p, j) : p \in Pages, j \in Levels}
  /\ {tables[t] : t \in DOMAIN tables} \subseteq Frames
  /\ DOMAIN ptes \subseteq Pages
  /\ {ptes[p] : p \in DOMAIN ptes} \subseteq Frames \cup DeviceFrames
  /\ outOfMemory \in BOOLEAN

\* Exactly the pages that clients hold are translated, each to the frame that
\* its client was promised, until memory runs out.
HeldPagesAreMapped == ~ outOfMemory => ptes = held

\* A table is present exactly if something that it translates is: a walk never
\* ends early, and no table is kept once it is empty.
TablesAreWhatIsNeeded ==
  ~ outOfMemory =>
    DOMAIN tables = {Table(p, j) : p \in DOMAIN ptes, j \in Levels}

\* Every frame has one use: it is free, or a table, or backs one page.  None
\* is lost, and none that is in use is handed out.
EveryFrameHasOneUse ==
  LET inTables == {tables[t] : t \in DOMAIN tables}
      backing == {ptes[p] : p \in DOMAIN ptes} \cap Frames
  IN  ~ outOfMemory =>
        /\ free \cup inTables \cup backing = Frames
        /\ free \cap inTables = {} /\ free \cap backing = {} /\ inTables \cap backing = {}
        /\ \A p, q \in DOMAIN ptes : ptes[p] = ptes[q] /\ ptes[p] \in Frames => p = q

=============================================================================

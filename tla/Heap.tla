------------------------------- MODULE Heap -------------------------------
(***************************************************************************)
(* The kernel heap, src/src/boot/heapmemmgmt.cpp: one region (create is     *)
(* called once) of entries that follow each other, each a header and a      *)
(* payload that is free or used.  allocate takes the first free entry that  *)
(* is large enough and splits it; free gives an entry back and merges       *)
(* nothing.                                                                 *)
(*                                                                          *)
(* The unit of sizes and addresses is minBlockSize, 8 bytes, which is also  *)
(* the size of an entry's header; addresses count from the region's start.  *)
(* An entry is modelled by its address, so walking the region is going      *)
(* through the entries by ascending address.                                *)
(***************************************************************************)

EXTENDS Integers, Sequences, FiniteSets

CONSTANTS
  RegionSize,         (* newRegionSize: 262144 units                        *)
  HeaderSize,         (* sizeof(Header): 6 units                            *)
  EntryTableCapacity, (* pointers in entryTableSize bytes: 16384            *)
  Counts              (* the sizes that clients ask for, rounded up to units*)

ASSUME RegionAssumption ==
  /\ RegionSize \in Nat
  /\ HeaderSize \in Nat
  /\ RegionSize >= HeaderSize + 2

ASSUME TableAssumption == EntryTableCapacity \in Nat

\* Anything else is refused with a panic.
ASSUME CountsAssumption == Counts \subseteq 1 .. RegionSize - HeaderSize - 1

VARIABLES
  size,       (* of the entry at each address that has one                  *)
  used,       (* the entries with signature Used                            *)
  remaining,  (* heap->remaining                                            *)
  entryTable, (* heap->entryTable, entryCount pointers                      *)
  failed,     (* how the kernel came to a stop in the heap, or "no"         *)
  live        (* what clients asked for at each address that they hold: a   *)
              (* history variable                                           *)

vars == <<size, used, remaining, entryTable, failed, live>>

-----------------------------------------------------------------------------
(* Entries *)

Entries == DOMAIN size

EndOf(sizes, e) == e + 1 + sizes[e]

Payload(e) == e + 1 .. e + size[e]

Lowest(S) == CHOOSE x \in S : \A y \in S : x <= y

\* validHeapEntry: an entry is compared with what remains in the region, be
\* it a free entry or not.
ValidHeapEntry(n, left) ==
  /\ n <= left
  /\ n <= RegionSize - HeaderSize - 1
  /\ n >= 1

\* validHeap: the walk meets valid entries only and ends at the region's end.
\* Every call ends with it, so what the walk of the next call meets is valid.
\* When it panics the call has done its work; nothing runs after that.
ValidHeap(sizes, left) ==
  \A e \in DOMAIN sizes :
    /\ ValidHeapEntry(sizes[e], left)
    /\ EndOf(sizes, e) \in DOMAIN sizes \cup {RegionSize}

Checked(sizes, left) == IF ValidHeap(sizes, left) THEN "no" ELSE "corrupt entry"

\* Undefined behaviour and invalid frees: the model stops where they happen.
Fail(how) ==
  /\ failed' = how
  /\ UNCHANGED <<size, used, remaining, entryTable, live>>

-----------------------------------------------------------------------------
(* allocate *)

Fitting(count) == {e \in Entries : e \notin used /\ size[e] >= count}

\* An entry is split when what is left of it can be an entry.
Splits(e, count) == size[e] >= count + 2

\* Mutant: the entry that is split keeps its size.
SizesAfterUnshrunk(e, count) ==
  IF Splits(e, count)
  THEN LET rest == e + 1 + count
       IN  [f \in Entries \cup {rest} |->
              IF f = rest THEN size[e] - count - 1 ELSE size[f]]
  ELSE size

\* Mutant: the new entry's header takes the last unit of the chunk.
SizesAfterOverlapping(e, count) ==
  IF Splits(e, count)
  THEN LET rest == e + count
       IN  [f \in Entries \cup {rest} |->
              CASE f = e    -> count
                [] f = rest -> size[e] - count
                [] OTHER    -> size[f]]
  ELSE size

SizesAfter(e, count) ==
  IF Splits(e, count)
  THEN LET rest == e + 1 + count
       IN  [f \in Entries \cup {rest} |->
              CASE f = e    -> count
                [] f = rest -> size[e] - count - 1
                [] OTHER    -> size[f]]
  ELSE size

\* Mutants: what was taken is not subtracted; the new header is not.
RemainingUntouched(e, count) == remaining

RemainingWithoutHeader(e, count) ==
  remaining - (IF Splits(e, count) THEN count ELSE size[e])

RemainingAfter(e, count) ==
  remaining - (IF Splits(e, count) THEN count + 1 ELSE size[e])

\* What is served when entry e is the first one that fits.
Take(e, count) ==
  LET sizes == SizesAfter(e, count)
      left == RemainingAfter(e, count)
      chunk == e + 1
  IN  IF Len(entryTable) >= EntryTableCapacity
      THEN Fail("entry table overrun")
      ELSE /\ size' = sizes
           /\ used' = used \cup {e}
           /\ remaining' = left
           /\ entryTable' = Append(entryTable, chunk)
           /\ live' = [c \in DOMAIN live \cup {chunk} |->
                         IF c = chunk THEN count ELSE live[c]]
           /\ failed' = Checked(sizes, left)

\* The loop that looks for an entry does not expect to find none.
Allocate(count) ==
  /\ failed = "no"
  /\ count <= remaining
  /\ IF Fitting(count) = {}
     THEN Fail("null entry")
     ELSE Take(Lowest(Fitting(count)), count)

-----------------------------------------------------------------------------
(* free *)

\* Mutant: the last pointer is dropped and does not take the place of another.
WithoutLastEntry(i) == SubSeq(entryTable, 1, Len(entryTable) - 1)

\* The last pointer of the table takes the place of the one removed.
WithoutEntry(i) ==
  [j \in 1 .. Len(entryTable) - 1 |->
     entryTable[IF j = i THEN Len(entryTable) ELSE j]]

\* An address that the table does not have is an invalid free.
Free(chunk) ==
  LET found == {i \in DOMAIN entryTable : entryTable[i] = chunk}
      e == chunk - 1
      left == remaining + size[e]
  IN  /\ failed = "no"
      /\ IF found = {}
         THEN Fail("invalid free")
         ELSE /\ used' = used \ {e}
              /\ remaining' = left
              /\ entryTable' = WithoutEntry(Lowest(found))
              /\ live' = [c \in DOMAIN live \ {chunk} |-> live[c]]
              /\ failed' = Checked(size, left)
              /\ UNCHANGED size

-----------------------------------------------------------------------------
\* The region as create leaves it: one free entry.
Init ==
  /\ size = [e \in {HeaderSize} |-> RegionSize - HeaderSize - 1]
  /\ used = {}
  /\ remaining = RegionSize - HeaderSize - 1
  /\ entryTable = <<>>
  /\ failed = "no"
  /\ live = [c \in {} |-> 0]

Next ==
  \/ \E count \in Counts : Allocate(count)
  \/ \E chunk \in DOMAIN live : Free(chunk)

Spec == Init /\ [][Next]_vars

-----------------------------------------------------------------------------
Addresses == HeaderSize .. RegionSize - 1

TypeOK ==
  /\ size \in [Entries -> Nat \ {0}]
  /\ Entries \subseteq Addresses
  /\ used \subseteq Entries
  /\ remaining \in 0 .. RegionSize
  /\ entryTable \in Seq(Addresses)
  /\ failed \in {"no", "null entry", "entry table overrun", "corrupt entry", "invalid free"}
  /\ live \in [DOMAIN live -> Nat \ {0}]
  /\ DOMAIN live \subseteq Addresses

\* Walking the region visits every entry and nothing else: each entry ends
\* where the next one starts, up to the region's end, also when the
\* integrity check has just reported a corrupt entry.
EntriesTileTheRegion ==
  /\ HeaderSize \in Entries
  /\ \A e \in Entries : EndOf(size, e) \in Entries \cup {RegionSize}
  /\ \A e, f \in Entries : e < f => EndOf(size, e) <= f

Chunk(c) == c .. c + live[c] - 1

\* No two chunks that clients hold overlap, nor do a chunk and the header of an
\* entry: clients that stay within theirs cannot corrupt the heap.  Each is in
\* a used entry of its own, which no search will take again.
ChunksAreDisjoint ==
  \A c \in DOMAIN live :
    /\ c - 1 \in used
    /\ Chunk(c) \cap Entries = {}
    /\ \A d \in DOMAIN live \ {c} : Chunk(c) \cap Chunk(d) = {}

FreeUnits == UNION {Payload(e) : e \in Entries \ used}

\* heap->remaining, by which allocate decides whether to look for an entry
\* and validHeapEntry what is corrupt, is the size of the free payloads.
RemainingIsFree == remaining = Cardinality(FreeUnits)

\* The entry table lists exactly what clients hold, each pointer once, through
\* every removal in the middle: no free of theirs is taken for an invalid one.
TableListsLiveChunks ==
  /\ {entryTable[i] : i \in DOMAIN entryTable} = DOMAIN live
  /\ Len(entryTable) = Cardinality(DOMAIN live)
  /\ failed # "invalid free"

\* The heap stops the kernel with "Corrupt heap entry" when an entry is
\* corrupt.  Every client here stays within its chunk and frees it once.
HonestClientsCorruptNothing == failed # "corrupt entry"

=============================================================================

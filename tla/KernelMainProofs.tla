-------------------------- MODULE KernelMainProofs ---------------------------
(***************************************************************************)
(* The kernel's main flow on any machines, with any number of CPUs: it runs *)
(* enumeration and the start of the CPUs as they are by themselves, the     *)
(* interrupts that it waits for find their devices, and the files that it   *)
(* opens stay while it uses them.                                           *)
(***************************************************************************)

EXTENDS KernelMain, SequencesExt, TLAPS

-----------------------------------------------------------------------------
(* Enumeration: the loops of PCIe::enumerate, with the places that they      *)
(* skip, find every function once and keep the pages of exactly those.      *)
(*                                                                          *)
(* The invariant says what has been seen: the functions at all places       *)
(* before the one that the loops have come to, ordered by bus, device and   *)
(* function.                                                                *)

There == DOMAIN machine.functions

Before(p, q) ==
  \/ p[1] < q[1]
  \/ p[1] = q[1] /\ p[2] < q[2]
  \/ p[1] = q[1] /\ p[2] = q[2] /\ p[3] < q[3]

Seen(p) == at = Done \/ Before(p, Place)

Loops ==
  (machine.startBus .. machine.endBus) \X (0 .. DeviceCount - 1) \X (0 .. FunctionCount - 1)

Msis == There \cup {Null, Garbage}

PcieTypeInv ==
  /\ machine \in Machines
  /\ at \in Loops \cup {Done}
  /\ msi \in Msis
  /\ functions \in Seq([place : There, msi : Msis])

SeenInv == pages = {p \in There : Seen(p)}

ListInv ==
  /\ pages = {functions[i].place : i \in DOMAIN functions}
  /\ \A i, j \in DOMAIN functions : functions[i].place = functions[j].place => i = j

OwnMsi ==
  \A i \in DOMAIN functions :
     machine.functions[functions[i].place].capabilities # "none" =>
        functions[i].msi \in {functions[i].place, Null}

PcieInv == PcieTypeInv /\ SeenInv /\ ListInv /\ OwnMsi

-----------------------------------------------------------------------------
\* Where the loops are, unless they have ended.
LEMMA Position ==
  ASSUME PcieTypeInv, at # Done
  PROVE  /\ at = <<at[1], at[2], at[3]>>
         /\ at[1] \in Int /\ machine.startBus <= at[1] /\ at[1] <= machine.endBus
         /\ at[2] \in Nat /\ at[2] < DeviceCount
         /\ at[3] \in Nat /\ at[3] < FunctionCount
         /\ machine.startBus \in Nat /\ machine.endBus \in Nat
         /\ machine.endBus < BusWord - 1
<1>1. /\ machine.startBus \in Nat /\ machine.endBus \in Nat
      /\ machine.endBus < BusWord - 1
  BY MachineAssumption DEF PcieTypeInv
<1>2. at \in Loops
  BY DEF PcieTypeInv
<1> QED
  BY <1>1, <1>2, SizesAssumption DEF Loops

\* A function is at a place that the loops reach.
LEMMA PlaceOfFunction ==
  ASSUME PcieTypeInv, NEW p \in There
  PROVE  /\ p = <<p[1], p[2], p[3]>>
         /\ p[1] \in Int /\ 0 <= p[1] /\ p[1] <= machine.endBus - machine.startBus
         /\ p[2] \in Nat /\ p[2] < DeviceCount
         /\ p[3] \in Nat /\ p[3] < FunctionCount
<1>1. machine.startBus \in Nat /\ machine.endBus \in Nat /\ There \subseteq Places(machine)
  BY MachineAssumption DEF PcieTypeInv, There
<1>2. p \in Places(machine)
  BY <1>1
<1> QED
  BY <1>1, <1>2, SizesAssumption DEF Places

\* The step to the next function of the device skips nothing.
LEMMA ToFunction ==
  ASSUME PcieTypeInv, at # Done, UNCHANGED machine,
         at[3] + 1 < FunctionCount, at' = <<at[1], at[2], at[3] + 1>>
  PROVE  at' \in Loops' /\ \A p \in There : Seen(p)' <=> Seen(p) \/ p = Place
<1>1. at' \in Loops' /\ at' # Done
  BY Position, SizesAssumption DEF Loops, Done
<1>2. ASSUME NEW p \in There
      PROVE  Seen(p)' <=> Seen(p) \/ p = Place
  <2>1. Seen(p)' <=> Before(p, <<at[1] - machine.startBus, at[2], at[3] + 1>>)
    BY <1>1 DEF Seen, Place
  <2>2. Seen(p) <=> Before(p, <<at[1] - machine.startBus, at[2], at[3]>>)
    BY DEF Seen, Place
  <2> QED
    BY <2>1, <2>2, Position, PlaceOfFunction DEF Before, Place
<1> QED
  BY <1>1, <1>2

\* The step to the next device skips nothing if the device has no more
\* functions: it goes to the next bus in time, and ends with the last one.
LEMMA ToDevice ==
  ASSUME PcieTypeInv, at # Done, UNCHANGED machine,
         at' = NextDevice(at[1], at[2]),
         \A p \in There : p[1] = Place[1] /\ p[2] = Place[2] => p[3] <= Place[3]
  PROVE  at' \in Loops' \cup {Done} /\ \A p \in There : Seen(p)' <=> Seen(p) \/ p = Place
<1>1. (at[1] + 1) % BusWord = at[1] + 1
  BY Position, SizesAssumption
<1>2. \A p \in There : Seen(p) \/ p = Place <=>
        p[1] < at[1] - machine.startBus \/ (p[1] = at[1] - machine.startBus /\ p[2] <= at[2])
  BY Position, PlaceOfFunction DEF Seen, Before, Place
<1>3. CASE at[2] + 1 < DeviceCount
  <2>1. at' = <<at[1], at[2] + 1, 0>>
    BY <1>3 DEF NextDevice
  <2>2. at' \in Loops' /\ at' # Done
    BY <2>1, <1>3, Position, SizesAssumption DEF Loops, Done
  <2>3. \A p \in There : Seen(p)' <=> Before(p, <<at[1] - machine.startBus, at[2] + 1, 0>>)
    BY <2>1, <2>2 DEF Seen, Place
  <2>4. \A p \in There : Seen(p)' <=>
          p[1] < at[1] - machine.startBus \/ (p[1] = at[1] - machine.startBus /\ p[2] <= at[2])
    BY <2>3, Position, PlaceOfFunction DEF Before
  <2> QED BY <1>2, <2>2, <2>4
<1>4. CASE at[2] + 1 >= DeviceCount /\ at[1] + 1 <= machine.endBus
  <2>1. at' = <<at[1] + 1, 0, 0>>
    BY <1>1, <1>4, Position, SizesAssumption DEF NextDevice
  <2>2. at' \in Loops' /\ at' # Done
    BY <2>1, <1>4, Position, SizesAssumption DEF Loops, Done
  <2>3. \A p \in There : Seen(p)' <=> Before(p, <<(at[1] + 1) - machine.startBus, 0, 0>>)
    <3>1. /\ at'[1] = at[1] + 1 /\ at'[2] = 0 /\ at'[3] = 0
      BY <2>1
    <3>2. Place' = <<(at[1] + 1) - machine.startBus, 0, 0>>
      BY <3>1 DEF Place
    <3> QED BY <2>2, <3>2 DEF Seen
  <2>4. \A p \in There : Seen(p)' <=> p[1] < (at[1] + 1) - machine.startBus
    BY <2>3, Position, PlaceOfFunction DEF Before
  <2>5. \A p \in There : p[2] <= at[2]
    BY <1>4, Position, PlaceOfFunction, SizesAssumption
  <2> QED BY <1>2, <2>2, <2>4, <2>5, Position, PlaceOfFunction
<1>5. CASE at[2] + 1 >= DeviceCount /\ at[1] + 1 > machine.endBus
  <2>1. at' = Done
    BY <1>1, <1>5, Position, SizesAssumption DEF NextDevice
  <2>2. \A p \in There : p[2] <= at[2] /\ p[1] <= at[1] - machine.startBus
    BY <1>5, Position, PlaceOfFunction, SizesAssumption
  <2> QED BY <1>2, <2>1, <2>2, Position, PlaceOfFunction DEF Seen
<1> QED
  BY <1>3, <1>4, <1>5, Position, SizesAssumption

\* So does the step from the last function of a device.
LEMMA ToNext ==
  ASSUME PcieTypeInv, at # Done, UNCHANGED machine, at' = NextFunction(at[1], at[2], at[3])
  PROVE  at' \in Loops' \cup {Done} /\ \A p \in There : Seen(p)' <=> Seen(p) \/ p = Place
<1>1. CASE at[3] + 1 < FunctionCount
  BY <1>1, ToFunction DEF NextFunction
<1>2. CASE ~ (at[3] + 1 < FunctionCount)
  <2>1. \A p \in There : p[3] <= Place[3]
    BY <1>2, Position, PlaceOfFunction, SizesAssumption DEF Place
  <2> QED BY <1>2, <2>1, ToDevice DEF NextFunction
<1> QED
  BY <1>1, <1>2

-----------------------------------------------------------------------------
\* A function that is found is recorded once, with its own capability.
LEMMA FoundKeeps ==
  ASSUME PcieInv, at # Done, Place \in There, NEW old \in Msis, Found(Place, old),
         at' \in Loops' \cup {Done}, \A p \in There : Seen(p)' <=> Seen(p) \/ p = Place
  PROVE  PcieInv'
<1> DEFINE new == [place |-> Place, msi |-> MsiOf(Place, old)]
<1>1. /\ machine' = machine /\ There' = There /\ Msis' = Msis
      /\ msi' = MsiOf(Place, old)
      /\ functions' = Append(functions, new)
      /\ pages' = pages \cup {Place}
  BY DEF Found, There, Msis
<1>2. /\ MsiOf(Place, old) \in Msis
      /\ machine.functions[Place].capabilities # "none" => MsiOf(Place, old) \in {Place, Null}
  <2>1. machine.functions[Place].capabilities \in {"none", "without MSI", "with MSI"}
    BY MachineAssumption DEF PcieInv, PcieTypeInv, There
  <2> QED BY <2>1 DEF MsiOf, Msis
<1>3. new \in [place : There, msi : Msis] /\ functions \in Seq([place : There, msi : Msis])
  BY <1>2 DEF PcieInv, PcieTypeInv
<1>4. /\ DOMAIN functions' = DOMAIN functions \cup {Len(functions) + 1}
      /\ \A i \in DOMAIN functions : functions'[i] = functions[i]
      /\ functions'[Len(functions) + 1] = new
      /\ Len(functions) + 1 \notin DOMAIN functions
  <2> HIDE DEF new
  <2> QED BY <1>1, <1>3
<1>5. Place \notin pages
  <2>1. ~ Seen(Place)
    BY Position DEF PcieInv, Seen, Before, Place
  <2> QED BY <2>1 DEF PcieInv, SeenInv
<1>6. PcieTypeInv'
  <2>1. functions' \in Seq([place : There, msi : Msis])
    <3> HIDE DEF new
    <3> QED BY <1>1, <1>3
  <2> QED BY <1>1, <1>2, <2>1 DEF PcieInv, PcieTypeInv
<1>7. SeenInv'
  BY <1>1 DEF PcieInv, SeenInv
<1>8. ListInv'
  <2>1. pages' = {functions'[i].place : i \in DOMAIN functions'}
    BY <1>1, <1>4 DEF PcieInv, ListInv
  <2>2. \A i \in DOMAIN functions : functions[i].place # Place
    BY <1>5 DEF PcieInv, ListInv
  <2>3. ASSUME NEW i \in DOMAIN functions', NEW j \in DOMAIN functions',
               functions'[i].place = functions'[j].place
        PROVE  i = j
    BY <1>4, <2>2, <2>3 DEF PcieInv, ListInv
  <2> QED BY <2>1, <2>3 DEF ListInv
<1>9. OwnMsi'
  BY <1>1, <1>2, <1>4 DEF PcieInv, OwnMsi
<1> QED
  BY <1>6, <1>7, <1>8, <1>9 DEF PcieInv

\* Where nothing is there, nothing is kept.
LEMMA NotFoundKeeps ==
  ASSUME PcieInv, at # Done, Place \notin There, NotFound,
         at' \in Loops' \cup {Done}, \A p \in There : Seen(p)' <=> Seen(p) \/ p = Place
  PROVE  PcieInv'
<1>1. There' = There /\ Msis' = Msis /\ UNCHANGED <<machine, msi, functions, pages>>
  BY DEF NotFound, There, Msis
<1> QED
  BY <1>1 DEF PcieInv, PcieTypeInv, SeenInv, ListInv, OwnMsi

\* The loops begin with nothing seen.
LEMMA PcieInitHolds == PcieInit => PcieInv
<1> SUFFICES ASSUME PcieInit PROVE PcieInv
  OBVIOUS
<1>1. /\ machine \in Machines /\ machine.startBus \in Nat /\ machine.endBus \in Nat
      /\ machine.startBus <= machine.endBus
  BY MachineAssumption DEF PcieInit
<1>2. at = <<machine.startBus, 0, 0>> /\ at \in Loops /\ at # Done
  BY <1>1, SizesAssumption DEF PcieInit, Loops, Done
<1>3. PcieTypeInv
  BY <1>1, <1>2 DEF PcieInit, PcieTypeInv, Msis
<1>4. \A p \in There : ~ Seen(p)
  <2>1. Place = <<0, 0, 0>>
    BY <1>1, <1>2 DEF Place
  <2> QED BY <1>2, <1>3, <2>1, PlaceOfFunction DEF Seen, Before
<1> QED
  BY <1>3, <1>4 DEF PcieInit, PcieInv, SeenInv, ListInv, OwnMsi

\* Every step of the loops keeps the invariant.
LEMMA PcieNextHolds == PcieInv /\ [Enumerate]_pcieVars => PcieInv'
<1> SUFFICES ASSUME PcieInv, [Enumerate]_pcieVars PROVE PcieInv'
  OBVIOUS
<1>1. CASE EnumerateDevice
  <2>1. at # Done /\ at[3] = 0
    BY <1>1 DEF EnumerateDevice
  <2>2. ASSUME Place \in There, NEW old \in {msi, Null, Garbage}, Found(Place, old),
               at' = IF machine.functions[Place].multi
                     THEN NextFunction(at[1], at[2], 0)
                     ELSE NextDevice(at[1], at[2])
        PROVE  PcieInv'
    <3>1. old \in Msis /\ UNCHANGED machine
      BY <2>2 DEF PcieInv, PcieTypeInv, Msis, Found
    <3>2. at' \in Loops' \cup {Done} /\ \A p \in There : Seen(p)' <=> Seen(p) \/ p = Place
      <4>1. CASE machine.functions[Place].multi
        BY <2>1, <2>2, <3>1, <4>1, ToNext DEF PcieInv
      <4>2. CASE ~ machine.functions[Place].multi
        <5>1. ASSUME NEW p \in There, p[1] = Place[1], p[2] = Place[2]
              PROVE  p[3] <= Place[3]
          <6>1. Place = <<p[1], p[2], 0>>
            BY <2>1, <5>1 DEF Place
          <6>2. p[3] = 0
            BY <4>2, <6>1, MachineAssumption DEF PcieInv, PcieTypeInv, There
          <6> QED BY <6>1, <6>2
        <5> QED BY <2>1, <2>2, <3>1, <4>2, <5>1, ToDevice DEF PcieInv
      <4> QED BY <4>1, <4>2
    <3> QED BY <2>1, <2>2, <3>1, <3>2, FoundKeeps
  <2>3. ASSUME Place \notin There, NotFound, at' = NextDevice(at[1], at[2])
        PROVE  PcieInv'
    <3>1. ASSUME NEW p \in There, p[1] = Place[1], p[2] = Place[2]
          PROVE  p[3] <= Place[3]
      <4>1. Place = <<p[1], p[2], 0>>
        BY <2>1, <3>1 DEF Place
      <4>2. p[3] = 0
        BY <2>3, <4>1, MachineAssumption DEF PcieInv, PcieTypeInv, There
      <4> QED BY <4>1, <4>2
    <3>2. at' \in Loops' \cup {Done} /\ \A p \in There : Seen(p)' <=> Seen(p) \/ p = Place
      BY <2>1, <2>3, <3>1, ToDevice DEF PcieInv, NotFound
    <3> QED BY <2>1, <2>3, <3>2, NotFoundKeeps
  <2> QED
    BY <1>1, <2>2, <2>3 DEF EnumerateDevice, Present, There
<1>2. CASE EnumerateFunction
  <2>1. at # Done /\ at' = NextFunction(at[1], at[2], at[3])
    BY <1>2 DEF EnumerateFunction
  <2>2. UNCHANGED machine
    BY <1>2 DEF EnumerateFunction, Found, NotFound
  <2>3. at' \in Loops' \cup {Done} /\ \A p \in There : Seen(p)' <=> Seen(p) \/ p = Place
    BY <2>1, <2>2, ToNext DEF PcieInv
  <2>4. CASE Place \in There /\ Found(Place, msi)
    BY <2>1, <2>3, <2>4, FoundKeeps DEF PcieInv, PcieTypeInv
  <2>5. CASE Place \notin There /\ NotFound
    BY <2>1, <2>3, <2>5, NotFoundKeeps
  <2> QED
    BY <1>2, <2>4, <2>5 DEF EnumerateFunction, Present, There
<1>3. CASE UNCHANGED pcieVars
  BY <1>3 DEF pcieVars, PcieInv, PcieTypeInv, SeenInv, ListInv, OwnMsi, There, Seen, Before,
              Place, Loops, Msis
<1> QED
  BY <1>1, <1>2, <1>3 DEF Enumerate

\* The invariant of enumeration holds always.
LEMMA PcieInvariance == PcieSpec => []PcieInv
BY PcieInitHolds, PcieNextHolds, PTL DEF PcieSpec

-----------------------------------------------------------------------------
(* The CPUs: bootApus' waiting keeps them apart, and each gets a stack and   *)
(* a task state segment of its own, whichever of them are broken.           *)
(*                                                                          *)
(* The invariant says who may move: while a CPU starts, it is the one whose *)
(* turn it is and bootApus waits for it, with no event queued.  The stack   *)
(* in the info table is then the newest and nobody's yet, and the table of  *)
(* descriptors is filled from below, two entries for each CPU that started. *)

CpusTypeInv ==
  /\ turn \in Nat \ {0}
  /\ bootPc \in BootPcs
  /\ event \in BOOLEAN
  /\ stacks \in Nat /\ table \in Nat
  /\ gdt \in [1 .. GdtSize -> {"free", "segment", "tss", "upper"}]
  /\ pc \in [Others -> Pcs]
  /\ rsp \in [Others -> Nat]
  /\ tss \in [Others -> Nat]

\* bootApus is at a CPU other than its own unless it is between two.
TurnInv == bootPc # "next" => turn \in DOMAIN Cpu /\ Cpu[turn] \in Others

WaitInv ==
  /\ event => bootPc = "waiting"
  /\ \A c \in Starting : bootPc = "waiting" /\ ~event /\ c = Cpu[turn]

\* The stack that the info table names is nobody's until its CPU has read it.
TableIsNew ==
  bootPc \in {"prepared", "suspending"} \/ \E c \in Others : pc[c] = "started"

StackInv ==
  /\ \A c \in Others : rsp[c] <= stacks
  /\ \A c, d \in Others : rsp[c] # 0 /\ rsp[c] = rsp[d] => c = d
  /\ TableIsNew => table = stacks /\ table # 0 /\ \A c \in Others : rsp[c] < table

\* Descriptors of n CPUs besides the boot CPU's.
Filled(n) ==
  [i \in 1 .. GdtSize |->
     IF i <= 2 THEN "segment"
     ELSE IF i > 4 + 2 * n THEN "free"
     ELSE IF \E k \in 0 .. n : i = 3 + 2 * k THEN "tss" ELSE "upper"]

Selecting == \E c \in Others : pc[c] \in {"started", "hasStack", "hasSelector"}

\* Another CPU's descriptor is among the first n, unless it has only chosen it.
GdtIs(n) ==
  /\ gdt = Filled(n)
  /\ n < turn \/ (n = turn /\ bootPc = "waiting" /\ ~Selecting)
  /\ \A c \in Others :
       /\ pc[c] = "hasSelector" => tss[c] = 5 + 2 * n
       /\ pc[c] # "hasSelector" /\ tss[c] # 0 => \E k \in 1 .. n : tss[c] = 3 + 2 * k
  /\ \A c, d \in Others : tss[c] # 0 /\ tss[c] = tss[d] => c = d

GdtInv == \E n \in Nat : GdtIs(n)

CpusInv == CpusTypeInv /\ TurnInv /\ WaitInv /\ StackInv /\ GdtInv

-----------------------------------------------------------------------------
\* bootApus starts with every other CPU off and the boot CPU's own descriptors.
LEMMA CpusInitHolds == CpusInit /\ broken \in SUBSET Others => CpusInv
<1> SUFFICES ASSUME CpusInit PROVE CpusInv
  OBVIOUS
<1> USE CpuAssumption DEF CpusInit
<1>1. CpusTypeInv
  <2>1. gdt \in [1 .. GdtSize -> {"free", "segment", "tss", "upper"}]
    BY SMT
  <2>2. pc \in [Others -> Pcs] /\ rsp \in [Others -> Nat] /\ tss \in [Others -> Nat]
    BY DEF Pcs
  <2>3. turn \in Nat \ {0} /\ stacks \in Nat /\ table \in Nat
    OBVIOUS
  <2>4. bootPc \in BootPcs /\ event \in BOOLEAN
    BY DEF BootPcs
  <2> QED
    BY <2>1, <2>2, <2>3, <2>4 DEF CpusTypeInv
<1>2. Starting = {}
  BY DEF Starting
<1>3. TurnInv /\ WaitInv /\ StackInv
  BY <1>2 DEF TurnInv, WaitInv, StackInv, TableIsNew
<1>4. gdt = Filled(0)
  BY SMT DEF Filled
<1>5. GdtIs(0)
  <2>1. 0 < turn
    OBVIOUS
  <2>2. \A c \in Others : tss[c] = 0 /\ pc[c] # "hasSelector"
    OBVIOUS
  <2> HIDE DEF CpusInit
  <2>3. 0 < turn \/ (0 = turn /\ bootPc = "waiting" /\ ~Selecting)
    BY <2>1
  <2>4. \A c \in Others :
          /\ pc[c] = "hasSelector" => tss[c] = 5 + 2 * 0
          /\ pc[c] # "hasSelector" /\ tss[c] # 0 => \E k \in 1 .. 0 : tss[c] = 3 + 2 * k
    BY <2>2
  <2>5. \A c, d \in Others : tss[c] # 0 /\ tss[c] = tss[d] => c = d
    BY <2>2
  <2> QED
    BY <2>3, <2>4, <2>5, <1>4, Zenon DEF GdtIs
<1> QED
  BY <1>1, <1>3, <1>5 DEF CpusInv, GdtInv

\* The first two free entries of the GDT are a pair.
LEMMA FirstFree ==
  ASSUME NEW n \in Nat, 6 + 2 * n <= GdtSize, GdtSize \in Nat, gdt = Filled(n)
  PROVE  AvailableSelector = 5 + 2 * n
<1> DEFINE S == {i \in DOMAIN gdt : gdt[i] = "free"}
           m == 5 + 2 * n
<1>1. \A i \in 1 .. GdtSize : gdt[i] = "free" <=> i >= m
  BY SMT DEF Filled
<1>2. DOMAIN gdt = 1 .. GdtSize
  BY DEF Filled
<1>3. m \in S /\ \A j \in S : m <= j
  BY <1>1, <1>2, SMT
<1>4. S \subseteq Int
  BY <1>2, SMT
<1> HIDE DEF S, m
<1>5. Least(S) = m
  <2>1. \E i \in S : \A j \in S : i <= j
    BY <1>3
  <2>2. Least(S) \in S /\ \A j \in S : Least(S) <= j
    BY <2>1, Zenon DEF Least
  <2>3. Least(S) <= m /\ m <= Least(S)
    BY <1>3, <2>2
  <2>4. Least(S) \in Int /\ m \in Int
    BY <1>3, <1>4, <2>2
  <2> QED
    BY <2>3, <2>4, SMT
<1> QED
  BY <1>5 DEF AvailableSelector, S, m

\* One more task state segment, above those that are there.
LEMMA FillOne ==
  ASSUME NEW n \in Nat, 6 + 2 * n <= GdtSize, GdtSize \in Nat
  PROVE  [Filled(n) EXCEPT ![5 + 2 * n] = "tss", ![5 + 2 * n + 1] = "upper"] = Filled(n + 1)
<1> DEFINE f == [Filled(n) EXCEPT ![5 + 2 * n] = "tss", ![5 + 2 * n + 1] = "upper"]
<1> SUFFICES ASSUME NEW i \in 1 .. GdtSize PROVE f[i] = Filled(n + 1)[i]
  BY DEF Filled
<1>1. f[i] = IF i = 6 + 2 * n THEN "upper" ELSE IF i = 5 + 2 * n THEN "tss" ELSE Filled(n)[i]
  <2>1. Filled(n) = [j \in 1 .. GdtSize |-> Filled(n)[j]]
    BY DEF Filled
  <2>2. 5 + 2 * n \in 1 .. GdtSize /\ 5 + 2 * n + 1 = 6 + 2 * n
    BY SMT
  <2> HIDE DEF Filled
  <2> QED
    BY <2>1, <2>2, SMT
<1>2. CASE i <= 4 + 2 * n
  <2>1. (\E k \in 0 .. n : i = 3 + 2 * k) <=> (\E k \in 0 .. n + 1 : i = 3 + 2 * k)
    BY <1>2, SMT
  <2> QED
    BY <1>1, <1>2, <2>1, SMT DEF Filled
<1>3. CASE i = 5 + 2 * n
  <2>1. \E k \in 0 .. n + 1 : i = 3 + 2 * k
    <3>1. n + 1 \in 0 .. n + 1 /\ i = 3 + 2 * (n + 1)
      BY <1>3, SMT
    <3> QED
      BY <3>1
  <2> QED
    BY <1>1, <1>3, <2>1, SMT DEF Filled
<1>4. CASE i = 6 + 2 * n
  <2>1. ~ \E k \in 0 .. n + 1 : i = 3 + 2 * k
    BY <1>4, SMT
  <2> QED
    BY <1>1, <1>4, <2>1, SMT DEF Filled
<1>5. CASE i > 6 + 2 * n
  BY <1>1, <1>5, SMT DEF Filled
<1> QED
  BY <1>2, <1>3, <1>4, <1>5, SMT

\* While a CPU starts it is the only one, and there is room for its descriptor.
LEMMA OneStarts ==
  ASSUME CpusInv, NEW c \in Starting
  PROVE  /\ c \in Others /\ c = Cpu[turn] /\ bootPc = "waiting" /\ ~event
         /\ \A d \in Starting : d = c
         /\ turn \in Nat /\ turn <= Len(Cpu)
<1>1. c = Cpu[turn] /\ bootPc = "waiting" /\ ~event /\ \A d \in Starting : d = Cpu[turn]
  BY DEF CpusInv, WaitInv
<1>2. turn \in DOMAIN Cpu
  BY <1>1 DEF CpusInv, TurnInv
<1>3. DOMAIN Cpu = 1 .. Len(Cpu) /\ Len(Cpu) \in Nat
  BY CpuAssumption
<1> QED
  BY <1>1, <1>2, <1>3 DEF CpusInv, CpusTypeInv, Starting

\* A CPU that starts finds two free entries: the GDT has two for each CPU.
LEMMA Room ==
  ASSUME CpusInv, NEW c \in Starting, NEW n \in Nat, n < turn
  PROVE  6 + 2 * n <= GdtSize /\ GdtSize \in Nat
<1>1. turn \in Nat /\ turn <= Len(Cpu)
  BY OneStarts
<1>2. GdtSize \in Nat /\ GdtSize >= 4 + 2 * Len(Cpu) /\ Len(Cpu) \in Nat
  BY CpuAssumption
<1> QED
  BY <1>1, <1>2, SMT

\* GDT::getAvailableSelector gives the entry after those in use.
LEMMA SelectorIs ==
  ASSUME CpusInv, NEW c \in Starting, NEW n \in Nat, GdtIs(n), Selecting
  PROVE  AvailableSelector = 5 + 2 * n
<1>1. n < turn
  BY DEF GdtIs
<1>2. 6 + 2 * n <= GdtSize /\ GdtSize \in Nat
  BY <1>1, Room
<1> QED
  BY <1>2, FirstFree DEF GdtIs

-----------------------------------------------------------------------------
\* Every step of bootApus and of apuMain keeps the variables in their types.
LEMMA CpusTypeNext == CpusInv /\ [CpusNext]_cpuVars => CpusTypeInv'
<1> SUFFICES ASSUME CpusInv, [CpusNext]_cpuVars PROVE CpusTypeInv'
  OBVIOUS
<1> USE DEF CpusTypeInv, CpusInv
<1>1. CASE SkipBootCpu
  BY <1>1 DEF SkipBootCpu
<1>2. CASE Prepare
  BY <1>2 DEF Prepare, BootPcs
<1>3. CASE AwaitSuspend
  <2>1. pc' \in [Others -> Pcs]
    BY <1>3 DEF AwaitSuspend, StoreAwaiter, SendSipi, Pcs
  <2>2. bootPc' \in BootPcs
    BY <1>3 DEF AwaitSuspend, BootPcs
  <2> QED
    BY <1>3, <2>1, <2>2 DEF AwaitSuspend
<1>4. CASE GoOn
  <2>1. turn' \in Nat \ {0}
    BY <1>4 DEF GoOn
  <2>2. bootPc' \in BootPcs /\ event' \in BOOLEAN
    BY <1>4 DEF GoOn, BootPcs
  <2> QED
    BY <1>4, <2>1, <2>2 DEF GoOn
<1>5. ASSUME NEW c \in Others, CpuStep(c) PROVE CpusTypeInv'
  <2>1. pc' \in [Others -> Pcs]
    BY <1>5 DEF CpuStep, ReadTable, Halt, FindSelector, InstallTss, Report, Pcs
  <2>2. CASE ReadTable(c)
    BY <2>1, <2>2 DEF ReadTable
  <2>3. CASE Halt(c)
    BY <2>1, <2>3 DEF Halt
  <2>4. CASE FindSelector(c)
    <3>1. c \in Starting /\ Selecting
      BY <2>4 DEF FindSelector, Starting, Selecting
    <3>2. PICK n \in Nat : GdtIs(n)
      BY DEF GdtInv
    <3>3. AvailableSelector \in Nat
      BY <3>1, <3>2, SelectorIs, SMT
    <3> QED
      BY <2>1, <2>4, <3>3 DEF FindSelector
  <2>5. CASE InstallTss(c)
    <3>1. gdt' \in [1 .. GdtSize -> {"free", "segment", "tss", "upper"}]
      BY <2>5 DEF InstallTss
    <3> QED
      BY <2>1, <2>5, <3>1 DEF InstallTss
  <2>6. CASE Report(c)
    <3>1. event' \in BOOLEAN
      BY <2>6 DEF Report
    <3> QED
      BY <2>1, <2>6, <3>1 DEF Report
  <2> QED
    BY <1>5, <2>2, <2>3, <2>4, <2>5, <2>6 DEF CpuStep
<1>6. CASE UNCHANGED cpuVars
  BY <1>6 DEF cpuVars
<1> QED
  BY <1>1, <1>2, <1>3, <1>4, <1>5, <1>6 DEF CpusNext, BootCpuStep

\* bootApus waits while a CPU starts, and is woken only once it has reported.
LEMMA WaitNext == CpusInv /\ [CpusNext]_cpuVars => TurnInv' /\ WaitInv'
<1> SUFFICES ASSUME CpusInv, [CpusNext]_cpuVars PROVE TurnInv' /\ WaitInv'
  OBVIOUS
<1>0. TurnInv /\ WaitInv /\ pc \in [Others -> Pcs] /\ bootPc \in BootPcs
  BY DEF CpusInv, CpusTypeInv
<1>1. CASE SkipBootCpu
  BY <1>0, <1>1 DEF SkipBootCpu, TurnInv, WaitInv, Starting
<1>2. CASE Prepare
  <2>1. Cpu[turn] \in Others /\ turn \in DOMAIN Cpu
    BY <1>2, CpuAssumption DEF Prepare, Others, CpusInv, CpusTypeInv
  <2>2. Starting' = Starting /\ Starting = {} /\ ~event
    BY <1>0, <1>2 DEF Prepare, WaitInv, Starting
  <2> QED
    BY <1>2, <2>1, <2>2 DEF Prepare, TurnInv, WaitInv
<1>3. CASE AwaitSuspend
  <2>1. Starting = {} /\ ~event /\ turn \in DOMAIN Cpu /\ Cpu[turn] \in Others
    BY <1>0, <1>3 DEF AwaitSuspend, WaitInv, TurnInv
  <2>2. CASE bootPc = "prepared"
    BY <1>3, <2>1, <2>2 DEF AwaitSuspend, StoreAwaiter, TurnInv, WaitInv, Starting
  <2>3. CASE bootPc = "suspending"
    <3>1. bootPc' = "waiting" /\ turn' = turn /\ event' = event
      BY <1>3, <2>3 DEF AwaitSuspend
    <3>2. Starting' \subseteq {Cpu[turn]}
      BY <1>0, <1>3, <2>1, <2>3 DEF AwaitSuspend, SendSipi, Starting
    <3> QED
      BY <2>1, <3>1, <3>2 DEF TurnInv, WaitInv
  <2> QED
    BY <1>3, <2>2, <2>3 DEF AwaitSuspend
<1>4. CASE GoOn
  BY <1>0, <1>4 DEF GoOn, TurnInv, WaitInv, Starting
<1>5. ASSUME NEW c \in Others, CpuStep(c) PROVE TurnInv' /\ WaitInv'
  <2>1. c \in Starting
    BY <1>5 DEF CpuStep, ReadTable, Halt, FindSelector, InstallTss, Report, Starting
  <2>2. bootPc = "waiting" /\ ~event /\ c = Cpu[turn] /\ \A d \in Starting : d = c
    BY <2>1, OneStarts
  <2>3. bootPc' = bootPc /\ turn' = turn /\ \A d \in Others \ {c} : pc'[d] = pc[d]
    BY <1>0, <1>5 DEF CpuStep, ReadTable, Halt, FindSelector, InstallTss, Report
  <2>4. Starting' \subseteq {c}
    BY <2>2, <2>3 DEF Starting
  <2>5. event' = event \/ (Starting' = {} /\ event' \in BOOLEAN)
    BY <1>0, <1>5, <2>4 DEF CpuStep, ReadTable, Halt, FindSelector, InstallTss, Report, Starting
  <2> QED
    BY <1>0, <2>2, <2>3, <2>4, <2>5 DEF TurnInv, WaitInv
<1>6. CASE UNCHANGED cpuVars
  BY <1>0, <1>6 DEF cpuVars, TurnInv, WaitInv, Starting
<1> QED
  BY <1>1, <1>2, <1>3, <1>4, <1>5, <1>6 DEF CpusNext, BootCpuStep

\* The stack that the info table names goes to one CPU only.
LEMMA StackNext == CpusInv /\ [CpusNext]_cpuVars => StackInv'
<1> SUFFICES ASSUME CpusInv, [CpusNext]_cpuVars PROVE StackInv'
  OBVIOUS
<1>0. /\ StackInv /\ stacks \in Nat /\ table \in Nat
      /\ rsp \in [Others -> Nat] /\ pc \in [Others -> Pcs]
  BY DEF CpusInv, CpusTypeInv
<1>1. CASE SkipBootCpu \/ GoOn
  <2>1. rsp' = rsp /\ stacks' = stacks /\ table' = table /\ pc' = pc
    BY <1>1 DEF SkipBootCpu, GoOn
  <2>2. TableIsNew' => TableIsNew
    BY <1>1, <2>1 DEF SkipBootCpu, GoOn, TableIsNew
  <2> QED
    BY <1>0, <2>1, <2>2 DEF StackInv
<1>2. CASE Prepare
  <2>1. rsp' = rsp /\ stacks' = stacks + 1 /\ table' = stacks + 1
    BY <1>2 DEF Prepare
  <2>2. \A c \in Others : rsp[c] <= stacks /\ rsp[c] \in Nat
    BY <1>0 DEF StackInv
  <2>3. \A c \in Others : rsp'[c] <= stacks' /\ rsp'[c] < table'
    BY <1>0, <2>1, <2>2, SMT
  <2>4. table' = stacks' /\ table' # 0
    BY <1>0, <2>1
  <2> QED
    BY <1>0, <2>1, <2>3, <2>4 DEF StackInv
<1>3. CASE AwaitSuspend
  <2>1. rsp' = rsp /\ stacks' = stacks /\ table' = table /\ TableIsNew
    BY <1>3 DEF AwaitSuspend, TableIsNew
  <2> QED
    BY <1>0, <2>1 DEF StackInv
<1>4. ASSUME NEW c \in Others, CpuStep(c) PROVE StackInv'
  <2>1. stacks' = stacks /\ table' = table /\ bootPc' = bootPc
    BY <1>4 DEF CpuStep, ReadTable, Halt, FindSelector, InstallTss, Report
  <2>2. \A d \in Others : pc'[d] = "started" => pc[d] = "started"
    BY <1>0, <1>4 DEF CpuStep, ReadTable, Halt, FindSelector, InstallTss, Report
  <2>3. CASE ReadTable(c)
    <3>1. TableIsNew /\ c \in Starting
      BY <2>3 DEF ReadTable, TableIsNew, Starting
    <3>2. ~TableIsNew'
      <4>1. bootPc = "waiting" /\ \A d \in Starting : d = c
        BY <3>1, OneStarts
      <4>2. \A d \in Others : pc'[d] # "started"
        BY <1>0, <2>3, <4>1 DEF ReadTable, Starting
      <4> QED
        BY <2>1, <4>1, <4>2 DEF TableIsNew
    <3>3. table = stacks /\ \A d \in Others : rsp[d] < table /\ rsp[d] \in Nat
      BY <1>0, <3>1 DEF StackInv
    <3>4. rsp' = [rsp EXCEPT ![c] = table]
      BY <2>3 DEF ReadTable
    <3>5. \A d \in Others : rsp'[d] <= stacks'
      BY <1>0, <2>1, <3>3, <3>4, SMT
    <3>6. \A d, e \in Others : rsp'[d] # 0 /\ rsp'[d] = rsp'[e] => d = e
      <4> TAKE d, e \in Others
      <4>1. rsp'[d] = (IF d = c THEN table ELSE rsp[d]) /\ rsp'[e] = (IF e = c THEN table ELSE rsp[e])
        BY <1>0, <3>4
      <4>2. rsp[d] < table /\ rsp[e] < table /\ rsp[d] \in Nat /\ rsp[e] \in Nat
        BY <3>3
      <4>3. rsp[d] # 0 /\ rsp[d] = rsp[e] => d = e
        BY <1>0 DEF StackInv
      <4> QED
        BY <1>0, <4>1, <4>2, <4>3
    <3> QED
      BY <3>2, <3>5, <3>6 DEF StackInv
  <2>4. CASE ~ReadTable(c)
    <3>1. rsp' = rsp
      BY <1>4, <2>4 DEF CpuStep, Halt, FindSelector, InstallTss, Report
    <3>2. TableIsNew' => TableIsNew
      BY <2>1, <2>2 DEF TableIsNew
    <3> QED
      BY <1>0, <2>1, <3>1, <3>2 DEF StackInv
  <2> QED
    BY <2>3, <2>4
<1>5. CASE UNCHANGED cpuVars
  BY <1>0, <1>5 DEF cpuVars, StackInv, TableIsNew
<1> QED
  BY <1>1, <1>2, <1>3, <1>4, <1>5 DEF CpusNext, BootCpuStep

\* The GDT stays filled from below as bootApus goes round and CPUs install
\* their task state segments: GDT::getAvailableSelector with createAndInstall.
LEMMA GdtNext == CpusInv /\ [CpusNext]_cpuVars => GdtInv'
<1> SUFFICES ASSUME CpusInv, [CpusNext]_cpuVars PROVE GdtInv'
  OBVIOUS
<1>0. PICK n \in Nat : GdtIs(n)
  BY DEF CpusInv, GdtInv
<1>a. /\ pc \in [Others -> Pcs] /\ tss \in [Others -> Nat] /\ turn \in Nat
      /\ \A c \in Others : /\ pc[c] = "hasSelector" => tss[c] = 5 + 2 * n
                           /\ pc[c] # "hasSelector" /\ tss[c] # 0 => \E k \in 1 .. n : tss[c] = 3 + 2 * k
      /\ \A c, d \in Others : tss[c] # 0 /\ tss[c] = tss[d] => c = d
      /\ gdt = Filled(n)
      /\ n < turn \/ (n = turn /\ bootPc = "waiting" /\ ~Selecting)
  BY <1>0 DEF CpusInv, CpusTypeInv, GdtIs
<1>1. ASSUME gdt' = gdt, tss' = tss,
             \A c \in Others : pc'[c] = "hasSelector" <=> pc[c] = "hasSelector",
             n < turn' \/ (n = turn' /\ bootPc' = "waiting" /\ ~Selecting')
      PROVE  GdtInv'
  <2>1. \A c \in Others : /\ pc'[c] = "hasSelector" => tss'[c] = 5 + 2 * n
                          /\ pc'[c] # "hasSelector" /\ tss'[c] # 0 => \E k \in 1 .. n : tss'[c] = 3 + 2 * k
    BY <1>1, <1>a
  <2>2. \A c, d \in Others : tss'[c] # 0 /\ tss'[c] = tss'[d] => c = d
    BY <1>1, <1>a
  <2>3. gdt' = Filled(n)'
    BY <1>1, <1>a DEF Filled
  <2>4. GdtIs(n)'
    BY <1>1, <2>1, <2>2, <2>3 DEF GdtIs
  <2> QED
    BY <2>4 DEF GdtInv
<1>2. CASE SkipBootCpu \/ Prepare \/ GoOn
  <2>1. gdt' = gdt /\ tss' = tss /\ pc' = pc
    BY <1>2 DEF SkipBootCpu, Prepare, GoOn
  <2>2. n < turn'
    <3>1. CASE SkipBootCpu \/ Prepare
      <4>1. n < turn /\ (turn' = turn \/ turn' = turn + 1)
        BY <1>a, <3>1 DEF SkipBootCpu, Prepare
      <4> QED
        BY <1>a, <4>1, SMT
    <3>2. CASE GoOn
      <4>1. turn' = turn + 1 /\ (n < turn \/ n = turn)
        BY <1>a, <3>2 DEF GoOn
      <4> QED
        BY <1>a, <4>1, SMT
    <3> QED
      BY <1>2, <3>1, <3>2
  <2> QED
    BY <1>1, <2>1, <2>2
<1>3. CASE AwaitSuspend
  <2>1. gdt' = gdt /\ tss' = tss /\ turn' = turn /\ bootPc # "waiting"
    BY <1>3 DEF AwaitSuspend
  <2>2. \A c \in Others : pc[c] # "hasSelector" /\ pc'[c] # "hasSelector"
    <3>1. \A c \in Others : pc[c] # "hasSelector"
      BY <2>1, OneStarts DEF Starting
    <3> QED
      BY <1>a, <1>3, <3>1 DEF AwaitSuspend, StoreAwaiter, SendSipi
  <2> QED
    BY <1>1, <1>a, <2>1, <2>2
<1>4. ASSUME NEW c \in Others, CpuStep(c) PROVE GdtInv'
  <2>0. turn' = turn /\ bootPc' = bootPc /\ \A d \in Others \ {c} : pc'[d] = pc[d]
    BY <1>a, <1>4 DEF CpuStep, ReadTable, Halt, FindSelector, InstallTss, Report
  <2>a. c \in Starting
    BY <1>4 DEF CpuStep, ReadTable, Halt, FindSelector, InstallTss, Report, Starting
  <2>b. \A d \in Others \ {c} : pc[d] \notin {"started", "hasStack", "hasSelector"}
    BY <2>a, OneStarts DEF Starting
  <2>c. bootPc = "waiting"
    BY <2>a, OneStarts
  <2>1. CASE ReadTable(c) \/ Halt(c) \/ Report(c)
    <3>1. gdt' = gdt /\ tss' = tss /\ pc[c] # "hasSelector" /\ pc'[c] # "hasSelector"
      BY <1>a, <2>1 DEF ReadTable, Halt, Report
    <3>2. Selecting' => Selecting
      BY <1>a, <2>0, <2>1 DEF ReadTable, Halt, Report, Selecting
    <3> QED
      BY <1>1, <1>a, <2>0, <3>1, <3>2
  <2>2. CASE FindSelector(c)
    <3>1. Selecting /\ AvailableSelector = 5 + 2 * n
      BY <1>0, <2>a, <2>2, SelectorIs DEF FindSelector, Selecting
    <3>2. n < turn
      BY <1>a, <3>1
    <3>3. /\ tss' = [tss EXCEPT ![c] = 5 + 2 * n] /\ gdt' = gdt
          /\ pc' = [pc EXCEPT ![c] = "hasSelector"]
      BY <2>2, <3>1 DEF FindSelector
    <3>4. \A d \in Others \ {c} : pc[d] # "hasSelector" /\ pc'[d] = pc[d] /\ tss'[d] = tss[d]
      BY <1>a, <2>b, <3>3
    <3>5. tss'[c] = 5 + 2 * n /\ pc'[c] = "hasSelector"
      BY <1>a, <3>3
    <3>6. \A d \in Others \ {c} : tss[d] # 5 + 2 * n
      <4> TAKE d \in Others \ {c}
      <4>1. CASE tss[d] = 0
        BY <4>1, SMT
      <4>2. CASE tss[d] # 0
        <5>1. PICK k \in 1 .. n : tss[d] = 3 + 2 * k
          BY <1>a, <3>4, <4>2
        <5> QED
          BY <5>1, SMT
      <4> QED
        BY <4>1, <4>2
    <3>7. \A d \in Others : /\ pc'[d] = "hasSelector" => tss'[d] = 5 + 2 * n
                            /\ pc'[d] # "hasSelector" /\ tss'[d] # 0 => \E k \in 1 .. n : tss'[d] = 3 + 2 * k
      BY <1>a, <3>4, <3>5
    <3>8. \A d, e \in Others : tss'[d] # 0 /\ tss'[d] = tss'[e] => d = e
      BY <1>a, <3>4, <3>5, <3>6
    <3>9. GdtIs(n)'
      <4>1. gdt' = Filled(n)'
        BY <1>a, <3>3 DEF Filled
      <4> QED
        BY <2>0, <3>2, <3>7, <3>8, <4>1 DEF GdtIs
    <3> QED
      BY <3>9 DEF GdtInv
  <2>3. CASE InstallTss(c)
    <3>1. pc[c] = "hasSelector" /\ Selecting /\ n < turn /\ tss[c] = 5 + 2 * n
      BY <1>a, <2>3 DEF InstallTss, Selecting
    <3>2. gdt' = Filled(n + 1)'
      <4>1. 6 + 2 * n <= GdtSize /\ GdtSize \in Nat
        BY <2>a, <3>1, Room
      <4>2. gdt' = Filled(n + 1)
        BY <1>a, <2>3, <3>1, <4>1, FillOne DEF InstallTss
      <4> QED
        BY <4>2 DEF Filled
    <3>3. tss' = tss /\ pc' = [pc EXCEPT ![c] = "hasTss"]
      BY <2>3 DEF InstallTss
    <3>4. ~Selecting'
      BY <1>a, <2>b, <3>3 DEF Selecting
    <3>5. n + 1 \in Nat /\ (n + 1 < turn \/ n + 1 = turn)
      BY <1>a, <3>1, SMT
    <3>6. \A d \in Others : /\ pc'[d] # "hasSelector"
                            /\ tss'[d] # 0 => \E k \in 1 .. n + 1 : tss'[d] = 3 + 2 * k
      <4> TAKE d \in Others
      <4>1. pc'[d] # "hasSelector"
        BY <3>4 DEF Selecting
      <4>2. CASE d = c
        <5>1. n + 1 \in 1 .. n + 1 /\ tss'[d] = 3 + 2 * (n + 1)
          BY <3>1, <3>3, <4>2, SMT
        <5> QED
          BY <4>1, <5>1
      <4>3. CASE d # c /\ tss[d] # 0
        <5>1. PICK k \in 1 .. n : tss[d] = 3 + 2 * k
          BY <1>a, <2>b, <4>3
        <5>2. k \in 1 .. n + 1
          BY <5>1, SMT
        <5> QED
          BY <3>3, <4>1, <5>1, <5>2
      <4>4. CASE d # c /\ tss[d] = 0
        BY <3>3, <4>1, <4>4
      <4> QED
        BY <4>2, <4>3, <4>4
    <3>7. \A d, e \in Others : tss'[d] # 0 /\ tss'[d] = tss'[e] => d = e
      BY <1>a, <3>3
    <3>8. GdtIs(n + 1)'
      BY <2>0, <2>c, <3>2, <3>4, <3>5, <3>6, <3>7 DEF GdtIs
    <3> QED
      BY <3>5, <3>8 DEF GdtInv
  <2> QED
    BY <1>4, <2>1, <2>2, <2>3 DEF CpuStep
<1>5. CASE UNCHANGED cpuVars
  <2>1. gdt' = gdt /\ tss' = tss /\ pc' = pc /\ turn' = turn /\ bootPc' = bootPc
    BY <1>5 DEF cpuVars
  <2>2. Selecting' <=> Selecting
    BY <2>1 DEF Selecting
  <2> QED
    BY <1>1, <1>a, <2>1, <2>2
<1> QED
  BY <1>2, <1>3, <1>4, <1>5 DEF CpusNext, BootCpuStep

\* Every run of bootApus with the CPUs it starts keeps the invariant.
LEMMA CpusInvariance == CpusSpec => []CpusInv
<1>1. CpusInit /\ broken \in SUBSET Others => CpusInv
  BY CpusInitHolds
<1>2. CpusInv /\ [CpusNext]_cpuVars => CpusInv'
  BY CpusTypeNext, WaitNext, StackNext, GdtNext DEF CpusInv
<1> QED
  BY <1>1, <1>2, PTL DEF CpusSpec

-----------------------------------------------------------------------------
(* The parts in the main flow *)

\* The main flow takes the steps of enumeration and of the CPUs as they are by
\* themselves, and its other steps leave both alone.
LEMMA StepsOfParts == [Next]_vars => [Enumerate]_pcieVars /\ [CpusNext]_cpuVars
<1> SUFFICES ASSUME [Next]_vars
             PROVE  [Enumerate]_pcieVars /\ [CpusNext]_cpuVars
  OBVIOUS
<1>1. CASE EnumerateBuses
  BY <1>1 DEF EnumerateBuses
<1>2. CASE FailToMap \/ BeginDrivers \/ StartDrivers \/ BeginFileSystems \/ SkipDevice
           \/ ReadSector \/ SectorRead \/ EndFileSystems
  BY <1>2 DEF FailToMap, CannotMap, BeginDrivers, StartDrivers, BeginFileSystems, SkipDevice,
              ReadSector, SectorRead, EndFileSystems
<1>3. CASE OpenRoot \/ GoOnWithCall \/ RootFound \/ OpenApu \/ ReadApu
  BY <1>3 DEF OpenRoot, GoOnWithCall, RootFound, OpenApu, ReadApu, UsesFileSystem
<1>4. CASE BeginCpus \/ CallFailed \/ EndCpus \/ FailToPrepare \/ UseMovedController
           \/ HardwareStep
  BY <1>4 DEF BeginCpus, CallFailed, EndCpus, FailToPrepare, UseMovedController, HardwareStep
<1>5. CASE StartCpus
  BY <1>5 DEF StartCpus, CpusNext
<1>6. CASE \E c \in Others : OtherCpu(c)
  BY <1>6 DEF OtherCpu, CpusNext
<1>7. CASE UNCHANGED vars
  BY <1>7 DEF vars
<1> QED
  BY <1>1, <1>2, <1>3, <1>4, <1>5, <1>6, <1>7 DEF Next, MainFlow

\* On any machines, the main flow runs PCIe::enumerate and the loop of bootApus
\* with apuMain as they are by themselves: what it does beside them does not
\* touch what they keep.
THEOREM PartsByThemselves == Spec => PcieSpec /\ CpusSpec
<1>1. Init => PcieInit /\ CpusInit /\ broken \in SUBSET Others
  BY BrokenAssumption DEF Init, PcieInit
<1> QED
  BY <1>1, StepsOfParts, PTL DEF Spec, PcieSpec, CpusSpec

\* A configuration page is mapped exactly for the functions that were found, and
\* when enumeration ends those are all there are, on any machine whose buses
\* end before the last number.
THEOREM PagesCorrect == Spec => []PagesAreTheFunctions
<1>1. PcieInv => PagesAreTheFunctions
  BY DEF PcieInv, SeenInv, ListInv, Seen, There, PagesAreTheFunctions
<1> QED
  BY <1>1, PcieInvariance, PartsByThemselves, PTL

\* While a CPU runs apuMain, no other does and bootApus neither runs nor is
\* about to be resumed: the wait in ApuAwaiter takes the place of a lock.
THEOREM CpusStartOneAtATime == Spec => []OneCpuAtATime
<1>1. CpusInv => OneCpuAtATime
  BY OneStarts DEF OneCpuAtATime
<1> QED
  BY <1>1, CpusInvariance, PartsByThemselves, PTL

\* No stack and no task state segment is ever shared, whatever the number of
\* CPUs that the GDT has room for and whichever of them break down.
THEOREM OwnStacksAndSegments == Spec => []StacksAndSegmentsAreOwn
<1>1. ASSUME CpusInv PROVE StacksAndSegmentsAreOwn
  <2>0. PICK n \in Nat : GdtIs(n)
    BY <1>1 DEF CpusInv, GdtInv
  <2>1. \A c, d \in {e \in Others : rsp[e] # 0} : rsp[c] = rsp[d] => c = d
    BY <1>1 DEF CpusInv, StackInv
  <2>2. \A c \in Others : tss[c] = 0 \/ \E k \in 1 .. n + 1 : tss[c] = 3 + 2 * k
    <3> TAKE c \in Others
    <3>1. CASE pc[c] = "hasSelector"
      <4>1. tss[c] = 5 + 2 * n
        BY <2>0, <3>1 DEF GdtIs
      <4>2. n + 1 \in 1 .. n + 1 /\ tss[c] = 3 + 2 * (n + 1)
        BY <4>1, SMT
      <4> QED
        BY <4>2
    <3>2. CASE pc[c] # "hasSelector" /\ tss[c] # 0
      <4>1. PICK k \in 1 .. n : tss[c] = 3 + 2 * k
        BY <2>0, <3>2 DEF GdtIs
      <4>2. k \in 1 .. n + 1
        BY <4>1, SMT
      <4> QED
        BY <4>1, <4>2
    <3> QED
      BY <3>1, <3>2
  <2>3. \A c \in Others, d \in Others : tss[c] # 0 /\ tss[c] = tss[d] => c = d
    BY <2>0 DEF GdtIs
  <2>4. ASSUME NEW c \in {e \in Others : tss[e] # 0}
        PROVE  /\ Descriptor(c) \cap 1 .. 4 = {}
               /\ \A d \in Others : Descriptor(c) \cap Descriptor(d) # {} => c = d
    <3>1. PICK k \in 1 .. n + 1 : tss[c] = 3 + 2 * k
      BY <2>2, <2>4
    <3>2. Descriptor(c) \cap 1 .. 4 = {}
      BY <3>1, SMT DEF Descriptor
    <3>3. ASSUME NEW d \in Others, Descriptor(c) \cap Descriptor(d) # {}
          PROVE  c = d
      <4>1. PICK x : x \in {tss[c], tss[c] + 1} /\ x \in {tss[d], tss[d] + 1}
        BY <3>3 DEF Descriptor
      <4>2. CASE tss[d] = 0
        BY <3>1, <4>1, <4>2, SMT
      <4>3. CASE tss[d] # 0
        <5>1. PICK j \in 1 .. n + 1 : tss[d] = 3 + 2 * j
          BY <2>2, <4>3
        <5>2. tss[c] = tss[d]
          BY <3>1, <4>1, <5>1, SMT
        <5> QED
          BY <2>3, <2>4, <5>2
      <4> QED
        BY <4>2, <4>3
    <3> QED
      BY <3>2, <3>3
  <2> QED
    BY <2>1, <2>4 DEF StacksAndSegmentsAreOwn
<1> QED
  BY <1>1, CpusInvariance, PartsByThemselves, PTL

-----------------------------------------------------------------------------
(* The AHCI controllers and the interrupts of their devices *)

Used == {"SATA", "SATAPI"}

DeviceRecords == [port : 0 .. PortCount, type : Used, moved : BOOLEAN]

ControllerRecords == [place : There, devices : Seq(DeviceRecords)]

\* Controller a[1] of a list has a device at port a[2].
Reaches(list, a) ==
  a[1] \in DOMAIN list /\ \E i \in DOMAIN list[a[1]].devices : list[a[1]].devices[i].port = a[2]

\* A list of devices may be indexed by port.
InOrder(c) ==
  PortsFromZero(c.place) => \A i \in DOMAIN c.devices : c.devices[i].port = i - 1

\* The first n ports of a controller have been looked at.  Fewer devices are
\* listed only if one of these ports has none.
LookedAt(c, n) ==
  /\ Len(c.devices) <= n
  /\ Len(c.devices) < n => \E p \in 0 .. n - 1 : At(c.place, p) \notin Used

DriverTypeInv ==
  /\ next \in Nat \ {0}
  /\ port \in 0 .. PortCount
  /\ controllers \in Seq(ControllerRecords)
  /\ probe \in [controller : Nat \ {0}, device : Nat, sector : Nat]

\* MSI is enabled for every controller that is listed.
ControllersInv ==
  \A k \in DOMAIN controllers : controllers[k].place \in messages /\ InOrder(controllers[k])

\* Only devices that are listed are waited for.
AskedInv ==
  /\ asked = <<>> \/ Reaches(controllers, asked)
  /\ iso = <<>> \/ Reaches(controllers, iso)

LookedAtNow == IF asked = <<>> THEN port ELSE port + 1

\* Where the driver is in the loop over the ports of a controller.
StageInv ==
  failed = "no" =>
    /\ stage \in {"enumerate", "startPcieDrivers"} => Me.pc = "idle"
    /\ stage = "enumerate" => port = NoPort /\ asked = <<>>
    /\ stage = "startPcieDrivers" =>
         /\ port = NoPort => asked = <<>>
         /\ port # NoPort => Current # 0 /\ LookedAt(controllers[Current], LookedAtNow)

DriverInv == DriverTypeInv /\ ControllersInv /\ AskedInv /\ StageInv

-----------------------------------------------------------------------------
\* What the driver's loops and lists are made of.
LEMMA DriverTypes ==
  ASSUME DriverTypeInv
  PROVE  /\ next \in Nat \ {0} /\ port \in 0 .. PortCount
         /\ controllers \in Seq(ControllerRecords)
         /\ Len(controllers) \in Nat /\ DOMAIN controllers = 1 .. Len(controllers)
         /\ \A k \in DOMAIN controllers :
              /\ controllers[k] \in ControllerRecords
              /\ controllers[k].place \in There
              /\ controllers[k].devices \in Seq(DeviceRecords)
<1>1. controllers \in Seq(ControllerRecords)
  BY DEF DriverTypeInv
<1>2. Len(controllers) \in Nat /\ DOMAIN controllers = 1 .. Len(controllers)
  BY <1>1
<1>3. \A k \in DOMAIN controllers : controllers[k] \in ControllerRecords
  BY <1>1
<1>4. \A k \in DOMAIN controllers : /\ controllers[k].place \in There
                                    /\ controllers[k].devices \in Seq(DeviceRecords)
  BY <1>3 DEF ControllerRecords
<1> QED
  BY <1>1, <1>2, <1>3, <1>4 DEF DriverTypeInv

\* The variables keep their types if those that a step changes do.
LEMMA DriverTypesKept ==
  ASSUME DriverTypeInv, UNCHANGED machine,
         next' = next \/ next' = next + 1, port' \in 0 .. PortCount,
         controllers' \in Seq(ControllerRecords),
         probe' \in [controller : Nat \ {0}, device : Nat, sector : Nat]
  PROVE  DriverTypeInv'
<1>1. ControllerRecords' = ControllerRecords
  BY DEF ControllerRecords, There
<1>2. controllers' \in Seq(ControllerRecords)'
  BY <1>1
<1>3. next' \in Nat \ {0}
  BY DEF DriverTypeInv
<1> QED
  BY <1>2, <1>3 DEF DriverTypeInv

\* A list of controllers that has more, but keeps what an earlier one has.
Keeps(list, new) ==
  \A k \in DOMAIN list :
    /\ k \in DOMAIN new /\ new[k].place = list[k].place
    /\ \A i \in DOMAIN list[k].devices :
         i \in DOMAIN new[k].devices /\ new[k].devices[i].port = list[k].devices[i].port

\* A device that is listed stays listed when the list keeps what it has.
LEMMA ReachesStill ==
  ASSUME NEW list, NEW new, Keeps(list, new), NEW a, Reaches(list, a)
  PROVE  Reaches(new, a)
BY DEF Keeps, Reaches

\* Moving the controllers leaves all but their devices' pointers alone.
LEMMA GrownKeeps ==
  ASSUME DriverTypeInv
  PROVE  /\ Grown \in Seq(ControllerRecords) /\ Len(Grown) = Len(controllers)
         /\ \A k \in DOMAIN controllers :
              /\ Grown[k].place = controllers[k].place
              /\ DOMAIN Grown[k].devices = DOMAIN controllers[k].devices
              /\ \A i \in DOMAIN controllers[k].devices :
                   Grown[k].devices[i].port = controllers[k].devices[i].port
<1> DEFINE moved == [k \in DOMAIN controllers |->
                       [controllers[k] EXCEPT !.devices = Moved(controllers[k].devices)]]
<1>1. controllers \in Seq(ControllerRecords)
  BY DEF DriverTypeInv
<1>2. ASSUME NEW k \in DOMAIN controllers
      PROVE  /\ moved[k] \in ControllerRecords /\ moved[k].place = controllers[k].place
             /\ DOMAIN moved[k].devices = DOMAIN controllers[k].devices
             /\ \A i \in DOMAIN controllers[k].devices :
                  moved[k].devices[i].port = controllers[k].devices[i].port
  <2> DEFINE devices == controllers[k].devices
  <2>1. controllers[k] \in ControllerRecords /\ devices \in Seq(DeviceRecords)
    BY DriverTypes
  <2>2. ASSUME NEW i \in DOMAIN devices
        PROVE  Moved(devices)[i] \in DeviceRecords /\ Moved(devices)[i].port = devices[i].port
    <3>1. devices[i] \in DeviceRecords
      BY <2>1, <2>2
    <3>2. Moved(devices)[i] = [devices[i] EXCEPT !.moved = TRUE]
      BY DEF Moved
    <3> QED BY <3>1, <3>2 DEF DeviceRecords
  <2>3. DOMAIN Moved(devices) = DOMAIN devices /\ Len(devices) \in Nat
        /\ DOMAIN devices = 1 .. Len(devices)
    BY <2>1 DEF Moved
  <2>4. Moved(devices) \in [1 .. Len(devices) -> DeviceRecords]
    <3>1. Moved(devices) = [i \in DOMAIN devices |-> Moved(devices)[i]]
      BY DEF Moved
    <3> QED BY <2>2, <2>3, <3>1
  <2>5. Moved(devices) \in Seq(DeviceRecords)
    BY <2>3, <2>4
  <2>6. moved[k] = [controllers[k] EXCEPT !.devices = Moved(devices)]
    OBVIOUS
  <2>7. moved[k].devices = Moved(devices) /\ moved[k].place = controllers[k].place
        /\ moved[k] \in ControllerRecords
    BY <2>1, <2>5, <2>6 DEF ControllerRecords
  <2> QED BY <2>2, <2>3, <2>7
<1>3. DOMAIN controllers = 1 .. Len(controllers) /\ Len(controllers) \in Nat
  BY <1>1
<1>4. DOMAIN moved = DOMAIN controllers /\ moved \in [1 .. Len(controllers) -> ControllerRecords]
  BY <1>2, <1>3
<1> HIDE DEF moved
<1>5. moved \in Seq(ControllerRecords) /\ Len(moved) = Len(controllers)
  BY <1>3, <1>4
<1>6. Grown = controllers \/ Grown = moved
  BY DEF Grown, moved
<1> QED
  BY <1>1, <1>2, <1>5, <1>6

\* The invariants of the next state, from the same machine.
LEMMA ControllersNext ==
  ASSUME UNCHANGED machine,
         \A k \in DOMAIN controllers' :
           controllers'[k].place \in messages' /\ InOrder(controllers'[k])
  PROVE  ControllersInv'
BY DEF ControllersInv, InOrder, PortsFromZero, At

\* After a step of the driver its loop is where the next port is due, or done.
LEMMA StageNext ==
  ASSUME UNCHANGED <<machine, stage, clients>>, Me.pc = "idle", stage = "startPcieDrivers",
         port' = NoPort => asked' = <<>>,
         port' # NoPort => /\ Len(controllers') # 0
                           /\ LookedAt(controllers'[Len(controllers')], LookedAtNow')
  PROVE  StageInv'
<1>1. port' # NoPort => /\ Current' # 0
                        /\ LookedAt(controllers[Current], LookedAtNow)'
  BY DEF Current, LookedAt, At
<1> QED
  BY <1>1 DEF StageInv, Me, NoPort

\* The invariant of the driver holds at first.
LEMMA DriverInitHolds == Init => DriverInv
<1> SUFFICES ASSUME Init
             PROVE  DriverInv
  OBVIOUS
<1>1. /\ next = 1 /\ port = PortCount /\ controllers = <<>> /\ asked = <<>> /\ iso = <<>>
      /\ probe = [controller |-> 1, device |-> 1, sector |-> 1] /\ stage = "enumerate"
  BY DEF Init, ControllersInit, NoPort
<1>2. Me.pc = "idle"
  BY DEF Init, FS!Init, Me
<1>3. DriverTypeInv
  BY <1>1, PortAssumption DEF DriverTypeInv
<1> QED
  BY <1>1, <1>2, <1>3 DEF DriverInv, ControllersInv, AskedInv, StageInv, NoPort

\* Steps beyond the drivers' start: the list stays, and what is asked of is a
\* device that is listed.
LEMMA ListStays ==
  ASSUME DriverInv, UNCHANGED <<machine, next, port, controllers, messages>>,
         asked' = <<>> \/ asked' = asked \/ asked' = iso \/ Reaches(controllers, asked'),
         iso' = iso \/ iso' = asked,
         probe' \in [controller : Nat \ {0}, device : Nat, sector : Nat],
         StageInv'
  PROVE  DriverInv'
<1>1. DriverTypeInv'
  BY DriverTypes, DriverTypesKept DEF DriverInv
<1>2. ControllersInv'
  BY DEF DriverInv, ControllersInv, InOrder, PortsFromZero, At
<1>3. AskedInv'
  BY DEF DriverInv, AskedInv
<1> QED
  BY <1>1, <1>2, <1>3 DEF DriverInv

\* A step that leaves the driver alone.
LEMMA DriverRests ==
  ASSUME DriverInv, UNCHANGED <<machine, controllerVars, probe, iso, stage, treeVars>>
  PROVE  failed = "no" => DriverInv'
<1> SUFFICES ASSUME failed = "no"
             PROVE  DriverInv'
  OBVIOUS
<1>1. UNCHANGED <<machine, next, port, controllers, messages, asked, probe, iso, stage, clients>>
  BY DEF controllerVars, treeVars
<1>2. StageInv'
  BY <1>1 DEF DriverInv, StageInv, Me, Current, LookedAtNow, LookedAt, At
<1> QED
  BY <1>1, <1>2, ListStays DEF DriverInv, DriverTypeInv

\* A function that is not an AHCI controller is passed over.
LEMMA SkipFunctionHolds ==
  ASSUME DriverInv, SkipFunction, stage = "startPcieDrivers", failed = "no",
         UNCHANGED <<ownVars, treeVars, pcieVars>>
  PROVE  DriverInv'
<1>1. /\ UNCHANGED <<machine, port, controllers, messages, asked, probe, iso, stage, clients, failed>>
      /\ next' = next + 1
  BY DEF SkipFunction, ownVars, treeVars, pcieVars
<1>2. DriverTypeInv'
  BY <1>1, DriverTypes, DriverTypesKept DEF DriverInv, DriverTypeInv
<1>3. ControllersInv' /\ AskedInv'
  BY <1>1 DEF DriverInv, ControllersInv, InOrder, PortsFromZero, At, AskedInv
<1>4. StageInv'
  BY <1>1 DEF DriverInv, StageInv, Me, Current, LookedAtNow, LookedAt, At
<1> QED
  BY <1>2, <1>3, <1>4 DEF DriverInv

\* A controller is listed with no devices, and its MSI enabled; its ports come next.
LEMMA StartControllerHolds ==
  ASSUME DriverInv, PcieInv, StartController, stage = "startPcieDrivers", failed = "no",
         UNCHANGED <<ownVars, treeVars, pcieVars>>
  PROVE  DriverInv'
<1> DEFINE started == functions[next]
           new == [place |-> started.place, devices |-> <<>>]
<1>1. /\ UNCHANGED <<machine, next, asked, probe, iso, stage, clients>>
      /\ port = NoPort /\ HasDriver(started.place) /\ next <= Len(functions)
  BY DEF StartController, ownVars, treeVars, pcieVars
<1>2. \/ /\ failed' = "driver" /\ UNCHANGED <<controllers, port>>
         /\ messages' = messages \/ messages' = messages \cup {started.msi}
      \/ /\ started.msi # Null /\ UNCHANGED failed
         /\ messages' = messages \cup {started.msi}
         /\ controllers' = Append(Grown, new) /\ port' = 0
  BY DEF StartController
<1>3. ASSUME failed' = "driver", UNCHANGED <<controllers, port>>, messages \subseteq messages'
      PROVE  DriverInv'
  <2>1. DriverTypeInv'
    BY <1>1, <1>3, DriverTypes, DriverTypesKept DEF DriverInv, DriverTypeInv
  <2>2. ControllersInv' /\ AskedInv'
    BY <1>1, <1>3 DEF DriverInv, ControllersInv, InOrder, PortsFromZero, At, AskedInv
  <2>3. StageInv'
    BY <1>3 DEF StageInv
  <2> QED BY <2>1, <2>2, <2>3 DEF DriverInv
<1>4. ASSUME started.msi # Null, UNCHANGED failed, messages' = messages \cup {started.msi},
             controllers' = Append(Grown, new), port' = 0
      PROVE  DriverInv'
  <2>1. next \in DOMAIN functions /\ started.place \in There /\ started.msi = started.place
    <3> DEFINE F == [place : There, msi : Msis]
    <3>1. functions \in Seq(F) /\ next \in Nat \ {0}
      BY DriverTypes DEF PcieInv, PcieTypeInv, DriverInv
    <3> HIDE DEF F
    <3>2. next \in DOMAIN functions /\ functions[next] \in F
      BY <1>1, <3>1
    <3>3. started \in [place : There, msi : Msis]
      BY <3>2 DEF F
    <3>4. machine \in Machines
      BY DEF PcieInv, PcieTypeInv
    <3>5. machine.functions[started.place].capabilities # "none"
      BY <1>1, <3>3, <3>4, MachineAssumption DEF HasDriver, There
    <3>6. started.msi \in {started.place, Null}
      BY <3>2, <3>5 DEF PcieInv, OwnMsi
    <3> QED BY <1>4, <3>2, <3>3, <3>6
  <2>2. new \in ControllerRecords /\ new.devices = <<>> /\ new.place = started.place
    <3>1. <<>> \in Seq(DeviceRecords)
      OBVIOUS
    <3> QED BY <2>1, <3>1 DEF ControllerRecords
  <2> DEFINE n == Len(controllers)
  <2>3. n \in Nat /\ DOMAIN controllers = 1 .. n
    BY DriverTypes DEF DriverInv
  <2>4. /\ Grown \in Seq(ControllerRecords) /\ Len(Grown) = n
        /\ \A k \in DOMAIN controllers :
             /\ Grown[k].place = controllers[k].place
             /\ DOMAIN Grown[k].devices = DOMAIN controllers[k].devices
             /\ \A i \in DOMAIN controllers[k].devices :
                  Grown[k].devices[i].port = controllers[k].devices[i].port
    BY GrownKeeps DEF DriverInv
  <2> HIDE DEF new, n
  <2>5. /\ controllers' \in Seq(ControllerRecords) /\ Len(controllers') = n + 1
        /\ DOMAIN controllers' = 1 .. n + 1
        /\ controllers'[n + 1] = new
        /\ \A k \in 1 .. n : controllers'[k] = Grown[k]
    BY <1>4, <2>2, <2>3, <2>4
  <2>6. DriverTypeInv'
    <3>1. port' \in 0 .. PortCount
      BY <1>4, PortAssumption
    <3>2. probe' \in [controller : Nat \ {0}, device : Nat, sector : Nat]
      BY <1>1 DEF DriverInv, DriverTypeInv
    <3> QED BY <1>1, <2>5, <3>1, <3>2, DriverTypesKept DEF DriverInv
  <2>7. ControllersInv'
    <3>1. ASSUME NEW k \in DOMAIN controllers'
          PROVE  controllers'[k].place \in messages' /\ InOrder(controllers'[k])
      <4>1. CASE k = n + 1
        BY <1>4, <2>1, <2>2, <2>5, <4>1 DEF InOrder
      <4>2. CASE k # n + 1
        <5>1. k \in DOMAIN controllers
          BY <2>3, <2>5, <4>2
        <5>2. controllers'[k] = Grown[k]
          BY <2>3, <2>5, <5>1
        <5>3. controllers[k].place \in messages /\ InOrder(controllers[k])
          BY <5>1 DEF DriverInv, ControllersInv
        <5> QED BY <1>4, <2>4, <5>1, <5>2, <5>3 DEF InOrder
      <4> QED BY <4>1, <4>2
    <3> QED BY <1>1, <3>1, ControllersNext
  <2>8. AskedInv'
    <3>1. Keeps(controllers, controllers')
      BY <2>3, <2>4, <2>5 DEF Keeps
    <3>2. UNCHANGED <<asked, iso>>
      BY <1>1
    <3> QED BY <3>1, <3>2, ReachesStill DEF DriverInv, AskedInv
  <2>9. StageInv'
    <3>1. asked = <<>> /\ Me.pc = "idle"
      BY <1>1 DEF DriverInv, StageInv
    <3>2. LookedAtNow' = 0
      BY <1>1, <1>4, <3>1 DEF LookedAtNow
    <3>3. LookedAt(new, 0)
      BY <2>2 DEF LookedAt
    <3> QED BY <1>1, <2>3, <2>5, <3>1, <3>2, <3>3, StageNext
  <2> QED BY <2>6, <2>7, <2>8, <2>9 DEF DriverInv
<1> QED
  BY <1>2, <1>3, <1>4

\* What the loop over the ports has come to.
LEMMA InLoop ==
  ASSUME DriverInv, stage = "startPcieDrivers", failed = "no", port < PortCount
  PROVE  /\ port \in Nat /\ PortCount \in Nat /\ port # NoPort /\ Me.pc = "idle"
         /\ Current \in Nat \ {0} /\ Current \in DOMAIN controllers
         /\ Current = Len(controllers)
         /\ LookedAt(controllers[Current], LookedAtNow)
<1>1. port \in 0 .. PortCount /\ Len(controllers) \in Nat /\ DOMAIN controllers = 1 .. Len(controllers)
  BY DriverTypes DEF DriverInv
<1>2. port # NoPort
  BY <1>1, PortAssumption DEF NoPort
<1> QED
  BY <1>1, <1>2, PortAssumption DEF DriverInv, StageInv, Current

\* A port without a device is passed over.
LEMMA SkipPortHolds ==
  ASSUME DriverInv, SkipPort, stage = "startPcieDrivers", failed = "no",
         UNCHANGED <<ownVars, treeVars, pcieVars>>
  PROVE  DriverInv'
<1> DEFINE c == controllers[Current]
<1>1. /\ UNCHANGED <<machine, controllers, messages, asked, probe, iso, stage, clients>>
      /\ asked = <<>> /\ port < PortCount /\ port' = port + 1
      /\ At(c.place, port) \in {"none", "other"}
      /\ next' = next \/ next' = next + 1
  BY DEF SkipPort, ownVars, treeVars, pcieVars
<1>2. /\ port \in Nat /\ PortCount \in Nat /\ Me.pc = "idle"
      /\ Current \in Nat \ {0} /\ Current = Len(controllers)
      /\ Current \in DOMAIN controllers
      /\ LookedAt(c, port)
  BY <1>1, InLoop DEF LookedAtNow
<1>3. Len(c.devices) \in Nat
  BY <1>2, DriverTypes DEF DriverInv
<1>4. DriverTypeInv'
  <2>1. port' \in 0 .. PortCount
    BY <1>1, <1>2
  <2>2. controllers' \in Seq(ControllerRecords)
    BY <1>1, DriverTypes DEF DriverInv
  <2>3. probe' \in [controller : Nat \ {0}, device : Nat, sector : Nat]
    BY <1>1 DEF DriverInv, DriverTypeInv
  <2> QED BY <1>1, <2>1, <2>2, <2>3, DriverTypesKept DEF DriverInv
<1>5. ControllersInv' /\ AskedInv'
  BY <1>1, ControllersNext DEF DriverInv, ControllersInv, AskedInv
<1>6. StageInv'
  <2>1. port \in 0 .. port /\ At(c.place, port) \notin Used
    BY <1>1, <1>2 DEF Used
  <2>2. LookedAt(c, port + 1)
    BY <1>2, <1>3, <2>1 DEF LookedAt
  <2>3. LookedAtNow' = port + 1
    BY <1>1 DEF LookedAtNow
  <2> QED BY <1>1, <1>2, <2>2, <2>3, StageNext
<1> QED
  BY <1>4, <1>5, <1>6 DEF DriverInv

\* A device is listed after those of lower ports, and waited for.
LEMMA IdentifyPortHolds ==
  ASSUME DriverInv, IdentifyPort, stage = "startPcieDrivers", failed = "no",
         UNCHANGED <<ownVars, treeVars, pcieVars>>
  PROVE  DriverInv'
<1> DEFINE c == controllers[Current]
           n == Len(controllers)
           device == [port |-> port, type |-> At(c.place, port), moved |-> FALSE]
           new == [c EXCEPT !.devices = Append(c.devices, device)]
<1>1. /\ UNCHANGED <<machine, next, port, messages, probe, iso, stage, clients>>
      /\ asked = <<>> /\ port < PortCount
      /\ At(c.place, port) \in Used
      /\ controllers' = [controllers EXCEPT ![Current] = new]
      /\ (asked' = <<Current, port>> /\ UNCHANGED failed) \/ (asked' = <<>> /\ failed' = "driver")
  BY DEF IdentifyPort, WithDevice, Ask, ownVars, treeVars, pcieVars, Used
<1>2. /\ port \in Nat /\ PortCount \in Nat /\ port # NoPort /\ Me.pc = "idle"
      /\ Current \in Nat \ {0} /\ Current = n /\ Current \in DOMAIN controllers
      /\ LookedAt(c, port)
  BY <1>1, InLoop DEF LookedAtNow
<1>3. /\ controllers \in Seq(ControllerRecords)
      /\ c \in ControllerRecords /\ c.place \in There /\ c.devices \in Seq(DeviceRecords)
      /\ next \in Nat \ {0} /\ n \in Nat /\ DOMAIN controllers = 1 .. n
  BY <1>2, DriverTypes DEF DriverInv
<1>4. device \in DeviceRecords /\ device.port = port
  BY <1>1, <1>2 DEF DeviceRecords
<1> HIDE DEF device
<1>5. /\ Append(c.devices, device) \in Seq(DeviceRecords)
      /\ Len(Append(c.devices, device)) = Len(c.devices) + 1 /\ Len(c.devices) \in Nat
      /\ Append(c.devices, device)[Len(c.devices) + 1] = device
      /\ \A i \in DOMAIN c.devices : i \in DOMAIN Append(c.devices, device)
                                     /\ Append(c.devices, device)[i] = c.devices[i]
      /\ DOMAIN Append(c.devices, device) = 1 .. Len(c.devices) + 1
      /\ DOMAIN c.devices = 1 .. Len(c.devices)
  BY <1>3, <1>4
<1>6. /\ new \in ControllerRecords /\ new.place = c.place
      /\ new.devices = Append(c.devices, device)
  BY <1>3, <1>5 DEF ControllerRecords
<1> HIDE DEF new
<1>7. /\ controllers' \in Seq(ControllerRecords) /\ Len(controllers') = n
      /\ DOMAIN controllers' = DOMAIN controllers /\ controllers'[Current] = new
      /\ \A k \in DOMAIN controllers : k # Current => controllers'[k] = controllers[k]
  BY <1>1, <1>2, <1>3, <1>6
<1>8. DriverTypeInv'
  <2>1. port' \in 0 .. PortCount
    BY <1>1, <1>2
  <2>2. probe' \in [controller : Nat \ {0}, device : Nat, sector : Nat]
    BY <1>1 DEF DriverInv, DriverTypeInv
  <2> QED BY <1>1, <1>7, <2>1, <2>2, DriverTypesKept DEF DriverInv
<1>9. ControllersInv'
  <2>1. \A k \in DOMAIN controllers : controllers[k].place \in messages /\ InOrder(controllers[k])
    BY DEF DriverInv, ControllersInv
  <2>2. InOrder(new)
    <3> SUFFICES ASSUME PortsFromZero(c.place), NEW i \in DOMAIN new.devices
                 PROVE  new.devices[i].port = i - 1
      BY <1>6 DEF InOrder
    <3>1. CASE i # Len(c.devices) + 1
      <4>1. i \in DOMAIN c.devices
        BY <1>5, <1>6, <3>1
      <4> QED BY <1>2, <1>5, <1>6, <2>1, <4>1 DEF InOrder
    <3>2. CASE i = Len(c.devices) + 1
      <4>1. Len(c.devices) = port
        <5>1. \A p \in 0 .. port - 1 : At(c.place, p) \in Used
          BY <1>1, <1>2 DEF PortsFromZero, Used
        <5> QED BY <1>2, <1>5, <5>1 DEF LookedAt
      <4> QED BY <1>2, <1>4, <1>5, <1>6, <3>2, <4>1
    <3> QED BY <3>1, <3>2
  <2>3. \A k \in DOMAIN controllers' : controllers'[k].place \in messages' /\ InOrder(controllers'[k])
    BY <1>1, <1>2, <1>6, <1>7, <2>1, <2>2
  <2> QED BY <1>1, <2>3, ControllersNext
<1>10. AskedInv'
  <2>1. Keeps(controllers, controllers')
    BY <1>2, <1>5, <1>6, <1>7 DEF Keeps
  <2>2. Reaches(controllers', <<Current, port>>)
    <3>1. Len(c.devices) + 1 \in DOMAIN new.devices /\ new.devices[Len(c.devices) + 1].port = port
      BY <1>4, <1>5, <1>6
    <3> QED BY <1>2, <1>7, <3>1 DEF Reaches
  <2> QED BY <1>1, <2>1, <2>2, ReachesStill DEF DriverInv, AskedInv
<1>11. StageInv'
  <2>1. CASE failed' = "driver"
    BY <2>1 DEF StageInv
  <2>2. CASE asked' = <<Current, port>>
    <3>1. LookedAtNow' = port + 1
      BY <1>1, <2>2 DEF LookedAtNow
    <3>2. LookedAt(new, port + 1)
      <4>1. 0 .. port - 1 \subseteq 0 .. port
        BY <1>2
      <4> QED BY <1>2, <1>5, <1>6, <4>1 DEF LookedAt
    <3> QED BY <1>1, <1>2, <1>7, <3>1, <3>2, StageNext
  <2> QED BY <1>1, <2>1, <2>2
<1> QED
  BY <1>8, <1>9, <1>10, <1>11 DEF DriverInv

\* Once a device has identified itself the next port is due; if it fails to, the
\* kernel stops.
LEMMA IdentifiedHolds ==
  ASSUME DriverInv, Identified, stage = "startPcieDrivers", failed = "no",
         UNCHANGED <<ownVars, treeVars, pcieVars>>
  PROVE  DriverInv'
<1>1. /\ UNCHANGED <<machine, controllers, messages, probe, iso, stage, clients>>
      /\ asked # <<>> /\ asked' = <<>> /\ port < PortCount
      /\ \/ port' = port + 1 /\ (next' = next \/ next' = next + 1)
         \/ port' = port /\ next' = next /\ failed' = "driver"
  BY DEF Identified, ownVars, treeVars, pcieVars
<1>2. /\ port \in Nat /\ PortCount \in Nat /\ Me.pc = "idle"
      /\ Current \in Nat \ {0} /\ Current = Len(controllers)
      /\ LookedAt(controllers[Current], port + 1)
  BY <1>1, InLoop DEF LookedAtNow
<1>3. DriverTypeInv'
  <2>1. port' \in 0 .. PortCount
    BY <1>1, <1>2
  <2>2. controllers' \in Seq(ControllerRecords)
    BY <1>1, DriverTypes DEF DriverInv
  <2>3. probe' \in [controller : Nat \ {0}, device : Nat, sector : Nat]
    BY <1>1 DEF DriverInv, DriverTypeInv
  <2> QED BY <1>1, <2>1, <2>2, <2>3, DriverTypesKept DEF DriverInv
<1>4. ControllersInv' /\ AskedInv'
  BY <1>1, ControllersNext DEF DriverInv, ControllersInv, AskedInv
<1>5. StageInv'
  <2>1. CASE port' = port + 1
    <3>1. LookedAtNow' = port + 1
      BY <1>1, <2>1 DEF LookedAtNow
    <3> QED BY <1>1, <1>2, <3>1, StageNext
  <2>2. CASE failed' = "driver"
    BY <2>2 DEF StageInv
  <2> QED BY <1>1, <2>1, <2>2
<1> QED
  BY <1>3, <1>4, <1>5 DEF DriverInv

\* The drivers are started only after enumeration, while the file systems have
\* not been called.
LEMMA StartDriversHolds ==
  ASSUME DriverInv, PcieInv, StartDrivers, failed = "no"
  PROVE  DriverInv'
<1>1. stage = "startPcieDrivers" /\ Start /\ UNCHANGED <<ownVars, treeVars, pcieVars>>
  BY DEF StartDrivers
<1> QED
  BY <1>1, SkipFunctionHolds, StartControllerHolds, SkipPortHolds, IdentifyPortHolds,
     IdentifiedHolds DEF Start

-----------------------------------------------------------------------------
(* The other steps of the main flow *)

Early == {"enumerate", "startPcieDrivers"}

\* Nothing is said of the loops once the drivers have been started.
LEMMA LaterStage ==
  ASSUME stage' \notin Early \/ failed' # "no"
  PROVE  StageInv'
BY DEF StageInv, Early

\* Enumeration changes nothing that the driver has.
LEMMA EnumerateHolds ==
  ASSUME DriverInv, EnumerateBuses \/ FailToMap, failed = "no"
  PROVE  DriverInv'
<1>1. UNCHANGED <<machine, controllerVars, ownVars, treeVars>>
  BY DEF EnumerateBuses, FailToMap, Enumerate, EnumerateDevice, EnumerateFunction, Found, NotFound,
         CannotMap, pcieVars
<1>2. UNCHANGED <<machine, controllerVars, probe, iso, stage, treeVars>>
  BY <1>1 DEF ownVars
<1> QED
  BY <1>2, DriverRests

\* The driver starts with nothing listed.
LEMMA BeginDriversHolds ==
  ASSUME DriverInv, BeginDrivers, failed = "no"
  PROVE  DriverInv'
<1>1. UNCHANGED <<machine, next, port, controllers, messages, asked, probe, iso, clients>>
  BY DEF BeginDrivers, pcieVars, controllerVars, treeVars
<1>2. Me.pc = "idle" /\ port = NoPort /\ asked = <<>> /\ stage' = "startPcieDrivers"
  BY DEF BeginDrivers, DriverInv, StageInv
<1>3. StageInv'
  BY <1>1, <1>2 DEF StageInv, Me, NoPort
<1> QED
  BY <1>1, <1>3, ListStays DEF DriverInv, DriverTypeInv

\* Another device or the next controller.
LEMMA NextProbeType ==
  ASSUME probe \in [controller : Nat \ {0}, device : Nat, sector : Nat]
  PROVE  NextProbe \in [controller : Nat \ {0}, device : Nat, sector : Nat]
BY DEF NextProbe

\* A device without a file system is passed over.
LEMMA SkipDeviceHolds ==
  ASSUME DriverInv, SkipDevice, failed = "no"
  PROVE  DriverInv'
<1>1. /\ UNCHANGED <<machine, next, port, controllers, messages, asked, iso, stage>>
      /\ stage = "createFileSystems" /\ probe' = NextProbe
  BY DEF SkipDevice, Probing, pcieVars, controllerVars
<1>2. probe \in [controller : Nat \ {0}, device : Nat, sector : Nat]
  BY DEF DriverInv, DriverTypeInv
<1>3. probe' \in [controller : Nat \ {0}, device : Nat, sector : Nat]
  BY <1>1, <1>2, NextProbeType
<1>4. StageInv'
  BY <1>1, LaterStage DEF Early
<1> QED
  BY <1>1, <1>3, <1>4, ListStays

\* The device whose sector is read is one of those listed.
LEMMA ReadSectorHolds ==
  ASSUME DriverInv, ReadSector, failed = "no"
  PROVE  DriverInv'
<1>1. /\ UNCHANGED <<machine, next, port, controllers, messages, iso, stage, probe>>
      /\ stage = "createFileSystems"
      /\ probe.controller <= Len(controllers)
      /\ probe.device \in DOMAIN controllers[probe.controller].devices
      /\ asked' = <<probe.controller, controllers[probe.controller].devices[probe.device].port>>
  BY DEF ReadSector, Probing, Devices, Ask, ownVars, pcieVars
<1>2. probe \in [controller : Nat \ {0}, device : Nat, sector : Nat]
  BY DEF DriverInv, DriverTypeInv
<1>3. probe.controller \in DOMAIN controllers
  BY <1>1, <1>2, DriverTypes DEF DriverInv
<1>4. asked'[1] = probe.controller
      /\ asked'[2] = controllers[probe.controller].devices[probe.device].port
  BY <1>1
<1>5. Reaches(controllers, asked')
  BY <1>1, <1>3, <1>4 DEF Reaches
<1>6. StageInv'
  BY <1>1, LaterStage DEF Early
<1> QED
  BY <1>1, <1>2, <1>5, <1>6, ListStays

\* The answer of the device is taken.
LEMMA SectorReadHolds ==
  ASSUME DriverInv, SectorRead, failed = "no"
  PROVE  DriverInv'
<1>1. /\ UNCHANGED <<machine, next, port, controllers, messages, stage>>
      /\ stage = "createFileSystems" /\ asked' = <<>>
      /\ iso' = iso \/ iso' = asked
      /\ probe' = NextProbe \/ probe' = [probe EXCEPT !.sector = @ + 1]
  BY DEF SectorRead, Probing, pcieVars
<1>2. probe \in [controller : Nat \ {0}, device : Nat, sector : Nat]
  BY DEF DriverInv, DriverTypeInv
<1>3. NextProbe \in [controller : Nat \ {0}, device : Nat, sector : Nat]
  BY <1>2, NextProbeType
<1>4. [probe EXCEPT !.sector = @ + 1] \in [controller : Nat \ {0}, device : Nat, sector : Nat]
  BY <1>2
<1>5. StageInv'
  BY <1>1, LaterStage DEF Early
<1> QED
  BY <1>1, <1>3, <1>4, <1>5, ListStays

\* The calls of the file system wait for the device that it was found on.
LEMMA CallHolds ==
  ASSUME DriverInv, OpenRoot \/ GoOnWithCall \/ RootFound \/ OpenApu \/ ReadApu, failed = "no"
  PROVE  DriverInv'
<1>1. UsesFileSystem /\ stage' \notin Early
  <2>1. CASE OpenRoot \/ RootFound \/ OpenApu \/ ReadApu
    BY <2>1 DEF OpenRoot, RootFound, OpenApu, ReadApu, Early
  <2>2. CASE GoOnWithCall
    <3>1. Me.pc # "idle" /\ UsesFileSystem /\ UNCHANGED stage
      BY <2>2 DEF GoOnWithCall, FS!Resume, Me
    <3> QED BY <3>1 DEF DriverInv, StageInv, Early
  <2> QED BY <2>1, <2>2
<1>2. /\ UNCHANGED <<machine, next, port, controllers, messages, iso, probe>>
      /\ asked' = iso \/ asked' = <<>>
  BY <1>1 DEF UsesFileSystem, pcieVars
<1> QED
  BY <1>1, <1>2, LaterStage, ListStays DEF DriverInv, DriverTypeInv

\* The steps that go on to the next coroutine, or fail.
LEMMA GoOnHolds ==
  ASSUME DriverInv, failed = "no",
         \/ BeginFileSystems \/ EndFileSystems \/ BeginCpus \/ CallFailed \/ StartCpus \/ EndCpus
         \/ FailToPrepare \/ UseMovedController
  PROVE  DriverInv'
<1>1. UNCHANGED <<machine, next, port, controllers, messages, asked, iso, probe>>
  BY DEF BeginFileSystems, EndFileSystems, BeginCpus, CallFailed, StartCpus, EndCpus,
         FailToPrepare, UseMovedController, ownVars, pcieVars, controllerVars
<1>2. stage' \notin Early \/ failed' # "no"
  BY DEF BeginFileSystems, EndFileSystems, BeginCpus, CallFailed, StartCpus, EndCpus,
         FailToPrepare, UseMovedController, ownVars, Probing, Early
<1> QED
  BY <1>1, <1>2, LaterStage, ListStays DEF DriverInv, DriverTypeInv

\* The devices, their interrupts and the other CPUs.
LEMMA BesideHolds ==
  ASSUME DriverInv, HardwareStep \/ \E c \in Others : OtherCpu(c), failed = "no"
  PROVE  DriverInv'
<1>1. UNCHANGED <<machine, next, port, controllers, messages, asked, probe, iso, stage, clients>>
  BY DEF HardwareStep, ExecuteCommand, Interrupt, OtherCpu, ownVars, treeVars, pcieVars,
         controllerVars
<1>2. StageInv'
  BY <1>1 DEF DriverInv, StageInv, Me, Current, LookedAtNow, LookedAt, At
<1> QED
  BY <1>1, <1>2, ListStays DEF DriverInv, DriverTypeInv

\* Every step keeps the invariant of the driver.
LEMMA DriverNextHolds == PcieInv /\ DriverInv /\ [Next]_vars => DriverInv'
<1> SUFFICES ASSUME PcieInv, DriverInv, [Next]_vars
             PROVE  DriverInv'
  OBVIOUS
<1>1. CASE Next
  <2>1. failed = "no"
    BY <1>1 DEF Next
  <2> QED
    BY <1>1, <2>1, StartDriversHolds, EnumerateHolds, BeginDriversHolds, SkipDeviceHolds,
       ReadSectorHolds, SectorReadHolds, CallHolds, GoOnHolds, BesideHolds DEF Next, MainFlow
<1>2. CASE UNCHANGED vars
  <2>1. /\ UNCHANGED <<machine, next, port, controllers, messages, asked, probe, iso, stage>>
        /\ UNCHANGED <<clients, failed>>
    BY <1>2 DEF vars, ownVars, treeVars, pcieVars, controllerVars
  <2>2. StageInv'
    BY <2>1 DEF DriverInv, StageInv, Me, Current, LookedAtNow, LookedAt, At
  <2> QED
    BY <2>1, <2>2, ListStays DEF DriverInv, DriverTypeInv
<1> QED
  BY <1>1, <1>2

\* The invariant of the driver holds always.
LEMMA DriverInvariance == Spec => []DriverInv
<1>1. Spec => []PcieInv
  BY PcieInvariance, PartsByThemselves, PTL
<1>2. Init => DriverInv
  BY DriverInitHolds
<1> QED
  BY <1>1, <1>2, DriverNextHolds, PTL DEF Spec

\* On any machines, whatever their buses and however many controllers and
\* devices they have: while the kernel waits for a device, be it in a driver or
\* in a file system, that device's interrupt is enabled and its handler finds it,
\* as long as the ports in use are the first of the controller.
THEOREM InterruptsLeadToDevices == Spec => []InterruptFindsTheDevice
<1>1. ASSUME DriverInv PROVE InterruptFindsTheDevice
  <2> SUFFICES ASSUME asked # <<>>, PortsFromZero(controllers[asked[1]].place)
               PROVE  /\ controllers[asked[1]].place \in messages
                      /\ asked[2] + 1 \in DOMAIN controllers[asked[1]].devices
                      /\ controllers[asked[1]].devices[asked[2] + 1].port = asked[2]
    BY DEF InterruptFindsTheDevice
  <2> DEFINE c == controllers[asked[1]]
  <2>1. asked[1] \in DOMAIN controllers
    BY <1>1 DEF DriverInv, AskedInv, Reaches
  <2>2. PICK i \in DOMAIN c.devices : c.devices[i].port = asked[2]
    BY <1>1 DEF DriverInv, AskedInv, Reaches
  <2>3. c.place \in messages /\ c.devices[i].port = i - 1
    BY <1>1, <2>1, <2>2 DEF DriverInv, ControllersInv, InOrder
  <2>4. c.devices \in Seq(DeviceRecords)
    BY <1>1, <2>1, DriverTypes DEF DriverInv
  <2>5. i \in Nat
    BY <2>2, <2>4
  <2>6. asked[2] + 1 = i
    BY <2>2, <2>3, <2>5
  <2> QED
    BY <2>2, <2>3, <2>6
<1> QED
  BY <1>1, DriverInvariance, PTL

-----------------------------------------------------------------------------
(* The files.  FS has the operators of FileSystem, and Files those of its    *)
(* proofs, where they are defined anew: they are the same.                   *)

Names == {"root"} \cup UNION {Range(Disk[d]) : d \in DOMAIN Disk}

Files == INSTANCE FileSystemProofs WITH
           Clients <- {Main}, Lookups <- {RootFile, ApuFile},
           Requests <- {[offset |-> 0, count |-> Size[name]] : name \in Names}

\* The tree, and what is done with a node of it.
LEMMA SameParts ==
  /\ \A w, status : FS!Return(w, status) = Files!Return(w, status)
  /\ \A w : FS!NoContents(w) = Files!NoContents(w)
  /\ \A w, n, slept : FS!Lose(w, n, slept) = Files!Lose(w, n, slept)
  /\ \A w, n : FS!Populate(w, n) = Files!Populate(w, n)
  /\ \A n : FS!IsDirectory(n) <=> Files!IsDirectory(n)
BY Zenon DEF FS!Return, Files!Return, FS!NoContents, Files!NoContents, FS!Lose, Files!Lose,
             FS!Populate, Files!Populate, FS!NewNode, Files!NewNode, FS!Root, Files!Root,
             FS!NoRequest, Files!NoRequest, FS!IsDirectory, Files!IsDirectory,
             FS!Directories, Files!Directories

\* The end of openFile.
LEMMA SameOpening ==
  ASSUME NEW w, NEW slept
  PROVE  FS!OpenIn(w, slept) = Files!OpenIn(w, slept)
BY Zenon DEF FS!OpenIn, Files!OpenIn, FS!Return, Files!Return, FS!Fail, Files!Fail,
             FS!Named, Files!Named, FS!Directories, Files!Directories, FS!Root, Files!Root,
             FS!NoRequest, Files!NoRequest, FS!Last, Files!Last, FS!Max, Files!Max

\* The end of readFile.
LEMMA SameCopy ==
  ASSUME NEW w, NEW buffer
  PROVE  FS!Copy(w, buffer) = Files!Copy(w, buffer)
BY Zenon DEF FS!Copy, Files!Copy, FS!Return, Files!Return, FS!Fail, Files!Fail,
             FS!Root, Files!Root, FS!NoRequest, Files!NoRequest

\* The loops along a path.
LEMMA SamePaths ==
  /\ \A call : FS!Path(call) = Files!Path(call)
  /\ \A path : FS!Resolve(path) = Files!Resolve(path)
  /\ \A ns, from, path : FS!Walk(ns, from, path) = Files!Walk(ns, from, path)
BY Zenon DEF FS!Path, Files!Path, FS!Resolve, Files!Resolve, FS!Follow, Files!Follow,
             FS!ParentOf, Files!ParentOf, FS!Walk, Files!Walk, FS!Enter, Files!Enter,
             FS!Named, Files!Named, FS!IsDirectory, Files!IsDirectory,
             FS!Directories, Files!Directories, FS!Front, Files!Front,
             FS!Contains, Files!Contains, FS!Min, Files!Min

\* readDirectory.
LEMMA SameReading ==
  /\ \A w, slept : FS!HaveDirectory(w, slept) = Files!HaveDirectory(w, slept)
  /\ \A w, free : FS!ReadDirectory(w, free) = Files!ReadDirectory(w, free)
<1>1. \A w, slept : FS!HaveDirectory(w, slept) = Files!HaveDirectory(w, slept)
  BY SameParts, SameOpening, Zenon DEF FS!HaveDirectory, Files!HaveDirectory
<1>2. \A w, free : FS!ReadDirectory(w, free) = Files!ReadDirectory(w, free)
  BY <1>1, SameParts, Zenon DEF FS!ReadDirectory, Files!ReadDirectory
<1> QED
  BY <1>1, <1>2

\* getInfo.
LEMMA SameWalk ==
  ASSUME NEW w, NEW free
  PROVE  FS!GetInfo(w, free) = Files!GetInfo(w, free)
<1> DEFINE path == Files!Path(w.me.call)
           from == [node |-> w.me.node, done |-> w.me.done, stop |-> "no"]
           end == Files!Walk(w.nodes, from, path)[Len(path)]
           there == [w EXCEPT !.me.node = end.node, !.me.done = end.done]
<1>1. /\ FS!Path(w.me.call) = path
      /\ FS!Walk(w.nodes, from, path) = Files!Walk(w.nodes, from, path)
  BY SamePaths, Zenon
<1> HIDE DEF path
<1>2. /\ FS!ReadDirectory(there, free) = Files!ReadDirectory(there, free)
      /\ FS!NoContents(there) = Files!NoContents(there)
      /\ FS!Return(w, end.stop) = Files!Return(w, end.stop)
  BY SameParts, SameReading, Zenon
<1>3. FS!GetInfo(w, free) =
        CASE end.stop = "no" -> FS!ReadDirectory(there, free)
          [] end.stop = "unread" /\ free ->
               [there EXCEPT !.me.pc = "walking", !.me.slept = TRUE]
          [] end.stop = "unread" /\ ~free -> FS!NoContents(there)
          [] OTHER -> FS!Return(w, end.stop)
  BY <1>1, Zenon DEF FS!GetInfo
<1>4. Files!GetInfo(w, free) =
        CASE end.stop = "no" -> Files!ReadDirectory(there, free)
          [] end.stop = "unread" /\ free ->
               [there EXCEPT !.me.pc = "walking", !.me.slept = TRUE]
          [] end.stop = "unread" /\ ~free -> Files!NoContents(there)
          [] OTHER -> Files!Return(w, end.stop)
  BY Zenon DEF Files!GetInfo, path
<1> QED
  BY <1>2, <1>3, <1>4, Zenon

\* What a call leaves behind.
LEMMA SameCalls ==
  /\ \A w : FS!Commit(Main, w) <=> Files!Commit(Main, w)
  /\ \A called : FS!Call(Main, called) <=> Files!Call(Main, called)
  /\ FS!World(Main) = Files!World(Main)
<1>1. ASSUME NEW w PROVE FS!Commit(Main, w) <=> Files!Commit(Main, w)
  BY Zenon DEF FS!Commit, Files!Commit, FS!PointsTo, Files!PointsTo
<1>2. ASSUME NEW called PROVE FS!Call(Main, called) <=> Files!Call(Main, called)
  BY <1>1, Zenon DEF FS!Call, Files!Call, FS!Made, Files!Made, FS!Cardinality, Files!Cardinality,
                     FS!deviceVars, Files!deviceVars, FS!Device!Ask, Files!Device!Ask
<1>3. FS!World(Main) = Files!World(Main)
  BY Zenon DEF FS!World, Files!World
<1> QED
  BY <1>1, <1>2, <1>3

\* The calls.
LEMMA SameSteps ==
  /\ \A f, free : FS!Open(Main, f, free) <=> Files!Open(Main, f, free)
  /\ \A fd, r, free : FS!Read(Main, fd, r, free) <=> Files!Read(Main, fd, r, free)
  /\ \A fd, keep : FS!Close(Main, fd, keep) <=> Files!Close(Main, fd, keep)
<1>1. ASSUME NEW f, NEW free
      PROVE  FS!Open(Main, f, free) <=> Files!Open(Main, f, free)
  <2>1. FS!Asking(Main, f) = Files!Asking(Main, f)
    BY SameCalls, Zenon DEF FS!Asking, Files!Asking
  <2>2. /\ FS!GetInfo(FS!Asking(Main, f), free) = Files!GetInfo(Files!Asking(Main, f), free)
        /\ FS!Return(FS!Asking(Main, f), "InvalidPath")
             = Files!Return(Files!Asking(Main, f), "InvalidPath")
    BY <2>1, SameParts, SameWalk, Zenon
  <2> QED
    BY <2>2, SameCalls, Zenon DEF FS!Open, Files!Open
<1>2. ASSUME NEW fd, NEW r, NEW free
      PROVE  FS!Read(Main, fd, r, free) <=> Files!Read(Main, fd, r, free)
  BY SameParts, SameCopy, SameCalls, Zenon
     DEF FS!Read, Files!Read, FS!World, Files!World, FS!Contains, Files!Contains
<1>3. ASSUME NEW fd, NEW keep
      PROVE  FS!Close(Main, fd, keep) <=> Files!Close(Main, fd, keep)
  BY SameParts, SameCalls, Zenon
     DEF FS!Close, Files!Close, FS!World, Files!World, FS!Erase, Files!Erase,
         FS!RemoveAt, Files!RemoveAt, FS!Min, Files!Min, FS!Contains, Files!Contains
<1> QED
  BY <1>1, <1>2, <1>3

\* What follows the device's answer.
LEMMA SameResume ==
  ASSUME NEW free
  PROVE  FS!Resume(Main, free) <=> Files!Resume(Main, free)
<1> DEFINE w == Files!World(Main)
           has == answer[Main] = "true"
           resumed ==
             CASE w.me.pc = "reading" -> Files!Copy(w, IF has THEN "data" ELSE "null")
               [] w.me.pc # "reading" /\ ~has -> Files!NoContents(w)
               [] w.me.pc = "walking" /\ has -> Files!GetInfo(Files!Populate(w, w.me.node), free)
               [] w.me.pc = "listing" /\ has ->
                    Files!HaveDirectory(Files!Populate(w, w.me.node), TRUE)
           Step == /\ clients[Main].pc # "idle"
                   /\ phase[Main] = "answered"
                   /\ Files!Device!Take(Main)
                   /\ \E then \in {resumed} :
                        /\ (phase'[Main] = "waiting") = (then.me.pc # "idle")
                        /\ Files!Commit(Main, then)
<1>1. Files!Resume(Main, free) <=> Step
  BY Zenon DEF Files!Resume
<1> HIDE DEF w
<1>2. \A buffer : FS!Copy(w, buffer) = Files!Copy(w, buffer)
  BY SameCopy, Zenon
<1>3. FS!NoContents(w) = Files!NoContents(w)
  BY SameParts, Zenon
<1>4. FS!GetInfo(FS!Populate(w, w.me.node), free) = Files!GetInfo(Files!Populate(w, w.me.node), free)
  BY SameParts, SameWalk, Zenon
<1>5. FS!HaveDirectory(FS!Populate(w, w.me.node), TRUE)
        = Files!HaveDirectory(Files!Populate(w, w.me.node), TRUE)
  BY SameParts, SameReading, Zenon
<1>6. FS!Device!Take(Main) <=> Files!Device!Take(Main)
  BY Zenon DEF FS!Device!Take, Files!Device!Take
<1>7. FS!World(Main) = Files!World(Main)
  BY SameCalls
<1>8. ASSUME NEW then PROVE FS!Commit(Main, then) = Files!Commit(Main, then)
  BY Zenon DEF FS!Commit, Files!Commit, FS!PointsTo, Files!PointsTo
<1>9. FS!Resume(Main, free) <=> Step
  BY <1>2, <1>3, <1>4, <1>5, <1>6, <1>7, <1>8, Zenon DEF FS!Resume, w
<1> QED
  BY <1>1, <1>9

\* The first state, and what is to be proved.
LEMMA SameStates ==
  /\ FS!Init <=> Files!Init
  /\ FS!NothingDiesInUse <=> Files!NothingDiesInUse
<1>1. FS!Init <=> Files!Init
  BY Zenon DEF FS!Init, Files!Init, FS!NewNode, Files!NewNode, FS!Root, Files!Root,
               FS!NoRequest, Files!NoRequest, FS!Device!Init, Files!Device!Init
<1>2. FS!NothingDiesInUse <=> Files!NothingDiesInUse
  BY Zenon DEF FS!NothingDiesInUse, Files!NothingDiesInUse, FS!Pointers, Files!Pointers,
               FS!PointsTo, Files!PointsTo, FS!Alive, Files!Alive, FS!Root, Files!Root,
               FS!Held, Files!Held, FS!Listed, Files!Listed, FS!Contains, Files!Contains,
               FS!Cardinality, Files!Cardinality
<1> QED
  BY <1>1, <1>2

\* What the kernel assumes of its files is what the proofs about them assume.
LEMMA SameAssumptions == Files!DiskAssumption /\ Files!CallsAssumption
BY FilesAssumption, Zenon
   DEF FS!DiskAssumption, Files!DiskAssumption, FS!Directories, Files!Directories,
       FS!IsInjective, Files!IsInjective, FS!CallsAssumption, Files!CallsAssumption,
       FS!Range, Files!Range, FS!IsFiniteSet, Files!IsFiniteSet, FS!Max, Files!Max

-----------------------------------------------------------------------------
(* What the kernel does with its files.                                      *)
(*                                                                           *)
(* The invariant says that every pointer is accounted for, or the kernel is  *)
(* about to panic, and which call each stage makes.  It opens each file in a *)
(* directory that it has not read, which takes an order: the way to the root *)
(* file must not have read the directory of the other.                       *)

FilesCore ==
  /\ Files!IInv /\ Files!Alone(Main)
  /\ Files!Settled(Me, nodes, descriptors)

\* Only directories on the way to the root file count as read.
RootAlong == Files!ReadAlong(nodes, Files!Path(RootFile))

CallsInOrder ==
  /\ stage \in Early \cup {"createFileSystems"} => Me.call.op = "none"
  /\ Me.call.op = "none" =>
       Me.pc = "idle" /\ \A n \in DOMAIN nodes : ~ nodes[n].childrenCreated
  /\ stage = "findRootFs" => Me.call.op = "none" \/ (Me.call = RootFile /\ RootAlong)
  /\ stage = "openApuBin" =>
       (Me.call.op = "close" /\ Me.pc = "idle" /\ RootAlong) \/ Me.call = ApuFile
  /\ stage = "readApuBin" => Me.call.op = "read"
  /\ stage \in {"startApus", "booted"} => Me.pc = "idle"

FilesInv == NoNodeDiesInUse /\ (failed = "no" => FilesCore /\ CallsInOrder)

\* Unless its last call has failed, the main flow has lost no pointer in use.
LEMMA CoreIsEnough == FilesCore => NoNodeDiesInUse
<1> SUFFICES ASSUME FilesCore, Me.status \in {"none", "Ok"}
             PROVE  FS!NothingDiesInUse
  BY DEF NoNodeDiesInUse
<1>1. Files!Accounted(clients[Main], nodes, descriptors)
  BY DEF FilesCore, Files!Settled, Files!GaveUp, Me
<1>2. Files!NothingDiesInUse
  BY <1>1, SameAssumptions, Files!AccountedIsEnough DEF FilesCore
<1> QED
  BY <1>2, SameStates

\* At first no call has been made.
LEMMA FilesInitHolds == Init => FilesInv
<1> SUFFICES ASSUME Init
             PROVE  FilesInv
  OBVIOUS
<1>1. Files!Init /\ stage = "enumerate"
  BY SameStates DEF Init
<1>2. Files!IInv
  BY <1>1, SameAssumptions, Files!InitHolds
<1>3. /\ Files!Accounted(clients[Main], nodes, descriptors) /\ ~ overlapped
      /\ clients[Main].pc = "idle" /\ clients[Main].call.op = "none"
      /\ \A n \in DOMAIN nodes : ~ nodes[n].childrenCreated
  BY <1>1, SameAssumptions, Files!InitSettles
<1>4. FilesCore
  BY <1>2, <1>3 DEF FilesCore, Files!Alone, Files!Settled, Me
<1>5. CallsInOrder
  BY <1>1, <1>3 DEF CallsInOrder, Me
<1> QED
  BY <1>4, <1>5, CoreIsEnough DEF FilesInv

\* Nothing dies while the tree and the main flow's call stay.
LEMMA NothingDies ==
  ASSUME NoNodeDiesInUse, UNCHANGED <<nodes, descriptors, clients>>
  PROVE  NoNodeDiesInUse'
<1>1. nodes' = nodes /\ descriptors' = descriptors /\ clients' = clients
  OBVIOUS
<1>2. \A fd : FS!Held(fd)' = FS!Held(fd) /\ FS!Listed(fd)' = FS!Listed(fd)
  BY <1>1, Zenon DEF FS!Held, FS!Listed
<1>3. \A n : FS!Alive(n)' = FS!Alive(n)
  BY <1>1, <1>2, Zenon DEF FS!Alive, FS!PointsTo
<1>4. \A n : FS!Pointers(n)' = FS!Pointers(n)
  BY <1>1, <1>2, <1>3, Zenon DEF FS!Pointers, FS!PointsTo
<1> QED
  BY <1>1, <1>2, <1>4, Zenon DEF NoNodeDiesInUse, Me, FS!NothingDiesInUse

\* Where the main flow goes without a call of the file system.
Goes ==
  \/ stage' = stage
  \/ stage \in Early /\ stage' \in {"startPcieDrivers", "createFileSystems"}
  \/ stage = "createFileSystems" /\ stage' = "findRootFs"
  \/ stage = "readApuBin" /\ Me.pc = "idle" /\ stage' = "startApus"
  \/ stage = "startApus" /\ stage' = "booted"

\* A step that makes no call of the file system.
LEMMA FilesRest ==
  ASSUME FilesInv, failed = "no", UNCHANGED treeVars, Goes
  PROVE  FilesInv'
<1>1. UNCHANGED <<nodes, descriptors, clients, overlapped>>
  BY DEF treeVars
<1>2. NoNodeDiesInUse'
  BY <1>1, NothingDies DEF FilesInv
<1>3. ASSUME failed' = "no" PROVE FilesCore'
  <2>1. UNCHANGED Files!treeVars
    BY <1>1, <1>3 DEF Files!treeVars
  <2>2. Files!IInv'
    BY <2>1, SameAssumptions, Files!DeviceHolds DEF FilesInv, FilesCore
  <2> QED
    BY <1>1, <2>2 DEF FilesInv, FilesCore, Files!Alone, Me
<1>4. CallsInOrder'
  BY <1>1 DEF FilesInv, CallsInOrder, RootAlong, Goes, Me, Early
<1> QED
  BY <1>2, <1>3, <1>4 DEF FilesInv

\* A call of openFile by the main flow.
LEMMA OpensHold ==
  ASSUME FilesInv, failed = "no", NEW f \in {RootFile, ApuFile}, FS!Open(Main, f, TRUE),
         Files!Accounted(clients[Main], nodes, descriptors),
         Files!EndUnread(nodes, Files!Path(f))
  PROVE  /\ FilesCore' /\ Me'.call = f
         /\ \A path : Files!ReadAlong(nodes, path) => Files!ReadAlong(nodes', path)
<1>1. f.op = "open" /\ ~ f.create
  BY PathsAssumption
<1>2. PICK free \in BOOLEAN : Files!Opens(f, free) /\ Files!Open(Main, f, free)
  <2>1. Files!Open(Main, f, TRUE)
    BY SameSteps, Zenon
  <2>2. Files!Opens(f, TRUE)
    BY <1>1, Zenon DEF Files!Opens
  <2> QED BY <2>1, <2>2, Zenon
<1>3. Files!IInv /\ Files!Alone(Main) /\ Main \in {Main}
  BY DEF FilesInv, FilesCore
<1>4. Files!IInv'
  BY <1>2, <1>3, SameAssumptions, Files!OpenHolds
<1>5. /\ Files!Settled(clients'[Main], nodes', descriptors') /\ Files!SameTree(nodes, nodes')
      /\ clients'[Main].call = f /\ Files!Alone(Main)'
  BY <1>2, <1>3, SameAssumptions, Files!OpenSettles
<1>6. \A path : Files!ReadAlong(nodes, path) => Files!ReadAlong(nodes', path)
  BY <1>5, SameAssumptions, Files!AlongStays
<1> QED
  BY <1>4, <1>5, <1>6 DEF FilesCore, Me

\* A call of readFile or closeFile by the main flow does not wait for a directory.
LEMMA FileCallsHold ==
  ASSUME FilesInv, failed = "no", Files!Accounted(clients[Main], nodes, descriptors),
         NEW op, Files!IInv',
         \E called \in Files!Worlds :
           Files!Call(Main, called) /\ Files!OnFile(called, Files!World(Main), op)
  PROVE  /\ FilesCore' /\ Me'.call = [op |-> op] /\ ~ Files!Waits(Me')
         /\ \A path : Files!ReadAlong(nodes, path) => Files!ReadAlong(nodes', path)
<1>1. Files!IInv /\ Files!Alone(Main) /\ Main \in {Main}
  BY DEF FilesInv, FilesCore
<1>2. /\ Files!Settled(clients'[Main], nodes', descriptors') /\ Files!SameTree(nodes, nodes')
      /\ clients'[Main].call = [op |-> op] /\ ~ Files!Waits(clients'[Main])
      /\ Files!Alone(Main)'
  BY <1>1, SameAssumptions, Files!FileSettles
<1>3. \A path : Files!ReadAlong(nodes, path) => Files!ReadAlong(nodes', path)
  BY <1>2, SameAssumptions, Files!AlongStays
<1> QED
  BY <1>2, <1>3 DEF FilesCore, Me

\* What is known of the main flow's call.
CallKnown ==
  /\ Me.pc \in {"idle", "walking", "listing", "reading"}
  /\ Me.pc = "reading" => Me.call.op = "read"
  /\ Files!Waits(Me) => Me.call \in {RootFile, ApuFile}

\* It waits for a directory only to open a file.
LEMMA CallIs == Files!IInv => CallKnown
<1> SUFFICES ASSUME Files!IInv
             PROVE  CallKnown
  OBVIOUS
<1>1. Me \in Files!ClientRecords /\ Files!Client(Me, nodes, descriptors)
  BY DEF Files!IInv, Files!TypeInv, Me
<1>2. Me.pc \in {"idle", "walking", "listing", "reading"}
  BY <1>1, SameAssumptions, Files!ClientTypes
<1> QED
  BY <1>1, <1>2 DEF CallKnown, Files!Client, Files!OnItsWay

\* findRootFs opens the root file: nothing has been read yet.
LEMMA OpenRootHolds ==
  ASSUME FilesInv, failed = "no", OpenRoot
  PROVE  FilesInv'
<1>1. /\ FS!Open(Main, RootFile, TRUE) /\ stage = "findRootFs" /\ stage' = stage
      /\ Me.call.op = "none"
  BY DEF OpenRoot, Returned
<1>2. \A n \in DOMAIN nodes : ~ nodes[n].childrenCreated
  BY <1>1 DEF FilesInv, CallsInOrder
<1>3. Files!Accounted(clients[Main], nodes, descriptors)
  BY <1>1 DEF FilesInv, FilesCore, Files!Settled, Files!GaveUp, Me
<1>4. /\ Files!EndUnread(nodes, Files!Path(RootFile))
      /\ Files!ReadAlong(nodes, Files!Path(RootFile))
  BY <1>2 DEF Files!EndUnread, Files!ReadAlong
<1>5. FilesCore' /\ Me'.call = RootFile /\ RootAlong'
  BY <1>1, <1>3, <1>4, OpensHold DEF RootAlong
<1>6. RootFile.op = "open"
  BY PathsAssumption
<1>7. CallsInOrder'
  BY <1>1, <1>5, <1>6 DEF CallsInOrder, Early
<1>8. NoNodeDiesInUse'
  BY <1>5, CoreIsEnough, PTL
<1> QED
  BY <1>5, <1>7, <1>8 DEF FilesInv

\* findRootFs has found the root file, and closes it.
LEMMA RootFoundHolds ==
  ASSUME FilesInv, failed = "no", RootFound
  PROVE  FilesInv'
<1>1. /\ stage = "findRootFs" /\ stage' = "openApuBin"
      /\ Me.pc = "idle" /\ Me.call.op = "open" /\ Me.status = "Ok"
  BY DEF RootFound, Returned
<1>2. PICK fd \in clients[Main].held, keep \in BOOLEAN : Files!Close(Main, fd, keep)
  BY SameSteps, Zenon DEF RootFound, Me
<1>3. RootAlong /\ Files!IInv /\ Main \in {Main}
  BY <1>1 DEF FilesInv, FilesCore, CallsInOrder
<1>4. Files!Accounted(clients[Main], nodes, descriptors)
  BY <1>1 DEF FilesInv, FilesCore, Files!Settled, Files!GaveUp, Me
<1>5. /\ Files!IInv'
      /\ \E called \in Files!Worlds :
           Files!Call(Main, called) /\ Files!OnFile(called, Files!World(Main), "close")
  BY <1>2, <1>3, SameAssumptions, Files!CloseHolds
<1>6. /\ FilesCore' /\ Me'.call = [op |-> "close"] /\ ~ Files!Waits(Me') /\ RootAlong'
  BY <1>3, <1>4, <1>5, FileCallsHold DEF RootAlong
<1>7. CallKnown'
  BY <1>5, CallIs, PTL
<1>8. Me'.call.op = "close" /\ Me'.pc = "idle"
  BY <1>6, <1>7 DEF CallKnown, Files!Waits
<1>9. CallsInOrder'
  BY <1>1, <1>6, <1>8 DEF CallsInOrder, Early
<1>10. NoNodeDiesInUse'
  BY <1>6, CoreIsEnough, PTL
<1> QED
  BY <1>6, <1>9, <1>10 DEF FilesInv

\* bootApus opens the binary: its directory is not on the way to the root file.
LEMMA OpenApuHolds ==
  ASSUME FilesInv, failed = "no", OpenApu
  PROVE  FilesInv'
<1>1. /\ FS!Open(Main, ApuFile, TRUE) /\ stage = "openApuBin" /\ stage' = stage
      /\ Me.call.op \in {"close", "read"}
  BY DEF OpenApu, Returned
<1>2. ApuFile.op = "open"
  BY PathsAssumption
<1>3. RootAlong
  BY <1>1, <1>2 DEF FilesInv, CallsInOrder
<1>4. Files!Accounted(clients[Main], nodes, descriptors)
  BY <1>1 DEF FilesInv, FilesCore, Files!Settled, Files!GaveUp, Me
<1>5. Files!EndUnread(nodes, Files!Path(ApuFile))
  <2> DEFINE path == Files!Path(ApuFile)
             root == Files!Path(RootFile)
             dir == Files!Resolve(path)[Len(path)]
  <2>1. /\ dir.status = "Ok" => \A k \in 0 .. Len(root) : Files!Resolve(root)[k] # dir
    <3>1. FS!Path(ApuFile) = path /\ FS!Path(RootFile) = root
      BY SamePaths, Zenon
    <3>2. FS!Resolve(path) = Files!Resolve(path) /\ FS!Resolve(root) = Files!Resolve(root)
      BY SamePaths, Zenon
    <3> QED
      BY <3>1, <3>2, PathsAssumption, Zenon
  <2>2. \A n \in DOMAIN nodes :
          nodes[n].childrenCreated =>
            \E k \in 0 .. Len(root) :
              Files!Resolve(root)[k] = [status |-> "Ok", name |-> nodes[n].name]
    BY <1>3 DEF RootAlong, Files!ReadAlong
  <2> HIDE DEF path, root, dir
  <2>3. ASSUME NEW n \in DOMAIN nodes, nodes[n].childrenCreated
        PROVE  dir # [status |-> "Ok", name |-> nodes[n].name]
    BY <2>1, <2>2, <2>3
  <2> QED
    BY <2>3 DEF path, dir, Files!EndUnread
<1>6. FilesCore' /\ Me'.call = ApuFile
  BY <1>1, <1>4, <1>5, OpensHold
<1>7. CallsInOrder'
  BY <1>1, <1>2, <1>6 DEF CallsInOrder, Early
<1>8. NoNodeDiesInUse'
  BY <1>6, CoreIsEnough, PTL
<1> QED
  BY <1>6, <1>7, <1>8 DEF FilesInv

\* bootApus reads the binary that it has opened, whole.
LEMMA ReadApuHolds ==
  ASSUME FilesInv, failed = "no", ReadApu
  PROVE  FilesInv'
<1> DEFINE fd == Max(Me.held)
           name == nodes[descriptors[fd].node].name
           request == [offset |-> 0, count |-> Size[name]]
<1>1. /\ stage = "openApuBin" /\ stage' = "readApuBin"
      /\ Me.pc = "idle" /\ Me.call.op = "open" /\ Me.status = "Ok"
      /\ FS!Read(Main, fd, request, TRUE)
  BY DEF ReadApu, Returned
<1> HIDE DEF fd
<1>2. Files!IInv /\ Main \in {Main}
  BY DEF FilesInv, FilesCore
<1>3. Files!Read(Main, fd, request, TRUE)
  BY <1>1, SameSteps, Zenon
<1>4. fd \in clients[Main].held
  BY <1>3, Zenon DEF Files!Read
<1>5. name \in Names
  <2>1. /\ Files!Opened(nodes, descriptors) /\ fd \in DOMAIN descriptors
        /\ nodes \in Seq(Files!NodeRecords)
    BY <1>2, <1>4 DEF Files!IInv, Files!TypeInv, Files!Client, Files!Holds
  <2>2. descriptors[fd].node \in DOMAIN nodes
    BY <2>1 DEF Files!Opened
  <2>3. name \in Files!Names
    BY <2>1, <2>2, SameAssumptions, Files!NodeTypes
  <2>4. Files!Names = Names
    BY Zenon DEF Files!Names, Names, Files!Directories, Files!Range, Range
  <2> QED BY <2>3, <2>4
<1>6. request \in {[offset |-> 0, count |-> Size[n]] : n \in Names}
  BY <1>5
<1> HIDE DEF request
<1>7. PICK free \in BOOLEAN : Files!Read(Main, fd, request, free)
  BY <1>3, Zenon
<1>8. Files!Accounted(clients[Main], nodes, descriptors)
  BY <1>1 DEF FilesInv, FilesCore, Files!Settled, Files!GaveUp, Me
<1>9. /\ Files!IInv'
      /\ \E called \in Files!Worlds :
           Files!Call(Main, called) /\ Files!OnFile(called, Files!World(Main), "read")
  BY <1>2, <1>4, <1>6, <1>7, SameAssumptions, Files!ReadHolds
<1>10. FilesCore' /\ Me'.call = [op |-> "read"]
  BY <1>8, <1>9, FileCallsHold
<1>11. CallsInOrder'
  BY <1>1, <1>10 DEF CallsInOrder, Early
<1>12. NoNodeDiesInUse'
  BY <1>10, CoreIsEnough, PTL
<1> QED
  BY <1>10, <1>11, <1>12 DEF FilesInv

\* The main flow's call goes on with the device's answer.
LEMMA GoOnWithCallHolds ==
  ASSUME FilesInv, failed = "no", GoOnWithCall
  PROVE  FilesInv'
<1>1. PICK free \in BOOLEAN : free /\ Files!Resume(Main, free)
  BY SameResume, Zenon DEF GoOnWithCall
<1>2. stage' = stage /\ Me.pc # "idle"
  BY SameResume, Zenon DEF GoOnWithCall, Me, FS!Resume
<1>3. Files!IInv /\ Files!Alone(Main) /\ Main \in {Main}
      /\ Files!Settled(clients[Main], nodes, descriptors)
  BY DEF FilesInv, FilesCore, Me
<1>4. CallKnown
  BY <1>3, CallIs
<1>5. \A f \in {RootFile, ApuFile} : f.op = "open" /\ ~ f.create
  BY PathsAssumption
<1>6. Files!Waits(clients[Main]) => Files!Opens(clients[Main].call, free)
  BY <1>1, <1>4, <1>5, Zenon DEF CallKnown, Files!Opens, Me
<1>7. Files!IInv'
  BY <1>1, <1>3, SameAssumptions, Files!ResumeHolds
<1>8. /\ Files!Settled(clients'[Main], nodes', descriptors') /\ Files!Alone(Main)'
      /\ clients'[Main].call = clients[Main].call
      /\ Files!Waits(clients[Main]) /\ Files!ReadAlong(nodes, Files!Path(clients[Main].call)) =>
           Files!ReadAlong(nodes', Files!Path(clients[Main].call))
  BY <1>1, <1>3, <1>6, SameAssumptions, Files!ResumeSettles
<1>9. FilesCore' /\ Me'.call = Me.call
  BY <1>7, <1>8 DEF FilesCore, Me
<1>10. CallsInOrder'
  <2>1. CallsInOrder
    BY DEF FilesInv
  <2>2. stage \in {"findRootFs", "openApuBin", "readApuBin"} \/ stage \notin
          Early \cup {"createFileSystems", "startApus", "booted"}
    BY <1>2, <2>1 DEF CallsInOrder, Early
  <2>3. stage = "findRootFs" => Me.call = RootFile /\ RootAlong
    BY <1>2, <2>1 DEF CallsInOrder
  <2>4. stage = "findRootFs" => RootAlong'
    BY <1>2, <1>4, <1>5, <1>8, <2>3 DEF CallKnown, RootAlong, Me, Files!Waits
  <2> QED
    BY <1>2, <1>9, <2>1, <2>2, <2>3, <2>4 DEF CallsInOrder, Early
<1>11. NoNodeDiesInUse'
  BY <1>9, CoreIsEnough, PTL
<1> QED
  BY <1>9, <1>10, <1>11 DEF FilesInv

\* The steps of the main flow that do not use the file system, and those beside it.
LEMMA OtherSteps ==
  ASSUME Next
  PROVE  \/ OpenRoot \/ GoOnWithCall \/ RootFound \/ OpenApu \/ ReadApu
         \/ UNCHANGED treeVars /\ Goes
<1>1. CASE \/ EnumerateBuses \/ StartDrivers \/ SkipDevice \/ ReadSector \/ SectorRead
           \/ StartCpus \/ CallFailed
  <2>1. UNCHANGED treeVars
    BY <1>1, Zenon DEF EnumerateBuses, StartDrivers, SkipDevice, ReadSector, SectorRead,
                       StartCpus, CallFailed
  <2>2. UNCHANGED stage
    BY <1>1, Zenon DEF EnumerateBuses, StartDrivers, SkipDevice, ReadSector, SectorRead,
                       StartCpus, CallFailed, ownVars
  <2> QED BY <2>1, <2>2 DEF Goes
<1>2. CASE BeginDrivers \/ BeginFileSystems \/ EndFileSystems \/ BeginCpus \/ EndCpus
  <2>1. UNCHANGED treeVars
    BY <1>2, Zenon DEF BeginDrivers, BeginFileSystems, EndFileSystems, BeginCpus, EndCpus
  <2>2. Goes
    <3>1. \/ stage = "enumerate" /\ stage' = "startPcieDrivers"
          \/ stage = "startPcieDrivers" /\ stage' = "createFileSystems"
          \/ stage = "createFileSystems" /\ (stage' = "findRootFs" \/ UNCHANGED stage)
          \/ stage = "readApuBin" /\ Me.pc = "idle" /\ stage' = "startApus"
          \/ stage = "startApus" /\ stage' = "booted"
      BY <1>2, Zenon DEF BeginDrivers, BeginFileSystems, EndFileSystems, BeginCpus, EndCpus,
                         Returned
    <3> QED BY <3>1 DEF Goes, Early
  <2> QED BY <2>1, <2>2
<1>3. CASE \/ FailToMap \/ FailToPrepare \/ UseMovedController \/ HardwareStep
           \/ \E c \in Others : OtherCpu(c)
  <2>1. UNCHANGED treeVars
    BY <1>3, Zenon DEF FailToMap, FailToPrepare, UseMovedController, HardwareStep, OtherCpu
  <2>2. UNCHANGED stage
    BY <1>3, Zenon DEF FailToMap, FailToPrepare, UseMovedController, HardwareStep, OtherCpu,
                       ownVars
  <2> QED BY <2>1, <2>2 DEF Goes
<1> QED
  BY <1>1, <1>2, <1>3 DEF Next, MainFlow

\* Every step keeps the invariant.
LEMMA FilesNextHolds == FilesInv /\ [Next]_vars => FilesInv'
<1> SUFFICES ASSUME FilesInv, [Next]_vars
             PROVE  FilesInv'
  OBVIOUS
<1>1. CASE Next
  <2>1. failed = "no"
    BY <1>1 DEF Next
  <2> QED
    BY <1>1, <2>1, OtherSteps, FilesRest, OpenRootHolds, GoOnWithCallHolds, RootFoundHolds,
       OpenApuHolds, ReadApuHolds
<1>2. CASE UNCHANGED vars
  <2>1. UNCHANGED treeVars /\ stage' = stage /\ failed' = failed
    BY <1>2 DEF vars, ownVars
  <2>2. CASE failed = "no"
    BY <2>1, <2>2, FilesRest DEF Goes
  <2>3. CASE failed # "no"
    <3>1. UNCHANGED <<nodes, descriptors, clients>>
      BY <2>1 DEF treeVars
    <3> QED
      BY <2>1, <2>3, <3>1, NothingDies DEF FilesInv
  <2> QED BY <2>2, <2>3
<1> QED
  BY <1>1, <1>2

\* On any machine, whatever the medium holds and whichever of its reads fail: the
\* main flow uses no node and no descriptor that has been destroyed, though the
\* calls that did not have to wait uncount their result's pointer twice
\* (async.h:43), as long as it opens its two files in directories that it has not
\* read before.
THEOREM NodesLiveWhileUsed == Spec => []NoNodeDiesInUse
<1>1. FilesInv => NoNodeDiesInUse
  BY DEF FilesInv
<1> QED
  BY <1>1, FilesInitHolds, FilesNextHolds, PTL DEF Spec

\* What the kernel has found on the medium: when it goes on, the root file is there,
\* and when it starts the CPUs so is the binary that they run.
FilesAreThere ==
  /\ stage \in {"openApuBin", "readApuBin", "startApus", "booted"} =>
       FS!Promised(RootFile) = "Ok"
  /\ stage \in {"readApuBin", "startApus", "booted"} => FS!Promised(ApuFile) = "Ok"

\* openFile has told the truth about a file that the main flow has opened.
LEMMA OpenedIsThere ==
  ASSUME FilesInv, failed = "no", NEW f \in {RootFile, ApuFile}, Me.call = f,
         Me.pc = "idle", Me.status = "Ok"
  PROVE  FS!Promised(f) = "Ok"
<1>1. Files!Truthful(clients[Main])
  BY DEF FilesInv, FilesCore, Files!IInv
<1>2. Files!Promised(f) = "Ok"
  BY <1>1 DEF Files!Truthful, Me
<1>3. FS!Promised(f) = Files!Promised(f)
  BY SamePaths, Zenon
     DEF FS!Promised, Files!Promised, FS!Directories, Files!Directories,
         FS!Contains, Files!Contains, FS!Last, Files!Last
<1> QED
  BY <1>2, <1>3

\* Every step keeps to what has been found.
LEMMA FilesAreThereNext ==
  FilesInv /\ FilesAreThere /\ [Next]_vars => FilesAreThere'
<1> SUFFICES ASSUME FilesInv, FilesAreThere, [Next]_vars
             PROVE  FilesAreThere'
  OBVIOUS
<1>1. CASE OpenRoot \/ GoOnWithCall \/ OpenApu
  <2>1. UNCHANGED stage
    BY <1>1, Zenon DEF OpenRoot, GoOnWithCall, OpenApu
  <2> QED BY <2>1 DEF FilesAreThere
<1>2. CASE failed = "no" /\ RootFound
  <2>1. /\ stage = "findRootFs" /\ stage' = "openApuBin"
        /\ Me.pc = "idle" /\ Me.call.op = "open" /\ Me.status = "Ok"
    BY <1>2, Zenon DEF RootFound, Returned
  <2>2. Me.call = RootFile
    BY <1>2, <2>1 DEF FilesInv, CallsInOrder
  <2>3. FS!Promised(RootFile) = "Ok"
    BY <1>2, <2>1, <2>2, OpenedIsThere
  <2> QED BY <2>1, <2>3 DEF FilesAreThere
<1>3. CASE failed = "no" /\ ReadApu
  <2>1. /\ stage = "openApuBin" /\ stage' = "readApuBin"
        /\ Me.pc = "idle" /\ Me.call.op = "open" /\ Me.status = "Ok"
    BY <1>3, Zenon DEF ReadApu, Returned
  <2>2. Me.call = ApuFile
    BY <1>3, <2>1 DEF FilesInv, CallsInOrder
  <2>3. FS!Promised(ApuFile) = "Ok"
    BY <1>3, <2>1, <2>2, OpenedIsThere
  <2> QED BY <2>1, <2>3 DEF FilesAreThere
<1>4. CASE Goes \/ UNCHANGED vars
  <2>1. Goes
    BY <1>4 DEF Goes, vars, ownVars
  <2> QED BY <2>1 DEF FilesAreThere, Goes, Early
<1>5. Next => failed = "no"
  BY DEF Next
<1> QED
  BY <1>1, <1>2, <1>3, <1>4, <1>5, OtherSteps

\* However reads fail, the kernel does not start a CPU, nor boot, unless both files
\* that it opens are on the medium under their paths: findRootFs and bootApus go on
\* with status Ok only, and openFile's statuses are true.
THEOREM BootsFromTheMedium == Spec => []FilesAreThere
<1>1. Init => FilesAreThere
  BY DEF Init, FilesAreThere
<1> QED
  BY <1>1, FilesInitHolds, FilesNextHolds, FilesAreThereNext, PTL DEF Spec

=============================================================================

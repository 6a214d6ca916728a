-------------------------- MODULE PcieEnumeration --------------------------
(***************************************************************************)
(* PCIe::enumerate of src/src/boot/pcie.cpp: the boot CPU maps the           *)
(* configuration page of one function after the other, keeps the pages of   *)
(* the functions that are there, and notes for each where its MSI           *)
(* capability is.  There is one segment group.                              *)
(***************************************************************************)

EXTENDS Integers, Sequences

CONSTANTS
  Machines,      (* [startBus, endBus, functions |-> what is at each         *)
                 (* <<bus, device, function>> that is there: [class |-> ..., *)
                 (* capabilities |-> "none", "without MSI" or "with MSI",   *)
                 (* multi |-> BOOLEAN], and what AhciControllers needs]     *)
  DeviceCount,   (* devices on a bus: 32                                    *)
  FunctionCount, (* functions of a device: 8                                *)
  BusWord,       (* a bus number is a uint8_t                               *)
  Null, Garbage  (* a null pointer, and one that nobody has set             *)

ASSUME SizesAssumption ==
  /\ DeviceCount \in Nat \ {0} /\ FunctionCount \in Nat \ {0}
  /\ BusWord \in Nat

Places(m) ==
  (0 .. m.endBus - m.startBus) \X (0 .. DeviceCount - 1) \X (0 .. FunctionCount - 1)

\* The loop over the buses of a segment never ends if the last one is 255.
\* AHCI requires a capabilities list, other functions may have none.  A device
\* has a function 0, which says whether it has others.
ASSUME MachineAssumption ==
  \A m \in Machines :
    /\ m.startBus \in Nat /\ m.endBus \in Nat
    /\ m.startBus <= m.endBus /\ m.endBus < BusWord - 1
    /\ DOMAIN m.functions \subseteq Places(m)
    /\ \A place \in DOMAIN m.functions :
         LET function == m.functions[place]
             first == <<place[1], place[2], 0>>
         IN  /\ function.capabilities \in {"none", "without MSI", "with MSI"}
             /\ function.class = "AHCI" => function.capabilities # "none"
             /\ place[3] # 0 => first \in DOMAIN m.functions /\ m.functions[first].multi

VARIABLES
  machine,   (* what the kernel runs on                                     *)
  at,        (* <<bus, device, function>> of the loops, or Done             *)
  msi,       (* enumerateDevice's local variable: whose capability          *)
  functions, (* PCIe::functions                                             *)
  pages,     (* the places whose configuration page is mapped               *)
  failed     (* why the kernel has panicked, or "no"                        *)

pcieVars == <<machine, at, msi, functions, pages>>

Done == <<>>

NextDevice(bus, device) ==
  LET nextBus == (bus + 1) % BusWord
  IN  IF device + 1 < DeviceCount THEN <<bus, device + 1, 0>>
      ELSE IF nextBus <= machine.endBus THEN <<nextBus, 0, 0>>
      ELSE Done

NextFunction(bus, device, function) ==
  IF function + 1 < FunctionCount THEN <<bus, device, function + 1>>
  ELSE NextDevice(bus, device)

\* Buses are numbered from the group's first one.
Place == <<at[1] - machine.startBus, at[2], at[3]>>

Present(place) == place \in DOMAIN machine.functions

\* enumerateFunction: the pointer is set only if there is a capabilities list.
MsiOf(place, old) ==
  CASE machine.functions[place].capabilities = "with MSI" -> place
    [] machine.functions[place].capabilities = "without MSI" -> Null
    [] machine.functions[place].capabilities = "none" -> old

Found(place, old) ==
  /\ msi' = MsiOf(place, old)
  /\ functions' = Append(functions, [place |-> place, msi |-> msi'])
  /\ pages' = pages \cup {place}
  /\ UNCHANGED <<machine, failed>>

\* Mutant: the page of a function that is not there stays mapped.
NotFoundKept == pages' = pages \cup {Place} /\ UNCHANGED <<machine, msi, functions, failed>>

\* The page that was mapped to look is freed again.
NotFound == UNCHANGED <<machine, msi, functions, pages, failed>>

CannotMap ==
  /\ at # Done
  /\ failed' = "no configuration page"
  /\ UNCHANGED pcieVars

\* Function 0 of a device: the local variable msi is not initialised, so it
\* holds what the stack has there.
EnumerateDevice ==
  /\ at # Done
  /\ at[3] = 0
  /\ \/ /\ Present(Place)
        /\ \E old \in {msi, Null, Garbage} : Found(Place, old)
        /\ at' = IF machine.functions[Place].multi
                 THEN NextFunction(at[1], at[2], 0)
                 ELSE NextDevice(at[1], at[2])
     \/ /\ ~Present(Place)
        /\ NotFound
        /\ at' = NextDevice(at[1], at[2])

\* The other functions of a device.
EnumerateFunction ==
  /\ at # Done
  /\ at[3] # 0
  /\ \/ Present(Place) /\ Found(Place, msi)
     \/ ~Present(Place) /\ NotFound
  /\ at' = NextFunction(at[1], at[2], at[3])

PcieInit ==
  /\ machine \in Machines
  /\ at = <<machine.startBus, 0, 0>>
  /\ msi = Garbage
  /\ functions = <<>>
  /\ pages = {}

Enumerate == EnumerateDevice \/ EnumerateFunction

\* Enumeration by itself; a panic is a stop.
PcieSpec == PcieInit /\ [][Enumerate]_pcieVars

-----------------------------------------------------------------------------
\* A configuration page stays mapped exactly for the functions that were found,
\* and once enumeration is done those are all that the machine has: no page is
\* lost on a function that is not there (pcie.cpp:158 and 207).
PagesAreTheFunctions ==
  /\ pages = {functions[i].place : i \in DOMAIN functions}
  /\ \A i, j \in DOMAIN functions : functions[i].place = functions[j].place => i = j
  /\ at = Done => pages = DOMAIN machine.functions

=============================================================================

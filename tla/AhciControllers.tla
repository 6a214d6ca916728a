-------------------------- MODULE AhciControllers --------------------------
(***************************************************************************)
(* The AHCI driver from the start to its devices: startPcieDrivers of        *)
(* src/src/boot/kernel.cpp, initialize and ahciMsiHandler of                 *)
(* src/src/drivers/storage/ahci.cpp and Controller::initialize of            *)
(* .../ahci/controller.cpp, all in one coroutine, main's.                    *)
(*                                                                          *)
(* Controllers are kept in a vector that moves them when it grows, while     *)
(* their devices point to where they were.  Devices are kept in the order    *)
(* of their ports, and looked up by port number when they interrupt.         *)
(***************************************************************************)

EXTENDS PcieEnumeration

CONSTANTS
  Main,     (* the coroutine                                                *)
  PortCount (* ports of a controller: 32                                    *)

ASSUME PortAssumption == PortCount \in Nat

VARIABLES
  next,        (* index in PCIe::functions of the function to start         *)
  port,        (* the port that Controller::initialize looks at, or None    *)
  controllers, (* [place, devices |-> sequence of [port, type, moved]]      *)
  messages,    (* the functions whose MSI is enabled                        *)
  asked,       (* [controller, port] of the device Main waits for           *)
  trouble,     (* with the command that Main waits for: "none"; "failed",   *)
               (* its port has stopped; "missed", its interrupt has come    *)
               (* and answered nothing                                      *)
  phase,       (* the block device that Main reads from                     *)
  answer

controllerVars == <<next, port, controllers, messages, asked, trouble>>

NoPort == PortCount

Device == INSTANCE BlockDevice WITH Readers <- {Main}

Function == machine.functions[functions[next].place]

\* machine.ports gives, for the place of a controller, what is at each port:
\* "none" if it is not there or not active, "other", "SATA" or "SATAPI".
At(place, p) == machine.ports[place][p + 1]

HasDriver(place) == machine.functions[place].class = "AHCI"

-----------------------------------------------------------------------------
(* startPcieDrivers *)

SkipFunction ==
  /\ next <= Len(functions)
  /\ ~HasDriver(functions[next].place)
  /\ next' = next + 1
  /\ UNCHANGED <<port, controllers, messages, asked, trouble, phase, answer, failed>>

\* A vector that is full moves to twice its size.
IsPowerOfTwo(n) == \E k \in 0 .. n : n = 2 ^ k

Moved(devices) == [i \in DOMAIN devices |-> [devices[i] EXCEPT !.moved = TRUE]]

Grown ==
  LET n == Len(controllers)
  IN  IF IsPowerOfTwo(n)
      THEN [k \in DOMAIN controllers |->
              [controllers[k] EXCEPT !.devices = Moved(@)]]
      ELSE controllers

\* AHCI::initialize and the beginning of Controller::initialize.
StartController ==
  LET function == functions[next]
  IN  /\ next <= Len(functions)
      /\ port = NoPort
      /\ HasDriver(function.place)
      /\ IF function.msi = Null
         THEN /\ failed' = "driver"
              /\ UNCHANGED <<messages, controllers, port>>
         ELSE /\ messages' = messages \cup {function.msi}
              /\ \/ /\ controllers' = Append(Grown, [place |-> function.place, devices |-> <<>>])
                    /\ port' = 0
                    /\ UNCHANGED failed
                 \/ /\ failed' = "driver"  \* its registers cannot be mapped
                    /\ UNCHANGED <<controllers, port>>
      /\ UNCHANGED <<next, asked, trouble, phase, answer>>

Current == Len(controllers)

\* Another port: none of those that a driver is for.
SkipPort ==
  /\ port < PortCount
  /\ asked = <<>>
  /\ At(controllers[Current].place, port) \in {"none", "other"}
  /\ port' = port + 1
  /\ next' = IF port' = PortCount THEN next + 1 ELSE next
  /\ UNCHANGED <<controllers, messages, asked, trouble, phase, answer, failed>>

WithDevice(p) ==
  [controllers EXCEPT ![Current].devices =
     Append(@, [port |-> p, type |-> At(controllers[Current].place, p), moved |-> FALSE])]

Ask(k, p) ==
  /\ Device!Ask(Main)
  /\ asked' = <<k, p>>
  /\ trouble' = "none"

\* Mutant: the device is listed when it has been identified.
IdentifyPortFirst ==
  /\ port < PortCount
  /\ asked = <<>>
  /\ At(controllers[Current].place, port) \in {"SATA", "SATAPI"}
  /\ Ask(Current, port)
  /\ UNCHANGED <<next, port, controllers, messages, failed>>

\* A device is created, listed and initialised, then it is asked to identify
\* itself.
IdentifyPort ==
  /\ port < PortCount
  /\ asked = <<>>
  /\ At(controllers[Current].place, port) \in {"SATA", "SATAPI"}
  /\ controllers' = WithDevice(port)
  /\ \/ Ask(Current, port) /\ UNCHANGED failed
     \/ failed' = "driver" /\ UNCHANGED <<asked, trouble, phase, answer>>
  /\ UNCHANGED <<next, port, messages>>

Identified ==
  /\ port < PortCount
  /\ asked # <<>>
  /\ phase[Main] = "answered"
  /\ IF answer[Main] = "true"
     THEN /\ port' = port + 1
          /\ next' = IF port' = PortCount THEN next + 1 ELSE next
          /\ UNCHANGED failed
     ELSE failed' = "driver" /\ UNCHANGED <<port, next>>
  /\ asked' = <<>>
  /\ Device!Take(Main)
  /\ phase'[Main] = "idle"
  /\ UNCHANGED <<controllers, messages, trouble>>

-----------------------------------------------------------------------------
(* The devices *)

\* The HBA reads what was asked for, or the command fails and stops its port
\* for good (AhciDevice's Execute).
ExecuteCommand ==
  /\ trouble = "none"
  /\ \/ Device!Execute(Main) /\ UNCHANGED trouble
     \/ phase[Main] = "waiting" /\ trouble' = "failed" /\ UNCHANGED <<phase, answer>>
  /\ UNCHANGED <<next, port, controllers, messages, asked, failed>>

\* ahciMsiHandler, once per controller and port that has something to say: the
\* device is looked up by its port.  Where the list is shorter, what follows
\* it in the heap is taken for a pointer.  The device's msiHandler answers the
\* command if it was executed; one that has failed it does not find.
Interrupt ==
  LET devices == controllers[asked[1]].devices
      i == asked[2] + 1
  IN  /\ asked # <<>>
      /\ phase[Main] = "executed" \/ trouble = "failed"
      /\ trouble # "missed"
      /\ controllers[asked[1]].place \in messages
      /\ \/ /\ i \in DOMAIN devices
            /\ devices[i].port = asked[2]
            /\ phase[Main] = "executed"
            /\ \E value \in {"true", "false"} : Device!Answer({Main}, value)
            /\ UNCHANGED <<trouble, failed>>
         \/ /\ i \in DOMAIN devices /\ devices[i].port = asked[2] => trouble = "failed"
            /\ trouble' = "missed"
            /\ failed' \in IF i \in DOMAIN devices
                           THEN {"no"} ELSE {"no", "called a device that is none"}
            /\ UNCHANGED <<phase, answer>>
      /\ UNCHANGED <<next, port, controllers, messages, asked>>

ControllersInit ==
  /\ next = 1
  /\ port = NoPort
  /\ controllers = <<>>
  /\ messages = {}
  /\ asked = <<>>
  /\ trouble = "none"
  /\ Device!Init

Start == SkipFunction \/ StartController \/ SkipPort \/ IdentifyPort \/ Identified

-----------------------------------------------------------------------------
\* A controller's devices are at its first ports.
PortsFromZero(place) ==
  \A p, q \in 0 .. PortCount - 1 :
    p < q /\ At(place, q) \in {"SATA", "SATAPI"} => At(place, p) \in {"SATA", "SATAPI"}

\* While the kernel waits for a device, the interrupt of that device's port is
\* enabled and leads to that device: if the ports in use are the first ones,
\* for the list of devices is indexed by port (ahci.cpp:27).
InterruptFindsTheDevice ==
  asked # <<>> /\ PortsFromZero(controllers[asked[1]].place) =>
    LET controller == controllers[asked[1]]
    IN  /\ controller.place \in messages
        /\ asked[2] + 1 \in DOMAIN controller.devices
        /\ controller.devices[asked[2] + 1].port = asked[2]

=============================================================================

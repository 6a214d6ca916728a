----------------------------- MODULE AhciDevice -----------------------------
(***************************************************************************)
(* Reading from an AHCI device, src/src/drivers/storage/ahci/device.cpp,    *)
(* with the scheduler that resumes the coroutines waiting for it.           *)
(*                                                                          *)
(* A coroutine takes a free command slot, prepares its table and awaits a   *)
(* Command: await_suspend registers it with the device and issues it.  The  *)
(* host bus adapter (HBA) executes issued commands on its own, in any       *)
(* order, and interrupts; msiHandler gives the registered commands their    *)
(* results and queues their coroutines.                                     *)
(*                                                                          *)
(* The first command (identify) is issued by the kernel's main flow, which  *)
(* interrupts may stop anywhere; all others are issued by coroutines that   *)
(* timerLoop resumes, with interrupts disabled.                             *)
(***************************************************************************)

EXTENDS Scheduler, FiniteSetsExt, SequencesExt

CONSTANTS
  Slots,       (* command slots: 0 .. 31                                    *)
  First,       (* the coroutine that main starts                            *)
  None,
  ReadsEach,   (* bound: the commands that a coroutine issues               *)
  Unsolicited, (* bound: the register FISes that no command asked for       *)
  UnsolicitedAtStart (* may they come before the first command is issued    *)

ASSUME DeviceAssumption ==
  /\ IsFiniteSet(Slots) /\ 0 \in Slots
  /\ Slots = 0 .. Cardinality(Slots) - 1
  /\ First \in Coroutines
  /\ None \notin Coroutines
  /\ ReadsEach \in Nat \ {0}
  /\ Unsolicited \in Nat
  /\ UnsolicitedAtStart \in BOOLEAN

VARIABLES
  commandIssue,    (* port->commandIssue: what the HBA has to execute       *)
  interruptStatus, (* port->interruptStatus                                 *)
  msiPending,      (* an interrupt of the HBA is on its way to the boot CPU *)
  stopped,         (* the HBA has stopped the port at a task file error     *)
  unsolicited,     (* how many unsolicited FISes came                       *)
  running,         (* runningCommandsBitmap                                 *)
  commands,        (* the coroutine of the Command registered for each slot *)
  status,          (* what msiHandler has read of interruptStatus           *)
  state,           (* of each coroutine                                     *)
  slot,            (* the slot of each coroutine's command                  *)
  result,          (* of each coroutine's Command: nullptr is "none"        *)
  reads,           (* commands that each coroutine has had a result of      *)
  outcome,         (* what the HBA made of each coroutine's command: a      *)
                   (* history variable                                      *)
  failed           (* why the kernel has panicked, or "no"                  *)

hbaVars == <<commandIssue, interruptStatus, msiPending, stopped, unsolicited, outcome>>
deviceVars == <<running, commands, status>>
coroutineVars == <<state, slot, result, reads, failed>>
vars == <<hbaVars, deviceVars, coroutineVars, schedulerVars>>

-----------------------------------------------------------------------------
(* Issuing a command *)

\* Mutant: slots whose command was executed but has no result yet are free.
FreeSlotsNotIssued == Slots \ commandIssue

\* findFreeCommandSlot.  No command here uses port->sataActive.
FreeSlots == Slots \ (commandIssue \cup running)

\* All of it, where no interrupt handler can come between: the slot is found
\* and registered and the command is issued.
Issue(c, s) ==
  /\ commands' = [commands EXCEPT ![s] = c]
  /\ running' = running \cup {s}
  /\ commandIssue' = commandIssue \cup {s}
  /\ state' = [state EXCEPT ![c] = "suspended"]
  /\ slot' = [slot EXCEPT ![c] = s]
  /\ result' = [result EXCEPT ![c] = "none"]
  /\ outcome' = [outcome EXCEPT ![c] = "none"]

\* In the main flow the same takes three steps: the slot is found and its
\* table prepared, the command is registered, the command is issued.
MainFindsSlot ==
  /\ cpu = "main"
  /\ state[First] = "new"
  /\ state' = [state EXCEPT ![First] = "hasSlot"]
  /\ slot' = [slot EXCEPT ![First] = Min(FreeSlots)]
  /\ UNCHANGED <<hbaVars, deviceVars, result, reads, failed, schedulerVars>>

MainRegisters ==
  /\ cpu = "main"
  /\ state[First] = "hasSlot"
  /\ state' = [state EXCEPT ![First] = "registered"]
  /\ commands' = [commands EXCEPT ![slot[First]] = First]
  /\ running' = running \cup {slot[First]}
  /\ UNCHANGED <<hbaVars, status, slot, result, reads, failed, schedulerVars>>

MainIssues ==
  /\ cpu = "main"
  /\ state[First] = "registered"
  /\ state' = [state EXCEPT ![First] = "suspended"]
  /\ commandIssue' = commandIssue \cup {slot[First]}
  /\ UNCHANGED <<interruptStatus, msiPending, stopped, unsolicited, outcome, deviceVars,
                 slot, result, reads, failed, schedulerVars>>

-----------------------------------------------------------------------------
(* The HBA, as AHCI 1.3.1 has it, the specification that the driver names     *)
(* (device.cpp:41).  It clears the bit of a command that has succeeded.  At a  *)
(* command that fails the bit stays set and the port stops (3.3.14, 6.2.2.1)   *)
(* until PxCMD.ST is cleared, which only initialize does (device.cpp:197).     *)

Post(bits) ==
  /\ interruptStatus' = interruptStatus \cup bits
  /\ msiPending' = TRUE

Execute(c) ==
  /\ ~stopped
  /\ state[c] = "suspended"
  /\ slot[c] \in commandIssue
  /\ outcome[c] = "none"
  /\ \/ /\ outcome' = [outcome EXCEPT ![c] = "read"]
        /\ commandIssue' = commandIssue \ {slot[c]}
        /\ Post({"D2H"})
        /\ UNCHANGED stopped
     \/ /\ outcome' = [outcome EXCEPT ![c] = "error"]
        /\ stopped' = TRUE
        /\ Post({"TFE"}) \/ Post({"TFE", "D2H"})
        /\ UNCHANGED commandIssue
  /\ UNCHANGED <<unsolicited, deviceVars, coroutineVars, schedulerVars>>

\* A device also sends a FIS when nobody asked for one: with its signature
\* when the port is started, and when its state changes.
SendUnsolicited ==
  /\ unsolicited < Unsolicited
  /\ UnsolicitedAtStart \/ state[First] \notin {"new", "hasSlot", "registered"}
  /\ unsolicited' = unsolicited + 1
  /\ Post({"D2H"})
  /\ UNCHANGED <<commandIssue, stopped, outcome, deviceVars, coroutineVars, schedulerVars>>

-----------------------------------------------------------------------------
(* msiHandler: the status is read, then acknowledged, then commandIssue is   *)
(* read.  The HBA goes on all the while.                                     *)

MsiReadsStatus ==
  /\ cpu = "main"
  /\ msiPending
  /\ cpu' = "msiHasRead"
  /\ status' = interruptStatus
  /\ msiPending' = FALSE
  /\ UNCHANGED <<commandIssue, interruptStatus, stopped, unsolicited, outcome, running,
                 commands, coroutineVars, eventQueue, dispatched>>

MsiAcknowledges ==
  /\ cpu = "msiHasRead"
  /\ cpu' = "msiHasAcknowledged"
  /\ interruptStatus' = interruptStatus \ status
  /\ UNCHANGED <<commandIssue, msiPending, stopped, unsolicited, outcome, deviceVars,
                 coroutineVars, eventQueue, dispatched>>

\* The loops of msiHandler go through the slots by ascending number.
Ascending(slots) ==
  CHOOSE order \in [1 .. Cardinality(slots) -> slots] :
    \A i, j \in DOMAIN order : i < j => order[i] < order[j]

\* What msiHandler does with these commands, value being their result.
Complete(completed, value) ==
  LET known == {s \in completed : commands[s] # None}
      coroutines == {commands[s] : s \in known}
      inOrder == Ascending(known)
  IN  /\ cpu = "msiHasAcknowledged"
      /\ cpu' = "main"
      /\ running' = running \ completed
      /\ commands' = [s \in Slots |-> IF s \in completed THEN None ELSE commands[s]]
      /\ result' = [c \in Coroutines |-> IF c \in coroutines THEN value ELSE result[c]]
      /\ failed' = IF \E c \in coroutines : result[c] # "none"
                   THEN "resultSetTwice"
                   ELSE failed
      /\ QueueEvents([i \in DOMAIN inOrder |-> commands[inOrder[i]]])
      /\ UNCHANGED <<commandIssue, interruptStatus, stopped, unsolicited, outcome, status,
                     state, slot, reads, dispatched>>

Value == IF "TFE" \in status THEN "false" ELSE "true"

\* Mutants: every running command is taken for completed; nothing is done
\* about a task file error; only the first completed command is looked at.
MsiCompletesAll ==
  Complete(IF status = {} THEN {} ELSE running, Value) /\ UNCHANGED msiPending

MsiCompletesD2HOnly ==
  /\ Complete(IF "TFE" \in status THEN {} ELSE running \ commandIssue, "true")
  /\ UNCHANGED msiPending

MsiCompletesFirst ==
  LET completed == running \ commandIssue
  IN  /\ Complete(IF status = {}
                  THEN {}
                  ELSE {s \in completed : \A t \in completed : s <= t}, Value)
      /\ UNCHANGED msiPending

\* The commands that have completed, by ascending slot.  At a task file error
\* all of them are told that they have failed, and after that there is nothing
\* left for D2H to do.  The one that did fail is not among them, as its bit is
\* set; where no other has completed the error is reported as unsolicited.
MsiCompletes ==
  /\ Complete(IF status = {} THEN {} ELSE running \ commandIssue, Value)
  /\ UNCHANGED msiPending

-----------------------------------------------------------------------------
(* Coroutines, resumed by timerLoop *)

\* await_resume, then the coroutine either goes on to its next command or is
\* finished: for lack of success, of a slot, or of anything more to read.
Resume(c) ==
  /\ Dispatched(c)
  /\ reads' = [reads EXCEPT ![c] = @ + 1]
  /\ failed' = IF result[c] = "none" THEN "noResult" ELSE failed
  /\ \/ /\ result[c] = "true" /\ FreeSlots # {} /\ reads[c] + 1 < ReadsEach
        /\ Issue(c, Min(FreeSlots))
        /\ UNCHANGED <<interruptStatus, msiPending, stopped, unsolicited, status>>
     \/ /\ result[c] # "true" \/ FreeSlots = {} \/ reads[c] + 1 = ReadsEach
        /\ state' = [state EXCEPT ![c] = "finished"]
        /\ UNCHANGED <<hbaVars, deviceVars, slot, result>>

\* A coroutine that timerLoop has resumed starts another one that reads.
Start(c) ==
  /\ cpu = "timer"
  /\ dispatched > 0
  /\ state[c] = "new"
  /\ FreeSlots # {}
  /\ Issue(c, Min(FreeSlots))
  /\ UNCHANGED <<interruptStatus, msiPending, stopped, unsolicited, status, reads, failed,
                 schedulerVars>>

-----------------------------------------------------------------------------
Init ==
  /\ commandIssue = {}
  /\ interruptStatus = {}
  /\ msiPending = FALSE
  /\ stopped = FALSE
  /\ unsolicited = 0
  /\ running = {}
  /\ commands = [s \in Slots |-> None]
  /\ status = {}
  /\ state = [c \in Coroutines |-> "new"]
  /\ slot = [c \in Coroutines |-> 0]
  /\ result = [c \in Coroutines |-> "none"]
  /\ reads = [c \in Coroutines |-> 0]
  /\ outcome = [c \in Coroutines |-> "none"]
  /\ failed = "no"
  /\ SchedulerInit

Timer ==
  /\ TimerInterrupt \/ TimerReturn
  /\ UNCHANGED <<hbaVars, deviceVars, coroutineVars>>

Main == MainFindsSlot \/ MainRegisters \/ MainIssues

Msi == MsiReadsStatus \/ MsiAcknowledges \/ MsiCompletes

Next ==
  /\ failed = "no"
  /\ \/ Main
     \/ Msi
     \/ Timer
     \/ SendUnsolicited
     \/ \E c \in Coroutines : Execute(c) \/ Resume(c) \/ Start(c)

\* The CPU goes on with whatever it is doing, a pending interrupt is taken
\* and the HBA executes what it was given, or fails and stops.  Nobody has to
\* start a coroutine and no FIS has to come.
Fairness ==
  /\ WF_vars(failed = "no" /\ Main)
  /\ WF_vars(failed = "no" /\ Msi)
  /\ WF_vars(failed = "no" /\ Timer)
  /\ \A c \in Coroutines :
       /\ WF_vars(failed = "no" /\ Execute(c))
       /\ WF_vars(failed = "no" /\ Resume(c))

Spec == Init /\ [][Next]_vars /\ Fairness

-----------------------------------------------------------------------------
TypeOK ==
  /\ SchedulerTypeOK
  /\ cpu \in {"main", "timer", "msiHasRead", "msiHasAcknowledged"}
  /\ commandIssue \subseteq Slots
  /\ interruptStatus \subseteq {"D2H", "TFE"} /\ status \subseteq {"D2H", "TFE"}
  /\ msiPending \in BOOLEAN /\ stopped \in BOOLEAN
  /\ unsolicited \in 0 .. Unsolicited
  /\ running \subseteq Slots
  /\ commands \in [Slots -> Coroutines \cup {None}]
  /\ state \in [Coroutines -> {"new", "hasSlot", "registered", "suspended", "finished"}]
  /\ slot \in [Coroutines -> Slots]
  /\ result \in [Coroutines -> {"none", "true", "false"}]
  /\ reads \in [Coroutines -> 0 .. ReadsEach]
  /\ outcome \in [Coroutines -> {"none", "read", "error"}]
  /\ failed \in {"no", "resultSetTwice", "noResult"}

Waiting == {c \in Coroutines : state[c] = "suspended" /\ result[c] = "none"}

\* Every coroutine whose command has no result yet is registered for its own
\* slot, so no command's table is overwritten while the HBA works on it and
\* its completion will find its coroutine.
WaitingIsRegistered ==
  \A c \in Waiting : slot[c] \in running /\ commands[slot[c]] = c

\* A command gets a result only after the HBA has read what it asks for, so
\* nobody looks at a buffer, or gives it away, that the HBA still writes to.
\* Nor is a command that has failed taken for one that was executed, whatever
\* completes or interrupts beside it.
ResultFollowsExecution ==
  \A c \in Coroutines : result[c] # "none" => outcome[c] = "read"

\* A coroutine is queued exactly when its command has a result, and once: it
\* is never resumed without one, or twice for the same one.
QueuedIffResult ==
  /\ failed = "no"
  /\ IsInjective(eventQueue)
  /\ ToSet(eventQueue) =
       {c \in Coroutines : state[c] = "suspended" /\ result[c] # "none"}

\* The status is acknowledged before commandIssue is read, and the HBA goes
\* on meanwhile.  Still no completed command is left behind without an
\* interrupt that is going to find it.
CompletionIsNoticed ==
  (\E c \in Waiting : slot[c] \notin commandIssue) =>
    msiPending \/ cpu \in {"msiHasRead", "msiHasAcknowledged"}

\* The HBA has stopped the port with c's command not executed.
IsStranded(c) == stopped /\ state[c] = "suspended" /\ slot[c] \in commandIssue

\* Every read comes to an end, and the coroutine that awaits it goes on, unless
\* the port has stopped at an error before the read was executed: nothing
\* restarts it, and a command has no timeout.  A read that was executed by then
\* ends, though its interrupt may be the one that reports the error.
EveryReadReturns ==
  \A c \in Coroutines : state[c] # "new" ~> state[c] = "finished" \/ IsStranded(c)

\* The device is a block device: a coroutine that has issued its command waits
\* until the HBA has executed it, which it may never do, is given exactly one
\* result after that, and takes it before it can issue another one.
Phase ==
  [c \in Coroutines |->
     IF state[c] # "suspended" THEN "idle"
     ELSE IF result[c] # "none" THEN "answered"
     ELSE IF outcome[c] = "read" THEN "executed" ELSE "waiting"]

Answer == [c \in Coroutines |-> IF state[c] = "suspended" THEN result[c] ELSE "none"]

Device == INSTANCE BlockDevice WITH Readers <- Coroutines, phase <- Phase, answer <- Answer

ImplementsBlockDevice == Device!Spec

\* msiHandler reports an interrupt for which no command has completed as
\* unsolicited, and takes commands whose bit in commandIssue is clear for
\* completed: await_resume then returns true only for what was read.
TrueMeansRead ==
  \A c \in Coroutines : result[c] = "true" => outcome[c] = "read"

=============================================================================

----------------------------- MODULE Scheduler -----------------------------
(***************************************************************************)
(* The event queue of src/src/boot/scheduler.cpp and the boot CPU that runs *)
(* it.  Coroutines that can go on are queued; the handler of the timer      *)
(* interrupt resumes them, at most DispatchLimit at a time.                 *)
(*                                                                          *)
(* The boot CPU runs the kernel's main flow with interrupts enabled and     *)
(* interrupt handlers with interrupts disabled, so a handler is only        *)
(* entered from the main flow and handlers do not nest.                     *)
(***************************************************************************)

EXTENDS Integers, Sequences

CONSTANTS
  Coroutines,   (* the coroutines that may be queued                        *)
  DispatchLimit (* SCHEDULER_EVENT_DISPATCH_LIMIT                           *)

ASSUME DispatchLimitAssumption == DispatchLimit \in Nat \ {0}

VARIABLES
  eventQueue, (* the coroutines to resume, oldest first                     *)
  dispatched, (* dispatchedEventsCount of the running timerLoop             *)
  cpu         (* where the boot CPU is: "main" or in a handler              *)

schedulerVars == <<eventQueue, dispatched, cpu>>

\* The timer fires again and again; when nothing is queued timerLoop does
\* nothing, which is left out.
TimerInterrupt ==
  /\ cpu = "main"
  /\ eventQueue # <<>>
  /\ cpu' = "timer"
  /\ dispatched' = 0
  /\ UNCHANGED eventQueue

\* Mutant: the handler goes on until the queue is empty.
MayDispatchAll == cpu = "timer" /\ eventQueue # <<>>

MayDispatch == cpu = "timer" /\ eventQueue # <<>> /\ dispatched < DispatchLimit

\* timerLoop resumes the oldest coroutine and pops it when resume returns.
Dispatched(c) ==
  /\ MayDispatch
  /\ c = Head(eventQueue)
  /\ eventQueue' = Tail(eventQueue)
  /\ dispatched' = dispatched + 1
  /\ UNCHANGED cpu

TimerReturn ==
  /\ cpu = "timer"
  /\ ~ MayDispatch
  /\ cpu' = "main"
  /\ UNCHANGED <<eventQueue, dispatched>>

\* Mutant: the newest coroutine is queued twice.
QueueEventsTwice(coroutines) == eventQueue' = eventQueue \o coroutines \o coroutines

\* queueEvent, called once for each of these coroutines.
QueueEvents(coroutines) == eventQueue' = eventQueue \o coroutines

SchedulerInit ==
  /\ eventQueue = <<>>
  /\ dispatched = 0
  /\ cpu = "main"

SchedulerTypeOK ==
  /\ eventQueue \in Seq(Coroutines)
  /\ dispatched \in 0 .. DispatchLimit

=============================================================================

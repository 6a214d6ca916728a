---------------------------- MODULE BlockDevice ----------------------------
(***************************************************************************)
(* What a block device promises to the coroutines that read from it:        *)
(* BlockDevice of src/src/include/kernel/drivers/storage/blockdevice.h.  A  *)
(* reader that has asked waits, the device executes what it was asked for   *)
(* and nothing else, and each reader takes exactly one answer to what it    *)
(* asked, after it was executed.  AhciDevice implements it; FileSystem      *)
(* reads from it.                                                           *)
(***************************************************************************)

CONSTANT Readers

VARIABLES
  phase, (* of each reader: "idle", "waiting", "executed" or "answered"     *)
  answer (* of each answered reader: "true" or "false"                      *)

deviceVars == <<phase, answer>>

Init ==
  /\ phase = [c \in Readers |-> "idle"]
  /\ answer = [c \in Readers |-> "none"]

Ask(c) ==
  /\ phase[c] = "idle"
  /\ phase' = [phase EXCEPT ![c] = "waiting"]
  /\ UNCHANGED answer

\* The device finishes with the command.  It need not: nothing is promised to
\* the readers of a device that has failed.
Execute(c) ==
  /\ phase[c] = "waiting"
  /\ phase' = [phase EXCEPT ![c] = "executed"]
  /\ UNCHANGED answer

\* Several commands may be answered at once, all of them with one value.
Answer(readers, value) ==
  /\ readers # {}
  /\ \A c \in readers : phase[c] = "executed"
  /\ phase' = [c \in Readers |-> IF c \in readers THEN "answered" ELSE phase[c]]
  /\ answer' = [c \in Readers |-> IF c \in readers THEN value ELSE answer[c]]

\* The reader goes on, and may ask for something else at once.
Take(c) ==
  /\ phase[c] = "answered"
  /\ phase' \in {[phase EXCEPT ![c] = next] : next \in {"idle", "waiting"}}
  /\ answer' = [answer EXCEPT ![c] = "none"]

Next ==
  \/ \E c \in Readers : Ask(c) \/ Execute(c) \/ Take(c)
  \/ \E readers \in SUBSET Readers, value \in {"true", "false"} : Answer(readers, value)

Spec == Init /\ [][Next]_deviceVars

=============================================================================

-------------------------- MODULE AhciDeviceProofs --------------------------
(***************************************************************************)
(* For any number of coroutines and command slots and whatever the HBA does *)
(* when, its stop at an error included, a command gets its one result after *)
(* it was executed or none, and the device is a block device: AhciDevice    *)
(* implements BlockDevice.                                                  *)
(*                                                                          *)
(* Assumed is that the device sends no FIS of its own before the first      *)
(* command is issued; AhciUnsolicited.cfg shows what happens if it does.    *)
(***************************************************************************)

EXTENDS AhciDevice, NaturalFacts, TLAPS

Early == {"new", "hasSlot", "registered"}

\* Until the main flow has issued the first command nothing else happens.
StartInv ==
  /\ ~UnsolicitedAtStart
  /\ \A c \in Coroutines :
       state[c] \in Early => result[c] = "none" /\ outcome[c] = "none"
  /\ \A c \in Coroutines \ {First} : state[c] \notin {"hasSlot", "registered"}
  /\ state[First] \in Early =>
       /\ cpu = "main" /\ eventQueue = <<>> /\ ~msiPending /\ commandIssue = {}
       /\ \A c \in Coroutines \ {First} : state[c] = "new"
  /\ state[First] \in {"new", "hasSlot"} => running = {}

\* What is registered is being waited for, in its own slot, and vice versa.
RegisteredInv ==
  /\ \A s \in Slots : s \in running <=> commands[s] # None
  /\ \A s \in running :
       slot[commands[s]] = s /\ (commands[s] \in Waiting \/ state[commands[s]] = "registered")
  /\ \A c \in Coroutines :
       c \in Waiting \/ state[c] = "registered" => slot[c] \in running /\ commands[slot[c]] = c

\* The HBA has what is waited for and not executed: a command that has failed
\* too.
IssuedInv ==
  /\ commandIssue \subseteq {slot[c] : c \in Waiting}
  /\ \A c \in Waiting : slot[c] \in commandIssue <=> outcome[c] # "read"

ReadsInv == \A c \in Coroutines : state[c] # "finished" => reads[c] < ReadsEach

\* An interrupt will find what has completed, and find a status when it does.
NoticeInv ==
  (\E c \in Waiting : slot[c] \notin commandIssue) =>
    \/ msiPending /\ interruptStatus # {}
    \/ cpu \in {"msiHasRead", "msiHasAcknowledged"} /\ status # {}

IInv ==
  /\ TypeOK
  /\ StartInv
  /\ RegisteredInv
  /\ IssuedInv
  /\ ResultFollowsExecution
  /\ ReadsInv
  /\ QueuedIffResult
  /\ NoticeInv

-----------------------------------------------------------------------------
\* Slots are numbers from 0 on.
LEMMA SlotNumbers ==
  /\ Slots \subseteq Nat /\ 0 \in Slots /\ Cardinality(Slots) \in Nat
  /\ \A S \in SUBSET Slots : \A s \in S : s \in Int
<1>1. Cardinality(Slots) \in Nat
  BY DeviceAssumption, FS_CardinalityType
<1> QED
  BY <1>1, DeviceAssumption

\* A nonempty set of slots has a greatest and a least one.
LEMMA GreatestSlot ==
  ASSUME NEW S \in SUBSET Slots, S # {}
  PROVE  \E m \in S : \A s \in S : s <= m
<1> DEFINE N == Cardinality(Slots) - 1
           T == {N - s : s \in S}
<1>1. N \in Int /\ \A s \in S : s \in Int /\ s <= N
  BY DeviceAssumption, FS_CardinalityType
<1>2. T \in SUBSET Nat /\ T # {}
  BY <1>1
<1> HIDE DEF T, N
<1>3. PICK t \in T : \A y \in T : t <= y
  BY <1>2, LeastNatural
<1>4. PICK m \in S : t = N - m
  BY DEF T
<1>5. \A s \in S : N - m <= N - s
  BY <1>3, <1>4 DEF T
<1> QED
  BY <1>1, <1>5

\* findFreeCommandSlot finds one of the free slots.
LEMMA LeastSlot ==
  ASSUME NEW S \in SUBSET Slots, S # {}
  PROVE  Min(S) \in S
<1>1. S \in SUBSET Nat
  BY SlotNumbers
<1>2. \E m \in S : \A s \in S : m <= s
  BY <1>1, LeastNatural
<1> QED
  BY <1>2, Zenon DEF Min

IsOrder(order, S) ==
  /\ order \in [1 .. Cardinality(S) -> S]
  /\ \A i, j \in DOMAIN order : i < j => order[i] < order[j]

\* The slots of any set can be gone through in ascending order: by the least
\* number of slots for which they could not.
LEMMA OrderExists ==
  ASSUME NEW S \in SUBSET Slots
  PROVE  \E order : IsOrder(order, S)
<1> DEFINE Bad == {n \in Nat : \E T \in SUBSET Slots :
                     Cardinality(T) = n /\ ~ \E order : IsOrder(order, T)}
<1>1. \A T \in SUBSET Slots : IsFiniteSet(T) /\ Cardinality(T) \in Nat
  BY DeviceAssumption, FS_Subset, FS_CardinalityType
<1>2. ASSUME Bad # {} PROVE FALSE
  <2>1. PICK n \in Bad : \A k \in Bad : n <= k
    <3>1. Bad \in SUBSET Nat
      OBVIOUS
    <3> HIDE DEF Bad
    <3> QED
      BY <1>2, <3>1, LeastNatural
  <2>2. PICK T \in SUBSET Slots : Cardinality(T) = n /\ ~ \E order : IsOrder(order, T)
    OBVIOUS
  <2>3. CASE T = {}
    <3>1. n = 0
      BY <2>2, <2>3, FS_EmptySet
    <3>2. IsOrder([i \in 1 .. 0 |-> 0], T)
      BY <2>2, <2>3, <3>1 DEF IsOrder
    <3> QED
      BY <2>2, <3>2
  <2>4. CASE T # {}
    <3>1. PICK m \in T : \A s \in T : s <= m
      BY <2>4, GreatestSlot
    <3> DEFINE U == T \ {m}
    <3>2. U \in SUBSET Slots /\ Cardinality(U) = n - 1
      BY <1>1, <2>2, FS_RemoveElement
    <3>3. n \in Nat /\ n - 1 \in Nat
      BY <1>1, <3>2
    <3>4. PICK o : IsOrder(o, U)
      <4>1. n - 1 \notin Bad
        BY <2>1, <3>3
      <4> QED
        BY <3>2, <3>3, <4>1
    <3> DEFINE order == [i \in 1 .. n |-> IF i = n THEN m ELSE o[i]]
    <3>5. \A i \in 1 .. n - 1 : o[i] \in U
      BY <3>2, <3>4 DEF IsOrder
    <3>6. order \in [1 .. n -> T]
      BY <3>3, <3>5
    <3>7. ASSUME NEW i \in 1 .. n, NEW j \in 1 .. n, i < j
          PROVE  order[i] < order[j]
      <4>1. i \in 1 .. n - 1 /\ i # n
        BY <3>3, <3>7
      <4>2. CASE j = n
        <5>1. o[i] \in U /\ o[i] <= m /\ o[i] # m
          BY <3>1, <3>5, <4>1
        <5>2. o[i] \in Int /\ m \in Int
          <6>1. \A s \in T : s \in Int
            BY SlotNumbers
          <6> QED
            BY <5>1, <6>1
        <5> QED
          BY <4>1, <4>2, <5>1, <5>2
      <4>3. CASE j # n
        <5>1. j \in 1 .. n - 1
          BY <3>3, <4>3
        <5>2. DOMAIN o = 1 .. n - 1
          BY <3>2, <3>4 DEF IsOrder
        <5>3. o[i] < o[j]
          BY <3>4, <3>7, <4>1, <5>1, <5>2 DEF IsOrder
        <5> QED
          BY <4>1, <4>3, <5>3
      <4> QED
        BY <4>2, <4>3
    <3>8. IsOrder(order, T)
      BY <2>2, <3>6, <3>7 DEF IsOrder
    <3> QED
      BY <2>2, <3>8
  <2> QED
    BY <2>3, <2>4
<1>3. Cardinality(S) \notin Bad
  BY <1>2
<1> QED
  BY <1>1, <1>3

\* msiHandler's loops come to each slot once.
LEMMA AscendingOrder ==
  ASSUME NEW S \in SUBSET Slots
  PROVE  /\ Cardinality(S) \in Nat
         /\ Ascending(S) \in [1 .. Cardinality(S) -> S]
         /\ IsInjective(Ascending(S))
         /\ ToSet(Ascending(S)) = S
<1> DEFINE order == Ascending(S)
<1>1. IsFiniteSet(S) /\ Cardinality(S) \in Nat
  BY DeviceAssumption, FS_Subset, FS_CardinalityType
<1>2. IsOrder(order, S)
  <2>1. \E o \in [1 .. Cardinality(S) -> S] : \A i, j \in DOMAIN o : i < j => o[i] < o[j]
    BY OrderExists DEF IsOrder
  <2> QED
    BY <2>1, Zenon DEF Ascending, IsOrder
<1> HIDE DEF order
<1>3. \A i \in 1 .. Cardinality(S) : order[i] \in Int
  <2>1. \A s \in S : s \in Int
    BY SlotNumbers
  <2> QED
    BY <1>2, <2>1 DEF IsOrder
<1>4. \A i, j \in 1 .. Cardinality(S) : order[i] = order[j] => i = j
  BY <1>1, <1>2, <1>3 DEF IsOrder
<1>5. order \in Injection(1 .. Cardinality(S), S)
  BY <1>2, <1>4 DEF Injection, IsInjective, IsOrder
<1>6. Cardinality(1 .. Cardinality(S)) = Cardinality(S)
  BY <1>1, FS_Interval
<1>7. order \in Surjection(1 .. Cardinality(S), S)
  BY <1>1, <1>5, <1>6, FS_Injection
<1>8. ToSet(order) = S
  BY <1>2, <1>7 DEF Surjection, ToSet, IsOrder
<1> QED
  BY <1>1, <1>2, <1>4, <1>8 DEF IsOrder, IsInjective, order

-----------------------------------------------------------------------------
(* The event queue *)

\* Queueing coroutines that are not queued, each once, leaves each queued once.
LEMMA QueueMore ==
  ASSUME NEW q \in Seq(Coroutines), IsInjective(q),
         NEW n \in Nat, NEW r \in [1 .. n -> Coroutines], IsInjective(r),
         ToSet(q) \cap ToSet(r) = {}
  PROVE  /\ q \o r \in Seq(Coroutines)
         /\ IsInjective(q \o r)
         /\ ToSet(q \o r) = ToSet(q) \cup ToSet(r)
<1>1. r \in Seq(Coroutines) /\ Len(r) = n /\ Len(q) \in Nat
  OBVIOUS
<1>2. q \o r \in Seq(Coroutines) /\ Len(q \o r) = Len(q) + n
  BY <1>1
<1>3. \A i \in 1 .. Len(q) + n :
        (q \o r)[i] = IF i <= Len(q) THEN q[i] ELSE r[i - Len(q)]
  BY <1>1
<1>4. DOMAIN (q \o r) = 1 .. Len(q) + n /\ DOMAIN q = 1 .. Len(q) /\ DOMAIN r = 1 .. n
  BY <1>1, <1>2
<1>5. IsInjective(q \o r)
  <2> SUFFICES ASSUME NEW i \in 1 .. Len(q) + n, NEW j \in 1 .. Len(q) + n,
                      (q \o r)[i] = (q \o r)[j]
               PROVE  i = j
    BY <1>4 DEF IsInjective
  <2>1. CASE i <= Len(q) /\ j <= Len(q)
    BY <1>1, <1>3, <1>4, <2>1 DEF IsInjective
  <2>2. CASE i > Len(q) /\ j > Len(q)
    <3>1. i - Len(q) \in 1 .. n /\ j - Len(q) \in 1 .. n
      BY <1>1, <2>2
    <3>2. r[i - Len(q)] = r[j - Len(q)]
      BY <1>1, <1>3, <2>2
    <3>3. i - Len(q) = j - Len(q)
      BY <1>4, <3>1, <3>2 DEF IsInjective
    <3> QED
      BY <1>1, <3>3
  <2>3. CASE i <= Len(q) /\ j > Len(q)
    <3>1. i \in 1 .. Len(q) /\ j - Len(q) \in 1 .. n
      BY <1>1, <2>3
    <3>2. q[i] = r[j - Len(q)]
      BY <1>1, <1>3, <2>3
    <3> QED
      BY <1>4, <3>1, <3>2 DEF ToSet
  <2>4. CASE i > Len(q) /\ j <= Len(q)
    <3>1. j \in 1 .. Len(q) /\ i - Len(q) \in 1 .. n
      BY <1>1, <2>4
    <3>2. q[j] = r[i - Len(q)]
      BY <1>1, <1>3, <2>4
    <3> QED
      BY <1>4, <3>1, <3>2 DEF ToSet
  <2> QED
    BY <1>1, <2>1, <2>2, <2>3, <2>4
<1>6. ToSet(q \o r) = ToSet(q) \cup ToSet(r)
  <2>1. ASSUME NEW i \in 1 .. Len(q) + n
        PROVE  (q \o r)[i] \in ToSet(q) \cup ToSet(r)
    <3>1. CASE i <= Len(q)
      BY <1>1, <1>3, <1>4, <3>1 DEF ToSet
    <3>2. CASE i > Len(q)
      <4>1. i - Len(q) \in 1 .. n /\ (q \o r)[i] = r[i - Len(q)]
        BY <1>1, <1>3, <3>2
      <4> QED
        BY <1>4, <4>1 DEF ToSet
    <3> QED
      BY <1>1, <3>1, <3>2
  <2>2. ASSUME NEW i \in 1 .. Len(q)
        PROVE  q[i] \in ToSet(q \o r)
    <3>1. i \in 1 .. Len(q) + n /\ (q \o r)[i] = q[i]
      BY <1>1, <1>3
    <3> QED
      BY <1>4, <3>1 DEF ToSet
  <2>3. ASSUME NEW i \in 1 .. n
        PROVE  r[i] \in ToSet(q \o r)
    <3>1. i + Len(q) \in 1 .. Len(q) + n /\ (q \o r)[i + Len(q)] = r[i]
      BY <1>1, <1>3
    <3> QED
      BY <1>4, <3>1 DEF ToSet
  <2> QED
    BY <1>4, <2>1, <2>2, <2>3 DEF ToSet
<1> QED
  BY <1>2, <1>5, <1>6

\* timerLoop takes the oldest coroutine out, and it is not queued again.
LEMMA QueueLess ==
  ASSUME NEW q \in Seq(Coroutines), IsInjective(q), q # <<>>
  PROVE  /\ Head(q) \in ToSet(q)
         /\ Tail(q) \in Seq(Coroutines)
         /\ IsInjective(Tail(q))
         /\ ToSet(Tail(q)) = ToSet(q) \ {Head(q)}
<1>1. Len(q) \in Nat /\ Len(q) >= 1 /\ DOMAIN q = 1 .. Len(q) /\ Head(q) = q[1]
  OBVIOUS
<1>2. /\ Tail(q) \in Seq(Coroutines) /\ Len(Tail(q)) = Len(q) - 1
      /\ DOMAIN Tail(q) = 1 .. Len(q) - 1
      /\ \A i \in 1 .. Len(q) - 1 : Tail(q)[i] = q[i + 1]
  BY <1>1
<1>3. \A i, j \in 1 .. Len(q) : q[i] = q[j] => i = j
  BY <1>1 DEF IsInjective
<1>4. IsInjective(Tail(q))
  <2> SUFFICES ASSUME NEW i \in 1 .. Len(q) - 1, NEW j \in 1 .. Len(q) - 1,
                      Tail(q)[i] = Tail(q)[j]
               PROVE  i = j
    BY <1>2 DEF IsInjective
  <2>1. i + 1 \in 1 .. Len(q) /\ j + 1 \in 1 .. Len(q) /\ q[i + 1] = q[j + 1]
    BY <1>1, <1>2
  <2>2. i + 1 = j + 1
    BY <1>3, <2>1
  <2> QED
    BY <1>1, <2>2
<1>5. ToSet(Tail(q)) = ToSet(q) \ {Head(q)}
  <2>1. ASSUME NEW i \in 1 .. Len(q) - 1
        PROVE  Tail(q)[i] \in ToSet(q) \ {Head(q)}
    <3>1. i + 1 \in 1 .. Len(q) /\ 1 \in 1 .. Len(q) /\ i + 1 # 1
      BY <1>1
    <3>2. q[i + 1] # q[1]
      BY <1>3, <3>1
    <3> QED
      BY <1>1, <1>2, <3>1, <3>2 DEF ToSet
  <2>2. ASSUME NEW i \in 1 .. Len(q), q[i] # Head(q)
        PROVE  q[i] \in ToSet(Tail(q))
    <3>1. i - 1 \in 1 .. Len(q) - 1 /\ (i - 1) + 1 = i
      BY <1>1, <2>2
    <3>2. Tail(q)[i - 1] = q[i]
      BY <1>2, <3>1
    <3> QED
      BY <1>2, <3>1, <3>2 DEF ToSet
  <2> QED
    BY <1>1, <1>2, <2>1, <2>2 DEF ToSet
<1> QED
  <2>1. Head(q) \in ToSet(q)
    BY <1>1 DEF ToSet
  <2> QED
    BY <1>2, <1>4, <1>5, <2>1

-----------------------------------------------------------------------------
(* Every step keeps the invariant *)

\* The device starts with nothing registered, issued or queued.
LEMMA InitInv == Init /\ ~UnsolicitedAtStart => IInv
<1> SUFFICES ASSUME Init, ~UnsolicitedAtStart PROVE IInv
  OBVIOUS
<1>1. Waiting = {}
  BY DEF Init, Waiting
<1>2. TypeOK
  <2>1. SchedulerTypeOK
    BY DispatchLimitAssumption DEF SchedulerTypeOK, Init, SchedulerInit
  <2>2. unsolicited \in 0 .. Unsolicited /\ reads \in [Coroutines -> 0 .. ReadsEach]
    BY DeviceAssumption DEF Init
  <2>3. slot \in [Coroutines -> Slots]
    BY SlotNumbers DEF Init
  <2> QED
    BY <2>1, <2>2, <2>3 DEF TypeOK, Init, SchedulerInit
<1>3. StartInv
  BY DeviceAssumption DEF StartInv, Init, SchedulerInit
<1>4. RegisteredInv
  BY <1>1 DEF RegisteredInv, Init
<1>5. IssuedInv /\ NoticeInv
  BY <1>1 DEF IssuedInv, NoticeInv, Init
<1>6. ResultFollowsExecution /\ ReadsInv
  BY DeviceAssumption DEF ResultFollowsExecution, ReadsInv, Init
<1>7. QueuedIffResult
  BY DEF QueuedIffResult, Init, SchedulerInit, IsInjective, ToSet
<1> QED
  BY <1>2, <1>3, <1>4, <1>5, <1>6, <1>7 DEF IInv

\* Steps that leave commands, coroutines and the queue as they are.
LEMMA Bookkeeping ==
  ASSUME IInv,
         UNCHANGED <<commandIssue, outcome, running, commands, coroutineVars, eventQueue>>
  PROVE  /\ RegisteredInv' /\ IssuedInv' /\ ResultFollowsExecution' /\ ReadsInv'
         /\ QueuedIffResult' /\ Waiting' = Waiting
<1> USE DEF coroutineVars
<1>1. Waiting' = Waiting
  BY DEF Waiting
<1>2. RegisteredInv' /\ IssuedInv'
  BY <1>1 DEF IInv, RegisteredInv, IssuedInv
<1>3. ResultFollowsExecution' /\ ReadsInv' /\ QueuedIffResult'
  BY DEF IInv, ResultFollowsExecution, ReadsInv, QueuedIffResult
<1> QED
  BY <1>1, <1>2, <1>3

\* Before the first command is issued there is nothing for a handler to do.
LEMMA NotEarly ==
  ASSUME IInv, cpu # "main" \/ msiPending \/ commandIssue # {} \/ eventQueue # <<>>
  PROVE  /\ state[First] \notin Early
         /\ \A c \in Coroutines : state[c] \notin {"hasSlot", "registered"}
  BY DeviceAssumption DEF IInv, StartInv, Early

\* The scheduler's own steps.
LEMMA TimerKeeps == IInv /\ Timer => IInv'
<1> SUFFICES ASSUME IInv, Timer PROVE IInv'
  OBVIOUS
<1> USE DEF Timer, TimerInterrupt, TimerReturn, hbaVars, deviceVars, coroutineVars
<1>1. RegisteredInv' /\ IssuedInv' /\ ResultFollowsExecution' /\ ReadsInv'
      /\ QueuedIffResult' /\ Waiting' = Waiting
  <2>1. UNCHANGED <<commandIssue, outcome, running, commands, coroutineVars, eventQueue>>
    OBVIOUS
  <2> QED
    BY <2>1, Bookkeeping
<1>2. TypeOK'
  BY DispatchLimitAssumption DEF IInv, TypeOK, SchedulerTypeOK
<1>3. StartInv'
  <2>1. cpu # "main" \/ eventQueue # <<>>
    OBVIOUS
  <2>2. state[First] \notin Early
    BY <2>1, NotEarly
  <2> QED
    BY <2>2 DEF IInv, StartInv, Early
<1>4. NoticeInv'
  BY <1>1 DEF IInv, NoticeInv
<1> QED
  BY <1>1, <1>2, <1>3, <1>4 DEF IInv

\* msiHandler reads the status, of which there is one if a command completed.
LEMMA ReadStatusKeeps == IInv /\ MsiReadsStatus => IInv'
<1> SUFFICES ASSUME IInv, MsiReadsStatus PROVE IInv'
  OBVIOUS
<1> USE DEF MsiReadsStatus, coroutineVars
<1>1. RegisteredInv' /\ IssuedInv' /\ ResultFollowsExecution' /\ ReadsInv'
      /\ QueuedIffResult' /\ Waiting' = Waiting
  <2>1. UNCHANGED <<commandIssue, outcome, running, commands, coroutineVars, eventQueue>>
    OBVIOUS
  <2> QED
    BY <2>1, Bookkeeping
<1>2. TypeOK'
  BY DEF IInv, TypeOK, SchedulerTypeOK
<1>3. StartInv'
  <2>1. state[First] \notin Early
    BY NotEarly
  <2> QED
    BY <2>1 DEF IInv, StartInv, Early
<1>4. NoticeInv'
  BY <1>1 DEF IInv, NoticeInv
<1> QED
  BY <1>1, <1>2, <1>3, <1>4 DEF IInv

\* It acknowledges what it has read and nothing that came since.
LEMMA AcknowledgeKeeps == IInv /\ MsiAcknowledges => IInv'
<1> SUFFICES ASSUME IInv, MsiAcknowledges PROVE IInv'
  OBVIOUS
<1> USE DEF MsiAcknowledges, coroutineVars, deviceVars
<1>1. RegisteredInv' /\ IssuedInv' /\ ResultFollowsExecution' /\ ReadsInv'
      /\ QueuedIffResult' /\ Waiting' = Waiting
  <2>1. UNCHANGED <<commandIssue, outcome, running, commands, coroutineVars, eventQueue>>
    OBVIOUS
  <2> QED
    BY <2>1, Bookkeeping
<1>2. TypeOK'
  BY DEF IInv, TypeOK, SchedulerTypeOK
<1>3. StartInv'
  <2>1. state[First] \notin Early
    BY NotEarly
  <2> QED
    BY <2>1 DEF IInv, StartInv, Early
<1>4. NoticeInv'
  <2>1. status = {} => interruptStatus' = interruptStatus
    OBVIOUS
  <2> QED
    BY <1>1, <2>1 DEF IInv, NoticeInv
<1> QED
  BY <1>1, <1>2, <1>3, <1>4 DEF IInv

\* A FIS that nobody asked for brings an interrupt and nothing else.
LEMMA UnsolicitedKeeps == IInv /\ SendUnsolicited => IInv'
<1> SUFFICES ASSUME IInv, SendUnsolicited PROVE IInv'
  OBVIOUS
<1> USE DEF SendUnsolicited, Post, coroutineVars, deviceVars, schedulerVars
<1>1. RegisteredInv' /\ IssuedInv' /\ ResultFollowsExecution' /\ ReadsInv'
      /\ QueuedIffResult' /\ Waiting' = Waiting
  <2>1. UNCHANGED <<commandIssue, outcome, running, commands, coroutineVars, eventQueue>>
    OBVIOUS
  <2> QED
    BY <2>1, Bookkeeping
<1>2. TypeOK'
  BY DeviceAssumption DEF IInv, TypeOK, SchedulerTypeOK
<1>3. StartInv'
  BY DEF IInv, StartInv, Early
<1>4. NoticeInv'
  BY <1>1 DEF IInv, NoticeInv
<1> QED
  BY <1>1, <1>2, <1>3, <1>4 DEF IInv

\* The main flow finds a slot for the first command: all of them are free.
LEMMA FindKeeps == IInv /\ MainFindsSlot => IInv'
<1> SUFFICES ASSUME IInv, MainFindsSlot PROVE IInv'
  OBVIOUS
<1> USE DEF MainFindsSlot, hbaVars, deviceVars, schedulerVars
<1>0. First \in Coroutines /\ state \in [Coroutines -> {"new", "hasSlot", "registered", "suspended", "finished"}]
      /\ slot \in [Coroutines -> Slots]
  BY DeviceAssumption DEF IInv, TypeOK
<1>1. /\ running = {} /\ commandIssue = {} /\ eventQueue = <<>> /\ ~msiPending
      /\ \A c \in Coroutines : state[c] = "new" /\ result[c] = "none" /\ outcome[c] = "none"
  BY DEF IInv, StartInv, Early
<1>2. Waiting = {} /\ Waiting' = {}
  BY <1>0, <1>1 DEF Waiting
<1>3. slot' \in [Coroutines -> Slots]
  <2>1. FreeSlots = Slots
    BY <1>1 DEF FreeSlots
  <2>2. Min(FreeSlots) \in Slots
    BY <2>1, SlotNumbers, LeastSlot
  <2> QED
    BY <1>0, <2>2
<1>4. \A c \in Coroutines : state'[c] = IF c = First THEN "hasSlot" ELSE "new"
  BY <1>0, <1>1
<1>5. TypeOK'
  BY <1>0, <1>3 DEF IInv, TypeOK, SchedulerTypeOK
<1>6. StartInv'
  BY <1>0, <1>1, <1>4 DEF IInv, StartInv, Early
<1>7. RegisteredInv' /\ IssuedInv' /\ NoticeInv'
  BY <1>1, <1>2, <1>4 DEF IInv, RegisteredInv, IssuedInv, NoticeInv
<1>8. ResultFollowsExecution' /\ ReadsInv'
  BY <1>1, <1>4 DEF IInv, ResultFollowsExecution, ReadsInv
<1>9. QueuedIffResult'
  BY <1>1, <1>4 DEF IInv, QueuedIffResult
<1> QED
  BY <1>5, <1>6, <1>7, <1>8, <1>9 DEF IInv

\* The first command is registered.
LEMMA RegisterKeeps == IInv /\ MainRegisters => IInv'
<1> SUFFICES ASSUME IInv, MainRegisters PROVE IInv'
  OBVIOUS
<1> USE DEF MainRegisters, hbaVars, schedulerVars
<1>0. First \in Coroutines /\ state \in [Coroutines -> {"new", "hasSlot", "registered", "suspended", "finished"}]
      /\ slot \in [Coroutines -> Slots] /\ commands \in [Slots -> Coroutines \cup {None}] /\ None # First
  BY DeviceAssumption DEF IInv, TypeOK
<1>1. /\ running = {} /\ commandIssue = {} /\ eventQueue = <<>> /\ ~msiPending
      /\ \A c \in Coroutines \ {First} : state[c] = "new"
      /\ \A c \in Coroutines : result[c] = "none" /\ outcome[c] = "none"
  BY DEF IInv, StartInv, Early
<1>2. Waiting = {} /\ Waiting' = {}
  BY <1>0, <1>1 DEF Waiting
<1>3. \A c \in Coroutines : state'[c] = IF c = First THEN "registered" ELSE "new"
  BY <1>0, <1>1
<1>4. \A s \in Slots : commands[s] = None
  BY <1>1 DEF IInv, RegisteredInv
<1>5. TypeOK'
  BY <1>0 DEF IInv, TypeOK, SchedulerTypeOK
<1>6. StartInv'
  BY <1>0, <1>1, <1>3 DEF IInv, StartInv, Early
<1>7. RegisteredInv'
  <2>1. running' = {slot[First]} /\ commands'[slot[First]] = First
    BY <1>0, <1>1
  <2>2. \A s \in Slots \ {slot[First]} : commands'[s] = None
    BY <1>0, <1>4
  <2> QED
    BY <1>0, <1>2, <1>3, <2>1, <2>2 DEF RegisteredInv
<1>8. IssuedInv' /\ NoticeInv'
  BY <1>1, <1>2 DEF IssuedInv, NoticeInv
<1>9. ResultFollowsExecution' /\ ReadsInv'
  BY <1>0, <1>1, <1>3 DEF IInv, ResultFollowsExecution, ReadsInv
<1>10. QueuedIffResult'
  BY <1>1, <1>3 DEF IInv, QueuedIffResult
<1> QED
  BY <1>5, <1>6, <1>7, <1>8, <1>9, <1>10 DEF IInv

\* The first command is issued: from now on it is waited for.
LEMMA IssueKeeps == IInv /\ MainIssues => IInv'
<1> SUFFICES ASSUME IInv, MainIssues PROVE IInv'
  OBVIOUS
<1> USE DEF MainIssues, deviceVars, schedulerVars
<1>0. First \in Coroutines /\ state \in [Coroutines -> {"new", "hasSlot", "registered", "suspended", "finished"}]
      /\ slot \in [Coroutines -> Slots]
  BY DeviceAssumption DEF IInv, TypeOK
<1>1. /\ commandIssue = {} /\ eventQueue = <<>> /\ ~msiPending
      /\ \A c \in Coroutines \ {First} : state[c] = "new"
      /\ \A c \in Coroutines : result[c] = "none" /\ outcome[c] = "none"
  BY DEF IInv, StartInv, Early
<1>2. Waiting = {} /\ Waiting' = {First}
  BY <1>0, <1>1 DEF Waiting
<1>3. \A c \in Coroutines : state'[c] = IF c = First THEN "suspended" ELSE "new"
  BY <1>0, <1>1
<1>4. slot[First] \in running /\ commands[slot[First]] = First
  BY <1>0 DEF IInv, RegisteredInv
<1>5. TypeOK'
  BY <1>0 DEF IInv, TypeOK, SchedulerTypeOK
<1>6. StartInv'
  BY <1>0, <1>1, <1>3 DEF IInv, StartInv, Early
<1>7. RegisteredInv'
  <2>1. \A s \in running : commands[s] = First /\ slot[First] = s
    <3> TAKE s \in running
    <3>1. s \in Slots /\ commands[s] # None
      BY DEF IInv, TypeOK, RegisteredInv
    <3>2. slot[commands[s]] = s /\ commands[s] \in Coroutines /\ state[commands[s]] = "registered"
      BY <1>2, <3>1 DEF IInv, TypeOK, RegisteredInv
    <3> QED
      BY <1>1, <3>2
  <2>2. \A s \in Slots : s \in running <=> commands[s] # None
    BY DEF IInv, RegisteredInv
  <2> QED
    BY <1>0, <1>2, <1>3, <1>4, <2>1, <2>2 DEF RegisteredInv
<1>8. IssuedInv' /\ NoticeInv'
  <2>1. commandIssue' = {slot[First]} /\ slot' = slot /\ outcome' = outcome
    BY <1>1
  <2> QED
    BY <1>0, <1>1, <1>2, <2>1 DEF IssuedInv, NoticeInv
<1>9. ResultFollowsExecution' /\ ReadsInv'
  BY <1>0, <1>1, <1>3 DEF IInv, ResultFollowsExecution, ReadsInv
<1>10. QueuedIffResult'
  BY <1>0, <1>1, <1>3 DEF IInv, QueuedIffResult
<1> QED
  BY <1>5, <1>6, <1>7, <1>8, <1>9, <1>10 DEF IInv

\* The HBA executes a command, and its interrupt will have a status.
LEMMA ExecuteKeeps ==
  ASSUME IInv, NEW c \in Coroutines, Execute(c)
  PROVE  IInv' /\ c \in Waiting
<1> USE DEF Execute, deviceVars, coroutineVars, schedulerVars
<1>0. outcome \in [Coroutines -> {"none", "read", "error"}] /\ slot \in [Coroutines -> Slots]
  BY DEF IInv, TypeOK
<1>1. /\ msiPending' = TRUE /\ interruptStatus' # {} /\ interruptStatus' \subseteq {"D2H", "TFE"}
      /\ outcome' \in [Coroutines -> {"none", "read", "error"}]
      /\ commandIssue' \subseteq commandIssue /\ stopped' \in BOOLEAN
      /\ \A d \in Coroutines \ {c} : outcome'[d] = outcome[d]
  BY <1>0 DEF Post, IInv, TypeOK
<1>2. Waiting' = Waiting
  BY DEF Waiting
<1>3. c \in Waiting
  BY DEF IInv, ResultFollowsExecution, Waiting
<1>4. \A d \in Waiting : slot[d] = slot[c] => d = c
  BY <1>3 DEF IInv, RegisteredInv, Waiting
<1>5. TypeOK'
  BY <1>1 DEF IInv, TypeOK, SchedulerTypeOK
<1>6. StartInv'
  <2>1. \A d \in Coroutines : state[d] \notin {"hasSlot", "registered"}
    BY NotEarly
  <2>2. state[First] \notin Early /\ state[c] = "suspended"
    BY NotEarly
  <2> QED
    BY <1>1, <2>1, <2>2 DEF IInv, StartInv, Early
<1>7. RegisteredInv'
  BY <1>2 DEF IInv, RegisteredInv
<1>8. IssuedInv'
  <2>1. \A d \in Waiting : d \in Coroutines
    BY DEF Waiting
  <2>2. CASE outcome' = [outcome EXCEPT ![c] = "read"] /\ commandIssue' = commandIssue \ {slot[c]}
    <3>1. outcome'[c] = "read"
      BY <1>0, <2>2
    <3> QED
      BY <1>1, <1>2, <1>3, <1>4, <2>1, <2>2, <3>1 DEF IInv, IssuedInv
  <2>3. CASE outcome' = [outcome EXCEPT ![c] = "error"] /\ commandIssue' = commandIssue
    <3>1. outcome'[c] = "error"
      BY <1>0, <2>3
    <3> QED
      BY <1>1, <1>2, <1>3, <2>1, <2>3, <3>1 DEF IInv, IssuedInv
  <2> QED
    BY <2>2, <2>3
<1>9. NoticeInv'
  BY <1>1 DEF NoticeInv
<1>10. ResultFollowsExecution' /\ ReadsInv'
  BY <1>1 DEF IInv, ResultFollowsExecution, ReadsInv
<1>11. QueuedIffResult'
  BY DEF IInv, QueuedIffResult
<1> QED
  BY <1>3, <1>5, <1>6, <1>7, <1>8, <1>9, <1>10, <1>11 DEF IInv

\* A coroutine that issues a command in a free slot waits in that slot, and
\* takes no other coroutine's.
LEMMA Issuing ==
  ASSUME IInv, NEW c \in Coroutines, c \notin Waiting, state[First] \notin Early,
         NEW s \in FreeSlots, Issue(c, s),
         UNCHANGED <<interruptStatus, msiPending, status, cpu>>
  PROVE  /\ commandIssue' \subseteq Slots /\ running' \subseteq Slots
         /\ commands' \in [Slots -> Coroutines \cup {None}]
         /\ state' \in [Coroutines -> {"new", "hasSlot", "registered", "suspended", "finished"}]
         /\ slot' \in [Coroutines -> Slots]
         /\ result' \in [Coroutines -> {"none", "true", "false"}]
         /\ outcome' \in [Coroutines -> {"none", "read", "error"}]
         /\ StartInv' /\ RegisteredInv' /\ IssuedInv' /\ NoticeInv'
         /\ ResultFollowsExecution'
<1>0. /\ commandIssue \subseteq Slots /\ running \subseteq Slots
      /\ commands \in [Slots -> Coroutines \cup {None}]
      /\ state \in [Coroutines -> {"new", "hasSlot", "registered", "suspended", "finished"}]
      /\ slot \in [Coroutines -> Slots]
      /\ result \in [Coroutines -> {"none", "true", "false"}]
      /\ outcome \in [Coroutines -> {"none", "read", "error"}]
      /\ c # None
  BY DeviceAssumption DEF IInv, TypeOK
<1>1. s \in Slots /\ s \notin running /\ s \notin commandIssue
  BY DEF FreeSlots
<1>2. /\ commands' = [commands EXCEPT ![s] = c] /\ running' = running \cup {s}
      /\ commandIssue' = commandIssue \cup {s}
      /\ state' = [state EXCEPT ![c] = "suspended"] /\ slot' = [slot EXCEPT ![c] = s]
      /\ result' = [result EXCEPT ![c] = "none"] /\ outcome' = [outcome EXCEPT ![c] = "none"]
  BY DEF Issue
<1>3. /\ commandIssue' \subseteq Slots /\ running' \subseteq Slots
      /\ commands' \in [Slots -> Coroutines \cup {None}]
      /\ state' \in [Coroutines -> {"new", "hasSlot", "registered", "suspended", "finished"}]
      /\ slot' \in [Coroutines -> Slots]
      /\ result' \in [Coroutines -> {"none", "true", "false"}]
      /\ outcome' \in [Coroutines -> {"none", "read", "error"}]
  BY <1>0, <1>1, <1>2
<1>4. \A d \in Coroutines \ {c} : /\ state'[d] = state[d] /\ slot'[d] = slot[d]
                                  /\ result'[d] = result[d] /\ outcome'[d] = outcome[d]
  BY <1>0, <1>2
<1>5. state'[c] = "suspended" /\ slot'[c] = s /\ result'[c] = "none" /\ outcome'[c] = "none"
  BY <1>0, <1>2
<1>6. Waiting' = Waiting \cup {c} /\ \A d \in Waiting : d \in Coroutines \ {c}
  BY <1>4, <1>5 DEF Waiting
<1>7. \A d \in Coroutines : state[d] \notin {"hasSlot", "registered"}
  BY DeviceAssumption DEF IInv, StartInv, Early
<1>8. StartInv'
  <2>1. state'[First] \notin Early
    BY <1>4, <1>5, DeviceAssumption DEF Early
  <2>2. \A d \in Coroutines : state'[d] \in Early => result'[d] = "none" /\ outcome'[d] = "none"
    BY <1>4, <1>5 DEF IInv, StartInv
  <2>3. \A d \in Coroutines : state'[d] \notin {"hasSlot", "registered"}
    BY <1>4, <1>5, <1>7
  <2> QED
    BY <2>1, <2>2, <2>3 DEF IInv, StartInv, Early
<1>9. \A d \in Waiting : slot[d] \in running /\ commands[slot[d]] = d /\ slot[d] # s
  BY <1>1 DEF IInv, RegisteredInv, Waiting
<1>10. RegisteredInv'
  <2>1. \A t \in Slots : commands'[t] = IF t = s THEN c ELSE commands[t]
    BY <1>0, <1>2
  <2>2. \A t \in Slots : t \in running' <=> commands'[t] # None
    BY <1>0, <1>2, <2>1 DEF IInv, RegisteredInv
  <2>3. \A t \in running : slot[commands[t]] = t /\ commands[t] \in Waiting
    <3>1. \A t \in running : commands[t] \in Coroutines
      BY <1>0 DEF IInv, RegisteredInv
    <3> QED
      BY <1>7, <3>1 DEF IInv, RegisteredInv
  <2>4. \A t \in running' : slot'[commands'[t]] = t /\ commands'[t] \in Waiting'
    <3> TAKE t \in running'
    <3>1. CASE t = s
      BY <1>1, <1>5, <1>6, <2>1, <3>1
    <3>2. CASE t # s
      <4>1. t \in running /\ t \in Slots /\ commands'[t] = commands[t]
        BY <1>0, <1>2, <2>1, <3>2
      <4>2. commands[t] \in Coroutines \ {c} /\ slot[commands[t]] = t
        BY <1>6, <2>3, <4>1
      <4> QED
        BY <1>4, <1>6, <2>3, <4>1, <4>2
    <3> QED
      BY <3>1, <3>2
  <2>5. \A d \in Waiting' : slot'[d] \in running' /\ commands'[slot'[d]] = d
    <3> TAKE d \in Waiting'
    <3>1. CASE d = c
      BY <1>1, <1>2, <1>5, <2>1, <3>1
    <3>2. CASE d # c
      <4>1. d \in Waiting /\ slot'[d] = slot[d] /\ slot[d] \in Slots
        BY <1>0, <1>4, <1>6, <3>2
      <4> QED
        BY <1>2, <1>9, <2>1, <4>1
    <3> QED
      BY <3>1, <3>2
  <2>6. \A d \in Coroutines : state'[d] # "registered"
    BY <1>4, <1>5, <1>7
  <2> QED
    BY <2>2, <2>4, <2>5, <2>6 DEF RegisteredInv
<1>11. IssuedInv'
  <2>1. commandIssue \subseteq {slot[d] : d \in Waiting}
        /\ \A d \in Waiting : slot[d] \in commandIssue <=> outcome[d] # "read"
    BY DEF IInv, IssuedInv
  <2>2. commandIssue' \subseteq {slot'[d] : d \in Waiting'}
    BY <1>2, <1>4, <1>5, <1>6, <2>1
  <2>3. \A d \in Waiting' : slot'[d] \in commandIssue' <=> outcome'[d] # "read"
    BY <1>2, <1>4, <1>5, <1>6, <1>9, <2>1
  <2> QED
    BY <2>2, <2>3 DEF IssuedInv
<1>12. NoticeInv'
  <2>1. (\E d \in Waiting' : slot'[d] \notin commandIssue') =>
          \E d \in Waiting : slot[d] \notin commandIssue
    BY <1>2, <1>4, <1>5, <1>6
  <2> QED
    BY <2>1 DEF IInv, NoticeInv
<1>13. ResultFollowsExecution'
  BY <1>4, <1>5 DEF IInv, ResultFollowsExecution
<1> QED
  BY <1>3, <1>8, <1>10, <1>11, <1>12, <1>13

\* A coroutine that another one starts issues its first command.
LEMMA StartKeeps ==
  ASSUME IInv, NEW c \in Coroutines, Start(c)
  PROVE  IInv'
<1>1. c \notin Waiting /\ state[First] \notin Early
  BY NotEarly DEF Start, Waiting
<1>2. Min(FreeSlots) \in FreeSlots
  BY LeastSlot DEF Start, FreeSlots
<1>3. /\ Issue(c, Min(FreeSlots))
      /\ UNCHANGED <<interruptStatus, msiPending, stopped, unsolicited, status, reads, failed,
                     eventQueue, dispatched, cpu>>
      /\ state[c] = "new"
  BY DEF Start, schedulerVars
<1>4. /\ commandIssue' \subseteq Slots /\ running' \subseteq Slots
      /\ commands' \in [Slots -> Coroutines \cup {None}]
      /\ state' \in [Coroutines -> {"new", "hasSlot", "registered", "suspended", "finished"}]
      /\ slot' \in [Coroutines -> Slots]
      /\ result' \in [Coroutines -> {"none", "true", "false"}]
      /\ outcome' \in [Coroutines -> {"none", "read", "error"}]
      /\ StartInv' /\ RegisteredInv' /\ IssuedInv' /\ NoticeInv'
      /\ ResultFollowsExecution'
  BY <1>1, <1>2, <1>3, Issuing
<1>5. TypeOK'
  BY <1>3, <1>4 DEF IInv, TypeOK, SchedulerTypeOK
<1>6. \A d \in Coroutines : /\ state'[d] = IF d = c THEN "suspended" ELSE state[d]
                            /\ result'[d] = IF d = c THEN "none" ELSE result[d]
  BY <1>3 DEF Issue, IInv, TypeOK
<1>7. ReadsInv'
  BY <1>3, <1>6 DEF IInv, ReadsInv
<1>8. QueuedIffResult'
  BY <1>3, <1>6 DEF IInv, QueuedIffResult
<1> QED
  BY <1>4, <1>5, <1>7, <1>8 DEF IInv

\* A coroutine that timerLoop resumes has a result, and goes on or finishes.
LEMMA ResumeKeeps ==
  ASSUME IInv, NEW c \in Coroutines, Resume(c)
  PROVE  IInv' /\ state[c] = "suspended" /\ result[c] # "none"
<1>1. /\ cpu = "timer" /\ eventQueue # <<>> /\ dispatched < DispatchLimit /\ c = Head(eventQueue)
      /\ eventQueue' = Tail(eventQueue) /\ dispatched' = dispatched + 1 /\ cpu' = cpu
      /\ reads' = [reads EXCEPT ![c] = @ + 1]
      /\ failed' = IF result[c] = "none" THEN "noResult" ELSE failed
  BY DEF Resume, Dispatched, MayDispatch
<1>2. /\ eventQueue \in Seq(Coroutines) /\ IsInjective(eventQueue) /\ failed = "no"
      /\ ToSet(eventQueue) = {d \in Coroutines : state[d] = "suspended" /\ result[d] # "none"}
  BY DEF IInv, TypeOK, SchedulerTypeOK, QueuedIffResult
<1>3. /\ c \in ToSet(eventQueue) /\ eventQueue' \in Seq(Coroutines) /\ IsInjective(eventQueue')
      /\ ToSet(eventQueue') = ToSet(eventQueue) \ {c}
  BY <1>1, <1>2, QueueLess
<1>4. state[c] = "suspended" /\ result[c] # "none" /\ c \notin Waiting /\ failed' = "no"
  BY <1>1, <1>2, <1>3 DEF Waiting
<1>5. state[First] \notin Early /\ \A d \in Coroutines : state[d] \notin {"hasSlot", "registered"}
  BY <1>1, NotEarly
<1>6. /\ reads' \in [Coroutines -> 0 .. ReadsEach] /\ dispatched' \in 0 .. DispatchLimit
      /\ \A d \in Coroutines : reads'[d] = IF d = c THEN reads[d] + 1 ELSE reads[d]
  <2>1. /\ reads[c] < ReadsEach /\ reads \in [Coroutines -> 0 .. ReadsEach]
        /\ dispatched \in 0 .. DispatchLimit
    BY <1>4 DEF IInv, ReadsInv, TypeOK, SchedulerTypeOK
  <2> QED
    BY <1>1, <2>1, DeviceAssumption, DispatchLimitAssumption
<1>7. CASE /\ result[c] = "true" /\ FreeSlots # {} /\ reads[c] + 1 < ReadsEach
           /\ Issue(c, Min(FreeSlots))
           /\ UNCHANGED <<interruptStatus, msiPending, stopped, unsolicited, status>>
  <2>1. Min(FreeSlots) \in FreeSlots
    BY <1>7, LeastSlot DEF FreeSlots
  <2>2. /\ commandIssue' \subseteq Slots /\ running' \subseteq Slots
        /\ commands' \in [Slots -> Coroutines \cup {None}]
        /\ state' \in [Coroutines -> {"new", "hasSlot", "registered", "suspended", "finished"}]
        /\ slot' \in [Coroutines -> Slots]
        /\ result' \in [Coroutines -> {"none", "true", "false"}]
        /\ outcome' \in [Coroutines -> {"none", "read", "error"}]
        /\ StartInv' /\ RegisteredInv' /\ IssuedInv' /\ NoticeInv'
        /\ ResultFollowsExecution'
    BY <1>1, <1>4, <1>5, <1>7, <2>1, Issuing
  <2>3. TypeOK'
    BY <1>1, <1>3, <1>4, <1>6, <1>7, <2>2 DEF IInv, TypeOK, SchedulerTypeOK
  <2>4. \A d \in Coroutines : /\ state'[d] = IF d = c THEN "suspended" ELSE state[d]
                              /\ result'[d] = IF d = c THEN "none" ELSE result[d]
    BY <1>7 DEF Issue, IInv, TypeOK
  <2>5. ReadsInv'
    BY <1>6, <1>7, <2>4 DEF IInv, ReadsInv
  <2>6. QueuedIffResult'
    BY <1>2, <1>3, <1>4, <2>4 DEF QueuedIffResult
  <2> QED
    BY <1>4, <2>2, <2>3, <2>5, <2>6 DEF IInv
<1>8. CASE /\ state' = [state EXCEPT ![c] = "finished"]
           /\ UNCHANGED <<hbaVars, deviceVars, slot, result>>
  <2> USE DEF hbaVars, deviceVars
  <2>1. \A d \in Coroutines : state'[d] = IF d = c THEN "finished" ELSE state[d]
    BY <1>8 DEF IInv, TypeOK
  <2>2. Waiting' = Waiting
    BY <1>4, <1>8, <2>1 DEF Waiting
  <2>3. TypeOK'
    BY <1>1, <1>3, <1>4, <1>6, <1>8 DEF IInv, TypeOK, SchedulerTypeOK
  <2>4. StartInv'
    BY <1>5, <1>8, <2>1, DeviceAssumption DEF IInv, StartInv, Early
  <2>5. RegisteredInv' /\ IssuedInv' /\ NoticeInv'
    <3>1. \A d \in Coroutines : state'[d] # "registered"
      BY <1>5, <2>1
    <3>2. \A s \in running : commands[s] \in Coroutines
      BY DEF IInv, TypeOK, RegisteredInv
    <3>3. \A s \in running : slot[commands[s]] = s /\ commands[s] \in Waiting
      BY <1>5, <3>2 DEF IInv, RegisteredInv
    <3>4. RegisteredInv'
      BY <1>8, <2>2, <3>1, <3>3 DEF IInv, RegisteredInv
    <3>5. IssuedInv' /\ NoticeInv'
      BY <1>1, <1>8, <2>2 DEF IInv, IssuedInv, NoticeInv
    <3> QED
      BY <3>4, <3>5
  <2>6. ResultFollowsExecution'
    BY <1>8 DEF IInv, ResultFollowsExecution
  <2>7. ReadsInv'
    BY <1>6, <2>1 DEF IInv, ReadsInv
  <2>8. QueuedIffResult'
    BY <1>2, <1>3, <1>4, <1>8, <2>1 DEF QueuedIffResult
  <2> QED
    BY <1>4, <2>3, <2>4, <2>5, <2>6, <2>7, <2>8 DEF IInv
<1> QED
  BY <1>7, <1>8 DEF Resume

\* msiHandler gives the executed commands their result, and queues each of
\* the coroutines that wait for them once.
LEMMA CompleteKeeps ==
  ASSUME IInv, MsiCompletes
  PROVE  /\ IInv'
         /\ UNCHANGED <<state, outcome>>
         /\ \E D \in SUBSET {c \in Waiting : outcome[c] = "read"} :
              result' = [c \in Coroutines |-> IF c \in D THEN Value ELSE result[c]]
<1> DEFINE completed == IF status = {} THEN {} ELSE running \ commandIssue
           known == {s \in completed : commands[s] # None}
           D == {commands[s] : s \in known}
           inOrder == Ascending(known)
           queued == [i \in DOMAIN inOrder |-> commands[inOrder[i]]]
<1>1. /\ cpu = "msiHasAcknowledged" /\ cpu' = "main"
      /\ running' = running \ completed
      /\ commands' = [s \in Slots |-> IF s \in completed THEN None ELSE commands[s]]
      /\ result' = [c \in Coroutines |-> IF c \in D THEN Value ELSE result[c]]
      /\ failed' = IF \E c \in D : result[c] # "none" THEN "resultSetTwice" ELSE failed
      /\ eventQueue' = eventQueue \o queued
      /\ UNCHANGED <<commandIssue, interruptStatus, stopped, unsolicited, outcome, status,
                     state, slot, reads, dispatched, msiPending>>
  BY DEF MsiCompletes, Complete, QueueEvents
<1>2. /\ running \subseteq Slots /\ commands \in [Slots -> Coroutines \cup {None}]
      /\ slot \in [Coroutines -> Slots] /\ result \in [Coroutines -> {"none", "true", "false"}]
      /\ eventQueue \in Seq(Coroutines) /\ failed = "no"
  BY DEF IInv, TypeOK, SchedulerTypeOK, QueuedIffResult
<1>3. state[First] \notin Early /\ \A c \in Coroutines : state[c] \notin {"hasSlot", "registered"}
  BY <1>1, NotEarly
<1>4. \A s \in running : /\ commands[s] # None /\ commands[s] \in Coroutines
                         /\ commands[s] \in Waiting /\ slot[commands[s]] = s
  <2>1. \A s \in running : commands[s] # None /\ commands[s] \in Coroutines
    BY <1>2 DEF IInv, RegisteredInv
  <2> QED
    BY <1>3, <2>1 DEF IInv, RegisteredInv
<1>5. completed \subseteq running /\ known = completed
  BY <1>4
<1>6. D \subseteq Waiting /\ \A c \in D : slot[c] \in completed /\ outcome[c] = "read"
  BY <1>4, <1>5 DEF IInv, IssuedInv
<1>7. \A c \in Waiting : slot[c] \in completed => c \in D
  BY <1>5 DEF IInv, RegisteredInv, Waiting
<1>8. known \in SUBSET Slots
  BY <1>2, <1>5
<1> DEFINE n == Cardinality(known)
<1>9. /\ n \in Nat /\ inOrder \in [1 .. n -> known] /\ IsInjective(inOrder)
      /\ ToSet(inOrder) = known
  BY <1>8, AscendingOrder
<1>10. queued \in [1 .. n -> Coroutines] /\ IsInjective(queued) /\ ToSet(queued) = D
  <2> HIDE DEF inOrder, completed, n
  <2>1. \A i \in 1 .. n : inOrder[i] \in known /\ queued[i] = commands[inOrder[i]]
    BY <1>9
  <2>2. \A s \in known : commands[s] \in Coroutines /\ slot[commands[s]] = s
    BY <1>4, <1>5
  <2>3. queued \in [1 .. n -> Coroutines]
    BY <1>9, <2>2
  <2>4. IsInjective(queued)
    BY <1>9, <2>1, <2>2, <2>3 DEF IsInjective
  <2>5. ToSet(queued) = {commands[s] : s \in ToSet(inOrder)}
    BY <1>9, <2>3 DEF ToSet
  <2> QED
    BY <1>9, <2>3, <2>4, <2>5
<1> HIDE DEF inOrder, queued, D, completed, known, n
<1>11. /\ IsInjective(eventQueue)
       /\ ToSet(eventQueue) = {c \in Coroutines : state[c] = "suspended" /\ result[c] # "none"}
  BY DEF IInv, QueuedIffResult
<1>12. ToSet(eventQueue) \cap ToSet(queued) = {}
  BY <1>6, <1>10, <1>11 DEF Waiting
<1>13. /\ eventQueue' \in Seq(Coroutines) /\ IsInjective(eventQueue')
       /\ ToSet(eventQueue') = ToSet(eventQueue) \cup D
  BY <1>1, <1>2, <1>9, <1>10, <1>11, <1>12, QueueMore
<1>14. Value \in {"true", "false"}
  BY DEF Value
<1>15. \A c \in Coroutines : result'[c] = IF c \in D THEN Value ELSE result[c]
  BY <1>1
<1>16. failed' = "no"
  BY <1>1, <1>2, <1>6 DEF Waiting
<1>17. Waiting' = Waiting \ D
  BY <1>1, <1>14, <1>15 DEF Waiting
<1>18. TypeOK'
  <2>1. commands' \in [Slots -> Coroutines \cup {None}]
    BY <1>1, <1>2
  <2>2. result' \in [Coroutines -> {"none", "true", "false"}]
    BY <1>1, <1>2, <1>14
  <2> QED
    BY <1>1, <1>2, <1>13, <1>16, <2>1, <2>2 DEF IInv, TypeOK, SchedulerTypeOK
<1>19. StartInv'
  <2>1. \A c \in Coroutines : state[c] \in Early => c \notin D
    BY <1>6 DEF Waiting, Early
  <2> QED
    BY <1>1, <1>3, <1>15, <2>1 DEF IInv, StartInv, Early
<1>20. RegisteredInv'
  <2>1. \A s \in Slots : s \in running' <=> commands'[s] # None
    BY <1>1 DEF IInv, RegisteredInv
  <2>2. \A s \in running' : commands'[s] = commands[s] /\ commands[s] \in Waiting \ D
    <3> TAKE s \in running'
    <3>1. s \in running /\ s \notin completed /\ s \in Slots
      BY <1>1, <1>2
    <3>2. commands[s] \in Waiting /\ slot[commands[s]] = s
      BY <1>4, <3>1
    <3> QED
      BY <1>1, <1>6, <3>1, <3>2
  <2>3. \A c \in Waiting \ D : slot[c] \in running' /\ commands'[slot[c]] = c
    BY <1>1, <1>2, <1>7 DEF IInv, RegisteredInv, Waiting
  <2>4. \A s \in running' : slot[commands[s]] = s
    BY <1>1, <1>4
  <2> QED
    BY <1>1, <1>3, <1>17, <2>1, <2>2, <2>3, <2>4 DEF RegisteredInv
<1>21. IssuedInv'
  <2>1. \A c \in D : slot[c] \notin commandIssue
    BY <1>6 DEF completed
  <2> QED
    BY <1>1, <1>17, <2>1 DEF IInv, IssuedInv
<1>22. ResultFollowsExecution'
  BY <1>1, <1>6, <1>15 DEF IInv, ResultFollowsExecution
<1>23. ReadsInv'
  BY <1>1 DEF IInv, ReadsInv
<1>24. QueuedIffResult'
  <2>1. {c \in Coroutines : state'[c] = "suspended" /\ result'[c] # "none"}
          = {c \in Coroutines : state[c] = "suspended" /\ result[c] # "none"} \cup D
    BY <1>1, <1>6, <1>14, <1>15 DEF Waiting
  <2> QED
    BY <1>11, <1>13, <1>16, <2>1 DEF QueuedIffResult
<1>25. NoticeInv'
  <2>1. CASE status = {}
    BY <1>1, <1>17, <2>1 DEF IInv, NoticeInv
  <2>2. CASE status # {}
    <3>1. \A c \in Waiting : slot[c] \notin commandIssue => slot[c] \in completed
      BY <2>2 DEF completed, IInv, RegisteredInv, Waiting
    <3> QED
      BY <1>1, <1>7, <1>17, <3>1 DEF NoticeInv
  <2> QED
    BY <2>1, <2>2
<1>26. D \in SUBSET {c \in Waiting : outcome[c] = "read"}
  BY <1>6
<1> QED
  BY <1>1, <1>18, <1>19, <1>20, <1>21, <1>22, <1>23, <1>24, <1>25, <1>26 DEF IInv

-----------------------------------------------------------------------------
\* The invariant holds throughout.
THEOREM Invariance == Spec /\ ~UnsolicitedAtStart => []IInv
<1>1. Init /\ ~UnsolicitedAtStart => IInv
  BY InitInv
<1>2. IInv /\ [Next]_vars => IInv'
  <2> SUFFICES ASSUME IInv, [Next]_vars PROVE IInv'
    OBVIOUS
  <2>1. CASE UNCHANGED vars
    <3> USE <2>1 DEF vars, hbaVars, deviceVars, coroutineVars, schedulerVars
    <3>1. /\ RegisteredInv' /\ IssuedInv' /\ ResultFollowsExecution' /\ ReadsInv'
          /\ QueuedIffResult' /\ Waiting' = Waiting
      BY Bookkeeping
    <3>2. TypeOK'
      BY DEF IInv, TypeOK, SchedulerTypeOK
    <3>3. StartInv'
      BY DEF IInv, StartInv
    <3>4. NoticeInv'
      BY <3>1 DEF IInv, NoticeInv
    <3> QED
      BY <3>1, <3>2, <3>3, <3>4 DEF IInv
  <2>2. CASE Main
    BY <2>2, FindKeeps, RegisterKeeps, IssueKeeps DEF Main
  <2>3. CASE Msi
    BY <2>3, ReadStatusKeeps, AcknowledgeKeeps, CompleteKeeps DEF Msi
  <2>4. CASE Timer
    BY <2>4, TimerKeeps
  <2>5. CASE SendUnsolicited
    BY <2>5, UnsolicitedKeeps
  <2>6. ASSUME NEW c \in Coroutines, Execute(c) \/ Resume(c) \/ Start(c)
        PROVE  IInv'
    BY <2>6, ExecuteKeeps, ResumeKeeps, StartKeeps
  <2> QED
    BY <2>1, <2>2, <2>3, <2>4, <2>5, <2>6 DEF Next
<1> QED
  BY <1>1, <1>2, PTL DEF Spec

\* Every variable of the device and its driver keeps to its type.
THEOREM TypeCorrect == Spec /\ ~UnsolicitedAtStart => []TypeOK
<1>1. IInv => TypeOK
  BY DEF IInv
<1> QED
  BY <1>1, Invariance, PTL

\* Nobody's command is forgotten or overwritten in msiHandler's table.
THEOREM Registered == Spec /\ ~UnsolicitedAtStart => []WaitingIsRegistered
<1>1. IInv => WaitingIsRegistered
  BY DEF IInv, RegisteredInv, WaitingIsRegistered, Waiting
<1> QED
  BY <1>1, Invariance, PTL

\* No coroutine looks at a buffer that the HBA still writes to.
THEOREM ResultsFollow == Spec /\ ~UnsolicitedAtStart => []ResultFollowsExecution
<1>1. IInv => ResultFollowsExecution
  BY DEF IInv
<1> QED
  BY <1>1, Invariance, PTL

\* Every coroutine is queued once for each result, and the kernel's checks in
\* setResult and await_resume never fail.
THEOREM QueuedOnce == Spec /\ ~UnsolicitedAtStart => []QueuedIffResult
<1>1. IInv => QueuedIffResult
  BY DEF IInv
<1> QED
  BY <1>1, Invariance, PTL

\* No completion is lost between the reads of msiHandler.
THEOREM Noticed == Spec /\ ~UnsolicitedAtStart => []CompletionIsNoticed
<1>1. IInv => CompletionIsNoticed
  BY DEF IInv, NoticeInv, CompletionIsNoticed
<1> QED
  BY <1>1, Invariance, PTL

-----------------------------------------------------------------------------
(* AhciDevice implements BlockDevice *)

\* Steps that a reader of the device does not see.
LEMMA Unseen ==
  ASSUME UNCHANGED <<result, outcome>>,
         \A c \in Coroutines : state'[c] # state[c] =>
           state[c] # "suspended" /\ state'[c] # "suspended"
  PROVE  UNCHANGED <<Phase, Answer>>
<1>1. \A c \in Coroutines : state[c] = "suspended" <=> state'[c] = "suspended"
  OBVIOUS
<1>2. Phase' = Phase
  BY <1>1 DEF Phase
<1>3. Answer' = Answer
  BY <1>1 DEF Answer
<1> QED
  BY <1>2, <1>3

\* A coroutine that comes to wait has asked.
LEMMA AskStep ==
  ASSUME NEW c \in Coroutines, state[c] # "suspended", state'[c] = "suspended",
         result'[c] = "none", outcome'[c] = "none",
         \A d \in Coroutines \ {c} :
           state'[d] = state[d] /\ result'[d] = result[d] /\ outcome'[d] = outcome[d]
  PROVE  Device!Ask(c)
<1>1. Phase[c] = "idle"
  BY DEF Phase
<1>2. Phase' = [Phase EXCEPT ![c] = "waiting"]
  BY DEF Phase
<1>3. Answer' = Answer
  BY DEF Answer
<1> QED
  BY <1>1, <1>2, <1>3 DEF Device!Ask

\* What the coroutines see of the AHCI device is a block device: msiHandler's
\* answers come once, after execution, and only to those who asked.
THEOREM Implements == Spec /\ ~UnsolicitedAtStart => ImplementsBlockDevice
<1>1. Init => Device!Init
  BY DEF Init, Device!Init, Phase, Answer
<1>2. IInv /\ [Next]_vars => [Device!Next]_(Device!deviceVars)
  <2> SUFFICES ASSUME IInv, [Next]_vars
               PROVE  Device!Next \/ UNCHANGED <<Phase, Answer>>
    BY DEF Device!deviceVars
  <2>0. /\ First \in Coroutines
        /\ state \in [Coroutines -> {"new", "hasSlot", "registered", "suspended", "finished"}]
        /\ result \in [Coroutines -> {"none", "true", "false"}]
        /\ outcome \in [Coroutines -> {"none", "read", "error"}]
    BY DeviceAssumption DEF IInv, TypeOK
  <2>1. CASE UNCHANGED vars \/ MsiReadsStatus \/ MsiAcknowledges \/ Timer \/ SendUnsolicited
    <3>1. UNCHANGED <<state, result, outcome>>
      BY <2>1 DEF vars, hbaVars, coroutineVars, MsiReadsStatus, MsiAcknowledges,
                  Timer, SendUnsolicited
    <3> QED
      BY <3>1, Unseen
  <2>2. CASE MainFindsSlot \/ MainRegisters
    <3>1. /\ UNCHANGED <<result, outcome>> /\ state[First] \in {"new", "hasSlot"}
          /\ \/ state' = [state EXCEPT ![First] = "hasSlot"]
             \/ state' = [state EXCEPT ![First] = "registered"]
      BY <2>2 DEF MainFindsSlot, MainRegisters, hbaVars
    <3> QED
      BY <2>0, <3>1, Unseen
  <2>3. CASE MainIssues
    <3>1. /\ UNCHANGED <<result, outcome>> /\ state[First] = "registered"
          /\ state' = [state EXCEPT ![First] = "suspended"]
      BY <2>3 DEF MainIssues
    <3>2. result[First] = "none" /\ outcome[First] = "none"
      BY <2>0, <3>1 DEF IInv, StartInv, Early
    <3>3. Device!Ask(First)
      BY <2>0, <3>1, <3>2, AskStep
    <3> QED
      BY <2>0, <3>3 DEF Device!Next
  <2>4. CASE MsiCompletes
    <3>1. PICK D \in SUBSET {c \in Waiting : outcome[c] = "read"} :
            result' = [c \in Coroutines |-> IF c \in D THEN Value ELSE result[c]]
      BY <2>4, CompleteKeeps
    <3>2. UNCHANGED <<state, outcome>>
      BY <2>4, CompleteKeeps
    <3>3. Value \in {"true", "false"}
      BY DEF Value
    <3>4. D \in SUBSET Coroutines /\ \A c \in D : state[c] = "suspended" /\ result[c] = "none" /\ outcome[c] = "read"
      BY DEF Waiting
    <3>5. \A c \in D : Phase[c] = "executed"
      BY <3>4 DEF Phase
    <3>6. Phase' = [c \in Coroutines |-> IF c \in D THEN "answered" ELSE Phase[c]]
      BY <3>1, <3>2, <3>3, <3>4 DEF Phase
    <3>7. Answer' = [c \in Coroutines |-> IF c \in D THEN Value ELSE Answer[c]]
      BY <3>1, <3>2, <3>3, <3>4 DEF Answer
    <3>8. CASE D = {}
      BY <2>0, <3>1, <3>2, <3>8, Unseen
    <3>9. CASE D # {}
      BY <3>3, <3>4, <3>5, <3>6, <3>7, <3>9 DEF Device!Next, Device!Answer
    <3> QED
      BY <3>8, <3>9
  <2>5. ASSUME NEW c \in Coroutines, Execute(c) PROVE Device!Next \/ UNCHANGED <<Phase, Answer>>
    <3>1. state[c] = "suspended" /\ result[c] = "none"
      BY <2>5, ExecuteKeeps DEF Waiting
    <3>2. /\ UNCHANGED <<state, result>> /\ outcome[c] = "none" /\ outcome'[c] \in {"read", "error"}
          /\ \A d \in Coroutines \ {c} : outcome'[d] = outcome[d]
      BY <2>0, <2>5 DEF Execute, coroutineVars
    <3>3. Answer' = Answer
      BY <3>2 DEF Answer
    <3>4. CASE outcome'[c] = "read"
      <4>1. Phase[c] = "waiting"
        BY <3>1, <3>2 DEF Phase
      <4>2. Phase' = [Phase EXCEPT ![c] = "executed"]
        BY <3>1, <3>2, <3>4 DEF Phase
      <4> QED
        BY <3>3, <4>1, <4>2 DEF Device!Next, Device!Execute
    <3>5. CASE outcome'[c] = "error"
      <4>1. Phase' = Phase
        BY <3>2, <3>5 DEF Phase
      <4> QED
        BY <3>3, <4>1
    <3> QED
      BY <3>2, <3>4, <3>5
  <2>6. ASSUME NEW c \in Coroutines, Resume(c) PROVE Device!Next
    <3>1. state[c] = "suspended" /\ result[c] # "none"
      BY <2>6, ResumeKeeps
    <3>2. /\ \/ state'[c] = "suspended" /\ result'[c] = "none" /\ outcome'[c] = "none"
             \/ state'[c] = "finished"
          /\ \A d \in Coroutines \ {c} :
               state'[d] = state[d] /\ result'[d] = result[d] /\ outcome'[d] = outcome[d]
      BY <2>0, <2>6 DEF Resume, Issue, hbaVars
    <3>3. Phase[c] = "answered"
      BY <3>1 DEF Phase
    <3>4. Phase' = [Phase EXCEPT ![c] = IF state'[c] = "suspended" THEN "waiting" ELSE "idle"]
      BY <3>2 DEF Phase
    <3>5. Answer' = [Answer EXCEPT ![c] = "none"]
      BY <3>2 DEF Answer
    <3>6. Phase' \in {[Phase EXCEPT ![c] = next] : next \in {"idle", "waiting"}}
      BY <3>4
    <3> QED
      BY <3>3, <3>5, <3>6 DEF Device!Next, Device!Take
  <2>7. ASSUME NEW c \in Coroutines, Start(c) PROVE Device!Next
    <3>1. /\ state[c] = "new" /\ state'[c] = "suspended" /\ result'[c] = "none" /\ outcome'[c] = "none"
          /\ \A d \in Coroutines \ {c} :
               state'[d] = state[d] /\ result'[d] = result[d] /\ outcome'[d] = outcome[d]
      BY <2>0, <2>7 DEF Start, Issue
    <3>2. Device!Ask(c)
      BY <3>1, AskStep
    <3> QED
      BY <3>2 DEF Device!Next
  <2> QED
    BY <2>1, <2>2, <2>3, <2>4, <2>5, <2>6, <2>7 DEF Next, Main, Msi
<1> QED
  BY <1>1, <1>2, Invariance, PTL DEF Spec, ImplementsBlockDevice, Device!Spec

=============================================================================

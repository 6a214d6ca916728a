-------------------------------- MODULE Cpus --------------------------------
(***************************************************************************)
(* The start of the other CPUs: the loop of bootApus with ApuAwaiter and     *)
(* apuMain, src/src/boot/kernel.cpp, and TSS::createAndInstall.              *)
(*                                                                          *)
(* There is no lock.  What keeps the CPUs apart, as they use the heap, the   *)
(* page lists, the global descriptor table (GDT) and the info table, is that *)
(* bootApus waits for each to report before it goes on to the next.          *)
(***************************************************************************)

EXTENDS Integers, Sequences

CONSTANTS
  Cpu,     (* the CPUs in the order of APIC::cpus                           *)
  BootCpu, (* APIC::bootCpu                                                 *)
  GdtSize, (* entries of the GDT: 512                                       *)
  Nobody

Others == {Cpu[i] : i \in DOMAIN Cpu} \ {BootCpu}

ASSUME CpuAssumption ==
  /\ Cpu \in Seq({Cpu[i] : i \in DOMAIN Cpu})
  /\ \E i \in DOMAIN Cpu : Cpu[i] = BootCpu
  /\ GdtSize \in Nat /\ GdtSize >= 4 + 2 * Len(Cpu)
  /\ Nobody \notin Others

VARIABLES
  turn,    (* index in APIC::cpus of bootApus' loop                         *)
  bootPc,  (* where bootApus is: see BootPcs                                *)
  awaiter, (* apuAwaiter: the CPU it waits for, or Nobody                   *)
  event,   (* bootApus' coroutine is in the event queue                     *)
  stacks,  (* how many stacks were made: a stack's number                   *)
  table,   (* the stack that the info table names                           *)
  gdt,     (* the GDT's entries: "free", "segment", "tss" or "upper"        *)
  zones,   (* whose interrupt zones APIC::bootCpu has                       *)
  pc,      (* of each other CPU: see Pcs                                    *)
  rsp,     (* its stack                                                     *)
  tss,     (* the GDT entry of its task state segment                       *)
  broken   (* the CPUs that cannot do what the kernel needs                 *)

cpuVars == <<turn, bootPc, awaiter, event, stacks, table, gdt, zones, pc, rsp, tss, broken>>

BootPcs == {"next", "prepared", "suspending", "waiting"}
Pcs == {"off", "started", "hasStack", "hasSelector", "hasTss", "online", "halted"}

-----------------------------------------------------------------------------
(* bootApus *)

SkipBootCpu ==
  /\ bootPc = "next"
  /\ turn <= Len(Cpu)
  /\ Cpu[turn] = BootCpu
  /\ turn' = turn + 1
  /\ UNCHANGED <<bootPc, awaiter, event, stacks, table, gdt, zones, pc, rsp, tss, broken>>

\* A stack is requested and the info table written.
Prepare ==
  /\ bootPc = "next"
  /\ turn <= Len(Cpu)
  /\ Cpu[turn] # BootCpu
  /\ bootPc' = "prepared"
  /\ stacks' = stacks + 1
  /\ table' = stacks'
  /\ UNCHANGED <<turn, awaiter, event, gdt, zones, pc, rsp, tss, broken>>

StoreAwaiter == awaiter' = Cpu[turn] /\ UNCHANGED pc

SendSipi == pc' = [pc EXCEPT ![Cpu[turn]] = "started"] /\ UNCHANGED awaiter


DoNotAwait ==
  /\ bootPc = "prepared"
  /\ SendSipi
  /\ bootPc' = "next"
  /\ turn' = turn + 1
  /\ UNCHANGED <<event, stacks, table, gdt, zones, rsp, tss, broken>>

\* ApuAwaiter::await_suspend.
AwaitSuspend ==
  /\ \/ bootPc = "prepared" /\ StoreAwaiter /\ bootPc' = "suspending"
     \/ bootPc = "suspending" /\ SendSipi /\ bootPc' = "waiting"
  /\ UNCHANGED <<turn, event, stacks, table, gdt, zones, rsp, tss, broken>>

\* timerLoop resumes the coroutine, which destroys its awaiter.
GoOn ==
  /\ bootPc = "waiting"
  /\ event
  /\ event' = FALSE
  /\ awaiter' = Nobody
  /\ turn' = turn + 1
  /\ bootPc' = "next"
  /\ UNCHANGED <<stacks, table, gdt, zones, pc, rsp, tss, broken>>

-----------------------------------------------------------------------------
(* apuMain, on a CPU of its own *)

ReadTable(c) ==
  /\ pc[c] = "started"
  /\ rsp' = [rsp EXCEPT ![c] = table]
  /\ pc' = [pc EXCEPT ![c] = "hasStack"]
  /\ UNCHANGED <<turn, bootPc, awaiter, event, stacks, table, gdt, zones, tss, broken>>

\* A CPU that panics halts itself and nobody else: bootApus goes on waiting.
Halt(c) ==
  /\ pc[c] = "hasStack"
  /\ c \in broken
  /\ pc' = [pc EXCEPT ![c] = "halted"]
  /\ UNCHANGED <<turn, bootPc, awaiter, event, stacks, table, gdt, zones, rsp, tss, broken>>

Least(S) == CHOOSE i \in S : \A j \in S : i <= j

\* Mutant: the upper half of a task state segment's descriptor, which is not
\* marked present, counts as available.
AvailableSelectorAnywhere == Least({i \in DOMAIN gdt : gdt[i] \in {"free", "upper"}})

\* GDT::getAvailableSelector skips the upper half.
AvailableSelector == Least({i \in DOMAIN gdt : gdt[i] = "free"})

FindSelector(c) ==
  /\ pc[c] = "hasStack"
  /\ c \notin broken
  /\ tss' = [tss EXCEPT ![c] = AvailableSelector]
  /\ pc' = [pc EXCEPT ![c] = "hasSelector"]
  /\ UNCHANGED <<turn, bootPc, awaiter, event, stacks, table, gdt, zones, rsp, broken>>

\* The interrupt zones are noted at the boot CPU, as are the boot CPU's own.
InstallTss(c) ==
  /\ pc[c] = "hasSelector"
  /\ gdt' = [gdt EXCEPT ![tss[c]] = "tss", ![tss[c] + 1] = "upper"]
  /\ zones' = c
  /\ pc' = [pc EXCEPT ![c] = "hasTss"]
  /\ UNCHANGED <<turn, bootPc, awaiter, event, stacks, table, rsp, tss, broken>>

\* ApuAwaiter::resumeBpu.
Report(c) ==
  /\ pc[c] = "hasTss"
  /\ event' = (event \/ awaiter # Nobody)
  /\ pc' = [pc EXCEPT ![c] = "online"]
  /\ UNCHANGED <<turn, bootPc, awaiter, stacks, table, gdt, zones, rsp, tss, broken>>

CpusInit ==
  /\ turn = 1
  /\ bootPc = "next"
  /\ awaiter = Nobody
  /\ event = FALSE
  /\ stacks = 0 /\ table = 0
  /\ gdt = [i \in 1 .. GdtSize |->
              IF i <= 2 THEN "segment" ELSE IF i = 3 THEN "tss" ELSE IF i = 4 THEN "upper" ELSE "free"]
  /\ zones = BootCpu
  /\ pc = [c \in Others |-> "off"]
  /\ rsp = [c \in Others |-> 0]
  /\ tss = [c \in Others |-> 0]

BootCpuStep == SkipBootCpu \/ Prepare \/ AwaitSuspend \/ GoOn

CpuStep(c) == ReadTable(c) \/ Halt(c) \/ FindSelector(c) \/ InstallTss(c) \/ Report(c)

CpusNext == BootCpuStep \/ \E c \in Others : CpuStep(c)

CpusSpec == CpusInit /\ broken \in SUBSET Others /\ [][CpusNext]_cpuVars

-----------------------------------------------------------------------------
Starting == {c \in Others : pc[c] \in {"started", "hasStack", "hasSelector", "hasTss"}}

\* What apuMain and bootApus share, none of it under a lock, is used by one CPU
\* at a time: while a CPU starts, no other does, and bootApus neither runs nor
\* is about to be resumed.  The timer may come at any moment.
OneCpuAtATime ==
  \A c \in Starting : Starting = {c} /\ bootPc = "waiting" /\ ~event

\* Two halves of one descriptor, and nothing of anybody else's.
Descriptor(c) == {tss[c], tss[c] + 1}

\* No two CPUs run on one stack or save their interrupts' state through one
\* task state segment, and the boot CPU's (entries 3 and 4) stays its own.
StacksAndSegmentsAreOwn ==
  /\ \A c, d \in {e \in Others : rsp[e] # 0} : rsp[c] = rsp[d] => c = d
  /\ \A c \in {e \in Others : tss[e] # 0} :
       /\ Descriptor(c) \cap 1 .. 4 = {}
       /\ \A d \in Others : Descriptor(c) \cap Descriptor(d) # {} => c = d

=============================================================================

----------------------------- MODULE KernelMain -----------------------------
(***************************************************************************)
(* The kernel's main flow from PCIe enumeration to the end of bootApus,     *)
(* bpuMain and the coroutines that it chains in src/src/boot/kernel.cpp:     *)
(* startPcieDrivers, createFileSystems, findRootFs, bootApus.  It composes  *)
(* the modules of the parts that it starts.  All reads wait for one block   *)
(* device, as BlockDevice has it, through the interrupts of AhciControllers. *)
(***************************************************************************)

EXTENDS AhciControllers, Cpus, FiniteSetsExt

CONSTANTS
  Disk, Size, Word,  (* see FileSystem                                      *)
  RootFile, ApuFile, (* the paths that the kernel opens                     *)
  Calls,             (* bound: the calls of the file system                 *)
  Sectors            (* sectors where a volume descriptor may be: 16        *)

ASSUME BrokenAssumption == \A m \in Machines : m.broken \subseteq Others

VARIABLES
  stage, (* the coroutine that runs, and where in it                        *)
  probe, (* createFileSystems: [controller, device, sector]                 *)
  iso,   (* <<controller, port>> of the file system's device, or <<>>        *)
  nodes, descriptors, clients, overlapped

ownVars == <<stage, probe, iso>>
treeVars == <<nodes, descriptors, clients, overlapped>>
vars == <<ownVars, treeVars, pcieVars, controllerVars, cpuVars, phase, answer, failed>>

FS == INSTANCE FileSystem WITH
        Clients <- {Main}, Lookups <- {RootFile, ApuFile}, Requests <- {}

ASSUME FilesAssumption == FS!DiskAssumption /\ FS!CallsAssumption

\* The two files are opened for reading, and the way to the root file does not
\* lead through the directory of the other: kernel.cpp:445 and :532 name
\* /boot/<id>.root-fs and /boot/stage1/apu.bin.
ASSUME PathsAssumption ==
  /\ \A f \in {RootFile, ApuFile} : f.op = "open" /\ ~ f.create
  /\ LET path == FS!Path(ApuFile)
         dir == FS!Resolve(path)[Len(path)]
     IN  dir.status = "Ok" =>
           \A k \in 0 .. Len(FS!Path(RootFile)) : FS!Resolve(FS!Path(RootFile))[k] # dir

Me == clients[Main]

-----------------------------------------------------------------------------
(* bpuMain and startPcieDrivers *)

EnumerateBuses ==
  /\ stage = "enumerate"
  /\ Enumerate
  /\ UNCHANGED <<ownVars, treeVars, controllerVars, cpuVars, phase, answer>>

FailToMap ==
  /\ stage = "enumerate"
  /\ CannotMap
  /\ UNCHANGED <<ownVars, treeVars, controllerVars, cpuVars, phase, answer>>

BeginDrivers ==
  /\ stage = "enumerate"
  /\ at = Done
  /\ stage' = "startPcieDrivers"
  /\ UNCHANGED <<probe, iso, treeVars, pcieVars, controllerVars, cpuVars, phase, answer, failed>>

StartDrivers ==
  /\ stage = "startPcieDrivers"
  /\ Start
  /\ UNCHANGED <<ownVars, treeVars, pcieVars, cpuVars>>

-----------------------------------------------------------------------------
(* createFileSystems, with JolietISO::isJolietIso *)

BeginFileSystems ==
  /\ stage = "startPcieDrivers"
  /\ next > Len(functions)
  /\ stage' = "createFileSystems"
  /\ UNCHANGED <<probe, iso, treeVars, pcieVars, controllerVars, cpuVars, phase, answer, failed>>

Probing == stage = "createFileSystems" /\ probe.controller <= Len(controllers)

Devices == controllers[probe.controller].devices

NextProbe ==
  IF probe.device < Len(Devices)
  THEN [controller |-> probe.controller, device |-> probe.device + 1, sector |-> 1]
  ELSE [controller |-> probe.controller + 1, device |-> 1, sector |-> 1]

SkipDevice ==
  /\ Probing
  /\ asked = <<>>
  /\ probe.device \in DOMAIN Devices => Devices[probe.device].type # "SATAPI"
  /\ probe' = NextProbe
  /\ UNCHANGED <<stage, iso, treeVars, pcieVars, controllerVars, cpuVars, phase, answer, failed>>

ReadSector ==
  /\ Probing
  /\ asked = <<>>
  /\ probe.device \in DOMAIN Devices
  /\ Devices[probe.device].type = "SATAPI"
  /\ Ask(probe.controller, Devices[probe.device].port)
  /\ UNCHANGED <<ownVars, treeVars, pcieVars, next, port, controllers, messages, cpuVars, failed>>

\* A sector that cannot be read is passed over.  Only one device has a Joliet
\* ISO here: a second one has to hold the same files, or findRootFs panics.
SectorRead ==
  /\ Probing
  /\ asked # <<>>
  /\ Device!Take(Main) /\ phase'[Main] = "idle"
  /\ asked' = <<>>
  /\ \/ /\ answer[Main] = "true"
        /\ iso = <<>>
        /\ iso' = asked
        /\ probe' = NextProbe
     \/ /\ probe' = IF probe.sector = Sectors THEN NextProbe ELSE [probe EXCEPT !.sector = @ + 1]
        /\ UNCHANGED iso
  /\ UNCHANGED <<stage, treeVars, pcieVars, next, port, controllers, messages, trouble, cpuVars,
                 failed>>

EndFileSystems ==
  /\ stage = "createFileSystems"
  /\ ~Probing
  /\ IF iso = <<>>
     THEN failed' = "no file system" /\ UNCHANGED stage
     ELSE stage' = "findRootFs" /\ UNCHANGED failed
  /\ UNCHANGED <<probe, iso, treeVars, pcieVars, controllerVars, cpuVars, phase, answer>>

-----------------------------------------------------------------------------
(* findRootFs and bootApus as far as they use the file system *)

UsesFileSystem ==
  /\ asked' = IF phase'[Main] = "waiting" THEN iso ELSE <<>>
  /\ trouble' = "none"
  /\ UNCHANGED <<probe, iso, pcieVars, next, port, controllers, messages, cpuVars>>

\* The coroutine has called and its call has returned.
Returned(op) == Me.pc = "idle" /\ Me.call.op = op

OpenRoot ==
  /\ stage = "findRootFs"
  /\ Returned("none")
  /\ FS!Open(Main, RootFile, TRUE)
  /\ UsesFileSystem
  /\ UNCHANGED stage

GoOnWithCall ==
  /\ FS!Resume(Main, TRUE)
  /\ UsesFileSystem
  /\ UNCHANGED stage

RootFound ==
  /\ stage = "findRootFs"
  /\ Returned("open")
  /\ Me.status = "Ok"
  /\ \E fd \in Me.held : FS!Close(Main, fd, FALSE)
  /\ UsesFileSystem
  /\ stage' = "openApuBin"

OpenApu ==
  /\ stage = "openApuBin"
  /\ Returned("close") \/ Returned("read")
  /\ FS!Open(Main, ApuFile, TRUE)
  /\ UsesFileSystem
  /\ UNCHANGED stage

ReadApu ==
  /\ stage = "openApuBin"
  /\ Returned("open")
  /\ Me.status = "Ok"
  /\ LET fd == Max(Me.held)
     IN  FS!Read(Main, fd, [offset |-> 0, count |-> Size[nodes[descriptors[fd].node].name]], TRUE)
  /\ UsesFileSystem
  /\ stage' = "readApuBin"

\* Mutant: the binary is opened and read again for each CPU.
BeginCpusRereading ==
  /\ stage = "readApuBin"
  /\ Returned("read")
  /\ stage' = IF Me.calls < 2 + 2 * Len(Cpu) THEN "openApuBin" ELSE "startApus"
  /\ UNCHANGED <<probe, iso, treeVars, pcieVars, controllerVars, cpuVars, phase, answer, failed>>

BeginCpus ==
  /\ stage = "readApuBin"
  /\ Returned("read")
  /\ Me.status = "Ok"
  /\ stage' = "startApus"
  /\ UNCHANGED <<probe, iso, treeVars, pcieVars, controllerVars, cpuVars, phase, answer, failed>>

\* findRootFs and bootApus panic if a call of theirs fails.
CallFailed ==
  /\ stage \in {"findRootFs", "openApuBin", "readApuBin"}
  /\ Me.pc = "idle"
  /\ Me.status \notin {"none", "Ok"}
  /\ failed' = "file system"
  /\ UNCHANGED <<ownVars, treeVars, pcieVars, controllerVars, cpuVars, phase, answer>>

-----------------------------------------------------------------------------
(* bootApus' loop *)

StartCpus ==
  /\ stage = "startApus"
  /\ BootCpuStep
  /\ UNCHANGED <<ownVars, treeVars, pcieVars, controllerVars, phase, answer, failed>>

FailToPrepare ==
  /\ stage = "startApus"
  /\ bootPc = "next"
  /\ turn <= Len(Cpu) /\ Cpu[turn] # BootCpu
  /\ failed' = "no stack"
  /\ UNCHANGED <<ownVars, treeVars, pcieVars, controllerVars, cpuVars, phase, answer>>

\* initPs2Devices follows, which never returns.
EndCpus ==
  /\ stage = "startApus"
  /\ bootPc = "next"
  /\ turn > Len(Cpu)
  /\ stage' = "booted"
  /\ UNCHANGED <<probe, iso, treeVars, pcieVars, controllerVars, cpuVars, phase, answer, failed>>

-----------------------------------------------------------------------------
(* What goes on beside the main flow *)

HardwareStep ==
  /\ ExecuteCommand \/ Interrupt
  /\ UNCHANGED <<ownVars, treeVars, pcieVars, cpuVars>>

OtherCpu(c) ==
  /\ CpuStep(c)
  /\ UNCHANGED <<ownVars, treeVars, pcieVars, controllerVars, phase, answer, failed>>

\* A command for a device whose controller has moved is prepared from what is
\* now where the controller was, which may be still the same.
UseMovedController ==
  /\ asked # <<>>
  /\ phase[Main] = "waiting" /\ trouble = "none"
  /\ \E i \in DOMAIN controllers[asked[1]].devices :
       LET device == controllers[asked[1]].devices[i]
       IN  device.port = asked[2] /\ device.moved
  /\ failed' = "used a controller that has moved"
  /\ UNCHANGED <<ownVars, treeVars, pcieVars, controllerVars, cpuVars, phase, answer>>

Init ==
  /\ PcieInit
  /\ ControllersInit
  /\ CpusInit
  /\ broken = machine.broken
  /\ FS!Init
  /\ stage = "enumerate"
  /\ probe = [controller |-> 1, device |-> 1, sector |-> 1]
  /\ iso = <<>>

MainFlow ==
  \/ EnumerateBuses \/ BeginDrivers \/ StartDrivers
  \/ BeginFileSystems \/ SkipDevice \/ ReadSector \/ SectorRead \/ EndFileSystems
  \/ OpenRoot \/ GoOnWithCall \/ RootFound \/ OpenApu \/ ReadApu \/ BeginCpus \/ CallFailed
  \/ StartCpus \/ EndCpus

Next ==
  /\ failed = "no"
  /\ \/ MainFlow
     \/ FailToMap \/ FailToPrepare \/ UseMovedController
     \/ HardwareStep
     \/ \E c \in Others : OtherCpu(c)

\* The boot CPU and the others run, and the device executes its commands or
\* stops at one.
Fairness ==
  /\ WF_vars(failed = "no" /\ MainFlow)
  /\ WF_vars(failed = "no" /\ HardwareStep)
  /\ \A c \in Others : WF_vars(failed = "no" /\ OtherCpu(c))

Spec == Init /\ [][Next]_vars /\ Fairness

-----------------------------------------------------------------------------
\* The main flow opens every file once, so no node and no descriptor that it
\* uses is destroyed, though calls that did not have to wait uncount their
\* result's pointer twice (async.h:43).  After a call that failed it only panics.
NoNodeDiesInUse == Me.status \in {"none", "Ok"} => FS!NothingDiesInUse

\* Stops that the machine's failures explain: pages or registers cannot be mapped,
\* or the device reports an error.  The kernel then panics, or copies a file that
\* it could not read from address zero (filesystems.cpp:44).
Excused ==
  failed \in {"no configuration page", "driver", "no file system", "file system",
              "no stack", "null_buffer"}

\* The kernel boots, with every CPU online, unless it stops for one of these
\* reasons: nothing that the main flow waits for is lost.  That takes CPUs that
\* can be started, devices at the first ports of their controllers, and that no
\* command stops its port: whoever waits for one that does waits for ever.
CanBoot == broken = {} /\ \A place \in DOMAIN machine.ports : PortsFromZero(place)

Booted == stage = "booted" /\ \A c \in Others : pc[c] = "online"


=============================================================================

----------------------------- MODULE VmLifecycle -----------------------------
(***************************************************************************)
(* One VM under the daemon: the bring-up and shutdown state machine of     *)
(* core/src/state.rs, driven one step per tick by daemon/src/state.rs and  *)
(* commanded through daemon/src/server.rs, with what its steps change on   *)
(* the host (processes, device bindings, hugepages, the Looking Glass shm  *)
(* file, the Tasmota relay, the monitor input), the QEMU processes it      *)
(* starts and the IRQ worker threads of core/src/irq/pin.rs.               *)
(*                                                                         *)
(* The daemon is one thread: a step of the machine is one action, except   *)
(* that qemu::shutdown blocks the thread between SIGTERM and the exit of   *)
(* the process, and that is two.  QEMU, the workers and the operator's     *)
(* commands interleave with it.  A VM the daemon holds no DaemonVm for is  *)
(* treated as one in Idle: both are projected as Stopped, and a start      *)
(* builds a fresh runtime for either.                                      *)
(***************************************************************************)
EXTENDS VfioBinding

CONSTANTS
    Pid,       \* process ids; one is used again once its process is reaped
    None,      \* no process
    Pinnable,  \* the devices whose IRQs the worker has to pin
    Features   \* what the VM's configuration asks for

ASSUME NoneAssumption == None \notin Pid
ASSUME PinnableAssumption == Pinnable \subseteq Device
ASSUME FeaturesAssumption ==
    Features \subseteq {"hugepages", "tasmota", "ddc", "ddc_fatal", "lg"}

VARIABLES
    state,       \* VmStateMachine.state
    desired,     \* DaemonVm.desired
    qemu,        \* VmRuntime.qemu: the process the runtime holds, or None
    proc,        \* each pid: unused, a running QEMU, or an exited, unreaped one
    waiting,     \* the process the daemon is blocked on in child.wait(), or None
    workers,     \* IRQ worker threads, as <<pid watched, phase>>
    irqPinned,   \* VmRuntime.pinned_irqs
    irqComplete, \* VmRuntime.irq_pinning_complete
    hpActive,    \* VmRuntime.hugepages_active
    pool,        \* the node's hugepages: "zero", "partial" or "full" for this VM
    shm,         \* the Looking Glass shm file exists
    relay,       \* the Tasmota relay is powered
    relayOn,     \* VmRuntime.tasmota_powered
    monitor      \* the input the monitor shows: "host" or "vm"

ctlVars  == <<state, desired>>
procVars == <<qemu, proc, waiting>>
irqVars  == <<workers, irqPinned, irqComplete>>
hpVars   == <<hpActive, pool>>
perVars  == <<relay, relayOn, monitor>>
vars == <<vfioVars, ctlVars, procVars, irqVars, hpVars, shm, perVars>>

BringUp == {"Init", "Validate", "PrepareHugepages", "PreparePci",
            "ReserveCpus", "LaunchQemu", "DetectThreads", "PinVcpus",
            "DetectMsi", "PinIrqs", "PeripheralHooks"}
VmState == BringUp \cup {"Steady", "Shutdown", "Cleanup", "Idle"}
IpcVmState == {"Stopped", "Starting", "Running", "ShuttingDown"}

TypeOK ==
    /\ driver \in [Device -> Driver]
    /\ transitions \subseteq Transition
    /\ boot \in [Device -> Driver]
    /\ state \in VmState
    /\ desired \in IpcVmState
    /\ qemu \in Pid \cup {None}
    /\ proc \in [Pid -> {"free", "alive", "zombie"}]
    /\ waiting \in Pid \cup {None}
    /\ workers \subseteq Pid \X {"polling", "pinned"}
    /\ irqPinned \in BOOLEAN
    /\ irqComplete \in BOOLEAN
    /\ hpActive \in BOOLEAN
    /\ pool \in {"zero", "partial", "full"}
    /\ shm \in BOOLEAN
    /\ relay \in BOOLEAN
    /\ relayOn \in BOOLEAN
    /\ monitor \in {"host", "vm"}

Init ==
    /\ VfioInit
    /\ state = "Idle" /\ desired = "Stopped"
    /\ qemu = None /\ waiting = None
    /\ proc = [p \in Pid |-> "free"]
    /\ workers = {} /\ irqPinned = FALSE /\ irqComplete = FALSE
    /\ hpActive = FALSE /\ pool = "zero"
    /\ shm = FALSE
    /\ relay = FALSE /\ relayOn = FALSE /\ monitor = "host"

-----------------------------------------------------------------------------
(* Commands (handle_vm_command); the daemon reads them between its steps.  *)

\* Mutant: a start after a failure begins afresh.
NeedNewAfterFailure == state = "Idle" \/ desired = "Stopped"

\* need_new: only an Idle machine is replaced.
NeedNew == state = "Idle"

\* "start" and "restart": a fresh runtime if one is needed, and in every state
\* the same new desire.
Start ==
    /\ waiting = None
    /\ desired' = "Starting"
    /\ IF NeedNew
         THEN /\ state' = "Init"
              /\ transitions' = {}
              /\ qemu' = None
              /\ irqPinned' = FALSE /\ irqComplete' = FALSE
              /\ hpActive' = FALSE
              /\ relayOn' = FALSE
         ELSE UNCHANGED <<state, transitions, qemu, irqPinned, irqComplete,
                          hpActive, relayOn>>
    /\ UNCHANGED <<driver, boot, proc, waiting, workers, pool, shm, relay, monitor>>

\* "stop" of a VM the daemon holds.
Stop ==
    /\ waiting = None
    /\ desired' = "ShuttingDown"
    /\ UNCHANGED <<vfioVars, state, procVars, irqVars, hpVars, shm, perVars>>

-----------------------------------------------------------------------------
(* Bring-up: drive_vm_towards_desired calls step() while the VM is desired *)
(* up.  A step that returns Err leaves the machine where it is and turns   *)
(* the desire to Stopped.                                                  *)

DrivesUp(s) ==
    /\ waiting = None
    /\ desired \in {"Starting", "Running"}
    /\ state = s

Advance(next) == state' = next /\ UNCHANGED desired

\* Mutant: a failed step leaves the desire as it was.
StepFailsRetried == UNCHANGED <<state, desired>>

StepFails == desired' = "Stopped" /\ UNCHANGED state

\* A step with no effect but its outcome: it fails only if `broken` may.
GatedStep(s, next, broken) ==
    /\ DrivesUp(s)
    /\ \/ Advance(next)
       \/ broken /\ StepFails
    /\ UNCHANGED <<vfioVars, procVars, irqVars, hpVars, shm, perVars>>

StepInit == GatedStep("Init", "Validate", FALSE)

\* Preflights, GPU policy and CPU plan; all of them only read.
StepValidate == GatedStep("Validate", "PrepareHugepages", "validate" \in Faults)

\* Mutant: the free pages are not read back after the raise.
ProvisionedUnread ==
    IF "hugepages" \in Features
      THEN hpActive' = TRUE /\ pool' \in {"partial", "full"}
      ELSE hpActive' = FALSE /\ UNCHANGED pool

\* provision_for_vm returns Ok: the free pages suffice, now or after a raise.
Provisioned ==
    IF "hugepages" \in Features
      THEN hpActive' = TRUE /\ pool' = "full"
      ELSE hpActive' = FALSE /\ UNCHANGED pool

\* It returns Err, the raise having brought too few pages or none, or a live
\* QEMU holding them.
ProvisioningFails ==
    /\ "hugepages" \in Features
    /\ "hugepages" \in Faults \/ \E p \in Pid : proc[p] = "alive"
    /\ pool' \in {pool, IF pool = "zero" THEN "partial" ELSE pool}
    /\ UNCHANGED hpActive

StepPrepareHugepages ==
    /\ DrivesUp("PrepareHugepages")
    /\ \/ Provisioned /\ Advance("PreparePci")
       \/ ProvisioningFails /\ StepFails
    /\ UNCHANGED <<vfioVars, procVars, irqVars, shm, perVars>>

StepPreparePci ==
    /\ DrivesUp("PreparePci")
    /\ \/ StageSucceeds /\ Advance("ReserveCpus")
       \/ StageFails /\ StepFails
    /\ UNCHANGED <<procVars, irqVars, hpVars, shm, perVars>>

\* cpuset::create_cpuset; the cgroups are external to this model.
StepReserveCpus == GatedStep("ReserveCpus", "LaunchQemu", "cpuset" \in Faults)

\* prepare_looking_glass_shm
LgFile == shm \/ "lg" \in Features

\* qemu::launch: the shm file, then the spawn, then the move into the cpuset.
\* The handle is recorded last, so a failed move leaves the child running.
StepLaunchQemu ==
    /\ DrivesUp("LaunchQemu")
    /\ \/ /\ "spawn" \in Faults \/ \A p \in Pid : proc[p] # "free"
          /\ StepFails
          /\ shm' \in {shm, LgFile}
          /\ UNCHANGED <<qemu, proc>>
       \/ \E p \in Pid :
          /\ proc[p] = "free"
          /\ proc' = [proc EXCEPT ![p] = "alive"]
          /\ shm' = LgFile
          /\ \/ Advance("DetectThreads") /\ qemu' = p
             \/ "cgroup" \in Faults /\ StepFails /\ UNCHANGED qemu
    /\ UNCHANGED <<vfioVars, waiting, irqVars, hpVars, perVars>>

\* affinity: the vCPU threads are read from /proc/<pid>/task, so only a live
\* QEMU has them, and without a handle both steps fail.
VcpusVisible == qemu # None /\ proc[qemu] = "alive"

ThreadStep(s, next, broken) ==
    /\ DrivesUp(s)
    /\ \/ VcpusVisible /\ Advance(next)
       \/ (broken \/ ~VcpusVisible) /\ StepFails
    /\ UNCHANGED <<vfioVars, procVars, irqVars, hpVars, shm, perVars>>

StepDetectThreads == ThreadStep("DetectThreads", "PinVcpus", "threads" \in Faults)
StepPinVcpus == ThreadStep("PinVcpus", "DetectMsi", "pin" \in Faults)

\* irq::spawn_irq_pin_worker, which the step does not wait for.
StepDetectMsi ==
    /\ DrivesUp("DetectMsi")
    /\ Advance("PinIrqs")
    /\ workers' = IF qemu # None /\ Pinnable # {}
                    THEN workers \cup {<<qemu, "polling">>}
                    ELSE workers
    /\ UNCHANGED <<vfioVars, procVars, irqPinned, irqComplete, hpVars, shm, perVars>>

StepPinIrqs ==
    /\ DrivesUp("PinIrqs")
    /\ Advance("PeripheralHooks")
    /\ irqPinned' = TRUE
    /\ UNCHANGED <<vfioVars, procVars, workers, irqComplete, hpVars, shm, perVars>>

\* Mutant: the flag follows the request.
PublishPowerAssumed(on) ==
    IF "tasmota" \in Features
      THEN \/ relay' = on /\ relayOn' = on
           \/ /\ "mqtt" \in Faults
              /\ relay' \in {relay, on}
              /\ relayOn' = on
      ELSE UNCHANGED <<relay, relayOn>>

\* TasmotaHook: the publish, and the flag that follows its result.  A publish
\* that fails may still have switched the relay.  Never an Err.
PublishPower(on) ==
    IF "tasmota" \in Features
      THEN \/ relay' = on /\ relayOn' = on
           \/ /\ "mqtt" \in Faults
              /\ relay' \in {relay, on}
              /\ relayOn' = FALSE
      ELSE UNCHANGED <<relay, relayOn>>

\* DdcHook.set_input: a write that fails may still have switched the input.
SetInput(input, ok) ==
    IF "ddc" \in Features
      THEN \/ ok /\ monitor' = input
           \/ /\ "i2c" \in Faults
              /\ ok = ("ddc_fatal" \notin Features)
              /\ monitor' \in {monitor, input}
      ELSE ok /\ UNCHANGED monitor

\* Mutant: the gate is forgotten.
DdcNotGated == TRUE

\* The gate of the DDC hook.  Nothing in the code ever sets the flag, so the switch
\* is left to the worker.
DdcGate == irqComplete

\* apply_vm_up
StepPeripheralHooks ==
    /\ DrivesUp("PeripheralHooks")
    /\ PublishPower(TRUE)
    /\ IF DdcGate
         THEN \/ SetInput("vm", TRUE) /\ Advance("Steady")
              \/ SetInput("vm", FALSE) /\ StepFails
         ELSE UNCHANGED monitor /\ Advance("Steady")
    /\ UNCHANGED <<vfioVars, procVars, irqVars, hpVars, shm>>

\* Mutant: the desire takes the machine's state for its own.
DriveSteadyConfused ==
    /\ DrivesUp("Steady")
    /\ desired = "Starting"
    /\ desired' = state
    /\ UNCHANGED <<vfioVars, state, procVars, irqVars, hpVars, shm, perVars>>

\* In Steady the desire becomes Running, whatever the handle says.
DriveSteady ==
    /\ DrivesUp("Steady")
    /\ desired = "Starting"
    /\ desired' = "Running"
    /\ UNCHANGED <<vfioVars, state, procVars, irqVars, hpVars, shm, perVars>>

-----------------------------------------------------------------------------
(* Shutdown: step_shutdown, one step per tick while the VM is desired down.*)

DrivesDown(S) ==
    /\ waiting = None
    /\ desired \in {"Stopped", "ShuttingDown"}
    /\ state \in S

\* Mutant: only the states step_shutdown names, without its last arm.
TerminableNamed == {"Steady", "PinIrqs", "PeripheralHooks"}

\* The states in which step_shutdown terminates QEMU, if there is one.
Terminable == BringUp \cup {"Steady"}

\* Mutant: SIGTERM without the wait.
BeginTerminateNoWait ==
    /\ DrivesDown(Terminable)
    /\ qemu' = None
    /\ state' = "Shutdown"
    /\ UNCHANGED <<vfioVars, desired, waiting, proc, irqVars, hpVars, shm, perVars>>

\* qemu::shutdown up to child.wait().  It takes the handle first, so a failed
\* kill loses it, and the daemon stays blocked until the process exits.
BeginTerminate ==
    /\ DrivesDown(Terminable)
    /\ qemu' = None
    /\ IF qemu = None
         THEN state' = "Shutdown" /\ UNCHANGED waiting
         ELSE \/ waiting' = qemu /\ UNCHANGED state
              \/ "sigterm" \in Faults /\ UNCHANGED <<waiting, state>>
    /\ UNCHANGED <<vfioVars, desired, proc, irqVars, hpVars, shm, perVars>>

\* child.wait() returns, the shm file is removed, the step completes.
FinishTerminate ==
    /\ waiting # None
    /\ proc[waiting] = "zombie"
    /\ proc' = [proc EXCEPT ![waiting] = "free"]
    /\ waiting' = None
    /\ state' = "Shutdown"
    /\ shm' = (shm /\ "lg" \notin Features)
    /\ UNCHANGED <<vfioVars, desired, qemu, irqVars, hpVars, perVars>>

\* Mutant: the handle is dropped and no shutdown asked for.
DetectGuestExitOnly ==
    /\ waiting = None
    /\ state = "Steady"
    /\ qemu # None
    /\ proc[qemu] = "zombie"
    /\ proc' = [proc EXCEPT ![qemu] = "free"]
    /\ qemu' = None
    /\ UNCHANGED <<vfioVars, ctlVars, waiting, irqVars, hpVars, shm, perVars>>

\* build_snapshot: in Steady, try_wait sees that QEMU exited; the handle is
\* dropped and the same tick's step_shutdown has nothing left to terminate.
DetectGuestExit ==
    /\ waiting = None
    /\ state = "Steady"
    /\ qemu # None
    /\ proc[qemu] = "zombie"
    /\ proc' = [proc EXCEPT ![qemu] = "free"]
    /\ qemu' = None
    /\ desired' = "Stopped"
    /\ state' = "Shutdown"
    /\ UNCHANGED <<vfioVars, waiting, irqVars, hpVars, shm, perVars>>

\* hugepages::cleanup_for_vm, best effort.
ReleaseHugepages ==
    /\ hpActive' = FALSE
    /\ \/ pool' = IF hpActive THEN "zero" ELSE pool
       \/ "hpwrite" \in Faults /\ UNCHANGED pool

\* The Shutdown step; only a fatal DDC error, its last effect, fails it.
StepTeardown ==
    /\ DrivesDown({"Shutdown"})
    /\ Restore
    /\ ReleaseHugepages
    /\ PublishPower(FALSE)
    /\ \/ SetInput("host", TRUE) /\ state' = "Cleanup"
       \/ SetInput("host", FALSE) /\ UNCHANGED state
    /\ UNCHANGED <<desired, procVars, irqVars, shm>>

StepCleanup ==
    /\ DrivesDown({"Cleanup"})
    /\ state' = "Idle"
    /\ UNCHANGED <<vfioVars, desired, procVars, irqVars, hpVars, shm, perVars>>

-----------------------------------------------------------------------------
(* The QEMU processes and the IRQ workers.                                 *)

\* QEMU exits: the guest powered off, it crashed, or SIGTERM reached it.
QemuExit(p) ==
    /\ proc[p] = "alive"
    /\ proc' = [proc EXCEPT ![p] = "zombie"]
    /\ UNCHANGED <<vfioVars, ctlVars, qemu, waiting, irqVars, hpVars, shm, perVars>>

\* irq_worker has found and pinned the IRQs of the last device left: they
\* exist while a QEMU, the worker's own or a later one, drives the device.
WorkerPins(p) ==
    /\ <<p, "polling">> \in workers
    /\ proc[p] # "free"
    /\ \E q \in Pid : proc[q] = "alive"
    /\ workers' = (workers \ {<<p, "polling">>}) \cup {<<p, "pinned">>}
    /\ UNCHANGED <<vfioVars, ctlVars, procVars, irqPinned, irqComplete, hpVars,
                   shm, perVars>>

\* Mutant: the worker gives up only on a process that has exited unreaped.
WorkerAbortsOnZombie(p) ==
    /\ <<p, "polling">> \in workers
    /\ proc[p] = "zombie"
    /\ workers' = workers \ {<<p, "polling">>}
    /\ UNCHANGED <<vfioVars, ctlVars, procVars, irqPinned, irqComplete, hpVars,
                   shm, perVars>>

\* /proc/<pid> is gone, which it is not before the process is reaped.
WorkerAborts(p) ==
    /\ <<p, "polling">> \in workers
    /\ proc[p] = "free"
    /\ workers' = workers \ {<<p, "polling">>}
    /\ UNCHANGED <<vfioVars, ctlVars, procVars, irqPinned, irqComplete, hpVars,
                   shm, perVars>>

\* After the last device the worker switches the monitor and ends, whatever
\* has become of QEMU since.
WorkerFinishes(p) ==
    /\ <<p, "pinned">> \in workers
    /\ workers' = workers \ {<<p, "pinned">>}
    /\ \E ok \in BOOLEAN : SetInput("vm", ok)
    /\ UNCHANGED <<vfioVars, ctlVars, procVars, irqPinned, irqComplete, hpVars,
                   shm, relay, relayOn>>

-----------------------------------------------------------------------------
DaemonStep ==
    \/ StepInit
    \/ StepValidate
    \/ StepPrepareHugepages
    \/ StepPreparePci
    \/ StepReserveCpus
    \/ StepLaunchQemu
    \/ StepDetectThreads
    \/ StepPinVcpus
    \/ StepDetectMsi
    \/ StepPinIrqs
    \/ StepPeripheralHooks
    \/ DriveSteady
    \/ BeginTerminate
    \/ StepTeardown
    \/ StepCleanup

WorkerStep(p) == WorkerPins(p) \/ WorkerAborts(p) \/ WorkerFinishes(p)

Next ==
    \/ Start
    \/ Stop
    \/ DaemonStep
    \/ DetectGuestExit
    \/ FinishTerminate
    \/ \E p \in Pid : QemuExit(p) \/ WorkerStep(p)

\* The daemon ticks forever and polls QEMU on every tick in Steady, a QEMU that
\* was sent SIGTERM exits, and the worker threads are scheduled.  Nobody has to
\* give a command, no guest has to exit by itself, no guest has to enable IRQs.
Fairness ==
    /\ WF_vars(DaemonStep)
    /\ WF_vars(DetectGuestExit)
    /\ WF_vars(FinishTerminate)
    /\ \A p \in Pid :
          /\ WF_vars(waiting = p /\ QemuExit(p))
          /\ WF_vars(WorkerAborts(p))
          /\ WF_vars(WorkerFinishes(p))

Spec == Init /\ [][Next]_vars
FairSpec == Spec /\ Fairness

-----------------------------------------------------------------------------
(* Safety.                                                                 *)

Launched == {"DetectThreads", "PinVcpus", "DetectMsi", "PinIrqs",
             "PeripheralHooks", "Steady"}
Down == {"Cleanup", "Idle"}

\* While a QEMU runs, orphans of a failed launch included, every passthrough
\* device is on vfio-pci: no retry and no teardown takes one from under it.
QemuOnVfio ==
    \A p \in Pid : proc[p] = "alive" => \A d \in Device : driver[d] = "vfio"

\* The records the restore works from are true of the host as the daemon found
\* it, and what it is not to touch it has not touched: a device dedicated to
\* vfio-pci has no record and stays there, and a display controller keeps the
\* driver it had.
RecordsTruthful ==
    /\ \A t \in transitions :
          /\ t.from = "host" => boot[t.dev] = "host"
          /\ boot[t.dev] # "vfio"
    /\ \A d \in Device : d \in Display \/ boot[d] = "vfio" => driver[d] = boot[d]

\* A QEMU the daemon holds, or waits for, has the hugepages provisioned for it.
HugepagesHeld ==
    \A p \in {qemu, waiting} \ {None} :
        "hugepages" \in Features /\ proc[p] = "alive" => hpActive /\ pool = "full"

\* The relay the TUI shows as powered is powered, failed publishes included.
TasmotaTruthful == relayOn => relay

\* The monitor goes over to the VM only when a worker has pinned the IRQs of every
\* eligible device, whichever of the two hooks switches it.
SwitchAfterIrqs ==
    [][monitor = "host" /\ monitor' = "vm" =>
          \E p \in Pid : <<p, "pinned">> \in workers]_vars

\* Every process is the one the runtime holds or the one the daemon waits for:
\* no restart, failed step or retry leaves a QEMU, running or unreaped, behind.
SingleTrackedQemu ==
    \A p \in Pid : proc[p] # "free" => p = qemu \/ p = waiting

\* The runtime holds a process exactly from its launch to its termination.
HandleMatchesPhase ==
    /\ qemu # None => /\ state \in Launched
                      /\ waiting = None
                      /\ proc[qemu] # "free"
    /\ waiting # None => state \in Launched /\ proc[waiting] # "free"
    /\ state \in Launched => qemu # None \/ waiting # None

\* Past the Shutdown step nothing of the VM is left with the daemon.
TeardownComplete ==
    state \in Down =>
        /\ \A p \in Pid : proc[p] = "free"
        /\ ~hpActive
        /\ ~relayOn

\* Where the host refuses no write, the steps that fail and are retried or
\* abandoned leave it clean: no hugepages, no powered relay, and no device without
\* a driver that had one, binds that take no device included.
HostBaseline ==
    state \in Down =>
        /\ pool = "zero"
        /\ ~relay
        /\ \A d \in Device : boot[d] # "none" => driver[d] # "none"

-----------------------------------------------------------------------------
(* What the projection promises.                                           *)

PreLaunch == {"Init", "Validate", "PrepareHugepages", "PreparePci",
              "ReserveCpus", "LaunchQemu"}

\* daemon/src/state.rs, map_vm_state_to_ipc
View == CASE state \in BringUp               -> "Starting"
          [] state = "Steady"                -> "Running"
          [] state \in {"Shutdown", "Cleanup"} -> "ShuttingDown"
          [] state = "Idle"                  -> "Stopped"

Guest == IF \E p \in Pid : proc[p] = "alive" THEN "live"
         ELSE IF state \in PreLaunch \cup {"Idle"} THEN "absent"
         ELSE "gone"

Abs == INSTANCE AbstractVm WITH view <- View, guest <- Guest

\* The lifecycle implements the abstract VM: through every failure, retry and
\* exit, one guest per start, and none left when the VM is shown going down.
ImplementsAbstractVm == Abs!Spec

-----------------------------------------------------------------------------
(* Liveness, under FairSpec.                                               *)

GoingDown == desired \in {"Stopped", "ShuttingDown"}

\* A VM desired down reaches Idle, from every state and through every failure,
\* unless it is started again on the way.
DownLeadsToIdle == GoingDown ~> (state = "Idle" \/ desired = "Starting")

\* A start that finds the machine on the way up ends: in Steady, in the
\* failure of a step, or in a stop.
BringUpSettles ==
    (state \in BringUp /\ desired = "Starting") ~> (state = "Steady" \/ GoingDown)

\* When no more start is given, a QEMU that exits is noticed and reaped,
\* whatever phase it exits in.
ExitIsNoticed ==
    <>[][~Start]_vars =>
        \A p \in Pid : (qemu = p /\ proc[p] = "zombie") ~> (proc[p] = "free")

\* An IRQ worker does not outlive a VM that stays down.
WorkersEndWithVm == (state = "Idle") ~> (state # "Idle" \/ workers = {})

-----------------------------------------------------------------------------
(* What the code says of itself and does not do (see README.md).           *)

\* daemon/src/state.rs:411: a VM that is started while it is on the shutdown
\* path has nothing to do "until the state machine returns to Idle".
ShutdownPathReachesIdle == state \in {"Shutdown", "Cleanup"} ~> state = "Idle"

\* core/src/state.rs:377: Idle is "VM shutdown sequence completed".
IdleMeansNoQemu == state = "Idle" => \A p \in Pid : proc[p] # "alive"

\* core/src/vfio/mod.rs:7: "finally restoring original driver bindings during
\* shutdown"
BindingsRestored == state = "Idle" => driver = boot

=============================================================================

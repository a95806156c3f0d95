----------------------------- MODULE CpuPlacement -----------------------------
(***************************************************************************)
(* Where the vCPUs and the interrupts of several VMs run: the CPU plan     *)
(* made at Validate (core/src/cpuplan, core/src/cpu/detect), the cgroups   *)
(* vfio_vm and vfio_host, which all VMs share (core/src/cpuset/mod.rs),    *)
(* the pinning of vCPU threads (core/src/affinity.rs) and the worker       *)
(* thread that pins interrupts as the guest enables them                   *)
(* (core/src/irq/pin.rs).  CPUs go offline and come back meanwhile.        *)
(*                                                                         *)
(* VmLifecycle has the whole lifecycle of one VM, the failures of single   *)
(* steps and several workers of one VM; here a bring-up is its CPU steps,  *)
(* which the daemon takes one at a time, and a VM starts again only after  *)
(* its worker has ended.  The kernel's scheduler and cpusets are external. *)
(***************************************************************************)
EXTENDS Integers, Sequences, FiniteSets

CONSTANTS
    Vm, Cpu, Node,
    NodeOf,    \* the NUMA node of each CPU
    Layouts,   \* the CPU configurations: of each VM [vm, host, vcpus]
    Device,
    DevicesOf, \* the devices of each VM
    DevNode,   \* numa_node of each, -1 if it has none
    Gpus,      \* those listed under devices.gpu
    Slot, Func, \* the PCI slot and function number of each
    MaxVector, \* bound: interrupt vectors of a device
    MaxEvents  \* bound: CPUs going offline or coming back

ASSUME NodeAssumption == NodeOf \in [Cpu -> Node] /\ Node \subseteq Nat /\ 0 \in Node
ASSUME LayoutAssumption ==
    Layouts \subseteq [Vm -> [vm : Seq(Cpu), host : SUBSET Cpu, vcpus : Nat]]
\* No device is listed by two VMs.
ASSUME DeviceAssumption ==
    /\ DevicesOf \in [Vm -> SUBSET Device] /\ DevNode \in [Device -> Node \union {-1}]
    /\ \A v, w \in Vm : v # w => DevicesOf[v] \intersect DevicesOf[w] = {}
    /\ Gpus \subseteq Device /\ DOMAIN Slot = Device /\ Func \in [Device -> 0..7]
ASSUME BoundAssumption == MaxVector \in Nat /\ MaxEvents \in Nat

VARIABLES
    layout, \* the configuration, chosen once: vm_cpus in order, host_cpus, num_vcpus
    numa,   \* the host has NUMA nodes in sysfs, chosen once
    known,  \* CPUID yields an identity (it matters only with nodes), chosen once
    online, \* the CPUs that are online
    stage,  \* how far each VM is
    plan,   \* VmRuntime.cpu_plan
    group,  \* the files vfio_vm/cpuset.{cpus,mems}, vfio_host/cpuset.{cpus,mems}
    pins,   \* the vCPUs of each VM that are pinned
    worker, \* the IRQ worker of each VM: "none", "spawned", "polling" or "ended"
    work,   \* its target CPUs for each device it looks after
    done,   \* the devices it has pinned
    vectors,\* how many interrupts the guest has enabled on each device
    switched, \* the worker has switched the monitor to the VM
    events

hostVars == <<layout, numa, known>>
irqVars == <<worker, work, done, vectors, switched>>
cpVars == <<hostVars, online, stage, plan, group, pins, irqVars, events>>

Set(s) == {s[i] : i \in DOMAIN s}
VmCpus(v) == Set(layout[v].vm)
HostCpus(v) == layout[v].host
VcpuCpu(v, i) == layout[v].vm[i]

NoPlan == [cpus |-> {}, nodes |-> {}, spans |-> FALSE, dominant |-> {}]

Stages == {"idle", "validated", "reserved", "launched", "pinned", "running",
           "invalid", "unplaceable", "unwritten", "unpinnable"}

PlacementTypeOK ==
    /\ online \subseteq Cpu /\ stage \in [Vm -> Stages]
    /\ plan \in [Vm -> [cpus : SUBSET Cpu, nodes : SUBSET Node, spans : BOOLEAN,
                        dominant : SUBSET Node]]
    /\ group \in [1..4 -> SUBSET (Cpu \union Node)]
    /\ pins \in [Vm -> SUBSET Nat]
    /\ worker \in [Vm -> {"none", "spawned", "polling", "ended"}]
    /\ \A v \in Vm : /\ work[v] \in [DOMAIN work[v] -> (SUBSET VmCpus(v)) \ {{}}]
                     /\ DOMAIN work[v] \subseteq DevicesOf[v] /\ done[v] \subseteq DOMAIN work[v]
    /\ vectors \in [Device -> 0..MaxVector]
    /\ switched \in [Vm -> BOOLEAN] /\ events \in 0..MaxEvents

PlacementInit ==
    /\ layout \in Layouts /\ numa \in BOOLEAN /\ known \in BOOLEAN /\ (known => numa)
    /\ online = Cpu
    /\ stage = [v \in Vm |-> "idle"] /\ plan = [v \in Vm |-> NoPlan]
    /\ group = [i \in 1..4 |-> {}]
    /\ pins = [v \in Vm |-> {}]
    /\ worker = [v \in Vm |-> "none"] /\ work = [v \in Vm |-> << >>] /\ done = [v \in Vm |-> {}]
    /\ vectors = [d \in Device |-> 0] /\ switched = [v \in Vm |-> FALSE]
    /\ events = 0

Goes(v, s) == stage' = [stage EXCEPT ![v] = s]

-----------------------------------------------------------------------------
(* The host's topology, from sysfs; a node lists its CPUs that are online. *)

NodeCpus(n) == {c \in online : NodeOf[c] = n}

\* discover_numa_topology: without nodes, node 0 has every CPU that is online.
\* nodes_for_cpus.
NodesFor(cpus) ==
    IF numa THEN {n \in Node : NodeCpus(n) \intersect cpus # {}}
    ELSE {n \in {0} : online \intersect cpus # {}}

\* build_cpu_plan.  HostNumaTopology::from_sysfs leaves out nodes without CPUs and
\* has the nodes in the order of the directory: the dominant one is any of these.
BuildPlan(v) ==
    LET On(n) == NodeCpus(n) \intersect VmCpus(v)
        nodes == {n \in Node : On(n) # {}}
    IN [cpus |-> online, nodes |-> nodes, spans |-> Cardinality(nodes) > 1,
        dominant |-> {n \in nodes : \A m \in nodes : Cardinality(On(m)) <= Cardinality(On(n))}]

\* A plan needs an identity and nodes.
Plannable == known

\* Mutant: only the guest's CPUs are looked up.
ValidCpuPlanVm(v) == VmCpus(v) \subseteq online

\* validate_cpu_plan: every CPU of the layout is on a node.
ValidCpuPlan(v) == VmCpus(v) \union HostCpus(v) \subseteq online

\* VmState::Validate, its CPU part: without a plan there is nothing to validate.
Validate(v) ==
    /\ stage[v] = "idle" /\ worker[v] \in {"none", "ended"}
    /\ IF ~ Plannable THEN Goes(v, "validated") /\ UNCHANGED plan
       ELSE IF ValidCpuPlan(v)
         THEN Goes(v, "validated") /\ plan' = [plan EXCEPT ![v] = BuildPlan(v)]
         ELSE Goes(v, "invalid") /\ UNCHANGED plan
    /\ worker' = [worker EXCEPT ![v] = "none"]
    /\ UNCHANGED <<hostVars, online, group, pins, work, done, vectors, switched, events>>

-----------------------------------------------------------------------------
(* create_cpuset                                                           *)

Files(v) == <<VmCpus(v), NodesFor(VmCpus(v)), HostCpus(v), NodesFor(HostCpus(v))>>

\* None of the lists is empty, and some CPU of each is on a node.
Placeable(v) == \A i \in 1..4 : Files(v)[i] # {}

\* Four writes, one after the other: the first that fails is the last.  The cgroups
\* are the same for every VM, and nothing is moved into vfio_host.
ReserveCpus(v) ==
    /\ stage[v] = "validated"
    /\ IF ~ Placeable(v) THEN Goes(v, "unplaceable") /\ UNCHANGED group
       ELSE \E k \in 0..4 :
              /\ group' = [i \in 1..4 |-> IF i <= k THEN Files(v)[i] ELSE group[i]]
              /\ Goes(v, IF k = 4 THEN "reserved" ELSE "unwritten")
    /\ UNCHANGED <<hostVars, online, plan, pins, irqVars, events>>

\* The CPUs the kernel lets the members of vfio_vm run on: those of the file that
\* are online, or all if there is none.
Allowed ==
    IF group[1] \intersect online = {} THEN online ELSE group[1] \intersect online

\* The CPUs vCPU i may run on: its own if it is pinned and that is allowed.
RunsOn(v, i) ==
    IF i \in pins[v] /\ VcpuCpu(v, i) \in Allowed THEN {VcpuCpu(v, i)} ELSE Allowed

\* qemu::launch moves QEMU into vfio_vm.
Launch(v) ==
    /\ stage[v] = "reserved"
    /\ Goes(v, "launched")
    /\ UNCHANGED <<hostVars, online, plan, group, pins, irqVars, events>>

\* sched_setaffinity refuses a CPU that the cpuset does not allow.
Pinnable(v, i) == VcpuCpu(v, i) \in Allowed

\* Mutant: with too few CPUs the vCPUs beyond them are skipped.
PinVcpusShort(v) ==
    /\ stage[v] = "launched"
    /\ LET vcpus == (1..layout[v].vcpus) \intersect DOMAIN layout[v].vm IN
       IF \A i \in vcpus : Pinnable(v, i)
         THEN Goes(v, "pinned") /\ pins' = [pins EXCEPT ![v] = vcpus]
         ELSE Goes(v, "unpinnable") /\ UNCHANGED pins
    /\ UNCHANGED <<hostVars, online, plan, group, irqVars, events>>

\* pin_vcpus: too few CPUs is an error before any thread is pinned, a thread that
\* cannot be pinned one after those that a hash map happens to list before it.
PinVcpus(v) ==
    /\ stage[v] = "launched"
    /\ LET vcpus == 1..layout[v].vcpus IN
       IF Len(layout[v].vm) < layout[v].vcpus
         THEN Goes(v, "unpinnable") /\ UNCHANGED pins
       ELSE IF \A i \in vcpus : Pinnable(v, i)
         THEN Goes(v, "pinned") /\ pins' = [pins EXCEPT ![v] = vcpus]
         ELSE \E S \in SUBSET {i \in vcpus : Pinnable(v, i)} :
                Goes(v, "unpinnable") /\ pins' = [pins EXCEPT ![v] = S]
    /\ UNCHANGED <<hostVars, online, plan, group, irqVars, events>>

-----------------------------------------------------------------------------
(* The IRQ worker.                                                         *)

\* is_aux_gpu_function: a further function of a slot with several GPU functions, one
\* of them function 0.
AuxGpu(v, d) ==
    LET functions == {g \in DevicesOf[v] \intersect Gpus : Slot[g] = Slot[d]}
    IN Func[d] # 0 /\ Cardinality(functions) > 1 /\ \E g \in functions : Func[g] = 0

Kin(d) == IF numa THEN DevNode[d] ELSE -1

\* Mutant: the device's node is not looked at.
TargetsAnywhere(v, d) == VmCpus(v)

\* target_cpus_for_device: {} stands for the error that there is none.
Targets(v, d) == IF Kin(d) >= 0 THEN VmCpus(v) \intersect NodeCpus(Kin(d)) ELSE VmCpus(v)

\* Mutant: a device on a node without CPUs of the VM is looked after too.
EligibleAnywhere(v) == {d \in DevicesOf[v] : ~ AuxGpu(v, d)}

Eligible(v) == {d \in DevicesOf[v] : ~ AuxGpu(v, d) /\ Targets(v, d) # {}}

\* spawn_irq_pin_worker: without devices there is no thread.
PinIrqs(v) ==
    /\ stage[v] = "pinned"
    /\ Goes(v, "running")
    /\ worker' = [worker EXCEPT ![v] = IF DevicesOf[v] = {} THEN "none" ELSE "spawned"]
    /\ UNCHANGED <<hostVars, online, plan, group, pins, work, done, vectors, switched, events>>

\* The thread computes its targets once; with no eligible device it is over, and
\* the monitor stays with the host.
WorkerStarts(v) ==
    /\ worker[v] = "spawned"
    /\ work' = [work EXCEPT ![v] = [d \in Eligible(v) |-> Targets(v, d)]]
    /\ done' = [done EXCEPT ![v] = {}]
    /\ worker' = [worker EXCEPT ![v] = IF Eligible(v) = {} THEN "ended" ELSE "polling"]
    /\ UNCHANGED <<hostVars, online, stage, plan, group, pins, vectors, switched, events>>

\* Mutant: a device without interrupts is waited for before the next is looked at.
WorkerPinsInTurn(v, d) ==
    /\ worker[v] = "polling" /\ vectors[d] > 0
    /\ \A e \in DOMAIN work[v] \ done[v] : d <= e
    /\ d \in DOMAIN work[v] \ done[v]
    /\ done' = [done EXCEPT ![v] = @ \union {d}]
    /\ UNCHANGED <<hostVars, online, stage, plan, group, pins, worker, work, vectors,
                   switched, events>>

\* A device that has interrupts is pinned, those it has now, and not looked at again:
\* a write of an affinity that fails is only logged.
WorkerPins(v, d) ==
    /\ worker[v] = "polling" /\ vectors[d] > 0
    /\ d \in DOMAIN work[v] \ done[v]
    /\ done' = [done EXCEPT ![v] = @ \union {d}]
    /\ UNCHANGED <<hostVars, online, stage, plan, group, pins, worker, work, vectors,
                   switched, events>>

\* Mutant: one device is enough.
AllDoneFirst(v) == done[v] # {}

AllDone(v) == done[v] = DOMAIN work[v]

\* After the last device the worker switches the monitor to the VM.
WorkerFinishes(v) ==
    /\ worker[v] = "polling" /\ AllDone(v)
    /\ worker' = [worker EXCEPT ![v] = "ended"]
    /\ switched' = [switched EXCEPT ![v] = TRUE]
    /\ UNCHANGED <<hostVars, online, stage, plan, group, pins, work, done, vectors, events>>

\* Mutant: the process is looked for only until the first device is pinned.
WorkerAbortsEarly(v) ==
    /\ worker[v] = "polling" /\ done[v] = {} /\ DOMAIN work[v] # {} /\ stage[v] = "idle"
    /\ worker' = [worker EXCEPT ![v] = "ended"]
    /\ UNCHANGED <<hostVars, online, stage, plan, group, pins, work, done, vectors, switched,
                   events>>

\* The QEMU is gone.
WorkerAborts(v) ==
    /\ worker[v] = "polling" /\ ~ AllDone(v) /\ stage[v] = "idle"
    /\ worker' = [worker EXCEPT ![v] = "ended"]
    /\ UNCHANGED <<hostVars, online, stage, plan, group, pins, work, done, vectors, switched,
                   events>>

-----------------------------------------------------------------------------
(* The end of a VM, its guest, and the host.                               *)

\* Mutant: the teardown gives the CPUs of vfio_vm back.
DownResets(v) ==
    /\ stage[v] # "idle"
    /\ Goes(v, "idle")
    /\ group' = [group EXCEPT ![1] = HostCpus(v)]
    /\ plan' = [plan EXCEPT ![v] = NoPlan]
    /\ pins' = [pins EXCEPT ![v] = {}]
    /\ vectors' = [d \in Device |-> IF d \in DevicesOf[v] THEN 0 ELSE vectors[d]]
    /\ switched' = [switched EXCEPT ![v] = FALSE]
    /\ UNCHANGED <<hostVars, online, worker, work, done, events>>

\* A VM that runs, or that failed, is shut down: its threads and interrupts go
\* with it, the cgroups stay as they are (destroy_cpuset does nothing).
Down(v) ==
    /\ stage[v] # "idle"
    /\ Goes(v, "idle")
    /\ plan' = [plan EXCEPT ![v] = NoPlan]
    /\ pins' = [pins EXCEPT ![v] = {}]
    /\ vectors' = [d \in Device |-> IF d \in DevicesOf[v] THEN 0 ELSE vectors[d]]
    /\ switched' = [switched EXCEPT ![v] = FALSE]
    /\ UNCHANGED <<hostVars, online, group, worker, work, done, events>>

\* A driver of the guest enables one more interrupt.
GuestEnables(v, d) ==
    /\ stage[v] \in {"launched", "unpinnable", "pinned", "running"} /\ d \in DevicesOf[v]
    /\ vectors[d] < MaxVector
    /\ vectors' = [vectors EXCEPT ![d] = @ + 1]
    /\ UNCHANGED <<hostVars, online, stage, plan, group, pins, worker, work, done, switched,
                   events>>

\* CPU 0 cannot go offline.
CpuEvent(c) ==
    /\ events < MaxEvents /\ events' = events + 1 /\ c # 0
    /\ online' = IF c \in online THEN online \ {c} ELSE online \union {c}
    /\ UNCHANGED <<hostVars, stage, plan, group, pins, irqVars>>

PlacementNext ==
    \/ \E v \in Vm : \/ Validate(v) \/ ReserveCpus(v) \/ Launch(v) \/ PinVcpus(v) \/ PinIrqs(v)
                     \/ WorkerStarts(v) \/ WorkerFinishes(v) \/ WorkerAborts(v) \/ Down(v)
                     \/ \E d \in Device : WorkerPins(v, d) \/ GuestEnables(v, d)
    \/ \E c \in Cpu : CpuEvent(c)

\* The worker threads are scheduled.
WorkerFairness ==
    \A v \in Vm : /\ WF_cpVars(WorkerStarts(v))
                  /\ WF_cpVars(WorkerFinishes(v))
                  /\ WF_cpVars(WorkerAborts(v))
                  /\ \A d \in Device : WF_cpVars(WorkerPins(v, d))

PlacementSpec == PlacementInit /\ [][PlacementNext]_cpVars /\ WorkerFairness

-----------------------------------------------------------------------------
(* Properties.                                                             *)

Complete(v) == VmCpus(v) # {} /\ HostCpus(v) # {} /\ layout[v].vcpus <= Len(layout[v].vm)

\* What Validate, ReserveCpus and PinVcpus make of the same configuration, each from
\* its own reading of sysfs, agrees while the CPUs are those the plan was made
\* from: with a complete layout nothing fails for want of a CPU, unless another VM
\* has taken vfio_vm, and cpuset.mems are the nodes of the plan.
PlanAgrees ==
    [][\A v \in Vm :
         (plan[v] # NoPlan /\ online = plan[v].cpus /\ stage'[v] # stage[v]) =>
             /\ stage'[v] = "unplaceable" => ~ Complete(v)
             /\ stage'[v] = "unpinnable" => ~ Complete(v) \/ group[1] # VmCpus(v)
             /\ stage'[v] = "reserved" =>
                  /\ group'[2] = plan[v].nodes
                  /\ plan[v].spans <=> Cardinality(group'[2]) > 1
                  /\ \A c \in Cpu : plan[v].dominant = {NodeOf[c]} => NodeOf[c] \in group'[2]
      ]_cpVars

\* A vCPU that create_cpuset and pin_vcpus have brought onto its own CPU leaves it
\* only when CPUs come or go, or when another VM's create_cpuset rewrites the shared
\* vfio_vm with a list that lacks that CPU: never by a VM that lists it too.
PinsLostToOthersOnly ==
    [][\A v \in Vm : \A i \in pins[v] \intersect pins'[v] :
         RunsOn(v, i) = {VcpuCpu(v, i)} =>
             \/ RunsOn(v, i)' = {VcpuCpu(v, i)}
             \/ online' # online
             \/ \E w \in Vm \ {v} : /\ stage[w] = "validated" /\ stage'[w] # "validated"
                                    /\ VcpuCpu(v, i) \notin VmCpus(w)
      ]_cpVars

\* A VM that PinVcpus let through has every vCPU on its own CPU as long as no CPU
\* came or went and vfio_vm is as its create_cpuset left it.
PinnedOneToOne ==
    \A v \in Vm :
        stage[v] \in {"pinned", "running"} /\ group[1] = VmCpus(v) /\ online = Cpu =>
            \A i \in 1..layout[v].vcpus : i \in pins[v] /\ RunsOn(v, i) = {VcpuCpu(v, i)}

\* The CPUs the irq_worker writes for the interrupts of a device are of its own VM and
\* on the device's node, and it leaves the further functions of a GPU alone.
IrqsLocal ==
    \A v \in Vm : \A d \in done[v] :
        /\ ~ AuxGpu(v, d)
        /\ work[v][d] \subseteq VmCpus(v)
        /\ numa /\ DevNode[d] >= 0 => \A c \in work[v][d] : NodeOf[c] = DevNode[d]

\* The irq_worker switches the monitor to a VM only when every device of the VM that
\* can be pinned has been, and some can; if the guest is still there, each of them
\* has interrupts.
SwitchAfterAll ==
    [][\A v \in Vm :
         switched'[v] /\ ~ switched[v] =>
             /\ DOMAIN work[v] # {} /\ DOMAIN work[v] \subseteq done[v]
             /\ stage[v] # "idle" => \A d \in DOMAIN work[v] : vectors[d] > 0
      ]_cpVars

\* A device that has interrupts is pinned whatever the others do, unless the worker
\* ends or the guest does.
IrqsEventuallyPinned ==
    \A v \in Vm : \A d \in DevicesOf[v] :
        (worker[v] = "polling" /\ d \in DOMAIN work[v] /\ vectors[d] > 0)
            ~> (d \in done[v] \/ worker[v] # "polling" \/ vectors[d] = 0)

\* The worker has no time limit, and needs none: it ends, or it waits for the
\* interrupts of a device of a QEMU that runs.
WorkerEnds ==
    \A v \in Vm :
        (worker[v] \in {"spawned", "polling"})
            ~> \/ worker[v] \in {"none", "ended"}
               \/ stage[v] # "idle" /\ \E d \in DOMAIN work[v] \ done[v] : vectors[d] = 0

=============================================================================

------------------------------ MODULE Passthrough ------------------------------
(***************************************************************************)
(* What becomes of the PCI devices of one VM on one start attempt: the GPU *)
(* preflight (core/src/config.rs), the isolation policy                    *)
(* (core/src/vfio/isolation.rs), the plan and its execution                *)
(* (vfio/plan.rs, vfio/execute.rs), the verification (vfio/verify.rs) and  *)
(* the root ports QEMU is told to put them on (qemu.rs).  Each phase reads *)
(* the host at a moment of its own; between them, and between two writes   *)
(* of the plan, a device may lose, gain or change its driver.              *)
(*                                                                         *)
(* VfioBinding has the transitions recorded for the restore and the faults *)
(* of single writes; here the configuration, the policy and the topology   *)
(* of the host are what varies.                                            *)
(***************************************************************************)
EXTENDS Integers, FiniteSets

CONSTANTS
    Function,  \* PCI functions, numbered in the order of list kind and address
    Display,   \* those of class 0x03
    SlotOf,    \* the (domain, bus, device) of each
    Config,    \* the VM configurations
    Host,      \* the hosts: [group, node, driver] of each function
    MaxSlot,   \* the last root port slot (0x1f)
    SpiceSlot, \* where qemu.rs fixes the virtio-serial of SPICE (0x10)
    BuiltIn,   \* the slots the q35 machine occupies itself
    MaxEvents  \* bound: what happens to devices meanwhile

NoGroup == 0
NoNode == -1

Drivers == {"absent", "none", "vfio", "gpu", "other"}
Modes == {"disabled", "audit", "enforce"}
Levels == {"default", "dedicated", "shared", "forbidden"}

ASSUME FunctionAssumption == Function \subseteq Nat /\ IsFiniteSet(Function)
ASSUME DisplayAssumption == Display \subseteq Function
ASSUME SlotAssumption == DOMAIN SlotOf = Function
ASSUME MaxSlotAssumption == MaxSlot \in Nat
ASSUME EventsAssumption == MaxEvents \in Nat

\* The fields of a VM's configuration that matter here.
VmConfig(c) ==
    /\ c.gpu \subseteq Function /\ c.other \subseteq Function \* devices.gpu; nvme, nic, usb
    /\ c.optional \subseteq Function                        \* required = false
    /\ c.level \in [Function -> Levels] /\ c.default \in Levels \ {"default"}
    /\ c.mode \in Modes
    /\ c.exclusive \in BOOLEAN /\ c.multifunction \in BOOLEAN /\ c.critical \in BOOLEAN
    /\ c.single \in BOOLEAN                                 \* allow_single_gpu
    /\ c.node \in Nat \union {NoNode}                       \* numa.node
    /\ DOMAIN c.override \subseteq Function                 \* qemu.pci_rootport
    /\ \A f \in DOMAIN c.override : c.override[f] \in Nat
    /\ c.spice \in BOOLEAN

PciHost ==
    [group : [Function -> Nat], node : [Function -> Int], driver : [Function -> Drivers]]

ASSUME ConfigAssumption == \A c \in Config : VmConfig(c)
ASSUME HostAssumption == Host \subseteq PciHost

VARIABLES
    cfg, host, \* chosen once
    driver,    \* the driver of each function, "absent" if the function is not there
    snap,      \* the drivers in the inventory that staging scanned
    todo,      \* the actions of the plan still to be executed
    phase,
    ports,     \* the slot of each device on QEMU's command line
    events

ptVars == <<cfg, host, driver, snap, todo, phase, ports, events>>

Phases == {"validate", "prepare", "execute", "verified", "launched", "running",
           "refused", "failed", "exited"}

Configured == cfg.gpu \union cfg.other
Action == {"unbind", "bind"} \X {"gpu", "other"} \X Function

PassthroughTypeOK ==
    /\ driver \in [Function -> Drivers] /\ snap \in [Function -> Drivers]
    /\ todo \subseteq Action
    /\ phase \in Phases
    /\ phase \in {"launched", "running", "exited"} => ports \in [Configured -> Nat]
    /\ events \in 0..MaxEvents

PassthroughInit ==
    /\ cfg \in Config /\ host \in Host
    /\ driver = host.driver /\ snap = driver
    /\ todo = {} /\ phase = "validate" /\ ports = [f \in {} |-> 0] /\ events = 0

-----------------------------------------------------------------------------
(* The inventory (pci.rs).  d is the function from the devices to the      *)
(* drivers that a scan found.                                              *)

Present(d) == {f \in Function : d[f] # "absent"}

\* resolve_configured, of all the lists: an error if a required device is missing.
Resolves(d) == Configured \ cfg.optional \subseteq Present(d)
Passed(d) == Configured \intersect Present(d)

\* by_iommu_group: functions without a group are in none.
Groups(d) ==
    {{g \in Present(d) : host.group[g] = host.group[f]} :
        f \in {f \in Present(d) : host.group[f] # NoGroup}}

Slots(d) == {{g \in Present(d) : SlotOf[g] = SlotOf[f]} : f \in Present(d)}

InGpuComplex(d, f) ==
    f \in Present(d) /\ \E g \in Display \intersect Present(d) : SlotOf[g] = SlotOf[f]

\* assess_gpu_unbind_safety.  A GPU is VfioReady only on vfio-pci, so
\* evaluate_gpu_unbind_feasibility never finds anything better than a risk.
Feasibility(d, f) ==
    CASE d[f] = "vfio" -> "safe"
      [] d[f] # "vfio" /\ host.group[f] = NoGroup -> "unsafe"
      [] OTHER -> "risky"

-----------------------------------------------------------------------------
(* evaluate_isolation_for_vm: the findings of severity Violation.          *)

LevelOf(f) == IF cfg.level[f] = "default" THEN cfg.default ELSE cfg.level[f]

Mixed(s, d) == s \intersect Passed(d) # {} /\ ~ (s \subseteq Passed(d))

\* evaluate_iommu_exclusivity
NotExclusive(d) == {g \in Groups(d) : Mixed(g, d)}

\* evaluate_multifunction_consistency
MixedOwnership(d) == {s \in Slots(d) : Mixed(s, d)}

\* evaluate_host_critical_sharing: a passthrough GPU on a host driver counts too.
CriticalGroups(d) ==
    {g \in Groups(d) : /\ g \intersect Passed(d) # {}
                       /\ \E f \in g \intersect Display : d[f] = "gpu"}

\* evaluate_per_device_isolation_levels
Forbidden(d) == {f \in Passed(d) : LevelOf(f) = "forbidden"}

\* Mutant: only an explicit level is looked at.
DedicatedSharedExplicit(d) ==
    IF cfg.exclusive THEN {}
    ELSE {f \in Passed(d) : cfg.level[f] = "dedicated"
                            /\ \E g \in Groups(d) : f \in g /\ Mixed(g, d)}

DedicatedShared(d) ==
    IF cfg.exclusive THEN {}
    ELSE {f \in Passed(d) : LevelOf(f) = "dedicated"
                            /\ \E g \in Groups(d) : f \in g /\ Mixed(g, d)}

\* Mutant: a mismatch is a warning at every level.
NumaMismatchAdvisory(d) == {}

\* evaluate_numa_placement: neither node may be unknown.
NumaMismatch(d) ==
    {f \in Passed(d) : /\ LevelOf(f) = "dedicated"
                       /\ cfg.node # NoNode /\ host.node[f] >= 0
                       /\ host.node[f] # cfg.node}

Violates(d) ==
    \/ cfg.exclusive /\ NotExclusive(d) # {}
    \/ cfg.multifunction /\ MixedOwnership(d) # {}
    \/ cfg.critical /\ CriticalGroups(d) # {}
    \/ Forbidden(d) # {}
    \/ DedicatedShared(d) # {}
    \/ NumaMismatch(d) # {}

\* Mutant: an audit that finds a violation is an error as well.
IsolationOkStrict(mode, d) == mode = "disabled" \/ (Resolves(d) /\ ~ Violates(d))

\* In mode audit only a missing required device is an error.
IsolationOk(mode, d) ==
    mode = "disabled" \/ (Resolves(d) /\ (mode = "enforce" => ~ Violates(d)))

-----------------------------------------------------------------------------
(* The GPU preflight, and stage_pci_devices_for_vm.                        *)

\* preflight_gpu_policy counts the host's GPUs, not the ones left for the host.
GpuPolicyOk(d) ==
    LET gpus == Display \intersect Present(d) IN
    cfg.gpu # {} => gpus # {} /\ (Cardinality(gpus) = 1 => cfg.single)

\* Mutant: a risk is accepted.
GpusStageableRisky(d) ==
    \A f \in cfg.gpu \intersect Present(d) :
        IF f \in Display THEN Feasibility(d, f) # "unsafe" ELSE InGpuComplex(d, f)

\* build_gpu_actions
GpusStageable(d) ==
    \A f \in cfg.gpu \intersect Present(d) :
        IF f \in Display THEN Feasibility(d, f) = "safe" ELSE InGpuComplex(d, f)

\* stage_device_list: in every mode, but only for an explicit level and not for GPUs.
Vetoed == \E f \in cfg.other : cfg.level[f] = "forbidden"

PlanOk(d) == Resolves(d) /\ GpusStageable(d) /\ ~ Vetoed

\* append_actions_for_function, for each entry of each list.
Plan(d) ==
    LET Listed == ({"gpu"} \X cfg.gpu) \union ({"other"} \X cfg.other) IN
    {<<kind, l[1], l[2]>> : kind \in {"bind"}, l \in {l \in Listed : d[l[2]] # "absent"}}
      \union {<<kind, l[1], l[2]>> : kind \in {"unbind"},
                 l \in {l \in Listed : d[l[2]] \notin {"absent", "none", "vfio"}}}

\* All unbinds before all binds, GPUs before the others; within a list the
\* order is the operator's, hence any.
Turn(a) == (IF a[1] = "unbind" THEN 0 ELSE 2) + (IF a[2] = "gpu" THEN 0 ELSE 1)
Due(a) == a \in todo /\ \A b \in todo : Turn(a) <= Turn(b)

\* bind_to_vfio_pci does nothing for a function that the scan found on vfio-pci.
Idle(a) == a[1] = "bind" /\ snap[a[3]] = "vfio"

\* The driver that is written to is the scan's, the one that answers the present.
Works(a) ==
    \/ Idle(a)
    \/ a[1] = "unbind" /\ driver[a[3]] = snap[a[3]]
    \/ a[1] = "bind" /\ driver[a[3]] = "none"

\* verify_device_list, on a scan of its own: what is missing now is skipped.
Verified(d) ==
    /\ Resolves(d)
    /\ \A f \in cfg.gpu \intersect Present(d) : f \in Display \/ InGpuComplex(d, f)
    /\ \A f \in Passed(d) : d[f] = "vfio"

Goes(p) == phase' = p

Validate ==
    /\ phase = "validate"
    /\ Goes(IF GpuPolicyOk(driver) THEN "prepare" ELSE "refused")
    /\ UNCHANGED <<cfg, host, driver, snap, todo, ports, events>>

\* The scan, the policy gate and the plan; no device is touched.
Stage ==
    /\ phase = "prepare"
    /\ snap' = driver
    /\ IF IsolationOk(cfg.mode, driver) /\ PlanOk(driver)
         THEN Goes("execute") /\ todo' = Plan(driver)
         ELSE Goes("refused") /\ UNCHANGED todo
    /\ UNCHANGED <<cfg, host, driver, ports, events>>

\* execute_plan, one write to sysfs.
Execute ==
    /\ phase = "execute"
    /\ \E a \in todo :
        /\ Due(a) /\ Works(a)
        /\ todo' = todo \ {a}
        /\ driver' = IF Idle(a) THEN driver
                     ELSE [driver EXCEPT ![a[3]] = IF a[1] = "unbind" THEN "none" ELSE "vfio"]
    /\ UNCHANGED <<cfg, host, snap, phase, ports, events>>

\* A write that cannot work fails, and any other may: the rest is not executed.
ExecuteFails ==
    /\ phase = "execute"
    /\ \E a \in todo : Due(a) /\ ~ Idle(a)
    /\ Goes("failed") /\ todo' = {}
    /\ UNCHANGED <<cfg, host, driver, snap, ports, events>>

\* Mutant: there is no second scan.
VerifyTrusting ==
    /\ phase = "execute" /\ todo = {}
    /\ Goes("verified")
    /\ UNCHANGED <<cfg, host, driver, snap, todo, ports, events>>

Verify ==
    /\ phase = "execute" /\ todo = {}
    /\ Goes(IF Verified(driver) THEN "verified" ELSE "failed")
    /\ UNCHANGED <<cfg, host, driver, snap, todo, ports, events>>

-----------------------------------------------------------------------------
(* build_pci_rootport_map and the start of QEMU.                           *)

Overridden == DOMAIN cfg.override
Automatic == Configured \ Overridden

OverridesOk ==
    /\ Overridden \subseteq Configured
    /\ \A f \in Overridden : cfg.override[f] <= MaxSlot
    /\ \A f, g \in Overridden : cfg.override[f] = cfg.override[g] => f = g

\* Mutant: an automatic slot may be an explicit one too.
FreeSlotsAll == 1..MaxSlot

\* Where automatic slots come from: explicit ones are skipped, slot 0 is not used.
FreeSlots == 1..MaxSlot \ {cfg.override[f] : f \in Overridden}

\* A device listed twice takes the place of its GPU entry.
Kind(f) == IF f \in cfg.gpu THEN 0 ELSE 1
Before(f, g) == Kind(f) < Kind(g) \/ (Kind(f) = Kind(g) /\ f < g)

\* The n-th automatic device gets the n-th free slot.
Nth(f) == CHOOSE s \in FreeSlots :
            Cardinality({t \in FreeSlots : t < s}) = Cardinality({g \in Automatic : Before(g, f)})

\* Mutant: the explicit assignments do not get into the map.
PortMapAuto == [f \in Automatic |-> Nth(f)]

\* An empty configuration returns before its overrides are looked at.
PortsOk == Configured # {} => OverridesOk /\ Cardinality(Automatic) <= Cardinality(FreeSlots)
PortMap ==
    [f \in Configured |-> IF f \in Overridden THEN cfg.override[f] ELSE Nth(f)]

\* Every configured device has its -device argument, present or not.
BuildArgs ==
    /\ phase = "verified"
    /\ IF PortsOk THEN Goes("launched") /\ ports' = PortMap
                  ELSE Goes("failed") /\ UNCHANGED ports
    /\ UNCHANGED <<cfg, host, driver, snap, todo, events>>

\* The kernel opens a group to a guest only if no host driver holds a member.
Viable(f) ==
    \A g \in Function : host.group[g] = host.group[f] /\ host.group[f] # NoGroup
                        => driver[g] \in {"absent", "none", "vfio"}

Taken == BuiltIn \union (IF cfg.spice THEN {SpiceSlot} ELSE {})

\* QEMU ends at once if one of its -device arguments cannot be realized.
Realizable(f) ==
    /\ driver[f] = "vfio" /\ host.group[f] # NoGroup /\ Viable(f)
    /\ ports[f] \notin Taken
    /\ \A g \in Configured : ports[g] = ports[f] => g = f
    /\ f \notin cfg.gpu \intersect cfg.other

Launch ==
    /\ phase = "launched"
    /\ Goes(IF \A f \in Configured : Realizable(f) THEN "running" ELSE "exited")
    /\ UNCHANGED <<cfg, host, driver, snap, todo, ports, events>>

-----------------------------------------------------------------------------
(* The host.                                                               *)

Happens(f, d) ==
    /\ phase \in {"validate", "prepare", "execute", "verified", "launched"}
    /\ events < MaxEvents /\ events' = events + 1
    /\ driver' = [driver EXCEPT ![f] = d]
    /\ UNCHANGED <<cfg, host, snap, todo, phase, ports>>

\* The drivers that probe a function: its own, and vfio-pci, which bind_to_vfio_pci
\* takes to be configured to match the ids of the operator's choice.
Takers(f) == {"vfio", IF f \in Display THEN "gpu" ELSE "other"}

\* A device disappears; one appears, as when the bus is rescanned at the end of
\* another VM (vfio/mod.rs), and is probed at once or left alone; a driver takes a
\* device that has none.
Unplug(f) == driver[f] # "absent" /\ Happens(f, "absent")
Appear(f) == driver[f] = "absent" /\ \E d \in Takers(f) \union {"none"} : Happens(f, d)
HostProbe(f) == driver[f] = "none" /\ \E d \in Takers(f) : Happens(f, d)

PassthroughNext ==
    \/ Validate \/ Stage \/ Execute \/ ExecuteFails \/ Verify \/ BuildArgs \/ Launch
    \/ \E f \in Function : Unplug(f) \/ Appear(f) \/ HostProbe(f)

PassthroughSpec == PassthroughInit /\ [][PassthroughNext]_ptVars

-----------------------------------------------------------------------------
(* Properties.                                                             *)

Verifies == phase = "execute" /\ phase' = "verified"

\* The devices that the gate and the plan skipped as missing.  The verification accepts
\* one that is there by then, on vfio-pci by its ids, and no policy is asked.
Late == cfg.optional \ Present(snap)

\* isolation.rs:548, 318-427: under Enforce, when staging succeeds, every function
\* that the scan found in the IOMMU group of a passed-through device is in the
\* guest's hands too if the policy or the device's level asks for it, and so is
\* every function of its slot, and every late device passed through with it, whatever
\* happened to the devices since the scan.  A late device itself may have neighbours
\* that the host uses, and the verification does not see what the host adds.
Isolated ==
    [][Verifies /\ cfg.mode = "enforce" =>
        \A f \in Passed(driver) \ Late, g \in Passed(driver) \union Present(snap) :
            \/ /\ host.group[g] = host.group[f] /\ host.group[f] # NoGroup
               /\ cfg.exclusive \/ LevelOf(f) = "dedicated"
            \/ SlotOf[g] = SlotOf[f] /\ cfg.multifunction
            => driver[g] \in {"absent", "vfio"}]_ptVars

\* isolation.rs:365, 512, 701: under Enforce no staged device is forbidden, a
\* dedicated one is on the VM's NUMA node as far as both are known, and none comes
\* from a group with a GPU that the scan found in use by the host, late devices
\* excepted: a required device cannot escape the gate, whenever it comes and goes.
PolicyKept ==
    [][Verifies /\ cfg.mode = "enforce" =>
        \A f \in Passed(driver) \ Late :
            /\ LevelOf(f) # "forbidden"
            /\ LevelOf(f) = "dedicated" =>
                 host.node[f] < 0 \/ cfg.node \in {NoNode, host.node[f]}
            /\ cfg.critical /\ host.group[f] # NoGroup =>
                 ~ \E g \in Display : snap[g] = "gpu" /\ host.group[g] = host.group[f]]_ptVars

\* plan.rs:67-73: the daemon takes no GPU off its graphics driver, except one that
\* is listed as something else, and then not if Enforce protects the host's GPUs.
HostGpuKept ==
    [][\A f \in Display : driver[f] = "gpu" /\ driver'[f] = "none" =>
        /\ f \in cfg.other \ cfg.gpu
        /\ ~ (cfg.mode = "enforce" /\ cfg.critical /\ host.group[f] # NoGroup)]_ptVars

\* config.rs:254-259: Audit blocks nothing that Disabled would not, and Enforce
\* accepts nothing that they refuse, on whatever host the scan would find.
AuditNeverBlocks ==
    phase = "prepare" =>
        LET Accepts(mode) == IsolationOk(mode, driver) /\ PlanOk(driver) IN
        /\ Accepts("audit") <=> Accepts("disabled")
        /\ Accepts("enforce") => Accepts("audit")

\* qemu.rs:530-548: every configured device has a slot of its own in the range, the
\* explicit ones as asked, the automatic ones rising with list kind and address.
SlotsDistinct ==
    phase = "launched" =>
        /\ \A f \in Configured :
            /\ ports[f] \in 0..MaxSlot
            /\ f \in Overridden => ports[f] = cfg.override[f]
            /\ f \in Automatic => ports[f] # 0
        /\ \A f, g \in Configured : f # g => ports[f] # ports[g]
        /\ \A f, g \in Automatic : Before(f, g) => ports[f] < ports[g]

\* pci.rs:539-543: "If missing and `required = false` -> silently skipped": what
\* ends QEMU at its start is never only that an optional device is not there.
OptionalAbsenceHarmless ==
    phase = "exited" =>
        \E f \in Configured :
            ~ Realizable(f) /\ (f \notin cfg.optional \/ driver[f] # "absent")

=============================================================================

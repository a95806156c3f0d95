----------------------------- MODULE VfioBinding -----------------------------
(***************************************************************************)
(* The driver bindings of one VM's passthrough devices: the plan that      *)
(* stages them on vfio-pci (core/src/vfio/plan.rs, execute.rs, verify.rs)  *)
(* and the restore that is to give them back (core/src/vfio/mod.rs), over  *)
(* the sysfs writes of core/src/pci.rs.                                    *)
(*                                                                         *)
(* A device is a number, and the plan visits the devices in the order of   *)
(* the numbers.  Its driver is abstracted to what the code distinguishes:  *)
(* "vfio" (vfio-pci), "host" (any other driver) or "none" (unbound).       *)
(* The module has no next-state relation of its own: VmLifecycle uses      *)
(* these actions in its PreparePci and Shutdown steps.                     *)
(***************************************************************************)
EXTENDS Naturals

CONSTANTS
    Device,   \* the passthrough devices of the VM's configuration
    Display,  \* those that are display controllers (PCI class 0x03)
    Faults    \* the kinds of host failure that may happen (see FaultKind)

\* What can go wrong on the host, by the step it makes fail.
FaultKind == {"validate", "hugepages", "hpwrite", "scan", "policy", "unbind",
              "bind", "noop", "cpuset", "spawn", "cgroup", "threads", "pin",
              "sigterm", "restore", "mqtt", "i2c"}

ASSUME DeviceAssumption == Device \subseteq Nat
ASSUME DisplayAssumption == Display \subseteq Device
ASSUME FaultsAssumption == Faults \subseteq FaultKind

Driver == {"host", "none", "vfio"}

\* model.rs, VfioTransition: a device and the driver it had when it was staged.
Transition == [dev : Device, from : Driver]

VARIABLES
    driver,       \* sysfs: the driver each device is bound to
    transitions,  \* VmRuntime.vfio_transitions; a repeated record changes nothing
    boot          \* history: the bindings the daemon found when it started

vfioVars == <<driver, transitions, boot>>

VfioInit ==
    /\ driver \in [Device -> Driver]
    /\ transitions = {}
    /\ boot = driver

-----------------------------------------------------------------------------
(* The plan: first the unbinds, then the binds, both from one inventory    *)
(* snapshot.                                                               *)

\* append_actions_for_function: a driver other than vfio-pci is unbound.
ToUnbind == {d \in Device : driver[d] = "host"}

\* Mutant: a record for every planned bind.
ToBindEveryDevice == Device

\* bind_to_vfio_pci does nothing for a device already bound to vfio-pci.
ToBind == {d \in Device : driver[d] # "vfio"}

\* build_gpu_actions with assess_gpu_unbind_safety: only a display controller
\* already bound to vfio-pci is Safe, any other is Risky or Unsafe and refused.
PlanAccepted == \A d \in Display : driver[d] = "vfio"

\* execute_plan: the record it pushes before it binds d.
RecordOf(d) == [dev |-> d, from |-> driver[d]]

\* Kernel: a bind write the driver accepts without taking the device.
Unnoticed(done) == IF "noop" \in Faults THEN SUBSET done ELSE {{}}

\* The bindings after every unbind of the plan and the binds of `done`, those
\* of `lost` without effect.
AfterBinds(done, lost) ==
    [d \in Device |-> IF driver[d] = "vfio" \/ d \in done \ lost
                        THEN "vfio" ELSE "none"]

\* The scan fails, the isolation gate refuses, or build_plan_for_vm does:
\* nothing has been written.
StagePlanRefused ==
    /\ "scan" \in Faults \/ "policy" \in Faults \/ ~PlanAccepted
    /\ UNCHANGED vfioVars

\* The unbind of d fails: the earlier ones are done, and nothing is recorded,
\* as execute_plan records a device only when it comes to its bind.
StageUnbindFails ==
    /\ "unbind" \in Faults
    /\ PlanAccepted
    /\ \E d \in ToUnbind :
          driver' = [e \in Device |->
                        IF e \in ToUnbind /\ e < d THEN "none" ELSE driver[e]]
    /\ UNCHANGED <<transitions, boot>>

\* The bind of d fails, after its record was pushed.  Every unbind of the plan is
\* done by then: the devices after d are without a driver and without a record.
StageBindFails ==
    /\ "bind" \in Faults
    /\ PlanAccepted
    /\ \E d \in ToBind :
          LET done == {e \in ToBind : e < d} IN
          /\ \E lost \in Unnoticed(done) : driver' = AfterBinds(done, lost)
          /\ transitions' = transitions \cup {RecordOf(e) : e \in done \cup {d}}
    /\ UNCHANGED boot

\* Mutant: the records are kept only once verification has passed.
StageVerifyFailsUnrecorded ==
    /\ PlanAccepted
    /\ \E lost \in Unnoticed(ToBind) :
          /\ lost # {} \/ "scan" \in Faults
          /\ driver' = AfterBinds(ToBind, lost)
    /\ UNCHANGED <<transitions, boot>>

\* The plan runs to its end; verify_vm_vfio_bindings cannot scan or finds a
\* device that is not on vfio-pci.
StageVerifyFails ==
    /\ PlanAccepted
    /\ \E lost \in Unnoticed(ToBind) :
          /\ lost # {} \/ "scan" \in Faults
          /\ driver' = AfterBinds(ToBind, lost)
    /\ transitions' = transitions \cup {RecordOf(d) : d \in ToBind}
    /\ UNCHANGED boot

StageFails ==
    \/ StagePlanRefused
    \/ StageUnbindFails
    \/ StageBindFails
    \/ StageVerifyFails

\* Mutant: staging without the verification.
StageSucceedsUnverified ==
    /\ PlanAccepted
    /\ \E lost \in Unnoticed(ToBind) : driver' = AfterBinds(ToBind, lost)
    /\ transitions' = transitions \cup {RecordOf(d) : d \in ToBind}
    /\ UNCHANGED boot

\* stage_pci_devices_for_vm returns Ok: verification saw every device on
\* vfio-pci.
StageSucceeds ==
    /\ PlanAccepted
    /\ \E lost \in Unnoticed(ToBind) :
          /\ driver' = AfterBinds(ToBind, lost)
          /\ \A d \in Device : driver'[d] = "vfio"
    /\ transitions' = transitions \cup {RecordOf(d) : d \in ToBind}
    /\ UNCHANGED boot

-----------------------------------------------------------------------------
(* Restore at shutdown.                                                    *)

\* Kernel: a bind write takes an unbound device; a bound one stays where it is
\* and the write fails.
KernelBind(d, target) == IF driver[d] = "none" THEN target ELSE driver[d]

\* restore_group binds back a device whose record names a host driver; one
\* recorded as unbound, or without a record, is skipped.
ToRestore == {d \in Device : [dev |-> d, from |-> "host"] \in transitions}

\* restore_pci_devices_for_vm, best effort: any write, or the scan before
\* them, may fail, and the records stay.
Restore ==
    /\ \E failed \in SUBSET ToRestore :
          /\ \/ failed = {}
             \/ "restore" \in Faults
             \/ "scan" \in Faults /\ failed = ToRestore
          /\ driver' = [d \in Device |-> IF d \in ToRestore \ failed
                                           THEN KernelBind(d, "host")
                                           ELSE driver[d]]
    /\ UNCHANGED <<transitions, boot>>

=============================================================================

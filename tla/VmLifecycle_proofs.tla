-------------------------- MODULE VmLifecycle_proofs --------------------------
(***************************************************************************)
(* Proofs about VmLifecycle, for every set of devices, process ids,        *)
(* features and faults.                                                    *)
(***************************************************************************)
EXTENDS VmLifecycle, TLAPS

\* The part of TypeOK about the driver bindings.
BindTypeOK ==
    /\ driver \in [Device -> Driver]
    /\ transitions \subseteq Transition
    /\ boot \in [Device -> Driver]

\* Staging, whatever comes of it, keeps the types of the bindings.
LEMMA StageType ==
  ASSUME BindTypeOK, StageSucceeds \/ StageFails
  PROVE  BindTypeOK'
<1>1. \A d \in Device : RecordOf(d) \in Transition
  BY DEF BindTypeOK, RecordOf, Transition
<1>2. \A done, lost : AfterBinds(done, lost) \in [Device -> Driver]
  BY DEF AfterBinds, Driver
<1>3. CASE StageSucceeds
  BY <1>1, <1>2, <1>3 DEF BindTypeOK, StageSucceeds, ToBind
<1>4. CASE StagePlanRefused
  BY <1>4 DEF BindTypeOK, StagePlanRefused, vfioVars
<1>5. CASE StageUnbindFails
  BY <1>5 DEF BindTypeOK, StageUnbindFails, Driver
<1>6. CASE StageBindFails
  <2>1. driver' \in [Device -> Driver]
    BY <1>2, <1>6 DEF StageBindFails
  <2>2. transitions' \subseteq Transition
    BY <1>1, <1>6 DEF BindTypeOK, StageBindFails, ToBind
  <2> QED  BY <1>6, <2>1, <2>2 DEF BindTypeOK, StageBindFails
<1>7. CASE StageVerifyFails
  BY <1>1, <1>2, <1>7 DEF BindTypeOK, StageVerifyFails, ToBind
<1> QED  BY <1>3, <1>4, <1>5, <1>6, <1>7 DEF StageFails

\* So does the restore.
LEMMA RestoreType ==
  ASSUME BindTypeOK, Restore
  PROVE  BindTypeOK'
  BY DEF BindTypeOK, Restore, KernelBind, Driver

-----------------------------------------------------------------------------
\* Every variable keeps its type.
LEMMA TypeStep == TypeOK /\ [Next]_vars => TypeOK'
<1> SUFFICES ASSUME TypeOK, [Next]_vars PROVE TypeOK'
  OBVIOUS
<1> USE DEF TypeOK, VmState, BringUp, IpcVmState, vfioVars, ctlVars, procVars,
            irqVars, hpVars, perVars, DrivesUp, DrivesDown, Advance, StepFails
<1>1. CASE Start
  <2>1. CASE NeedNew
    BY <1>1, <2>1 DEF Start
  <2>2. CASE ~NeedNew
    BY <1>1, <2>2 DEF Start
  <2> QED  BY <2>1, <2>2
<1>2. CASE Stop
  BY <1>2 DEF Stop
<1>3. CASE StepInit
  BY <1>3 DEF StepInit, GatedStep
<1>4. CASE StepValidate
  BY <1>4 DEF StepValidate, GatedStep
<1>5. CASE StepPrepareHugepages
  <2>1. hpActive' \in BOOLEAN
    BY <1>5, Zenon DEF StepPrepareHugepages, Provisioned, ProvisioningFails
  <2>2. pool' \in {"zero", "partial", "full"}
    BY <1>5 DEF StepPrepareHugepages, Provisioned, ProvisioningFails
  <2> QED  BY <1>5, <2>1, <2>2 DEF StepPrepareHugepages
<1>6. CASE StepPreparePci
  <2>1. BindTypeOK'
    BY <1>6, StageType DEF StepPreparePci, BindTypeOK
  <2> QED  BY <1>6, <2>1 DEF StepPreparePci, DrivesUp, Advance, StepFails, BindTypeOK
<1>7. CASE StepReserveCpus
  BY <1>7 DEF StepReserveCpus, GatedStep
<1>8. CASE StepLaunchQemu
  BY <1>8, ZenonT(30) DEF StepLaunchQemu, LgFile
<1>9. CASE StepDetectThreads
  BY <1>9 DEF StepDetectThreads, ThreadStep, VcpusVisible
<1>10. CASE StepPinVcpus
  BY <1>10 DEF StepPinVcpus, ThreadStep, VcpusVisible
<1>11. CASE StepDetectMsi
  BY <1>11 DEF StepDetectMsi
<1>12. CASE StepPinIrqs
  BY <1>12 DEF StepPinIrqs
<1>13. CASE StepPeripheralHooks
  BY <1>13, ZenonT(30) DEF StepPeripheralHooks, DdcGate, PublishPower, SetInput
<1>14. CASE DriveSteady
  BY <1>14 DEF DriveSteady
<1>15. CASE BeginTerminate
  BY <1>15 DEF BeginTerminate, Terminable
<1>16. CASE StepTeardown
  <2>1. BindTypeOK'
    BY <1>16, RestoreType DEF StepTeardown, BindTypeOK
  <2>2. hpActive' \in BOOLEAN /\ pool' \in {"zero", "partial", "full"}
    BY <1>16 DEF StepTeardown, ReleaseHugepages
  <2>3. relay' \in BOOLEAN /\ relayOn' \in BOOLEAN
    BY <1>16 DEF StepTeardown, PublishPower
  <2>4. monitor' \in {"host", "vm"} /\ state' \in VmState
    BY <1>16 DEF StepTeardown, SetInput
  <2> QED  BY <1>16, <2>1, <2>2, <2>3, <2>4 DEF StepTeardown, BindTypeOK
<1>17. CASE StepCleanup
  BY <1>17 DEF StepCleanup
<1>18. CASE DetectGuestExit
  BY <1>18 DEF DetectGuestExit
<1>19. CASE FinishTerminate
  BY <1>19 DEF FinishTerminate
<1>20. ASSUME NEW p \in Pid, QemuExit(p) PROVE TypeOK'
  BY <1>20 DEF QemuExit
<1>21. ASSUME NEW p \in Pid, WorkerPins(p) PROVE TypeOK'
  BY <1>21 DEF WorkerPins
<1>22. ASSUME NEW p \in Pid, WorkerAborts(p) PROVE TypeOK'
  BY <1>22 DEF WorkerAborts
<1>23. ASSUME NEW p \in Pid, WorkerFinishes(p) PROVE TypeOK'
  BY <1>23 DEF WorkerFinishes, SetInput
<1>24. CASE UNCHANGED vars
  BY <1>24 DEF vars
<1> QED
  BY <1>1, <1>2, <1>3, <1>4, <1>5, <1>6, <1>7, <1>8, <1>9, <1>10, <1>11,
     <1>12, <1>13, <1>14, <1>15, <1>16, <1>17, <1>18, <1>19, <1>20, <1>21,
     <1>22, <1>23, <1>24 DEF Next, DaemonStep, WorkerStep

\* The type invariant of the machine, its runtime and its host.
THEOREM TypeCorrect == Spec => []TypeOK
<1>1. Init => TypeOK
  BY DEF Init, VfioInit, TypeOK, VmState, IpcVmState, Transition
<1> QED  BY <1>1, TypeStep, PTL DEF Spec

-----------------------------------------------------------------------------
(* A running QEMU has every device on vfio-pci.                            *)

\* Every passthrough device is on vfio-pci.
AllOnVfio == \A d \in Device : driver[d] = "vfio"

\* Some QEMU runs, the runtime's or an orphan.
VmLive == \E p \in Pid : proc[p] = "alive"

\* The states from a verified PreparePci to the termination.
Staged == {"ReserveCpus", "LaunchQemu"} \cup Launched

\* What makes QemuOnVfio inductive: the devices are on vfio-pci from the end of
\* staging on, before there is a QEMU; and a QEMU that is left running keeps
\* them there through the next staging and every restore.
VfioInv == state \in Staged \/ VmLive => AllOnVfio

\* Staging that finds every device on vfio-pci writes nothing.
LEMMA StageKeepsVfio ==
  ASSUME TypeOK, AllOnVfio, StageFails
  PROVE  AllOnVfio'
<1>1. ToUnbind = {} /\ ToBind = {}
  BY DEF AllOnVfio, ToUnbind, ToBind
<1>2. ~StageUnbindFails /\ ~StageBindFails
  BY <1>1 DEF StageUnbindFails, StageBindFails
<1>3. CASE StagePlanRefused
  BY <1>3 DEF AllOnVfio, StagePlanRefused, vfioVars
<1>4. CASE StageVerifyFails
  <2>1. \A lost : \A d \in Device : AfterBinds({}, lost)[d] = "vfio"
    BY DEF AfterBinds, AllOnVfio
  <2> QED  BY <1>1, <1>4, <2>1 DEF AllOnVfio, StageVerifyFails
<1> QED  BY <1>2, <1>3, <1>4 DEF StageFails

\* The restore takes no device from vfio-pci: the kernel refuses to bind a
\* device that is bound.
LEMMA RestoreKeepsVfio ==
  ASSUME TypeOK, AllOnVfio, Restore
  PROVE  AllOnVfio'
  BY DEF AllOnVfio, Restore, KernelBind

\* No step breaks VfioInv: only staging and restore write bindings.
LEMMA VfioStep == TypeOK /\ VfioInv /\ [Next]_vars => VfioInv'
<1> SUFFICES ASSUME TypeOK, VfioInv, [Next]_vars PROVE VfioInv'
  OBVIOUS
<1> USE DEF VfioInv, AllOnVfio, VmLive, Staged, Launched, BringUp, TypeOK,
            vfioVars, ctlVars, procVars, irqVars, hpVars, perVars, DrivesUp,
            DrivesDown, Advance, StepFails
<1>1. CASE Start
  BY <1>1 DEF Start, NeedNew
<1>2. CASE Stop
  BY <1>2 DEF Stop
<1>3. CASE StepInit
  BY <1>3 DEF StepInit, GatedStep
<1>4. CASE StepValidate
  BY <1>4 DEF StepValidate, GatedStep
<1>5. CASE StepPrepareHugepages
  BY <1>5 DEF StepPrepareHugepages, Provisioned, ProvisioningFails
<1>6. CASE StepPreparePci
  <2>1. CASE StageSucceeds
    BY <2>1 DEF StageSucceeds
  <2>2. CASE StageFails /\ StepFails
    <3>1. VmLive => AllOnVfio'
      BY <2>2, StageKeepsVfio
    <3> QED  BY <1>6, <2>2, <3>1 DEF StepPreparePci
  <2> QED  BY <1>6, <2>1, <2>2 DEF StepPreparePci
<1>7. CASE StepReserveCpus
  BY <1>7 DEF StepReserveCpus, GatedStep
<1>8. CASE StepLaunchQemu
  <2>1. AllOnVfio'
    BY <1>8 DEF StepLaunchQemu
  <2> QED  BY <2>1
<1>9. CASE StepDetectThreads
  BY <1>9 DEF StepDetectThreads, ThreadStep, VcpusVisible
<1>10. CASE StepPinVcpus
  BY <1>10 DEF StepPinVcpus, ThreadStep, VcpusVisible
<1>11. CASE StepDetectMsi
  BY <1>11 DEF StepDetectMsi
<1>12. CASE StepPinIrqs
  BY <1>12 DEF StepPinIrqs
<1>13. CASE StepPeripheralHooks
  BY <1>13 DEF StepPeripheralHooks, DdcGate, PublishPower, SetInput
<1>14. CASE DriveSteady
  BY <1>14 DEF DriveSteady
<1>15. CASE BeginTerminate
  BY <1>15 DEF BeginTerminate, Terminable
<1>16. CASE StepTeardown
  <2>1. AllOnVfio => AllOnVfio'
    BY <1>16, RestoreKeepsVfio DEF StepTeardown
  <2> QED  BY <1>16, <2>1 DEF StepTeardown
<1>17. CASE StepCleanup
  BY <1>17 DEF StepCleanup
<1>18. CASE DetectGuestExit
  BY <1>18 DEF DetectGuestExit
<1>19. CASE FinishTerminate
  BY <1>19 DEF FinishTerminate
<1>20. ASSUME NEW p \in Pid, QemuExit(p) PROVE VfioInv'
  BY <1>20 DEF QemuExit
<1>21. ASSUME NEW p \in Pid, WorkerPins(p) PROVE VfioInv'
  BY <1>21 DEF WorkerPins
<1>22. ASSUME NEW p \in Pid, WorkerAborts(p) PROVE VfioInv'
  BY <1>22 DEF WorkerAborts
<1>23. ASSUME NEW p \in Pid, WorkerFinishes(p) PROVE VfioInv'
  BY <1>23 DEF WorkerFinishes, SetInput
<1>24. CASE UNCHANGED vars
  BY <1>24 DEF vars
<1> QED
  BY <1>1, <1>2, <1>3, <1>4, <1>5, <1>6, <1>7, <1>8, <1>9, <1>10, <1>11,
     <1>12, <1>13, <1>14, <1>15, <1>16, <1>17, <1>18, <1>19, <1>20, <1>21,
     <1>22, <1>23, <1>24 DEF Next, DaemonStep, WorkerStep

\* No retry, teardown or leftover process makes a QEMU run without its devices.
THEOREM QemuAlwaysOnVfio == Spec => []QemuOnVfio
<1>1. Init => VfioInv
  BY DEF Init, VfioInv, VmLive, Staged, Launched
<1>2. VfioInv => QemuOnVfio
  BY DEF VfioInv, VmLive, AllOnVfio, QemuOnVfio
<1> QED  BY <1>1, <1>2, TypeCorrect, VfioStep, PTL DEF Spec

-----------------------------------------------------------------------------
(* The records are true.                                                   *)

\* All a step can do to the bindings and their records.
BindingsChange ==
    \/ UNCHANGED vfioVars
    \/ transitions' = {} /\ UNCHANGED <<driver, boot>>
    \/ StageSucceeds \/ StageFails
    \/ Restore

\* Every step changes the bindings and their records in one of these ways.
LEMMA BindingsStep == [Next]_vars => BindingsChange
<1> SUFFICES ASSUME [Next]_vars PROVE BindingsChange
  OBVIOUS
<1> USE DEF BindingsChange, vfioVars
<1>1. CASE Start
  BY <1>1 DEF Start, NeedNew
<1>2. CASE Stop
  BY <1>2 DEF Stop
<1>3. CASE StepInit
  BY <1>3 DEF StepInit, GatedStep
<1>4. CASE StepValidate
  BY <1>4 DEF StepValidate, GatedStep
<1>5. CASE StepPrepareHugepages
  BY <1>5 DEF StepPrepareHugepages
<1>6. CASE StepPreparePci
  BY <1>6 DEF StepPreparePci
<1>7. CASE StepReserveCpus
  BY <1>7 DEF StepReserveCpus, GatedStep
<1>8. CASE StepLaunchQemu
  BY <1>8 DEF StepLaunchQemu
<1>9. CASE StepDetectThreads
  BY <1>9 DEF StepDetectThreads, ThreadStep
<1>10. CASE StepPinVcpus
  BY <1>10 DEF StepPinVcpus, ThreadStep
<1>11. CASE StepDetectMsi
  BY <1>11 DEF StepDetectMsi
<1>12. CASE StepPinIrqs
  BY <1>12 DEF StepPinIrqs
<1>13. CASE StepPeripheralHooks
  BY <1>13 DEF StepPeripheralHooks, DdcGate
<1>14. CASE DriveSteady
  BY <1>14 DEF DriveSteady
<1>15. CASE BeginTerminate
  BY <1>15 DEF BeginTerminate
<1>16. CASE StepTeardown
  BY <1>16 DEF StepTeardown
<1>17. CASE StepCleanup
  BY <1>17 DEF StepCleanup
<1>18. CASE DetectGuestExit
  BY <1>18 DEF DetectGuestExit
<1>19. CASE FinishTerminate
  BY <1>19 DEF FinishTerminate
<1>20. ASSUME NEW p \in Pid, QemuExit(p) PROVE BindingsChange
  BY <1>20 DEF QemuExit
<1>21. ASSUME NEW p \in Pid, WorkerPins(p) PROVE BindingsChange
  BY <1>21 DEF WorkerPins
<1>22. ASSUME NEW p \in Pid, WorkerAborts(p) PROVE BindingsChange
  BY <1>22 DEF WorkerAborts
<1>23. ASSUME NEW p \in Pid, WorkerFinishes(p) PROVE BindingsChange
  BY <1>23 DEF WorkerFinishes
<1>24. CASE UNCHANGED vars
  BY <1>24 DEF vars
<1> QED
  BY <1>1, <1>2, <1>3, <1>4, <1>5, <1>6, <1>7, <1>8, <1>9, <1>10, <1>11,
     <1>12, <1>13, <1>14, <1>15, <1>16, <1>17, <1>18, <1>19, <1>20, <1>21,
     <1>22, <1>23, <1>24 DEF Next, DaemonStep, WorkerStep

\* With RecordsTruthful, what staging relies on: a device on a host driver had
\* one when the daemon started.
RecordInv ==
    /\ RecordsTruthful
    /\ \A d \in Device : driver[d] = "host" => boot[d] = "host"

\* Staging, whatever comes of it, records and moves only what it may.
LEMMA StageTruthful ==
  ASSUME TypeOK, RecordInv, StageSucceeds \/ StageFails
  PROVE  RecordInv'
<1> USE DEF RecordInv, RecordsTruthful, TypeOK
<1> DEFINE Recorded(S) == transitions \cup {RecordOf(d) : d \in S}
<1>1. ASSUME NEW S \in SUBSET ToBind, NEW t \in Recorded(S)
      PROVE  /\ t.from = "host" => boot[t.dev] = "host"
             /\ boot[t.dev] # "vfio"
  BY <1>1 DEF RecordOf, ToBind
<1>2. ASSUME PlanAccepted, NEW d \in Device, d \in Display \/ boot[d] = "vfio"
      PROVE  driver[d] = "vfio"
  BY <1>2 DEF PlanAccepted
<1>3. ASSUME PlanAccepted, NEW done \in SUBSET ToBind, NEW lost,
             driver' = AfterBinds(done, lost)
      PROVE  /\ \A d \in Device : d \in Display \/ boot[d] = "vfio"
                                    => driver'[d] = boot[d]
             /\ \A d \in Device : driver'[d] # "host"
  BY <1>2, <1>3 DEF AfterBinds, PlanAccepted, ToBind
<1>4. CASE StageSucceeds
  BY <1>1, <1>3, <1>4 DEF StageSucceeds
<1>5. CASE StagePlanRefused
  BY <1>5 DEF StagePlanRefused, vfioVars
<1>6. CASE StageUnbindFails
  BY <1>2, <1>6 DEF StageUnbindFails, ToUnbind
<1>7. CASE StageBindFails
  <2>1. PICK d \in ToBind, lost \in SUBSET Device :
           LET done == {e \in ToBind : e < d} IN
           /\ driver' = AfterBinds(done, lost)
           /\ transitions' = Recorded(done \cup {d})
    BY <1>7 DEF StageBindFails, Unnoticed, ToBind
  <2> QED  BY <1>1, <1>3, <1>7, <2>1, ZenonT(30) DEF StageBindFails
<1>8. CASE StageVerifyFails
  BY <1>1, <1>3, <1>8 DEF StageVerifyFails
<1> QED  BY <1>4, <1>5, <1>6, <1>7, <1>8 DEF StageFails

\* The restore gives a device only the driver it was found on.
LEMMA RestoreTruthful ==
  ASSUME TypeOK, RecordInv, Restore
  PROVE  RecordInv'
<1>1. \A d \in ToRestore : boot[d] = "host"
  BY DEF RecordInv, RecordsTruthful, ToRestore
<1>2. \A d \in Device : driver'[d] # driver[d] =>
                          d \in ToRestore /\ driver[d] = "none" /\ driver'[d] = "host"
  BY DEF TypeOK, Restore, KernelBind
<1> QED  BY <1>1, <1>2 DEF RecordInv, RecordsTruthful, Restore, TypeOK

\* Every step keeps the records true.
LEMMA RecordStep == TypeOK /\ RecordInv /\ [Next]_vars => RecordInv'
<1> SUFFICES ASSUME TypeOK, RecordInv, [Next]_vars PROVE RecordInv'
  OBVIOUS
<1>1. CASE UNCHANGED vfioVars
  BY <1>1 DEF RecordInv, RecordsTruthful, vfioVars
<1>2. CASE transitions' = {} /\ UNCHANGED <<driver, boot>>
  BY <1>2 DEF RecordInv, RecordsTruthful
<1> QED
  BY <1>1, <1>2, BindingsStep, StageTruthful, RestoreTruthful DEF BindingsChange

\* Through failed and repeated stagings, a record never names a driver the
\* device did not have, and dedicated devices and displays are left alone.
THEOREM RecordsAlwaysTruthful == Spec => []RecordsTruthful
<1>1. Init => RecordInv
  BY DEF Init, VfioInit, RecordInv, RecordsTruthful
<1> QED  BY <1>1, TypeCorrect, RecordStep, PTL DEF Spec, RecordInv

-----------------------------------------------------------------------------
(* The process the daemon holds or waits for.                              *)

\* Of HandleMatchesPhase, the part that holds whatever fails.
HandleInv ==
    /\ qemu # None => state \in Launched /\ waiting = None /\ proc[qemu] # "free"
    /\ waiting # None => state \in Launched /\ proc[waiting] # "free"

\* Every step keeps a held, or awaited, process inside the launched states.
LEMMA HandleStep == TypeOK /\ HandleInv /\ [Next]_vars => HandleInv'
<1> SUFFICES ASSUME TypeOK, HandleInv, [Next]_vars PROVE HandleInv'
  OBVIOUS
<1> USE NoneAssumption DEF TypeOK, HandleInv, Launched, VmState, BringUp, vfioVars,
            ctlVars, procVars, irqVars, hpVars, perVars, DrivesUp, DrivesDown,
            Advance, StepFails
<1>1. CASE Start
  BY <1>1 DEF Start, NeedNew
<1>2. CASE Stop
  BY <1>2 DEF Stop
<1>3. CASE StepInit
  BY <1>3 DEF StepInit, GatedStep
<1>4. CASE StepValidate
  BY <1>4 DEF StepValidate, GatedStep
<1>5. CASE StepPrepareHugepages
  BY <1>5 DEF StepPrepareHugepages
<1>6. CASE StepPreparePci
  BY <1>6 DEF StepPreparePci
<1>7. CASE StepReserveCpus
  BY <1>7 DEF StepReserveCpus, GatedStep
<1>8. CASE StepLaunchQemu
  BY <1>8 DEF StepLaunchQemu, LgFile
<1>9. CASE StepDetectThreads
  BY <1>9 DEF StepDetectThreads, ThreadStep, VcpusVisible
<1>10. CASE StepPinVcpus
  BY <1>10 DEF StepPinVcpus, ThreadStep, VcpusVisible
<1>11. CASE StepDetectMsi
  BY <1>11 DEF StepDetectMsi
<1>12. CASE StepPinIrqs
  BY <1>12 DEF StepPinIrqs
<1>13. CASE StepPeripheralHooks
  BY <1>13 DEF StepPeripheralHooks, DdcGate
<1>14. CASE DriveSteady
  BY <1>14 DEF DriveSteady
<1>15. CASE BeginTerminate
  BY <1>15 DEF BeginTerminate, Terminable
<1>16. CASE StepTeardown
  BY <1>16 DEF StepTeardown
<1>17. CASE StepCleanup
  BY <1>17 DEF StepCleanup
<1>18. CASE DetectGuestExit
  BY <1>18 DEF DetectGuestExit
<1>19. CASE FinishTerminate
  BY <1>19 DEF FinishTerminate
<1>20. ASSUME NEW p \in Pid, QemuExit(p) PROVE HandleInv'
  BY <1>20 DEF QemuExit
<1>21. ASSUME NEW p \in Pid, WorkerPins(p) PROVE HandleInv'
  BY <1>21 DEF WorkerPins
<1>22. ASSUME NEW p \in Pid, WorkerAborts(p) PROVE HandleInv'
  BY <1>22 DEF WorkerAborts
<1>23. ASSUME NEW p \in Pid, WorkerFinishes(p) PROVE HandleInv'
  BY <1>23 DEF WorkerFinishes
<1>24. CASE UNCHANGED vars
  BY <1>24 DEF vars
<1> QED
  BY <1>1, <1>2, <1>3, <1>4, <1>5, <1>6, <1>7, <1>8, <1>9, <1>10, <1>11,
     <1>12, <1>13, <1>14, <1>15, <1>16, <1>17, <1>18, <1>19, <1>20, <1>21,
     <1>22, <1>23, <1>24 DEF Next, DaemonStep, WorkerStep

\* A held or awaited process belongs to a launched machine.
LEMMA HandleAlways == Spec => []HandleInv
<1>1. Init => HandleInv
  BY DEF Init, HandleInv
<1> QED  BY <1>1, TypeCorrect, HandleStep, PTL DEF Spec

\* The two failures after which a QEMU runs that nothing has a handle of.
NoOrphans == "cgroup" \notin Faults /\ "sigterm" \notin Faults

\* Both properties of the tracked process; each needs the other, and HandleInv.
TrackInv == SingleTrackedQemu /\ HandleMatchesPhase

\* Without the failures that lose a handle, no step leaves a process untracked.
LEMMA TrackStep ==
  ASSUME NoOrphans
  PROVE  TypeOK /\ TrackInv /\ [Next]_vars => TrackInv'
<1> SUFFICES ASSUME TypeOK, TrackInv, [Next]_vars PROVE TrackInv'
  OBVIOUS
<1> USE NoneAssumption, NoOrphans
        DEF NoOrphans, TypeOK, TrackInv, SingleTrackedQemu, HandleMatchesPhase,
            Launched, VmState, BringUp, vfioVars, ctlVars, procVars, irqVars,
            hpVars, perVars, DrivesUp, DrivesDown, Advance, StepFails
<1>1. CASE Start
  BY <1>1 DEF Start, NeedNew
<1>2. CASE Stop
  BY <1>2 DEF Stop
<1>3. CASE StepInit
  BY <1>3 DEF StepInit, GatedStep
<1>4. CASE StepValidate
  BY <1>4 DEF StepValidate, GatedStep
<1>5. CASE StepPrepareHugepages
  BY <1>5 DEF StepPrepareHugepages
<1>6. CASE StepPreparePci
  BY <1>6 DEF StepPreparePci
<1>7. CASE StepReserveCpus
  BY <1>7 DEF StepReserveCpus, GatedStep
<1>8. CASE StepLaunchQemu
  BY <1>8 DEF StepLaunchQemu, LgFile
<1>9. CASE StepDetectThreads
  BY <1>9 DEF StepDetectThreads, ThreadStep, VcpusVisible
<1>10. CASE StepPinVcpus
  BY <1>10 DEF StepPinVcpus, ThreadStep, VcpusVisible
<1>11. CASE StepDetectMsi
  BY <1>11 DEF StepDetectMsi
<1>12. CASE StepPinIrqs
  BY <1>12 DEF StepPinIrqs
<1>13. CASE StepPeripheralHooks
  BY <1>13 DEF StepPeripheralHooks, DdcGate
<1>14. CASE DriveSteady
  BY <1>14 DEF DriveSteady
<1>15. CASE BeginTerminate
  BY <1>15 DEF BeginTerminate, Terminable
<1>16. CASE StepTeardown
  BY <1>16 DEF StepTeardown
<1>17. CASE StepCleanup
  BY <1>17 DEF StepCleanup
<1>18. CASE DetectGuestExit
  BY <1>18 DEF DetectGuestExit
<1>19. CASE FinishTerminate
  BY <1>19 DEF FinishTerminate
<1>20. ASSUME NEW p \in Pid, QemuExit(p) PROVE TrackInv'
  BY <1>20 DEF QemuExit
<1>21. ASSUME NEW p \in Pid, WorkerPins(p) PROVE TrackInv'
  BY <1>21 DEF WorkerPins
<1>22. ASSUME NEW p \in Pid, WorkerAborts(p) PROVE TrackInv'
  BY <1>22 DEF WorkerAborts
<1>23. ASSUME NEW p \in Pid, WorkerFinishes(p) PROVE TrackInv'
  BY <1>23 DEF WorkerFinishes
<1>24. CASE UNCHANGED vars
  BY <1>24 DEF vars
<1> QED
  BY <1>1, <1>2, <1>3, <1>4, <1>5, <1>6, <1>7, <1>8, <1>9, <1>10, <1>11,
     <1>12, <1>13, <1>14, <1>15, <1>16, <1>17, <1>18, <1>19, <1>20, <1>21,
     <1>22, <1>23, <1>24 DEF Next, DaemonStep, WorkerStep

\* Where the launch and the SIGTERM do not fail, no restart, retry or failure
\* leaves a QEMU, running or unreaped, that the daemon has lost.
THEOREM QemuAlwaysTracked ==
  ASSUME NoOrphans PROVE Spec => []SingleTrackedQemu
<1>1. Init => TrackInv
  BY DEF Init, TrackInv, SingleTrackedQemu, HandleMatchesPhase, Launched
<1>2. TypeOK /\ TrackInv /\ [Next]_vars => TrackInv'
  BY TrackStep
<1> QED  BY <1>1, <1>2, TypeCorrect, PTL DEF Spec, TrackInv

\* The handle is there from the launch to the termination, and only then.
THEOREM HandleAlwaysMatches ==
  ASSUME NoOrphans PROVE Spec => []HandleMatchesPhase
<1>1. Init => TrackInv
  BY DEF Init, TrackInv, SingleTrackedQemu, HandleMatchesPhase, Launched
<1>2. TypeOK /\ TrackInv /\ [Next]_vars => TrackInv'
  BY TrackStep
<1> QED  BY <1>1, <1>2, TypeCorrect, PTL DEF Spec, TrackInv

-----------------------------------------------------------------------------
(* The hugepages, and what teardown leaves.                                *)

\* The states after a PrepareHugepages that returned Ok.
Backed == {"PreparePci"} \cup Staged

\* The pages are there from provisioning to teardown, before the QEMU that uses
\* them exists and until after it has exited.
HugepagesInv ==
    "hugepages" \in Features /\ state \in Backed => hpActive /\ pool = "full"

\* Nothing takes the pool away between its provisioning and the Shutdown step.
LEMMA HugepagesStep == TypeOK /\ HugepagesInv /\ [Next]_vars => HugepagesInv'
<1> SUFFICES ASSUME TypeOK, HugepagesInv, [Next]_vars PROVE HugepagesInv'
  OBVIOUS
<1> USE DEF TypeOK, HugepagesInv, Backed, Staged, Launched, vfioVars, ctlVars,
            procVars, irqVars, hpVars, perVars, DrivesUp, DrivesDown, Advance,
            StepFails
<1>1. CASE Start
  BY <1>1 DEF Start, NeedNew
<1>2. CASE Stop
  BY <1>2 DEF Stop
<1>3. CASE StepInit
  BY <1>3 DEF StepInit, GatedStep
<1>4. CASE StepValidate
  BY <1>4 DEF StepValidate, GatedStep
<1>5. CASE StepPrepareHugepages
  BY <1>5 DEF StepPrepareHugepages, Provisioned, ProvisioningFails
<1>6. CASE StepPreparePci
  BY <1>6 DEF StepPreparePci
<1>7. CASE StepReserveCpus
  BY <1>7 DEF StepReserveCpus, GatedStep
<1>8. CASE StepLaunchQemu
  BY <1>8 DEF StepLaunchQemu
<1>9. CASE StepDetectThreads
  BY <1>9 DEF StepDetectThreads, ThreadStep
<1>10. CASE StepPinVcpus
  BY <1>10 DEF StepPinVcpus, ThreadStep
<1>11. CASE StepDetectMsi
  BY <1>11 DEF StepDetectMsi
<1>12. CASE StepPinIrqs
  BY <1>12 DEF StepPinIrqs
<1>13. CASE StepPeripheralHooks
  BY <1>13 DEF StepPeripheralHooks, DdcGate
<1>14. CASE DriveSteady
  BY <1>14 DEF DriveSteady
<1>15. CASE BeginTerminate
  BY <1>15 DEF BeginTerminate, Terminable
<1>16. CASE StepTeardown
  BY <1>16 DEF StepTeardown
<1>17. CASE StepCleanup
  BY <1>17 DEF StepCleanup
<1>18. CASE DetectGuestExit
  BY <1>18 DEF DetectGuestExit
<1>19. CASE FinishTerminate
  BY <1>19 DEF FinishTerminate
<1>20. ASSUME NEW p \in Pid, QemuExit(p) PROVE HugepagesInv'
  BY <1>20 DEF QemuExit
<1>21. ASSUME NEW p \in Pid, WorkerPins(p) PROVE HugepagesInv'
  BY <1>21 DEF WorkerPins
<1>22. ASSUME NEW p \in Pid, WorkerAborts(p) PROVE HugepagesInv'
  BY <1>22 DEF WorkerAborts
<1>23. ASSUME NEW p \in Pid, WorkerFinishes(p) PROVE HugepagesInv'
  BY <1>23 DEF WorkerFinishes
<1>24. CASE UNCHANGED vars
  BY <1>24 DEF vars
<1> QED
  BY <1>1, <1>2, <1>3, <1>4, <1>5, <1>6, <1>7, <1>8, <1>9, <1>10, <1>11,
     <1>12, <1>13, <1>14, <1>15, <1>16, <1>17, <1>18, <1>19, <1>20, <1>21,
     <1>22, <1>23, <1>24 DEF Next, DaemonStep, WorkerStep

\* A QEMU the daemon holds never loses its pages, whatever fails around it.
THEOREM HugepagesAlwaysHeld == Spec => []HugepagesHeld
<1>1. Init => HugepagesInv
  BY DEF Init, HugepagesInv, Backed, Staged, Launched
<1>2. HandleInv /\ HugepagesInv => HugepagesHeld
  BY DEF HandleInv, HugepagesInv, HugepagesHeld, Backed, Staged
<1> QED  BY <1>1, <1>2, TypeCorrect, HandleAlways, HugepagesStep, PTL DEF Spec

\* The power flag follows the relay and is never set without one.
RelayInv ==
    /\ relayOn => relay
    /\ "tasmota" \notin Features => ~relayOn
    /\ state \in Down => ~relayOn

\* Every step that moves the flag or the relay keeps the flag true.
LEMMA RelayStep == TypeOK /\ RelayInv /\ [Next]_vars => RelayInv'
<1> SUFFICES ASSUME TypeOK, RelayInv, [Next]_vars PROVE RelayInv'
  OBVIOUS
<1> USE DEF TypeOK, RelayInv, Down, vfioVars, ctlVars, procVars, irqVars, hpVars,
            perVars, DrivesUp, DrivesDown, Advance, StepFails
<1>1. CASE Start
  BY <1>1 DEF Start, NeedNew
<1>2. CASE Stop
  BY <1>2 DEF Stop
<1>3. CASE StepInit
  BY <1>3 DEF StepInit, GatedStep
<1>4. CASE StepValidate
  BY <1>4 DEF StepValidate, GatedStep
<1>5. CASE StepPrepareHugepages
  BY <1>5 DEF StepPrepareHugepages
<1>6. CASE StepPreparePci
  BY <1>6 DEF StepPreparePci
<1>7. CASE StepReserveCpus
  BY <1>7 DEF StepReserveCpus, GatedStep
<1>8. CASE StepLaunchQemu
  BY <1>8 DEF StepLaunchQemu
<1>9. CASE StepDetectThreads
  BY <1>9 DEF StepDetectThreads, ThreadStep
<1>10. CASE StepPinVcpus
  BY <1>10 DEF StepPinVcpus, ThreadStep
<1>11. CASE StepDetectMsi
  BY <1>11 DEF StepDetectMsi
<1>12. CASE StepPinIrqs
  BY <1>12 DEF StepPinIrqs
<1>13. CASE StepPeripheralHooks
  BY <1>13 DEF StepPeripheralHooks, DdcGate, PublishPower
<1>14. CASE DriveSteady
  BY <1>14 DEF DriveSteady
<1>15. CASE BeginTerminate
  BY <1>15 DEF BeginTerminate, Terminable
<1>16. CASE StepTeardown
  BY <1>16 DEF StepTeardown, PublishPower
<1>17. CASE StepCleanup
  BY <1>17 DEF StepCleanup
<1>18. CASE DetectGuestExit
  BY <1>18 DEF DetectGuestExit
<1>19. CASE FinishTerminate
  BY <1>19 DEF FinishTerminate
<1>20. ASSUME NEW p \in Pid, QemuExit(p) PROVE RelayInv'
  BY <1>20 DEF QemuExit
<1>21. ASSUME NEW p \in Pid, WorkerPins(p) PROVE RelayInv'
  BY <1>21 DEF WorkerPins
<1>22. ASSUME NEW p \in Pid, WorkerAborts(p) PROVE RelayInv'
  BY <1>22 DEF WorkerAborts
<1>23. ASSUME NEW p \in Pid, WorkerFinishes(p) PROVE RelayInv'
  BY <1>23 DEF WorkerFinishes
<1>24. CASE UNCHANGED vars
  BY <1>24 DEF vars
<1> QED
  BY <1>1, <1>2, <1>3, <1>4, <1>5, <1>6, <1>7, <1>8, <1>9, <1>10, <1>11,
     <1>12, <1>13, <1>14, <1>15, <1>16, <1>17, <1>18, <1>19, <1>20, <1>21,
     <1>22, <1>23, <1>24 DEF Next, DaemonStep, WorkerStep

\* A relay shown as powered is powered, however the publishes fail.
THEOREM TasmotaAlwaysTruthful == Spec => []TasmotaTruthful
<1>1. Init => RelayInv
  BY DEF Init, RelayInv
<1>2. RelayInv => TasmotaTruthful
  BY DEF RelayInv, TasmotaTruthful
<1> QED  BY <1>1, <1>2, TypeCorrect, RelayStep, PTL DEF Spec

\* The latch of the DDC gate is never set.
LatchInv == irqComplete = FALSE

\* The switch of the monitor to the VM, and when it is allowed.
SwitchAllowed ==
    monitor = "host" /\ monitor' = "vm" =>
        \E p \in Pid : <<p, "pinned">> \in workers

\* The latch stays clear, so of the two hooks only the worker's reaches the monitor.
LEMMA SwitchStep == LatchInv /\ [Next]_vars => LatchInv' /\ SwitchAllowed
<1> SUFFICES ASSUME LatchInv, [Next]_vars PROVE LatchInv' /\ SwitchAllowed
  OBVIOUS
<1> USE DEF LatchInv, SwitchAllowed, irqVars, perVars
<1>1. CASE Start
  BY <1>1 DEF Start
<1>2. CASE Stop
  BY <1>2 DEF Stop
<1>3. CASE StepInit
  BY <1>3 DEF StepInit, GatedStep
<1>4. CASE StepValidate
  BY <1>4 DEF StepValidate, GatedStep
<1>5. CASE StepPrepareHugepages
  BY <1>5 DEF StepPrepareHugepages
<1>6. CASE StepPreparePci
  BY <1>6 DEF StepPreparePci
<1>7. CASE StepReserveCpus
  BY <1>7 DEF StepReserveCpus, GatedStep
<1>8. CASE StepLaunchQemu
  BY <1>8 DEF StepLaunchQemu
<1>9. CASE StepDetectThreads
  BY <1>9 DEF StepDetectThreads, ThreadStep
<1>10. CASE StepPinVcpus
  BY <1>10 DEF StepPinVcpus, ThreadStep
<1>11. CASE StepDetectMsi
  BY <1>11 DEF StepDetectMsi
<1>12. CASE StepPinIrqs
  BY <1>12 DEF StepPinIrqs
<1>13. CASE StepPeripheralHooks
  BY <1>13 DEF StepPeripheralHooks, DdcGate
<1>14. CASE DriveSteady
  BY <1>14 DEF DriveSteady
<1>15. CASE BeginTerminate
  BY <1>15 DEF BeginTerminate
<1>16. CASE StepTeardown
  BY <1>16 DEF StepTeardown, SetInput
<1>17. CASE StepCleanup
  BY <1>17 DEF StepCleanup
<1>18. CASE DetectGuestExit
  BY <1>18 DEF DetectGuestExit
<1>19. CASE FinishTerminate
  BY <1>19 DEF FinishTerminate
<1>20. ASSUME NEW p \in Pid, QemuExit(p) PROVE LatchInv' /\ SwitchAllowed
  BY <1>20 DEF QemuExit
<1>21. ASSUME NEW p \in Pid, WorkerPins(p) PROVE LatchInv' /\ SwitchAllowed
  BY <1>21 DEF WorkerPins
<1>22. ASSUME NEW p \in Pid, WorkerAborts(p) PROVE LatchInv' /\ SwitchAllowed
  BY <1>22 DEF WorkerAborts
<1>23. ASSUME NEW p \in Pid, WorkerFinishes(p) PROVE LatchInv' /\ SwitchAllowed
  BY <1>23 DEF WorkerFinishes
<1>24. CASE UNCHANGED vars
  BY <1>24 DEF vars
<1> QED
  BY <1>1, <1>2, <1>3, <1>4, <1>5, <1>6, <1>7, <1>8, <1>9, <1>10, <1>11,
     <1>12, <1>13, <1>14, <1>15, <1>16, <1>17, <1>18, <1>19, <1>20, <1>21,
     <1>22, <1>23, <1>24 DEF Next, DaemonStep, WorkerStep

\* Nothing but a worker that has pinned every eligible device's IRQs takes the
\* monitor from the host to the VM.
THEOREM SwitchOnlyAfterIrqs == Spec => SwitchAfterIrqs
<1>1. Init => LatchInv
  BY DEF Init, LatchInv
<1>2. LatchInv /\ [Next]_vars => [SwitchAllowed]_vars
  BY SwitchStep
<1> QED  BY <1>1, <1>2, SwitchStep, PTL DEF Spec, SwitchAfterIrqs, SwitchAllowed

\* Past the Shutdown step the runtime claims no hugepages.
ReleasedInv == state \in Down => ~hpActive

\* The Shutdown step gives up the hugepages, and nothing takes them before a start.
LEMMA ReleasedStep == TypeOK /\ ReleasedInv /\ [Next]_vars => ReleasedInv'
<1> SUFFICES ASSUME TypeOK, ReleasedInv, [Next]_vars PROVE ReleasedInv'
  OBVIOUS
<1> USE DEF TypeOK, ReleasedInv, Down, vfioVars, ctlVars, procVars, irqVars, hpVars,
            perVars, DrivesUp, DrivesDown, Advance, StepFails
<1>1. CASE Start
  BY <1>1 DEF Start, NeedNew
<1>2. CASE Stop
  BY <1>2 DEF Stop
<1>3. CASE StepInit
  BY <1>3 DEF StepInit, GatedStep
<1>4. CASE StepValidate
  BY <1>4 DEF StepValidate, GatedStep
<1>5. CASE StepPrepareHugepages
  BY <1>5 DEF StepPrepareHugepages
<1>6. CASE StepPreparePci
  BY <1>6 DEF StepPreparePci
<1>7. CASE StepReserveCpus
  BY <1>7 DEF StepReserveCpus, GatedStep
<1>8. CASE StepLaunchQemu
  BY <1>8 DEF StepLaunchQemu
<1>9. CASE StepDetectThreads
  BY <1>9 DEF StepDetectThreads, ThreadStep
<1>10. CASE StepPinVcpus
  BY <1>10 DEF StepPinVcpus, ThreadStep
<1>11. CASE StepDetectMsi
  BY <1>11 DEF StepDetectMsi
<1>12. CASE StepPinIrqs
  BY <1>12 DEF StepPinIrqs
<1>13. CASE StepPeripheralHooks
  BY <1>13 DEF StepPeripheralHooks, DdcGate
<1>14. CASE DriveSteady
  BY <1>14 DEF DriveSteady
<1>15. CASE BeginTerminate
  BY <1>15 DEF BeginTerminate, Terminable
<1>16. CASE StepTeardown
  BY <1>16 DEF StepTeardown, ReleaseHugepages
<1>17. CASE StepCleanup
  BY <1>17 DEF StepCleanup
<1>18. CASE DetectGuestExit
  BY <1>18 DEF DetectGuestExit
<1>19. CASE FinishTerminate
  BY <1>19 DEF FinishTerminate
<1>20. ASSUME NEW p \in Pid, QemuExit(p) PROVE ReleasedInv'
  BY <1>20 DEF QemuExit
<1>21. ASSUME NEW p \in Pid, WorkerPins(p) PROVE ReleasedInv'
  BY <1>21 DEF WorkerPins
<1>22. ASSUME NEW p \in Pid, WorkerAborts(p) PROVE ReleasedInv'
  BY <1>22 DEF WorkerAborts
<1>23. ASSUME NEW p \in Pid, WorkerFinishes(p) PROVE ReleasedInv'
  BY <1>23 DEF WorkerFinishes
<1>24. CASE UNCHANGED vars
  BY <1>24 DEF vars
<1> QED
  BY <1>1, <1>2, <1>3, <1>4, <1>5, <1>6, <1>7, <1>8, <1>9, <1>10, <1>11,
     <1>12, <1>13, <1>14, <1>15, <1>16, <1>17, <1>18, <1>19, <1>20, <1>21,
     <1>22, <1>23, <1>24 DEF Next, DaemonStep, WorkerStep

\* Nothing of the VM is left with the daemon past its Shutdown step.
THEOREM TeardownAlwaysComplete ==
  ASSUME NoOrphans PROVE Spec => []TeardownComplete
<1>1. Init => ReleasedInv /\ RelayInv
  BY DEF Init, ReleasedInv, RelayInv
<1>2. HandleInv /\ SingleTrackedQemu /\ ReleasedInv /\ RelayInv /\ TypeOK
        => TeardownComplete
  <2> SUFFICES ASSUME HandleInv, SingleTrackedQemu, ReleasedInv, RelayInv, TypeOK,
                      state \in Down
               PROVE  TeardownComplete
    BY DEF TeardownComplete
  <2>1. qemu = None /\ waiting = None
    BY DEF HandleInv, Down, Launched
  <2>2. \A p \in Pid : proc[p] = "free"
    BY <2>1, NoneAssumption DEF SingleTrackedQemu
  <2> QED  BY <2>2 DEF TeardownComplete, ReleasedInv, RelayInv
<1>3. Spec => []SingleTrackedQemu
  BY QemuAlwaysTracked
<1> QED
  BY <1>1, <1>2, <1>3, TypeCorrect, HandleAlways, ReleasedStep, RelayStep, PTL
     DEF Spec

-----------------------------------------------------------------------------
(* The lifecycle implements the abstract VM.                               *)

\* A QEMU runs only in the phases between its launch and its termination.
LEMMA LiveIsLaunched ==
  ASSUME TypeOK, TrackInv, VmLive
  PROVE  state \in Launched
  BY NoneAssumption DEF TypeOK, TrackInv, SingleTrackedQemu, HandleMatchesPhase, VmLive

\* The view and the guest of a state in terms of the machine's state and of
\* whether a QEMU runs.
Projection(v, g) ==
    /\ state \in BringUp => v = "Starting"
    /\ state = "Steady" => v = "Running"
    /\ state \in {"Shutdown", "Cleanup"} => v = "ShuttingDown"
    /\ state = "Idle" => v = "Stopped"
    /\ VmLive => g = "live"
    /\ ~VmLive /\ state \in PreLaunch \cup {"Idle"} => g = "absent"
    /\ ~VmLive /\ state \notin PreLaunch \cup {"Idle"} => g = "gone"

\* The projection, written without CASE.
LEMMA Projected == Projection(View, Guest)
<1>1. VmLive => Guest = "live"
  BY DEF VmLive, Guest
<1>2. ~VmLive /\ state \in PreLaunch \cup {"Idle"} => Guest = "absent"
  BY DEF VmLive, Guest
<1>3. ~VmLive /\ state \notin PreLaunch \cup {"Idle"} => Guest = "gone"
  BY DEF VmLive, Guest
<1>4. /\ state \in BringUp => View = "Starting"
      /\ state = "Steady" => View = "Running"
      /\ state \in {"Shutdown", "Cleanup"} => View = "ShuttingDown"
      /\ state = "Idle" => View = "Stopped"
  BY DEF View, BringUp
<1> QED  BY <1>1, <1>2, <1>3, <1>4 DEF Projection

\* Every step maps to a step of AbstractVm, or leaves its variables alone.
LEMMA AbstractStep ==
  ASSUME NoOrphans, TypeOK, TrackInv, [Next]_vars
  PROVE  [Abs!Next]_<<View, Guest>>
<1>1. Projection(View, Guest)
  BY Projected
<1>2. Projection(View, Guest)'
  BY Projected, PTL
<1>3. VmLive => state \in Launched
  BY LiveIsLaunched
<1> USE <1>1, <1>2, <1>3, NoOrphans
        DEF Projection, Abs!Next, Abs!Begin, Abs!Boot, Abs!End, Abs!Ready,
            Abs!GoDown, Abs!Finish, NoOrphans, TypeOK, VmLive, Launched, PreLaunch,
            VmState, BringUp, vfioVars, ctlVars, procVars, irqVars, hpVars, perVars,
            DrivesUp, DrivesDown, Advance, StepFails
<1>4. CASE Start
  <2>1. CASE NeedNew
    BY <1>4, <2>1 DEF Start, NeedNew
  <2>2. CASE ~NeedNew
    BY <1>4, <2>2 DEF Start
  <2> QED  BY <2>1, <2>2
<1>5. CASE Stop
  BY <1>5 DEF Stop
<1>6. CASE StepInit
  BY <1>6 DEF StepInit, GatedStep
<1>7. CASE StepValidate
  BY <1>7 DEF StepValidate, GatedStep
<1>8. CASE StepPrepareHugepages
  BY <1>8 DEF StepPrepareHugepages
<1>9. CASE StepPreparePci
  BY <1>9 DEF StepPreparePci
<1>10. CASE StepReserveCpus
  BY <1>10 DEF StepReserveCpus, GatedStep
<1>11. CASE StepLaunchQemu
  BY <1>11 DEF StepLaunchQemu
<1>12. CASE StepDetectThreads
  BY <1>12 DEF StepDetectThreads, ThreadStep, VcpusVisible
<1>13. CASE StepPinVcpus
  BY <1>13 DEF StepPinVcpus, ThreadStep, VcpusVisible
<1>14. CASE StepDetectMsi
  BY <1>14 DEF StepDetectMsi
<1>15. CASE StepPinIrqs
  BY <1>15 DEF StepPinIrqs
<1>16. CASE StepPeripheralHooks
  BY <1>16 DEF StepPeripheralHooks, DdcGate
<1>17. CASE DriveSteady
  BY <1>17 DEF DriveSteady
<1>18. CASE BeginTerminate
  <2>1. CASE qemu = None
    <3>1. ~VmLive
      BY <1>18, <2>1, NoneAssumption
         DEF BeginTerminate, TrackInv, SingleTrackedQemu
    <3> QED  BY <1>18, <2>1, <3>1 DEF BeginTerminate, Terminable
  <2>2. CASE qemu # None
    BY <1>18, <2>2 DEF BeginTerminate, Terminable
  <2> QED  BY <2>1, <2>2
<1>19. CASE StepTeardown
  BY <1>19 DEF StepTeardown
<1>20. CASE StepCleanup
  BY <1>20 DEF StepCleanup
<1>21. CASE DetectGuestExit
  <2>1. ~VmLive /\ ~VmLive'
    BY <1>21, NoneAssumption DEF DetectGuestExit, TrackInv, SingleTrackedQemu
  <2> QED  BY <1>21, <2>1 DEF DetectGuestExit
<1>22. CASE FinishTerminate
  <2>1. state \in Launched /\ qemu = None
    BY <1>22 DEF FinishTerminate, TrackInv, HandleMatchesPhase
  <2>2. ~VmLive /\ ~VmLive'
    BY <1>22, <2>1, NoneAssumption DEF FinishTerminate, TrackInv, SingleTrackedQemu
  <2> QED  BY <1>22, <2>1, <2>2 DEF FinishTerminate
<1>23. ASSUME NEW p \in Pid, QemuExit(p) PROVE [Abs!Next]_<<View, Guest>>
  BY <1>23 DEF QemuExit
<1>24. ASSUME NEW p \in Pid, WorkerPins(p) PROVE [Abs!Next]_<<View, Guest>>
  BY <1>24 DEF WorkerPins
<1>25. ASSUME NEW p \in Pid, WorkerAborts(p) PROVE [Abs!Next]_<<View, Guest>>
  BY <1>25 DEF WorkerAborts
<1>26. ASSUME NEW p \in Pid, WorkerFinishes(p) PROVE [Abs!Next]_<<View, Guest>>
  BY <1>26 DEF WorkerFinishes
<1>27. CASE UNCHANGED vars
  BY <1>27 DEF vars
<1> QED
  BY <1>4, <1>5, <1>6, <1>7, <1>8, <1>9, <1>10, <1>11, <1>12, <1>13, <1>14,
     <1>15, <1>16, <1>17, <1>18, <1>19, <1>20, <1>21, <1>22, <1>23, <1>24,
     <1>25, <1>26, <1>27 DEF Next, DaemonStep, WorkerStep

\* Seen from outside, a VM is one guest per start, and none while the VM is shown
\* going down, through every failure, retry and exit.
THEOREM LifecycleImplementsAbstractVm ==
  ASSUME NoOrphans PROVE Spec => ImplementsAbstractVm
<1>1. Init => Abs!Init
  <2> SUFFICES ASSUME Init PROVE View = "Stopped" /\ Guest = "absent"
    BY DEF Abs!Init
  <2>1. state = "Idle" /\ ~VmLive
    BY DEF Init, VmLive
  <2> QED  BY <2>1, Projected DEF Projection
<1>2. Init => TrackInv
  BY DEF Init, TrackInv, SingleTrackedQemu, HandleMatchesPhase, Launched
<1>3. TypeOK /\ TrackInv /\ [Next]_vars => TrackInv'
  BY TrackStep
<1>4. TypeOK /\ TrackInv /\ [Next]_vars => [Abs!Next]_<<View, Guest>>
  BY AbstractStep
<1> QED
  BY <1>1, <1>2, <1>3, <1>4, TypeCorrect, PTL
     DEF Spec, ImplementsAbstractVm, Abs!Spec

-----------------------------------------------------------------------------
(* Where the host refuses no write, teardown leaves it clean.              *)

\* No write the daemon gives up on is lost: the failures that are left are those
\* of the steps that stop at once.
CleanHost ==
    Faults \cap {"hugepages", "hpwrite", "mqtt", "unbind", "bind", "restore",
                 "scan"} = {}

\* Every raised page and every powered relay has its flag in the runtime.
FlagInv ==
    /\ pool # "zero" => hpActive /\ "hugepages" \in Features
    /\ relay => relayOn

\* A device without the host driver it had has a record that names it.
UnboundInv ==
    \A d \in Device : driver[d] = "none" /\ boot[d] = "host" =>
        d \in ToRestore /\ state \notin Down

\* On a clean host the pool and the relay follow the runtime's flags.
LEMMA FlagStep ==
  ASSUME NoOrphans, CleanHost
  PROVE  TypeOK /\ TrackInv /\ RelayInv /\ ReleasedInv /\ FlagInv /\ [Next]_vars
           => FlagInv'
<1> SUFFICES ASSUME TypeOK, TrackInv, RelayInv, ReleasedInv, FlagInv, [Next]_vars
             PROVE  FlagInv'
  OBVIOUS
<1>0. VmLive => state \in Launched
  BY LiveIsLaunched
<1> USE <1>0, CleanHost
        DEF CleanHost, RelayInv, ReleasedInv, FlagInv, TypeOK, VmLive, Launched,
            Down, vfioVars, ctlVars, procVars, irqVars, hpVars, perVars, DrivesUp,
            DrivesDown, Advance, StepFails
<1>1. CASE Start
  BY <1>1 DEF Start, NeedNew
<1>2. CASE Stop
  BY <1>2 DEF Stop
<1>3. CASE StepInit
  BY <1>3 DEF StepInit, GatedStep
<1>4. CASE StepValidate
  BY <1>4 DEF StepValidate, GatedStep
<1>5. CASE StepPrepareHugepages
  BY <1>5 DEF StepPrepareHugepages, Provisioned, ProvisioningFails
<1>6. CASE StepPreparePci
  BY <1>6 DEF StepPreparePci
<1>7. CASE StepReserveCpus
  BY <1>7 DEF StepReserveCpus, GatedStep
<1>8. CASE StepLaunchQemu
  BY <1>8 DEF StepLaunchQemu
<1>9. CASE StepDetectThreads
  BY <1>9 DEF StepDetectThreads, ThreadStep
<1>10. CASE StepPinVcpus
  BY <1>10 DEF StepPinVcpus, ThreadStep
<1>11. CASE StepDetectMsi
  BY <1>11 DEF StepDetectMsi
<1>12. CASE StepPinIrqs
  BY <1>12 DEF StepPinIrqs
<1>13. CASE StepPeripheralHooks
  BY <1>13 DEF StepPeripheralHooks, DdcGate, PublishPower
<1>14. CASE DriveSteady
  BY <1>14 DEF DriveSteady
<1>15. CASE BeginTerminate
  BY <1>15 DEF BeginTerminate, Terminable
<1>16. CASE StepTeardown
  BY <1>16 DEF StepTeardown, ReleaseHugepages, PublishPower
<1>17. CASE StepCleanup
  BY <1>17 DEF StepCleanup
<1>18. CASE DetectGuestExit
  BY <1>18 DEF DetectGuestExit
<1>19. CASE FinishTerminate
  BY <1>19 DEF FinishTerminate
<1>20. ASSUME NEW p \in Pid, QemuExit(p) PROVE FlagInv'
  BY <1>20 DEF QemuExit
<1>21. ASSUME NEW p \in Pid, WorkerPins(p) PROVE FlagInv'
  BY <1>21 DEF WorkerPins
<1>22. ASSUME NEW p \in Pid, WorkerAborts(p) PROVE FlagInv'
  BY <1>22 DEF WorkerAborts
<1>23. ASSUME NEW p \in Pid, WorkerFinishes(p) PROVE FlagInv'
  BY <1>23 DEF WorkerFinishes
<1>24. CASE UNCHANGED vars
  BY <1>24 DEF vars
<1> QED
  BY <1>1, <1>2, <1>3, <1>4, <1>5, <1>6, <1>7, <1>8, <1>9, <1>10, <1>11,
     <1>12, <1>13, <1>14, <1>15, <1>16, <1>17, <1>18, <1>19, <1>20, <1>21,
     <1>22, <1>23, <1>24 DEF Next, DaemonStep, WorkerStep

\* A staging that fails, other than in an unbind, has recorded what it unbound.
LEMMA StageKeepsUnbound ==
  ASSUME TypeOK, CleanHost, StageFails,
         \A d \in Device : driver[d] = "none" /\ boot[d] = "host" => d \in ToRestore,
         \A d \in Device : driver[d] = "host" => boot[d] = "host"
  PROVE  \A d \in Device : driver'[d] = "none" /\ boot'[d] = "host" => d \in ToRestore'
<1>1. CASE StagePlanRefused
  BY <1>1 DEF StagePlanRefused, vfioVars, ToRestore
<1>2. CASE StageVerifyFails
  <2> SUFFICES ASSUME NEW d \in Device, driver'[d] = "none", boot'[d] = "host"
               PROVE  d \in ToRestore'
    OBVIOUS
  <2>1. boot' = boot /\ transitions' = transitions \cup {RecordOf(e) : e \in ToBind}
    BY <1>2 DEF StageVerifyFails
  <2>2. driver[d] # "vfio"
    BY <1>2 DEF StageVerifyFails, AfterBinds
  <2>3. CASE driver[d] = "none"
    BY <2>1, <2>3 DEF ToRestore
  <2>4. CASE driver[d] = "host"
    BY <2>1, <2>4 DEF ToRestore, RecordOf, ToBind
  <2> QED  BY <2>2, <2>3, <2>4 DEF TypeOK, Driver
<1> QED
  BY <1>1, <1>2 DEF StageFails, StageUnbindFails, StageBindFails, CleanHost

\* On a clean host a device is left without its driver only with a record of it.
LEMMA UnboundStep ==
  ASSUME CleanHost
  PROVE  TypeOK /\ RecordInv /\ UnboundInv /\ [Next]_vars => UnboundInv'
<1> SUFFICES ASSUME TypeOK, RecordInv, UnboundInv, [Next]_vars PROVE UnboundInv'
  OBVIOUS
<1> USE DEF UnboundInv, TypeOK, Down, ToRestore, vfioVars, ctlVars, procVars, irqVars,
            hpVars, perVars, DrivesUp, DrivesDown, Advance, StepFails
<1>1. CASE Start
  BY <1>1 DEF Start, NeedNew
<1>2. CASE Stop
  BY <1>2 DEF Stop
<1>3. CASE StepInit
  BY <1>3 DEF StepInit, GatedStep
<1>4. CASE StepValidate
  BY <1>4 DEF StepValidate, GatedStep
<1>5. CASE StepPrepareHugepages
  BY <1>5 DEF StepPrepareHugepages
<1>6. CASE StepPreparePci
  <2>1. CASE StageSucceeds
    BY <2>1 DEF StageSucceeds
  <2>2. CASE StageFails /\ StepFails
    <3>1. \A d \in Device :
             driver'[d] = "none" /\ boot'[d] = "host" => d \in ToRestore'
      BY <2>2, StageKeepsUnbound, CleanHost DEF RecordInv
    <3> QED  BY <1>6, <2>2, <3>1 DEF StepPreparePci
  <2> QED  BY <1>6, <2>1, <2>2 DEF StepPreparePci
<1>7. CASE StepReserveCpus
  BY <1>7 DEF StepReserveCpus, GatedStep
<1>8. CASE StepLaunchQemu
  BY <1>8 DEF StepLaunchQemu
<1>9. CASE StepDetectThreads
  BY <1>9 DEF StepDetectThreads, ThreadStep
<1>10. CASE StepPinVcpus
  BY <1>10 DEF StepPinVcpus, ThreadStep
<1>11. CASE StepDetectMsi
  BY <1>11 DEF StepDetectMsi
<1>12. CASE StepPinIrqs
  BY <1>12 DEF StepPinIrqs
<1>13. CASE StepPeripheralHooks
  BY <1>13 DEF StepPeripheralHooks, DdcGate
<1>14. CASE DriveSteady
  BY <1>14 DEF DriveSteady
<1>15. CASE BeginTerminate
  BY <1>15 DEF BeginTerminate, Terminable
<1>16. CASE StepTeardown
  <2>1. \A d \in Device : boot[d] = "host" => driver'[d] # "none"
    BY <1>16 DEF StepTeardown, Restore, KernelBind, CleanHost
  <2>2. boot' = boot
    BY <1>16 DEF StepTeardown, Restore
  <2> QED  BY <2>1, <2>2
<1>17. CASE StepCleanup
  BY <1>17 DEF StepCleanup
<1>18. CASE DetectGuestExit
  BY <1>18 DEF DetectGuestExit
<1>19. CASE FinishTerminate
  BY <1>19 DEF FinishTerminate
<1>20. ASSUME NEW p \in Pid, QemuExit(p) PROVE UnboundInv'
  BY <1>20 DEF QemuExit
<1>21. ASSUME NEW p \in Pid, WorkerPins(p) PROVE UnboundInv'
  BY <1>21 DEF WorkerPins
<1>22. ASSUME NEW p \in Pid, WorkerAborts(p) PROVE UnboundInv'
  BY <1>22 DEF WorkerAborts
<1>23. ASSUME NEW p \in Pid, WorkerFinishes(p) PROVE UnboundInv'
  BY <1>23 DEF WorkerFinishes
<1>24. CASE UNCHANGED vars
  BY <1>24 DEF vars
<1> QED
  BY <1>1, <1>2, <1>3, <1>4, <1>5, <1>6, <1>7, <1>8, <1>9, <1>10, <1>11,
     <1>12, <1>13, <1>14, <1>15, <1>16, <1>17, <1>18, <1>19, <1>20, <1>21,
     <1>22, <1>23, <1>24 DEF Next, DaemonStep, WorkerStep

\* A VM that is down leaves no page raised, no relay powered and no device without
\* the driver it had, however often its steps failed and were tried again.
THEOREM HostAlwaysClean ==
  ASSUME NoOrphans, CleanHost PROVE Spec => []HostBaseline
<1>1. Init => TrackInv /\ RelayInv /\ ReleasedInv /\ FlagInv /\ RecordInv /\ UnboundInv
  BY DEF Init, VfioInit, TrackInv, SingleTrackedQemu, HandleMatchesPhase, Launched,
         RelayInv, ReleasedInv, FlagInv, RecordInv, RecordsTruthful, UnboundInv
<1>2. TypeOK /\ TrackInv /\ [Next]_vars => TrackInv'
  BY TrackStep
<1>3. TypeOK /\ TrackInv /\ RelayInv /\ ReleasedInv /\ FlagInv /\ [Next]_vars
        => FlagInv'
  BY FlagStep
<1>4. TypeOK /\ RecordInv /\ UnboundInv /\ [Next]_vars => UnboundInv'
  BY UnboundStep
<1>5. TypeOK /\ RelayInv /\ ReleasedInv /\ FlagInv /\ RecordInv /\ UnboundInv
        => HostBaseline
  <2> SUFFICES ASSUME TypeOK, RelayInv, ReleasedInv, FlagInv, RecordInv, UnboundInv,
                      state \in Down
               PROVE  HostBaseline
    BY DEF HostBaseline
  <2>1. pool = "zero" /\ ~relay
    BY DEF RelayInv, ReleasedInv, FlagInv
  <2>2. ASSUME NEW d \in Device, boot[d] # "none" PROVE driver[d] # "none"
    BY <2>2 DEF TypeOK, Driver, RecordInv, RecordsTruthful, UnboundInv
  <2> QED  BY <2>1, <2>2 DEF HostBaseline
<1> QED
  BY <1>1, <1>2, <1>3, <1>4, <1>5, TypeCorrect, RelayStep, ReleasedStep, RecordStep,
     PTL DEF Spec

=============================================================================

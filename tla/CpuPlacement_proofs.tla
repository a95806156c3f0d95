-------------------------- MODULE CpuPlacement_proofs --------------------------
(***************************************************************************)
(* Proofs about CpuPlacement, for every set of VMs, CPUs, nodes and        *)
(* devices, every layout, and any number of CPUs that come and go.         *)
(***************************************************************************)
EXTENDS CpuPlacement, TLAPS

-----------------------------------------------------------------------------
(* Types.                                                                  *)

\* What PlacementTypeOK says, and that the variables it looks into are functions on
\* the VMs; the configuration stays the one chosen.
TypeInv ==
    /\ layout \in Layouts /\ numa \in BOOLEAN /\ known \in BOOLEAN /\ (known => numa)
    /\ DOMAIN work = Vm /\ done \in [Vm -> SUBSET Device]
    /\ PlacementTypeOK

\* The lists of a VM's configuration.
LEMMA LayoutFacts ==
  ASSUME layout \in Layouts, NEW v \in Vm
  PROVE  /\ layout[v].vm \in Seq(Cpu) /\ Len(layout[v].vm) \in Nat
         /\ DOMAIN layout[v].vm = 1..Len(layout[v].vm)
         /\ VmCpus(v) \subseteq Cpu /\ HostCpus(v) \subseteq Cpu
         /\ layout[v].vcpus \in Nat
         /\ \A i \in 1..Len(layout[v].vm) : VcpuCpu(v, i) \in VmCpus(v)
<1>1. layout[v] \in [vm : Seq(Cpu), host : SUBSET Cpu, vcpus : Nat]
  BY LayoutAssumption
<1>2. layout[v].vm \in Seq(Cpu) /\ layout[v].host \subseteq Cpu /\ layout[v].vcpus \in Nat
  BY <1>1
<1>3. /\ Len(layout[v].vm) \in Nat /\ DOMAIN layout[v].vm = 1..Len(layout[v].vm)
      /\ \A i \in DOMAIN layout[v].vm : layout[v].vm[i] \in Cpu
  BY <1>2
<1> QED  BY <1>2, <1>3 DEF VmCpus, HostCpus, VcpuCpu, Set

\* The lists do not change.
LEMMA ChosenKept ==
  ASSUME [PlacementNext]_cpVars
  PROVE  UNCHANGED hostVars
  BY DEF PlacementNext, cpVars, hostVars, Validate, ReserveCpus, Launch, PinVcpus, PinIrqs,
         WorkerStarts, WorkerFinishes, WorkerAborts, Down, WorkerPins, GuestEnables, CpuEvent

\* The files of the cgroups hold CPUs and nodes.
LEMMA FilesType ==
  ASSUME layout \in Layouts, NEW v \in Vm, NEW i \in 1..4
  PROVE  Files(v)[i] \subseteq Cpu \union Node
<1>1. \A cpus : NodesFor(cpus) \subseteq Node
  BY NodeAssumption DEF NodesFor
<1> QED  BY <1>1, LayoutFacts DEF Files

\* The plan of Validate has the type of one.
LEMMA PlanType ==
  ASSUME online \subseteq Cpu, NEW v \in Vm
  PROVE  BuildPlan(v) \in [cpus : SUBSET Cpu, nodes : SUBSET Node, spans : BOOLEAN,
                           dominant : SUBSET Node]
  BY DEF BuildPlan

\* At the start.
LEMMA TypeInitially == PlacementInit => TypeInv
<1> SUFFICES ASSUME PlacementInit PROVE TypeInv
  OBVIOUS
<1>1. stage \in [Vm -> Stages]
  BY DEF PlacementInit, Stages
<1>2. NoPlan \in [cpus : SUBSET Cpu, nodes : SUBSET Node, spans : BOOLEAN,
                  dominant : SUBSET Node]
  BY DEF NoPlan
<1>3. \A v \in Vm : DOMAIN work[v] = {}
  BY DEF PlacementInit
<1>4. \A v \in Vm : work[v] \in [DOMAIN work[v] -> (SUBSET VmCpus(v)) \ {{}}]
  BY <1>3 DEF PlacementInit
<1>5. switched \in [Vm -> BOOLEAN]
  BY Zenon DEF PlacementInit
<1>6. events \in 0..MaxEvents /\ vectors \in [Device -> 0..MaxVector]
  BY BoundAssumption DEF PlacementInit
<1> QED  BY <1>1, <1>2, <1>3, <1>4, <1>5, <1>6 DEF PlacementInit, TypeInv, PlacementTypeOK

\* Every step keeps the types.
LEMMA TypeStep ==
  ASSUME TypeInv, [PlacementNext]_cpVars
  PROVE  TypeInv'
<1>1. UNCHANGED hostVars /\ \A v \in Vm : VmCpus(v)' = VmCpus(v)
  BY ChosenKept DEF hostVars, VmCpus, Set
<1>2. /\ layout \in Layouts /\ online \subseteq Cpu /\ stage \in [Vm -> Stages]
      /\ group \in [1..4 -> SUBSET (Cpu \union Node)] /\ DOMAIN work = Vm
      /\ done \in [Vm -> SUBSET Device]
  BY DEF TypeInv, PlacementTypeOK
<1>3. ASSUME UNCHANGED <<work, done, online, plan, group, pins, worker, vectors, switched,
                         events>>,
             stage' \in [Vm -> Stages]
      PROVE  TypeInv'
  BY <1>1, <1>3 DEF TypeInv, PlacementTypeOK, hostVars
<1> USE DEF Goes, irqVars
<1>4. ASSUME NEW v \in Vm, Validate(v) PROVE TypeInv'
  <2>1. stage' \in [Vm -> Stages]
    BY <1>2, <1>4 DEF Validate, Stages
  <2>2. plan' \in [Vm -> [cpus : SUBSET Cpu, nodes : SUBSET Node, spans : BOOLEAN,
                          dominant : SUBSET Node]]
    BY <1>2, <1>4, PlanType, SMTT(30) DEF Validate, TypeInv, PlacementTypeOK
  <2>3. worker' \in [Vm -> {"none", "spawned", "polling", "ended"}]
    BY <1>4 DEF Validate, TypeInv, PlacementTypeOK
  <2>4. UNCHANGED <<work, done, online, group, pins, vectors, switched, events>>
    BY <1>4 DEF Validate
  <2> QED  BY <1>1, <2>1, <2>2, <2>3, <2>4 DEF TypeInv, PlacementTypeOK, hostVars
<1>5. ASSUME NEW v \in Vm, ReserveCpus(v) PROVE TypeInv'
  <2>1. stage' \in [Vm -> Stages]
    BY <1>2, <1>5 DEF ReserveCpus, Stages
  <2>2. group' \in [1..4 -> SUBSET (Cpu \union Node)]
    BY <1>2, <1>5, FilesType DEF ReserveCpus
  <2>3. UNCHANGED <<work, done, online, plan, pins, worker, vectors, switched, events>>
    BY <1>5 DEF ReserveCpus
  <2> QED  BY <1>1, <2>1, <2>2, <2>3 DEF TypeInv, PlacementTypeOK, hostVars
<1>6. ASSUME NEW v \in Vm, Launch(v) PROVE TypeInv'
  BY <1>2, <1>3, <1>6 DEF Launch, Stages
<1>7. ASSUME NEW v \in Vm, PinVcpus(v) PROVE TypeInv'
  <2>1. stage' \in [Vm -> Stages]
    BY <1>2, <1>7 DEF PinVcpus, Stages
  <2>2. 1..layout[v].vcpus \subseteq Nat
    BY <1>2, LayoutFacts
  <2>3. pins' \in [Vm -> SUBSET Nat]
    BY <1>7, <2>2 DEF PinVcpus, TypeInv, PlacementTypeOK
  <2>4. UNCHANGED <<work, done, online, plan, group, worker, vectors, switched, events>>
    BY <1>7 DEF PinVcpus
  <2> QED  BY <1>1, <2>1, <2>3, <2>4 DEF TypeInv, PlacementTypeOK, hostVars
<1>8. ASSUME NEW v \in Vm, PinIrqs(v) PROVE TypeInv'
  <2>1. stage' \in [Vm -> Stages]
    BY <1>2, <1>8 DEF PinIrqs, Stages
  <2> QED  BY <1>1, <1>8, <2>1 DEF PinIrqs, TypeInv, PlacementTypeOK, hostVars
<1>9. ASSUME NEW v \in Vm, WorkerStarts(v) PROVE TypeInv'
  <2>1. Eligible(v) \subseteq DevicesOf[v] /\ DevicesOf[v] \subseteq Device
    BY DeviceAssumption DEF Eligible
  <2>2. \A d \in Eligible(v) : Targets(v, d) \in (SUBSET VmCpus(v)) \ {{}}
    BY DEF Eligible, Targets
  <2>3. /\ work'[v] = [d \in Eligible(v) |-> Targets(v, d)] /\ done'[v] = {}
        /\ \A w \in Vm \ {v} : work'[w] = work[w] /\ done'[w] = done[w]
        /\ DOMAIN work' = Vm /\ done' \in [Vm -> SUBSET Device]
    BY <1>2, <1>9 DEF WorkerStarts
  <2>4. \A w \in Vm : /\ work'[w] \in [DOMAIN work'[w] -> (SUBSET VmCpus(w)) \ {{}}]
                      /\ DOMAIN work'[w] \subseteq DevicesOf[w]
                      /\ done'[w] \subseteq DOMAIN work'[w]
    BY <2>1, <2>2, <2>3 DEF TypeInv, PlacementTypeOK
  <2>5. worker' \in [Vm -> {"none", "spawned", "polling", "ended"}]
    BY <1>9 DEF WorkerStarts, TypeInv, PlacementTypeOK
  <2>6. UNCHANGED <<stage, online, plan, group, pins, vectors, switched, events>>
    BY <1>9 DEF WorkerStarts
  <2> QED  BY <1>1, <2>3, <2>4, <2>5, <2>6 DEF TypeInv, PlacementTypeOK, hostVars
<1>10. ASSUME NEW v \in Vm, NEW d \in Device, WorkerPins(v, d) PROVE TypeInv'
  <2>1. /\ done' = [done EXCEPT ![v] = @ \union {d}] /\ d \in DOMAIN work[v]
        /\ UNCHANGED <<stage, worker, work, online, plan, group, pins, vectors, switched, events>>
    BY <1>10 DEF WorkerPins
  <2>2. done' \in [Vm -> SUBSET Device] /\ \A w \in Vm : done'[w] \subseteq DOMAIN work[w]
    BY <1>2, <2>1 DEF TypeInv, PlacementTypeOK
  <2> QED  BY <1>1, <2>1, <2>2 DEF TypeInv, PlacementTypeOK, hostVars
<1>11. ASSUME NEW v \in Vm, WorkerFinishes(v) PROVE TypeInv'
  <2>1. switched' \in [Vm -> BOOLEAN]
    BY <1>11 DEF WorkerFinishes, TypeInv, PlacementTypeOK
  <2>2. worker' \in [Vm -> {"none", "spawned", "polling", "ended"}]
    BY <1>11 DEF WorkerFinishes, TypeInv, PlacementTypeOK
  <2>3. UNCHANGED <<stage, work, done, online, plan, group, pins, vectors, events>>
    BY <1>11 DEF WorkerFinishes
  <2> QED  BY <1>1, <2>1, <2>2, <2>3 DEF TypeInv, PlacementTypeOK, hostVars
<1>12. ASSUME NEW v \in Vm, WorkerAborts(v) PROVE TypeInv'
  BY <1>1, <1>12 DEF WorkerAborts, TypeInv, PlacementTypeOK, hostVars
<1>13. ASSUME NEW v \in Vm, Down(v) PROVE TypeInv'
  <2>1. stage' \in [Vm -> Stages]
    BY <1>2, <1>13 DEF Down, Stages
  <2>2. plan' \in [Vm -> [cpus : SUBSET Cpu, nodes : SUBSET Node, spans : BOOLEAN,
                          dominant : SUBSET Node]]
    BY <1>13 DEF Down, NoPlan, TypeInv, PlacementTypeOK
  <2>3. pins' \in [Vm -> SUBSET Nat] /\ vectors' \in [Device -> 0..MaxVector]
    BY <1>13, BoundAssumption DEF Down, TypeInv, PlacementTypeOK
  <2>4. switched' \in [Vm -> BOOLEAN]
    BY <1>13 DEF Down, TypeInv, PlacementTypeOK
  <2>5. UNCHANGED <<worker, work, done, online, group, events>>
    BY <1>13 DEF Down
  <2> QED  BY <1>1, <2>1, <2>2, <2>3, <2>4, <2>5 DEF TypeInv, PlacementTypeOK, hostVars
<1>14. ASSUME NEW v \in Vm, NEW d \in Device, GuestEnables(v, d) PROVE TypeInv'
  <2>1. vectors' \in [Device -> 0..MaxVector]
    BY <1>14, BoundAssumption DEF GuestEnables, TypeInv, PlacementTypeOK
  <2> QED  BY <1>1, <1>14, <2>1 DEF GuestEnables, TypeInv, PlacementTypeOK, hostVars
<1>15. ASSUME NEW c \in Cpu, CpuEvent(c) PROVE TypeInv'
  <2>1. events' \in 0..MaxEvents /\ online' \subseteq Cpu
    BY <1>2, <1>15, BoundAssumption DEF CpuEvent, TypeInv, PlacementTypeOK
  <2> QED  BY <1>1, <1>15, <2>1 DEF CpuEvent, TypeInv, PlacementTypeOK, hostVars
<1>16. CASE UNCHANGED cpVars
  BY <1>1, <1>3, <1>16, <1>2 DEF cpVars
<1> QED
  BY <1>4, <1>5, <1>6, <1>7, <1>8, <1>9, <1>10, <1>11, <1>12, <1>13, <1>14, <1>15, <1>16
     DEF PlacementNext

\* PlacementTypeOK, with what it rests on.
THEOREM PlacementTypeCorrect == PlacementSpec => []PlacementTypeOK
<1>1. TypeInv /\ [PlacementNext]_cpVars => TypeInv'
  BY TypeStep
<1>2. TypeInv => PlacementTypeOK
  BY DEF TypeInv
<1> QED  BY TypeInitially, <1>1, <1>2, PTL DEF PlacementSpec

-----------------------------------------------------------------------------
(* The IRQ worker.                                                         *)

\* What the worker's targets are, once computed.
LocalWork(v) ==
    \A d \in DOMAIN work[v] :
        /\ ~ AuxGpu(v, d)
        /\ numa /\ DevNode[d] >= 0 => \A c \in work[v][d] : NodeOf[c] = DevNode[d]

\* A worker that has not ended belongs to the guest that runs, if one does, as no
\* bring-up begins before it has ended; so what it has pinned has interrupts.
WorkerInv(v) ==
    /\ worker[v] \in {"spawned", "polling"} => stage[v] \in {"idle", "running"}
    /\ worker[v] = "polling" => DOMAIN work[v] # {}
    /\ worker[v] = "polling" /\ stage[v] # "idle" => \A d \in done[v] : vectors[d] > 0

IrqInv == \A v \in Vm : LocalWork(v) /\ WorkerInv(v)

\* Targets of the device's node have its CPUs only.
LEMMA TargetsLocal ==
  ASSUME NEW v \in Vm, NEW d \in Device, numa, DevNode[d] >= 0, NEW c \in Targets(v, d)
  PROVE  NodeOf[c] = DevNode[d]
  BY DEF Targets, Kin, NodeCpus

\* Every step keeps the targets local, and a worker with its guest.
LEMMA IrqStep ==
  ASSUME TypeInv, IrqInv, [PlacementNext]_cpVars
  PROVE  IrqInv'
<1> SUFFICES ASSUME NEW w \in Vm PROVE LocalWork(w)' /\ WorkerInv(w)'
  BY DEF IrqInv
<1>1. /\ LocalWork(w) /\ WorkerInv(w)
      /\ UNCHANGED numa /\ stage \in [Vm -> Stages] /\ DOMAIN work = Vm
      /\ done \in [Vm -> SUBSET Device] /\ done[w] \subseteq DevicesOf[w]
      /\ worker \in [Vm -> {"none", "spawned", "polling", "ended"}]
  BY ChosenKept DEF IrqInv, TypeInv, PlacementTypeOK, hostVars
<1>2. ASSUME UNCHANGED work PROVE LocalWork(w)'
  BY <1>1, <1>2 DEF LocalWork
<1> USE DEF Goes, irqVars
<1>3. ASSUME NEW v \in Vm, Validate(v) PROVE LocalWork(w)' /\ WorkerInv(w)'
  BY <1>1, <1>2, <1>3 DEF Validate, WorkerInv
<1>4. ASSUME NEW v \in Vm, ReserveCpus(v) \/ Launch(v) \/ PinVcpus(v)
      PROVE  LocalWork(w)' /\ WorkerInv(w)'
  <2>1. /\ UNCHANGED irqVars /\ \A u \in Vm \ {v} : stage'[u] = stage[u]
        /\ stage[v] \notin {"idle", "running"}
    BY <1>1, <1>4 DEF ReserveCpus, Launch, PinVcpus
  <2> QED  BY <1>1, <1>2, <2>1 DEF WorkerInv
<1>5. ASSUME NEW v \in Vm, PinIrqs(v) PROVE LocalWork(w)' /\ WorkerInv(w)'
  BY <1>1, <1>2, <1>5 DEF PinIrqs, WorkerInv
<1>6. ASSUME NEW v \in Vm, WorkerStarts(v) PROVE LocalWork(w)' /\ WorkerInv(w)'
  <2>1. CASE v = w
    <3> WorkerStarts(w)
      BY <1>6, <2>1
    <3>1. /\ work'[w] = [d \in Eligible(w) |-> Targets(w, d)] /\ done'[w] = {}
          /\ worker'[w] = (IF Eligible(w) = {} THEN "ended" ELSE "polling")
          /\ UNCHANGED <<stage, vectors>> /\ worker[w] = "spawned"
      BY <1>1 DEF WorkerStarts
    <3>2. \A d \in Eligible(w) : d \in Device /\ ~ AuxGpu(w, d)
      BY DeviceAssumption DEF Eligible
    <3>3. DOMAIN work'[w] = Eligible(w) /\ \A d \in Eligible(w) : work'[w][d] = Targets(w, d)
      BY <3>1
    <3>4. LocalWork(w)'
      BY <1>1, <3>2, <3>3, TargetsLocal DEF LocalWork
    <3>5. WorkerInv(w)'
      BY <1>1, <3>1, <3>3 DEF WorkerInv
    <3> QED  BY <3>4, <3>5
  <2>2. CASE v # w
    <3>1. work'[w] = work[w] /\ done'[w] = done[w] /\ worker'[w] = worker[w]
          /\ UNCHANGED <<stage, vectors>>
      BY <1>1, <1>6, <2>2 DEF WorkerStarts
    <3> QED  BY <1>1, <3>1 DEF LocalWork, WorkerInv
  <2> QED  BY <2>1, <2>2
<1>7. ASSUME NEW v \in Vm, NEW d \in Device, WorkerPins(v, d)
      PROVE  LocalWork(w)' /\ WorkerInv(w)'
  BY <1>1, <1>2, <1>7 DEF WorkerPins, WorkerInv
<1>8. ASSUME NEW v \in Vm, WorkerFinishes(v) \/ WorkerAborts(v)
      PROVE  LocalWork(w)' /\ WorkerInv(w)'
  BY <1>1, <1>2, <1>8 DEF WorkerFinishes, WorkerAborts, WorkerInv
<1>9. ASSUME NEW v \in Vm, Down(v) PROVE LocalWork(w)' /\ WorkerInv(w)'
  <2>1. CASE v = w
    BY <1>1, <1>2, <1>9, <2>1 DEF Down, WorkerInv
  <2>2. CASE v # w
    <3>1. \A d \in done[w] : d \in Device /\ d \notin DevicesOf[v]
      BY <1>1, <2>2, DeviceAssumption
    <3>2. \A d \in done[w] : vectors'[d] = vectors[d]
      BY <1>9, <3>1 DEF Down
    <3> QED  BY <1>1, <1>2, <1>9, <2>2, <3>2 DEF Down, WorkerInv
  <2> QED  BY <2>1, <2>2
<1>10. ASSUME NEW v \in Vm, NEW d \in Device, GuestEnables(v, d)
       PROVE  LocalWork(w)' /\ WorkerInv(w)'
  <2>1. \A e \in Device : vectors[e] > 0 => vectors'[e] > 0
    BY <1>10, BoundAssumption DEF GuestEnables, TypeInv, PlacementTypeOK
  <2> QED  BY <1>1, <1>2, <1>10, <2>1 DEF GuestEnables, WorkerInv
<1>11. ASSUME NEW c \in Cpu, CpuEvent(c) PROVE LocalWork(w)' /\ WorkerInv(w)'
  BY <1>1, <1>2, <1>11 DEF CpuEvent, WorkerInv
<1>12. CASE UNCHANGED cpVars
  BY <1>1, <1>2, <1>12 DEF cpVars, WorkerInv
<1> QED
  BY <1>3, <1>4, <1>5, <1>6, <1>7, <1>8, <1>9, <1>10, <1>11, <1>12 DEF PlacementNext

IrqWorkInv == TypeInv /\ IrqInv

\* The targets stay local, and a worker with its guest.
LEMMA IrqWorkInvAlways == PlacementSpec => []IrqWorkInv
<1>1. PlacementInit => IrqWorkInv
  <2>1. PlacementInit => IrqInv
    BY DEF PlacementInit, IrqInv, LocalWork, WorkerInv
  <2> QED  BY <2>1, TypeInitially DEF IrqWorkInv
<1>2. IrqWorkInv /\ [PlacementNext]_cpVars => IrqWorkInv'
  BY TypeStep, IrqStep DEF IrqWorkInv
<1> QED  BY <1>1, <1>2, PTL DEF PlacementSpec

\* The targets are computed once from the topology, and stay local whatever CPUs come
\* and go, and whichever VMs start and end.
THEOREM IrqsAlwaysLocal == PlacementSpec => []IrqsLocal
<1>1. IrqWorkInv => IrqsLocal
  <2> SUFFICES ASSUME IrqWorkInv, NEW v \in Vm, NEW d \in done[v]
               PROVE  /\ ~ AuxGpu(v, d)
                      /\ work[v][d] \subseteq VmCpus(v)
                      /\ numa /\ DevNode[d] >= 0 => \A c \in work[v][d] : NodeOf[c] = DevNode[d]
    BY DEF IrqsLocal
  <2>1. d \in DOMAIN work[v] /\ work[v] \in [DOMAIN work[v] -> (SUBSET VmCpus(v)) \ {{}}]
    BY DEF IrqWorkInv, TypeInv, PlacementTypeOK
  <2>2. LocalWork(v)
    BY DEF IrqWorkInv, IrqInv
  <2> QED  BY <2>1, <2>2 DEF LocalWork
<1> QED  BY <1>1, IrqWorkInvAlways, PTL

\* The body of SwitchAfterAll, of one step.
SwitchAfterAllStep ==
    \A v \in Vm :
        switched'[v] /\ ~ switched[v] =>
            /\ DOMAIN work[v] # {} /\ DOMAIN work[v] \subseteq done[v]
            /\ stage[v] # "idle" => \A d \in DOMAIN work[v] : vectors[d] > 0

\* Only a worker that found every device of its list done switches the monitor, and
\* what it found is true of the guest that runs.
THEOREM SwitchAlwaysAfterAll == PlacementSpec => SwitchAfterAll
<1>1. IrqWorkInv /\ [PlacementNext]_cpVars => [SwitchAfterAllStep]_cpVars
  <2> SUFFICES ASSUME IrqWorkInv, [PlacementNext]_cpVars,
                      NEW v \in Vm, switched'[v], ~ switched[v]
               PROVE  /\ DOMAIN work[v] # {} /\ DOMAIN work[v] \subseteq done[v]
                      /\ stage[v] # "idle" => \A d \in DOMAIN work[v] : vectors[d] > 0
    BY DEF SwitchAfterAllStep
  <2>1. switched \in [Vm -> BOOLEAN]
    BY DEF IrqWorkInv, TypeInv, PlacementTypeOK
  <2>2. switched' # switched
    OBVIOUS
  <2>3. PICK w \in Vm : WorkerFinishes(w) \/ Down(w)
    BY <2>2 DEF PlacementNext, cpVars, irqVars, Validate, ReserveCpus, Launch, PinVcpus, PinIrqs,
                WorkerStarts, WorkerAborts, WorkerPins, GuestEnables, CpuEvent
  <2>4. WorkerFinishes(v)
    BY <2>1, <2>3 DEF WorkerFinishes, Down
  <2>5. worker[v] = "polling" /\ done[v] = DOMAIN work[v]
    BY <2>4 DEF WorkerFinishes, AllDone
  <2> QED  BY <2>5 DEF IrqWorkInv, IrqInv, WorkerInv
<1> QED  BY <1>1, IrqWorkInvAlways, PTL DEF PlacementSpec, SwitchAfterAll, SwitchAfterAllStep

-----------------------------------------------------------------------------
(* The pins of the vCPUs.                                                  *)

\* Only vCPUs that have a CPU in the list are ever pinned, and a VM gets past
\* PinVcpus with all of them pinned.
PinsOf(v) ==
    /\ pins[v] \subseteq 1..Len(layout[v].vm)
    /\ stage[v] \in {"pinned", "running"} => pins[v] = 1..layout[v].vcpus

PinsInv == TypeInv /\ \A v \in Vm : PinsOf(v)

\* Every step keeps the pins within the list.
LEMMA PinsStep ==
  ASSUME PinsInv, [PlacementNext]_cpVars
  PROVE  PinsInv'
<1> SUFFICES ASSUME NEW w \in Vm PROVE PinsOf(w)'
  BY TypeStep DEF PinsInv
<1>1. /\ PinsOf(w) /\ UNCHANGED layout /\ stage \in [Vm -> Stages] /\ pins \in [Vm -> SUBSET Nat]
  BY ChosenKept DEF PinsInv, TypeInv, PlacementTypeOK, hostVars
<1> USE DEF Goes
<1>2. ASSUME NEW v \in Vm, PinVcpus(v) PROVE PinsOf(w)'
  <2>1. CASE v = w
    <3> PinVcpus(w)
      BY <1>2, <2>1
    <3>1. Len(layout[w].vm) \in Nat /\ layout[w].vcpus \in Nat
      BY LayoutFacts DEF PinsInv, TypeInv
    <3>2. CASE Len(layout[w].vm) < layout[w].vcpus
      <4>1. stage'[w] = "unpinnable" /\ UNCHANGED pins
        BY <1>1, <3>2 DEF PinVcpus
      <4> QED  BY <1>1, <4>1 DEF PinsOf
    <3>3. CASE ~ Len(layout[w].vm) < layout[w].vcpus
      <4>1. 1..layout[w].vcpus \subseteq 1..Len(layout[w].vm)
        BY <3>1, <3>3
      <4>2. CASE \A i \in 1..layout[w].vcpus : Pinnable(w, i)
        <5>1. pins'[w] = 1..layout[w].vcpus
          BY <1>1, <3>3, <4>2 DEF PinVcpus
        <5> QED  BY <1>1, <4>1, <5>1 DEF PinsOf
      <4>3. CASE ~ \A i \in 1..layout[w].vcpus : Pinnable(w, i)
        <5>1. stage'[w] = "unpinnable" /\ pins'[w] \subseteq 1..layout[w].vcpus
          BY <1>1, <3>3, <4>3 DEF PinVcpus
        <5> QED  BY <1>1, <4>1, <5>1 DEF PinsOf
      <4> QED  BY <4>2, <4>3
    <3> QED  BY <3>2, <3>3
  <2>2. CASE v # w
    <3>1. pins'[w] = pins[w] /\ stage'[w] = stage[w]
      BY <1>1, <1>2, <2>2 DEF PinVcpus
    <3> QED  BY <1>1, <3>1 DEF PinsOf
  <2> QED  BY <2>1, <2>2
<1>3. ASSUME NEW v \in Vm, Down(v) PROVE PinsOf(w)'
  <2>1. CASE v = w
    <3>1. pins'[w] = {} /\ stage'[w] = "idle"
      BY <1>1, <1>3, <2>1 DEF Down
    <3> QED  BY <3>1 DEF PinsOf
  <2>2. CASE v # w
    <3>1. pins'[w] = pins[w] /\ stage'[w] = stage[w]
      BY <1>1, <1>3, <2>2 DEF Down
    <3> QED  BY <1>1, <3>1 DEF PinsOf
  <2> QED  BY <2>1, <2>2
<1>4. ASSUME NEW v \in Vm, Validate(v) \/ ReserveCpus(v) \/ Launch(v) PROVE PinsOf(w)'
  <2>1. /\ UNCHANGED pins /\ \A u \in Vm \ {v} : stage'[u] = stage[u]
        /\ stage'[v] \notin {"pinned", "running"}
    BY <1>1, <1>4 DEF Validate, ReserveCpus, Launch
  <2> QED  BY <1>1, <2>1 DEF PinsOf
<1>5. ASSUME NEW v \in Vm, PinIrqs(v) PROVE PinsOf(w)'
  <2>1. UNCHANGED pins /\ (\A u \in Vm \ {v} : stage'[u] = stage[u]) /\ stage[v] = "pinned"
    BY <1>1, <1>5 DEF PinIrqs
  <2> QED  BY <1>1, <2>1 DEF PinsOf
<1>6. ASSUME UNCHANGED <<stage, pins>> PROVE PinsOf(w)'
  BY <1>1, <1>6 DEF PinsOf
<1>7. ASSUME NEW v \in Vm, WorkerStarts(v) \/ WorkerFinishes(v) \/ WorkerAborts(v)
      PROVE  PinsOf(w)'
  BY <1>6, <1>7 DEF WorkerStarts, WorkerFinishes, WorkerAborts
<1>8. ASSUME NEW v \in Vm, NEW d \in Device, WorkerPins(v, d) \/ GuestEnables(v, d)
      PROVE  PinsOf(w)'
  BY <1>6, <1>8 DEF WorkerPins, GuestEnables
<1>9. ASSUME NEW c \in Cpu, CpuEvent(c) PROVE PinsOf(w)'
  BY <1>6, <1>9 DEF CpuEvent
<1>10. CASE UNCHANGED cpVars
  BY <1>6, <1>10 DEF cpVars
<1> QED  BY <1>2, <1>3, <1>4, <1>5, <1>7, <1>8, <1>9, <1>10 DEF PlacementNext

\* The pins stay within the list.
LEMMA PinsInvAlways == PlacementSpec => []PinsInv
<1>1. PlacementInit => PinsInv
  <2>1. PlacementInit => \A v \in Vm : PinsOf(v)
    BY DEF PlacementInit, PinsOf
  <2> QED  BY <2>1, TypeInitially DEF PinsInv
<1>2. PinsInv /\ [PlacementNext]_cpVars => PinsInv'
  BY PinsStep
<1> QED  BY <1>1, <1>2, PTL DEF PlacementSpec

\* As long as vfio_vm is as the VM's create_cpuset left it and no CPU came or went,
\* pin_vcpus has given each vCPU its own CPU, whatever the other VMs did.
THEOREM AlwaysPinnedOneToOne == PlacementSpec => []PinnedOneToOne
<1>1. PinsInv => PinnedOneToOne
  <2> SUFFICES ASSUME PinsInv, NEW v \in Vm, stage[v] \in {"pinned", "running"},
                      group[1] = VmCpus(v), online = Cpu, NEW i \in 1..layout[v].vcpus
               PROVE  i \in pins[v] /\ RunsOn(v, i) = {VcpuCpu(v, i)}
    BY DEF PinnedOneToOne
  <2>1. i \in pins[v] /\ i \in 1..Len(layout[v].vm)
    BY DEF PinsInv, PinsOf
  <2>2. VcpuCpu(v, i) \in VmCpus(v) /\ VmCpus(v) \subseteq Cpu
    BY <2>1, LayoutFacts DEF PinsInv, TypeInv
  <2>3. VcpuCpu(v, i) \in Allowed
    BY <2>2 DEF Allowed
  <2> QED  BY <2>1, <2>3 DEF RunsOn
<1> QED  BY <1>1, PinsInvAlways, PTL

\* The body of PinsLostToOthersOnly, of one step.
PinsLostStep ==
    \A v \in Vm : \A i \in pins[v] \intersect pins'[v] :
        RunsOn(v, i) = {VcpuCpu(v, i)} =>
            \/ RunsOn(v, i)' = {VcpuCpu(v, i)}
            \/ online' # online
            \/ \E w \in Vm \ {v} : /\ stage[w] = "validated" /\ stage'[w] # "validated"
                                   /\ VcpuCpu(v, i) \notin VmCpus(w)

\* A vCPU on its own CPU is moved off it by a CPU that goes or comes, or by the
\* create_cpuset of another VM that does not list that CPU, and by nothing else.
THEOREM PinsAlwaysLostToOthersOnly == PlacementSpec => PinsLostToOthersOnly
<1>1. PinsInv /\ [PlacementNext]_cpVars => [PinsLostStep]_cpVars
  <2> SUFFICES ASSUME PinsInv, [PlacementNext]_cpVars, NEW v \in Vm,
                      NEW i \in pins[v] \intersect pins'[v],
                      RunsOn(v, i) = {VcpuCpu(v, i)}, online' = online
               PROVE  \/ RunsOn(v, i)' = {VcpuCpu(v, i)}
                      \/ \E w \in Vm \ {v} : /\ stage[w] = "validated"
                                             /\ stage'[w] # "validated"
                                             /\ VcpuCpu(v, i) \notin VmCpus(w)
    BY DEF PinsLostStep
  <2> DEFINE c == VcpuCpu(v, i)
  <2>1. UNCHANGED layout /\ VcpuCpu(v, i)' = c
    BY ChosenKept DEF hostVars, VcpuCpu
  <2>2. c \in Allowed /\ c \in online
    BY DEF RunsOn, Allowed
  <2>3. c \in VmCpus(v)
    BY LayoutFacts DEF PinsInv, PinsOf, TypeInv
  <2>4. c \in Allowed' => RunsOn(v, i)' = {c}
    BY <2>1 DEF RunsOn
  <2>5. CASE group'[1] = group[1]
    BY <2>1, <2>2, <2>4, <2>5 DEF Allowed
  <2>6. CASE group'[1] # group[1]
    <3>1. PICK w \in Vm : ReserveCpus(w)
      BY <2>6 DEF PlacementNext, cpVars, Validate, Launch, PinVcpus, PinIrqs, WorkerStarts,
                  WorkerFinishes, WorkerAborts, WorkerPins, Down, GuestEnables, CpuEvent
    <3>2. stage \in [Vm -> Stages]
      BY DEF PinsInv, TypeInv, PlacementTypeOK
    <3>3. stage[w] = "validated" /\ stage'[w] # "validated" /\ group'[1] = VmCpus(w)
      BY <2>6, <3>1, <3>2 DEF ReserveCpus, Goes, Files
    <3>4. CASE c \in VmCpus(w)
      BY <2>2, <2>4, <3>3, <3>4 DEF Allowed
    <3>5. CASE c \notin VmCpus(w)
      BY <2>3, <3>3, <3>5
    <3> QED  BY <3>4, <3>5
  <2> QED  BY <2>5, <2>6
<1> QED  BY <1>1, PinsInvAlways, PTL DEF PlacementSpec, PinsLostToOthersOnly, PinsLostStep

-----------------------------------------------------------------------------
(* The CPU plan.                                                           *)

\* The nodes on which a VM has CPUs.
NodesOf(v) == {n \in Node : \E c \in VmCpus(v) : NodeOf[c] = n}

\* A VM that has a plan passed validate_cpu_plan on a host with nodes: the plan's CPUs
\* are all of its layout's, so what it says of nodes does not depend on which others
\* were online.
PlanOf(v) ==
    plan[v] # NoPlan =>
        /\ numa
        /\ VmCpus(v) \union HostCpus(v) \subseteq plan[v].cpus
        /\ plan[v].nodes = NodesOf(v)
        /\ plan[v].spans = (Cardinality(plan[v].nodes) > 1)
        /\ plan[v].dominant \subseteq plan[v].nodes

PlanInv == TypeInv /\ \A v \in Vm : PlanOf(v)

\* On a host with nodes, CPUs that are online are on a node each: create_cpuset, which
\* looks nodes up by CPU, finds the same as build_cpu_plan, which looks CPUs up by node.
LEMMA NodesAgree ==
  ASSUME NEW v \in Vm, VmCpus(v) \subseteq Cpu, VmCpus(v) \subseteq online
  PROVE  /\ BuildPlan(v).nodes = NodesOf(v)
         /\ numa => NodesFor(VmCpus(v)) = NodesOf(v)
<1>1. \A n \in Node : (NodeCpus(n) \intersect VmCpus(v) # {})
                          <=> (\E c \in VmCpus(v) : NodeOf[c] = n)
  BY DEF NodeCpus
<1> QED  BY <1>1 DEF BuildPlan, NodesFor, NodesOf

\* A CPU of a list that is online is on a node.
LEMMA NodesFound ==
  ASSUME numa, NEW cpus \in SUBSET Cpu, cpus \subseteq online, cpus # {}
  PROVE  NodesFor(cpus) # {}
<1>1. PICK c \in cpus : TRUE
  OBVIOUS
<1>2. NodeOf[c] \in Node /\ c \in NodeCpus(NodeOf[c]) \intersect cpus
  BY <1>1, NodeAssumption DEF NodeCpus
<1> QED  BY <1>2 DEF NodesFor

\* Every step keeps the plans.
LEMMA PlanStep ==
  ASSUME PlanInv, [PlacementNext]_cpVars
  PROVE  PlanInv'
<1> SUFFICES ASSUME NEW w \in Vm PROVE PlanOf(w)'
  BY TypeStep DEF PlanInv
<1>1. /\ PlanOf(w) /\ UNCHANGED hostVars
      /\ VmCpus(w)' = VmCpus(w) /\ HostCpus(w)' = HostCpus(w) /\ NodesOf(w)' = NodesOf(w)
      /\ DOMAIN plan = Vm
  BY ChosenKept DEF PlanInv, TypeInv, PlacementTypeOK, hostVars, VmCpus, HostCpus, NodesOf, Set
<1>2. ASSUME plan'[w] = plan[w] \/ plan'[w] = NoPlan PROVE PlanOf(w)'
  BY <1>1, <1>2 DEF PlanOf, hostVars
<1>3. ASSUME NEW v \in Vm, Validate(v) PROVE PlanOf(w)'
  <2>1. CASE v = w /\ Plannable /\ ValidCpuPlan(v)
    <3>1. plan'[w] = BuildPlan(w)
      BY <1>1, <1>3, <2>1 DEF Validate
    <3>2. VmCpus(w) \union HostCpus(w) \subseteq online /\ VmCpus(w) \subseteq Cpu /\ numa
      BY <2>1, LayoutFacts DEF ValidCpuPlan, Plannable, PlanInv, TypeInv
    <3>3. BuildPlan(w).nodes = NodesOf(w)
      BY <3>2, NodesAgree
    <3>4. /\ BuildPlan(w).cpus = online
          /\ BuildPlan(w).spans = (Cardinality(BuildPlan(w).nodes) > 1)
          /\ BuildPlan(w).dominant \subseteq BuildPlan(w).nodes
      BY DEF BuildPlan
    <3> QED  BY <1>1, <3>1, <3>2, <3>3, <3>4 DEF PlanOf, hostVars
  <2>2. CASE ~ (v = w /\ Plannable /\ ValidCpuPlan(v))
    BY <1>1, <1>2, <1>3, <2>2 DEF Validate
  <2> QED  BY <2>1, <2>2
<1>4. ASSUME NEW v \in Vm, Down(v) PROVE PlanOf(w)'
  BY <1>1, <1>2, <1>4 DEF Down
<1>5. ASSUME ~ \E v \in Vm : Validate(v) \/ Down(v) PROVE UNCHANGED plan
  BY <1>5 DEF PlacementNext, cpVars, ReserveCpus, Launch, PinVcpus, PinIrqs, WorkerStarts,
              WorkerFinishes, WorkerAborts, WorkerPins, GuestEnables, CpuEvent
<1> QED  BY <1>2, <1>3, <1>4, <1>5

\* The plans stay what Validate made them.
LEMMA PlanInvAlways == PlacementSpec => []PlanInv
<1>1. PlacementInit => PlanInv
  <2>1. PlacementInit => \A v \in Vm : PlanOf(v)
    BY DEF PlacementInit, PlanOf
  <2> QED  BY <2>1, TypeInitially DEF PlanInv
<1>2. PlanInv /\ [PlacementNext]_cpVars => PlanInv'
  BY PlanStep
<1> QED  BY <1>1, <1>2, PTL DEF PlacementSpec

\* The body of PlanAgrees, of one step.
PlanAgreesStep ==
    \A v \in Vm :
        (plan[v] # NoPlan /\ online = plan[v].cpus /\ stage'[v] # stage[v]) =>
            /\ stage'[v] = "unplaceable" => ~ Complete(v)
            /\ stage'[v] = "unpinnable" => ~ Complete(v) \/ group[1] # VmCpus(v)
            /\ stage'[v] = "reserved" =>
                 /\ group'[2] = plan[v].nodes
                 /\ plan[v].spans <=> Cardinality(group'[2]) > 1
                 /\ \A c \in Cpu : plan[v].dominant = {NodeOf[c]} => NodeOf[c] \in group'[2]

\* create_cpuset and pin_vcpus, which read sysfs anew, never disagree with the plan while
\* the CPUs are those it was made from.
THEOREM PlanAlwaysAgrees == PlacementSpec => PlanAgrees
<1>1. PlanInv /\ [PlacementNext]_cpVars => [PlanAgreesStep]_cpVars
  <2> SUFFICES ASSUME PlanInv, [PlacementNext]_cpVars, NEW v \in Vm, plan[v] # NoPlan,
                      online = plan[v].cpus, stage'[v] # stage[v]
               PROVE  /\ stage'[v] = "unplaceable" => ~ Complete(v)
                      /\ stage'[v] = "unpinnable" => ~ Complete(v) \/ group[1] # VmCpus(v)
                      /\ stage'[v] = "reserved" =>
                           /\ group'[2] = plan[v].nodes
                           /\ plan[v].spans <=> Cardinality(group'[2]) > 1
                           /\ \A c \in Cpu :
                                plan[v].dominant = {NodeOf[c]} => NodeOf[c] \in group'[2]
    BY DEF PlanAgreesStep
  <2>1. /\ numa /\ VmCpus(v) \subseteq online /\ HostCpus(v) \subseteq online
        /\ VmCpus(v) \subseteq Cpu /\ HostCpus(v) \subseteq Cpu
        /\ plan[v].nodes = NodesOf(v)
        /\ plan[v].spans = (Cardinality(plan[v].nodes) > 1)
        /\ plan[v].dominant \subseteq plan[v].nodes
        /\ stage \in [Vm -> Stages] /\ group \in [1..4 -> SUBSET (Cpu \union Node)]
    BY LayoutFacts DEF PlanInv, PlanOf, TypeInv, PlacementTypeOK
  <2>2. ASSUME stage'[v] \in {"unplaceable", "unpinnable", "reserved"}
        PROVE  ReserveCpus(v) \/ PinVcpus(v)
    BY <2>1, <2>2 DEF PlacementNext, cpVars, Goes, Validate, ReserveCpus, Launch, PinVcpus, PinIrqs,
                      WorkerStarts, WorkerFinishes, WorkerAborts, WorkerPins, Down, GuestEnables,
                      CpuEvent
  <2>3. ASSUME stage'[v] = "unplaceable" PROVE ~ Complete(v)
    <3>1. ReserveCpus(v) /\ ~ Placeable(v)
      BY <2>1, <2>2, <2>3 DEF ReserveCpus, PinVcpus, Goes
    <3>2. ASSUME VmCpus(v) # {}, HostCpus(v) # {} PROVE Placeable(v)
      <4>1. NodesFor(VmCpus(v)) # {} /\ NodesFor(HostCpus(v)) # {}
        BY <2>1, <3>2, NodesFound
      <4> QED  BY <3>2, <4>1 DEF Placeable, Files
    <3> QED  BY <3>1, <3>2 DEF Complete
  <2>4. ASSUME stage'[v] = "unpinnable", Complete(v), group[1] = VmCpus(v) PROVE FALSE
    <3>1. PinVcpus(v)
      BY <2>1, <2>2, <2>4 DEF ReserveCpus, Goes
    <3>2. Len(layout[v].vm) \in Nat /\ layout[v].vcpus \in Nat
          /\ \A i \in 1..Len(layout[v].vm) : VcpuCpu(v, i) \in VmCpus(v)
      BY LayoutFacts DEF PlanInv, TypeInv
    <3>3. Allowed = VmCpus(v)
      BY <2>1, <2>4 DEF Allowed, Complete
    <3>4. ~ Len(layout[v].vm) < layout[v].vcpus
      BY <2>4, <3>2 DEF Complete
    <3>5. \A i \in 1..layout[v].vcpus : Pinnable(v, i)
      BY <3>2, <3>3, <3>4 DEF Pinnable
    <3>6. stage'[v] = "pinned"
      BY <2>1, <3>1, <3>4, <3>5 DEF PinVcpus, Goes
    <3> QED  BY <2>4, <3>6
  <2>5. ASSUME stage'[v] = "reserved" PROVE group'[2] = plan[v].nodes
    <3>1. ReserveCpus(v)
      BY <2>1, <2>2, <2>5 DEF PinVcpus, Goes
    <3>2. PICK k \in 0..4 :
            /\ group' = [i \in 1..4 |-> IF i <= k THEN Files(v)[i] ELSE group[i]]
            /\ stage'[v] = (IF k = 4 THEN "reserved" ELSE "unwritten")
      BY <2>1, <2>5, <3>1 DEF ReserveCpus, Goes
    <3>3. group'[2] = NodesFor(VmCpus(v))
      BY <2>5, <3>2 DEF Files
    <3> QED  BY <2>1, <3>3, NodesAgree
  <2> QED  BY <2>1, <2>3, <2>4, <2>5
<1> QED  BY <1>1, PlanInvAlways, PTL DEF PlacementSpec, PlanAgrees, PlanAgreesStep

=============================================================================

-------------------------- MODULE Passthrough_proofs --------------------------
(***************************************************************************)
(* Proofs about Passthrough, for every set of functions, every topology    *)
(* and every configuration, and any number of events on the host.          *)
(***************************************************************************)
EXTENDS Passthrough, FiniteSetTheorems, TLAPS

-----------------------------------------------------------------------------
(* The inventory and the plan.                                             *)

\* The choices of PassthroughInit stay what they were.
ChosenOK == cfg \in Config /\ host \in Host

\* The configuration is one of the chosen kind, and lists functions of the host.
LEMMA CfgFacts ==
  ASSUME ChosenOK
  PROVE  VmConfig(cfg) /\ host \in PciHost /\ Configured \subseteq Function
  BY ConfigAssumption, HostAssumption DEF ChosenOK, VmConfig, Configured

\* The plan touches only functions that are listed and that the scan found, and
\* unbinds only those that have a driver of their own.
LEMMA PlanFacts ==
  ASSUME ChosenOK, NEW d, NEW a \in Plan(d)
  PROVE  /\ a \in Action
         /\ a = <<a[1], a[2], a[3]>>
         /\ a[3] \in IF a[2] = "gpu" THEN cfg.gpu ELSE cfg.other
         /\ a[3] \in Passed(d)
         /\ a[1] = "unbind" => d[a[3]] \notin {"absent", "none", "vfio"}
<1>1. VmConfig(cfg)
  BY CfgFacts
<1> DEFINE Listed == ({"gpu"} \X cfg.gpu) \union ({"other"} \X cfg.other)
<1>2. PICK kind \in {"bind", "unbind"}, l \in Listed :
        /\ a = <<kind, l[1], l[2]>>
        /\ d[l[2]] # "absent"
        /\ kind = "unbind" => d[l[2]] \notin {"absent", "none", "vfio"}
  BY DEF Plan
<1>3. /\ l[1] \in {"gpu", "other"}
      /\ l[2] \in IF l[1] = "gpu" THEN cfg.gpu ELSE cfg.other
  BY <1>2
<1>4. l[2] \in Function
  BY <1>1, <1>3 DEF VmConfig
<1> QED  BY <1>2, <1>3, <1>4 DEF Action, Passed, Present, Configured

-----------------------------------------------------------------------------
(* The root ports.                                                         *)

\* Of a finite set of numbers each one has a rank, the number of smaller ones, and
\* every number below the size of the set is the rank of one.
LEMMA RankExists ==
  ASSUME NEW S \in SUBSET Nat, IsFiniteSet(S), NEW k \in Nat, k < Cardinality(S)
  PROVE  \E s \in S : Cardinality({t \in S : t < s}) = k
<1> DEFINE Below(s) == {t \in S : t < s}
           rank == [s \in S |-> Cardinality(Below(s))]
           Ranks == 0..(Cardinality(S) - 1)
<1>1. Cardinality(S) \in Nat /\ \A s \in S : s \in Nat
  BY FS_CardinalityType
<1>2. \A s \in S : IsFiniteSet(Below(s)) /\ Cardinality(Below(s)) \in Nat
  BY FS_Subset, FS_CardinalityType
<1>3. \A s, u \in S : s < u => Cardinality(Below(s)) < Cardinality(Below(u))
  <2> SUFFICES ASSUME NEW s \in S, NEW u \in S, s < u
               PROVE  Cardinality(Below(s)) < Cardinality(Below(u))
    OBVIOUS
  <2>1. Below(s) \in SUBSET Below(u) /\ s \in Below(u) /\ s \notin Below(s)
    <3>1. \A t \in S : t < s => t < u
      BY <1>1
    <3>2. Below(s) \in SUBSET Below(u)
      BY <3>1
    <3>3. s \in Below(u)
      OBVIOUS
    <3>4. s \notin Below(s)
      BY <1>1
    <3> QED  BY <3>2, <3>3, <3>4
  <2>2. Cardinality(Below(s)) <= Cardinality(Below(u))
    BY <1>2, <2>1, FS_Subset
  <2>3. Cardinality(Below(s)) # Cardinality(Below(u))
    BY <1>2, <2>1, FS_Subset
  <2> QED  BY <1>2, <2>2, <2>3
<1>4. \A s \in S : rank[s] \in Ranks
  <2> SUFFICES ASSUME NEW s \in S PROVE rank[s] \in Ranks
    OBVIOUS
  <2>1. Below(s) \in SUBSET S /\ s \notin Below(s)
    BY <1>1
  <2>2. Cardinality(Below(s)) <= Cardinality(S) /\ Cardinality(Below(s)) # Cardinality(S)
    BY <2>1, FS_Subset
  <2> QED  BY <1>1, <1>2, <2>2
<1>5. rank \in Injection(S, Ranks)
  <2>1. rank \in [S -> Ranks]
    BY <1>4
  <2>2. \A s, u \in S : rank[s] = rank[u] => s = u
    <3> SUFFICES ASSUME NEW s \in S, NEW u \in S, rank[s] = rank[u], s # u PROVE FALSE
      OBVIOUS
    <3>1. s < u \/ u < s
      BY <1>1
    <3> QED  BY <1>2, <1>3, <3>1
  <2> HIDE DEF rank
  <2> QED  BY <2>1, <2>2 DEF Injection, IsInjective
<1>6. IsFiniteSet(Ranks) /\ Cardinality(Ranks) = Cardinality(S)
  <2>1. IsFiniteSet(Ranks)
    BY <1>1, FS_Interval
  <2>2. Cardinality(Ranks) = Cardinality(S)
    BY <1>1, FS_Interval
  <2> QED  BY <2>1, <2>2
<1>7. rank \in Surjection(S, Ranks)
  BY <1>5, <1>6, FS_Injection
<1>8. k \in Ranks
  BY <1>1
<1>9. PICK s \in S : rank[s] = k
  BY <1>7, <1>8 DEF Surjection
<1> QED  BY <1>9

\* Before is a strict linear order: GPUs come first, then the number counts.
LEMMA BeforeLinear ==
  ASSUME NEW f \in Nat, NEW g \in Nat, NEW h \in Nat
  PROVE  /\ ~ Before(f, f)
         /\ Before(f, g) \/ Before(g, f) \/ f = g
         /\ Before(f, g) /\ Before(g, h) => Before(f, h)
  BY DEF Before, Kind

\* The automatic slots: they are free, and rise in the order of Before.
LEMMA AutoSlots ==
  ASSUME ChosenOK, PortsOk
  PROVE  /\ \A f \in Automatic : Nth(f) \in FreeSlots
         /\ \A f, g \in Automatic : Before(f, g) => Nth(f) < Nth(g)
<1> DEFINE Ahead(f) == {g \in Automatic : Before(g, f)}
           Smaller(s) == {t \in FreeSlots : t < s}
<1>1. Automatic \subseteq Nat /\ IsFiniteSet(Automatic)
  BY CfgFacts, FunctionAssumption, FS_Subset DEF Automatic
<1>2. /\ FreeSlots \in SUBSET Nat /\ \A s \in FreeSlots : s \in Nat
      /\ IsFiniteSet(FreeSlots)
  <2>1. FreeSlots \in SUBSET (1..MaxSlot)
    BY DEF FreeSlots
  <2>2. IsFiniteSet(1..MaxSlot)
    BY MaxSlotAssumption, FS_Interval
  <2>3. FreeSlots \in SUBSET Nat
    BY <2>1, MaxSlotAssumption
  <2> QED  BY <2>1, <2>2, <2>3, FS_Subset
<1>3. \A f \in Automatic : IsFiniteSet(Ahead(f)) /\ Cardinality(Ahead(f)) \in Nat
  BY <1>1, FS_Subset, FS_CardinalityType
<1>4. ASSUME NEW f \in Automatic
      PROVE  Nth(f) \in FreeSlots /\ Cardinality(Smaller(Nth(f))) = Cardinality(Ahead(f))
  <2>1. Configured # {}
    BY DEF Automatic
  <2>2. Cardinality(Automatic) <= Cardinality(FreeSlots)
    BY <2>1 DEF PortsOk
  <2>3. Ahead(f) \in SUBSET Automatic /\ f \notin Ahead(f)
    BY <1>1, BeforeLinear
  <2>4. Cardinality(Ahead(f)) <= Cardinality(Automatic) /\ Cardinality(Ahead(f)) # Cardinality(Automatic)
    BY <1>1, <2>3, FS_Subset
  <2>5. Cardinality(Automatic) \in Nat /\ Cardinality(FreeSlots) \in Nat
    BY <1>1, <1>2, FS_CardinalityType
  <2>6. Cardinality(Ahead(f)) < Cardinality(FreeSlots)
    BY <1>3, <2>2, <2>4, <2>5
  <2>7. \E s \in FreeSlots : Cardinality(Smaller(s)) = Cardinality(Ahead(f))
    BY <1>2, <1>3, <2>6, RankExists
  <2> QED  BY <2>7 DEF Nth
<1>5. ASSUME NEW f \in Automatic, NEW g \in Automatic, Before(f, g)
      PROVE  Nth(f) < Nth(g)
  <2>1. Ahead(f) \in SUBSET Ahead(g) /\ f \in Ahead(g) /\ f \notin Ahead(f)
    BY <1>1, <1>5, BeforeLinear
  <2>2. Cardinality(Ahead(f)) <= Cardinality(Ahead(g))
        /\ Cardinality(Ahead(f)) # Cardinality(Ahead(g))
    BY <1>3, <2>1, FS_Subset
  <2>3. Nth(f) \in Nat /\ Nth(g) \in Nat
    BY <1>2, <1>4
  <2> SUFFICES ASSUME Nth(g) <= Nth(f) PROVE FALSE
    BY <2>3
  <2>4. Smaller(Nth(g)) \in SUBSET Smaller(Nth(f))
    <3>1. \A t \in FreeSlots : t < Nth(g) => t < Nth(f)
      BY <1>2, <2>3
    <3> QED  BY <3>1
  <2>5. IsFiniteSet(Smaller(Nth(f)))
    BY <1>2, FS_Subset
  <2>6. Cardinality(Smaller(Nth(g))) <= Cardinality(Smaller(Nth(f)))
    BY <2>4, <2>5, FS_Subset
  <2>7. Cardinality(Smaller(Nth(g))) = Cardinality(Ahead(g))
        /\ Cardinality(Smaller(Nth(f))) = Cardinality(Ahead(f))
    BY <1>4
  <2>8. Cardinality(Ahead(f)) \in Nat /\ Cardinality(Ahead(g)) \in Nat
    BY <1>3
  <2> HIDE DEF Ahead, Smaller
  <2> QED  BY <2>2, <2>6, <2>7, <2>8
<1> QED  BY <1>4, <1>5

\* A port map that is accepted gives every device a slot of its own.
LEMMA PortMapDistinct ==
  ASSUME ChosenOK, PortsOk
  PROVE  /\ PortMap \in [Configured -> 0..MaxSlot]
         /\ \A f \in Configured : f \in Overridden => PortMap[f] = cfg.override[f]
         /\ \A f \in Configured : f \in Automatic => PortMap[f] # 0
         /\ \A f, g \in Configured : f # g => PortMap[f] # PortMap[g]
         /\ \A f, g \in Automatic : Before(f, g) => PortMap[f] < PortMap[g]
<1>1. /\ Automatic \subseteq Configured /\ Configured \subseteq Nat
      /\ \A f \in Configured : f \in Automatic <=> f \notin Overridden
  BY CfgFacts, FunctionAssumption DEF Automatic
<1>2. \A f \in Automatic : PortMap[f] = Nth(f)
  BY <1>1 DEF PortMap
<1>3. \A f \in Configured : f \in Overridden => PortMap[f] = cfg.override[f]
  BY DEF PortMap
<1>4. \A f \in Configured \intersect Overridden : cfg.override[f] \in 0..MaxSlot
  BY CfgFacts, MaxSlotAssumption DEF PortsOk, OverridesOk, Overridden, VmConfig
<1>5. \A f \in Automatic : /\ Nth(f) \in 1..MaxSlot
                      /\ \A g \in Overridden : Nth(f) # cfg.override[g]
  BY AutoSlots DEF FreeSlots
<1>6. \A f, g \in Automatic : f # g => Nth(f) # Nth(g)
  <2> SUFFICES ASSUME NEW f \in Automatic, NEW g \in Automatic, f # g, Nth(f) = Nth(g) PROVE FALSE
    OBVIOUS
  <2>1. Before(f, g) \/ Before(g, f)
    BY <1>1, BeforeLinear
  <2> QED  BY <1>5, <2>1, AutoSlots, MaxSlotAssumption
<1>7. \A f, g \in Overridden : f # g /\ Configured # {} => cfg.override[f] # cfg.override[g]
  BY DEF PortsOk, OverridesOk
<1>8. PortMap \in [Configured -> 0..MaxSlot]
  BY <1>1, <1>3, <1>4, <1>5, MaxSlotAssumption DEF PortMap
<1>9. \A f \in Configured : f \in Automatic => PortMap[f] # 0
  BY <1>2, <1>5
<1>10. ASSUME NEW f \in Configured, NEW g \in Configured, f # g
       PROVE  PortMap[f] # PortMap[g]
  <2>1. CASE f \in Automatic /\ g \in Automatic
    BY <1>2, <1>6, <1>10, <2>1
  <2>2. CASE f \in Automatic /\ g \notin Automatic
    BY <1>1, <1>2, <1>3, <1>5, <2>2
  <2>3. CASE f \notin Automatic /\ g \in Automatic
    BY <1>1, <1>2, <1>3, <1>5, <2>3
  <2>4. CASE f \notin Automatic /\ g \notin Automatic
    BY <1>1, <1>3, <1>7, <1>10, <2>4
  <2> QED  BY <2>1, <2>2, <2>3, <2>4
<1>11. \A f, g \in Automatic : Before(f, g) => PortMap[f] < PortMap[g]
  BY <1>2, AutoSlots
<1> QED  BY <1>3, <1>8, <1>9, <1>10, <1>11

-----------------------------------------------------------------------------
(* Type correctness and the root ports.                                    *)

\* The ports are the map that was accepted, as long as they matter.
PortsKept == phase \in {"launched", "running", "exited"} => PortsOk /\ ports = PortMap

TypeInv == ChosenOK /\ PassthroughTypeOK /\ PortsKept

\* A map that is accepted gives every device a port.
LEMMA PortsType ==
  ASSUME ChosenOK, PortsOk
  PROVE  PortMap \in [Configured -> Nat]
<1>1. 0..MaxSlot \subseteq Nat
  BY MaxSlotAssumption
<1> QED  BY <1>1, PortMapDistinct

\* At the start.
LEMMA TypeInitially == PassthroughInit => TypeInv
  BY HostAssumption, EventsAssumption
     DEF PassthroughInit, TypeInv, ChosenOK, PassthroughTypeOK, PortsKept, PciHost, Phases

\* Every step keeps the types.
LEMMA TypeStep ==
  ASSUME TypeInv, [PassthroughNext]_ptVars
  PROVE  TypeInv'
<1> USE DEF TypeInv, ChosenOK, PassthroughTypeOK, PortsKept, Goes, Phases
<1>1. cfg' = cfg /\ host' = host
  BY DEF PassthroughNext, ptVars, Validate, Stage, Execute, ExecuteFails, Verify, BuildArgs,
         Launch, Unplug, Appear, HostProbe, Happens
<1>2. Configured' = Configured /\ PortMap' = PortMap /\ PortsOk' = PortsOk
  BY <1>1 DEF Configured, PortMap, PortsOk, Overridden, Automatic, OverridesOk, FreeSlots,
              Nth, Before, Kind
<1> HIDE DEF ChosenOK
<1>3. ChosenOK'
  BY <1>1 DEF ChosenOK
<1>4. CASE Validate
  BY <1>2, <1>3, <1>4 DEF Validate
<1>5. CASE Stage
  <2>1. Plan(driver) \subseteq Action
    BY PlanFacts
  <2> QED  BY <1>2, <1>3, <1>5, <2>1 DEF Stage
<1>6. CASE Execute
  <2>1. driver' \in [Function -> Drivers]
    BY <1>6 DEF Execute, Drivers
  <2> QED  BY <1>2, <1>3, <1>6, <2>1 DEF Execute
<1>7. CASE ExecuteFails
  BY <1>2, <1>3, <1>7 DEF ExecuteFails
<1>8. CASE Verify
  BY <1>2, <1>3, <1>8 DEF Verify
<1>9. CASE BuildArgs
  BY <1>2, <1>3, <1>9, PortsType DEF BuildArgs
<1>10. CASE Launch
  BY <1>2, <1>3, <1>10 DEF Launch
<1>11. ASSUME NEW f \in Function, NEW d \in Drivers, Happens(f, d) PROVE TypeInv'
  BY <1>2, <1>3, <1>11, EventsAssumption DEF Happens
<1>12. ASSUME NEW f \in Function, Unplug(f) \/ Appear(f) \/ HostProbe(f) PROVE TypeInv'
  BY <1>11, <1>12 DEF Unplug, Appear, HostProbe, Takers, Drivers
<1>13. CASE UNCHANGED ptVars
  BY <1>2, <1>3, <1>13 DEF ptVars
<1> QED  BY <1>4, <1>5, <1>6, <1>7, <1>8, <1>9, <1>10, <1>12, <1>13 DEF PassthroughNext

\* PassthroughTypeOK, with what it rests on.
THEOREM PassthroughTypeCorrect == PassthroughSpec => []PassthroughTypeOK
<1>1. TypeInv /\ [PassthroughNext]_ptVars => TypeInv'
  BY TypeStep
<1>2. TypeInv => PassthroughTypeOK
  BY DEF TypeInv
<1> QED  BY TypeInitially, <1>1, <1>2, PTL DEF PassthroughSpec

\* build_pci_rootport_map gives every configured device a slot of its own, whatever
\* overrides there are and however many slots.
THEOREM SlotsAlwaysDistinct == PassthroughSpec => []SlotsDistinct
<1>1. TypeInv /\ [PassthroughNext]_ptVars => TypeInv'
  BY TypeStep
<1>2. TypeInv => SlotsDistinct
  BY PortMapDistinct DEF TypeInv, PortsKept, SlotsDistinct
<1> QED  BY TypeInitially, <1>1, <1>2, PTL DEF PassthroughSpec

-----------------------------------------------------------------------------
(* The policy, from the gate to the verification.                          *)

\* IsolationOk, mode by mode: an audit decides as if there were no policy, and
\* Enforce accepts less.
THEOREM AuditBlocksNothing == PassthroughSpec => []AuditNeverBlocks
<1>1. AuditNeverBlocks
  BY DEF AuditNeverBlocks, IsolationOk, PlanOk
<1> QED  BY <1>1, PTL

\* While the plan is executed, what is left of it is of the plan that was made from
\* the scan, and the scan passed the gates.
StagedInv ==
    phase = "execute" =>
        /\ todo \subseteq Plan(snap)
        /\ PlanOk(snap) /\ IsolationOk(cfg.mode, snap)

\* The decisions on a scan depend on the configuration and the host chosen.
LEMMA StagedStep ==
  ASSUME TypeInv, StagedInv, [PassthroughNext]_ptVars
  PROVE  StagedInv'
<1>1. cfg' = cfg /\ host' = host
  BY DEF PassthroughNext, ptVars, Validate, Stage, Execute, ExecuteFails, Verify, BuildArgs,
         Launch, Unplug, Appear, HostProbe, Happens
<1>2. Configured' = Configured /\ ChosenOK
  BY <1>1 DEF Configured, TypeInv
<1>3. /\ Plan(snap)' = Plan(snap') /\ PlanOk(snap)' = PlanOk(snap')
      /\ IsolationOk(cfg.mode, snap)' = IsolationOk(cfg.mode, snap')
  <2>1. Plan(snap)' = Plan(snap')
    BY <1>1 DEF Plan
  <2>2. PlanOk(snap)' = PlanOk(snap')
    BY <1>1, <1>2
       DEF PlanOk, Resolves, GpusStageable, Vetoed, Present, Feasibility, InGpuComplex
  <2>3. IsolationOk(cfg.mode, snap)' = IsolationOk(cfg.mode, snap')
    BY <1>1, <1>2
       DEF IsolationOk, Resolves, Violates, NotExclusive, MixedOwnership, CriticalGroups,
           Forbidden, DedicatedShared, NumaMismatch, Groups, Slots, Mixed, Passed, Present,
           LevelOf
  <2> QED  BY <2>1, <2>2, <2>3
<1>4. CASE Stage
  <2>1. CASE phase' = "execute"
    <3>1. snap' = driver /\ driver' = driver
      BY <1>4 DEF Stage
    <3>2. IsolationOk(cfg.mode, driver) /\ PlanOk(driver) /\ todo' = Plan(driver)
      BY <1>4, <2>1 DEF Stage, Goes
    <3> QED  BY <1>3, <3>1, <3>2 DEF StagedInv
  <2>2. CASE phase' # "execute"
    BY <2>2 DEF StagedInv
  <2> QED  BY <2>1, <2>2
<1>5. CASE Execute
  <2>1. todo' \subseteq todo /\ snap' = snap /\ phase = "execute"
    BY <1>5 DEF Execute
  <2> QED  BY <1>3, <2>1 DEF StagedInv
<1>6. ASSUME NEW f \in Function, NEW d, Happens(f, d) PROVE StagedInv'
  BY <1>3, <1>6 DEF StagedInv, Happens
<1>7. ASSUME NEW f \in Function, Unplug(f) \/ Appear(f) \/ HostProbe(f) PROVE StagedInv'
  BY <1>6, <1>7 DEF Unplug, Appear, HostProbe
<1>8. CASE Validate \/ ExecuteFails \/ Verify \/ BuildArgs \/ Launch
  BY <1>8 DEF StagedInv, Validate, ExecuteFails, Verify, BuildArgs, Launch, Goes
<1>9. CASE UNCHANGED ptVars
  BY <1>3, <1>9 DEF StagedInv, ptVars
<1> QED  BY <1>4, <1>5, <1>7, <1>8, <1>9 DEF PassthroughNext

\* What the gate found out about a device it let through under Enforce: nobody else
\* has a function of its group or its slot that it asked to be kept together.
LEMMA EnforcedScan ==
  ASSUME NEW d, cfg.mode = "enforce", IsolationOk(cfg.mode, d),
         NEW f \in Passed(d), NEW g \in Present(d)
  PROVE  /\ /\ host.group[g] = host.group[f] /\ host.group[f] # NoGroup
            /\ cfg.exclusive \/ LevelOf(f) = "dedicated"
            => g \in Passed(d)
         /\ SlotOf[g] = SlotOf[f] /\ cfg.multifunction => g \in Passed(d)
         /\ LevelOf(f) # "forbidden"
         /\ LevelOf(f) = "dedicated" /\ cfg.node # NoNode /\ host.node[f] >= 0
            => host.node[f] = cfg.node
         /\ ~ /\ cfg.critical /\ host.group[f] # NoGroup
              /\ g \in Display /\ d[g] = "gpu" /\ host.group[g] = host.group[f]
<1> DEFINE Group == {h \in Present(d) : host.group[h] = host.group[f]}
           Siblings == {h \in Present(d) : SlotOf[h] = SlotOf[f]}
<1>1. ~ Violates(d)
  BY DEF IsolationOk
<1>2. f \in Present(d) /\ f \in Group /\ f \in Siblings
  BY DEF Passed
<1>3. host.group[f] # NoGroup => Group \in Groups(d)
  BY <1>2 DEF Groups
<1>4. Siblings \in Slots(d)
  BY <1>2 DEF Slots
<1>5. ASSUME host.group[g] = host.group[f], host.group[f] # NoGroup,
             cfg.exclusive \/ LevelOf(f) = "dedicated", g \notin Passed(d)
      PROVE  FALSE
  <2>1. Mixed(Group, d)
    BY <1>2, <1>5 DEF Mixed
  <2>2. NotExclusive(d) # {}
    BY <1>3, <1>5, <2>1 DEF NotExclusive
  <2>3. ~ cfg.exclusive => DedicatedShared(d) # {}
    BY <1>2, <1>3, <1>5, <2>1 DEF DedicatedShared
  <2> QED  BY <1>1, <2>2, <2>3 DEF Violates
<1>6. ASSUME SlotOf[g] = SlotOf[f], cfg.multifunction, g \notin Passed(d) PROVE FALSE
  <2>1. Mixed(Siblings, d)
    BY <1>2, <1>6 DEF Mixed
  <2> QED  BY <1>1, <1>4, <1>6, <2>1 DEF Violates, MixedOwnership
<1>7. LevelOf(f) # "forbidden"
  BY <1>1 DEF Violates, Forbidden
<1>8. LevelOf(f) = "dedicated" /\ cfg.node # NoNode /\ host.node[f] >= 0
      => host.node[f] = cfg.node
  BY <1>1 DEF Violates, NumaMismatch
<1>9. ASSUME cfg.critical, host.group[f] # NoGroup,
             g \in Display, d[g] = "gpu", host.group[g] = host.group[f]
      PROVE  FALSE
  <2>1. Group \in CriticalGroups(d)
    BY <1>2, <1>3, <1>9 DEF CriticalGroups
  <2> QED  BY <1>1, <1>9, <2>1 DEF Violates
<1> QED  BY <1>5, <1>6, <1>7, <1>8, <1>9

-----------------------------------------------------------------------------
(* The promises of the policy.                                             *)

StageInv == TypeInv /\ StagedInv

\* The rest of the plan stays one of a scan that passed the gates.
LEMMA StageInvAlways == PassthroughSpec => []StageInv
<1>1. PassthroughInit => StageInv
  BY TypeInitially DEF StageInv, StagedInv, PassthroughInit
<1>2. StageInv /\ [PassthroughNext]_ptVars => StageInv'
  BY TypeStep, StagedStep DEF StageInv
<1> QED  BY <1>1, <1>2, PTL DEF PassthroughSpec

\* What the verification lets through was in the scan that the gate judged, unless it
\* was then missing and may be.
LEMMA VerifiedFacts ==
  ASSUME StageInv, [PassthroughNext]_ptVars, Verifies
  PROVE  /\ PlanOk(snap) /\ IsolationOk(cfg.mode, snap)
         /\ \A f \in Passed(driver) : driver[f] = "vfio"
         /\ \A f \in Passed(driver) \ Late : f \in Passed(snap)
<1>1. phase = "execute" /\ phase' = "verified"
  BY DEF Verifies
<1>2. Verify
  BY <1>1 DEF PassthroughNext, ptVars, Validate, Stage, Execute, ExecuteFails, BuildArgs,
              Launch, Unplug, Appear, HostProbe, Happens, Goes
<1>3. Verified(driver)
  BY <1>1, <1>2 DEF Verify, Goes
<1>4. PlanOk(snap) /\ IsolationOk(cfg.mode, snap)
  BY <1>1 DEF StageInv, StagedInv
<1>5. \A f \in Passed(driver) \ Late : f \in Passed(snap)
  BY <1>4 DEF PlanOk, Resolves, Passed, Late
<1> QED  BY <1>3, <1>4, <1>5 DEF Verified

\* The body of Isolated, of one step.
IsolatedStep ==
    Verifies /\ cfg.mode = "enforce" =>
        \A f \in Passed(driver) \ Late, g \in Passed(driver) \union Present(snap) :
            \/ /\ host.group[g] = host.group[f] /\ host.group[f] # NoGroup
               /\ cfg.exclusive \/ LevelOf(f) = "dedicated"
            \/ SlotOf[g] = SlotOf[f] /\ cfg.multifunction
            => driver[g] \in {"absent", "vfio"}

\* What shares a group or a slot with a device of the scan was in the scan, and then
\* it is passed through as well, or it is a late device of the configuration: either
\* way it is on vfio-pci at the verification, or gone.
THEOREM GuestAlwaysIsolated == PassthroughSpec => Isolated
<1>1. StageInv /\ [PassthroughNext]_ptVars => [IsolatedStep]_ptVars
  <2> SUFFICES ASSUME StageInv, [PassthroughNext]_ptVars, Verifies, cfg.mode = "enforce",
                      NEW f \in Passed(driver) \ Late,
                      NEW g \in Passed(driver) \union Present(snap),
                      \/ /\ host.group[g] = host.group[f] /\ host.group[f] # NoGroup
                         /\ cfg.exclusive \/ LevelOf(f) = "dedicated"
                      \/ SlotOf[g] = SlotOf[f] /\ cfg.multifunction
               PROVE  driver[g] \in {"absent", "vfio"}
    BY DEF IsolatedStep
  <2>1. IsolationOk(cfg.mode, snap) /\ f \in Passed(snap)
    BY VerifiedFacts
  <2>2. CASE g \in Passed(driver)
    BY <2>2, VerifiedFacts
  <2>3. CASE g \in Present(snap) /\ g \notin Passed(driver)
    <3>1. g \in Configured
      BY <2>1, <2>3, EnforcedScan DEF Passed
    <3> QED  BY <2>3, <3>1 DEF Passed, Present
  <2> QED  BY <2>2, <2>3
<1> QED  BY <1>1, StageInvAlways, PTL DEF PassthroughSpec, Isolated, IsolatedStep

\* The body of PolicyKept, of one step.
PolicyKeptStep ==
    Verifies /\ cfg.mode = "enforce" =>
        \A f \in Passed(driver) \ Late :
            /\ LevelOf(f) # "forbidden"
            /\ LevelOf(f) = "dedicated" =>
                 host.node[f] < 0 \/ cfg.node \in {NoNode, host.node[f]}
            /\ cfg.critical /\ host.group[f] # NoGroup =>
                 ~ \E g \in Display : snap[g] = "gpu" /\ host.group[g] = host.group[f]

\* Levels, NUMA nodes and the host's GPUs: a device of the scan was judged by the gate,
\* whatever replaced it since, and only a late one was not.
THEOREM PolicyAlwaysKept == PassthroughSpec => PolicyKept
<1>1. StageInv /\ [PassthroughNext]_ptVars => [PolicyKeptStep]_ptVars
  <2> SUFFICES ASSUME StageInv, [PassthroughNext]_ptVars, Verifies, cfg.mode = "enforce",
                      NEW f \in Passed(driver) \ Late
               PROVE  /\ LevelOf(f) # "forbidden"
                      /\ LevelOf(f) = "dedicated" =>
                           host.node[f] < 0 \/ cfg.node \in {NoNode, host.node[f]}
                      /\ cfg.critical /\ host.group[f] # NoGroup =>
                           ~ \E g \in Display :
                               snap[g] = "gpu" /\ host.group[g] = host.group[f]
    BY DEF PolicyKeptStep
  <2>1. IsolationOk(cfg.mode, snap) /\ f \in Passed(snap)
    BY VerifiedFacts
  <2>2. f \in Present(snap)
    BY <2>1 DEF Passed
  <2>3. LevelOf(f) # "forbidden"
    BY <2>1, <2>2, EnforcedScan
  <2>4. LevelOf(f) = "dedicated" => host.node[f] < 0 \/ cfg.node \in {NoNode, host.node[f]}
    <3>1. host.node[f] \in Int
      BY <2>2, CfgFacts DEF StageInv, TypeInv, PciHost, Present
    <3>2. LevelOf(f) = "dedicated" /\ cfg.node # NoNode /\ host.node[f] >= 0
          => host.node[f] = cfg.node
      BY <2>1, <2>2, EnforcedScan
    <3> QED  BY <3>1, <3>2
  <2>5. ASSUME cfg.critical, host.group[f] # NoGroup,
               NEW g \in Display, snap[g] = "gpu", host.group[g] = host.group[f]
        PROVE  FALSE
    <3>1. g \in Present(snap)
      BY <2>5, DisplayAssumption DEF Present
    <3> QED  BY <2>1, <2>5, <3>1, EnforcedScan
  <2> QED  BY <2>3, <2>4, <2>5
<1> QED  BY <1>1, StageInvAlways, PTL DEF PassthroughSpec, PolicyKept, PolicyKeptStep

\* The body of HostGpuKept, of one step.
HostGpuKeptStep ==
    \A f \in Display : driver[f] = "gpu" /\ driver'[f] = "none" =>
        /\ f \in cfg.other \ cfg.gpu
        /\ ~ (cfg.mode = "enforce" /\ cfg.critical /\ host.group[f] # NoGroup)

\* Only an unbind of the plan does it, which was of the driver the scan found: a GPU
\* of the GPU list would not have been staged.
THEOREM HostGpuAlwaysKept == PassthroughSpec => HostGpuKept
<1>1. StageInv /\ [PassthroughNext]_ptVars => [HostGpuKeptStep]_ptVars
  <2> SUFFICES ASSUME StageInv, [PassthroughNext]_ptVars,
                      NEW f \in Display, driver[f] = "gpu", driver'[f] = "none"
               PROVE  /\ f \in cfg.other \ cfg.gpu
                      /\ ~ (cfg.mode = "enforce" /\ cfg.critical /\ host.group[f] # NoGroup)
    BY DEF HostGpuKeptStep
  <2>1. f \in Function /\ driver \in [Function -> Drivers] /\ ChosenOK
    BY DisplayAssumption DEF StageInv, TypeInv, PassthroughTypeOK
  <2>2. ~ \E g \in Function : Unplug(g) \/ Appear(g) \/ HostProbe(g)
    BY <2>1 DEF Unplug, Appear, HostProbe, Happens
  <2>3. Execute
    BY <2>2 DEF PassthroughNext, ptVars, Validate, Stage, ExecuteFails, Verify, BuildArgs,
                Launch
  <2>4. PICK a \in todo : a[1] = "unbind" /\ a[3] = f /\ Works(a)
    BY <2>1, <2>3 DEF Execute
  <2>5. a \in Plan(snap) /\ PlanOk(snap) /\ IsolationOk(cfg.mode, snap)
    BY <2>3, <2>4 DEF Execute, StageInv, StagedInv
  <2>6. snap[f] = "gpu"
    BY <2>4 DEF Works, Idle
  <2>7. f \in Passed(snap) /\ f \in Present(snap)
    BY <2>1, <2>4, <2>5, PlanFacts DEF Passed
  <2>8. f \notin cfg.gpu
    BY <2>5, <2>6, <2>7 DEF PlanOk, GpusStageable, Feasibility
  <2>9. f \in cfg.other
    BY <2>7, <2>8 DEF Passed, Configured
  <2>10. ~ (cfg.mode = "enforce" /\ cfg.critical /\ host.group[f] # NoGroup)
    BY <2>5, <2>6, <2>7, EnforcedScan
  <2> QED  BY <2>8, <2>9, <2>10
<1> QED  BY <1>1, StageInvAlways, PTL DEF PassthroughSpec, HostGpuKept, HostGpuKeptStep

=============================================================================

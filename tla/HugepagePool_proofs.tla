------------------------- MODULE HugepagePool_proofs -------------------------
(***************************************************************************)
(* Proofs about HugepagePool, for every finite set of VMs, their needs,    *)
(* the node's memory and any number of crashes.                            *)
(***************************************************************************)
EXTENDS HugepagePool, FiniteSetTheorems, TLAPS

\* The marker stands for a mount of the daemon's own.
MarkerInv == marker => mounted = "ours"

ForeignKept == mounted = "foreign" => mounted' = "foreign"

\* Marking only what it mounted, and unmounting only what is marked, the daemon
\* leaves the mounts of others alone.
LEMMA MountStep ==
  ASSUME MarkerRemovable, MarkerInv, [PoolNext]_hpVars
  PROVE  MarkerInv' /\ ForeignKept
<1> USE DEF MarkerInv, ForeignKept, mountVars
<1>1. ASSUME NEW v \in Vm, Provision(v) PROVE MarkerInv' /\ ForeignKept
  BY <1>1 DEF Provision, EnsureMount
<1>2. ASSUME NEW v \in Vm, GiveUp(v) PROVE MarkerInv' /\ ForeignKept
  BY <1>2 DEF GiveUp
<1>3. ASSUME NEW v \in Vm, Launch(v) PROVE MarkerInv' /\ ForeignKept
  BY <1>3 DEF Launch
<1>4. ASSUME NEW v \in Vm, QemuAllocates(v) PROVE MarkerInv' /\ ForeignKept
  BY <1>4 DEF QemuAllocates
<1>5. ASSUME NEW v \in Vm, QemuEnds(v) PROVE MarkerInv' /\ ForeignKept
  BY <1>5 DEF QemuEnds
<1>6. ASSUME NEW v \in Vm, Cleanup(v) PROVE MarkerInv' /\ ForeignKept
  BY <1>6 DEF Cleanup, CleanupMount
<1>7. CASE ForeignMount
  BY <1>7 DEF ForeignMount
<1>8. CASE Crash
  BY <1>8 DEF Crash
<1>9. ASSUME NEW v \in Vm, StrayAllocates(v) \/ StrayEnds(v) PROVE MarkerInv' /\ ForeignKept
  BY <1>9 DEF StrayAllocates, StrayEnds
<1>10. CASE UNCHANGED hpVars
  BY <1>10 DEF hpVars
<1> QED
  BY <1>1, <1>2, <1>3, <1>4, <1>5, <1>6, <1>7, <1>8, <1>9, <1>10 DEF PoolNext

\* No interleaving of provisionings and cleanups unmounts what somebody else
\* mounted on /dev/hugepages, if the marker file can always be removed.
THEOREM ForeignMountAlwaysKept ==
  ASSUME MarkerRemovable PROVE PoolSpec => ForeignMountKept
<1>1. PoolInit => MarkerInv
  BY DEF PoolInit, MarkerInv
<1>2. MarkerInv /\ [PoolNext]_hpVars => MarkerInv' /\ [ForeignKept]_hpVars
  BY MountStep
<1> QED  BY <1>1, <1>2, PTL DEF PoolSpec, ForeignMountKept, ForeignKept

-----------------------------------------------------------------------------
(* Counting pages.  The sum of a function is the number of pairs of a VM   *)
(* and one of its pages.                                                   *)

PagesOf(v, n) == {v} \X (0..(n - 1))
Pages(h) == {p \in Vm \X Nat : p[2] < h[p[1]]}
Sum(h) == Cardinality(Pages(h))

\* A VM that holds n pages has a set of n of them.
LEMMA PagesOfSize ==
  ASSUME NEW v, NEW n \in Nat
  PROVE  IsFiniteSet(PagesOf(v, n)) /\ Cardinality(PagesOf(v, n)) = n
<1>1. IsFiniteSet({v}) /\ Cardinality({v}) = 1
  BY FS_Singleton
<1>2. IsFiniteSet(0..(n - 1)) /\ Cardinality(0..(n - 1)) = n
  <2>1. n - 1 \in Int /\ (IF 0 > n - 1 THEN 0 ELSE (n - 1) - 0 + 1) = n
    OBVIOUS
  <2> QED  BY <2>1, FS_Interval
<1>3. /\ IsFiniteSet(PagesOf(v, n))
      /\ Cardinality(PagesOf(v, n)) = Cardinality({v}) * Cardinality(0..(n - 1))
  <2> DEFINE one == {v}
             all == 0..(n - 1)
  <2>1. IsFiniteSet(one) /\ IsFiniteSet(all)
    BY <1>1, <1>2
  <2> HIDE DEF one, all
  <2>2. IsFiniteSet(one \X all) /\ Cardinality(one \X all) = Cardinality(one) * Cardinality(all)
    BY <2>1, FS_Product
  <2> QED  BY <2>2 DEF PagesOf, one, all
<1> QED  BY <1>1, <1>2, <1>3

\* The pages of a VM are numbered from 0.
LEMMA PagesElement ==
  ASSUME NEW h \in [Vm -> Nat], NEW v, NEW i
  PROVE  <<v, i>> \in Pages(h) <=> v \in Vm /\ i \in 0..(h[v] - 1)
<1>1. v \in Vm => h[v] \in Nat
  OBVIOUS
<1> QED  BY <1>1 DEF Pages

\* Every page is one of a VM, with its number.
LEMMA PagesPair ==
  ASSUME NEW h \in [Vm -> Nat], NEW p \in Pages(h)
  PROVE  p = <<p[1], p[2]>> /\ p[1] \in Vm /\ p[2] \in 0..(h[p[1]] - 1)
<1>1. p \in Vm \X Nat /\ p[2] < h[p[1]]
  BY DEF Pages
<1>2. p = <<p[1], p[2]>> /\ p[1] \in Vm /\ p[2] \in Nat
  BY <1>1
<1>3. h[p[1]] \in Nat
  BY <1>2
<1> QED  BY <1>1, <1>2, <1>3

\* Finitely many VMs hold finitely many pages.
LEMMA PagesFinite ==
  ASSUME NEW h \in [Vm -> Nat]
  PROVE  IsFiniteSet(Pages(h)) /\ Sum(h) \in Nat
<1> DEFINE of == [v \in Vm |-> PagesOf(v, h[v])]
           T == {PagesOf(v, h[v]) : v \in Vm}
<1>1. of \in Surjection(Vm, T)
  BY DEF Surjection
<1>2. IsFiniteSet(T)
  BY <1>1, VmAssumption, FS_Surjection
<1>3. \A S \in T : IsFiniteSet(S)
  BY PagesOfSize
<1>4. IsFiniteSet(UNION T)
  BY <1>2, <1>3, FS_UNION
<1>5. Pages(h) \subseteq UNION T
  <2> SUFFICES ASSUME NEW p \in Pages(h) PROVE \E S \in T : p \in S
    OBVIOUS
  <2>1. p = <<p[1], p[2]>> /\ p[1] \in Vm /\ p[2] \in 0..(h[p[1]] - 1)
    BY PagesPair
  <2>2. p \in PagesOf(p[1], h[p[1]])
    BY <2>1 DEF PagesOf
  <2> QED  BY <2>1, <2>2
<1>6. IsFiniteSet(Pages(h))
  BY <1>4, <1>5, FS_Subset
<1> QED  BY <1>6, FS_CardinalityType DEF Sum

\* Sums add up: the pages of the second are counted after those of the first.
LEMMA SumAdds ==
  ASSUME NEW g \in [Vm -> Nat], NEW h \in [Vm -> Nat], NEW k \in [Vm -> Nat],
         \A v \in Vm : k[v] = g[v] + h[v]
  PROVE  Sum(k) = Sum(g) + Sum(h)
<1> DEFINE Later == Pages(k) \ Pages(g)
           shift == [p \in Pages(h) |-> <<p[1], g[p[1]] + p[2]>>]
<1>1. Pages(g) \subseteq Pages(k)
  <2> SUFFICES ASSUME NEW p \in Pages(g) PROVE p \in Pages(k)
    OBVIOUS
  <2>1. p = <<p[1], p[2]>> /\ p[1] \in Vm /\ p[2] \in 0..(g[p[1]] - 1)
    BY PagesPair
  <2>2. p[2] \in 0..(k[p[1]] - 1)
    BY <2>1
  <2> QED  BY <2>1, <2>2, PagesElement
<1>2. \A p \in Pages(h) : shift[p] \in Later
  <2> SUFFICES ASSUME NEW p \in Pages(h) PROVE <<p[1], g[p[1]] + p[2]>> \in Later
    OBVIOUS
  <2>1. p[1] \in Vm /\ p[2] \in 0..(h[p[1]] - 1)
    BY PagesPair
  <2>2. /\ g[p[1]] + p[2] \in 0..(k[p[1]] - 1)
        /\ g[p[1]] + p[2] \notin 0..(g[p[1]] - 1)
    BY <2>1
  <2> QED  BY <2>1, <2>2, PagesElement
<1>3. \A p, q \in Pages(h) : shift[p] = shift[q] => p = q
  <2> SUFFICES ASSUME NEW p \in Pages(h), NEW q \in Pages(h), shift[p] = shift[q]
               PROVE  p = q
    OBVIOUS
  <2>1. /\ p = <<p[1], p[2]>> /\ p[1] \in Vm /\ p[2] \in 0..(h[p[1]] - 1)
        /\ q = <<q[1], q[2]>> /\ q[1] \in Vm /\ q[2] \in 0..(h[q[1]] - 1)
    BY PagesPair
  <2>2. p[1] = q[1] /\ g[p[1]] + p[2] = g[q[1]] + q[2]
    OBVIOUS
  <2>3. p[2] = q[2]
    <3>1. p[2] \in Int /\ q[2] \in Int /\ g[p[1]] \in Int /\ g[q[1]] = g[p[1]]
      BY <2>1, <2>2
    <3> QED  BY <2>2, <3>1
  <2> QED  BY <2>1, <2>2, <2>3
<1>4. \A r \in Later : \E p \in Pages(h) : shift[p] = r
  <2> SUFFICES ASSUME NEW r \in Later PROVE \E p \in Pages(h) : shift[p] = r
    OBVIOUS
  <2>1. r = <<r[1], r[2]>> /\ r[1] \in Vm /\ r[2] \in 0..(k[r[1]] - 1)
    BY PagesPair
  <2>2. r[2] \notin 0..(g[r[1]] - 1)
    BY <2>1, PagesElement
  <2>3. r[2] - g[r[1]] \in 0..(h[r[1]] - 1) /\ g[r[1]] + (r[2] - g[r[1]]) = r[2]
    BY <2>1, <2>2
  <2>4. <<r[1], r[2] - g[r[1]]>> \in Pages(h)
    BY <2>1, <2>3, PagesElement
  <2>5. shift[<<r[1], r[2] - g[r[1]]>>] = r
    BY <2>1, <2>3, <2>4
  <2> QED  BY <2>4, <2>5
<1>5. shift \in Bijection(Pages(h), Later)
  <2>1. shift \in [Pages(h) -> Later]
    BY <1>2
  <2> HIDE DEF shift, Later
  <2> QED  BY <1>3, <1>4, <2>1 DEF Bijection, Injection, Surjection, IsInjective
<1>6. Cardinality(Later) = Sum(h)
  BY <1>5, PagesFinite, FS_Bijection DEF ExistsBijection, Sum
<1>7. Cardinality(Later) = Sum(k) - Cardinality(Pages(k) \intersect Pages(g))
  BY PagesFinite, FS_Difference DEF Sum
<1>8. Pages(k) \intersect Pages(g) = Pages(g)
  BY <1>1
<1>9. Sum(g) \in Nat /\ Sum(h) \in Nat /\ Sum(k) \in Nat
  BY PagesFinite
<1>10. Cardinality(Later) = Sum(k) - Sum(g)
  BY <1>7, <1>8 DEF Sum
<1> QED  BY <1>6, <1>9, <1>10

\* What one VM has of the sum.
LEMMA SumSplits ==
  ASSUME NEW h \in [Vm -> Nat], NEW v \in Vm
  PROVE  Sum(h) = Sum([h EXCEPT ![v] = 0]) + h[v]
<1> DEFINE own == [w \in Vm |-> IF w = v THEN h[v] ELSE 0]
           rest == [h EXCEPT ![v] = 0]
<1>1. own \in [Vm -> Nat] /\ rest \in [Vm -> Nat]
  OBVIOUS
<1>2. \A w \in Vm : h[w] = rest[w] + own[w]
  OBVIOUS
<1>3. Pages(own) = PagesOf(v, h[v])
  <2>1. \A p : p \in Pages(own) => p \in PagesOf(v, h[v])
    <3> SUFFICES ASSUME NEW p \in Pages(own) PROVE p \in PagesOf(v, h[v])
      OBVIOUS
    <3>1. p = <<p[1], p[2]>> /\ p[1] \in Vm /\ p[2] \in 0..(own[p[1]] - 1)
      BY <1>1, PagesPair
    <3>2. p[1] = v
      BY <3>1
    <3> QED  BY <3>1, <3>2 DEF PagesOf
  <2>2. \A p : p \in PagesOf(v, h[v]) => p \in Pages(own)
    <3> SUFFICES ASSUME NEW p \in PagesOf(v, h[v]) PROVE p \in Pages(own)
      OBVIOUS
    <3>1. p = <<v, p[2]>> /\ p[2] \in 0..(h[v] - 1)
      BY DEF PagesOf
    <3>2. <<v, p[2]>> \in Pages(own)
      BY <1>1, <3>1, PagesElement
    <3> QED  BY <3>1, <3>2
  <2> QED  BY <2>1, <2>2
<1>4. Sum(own) = h[v]
  BY <1>3, PagesOfSize DEF Sum
<1> HIDE DEF own, rest
<1>5. Sum(h) = Sum(rest) + Sum(own)
  BY <1>1, <1>2, SumAdds
<1> QED  BY <1>4, <1>5 DEF rest

\* The sum is zero exactly when no VM holds a page.
LEMMA SumZero ==
  ASSUME NEW h \in [Vm -> Nat]
  PROVE  Sum(h) = 0 <=> \A v \in Vm : h[v] = 0
<1>1. ASSUME \A v \in Vm : h[v] = 0 PROVE Sum(h) = 0
  <2>1. \A p : p \notin Pages(h)
    <3> SUFFICES ASSUME NEW p \in Pages(h) PROVE FALSE
      OBVIOUS
    <3>1. p[1] \in Vm /\ p[2] \in 0..(h[p[1]] - 1)
      BY PagesPair
    <3> QED  BY <1>1, <3>1
  <2>2. Pages(h) = {}
    BY <2>1
  <2> QED  BY <2>2, FS_EmptySet DEF Sum
<1>2. ASSUME Sum(h) = 0, NEW v \in Vm PROVE h[v] = 0
  <2>1. [h EXCEPT ![v] = 0] \in [Vm -> Nat]
    OBVIOUS
  <2>2. Sum([h EXCEPT ![v] = 0]) \in Nat
    BY <2>1, PagesFinite
  <2>3. Sum(h) = Sum([h EXCEPT ![v] = 0]) + h[v]
    BY SumSplits
  <2> QED  BY <1>2, <2>2, <2>3
<1> QED  BY <1>1, <1>2

-----------------------------------------------------------------------------
(* The pool.                                                               *)

\* The pages in use are those that the QEMUs have, known or not.
Conserved == InUse = Sum(held) + Sum(lost)

\* Only a QEMU that runs has pages, and a VM has something to clean up while it is
\* not down.
HeldInv ==
    /\ \A v \in Vm : held[v] > 0 => phase[v] = "running"
    /\ \A v \in Vm : active[v] <=> phase[v] # "down"

\* A raised pool has a VM that will clean up, and unless the daemon crashed, no QEMU
\* is unknown.
DrainInv ==
    ~ unclean =>
        /\ stray = {} /\ \A v \in Vm : lost[v] = 0
        /\ (\A v \in Vm : Need[v] <= Mem) /\ total > 0 => \E v \in Vm : active[v]

PoolInv == PoolTypeOK /\ Conserved /\ HeldInv /\ DrainInv

\* The counters keep their types, whatever is written.
LEMMA WriteNrType ==
  ASSUME total \in Nat, free \in 0..total, NEW n \in Nat, WriteNr(n)
  PROVE  /\ total' \in Nat /\ free' \in 0..total' /\ surplus' \in 0..total'
         /\ total' - free' = InUse
         /\ n = 0 => total' = InUse
         /\ total = 0 /\ n <= Mem => free' = n
<1>1. Mem \in Nat
  BY MemAssumption
<1> QED  BY <1>1 DEF WriteNr, InUse, Least, Most

\* Pages come back that were in use.
LEMMA ReleaseType ==
  ASSUME total \in Nat, free \in 0..total, surplus \in 0..total, NEW n \in 0..InUse,
         Release(n)
  PROVE  /\ total' \in Nat /\ free' \in 0..total' /\ surplus' \in 0..total'
         /\ total' - free' = InUse - n
         /\ total' <= total
  BY DEF Release, InUse, Least

\* At the start.
LEMMA PoolInitially == PoolInit => PoolInv
<1> SUFFICES ASSUME PoolInit PROVE PoolInv
  OBVIOUS
<1>1. PoolTypeOK
  <2>1. crashes \in 0..MaxCrashes /\ total \in Nat /\ free \in 0..total /\ surplus \in 0..total
    BY CrashAssumption DEF PoolInit
  <2>2. active \in [Vm -> BOOLEAN] /\ unclean \in BOOLEAN /\ marker \in BOOLEAN
    BY Zenon DEF PoolInit
  <2>3. held \in [Vm -> Nat] /\ lost \in [Vm -> Nat] /\ stray \subseteq Vm
    BY DEF PoolInit
  <2> QED  BY <2>1, <2>2, <2>3 DEF PoolInit, PoolTypeOK
<1>2. Sum(held) = 0 /\ Sum(lost) = 0
  BY <1>1, SumZero DEF PoolInit, PoolTypeOK
<1>3. Conserved
  BY <1>2 DEF PoolInit, Conserved, InUse
<1>4. HeldInv /\ DrainInv
  BY DEF PoolInit, HeldInv, DrainInv
<1> QED  BY <1>1, <1>3, <1>4 DEF PoolInv

\* Every step keeps the counters true to what the QEMUs hold.
LEMMA PoolStep ==
  ASSUME PoolInv, [PoolNext]_hpVars
  PROVE  PoolInv'
<1>1. /\ PoolTypeOK /\ Conserved /\ HeldInv /\ DrainInv
      /\ Sum(held) \in Nat /\ Sum(lost) \in Nat /\ InUse \in Nat
  BY PagesFinite DEF PoolInv, PoolTypeOK, InUse
<1>2. \A v \in Vm : Need[v] \in Nat \ {0}
  BY NeedAssumption
<1> USE DEF crashVars, mountVars, poolVars, Goes
<1>3. ASSUME NEW v \in Vm, Provision(v) PROVE PoolInv'
  <2>1. /\ total' \in Nat /\ free' \in 0..total' /\ surplus' \in 0..total'
        /\ total' - free' = InUse
        /\ total = 0 /\ Need[v] <= Mem => free' >= Need[v]
    <3>1. CASE free < Need[v] /\ total < Need[v]
      BY <1>1, <1>2, <1>3, <3>1, WriteNrType DEF Provision, RaisePool, PoolTypeOK
    <3>2. CASE ~ (free < Need[v] /\ total < Need[v])
      BY <1>1, <1>2, <1>3, <3>2 DEF Provision, RaisePool, PoolTypeOK, InUse
    <3> QED  BY <3>1, <3>2
  <2>2. mounted' \in {"none", "ours", "foreign"} /\ marker' \in BOOLEAN
    BY <1>1, <1>3 DEF Provision, EnsureMount, PoolTypeOK
  <2>3. PoolTypeOK'
    BY <1>1, <1>3, <2>1, <2>2 DEF Provision, PoolTypeOK
  <2>4. Conserved'
    BY <1>1, <1>3, <2>1 DEF Provision, Conserved, InUse
  <2>5. HeldInv'
    BY <1>1, <1>3 DEF Provision, HeldInv, PoolTypeOK
  <2>6. DrainInv'
    <3> SUFFICES ASSUME ~ unclean, \A w \in Vm : Need[w] <= Mem
                 PROVE  \E w \in Vm : active'[w]
      BY <1>1, <1>3 DEF Provision, DrainInv
    <3>1. CASE \E w \in Vm : active[w]
      BY <1>1, <1>3, <3>1 DEF Provision, PoolTypeOK
    <3>2. CASE ~ \E w \in Vm : active[w]
      <4>1. total = 0
        BY <1>1, <3>2 DEF DrainInv, PoolTypeOK
      <4> QED  BY <1>1, <1>3, <2>1, <4>1 DEF Provision, PoolTypeOK
    <3> QED  BY <3>1, <3>2
  <2> QED  BY <2>3, <2>4, <2>5, <2>6 DEF PoolInv
<1>4. ASSUME NEW v \in Vm, GiveUp(v) \/ Launch(v) PROVE PoolInv'
  BY <1>1, <1>4 DEF GiveUp, Launch, PoolInv, PoolTypeOK, Conserved, InUse, HeldInv, DrainInv
<1>5. ASSUME NEW v \in Vm, QemuAllocates(v) PROVE PoolInv'
  <2>1. phase[v] = "booting" /\ held[v] = 0
    BY <1>1, <1>5 DEF QemuAllocates, HeldInv, PoolTypeOK
  <2>2. CASE held' = [held EXCEPT ![v] = Need[v]] /\ free' = free - Need[v]
             /\ free >= Need[v] /\ UNCHANGED <<total, surplus>>
             /\ phase' = [phase EXCEPT ![v] = "running"]
    <3>1. PoolTypeOK'
      BY <1>1, <1>2, <1>5, <2>2 DEF QemuAllocates, PoolTypeOK
    <3>2. Sum(held') = Sum(held) + Need[v]
      <4>1. Sum(held') = Sum([held' EXCEPT ![v] = 0]) + held'[v]
        BY <3>1, SumSplits DEF PoolTypeOK
      <4>2. [held' EXCEPT ![v] = 0] = held /\ held'[v] = Need[v]
        BY <1>1, <2>1, <2>2 DEF PoolTypeOK
      <4> QED  BY <4>1, <4>2
    <3>3. Conserved'
      BY <1>1, <1>2, <1>5, <2>2, <3>2 DEF QemuAllocates, Conserved, InUse, PoolTypeOK
    <3>4. HeldInv' /\ DrainInv'
      BY <1>1, <1>5, <2>1, <2>2 DEF QemuAllocates, HeldInv, DrainInv, PoolTypeOK
    <3> QED  BY <3>1, <3>3, <3>4 DEF PoolInv
  <2>3. CASE UNCHANGED <<held, poolVars>>
             /\ phase' \in {[phase EXCEPT ![v] = "running"], [phase EXCEPT ![v] = "closing"]}
    BY <1>1, <1>5, <2>1, <2>3
       DEF QemuAllocates, PoolInv, PoolTypeOK, Conserved, InUse, HeldInv, DrainInv
  <2> QED  BY <1>5, <2>2, <2>3 DEF QemuAllocates
<1>6. ASSUME NEW v \in Vm, QemuEnds(v) PROVE PoolInv'
  <2>1. Sum(held) = Sum(held') + held[v] /\ Sum(held') \in Nat /\ held[v] \in Nat
    BY <1>1, <1>6, SumSplits, PagesFinite DEF QemuEnds, PoolTypeOK
  <2>2. held[v] \in 0..InUse
    BY <1>1, <2>1 DEF Conserved
  <2>3. /\ total' \in Nat /\ free' \in 0..total' /\ surplus' \in 0..total'
        /\ total' - free' = InUse - held[v] /\ total' <= total
    BY <1>1, <1>6, <2>2, ReleaseType DEF QemuEnds, PoolTypeOK
  <2>4. PoolTypeOK'
    BY <1>1, <1>6, <2>3 DEF QemuEnds, PoolTypeOK
  <2>5. Conserved'
    BY <1>1, <1>6, <2>1, <2>3 DEF QemuEnds, Conserved, InUse
  <2>6. HeldInv'
    BY <1>1, <1>6 DEF QemuEnds, HeldInv, PoolTypeOK
  <2>7. DrainInv'
    BY <1>1, <1>6, <2>3 DEF QemuEnds, DrainInv, PoolTypeOK
  <2> QED  BY <2>4, <2>5, <2>6, <2>7 DEF PoolInv
<1>7. ASSUME NEW v \in Vm, Cleanup(v) PROVE PoolInv'
  <2>1. active[v] /\ phase[v] = "closing" /\ held[v] = 0
    BY <1>1, <1>7 DEF Cleanup, HeldInv, PoolTypeOK
  <2>2. WriteNr(0)
    BY <1>7, <2>1 DEF Cleanup, ResetTarget
  <2>3. /\ total' \in Nat /\ free' \in 0..total' /\ surplus' \in 0..total'
        /\ total' - free' = InUse /\ total' = InUse
    BY <1>1, <2>2, WriteNrType DEF PoolTypeOK
  <2>4. mounted' \in {"none", "ours", "foreign"} /\ marker' \in BOOLEAN
    BY <1>1, <1>7, <2>1 DEF Cleanup, CleanupMount, PoolTypeOK
  <2>5. unclean' \in BOOLEAN
    BY <1>7 DEF Cleanup
  <2>6. PoolTypeOK'
    BY <1>1, <1>7, <2>3, <2>4, <2>5 DEF Cleanup, PoolTypeOK
  <2>7. Conserved'
    BY <1>1, <1>7, <2>3 DEF Cleanup, Conserved, InUse
  <2>8. HeldInv'
    BY <1>1, <1>7, <2>1 DEF Cleanup, HeldInv, PoolTypeOK
  <2>9. DrainInv'
    <3> SUFFICES ASSUME ~ unclean'
                 PROVE  /\ stray = {} /\ \A w \in Vm : lost[w] = 0
                        /\ total' > 0 => \E w \in Vm : active'[w]
      BY <1>7 DEF Cleanup, DrainInv
    <3>1. stray = {} /\ \A w \in Vm : ~ (lost[w] > 0)
      BY <1>1, <1>7, <2>1 DEF Cleanup, DrainInv, PoolTypeOK
    <3>2. \A w \in Vm : lost[w] = 0
      BY <1>1, <3>1 DEF PoolTypeOK
    <3>3. ASSUME total' > 0 PROVE \E w \in Vm : active'[w]
      <4>1. Sum(lost) = 0
        BY <1>1, <3>2, SumZero DEF PoolTypeOK
      <4>2. Sum(held) # 0
        BY <1>1, <2>3, <3>3, <4>1 DEF Conserved
      <4>3. PICK w \in Vm : held[w] # 0
        BY <1>1, <4>2, SumZero DEF PoolTypeOK
      <4>4. w # v /\ active[w]
        BY <1>1, <2>1, <4>3 DEF HeldInv, PoolTypeOK
      <4> QED  BY <1>1, <1>7, <4>4 DEF Cleanup, PoolTypeOK
    <3> QED  BY <3>1, <3>2, <3>3
  <2> QED  BY <2>6, <2>7, <2>8, <2>9 DEF PoolInv
<1>8. CASE ForeignMount
  BY <1>1, <1>8 DEF ForeignMount, PoolInv, PoolTypeOK, Conserved, InUse, HeldInv, DrainInv
<1>9. CASE Crash
  <2>1. PoolTypeOK'
    BY <1>1, <1>9, CrashAssumption DEF Crash, PoolTypeOK
  <2>2. Sum(lost') = Sum(lost) + Sum(held)
    BY <1>1, <1>9, <2>1, SumAdds DEF Crash, PoolTypeOK
  <2>3. Sum(held') = 0
    BY <1>9, <2>1, SumZero DEF Crash, PoolTypeOK
  <2>4. Conserved'
    BY <1>1, <1>9, <2>2, <2>3 DEF Crash, Conserved, InUse
  <2>5. HeldInv' /\ DrainInv'
    BY <1>9 DEF Crash, HeldInv, DrainInv
  <2> QED  BY <2>1, <2>4, <2>5 DEF PoolInv
<1>10. ASSUME NEW v \in Vm, StrayAllocates(v) PROVE PoolInv'
  <2>1. v \in stray /\ unclean /\ unclean'
    BY <1>1, <1>10 DEF StrayAllocates, DrainInv
  <2>2. HeldInv' /\ DrainInv'
    BY <1>1, <1>10, <2>1 DEF StrayAllocates, HeldInv, DrainInv
  <2>3. CASE mounted # "none" /\ free >= Need[v]
    <3>1. lost' = [lost EXCEPT ![v] = @ + Need[v]] /\ free' = free - Need[v]
          /\ UNCHANGED <<total, surplus>>
      BY <1>10, <2>3 DEF StrayAllocates
    <3>2. PoolTypeOK'
      BY <1>1, <1>2, <1>10, <2>3, <3>1 DEF StrayAllocates, PoolTypeOK
    <3>3. Sum(lost') = Sum(lost) + Need[v]
      <4>1. Sum(lost') = Sum([lost' EXCEPT ![v] = 0]) + lost'[v]
        BY <3>2, SumSplits DEF PoolTypeOK
      <4>2. Sum(lost) = Sum([lost EXCEPT ![v] = 0]) + lost[v]
        BY <1>1, SumSplits DEF PoolTypeOK
      <4>3. [lost' EXCEPT ![v] = 0] = [lost EXCEPT ![v] = 0]
        BY <1>1, <3>1 DEF PoolTypeOK
      <4>4. lost'[v] = lost[v] + Need[v] /\ lost[v] \in Nat
        BY <1>1, <3>1 DEF PoolTypeOK
      <4>5. Sum([lost EXCEPT ![v] = 0]) \in Nat
        BY <1>1, PagesFinite DEF PoolTypeOK
      <4> QED  BY <1>2, <4>1, <4>2, <4>3, <4>4, <4>5
    <3>4. Conserved'
      BY <1>1, <1>2, <1>10, <3>1, <3>3 DEF StrayAllocates, Conserved, InUse, PoolTypeOK
    <3> QED  BY <2>2, <3>2, <3>4 DEF PoolInv
  <2>4. CASE ~ (mounted # "none" /\ free >= Need[v])
    BY <1>1, <1>10, <2>2, <2>4 DEF StrayAllocates, PoolInv, PoolTypeOK, Conserved, InUse
  <2> QED  BY <2>3, <2>4
<1>11. ASSUME NEW v \in Vm, StrayEnds(v) PROVE PoolInv'
  <2>1. Sum(lost) = Sum(lost') + lost[v] /\ Sum(lost') \in Nat /\ lost[v] \in Nat
    BY <1>1, <1>11, SumSplits, PagesFinite DEF StrayEnds, PoolTypeOK
  <2>2. lost[v] \in 0..InUse
    BY <1>1, <2>1 DEF Conserved
  <2>3. /\ total' \in Nat /\ free' \in 0..total' /\ surplus' \in 0..total'
        /\ total' - free' = InUse - lost[v] /\ total' <= total
    BY <1>1, <1>11, <2>2, ReleaseType DEF StrayEnds, PoolTypeOK
  <2>4. PoolTypeOK'
    BY <1>1, <1>11, <2>3 DEF StrayEnds, PoolTypeOK
  <2>5. Conserved'
    BY <1>1, <1>11, <2>1, <2>3 DEF StrayEnds, Conserved, InUse
  <2>6. HeldInv' /\ DrainInv'
    BY <1>1, <1>11, <2>3 DEF StrayEnds, HeldInv, DrainInv, PoolTypeOK
  <2> QED  BY <2>4, <2>5, <2>6 DEF PoolInv
<1>12. CASE UNCHANGED hpVars
  BY <1>1, <1>12 DEF hpVars, PoolInv, PoolTypeOK, Conserved, InUse, HeldInv, DrainInv
<1> QED
  BY <1>3, <1>4, <1>5, <1>6, <1>7, <1>8, <1>9, <1>10, <1>11, <1>12 DEF PoolNext

\* The kernel's counters stay consistent however many VMs provision, allocate, exit
\* and clean up at once.
THEOREM PoolTypeCorrect == PoolSpec => []PoolTypeOK
<1>1. PoolInv /\ [PoolNext]_hpVars => PoolInv'
  BY PoolStep
<1>2. PoolInv => PoolTypeOK
  BY DEF PoolInv
<1> QED  BY PoolInitially, <1>1, <1>2, PTL DEF PoolSpec

\* With every VM down nobody has anything to clean up, so the pool is not raised.
THEOREM PoolAlwaysDrained == PoolSpec => []PoolDrained
<1>1. PoolInv /\ [PoolNext]_hpVars => PoolInv'
  BY PoolStep
<1>2. PoolInv => PoolDrained
  BY DEF PoolInv, PoolTypeOK, HeldInv, DrainInv, PoolDrained
<1> QED  BY PoolInitially, <1>1, <1>2, PTL DEF PoolSpec

=============================================================================

----------------------------- MODULE HugepagePool -----------------------------
(***************************************************************************)
(* The hugepage pool of one NUMA node and the hugetlbfs mount, as several  *)
(* VMs of one daemon share them (core/src/hugepages.rs): provisioning at   *)
(* PrepareHugepages, the launch of QEMU some steps later, its preallocation *)
(* (core/src/qemu.rs, -mem-prealloc -mem-path /dev/hugepages), and the     *)
(* cleanup of each VM, which resets the whole pool.  The daemon may crash   *)
(* and be started again: it knows no VM then, but their QEMUs live on.     *)
(*                                                                         *)
(* The pool is the kernel's counters, in pages; what the kernel and QEMU   *)
(* do with it is external.  The lifecycle between these points is reduced  *)
(* to its phases; VmLifecycle has it in full for one VM.                   *)
(***************************************************************************)
EXTENDS Naturals, FiniteSets

CONSTANTS
    Vm,
    Need,  \* the pages of each VM's memory
    Mem,   \* the pages the node can give at most
    MarkerRemovable, \* whether removing the marker file always succeeds
    MaxCrashes       \* bound: crashes of the daemon

ASSUME VmAssumption == IsFiniteSet(Vm)
ASSUME NeedAssumption == Need \in [Vm -> Nat \ {0}]
ASSUME MemAssumption == Mem \in Nat
ASSUME MarkerAssumption == MarkerRemovable \in BOOLEAN
ASSUME CrashAssumption == MaxCrashes \in Nat

VARIABLES
    phase,   \* each VM: "down", "reserved" (provisioned), "booting" (spawned),
             \* "running" (memory allocated), "closing" (cleanup is due)
    active,  \* VmRuntime.hugepages_active
    held,    \* pages each VM's QEMU has allocated
    stray,   \* VMs with a QEMU of a crashed daemon that has no memory yet
    lost,    \* pages that such a QEMU of each VM has allocated
    unclean, \* no cleanup has found such QEMUs gone since the last crash
    crashes,
    total,   \* the node's nr_hugepages
    free,    \* the node's free_hugepages
    surplus, \* pages in use that a smaller pool no longer counts as its own
    mounted, \* what is mounted on /dev/hugepages: "none", "ours" or "foreign"
    marker   \* the file /run/chalybs/.hugepages exists

poolVars == <<total, free, surplus>>
mountVars == <<mounted, marker>>
crashVars == <<stray, lost, unclean, crashes>>
hpVars == <<phase, active, held, crashVars, poolVars, mountVars>>

PoolTypeOK ==
    /\ phase \in [Vm -> {"down", "reserved", "booting", "running", "closing"}]
    /\ active \in [Vm -> BOOLEAN]
    /\ held \in [Vm -> Nat] /\ lost \in [Vm -> Nat]
    /\ stray \subseteq Vm /\ unclean \in BOOLEAN /\ crashes \in 0..MaxCrashes
    /\ total \in Nat /\ free \in 0..total /\ surplus \in 0..total
    /\ mounted \in {"none", "ours", "foreign"}
    /\ marker \in BOOLEAN

PoolInit ==
    /\ phase = [v \in Vm |-> "down"]
    /\ active = [v \in Vm |-> FALSE]
    /\ held = [v \in Vm |-> 0] /\ lost = [v \in Vm |-> 0]
    /\ stray = {} /\ unclean = FALSE /\ crashes = 0
    /\ total = 0 /\ free = 0 /\ surplus = 0
    /\ mounted \in {"none", "foreign"} /\ marker = FALSE

Goes(v, p) == phase' = [phase EXCEPT ![v] = p]

-----------------------------------------------------------------------------
(* The kernel.                                                             *)

InUse == total - free

Least(a, b) == IF a <= b THEN a ELSE b
Most(a, b) == IF a >= b THEN a ELSE b

\* A write of n to nr_hugepages: the pool grows as far as there is memory, or
\* gives up its free pages, those in use becoming surplus.
WriteNr(n) ==
    LET size == IF n > total THEN Most(total, Least(n, Mem)) ELSE Most(n, InUse) IN
    /\ total' = size
    /\ free' = size - InUse
    /\ surplus' = IF n < size THEN size - n ELSE 0

\* QEMU's pages come back: the surplus ones to the system, the others to the pool.
Release(n) ==
    LET gone == Least(n, surplus) IN
    /\ total' = total - gone
    /\ surplus' = surplus - gone
    /\ free' = free + n - gone

-----------------------------------------------------------------------------
(* provision_for_vm                                                        *)

\* Mutant: the marker is written for every mount that is there.
EnsureMountMarked == mounted' = (IF mounted = "none" THEN "ours" ELSE mounted) /\ marker' = TRUE

\* ensure_hugetlbfs_mount: only a mount of its own is marked, if the marker can
\* be written.
EnsureMount ==
    IF mounted = "none"
      THEN mounted' = "ours" /\ marker' \in BOOLEAN
      ELSE UNCHANGED mountVars

\* The pool is raised to this VM's pages, whatever the others need of it, and
\* only if the counter of all pages, used or not, is below that.
RaisePool(v) ==
    IF free < Need[v] /\ total < Need[v] THEN WriteNr(Need[v]) ELSE UNCHANGED poolVars

\* The free pages, read back, suffice or they do not.  They are not reserved.
Provision(v) ==
    /\ phase[v] = "down"
    /\ EnsureMount
    /\ RaisePool(v)
    /\ IF free' >= Need[v]
         THEN Goes(v, "reserved") /\ active' = [active EXCEPT ![v] = TRUE]
         ELSE UNCHANGED <<phase, active>>
    /\ UNCHANGED <<held, crashVars>>

\* A later step of the bring-up fails, or the VM is stopped.
GiveUp(v) ==
    /\ phase[v] = "reserved"
    /\ Goes(v, "closing")
    /\ UNCHANGED <<active, held, crashVars, poolVars, mountVars>>

\* qemu::launch
Launch(v) ==
    /\ phase[v] = "reserved"
    /\ Goes(v, "booting")
    /\ UNCHANGED <<active, held, crashVars, poolVars, mountVars>>

\* QEMU allocates its memory: from the pool, or, without the mount, from
\* ordinary pages; with too few in the pool it exits.
QemuAllocates(v) ==
    /\ phase[v] = "booting"
    /\ \/ /\ mounted = "none"
          /\ Goes(v, "running")
          /\ UNCHANGED <<held, poolVars>>
       \/ /\ mounted # "none" /\ free >= Need[v]
          /\ Goes(v, "running")
          /\ held' = [held EXCEPT ![v] = Need[v]]
          /\ free' = free - Need[v]
          /\ UNCHANGED <<total, surplus>>
       \/ /\ mounted # "none" /\ free < Need[v]
          /\ Goes(v, "closing")
          /\ UNCHANGED <<held, poolVars>>
    /\ UNCHANGED <<active, crashVars, mountVars>>

\* QEMU exits, by itself or terminated.
QemuEnds(v) ==
    /\ phase[v] \in {"booting", "running"}
    /\ Goes(v, "closing")
    /\ held' = [held EXCEPT ![v] = 0]
    /\ Release(held[v])
    /\ UNCHANGED <<active, crashVars, mountVars>>

-----------------------------------------------------------------------------
(* cleanup_for_vm                                                          *)

\* Mutant: only the pages of the VM are given back.
ResetTargetOwn(v) == total - Need[v]

\* Both writes, node-local and global, are of zero.
ResetTarget(v) == 0

\* A mount with files open on it is busy.
Busy == \E v \in Vm : held[v] > 0 \/ lost[v] > 0

\* cleanup_hugetlbfs_mount: the marker is removed whether umount succeeds or not.
CleanupMount ==
    IF marker
      THEN /\ mounted' = IF Busy THEN mounted ELSE "none"
           /\ marker' \in IF MarkerRemovable THEN {FALSE} ELSE BOOLEAN
      ELSE UNCHANGED mountVars

\* Only a VM whose provisioning succeeded has anything to clean up.
Cleanup(v) ==
    /\ phase[v] = "closing"
    /\ Goes(v, "down")
    /\ IF active[v] THEN WriteNr(ResetTarget(v)) /\ CleanupMount
                    ELSE UNCHANGED <<poolVars, mountVars>>
    /\ active' = [active EXCEPT ![v] = FALSE]
    /\ unclean' = (unclean /\ (active[v] => stray # {} \/ \E w \in Vm : lost[w] > 0))
    /\ UNCHANGED <<held, stray, lost, crashes>>

\* Somebody else mounts hugetlbfs there.
ForeignMount ==
    /\ mounted = "none"
    /\ mounted' = "foreign"
    /\ UNCHANGED <<phase, active, held, crashVars, poolVars, marker>>

-----------------------------------------------------------------------------
(* A crash of the daemon.                                                  *)

\* DaemonState::new: every VM is down and has nothing to clean up.  The QEMUs, the
\* pool, the mount and its marker are as they were.
Crash ==
    /\ crashes < MaxCrashes /\ crashes' = crashes + 1
    /\ phase' = [v \in Vm |-> "down"] /\ active' = [v \in Vm |-> FALSE]
    /\ stray' = stray \union {v \in Vm : phase[v] = "booting"}
    /\ lost' = [v \in Vm |-> lost[v] + held[v]] /\ held' = [v \in Vm |-> 0]
    /\ unclean' = TRUE
    /\ UNCHANGED <<poolVars, mountVars>>

\* A QEMU that nobody knows allocates its memory as any other.
StrayAllocates(v) ==
    /\ v \in stray /\ stray' = stray \ {v}
    /\ IF mounted # "none" /\ free >= Need[v]
         THEN /\ lost' = [lost EXCEPT ![v] = @ + Need[v]]
              /\ free' = free - Need[v] /\ UNCHANGED <<total, surplus>>
         ELSE UNCHANGED <<lost, poolVars>>
    /\ UNCHANGED <<phase, active, held, unclean, crashes, mountVars>>

\* The guest shuts itself down, or somebody kills it.
StrayEnds(v) ==
    /\ lost[v] > 0 /\ lost' = [lost EXCEPT ![v] = 0]
    /\ Release(lost[v])
    /\ UNCHANGED <<phase, active, held, stray, unclean, crashes, mountVars>>

PoolNext ==
    \/ \E v \in Vm : Provision(v) \/ GiveUp(v) \/ Launch(v) \/ QemuAllocates(v)
                     \/ QemuEnds(v) \/ Cleanup(v) \/ StrayAllocates(v) \/ StrayEnds(v)
    \/ ForeignMount \/ Crash

PoolSpec == PoolInit /\ [][PoolNext]_hpVars

-----------------------------------------------------------------------------
(* Properties.                                                             *)

\* When every VM is down the pool is empty again, whatever was raised for VMs whose
\* provisioning failed, however the cleanups met the pages of others, and after a
\* crash too, once the QEMUs of the old daemon are gone and any VM has been cleaned
\* up.  This is so if every VM fits on the node: a raise that is too small even on an
\* idle node has no cleanup (provision_for_vm fails before hugepages_active).
PoolDrained ==
    ~ unclean /\ (\A v \in Vm : Need[v] <= Mem /\ phase[v] = "down") => total = 0

\* hugepages.rs:118: a hugetlbfs that somebody else mounted is never unmounted.
ForeignMountKept == [][mounted = "foreign" => mounted' = "foreign"]_hpVars

\* hugepages.rs:335: "Any shortfall after attempts is treated as a deterministic,
\* blocking error before VFIO / cpuset staging": a QEMU that was launched finds the
\* pages that were counted for it, and the mount.
PagesThereAtLaunch ==
    \A v \in Vm : phase[v] = "booting" => mounted # "none" /\ free >= Need[v]

=============================================================================

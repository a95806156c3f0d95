# A TLA+ model of Chalybs

Chalybs starts, watches and tears down VFIO-passthrough virtual machines: it moves
PCI devices from their host drivers to vfio-pci, provisions hugepages, confines CPUs,
launches QEMU, pins its vCPU threads and its devices' interrupts, and drives a few
peripherals (a Tasmota power relay, a monitor's input over DDC/CI, the Looking Glass
shared memory file). This directory models that behaviour in TLA+, checks it with TLC
and proves what matters most with TLAPS. Paths below are relative to the repository.

## The system

| Component | State it keeps | Operations | Hard behaviours | What makes it correct |
|---|---|---|---|---|
| Lifecycle state machine (`core/src/state.rs`, `model.rs`) | `VmState`, `VmRuntime` | `step`, `step_shutdown` | a step that fails half way, a step that is retried | every failure leads down, and down is clean |
| VFIO staging and restore (`core/src/vfio/`, `pci.rs`) | driver bindings in sysfs, `vfio_transitions` | plan, execute, verify, restore | partial plans, writes without effect, records from a stale inventory | a guest never runs on a device that is not on vfio-pci; records are true |
| Hugepages (`hugepages.rs`) | the node's pool, `hugepages_*` | `provision_for_vm`, `cleanup_for_vm` | several users of one pool, partial raises | a QEMU has its pages; they are given back |
| QEMU process (`qemu.rs`) | `rt.qemu`, the process, the shm file | `launch`, `shutdown` | failure after the spawn, blocking wait, exits of the guest | one tracked QEMU per VM, none left behind |
| vCPU affinity, cpusets (`affinity.rs`, `cpuset/`) | cgroups, thread masks | wait, pin, create | slow or dead QEMU, cgroups shared by all VMs | pinning only of live threads |
| IRQ worker (`irq/pin.rs`) | one thread per launch | poll, pin, switch the monitor | runs beside the daemon, outlives its QEMU, reused pids | the monitor is switched only after the pinning; no thread outlives a VM |
| Peripherals (`peripherals/`) | relay, monitor input, `tasmota_powered` | `apply_vm_up`, `apply_vm_down` | publishes and writes that fail after taking effect | what is shown is true |
| Daemon (`daemon/src/`) | `DaemonVm.desired`, the VM map, clients | commands, `build_snapshot`, the drive loop | commands between any two steps, client I/O, restart | desired states are reached; the projection tells the truth |
| Isolation policy, PCI inventory (`vfio/isolation.rs`, `pci.rs`) | a scan of the host | `evaluate_isolation_for_vm`, plan, verification | the host changes between the scan, the writes and the second scan | what was judged is what the guest gets |
| CPU planning (`cpu/detect/`, `cpuplan/`) | `cpu_plan` | topology, plan, validation | CPUs go offline between Validate and their use | the plan agrees with what the later steps do |
| Root ports (`qemu.rs`) | none | `build_pci_rootport_map` | a device listed twice, clashes, exhaustion | a slot of its own for every device |
| Configuration (`config.rs`, `util.rs`) | `VmConfig` | parsing, defaults, GPU preflight | | |
| CLI, TUI, snapshot helpers, logging | local | | | |

The daemon is a single thread that loops every 250 ms: it reads the clients' commands,
handles them (`handle_vm_command`), builds the snapshot, and while doing so polls each
VM's QEMU and calls `drive_vm_towards_desired` once per VM. That function calls
`VmStateMachine::step` for a VM desired up and `step_shutdown` for one desired down. The
steps call into VFIO, hugepages, QEMU, affinity, IRQ and peripherals, which read and
write the host. The IRQ worker is a thread the `DetectMsi` step spawns and nobody joins.
Nothing is persisted.

`PROJECT.json` lists every component with its status and every hazard with the properties
that address it.

## The modules

| Module | Models |
|---|---|
| `VfioBinding.tla` | the driver bindings of one VM's devices: the plan, its partial failures, the verification, the records, the restore |
| `VmLifecycle.tla` | one VM under the daemon: commands, every step of bring-up and shutdown, QEMU processes, IRQ workers, hugepages, shm file, relay, monitor; extends `VfioBinding` |
| `AbstractVm.tla` | what a watcher of one VM is promised: projected state and guest |
| `MCVmLifecycle.tla` | the fault sets the runs choose from |
| `HugepagePool.tla` | the pool of a node and the hugetlbfs mount under several VMs: counters, mount, marker, and the allocation by QEMU |
| `MCHugepagePool.tla` | the needs of three VMs |
| `DaemonServer.tla` | the server loop, its sockets and its TUI clients: accepting, draining, handling, the snapshot with its event cursor, the broadcast; the TUI's side of the connection |
| `MCDaemonServer.tla` | which user types, and the end of a run at its bound |
| `Passthrough.tla` | one VM's devices on a host with IOMMU groups, slots, NUMA nodes and drivers: the GPU preflight, the scan, the isolation policy, the plan and its execution, the verification, the root ports, and the host meanwhile |
| `MCPassthrough.tla` | a host of four functions, and the lists, policies, overrides, groupings and drivers to try |
| `CpuPlacement.tla` | several VMs' CPUs: the CPU plan, the shared cgroups, vCPU pinning, the IRQ worker device by device, CPU hotplug |
| `MCCpuPlacement.tla` | two VMs on four CPUs, and their layouts |
| `VmLifecycle_proofs.tla`, `HugepagePool_proofs.tla`, `Passthrough_proofs.tla`, `CpuPlacement_proofs.tla`, `DaemonServer_proofs.tla` | theorems about the module of that name, and their proofs |
| `Recursion.tla` | lemmas on recursive functions and `FlattenSeq`, for `DaemonServer_proofs` |

### State

| Variable | In the code |
|---|---|
| `state`, `desired` | `VmStateMachine.state`, `DaemonVm.desired` |
| `driver` | the driver link of each device in sysfs: `vfio`, `host` (any other), `none` |
| `transitions` | `VmRuntime.vfio_transitions` |
| `boot` | history variable: the bindings at the daemon's start |
| `qemu`, `proc` | `VmRuntime.qemu`; the kernel's view of each pid (`free`, `alive`, `zombie`) |
| `waiting` | the process `qemu::shutdown` is blocked on in `child.wait()` |
| `workers` | IRQ worker threads: the pid watched, and whether all devices are pinned |
| `irqPinned`, `irqComplete` | `pinned_irqs`, `irq_pinning_complete` |
| `hpActive`, `pool` | `hugepages_active`; the node's pool as `zero`, `partial` (too little) or `full` |
| `shm` | the Looking Glass file exists |
| `relay`, `relayOn`, `monitor` | the relay, `tasmota_powered`, the monitor's input |

`HugepagePool` keeps, for each VM, a `phase` (the lifecycle reduced to what matters here:
down, provisioned, spawned, memory allocated, cleanup due), `active` (`hugepages_active`)
and `held` (its QEMU's pages); for the node `total`, `free` (`nr_hugepages`,
`free_hugepages`) and `surplus` (the kernel's account of pages in use beyond `nr`); and
`mounted` and `marker` for `/dev/hugepages` and `/run/chalybs/.hugepages`. The kernel's
answer to a write of `nr_hugepages` (`WriteNr`), the pages QEMU takes and frees, a umount
that is busy and a mount by somebody else are external. `cleanup_for_vm` writes zero to
the node's and to the global counter: on one node that is one write.

After a `Crash` the daemon knows no VM: `stray` are the QEMUs it had spawned that have no
memory yet, `lost` the pages of those that do, and `unclean` remembers that no cleanup has
yet found them gone.

`Passthrough` chooses a configuration (`cfg`: the lists, folded into GPUs and others;
optional devices, levels, policy, VM node, overrides, SPICE) and a host (`host`: IOMMU
groups, nodes, first drivers) once. `driver` is each function's driver now (`absent`,
`none`, `vfio`, `gpu` for a host graphics driver, `other`), `snap` what the scan of
`stage_pci_devices_for_vm` found, `todo` the rest of the plan, `ports` the slots on QEMU's
command line. Every decision is an operator on the result of a scan, so the same one is
evaluated for the gate, the plan and the verification's own scan. Each write to sysfs is
one action; between any two steps a function may be removed, appear, or be probed, by its
own driver or by vfio-pci: `bind_to_vfio_pci` presumes that vfio-pci is set to match the
ids of some devices (`core/src/pci.rs:292`), so any function may be one of them. `Late`
are the optional devices that the scan did not find. The
two display functions differ only in `Display`; class codes and addresses are no more
than membership and order. What the kernel and QEMU do with the result (`Viable`,
`Realizable`, `Launch`) is external.

In `CpuPlacement`, `layout` is the CPU section of each VM (`vm_cpus` in order, `host_cpus`,
`num_vcpus`), `online` the host's CPUs, `plan` is `VmRuntime.cpu_plan`, `group` the four
files of `vfio_vm` and `vfio_host`, `pins` the pinned vCPUs, and `worker`, `work`, `done`,
`switched` the IRQ worker: its targets for each device it looks after, those it has done,
the switch of the monitor. `vectors` are the interrupts the guest has enabled. The bring-up
is reduced to its CPU steps, which the daemon takes one VM at a time in any order; failures
of other steps and several workers of one VM are in `VmLifecycle`. The order of a
directory listing decides the dominant node of a tie, so the plan has the set of nodes it
may be.

`DaemonServer` follows `run_server`: `pc`, `at` and `part` say where the loop is (`at` is
`i` of the drain loop and `j` of the broadcast), `clients` is its Vec, `rx_buf`, `pending`
and `commands` are the receive buffers and the two pending vectors. `up` and `down` are the
sockets' contents in pieces, `read_buffer`, `seen` and `torn` a TUI's view, `typed`, `half`
and `sent` its commands. `pushed` and `snaps` are histories: the events of each runtime,
and what each snapshot carried. Draining a socket until it would block is one action on
either side (what arrives later is there for the next drain); the broadcast is one action
for each piece, as clients read while it goes on. Handling the commands and building the
snapshot touch nothing a client sees, and are one action. Left out: a snapshot that cannot
be serialised (none of its types can fail to), and the events of tick 1.

A VM without a `DaemonVm` is the same as one in `Idle`: both are projected as Stopped and
a start builds a fresh runtime for either. A stop of a VM the daemon does not hold is
ignored in the code and a harmless desire here.

### Actions

One action is one handler, run to its end: a command, one step of the machine with
everything it calls, the exit poll together with the shutdown step of the same tick. The
one step that is two actions is `qemu::shutdown` (`BeginTerminate`, `FinishTerminate`):
it blocks between SIGTERM and the exit of the process, and QEMU and the workers go on
meanwhile while no other action of the daemon is enabled. `QemuExit` and the `Worker*`
actions are the other threads and processes. A pid is free again as soon as its process
is reaped, so pids are reused.

A failure on the host is a disjunct of the step that meets it, allowed by its kind in
`Faults`:

| Fault | What it makes possible |
|---|---|
| `validate`, `cpuset`, `threads`, `pin` | the step of that name returns Err without an effect |
| `policy`, `scan` | the isolation gate refuses; an inventory scan fails (at staging, verification or restore) |
| `unbind`, `bind`, `noop` | a sysfs write fails in the middle of the plan; a bind write is accepted and takes no device |
| `hugepages`, `hpwrite` | too few pages, or too few after a raise; the reset of the pool fails |
| `spawn`, `cgroup`, `sigterm` | QEMU cannot be spawned; it can, and its move into the cpuset fails; `kill` fails |
| `restore` | a bind write of the restore fails |
| `mqtt`, `i2c` | a publish or a DDC write fails, having taken effect or not |

Actions and operators that are not in the code are marked external in the map: what the
kernel does with a bind write, hugepages and cpusets, what QEMU and the guest do, and what
else happens on the host.

Every property and every action says in its comment what in the code it is about; "map" in
`PROJECT.json` gives the lines.

## The runs

The runs of the lifecycle use module `MCVmLifecycle`: two pids (a second process is what a lost handle needs),
one display controller and one or two other devices, and two devices whose IRQs are
pinned. Every initial driver binding is tried. Two devices besides the display are
needed: with one, a plan cannot fail with a device unbound whose bind never came.
`CHECK_DEADLOCK` stays on: an operator's command is always possible or the daemon is
waiting for a process that can exit. No variable counts, so nothing is capped: the runs
are exhaustive for their constants.

| Run | Constants | Shows |
|---|---|---|
| `lifecycle_faults` (1.0 M states) | 3 devices, every feature and every fault | `TypeOK`, `QemuOnVfio`, `RecordsTruthful`, `HugepagesHeld`, `TasmotaTruthful`, `SwitchAfterIrqs` hold through every failure, orphaned QEMUs included |
| `lifecycle_tracked` (174 k) | the same without `cgroup` and `sigterm` | `SingleTrackedQemu`, `HandleMatchesPhase`, `TeardownComplete`, and `VmLifecycle` implements `AbstractVm` |
| `lifecycle_progress` (57 k) | faults that write nothing wrong (`StepFaults`), no fatal DDC, `FairSpec` | `HostBaseline` and the liveness properties `DownLeadsToIdle`, `BringUpSettles`, `ExitIsNoticed`, `WorkersEndWithVm` |
| `hugepage_pool` (25 k) | 3 VMs of 1, 2 and 4 pages on a node of 4, on a host that starts without pages or marker; one crash of the daemon | `PoolDrained` and `ForeignMountKept` hold however provisionings, launches and cleanups of the VMs interleave, and after a crash |
| `passthrough` (2.1 M) | 4 functions (a GPU with its audio function, a second GPU, an NVMe drive), 3 root ports, every policy of `MCPassthrough`, one event of the host | `Isolated`, `PolicyKept` and `HostGpuKept` hold although the host changes under the plan, the first two for all devices that are not late (below); `AuditNeverBlocks` and `SlotsDistinct` over all configurations |
| `cpu_placement` (220 k) | 2 VMs, 4 CPUs on 2 nodes, 3 devices, one interrupt each, one CPU that goes offline | `PlanAgrees`, `PinnedOneToOne`, `PinsLostToOthersOnly`, `IrqsLocal`, `SwitchAfterAll`, and the liveness properties `IrqsEventuallyPinned` and `WorkerEnds` |
| `daemon_server` (720 k) | 2 TUIs, one of which types 2 commands; 3 ticks; snapshots of 2 pieces and sockets that hold 3 | `EventsOnce`, `ViewGapless`, `CommandsInOrder` and `SentAccounted` hold although clients connect, close, fall behind, lose reads and fill sockets at any point |

In `passthrough` a GPU and its audio function share a slot, and a group with each other,
with the drive, or with the second GPU; one function may have no group. With that every
check of the policy finds something in one host and nothing in another, a plan has up to
six writes, and one event is enough to make any one of them stale, or for a late device
to come on vfio-pci and pass the verification. Three root ports are
one fewer than the devices that can be listed. The run may stop (QEMU runs, or the start
was refused), so deadlock is not checked.

In `cpu_placement` the layouts have a VM on one node and one on both, lists that are
disjoint and that overlap, one that is shorter than `num_vcpus` and one that is empty.
One CPU that goes offline is enough to be missing at each of the three readings. Deadlock
is checked: a VM can always be shut down or started.

In `daemon_server` a client one snapshot behind gets half of the next one before it is
dropped, three ticks are what it takes to miss the middle one of three, and two commands
are enough for two runtimes, for a command cut by a full socket that spoils the next, and
for a command whose newline arrives a tick later. TLC reaches each of these. The run ends
at `MaxTick` in a stutter, so deadlock is checked before it.

In `hugepage_pool` two VMs fit together and the third only alone, so every sufficiency
test has both outcomes, and a cleanup meets pages that are free, held and surplus.
`PoolDrained` asks that each VM fits on an idle node: a VM larger than the node raises the
pool as far as it goes and fails before `hugepages_active` is set, and no cleanup gives
those pages back. `MarkerRemovable` says that deleting the marker never fails; where it
does, TLC finds a foreign mount unmounted, so the run and the theorem assume it.

The two faults `cgroup` and `sigterm` are left out of `lifecycle_tracked` because each
loses the handle of a running QEMU: `launch_orphan` below shows the first, and
`lifecycle_faults` what is still guaranteed with both.

Each property of these runs is violated by at least one mutant of the code, listed in
`PROJECT.json` (a guard dropped, a flag set too early, a record lost...); the mutated
definition stands beside the original and is used by nothing else.

### Fairness

`FairSpec` assumes that the daemon's loop goes on (weak fairness of its steps, of the exit
poll and of the return from `wait`), that a QEMU that was sent SIGTERM exits, and that
worker threads are scheduled; in `CpuPlacement` only the last is assumed (`WorkerFairness`): the worker is
a thread of its own, its loop has no other condition, and neither shutdowns nor interrupts
are promised to happen. `FairSpec` does not assume that commands arrive or stop arriving,
that a guest exits, or that a guest ever enables its interrupts. The exit on SIGTERM is an
assumption about QEMU: the code has no timeout there. Two cases are left out because
nothing makes them end: with `fatal_on_error` a dead I2C bus fails the Shutdown step on
every tick, and a failing `kill`.

### What does not hold

Five runs check a statement the repository makes about itself and find it violated:

| Run | Statement | What happens |
|---|---|---|
| `start_during_shutdown` | `daemon/src/state.rs:411`: nothing to do "until the state machine returns to Idle" | a start in `Shutdown` or `Cleanup` stops the machine there for good |
| `launch_orphan` | `core/src/state.rs:377`: "state=Idle (VM shutdown sequence completed)" | `launch` records the handle last; a failed cgroup write leaves QEMU running past Idle |
| `bindings_not_restored` | `vfio/mod.rs:7`: "finally restoring original driver bindings during shutdown" | the restore writes to the driver's `bind` without unbinding vfio-pci, so the write fails and the device stays |
| `hugepages_shared` | `core/src/hugepages.rs:335`: a shortfall is an error "before VFIO / cpuset staging" | one VM's cleanup empties the pool and unmounts while another, provisioned, has not allocated yet; that one is launched and its QEMU fails |
| `optional_device` | `core/src/pci.rs:542`: an optional device that is missing is "silently skipped" | the command line takes the configured lists as they are, and QEMU cannot realize the device that is not there |

Other statements the models contradict, without a run of their own:

- `vfio/execute.rs:11`, transitions to be restored "are recorded": all unbinds run before
  the first bind, and only a bind records, so after a failed bind the later devices have
  neither driver nor record (`StageBindFails` in `VfioBinding`).
- `README.md:42`, "crash-safe cleanup" of the shm file: a guest that powers off skips
  `qemu::shutdown`, which removes it (`DetectGuestExit`).
- `README.md:116`, IRQ discovery is "confirmed, not assumed": `PinIrqs` sets `pinned_irqs`
  while the worker still polls (`StepPinIrqs`).
- `core/src/config.rs:276`, a forbidden device "must not be passed through; any attempt to do
  so is a policy violation", and `:258`, Enforce treats any violation "as a hard error": an
  optional device that the scan of `stage_pci_devices_for_vm` does not find is judged by
  nobody (but for the veto of `stage_device_list`, which looks at explicit levels). If it
  appears before the verification, and vfio-pci takes it by its ids, `verify_with_inventory`
  accepts it without asking the policy again, and QEMU has its `-device` argument anyway: a
  device that is forbidden by `default_level`, or on the wrong node, is the guest's, and one
  whose group or slot the host uses passes as staged. The model does this by `Appear`
  between `Stage` and `Verify`: without `\ Late`, TLC finds `PolicyKept` and `Isolated`
  violated so. With it they say that no other passed-through device gets past the gate. What
  the host plugs in beside one after the scan is not looked at either, and `Isolated`
  speaks of the functions of the scan and of the configuration only.
- `README.md:30`, invalid CPU layouts fail in Validate: empty lists are found by
  `create_cpuset`, a `vm_cpus` shorter than `num_vcpus` by `pin_vcpus`, after QEMU was
  launched; without CPUID or NUMA nodes nothing is validated at all. `PlanAgrees` says
  exactly what is left to fail late.
- `README.md:36`, a dedicated `vfio_vm` cgroup per VM, host processes confined, applied
  atomically: the two cgroups are shared by all VMs, nothing is moved into `vfio_host`, and
  the four files are written one by one. `PinsLostToOthersOnly` names what that costs.
- `IsolationLevel` forbidden is documented as a finding of the policy: an explicit one on a
  device other than a GPU refuses the plan in every mode (`Vetoed`), while on a GPU, or by
  `default_level`, it does so under Enforce only (`Forbidden`).
- A GPU listed under `nvme`, `nic` or `usb` passes neither the GPU preflight nor the unbind
  safety: `HostGpuKept` holds except for it.
- A device without an IOMMU group passes the exclusivity checks, and fails in QEMU.

The related `irq_pinning_complete` latch (`core/src/model.rs`, "set to true exactly once by
the IRQ worker") is never set, so the up hook of `peripherals/mod.rs` never switches the
monitor; the worker does. `SwitchAfterIrqs` states what both were meant to keep.

## The proofs

Every invariant and every action property of the passing runs, and the refinement, are
also proved with TLAPS, for every value of the constants that satisfies the `ASSUME`s of
the module. The two longest inductive invariants, `OrderInv` and `ViewInv`, were also
checked by TLC with the constants of `daemon_server`.

### VmLifecycle

For every set of devices, pids, features and faults:

| Theorem | Property | Inductive invariant, and why it is needed |
|---|---|---|
| `TypeCorrect` | `TypeOK` | itself |
| `QemuAlwaysOnVfio` | `QemuOnVfio` | `VfioInv`: from `ReserveCpus` on, too, all devices are on vfio-pci. The restore cannot take one away, as it never unbinds; the staging of a retry skips devices on vfio-pci |
| `RecordsAlwaysTruthful` | `RecordsTruthful` | `RecordInv`: adds that a device now on a host driver was found on one |
| `HugepagesAlwaysHeld` | `HugepagesHeld` | `HugepagesInv` with `HandleInv`: the pool is full from `PreparePci` on, and a held process exists only in those states |
| `TasmotaAlwaysTruthful` | `TasmotaTruthful` | `RelayInv`: adds that the flag is down in `Cleanup` and `Idle`, and without a Tasmota configuration: a fresh runtime forgets no powered relay |
| `SwitchOnlyAfterIrqs` | `SwitchAfterIrqs` | `LatchInv`: the latch is never set |
| `QemuAlwaysTracked`, `HandleAlwaysMatches` | `SingleTrackedQemu`, `HandleMatchesPhase` | `TrackInv`: their conjunction; neither is inductive alone |
| `TeardownAlwaysComplete` | `TeardownComplete` | `TrackInv`, `ReleasedInv`, `RelayInv` |
| `LifecycleImplementsAbstractVm` | `ImplementsAbstractVm` | `TrackInv`; every step is mapped to a step of `AbstractVm` or a stutter (`AbstractStep`) |
| `HostAlwaysClean` | `HostBaseline` | `FlagInv` (pool and relay follow their flags) and `UnboundInv` (a device without the host driver it had is recorded, and the machine is not down), with `RecordInv`, `RelayInv` and `ReleasedInv` |

The theorems from `QemuAlwaysTracked` on assume `NoOrphans` (`cgroup` and `sigterm` do not
happen), and `HostAlwaysClean` also `CleanHost` (no refused write), just as the runs do.

### HugepagePool

For every finite set of VMs, their needs, the node's memory and number of crashes:

| Theorem | Property | Inductive invariant, and why it is needed |
|---|---|---|
| `ForeignMountAlwaysKept` | `ForeignMountKept` | `MarkerInv`: the marker stands for a mount of the daemon's own. Assumes `MarkerRemovable` |
| `PoolTypeCorrect` | `PoolTypeOK` | `PoolInv`: with `Conserved`, the pages in use are those the QEMUs of all VMs and the lost ones hold. Without it a QEMU's exit could free more pages than there are, and surplus could not be known to be repaid |
| `PoolAlwaysDrained` | `PoolDrained` | `PoolInv`: with `HeldInv`, only a running QEMU has pages, and `DrainInv`, a raised pool has a VM that is still to clean up. The last cleanup writes zero when nothing is held, so nothing stays as surplus |

The sum of the pages of all VMs is the cardinality of the set of pairs of a VM and a page
number below what it holds (`Pages`): what one VM takes or gives back is a set added or
removed (`SumAdds`, `SumSplits`), and the library's facts on cardinalities do the rest.
`PoolDrained` itself says that each VM fits on the node; see the run.

### Passthrough

For every set of functions, display functions, configurations, hosts, number of root
ports and number of events of the host:

| Theorem | Property | Inductive invariant, and why it is needed |
|---|---|---|
| `PassthroughTypeCorrect` | `PassthroughTypeOK` | `TypeInv`: with `PortsKept`, the ports are the map that was accepted |
| `SlotsAlwaysDistinct` | `SlotsDistinct` | none: `PortMapDistinct`, from `AutoSlots`: automatic ports are the free ones in order, counted by `Cardinality` |
| `AuditBlocksNothing` | `AuditNeverBlocks` | none: it is about every scan |
| `GuestAlwaysIsolated` | `Isolated` | `StageInv`: while the plan is executed, its rest is of the plan made from the scan, and the scan passed the gates. The verification sees only drivers, so what it lets through must be related to what was judged: that is in the scan, unless it is optional and was missing (`VerifiedFacts`). Nothing is assumed of the drivers that appear meanwhile |
| `PolicyAlwaysKept` | `PolicyKept` | `StageInv`, as above |
| `HostGpuAlwaysKept` | `HostGpuKept` | `StageInv`: an unbind is of the plan of a scan in which the GPU was safe, and it fails if the driver is no longer the one of the scan |

### CpuPlacement

For every set of CPUs, nodes, VMs, devices and layouts:

| Theorem | Property | Inductive invariant, and why it is needed |
|---|---|---|
| `PlacementTypeCorrect` | `PlacementTypeOK` | `TypeInv`: adds that the configuration stays the one chosen |
| `IrqsAlwaysLocal` | `IrqsLocal` | `IrqWorkInv`: the targets a worker holds are local already, whatever CPUs go offline between their choice and their use |
| `SwitchAlwaysAfterAll` | `SwitchAfterAll` | `IrqWorkInv`: a worker that has not ended belongs to the guest that runs, so what it has pinned has interrupts. It needs that `DeviceAssumption` gives each device to one VM |
| `AlwaysPinnedOneToOne` | `PinnedOneToOne` | `PinsInv`: after `pin_vcpus` the pinned vCPUs are exactly those of the configuration, and none is beyond `vm_cpus` |
| `PinsAlwaysLostToOthersOnly` | `PinsLostToOthersOnly` | `PinsInv` |
| `PlanAlwaysAgrees` | `PlanAgrees` | `PlanInv`: while the CPUs are those of the plan, its nodes are those of the list. `NodesAgree` says that `create_cpuset`, which looks nodes up by CPU, and `build_cpu_plan`, which looks CPUs up by node, find the same |

### DaemonServer

For every set of clients, socket size, number of pieces of a snapshot, commands and ticks:

| Theorem | Property | Inductive invariant, and why it is needed |
|---|---|---|
| `ServerTypeCorrect` | `ServerTypeOK` | `TypesInv` and `SeatsInv`: no client is listed twice, none waits in the backlog that is listed, and the loop's index is within the list after each removal. Without the first, the removal of one client could leave it in the list |
| `EventsAlwaysOnce` | `EventsOnce` | `TypesInv`, with `RuntimeInv`: the cursor is the number of events of the last runtime, which exists unless the machine is idle. A tick then adds to the snapshots what it adds to the runtimes (`Carries`, `EventsTick`) |
| `SentAlwaysAccounted` | `SentAccounted` | `AccountInv`: every command of a client that is served is in the half-written line, the socket, the receive buffer, a pending line or an answered one (`Traced`) |
| `CommandsAlwaysInOrder` | `CommandsInOrder` | `OrderInv`: for each client, what is answered comes before what is to be handled, that before what is in the buffer, the socket and the half-written line, and that before what is typed next (`OrderOf`, `FreshNext`); a pending command is a line of one command |
| `ViewAlwaysGapless` | `ViewGapless` | `ViewInv`: for each client there is a piece that the daemon writes next, and what is seen, read and in the socket leads up to it: without a gap where the TUI reads whole lines (`InLine`), in order where it may tear them (`Ahead`). A client in the middle of a line is the one the broadcast is at (`PartInv`) |

What a drain of a socket does is a recursive function over its pieces (`Reading`,
`Decoding`), and what the snapshots carry is a concatenation (`FlattenSeq`). The library's
induction theorems take a predicate, which the provers cannot instantiate; `Recursion.tla`
has induction over sets of numbers instead (`SetInduction`), from the well-foundedness of
the subset order, and from it that such a function exists and what it satisfies. A
statement about every prefix then becomes a set of numbers. That is enough for functions
over the natural numbers whose invariant can be named; it is not a general induction over
data.

### Assumptions

Those on the constants say no more than the types of the code's data: `Vm` of
`HugepagePool` and the functions of `Passthrough` are finite, as the configured VMs and
the devices of a bus are; `NodeAssumption` has a node 0, which is what the code takes
where it finds no nodes; `DeviceAssumption` of `CpuPlacement` gives no device to two VMs;
a snapshot has at least one piece and a socket room for one; a newline is not a command.
The `Max...` bounds may be any numbers: a run of any length is a run for some bound. TLC
evaluates each in the run of its module.

### Only model-checked

The liveness properties `DownLeadsToIdle`, `BringUpSettles`, `ExitIsNoticed`,
`WorkersEndWithVm`, `IrqsEventuallyPinned` and `WorkerEnds`: they need `ENABLED` and
reasoning under fairness, which this prover does not do. What does not hold (the five
runs above) is shown by TLC's counterexamples alone.

## What is not modelled, and the plan

Left out for good: log text and event wording, argument formatting of the QEMU command,
SMBIOS and RTC options, the tables that name a CPU's architecture and QEMU model, CPU
sampling, deserialisation, rendering in the TUI. `cpu/detect/validate.rs` is not part of the
build, and `pin_irqs`, `derive_host_cpus_from_topology` and `prepare_gpu_passthrough` are
called by nothing. Left out by abstraction: IRQ numbers, affinity writes that fail (the
worker only logs them), pids reused by processes that are not the VM's, how long a wait
lasts (a timeout is a failure that may happen), whether a sysfs write fails once or always,
and the choice of the hugepage node. The CLI runs the modelled steps on a runtime of its own, which it forgets
between `up` and `down`.

A crash of the daemon is modelled for the hugepages; what it leaves of device bindings and
of the relay is not.

Still open:

1. Whether in `Passthrough` a guest that runs has all its required devices: a property, and
   a theorem from `StageInv` if it holds.
2. Lemmas about `VfioBinding` alone (what a plan leaves behind after each of its failures),
   which the proofs of `VmLifecycle` now contain inline.
3. The devices and the relay of a guest that a restarted daemon has forgotten, in
   `VmLifecycle`, and the theorems that survive it.

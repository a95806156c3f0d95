---------------------------- MODULE MCCpuPlacement ----------------------------
(* Two VMs on four CPUs of two nodes; the first has a GPU with its audio    *)
(* function on node 0 and an NVMe drive on node 1, the second has no        *)
(* device.                                                                  *)
EXTENDS CpuPlacement, TLC

MCNodeOf == (0 :> 0) @@ (1 :> 0) @@ (2 :> 1) @@ (3 :> 1)

Gpu == 1
Audio == 2
Nvme == 3
MCDevice == {Gpu, Audio, Nvme}
MCDevicesOf == (1 :> {Gpu, Audio, Nvme}) @@ (2 :> {})
MCDevNode == (Gpu :> 0) @@ (Audio :> 0) @@ (Nvme :> 1)
MCSlot == (Gpu :> 1) @@ (Audio :> 1) @@ (Nvme :> 2)
MCFunc == (Gpu :> 0) @@ (Audio :> 1) @@ (Nvme :> 0)

Cpus(vm, host, vcpus) == [vm |-> vm, host |-> host, vcpus |-> vcpus]

\* CPUs on one node and on both; lists of the two VMs that are disjoint and that
\* overlap; a list that is too short, and one that is empty.
MCLayouts ==
    {<<Cpus(<<1, 2>>, {0}, 2), Cpus(<<3>>, {1}, 1)>>,
     <<Cpus(<<1, 3, 2>>, {0}, 3), Cpus(<<3, 2>>, {0, 1}, 3)>>,
     <<Cpus(<<1>>, {}, 1), Cpus(<<2, 1>>, {2}, 1)>>}

=============================================================================

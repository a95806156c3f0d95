---------------------------- MODULE MCVmLifecycle ----------------------------
(* VmLifecycle on small instances: the fault sets the runs choose from.    *)
EXTENDS VmLifecycle

AllFaults == FaultKind

\* Every fault but the two that leave a QEMU the daemon holds no handle of.
TrackedFaults == FaultKind \ {"cgroup", "sigterm"}

\* Steps may fail, but the host refuses no write.
StepFaults == {"validate", "policy", "noop", "cpuset", "spawn",
               "threads", "pin", "i2c"}

=============================================================================

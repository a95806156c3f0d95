---------------------------- MODULE MCHugepagePool ----------------------------
(* HugepagePool on small instances.                                        *)
EXTENDS HugepagePool, TLC

CONSTANTS v1, v2, v3

\* Two VMs that fit together, and a third that fits only alone.
SmallNeed == (v1 :> 1) @@ (v2 :> 2) @@ (v3 :> 4)

=============================================================================

------------------------------ MODULE AbstractVm ------------------------------
(***************************************************************************)
(* What the daemon promises about one VM to whoever watches it over IPC:   *)
(* the coarse state it projects and the guest behind it.  A VM is started  *)
(* from Stopped only, its guest runs at most once per start, and the VM    *)
(* is projected as going down, or as down, only once its guest is gone.    *)
(***************************************************************************)

VARIABLES
    view,   \* the projected IpcVmState
    guest   \* "absent" (not launched since Stopped), "live" or "gone"

Init == view = "Stopped" /\ guest = "absent"

\* A start command is taken up.
Begin ==
    /\ view = "Stopped"
    /\ view' = "Starting"
    /\ UNCHANGED guest

\* The one QEMU of this start is launched.
Boot ==
    /\ view = "Starting"
    /\ guest = "absent"
    /\ guest' = "live"
    /\ UNCHANGED view

\* The guest ends, of itself or because it is told to.
End ==
    /\ view \in {"Starting", "Running"}
    /\ guest = "live"
    /\ guest' = "gone"
    /\ UNCHANGED view

\* Bring-up is complete; the guest may have ended meanwhile.
Ready ==
    /\ view = "Starting"
    /\ guest # "absent"
    /\ view' = "Running"
    /\ UNCHANGED guest

\* The VM is given up or stopped, and no guest of it is left.
GoDown ==
    /\ view \in {"Starting", "Running"}
    /\ guest # "live"
    /\ view' = "ShuttingDown"
    /\ guest' = "gone"

\* Teardown is complete.
Finish ==
    /\ view = "ShuttingDown"
    /\ view' = "Stopped"
    /\ guest' = "absent"

Next == Begin \/ Boot \/ End \/ Ready \/ GoDown \/ Finish

Spec == Init /\ [][Next]_<<view, guest>>

=============================================================================

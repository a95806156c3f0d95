---------------------------- MODULE MCDaemonServer ----------------------------
(* DaemonServer on a small instance.                                       *)
EXTENDS DaemonServer

CONSTANTS c1, c2

\* One user types, the other watches.
OneTypes == (c1 :> 2) @@ (c2 :> 0)

\* The run ends with the snapshot of the last tick written.
AtBound ==
    /\ pc = "accept" /\ tick = MaxTick
    /\ UNCHANGED serverVars

MCServerSpec == ServerInit /\ [][ServerNext \/ AtBound]_serverVars

=============================================================================

-------------------------- MODULE MCDaemonLifecycle ---------------------------
(* Small instances of DaemonLifecycle for TLC.                               *)
EXTENDS DaemonLifecycle, TLC

CONSTANTS q1, q2, d1, d2, d3

MCOnePort == d1 :> q1 @@ d2 :> q1 @@ d3 :> q1
MCOnePortTwo == d1 :> q1 @@ d2 :> q1
MCTwoPorts == d1 :> q1 @@ d2 :> q2
===============================================================================

---------------------------- MODULE MCControlDaemon ----------------------------
(* Small instances of ControlDaemon for TLC.                                 *)
EXTENDS ControlDaemon, TLC

CONSTANTS p1, p2, n1, h1

(* Both runners want the same name; or there is one runner.                  *)
MCSameName == p1 :> n1 @@ p2 :> n1
MCOneRunner == p1 :> n1

(* Runners of the same name are interchangeable.                             *)
MCSymmetry == Permutations({p1, p2})

MCExpansionOne == n1 :> {h1}
===============================================================================

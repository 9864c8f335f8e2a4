------------------------------- MODULE MCRunner -------------------------------
(* A small instance of Runner for TLC.                                       *)
EXTENDS Runner

CONSTANTS r1, r2

MCPorts == {4000, 4001}
===============================================================================

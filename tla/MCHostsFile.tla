------------------------------ MODULE MCHostsFile ------------------------------
(* A small instance of HostsFile for TLC.                                    *)
EXTENDS HostsFile, TLC

CONSTANTS w1, w2, l1, l2, h1

MCHostOrder == <<h1>>
MCSymmetry == Permutations({w1, w2}) \cup Permutations({l1, l2})
===============================================================================

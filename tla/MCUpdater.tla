------------------------------- MODULE MCUpdater -------------------------------
(* A small instance of Updater for TLC.                                      *)
EXTENDS Updater

CONSTANTS u1, u2, c1

MCVersions == 1..3
===============================================================================

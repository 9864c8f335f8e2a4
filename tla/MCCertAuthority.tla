---- MODULE MCCertAuthority ----
(* A small instance of CertAuthority for TLC.                                *)
EXTENDS CertAuthority, TLC

CONSTANTS d1, d2, d3, h1

MCSymmetry == Permutations(Daemons)
================================

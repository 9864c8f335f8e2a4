-------------------------------- MODULE MCProxy --------------------------------
(* A small instance of Proxy for TLC: nested names under one top level.      *)
EXTENDS Proxy, TLC

CONSTANTS r1, r2

MCHosts == {<<"a">>, <<"b", "a">>, <<"c", "b", "a">>}
MCExpansion == (r1 :> << <<"a">> >>) @@ (r2 :> << <<"b", "a">> >>)
===============================================================================

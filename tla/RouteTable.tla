------------------------------ MODULE RouteTable ------------------------------
(*****************************************************************************)
(* The route table of the daemon (internal/routes/routes.go) as a value: one *)
(* operator per method of routes.Table, each a function of the table it is   *)
(* applied to.  Every method of the code holds the table's mutex from its    *)
(* first read to its last write, so one operator is one atomic step.         *)
(*                                                                           *)
(* Of a route only what decides an operation is kept: its owner, whether it  *)
(* is an alias, and its host names.  Ports, certificates and times are left  *)
(* out, and so is the order of the host names.                               *)
(*****************************************************************************)

CONSTANTS
    Names,      \* route names that pass ValidateName
    Pids,       \* process ids of runners, all > 0
    NoPid,      \* the PID 0 of a route that no process owns
    Hosts,      \* host names
    NoRoute,    \* "this name has no route"
    Expansion   \* Expansion[n]: the names n.tld the daemon gives to route n

ASSUME PidAssumption == NoPid \notin Pids
ASSUME ExpansionAssumption == Expansion \in [Names -> SUBSET Hosts]

Owner == Pids \cup {NoPid}
Route == [pid : Owner, static : BOOLEAN, hosts : SUBSET Hosts]

ASSUME RouteAssumption == NoRoute \notin Route

Table == [Names -> Route \cup {NoRoute}]

EmptyTable == [n \in Names |-> NoRoute]

Registered(t, n) == t[n] # NoRoute

OwnedBy(t, n, p) == Registered(t, n) /\ t[n].pid = p

(* Faulty variant of CanRegister: the owner's life is not looked at.         *)
CanRegisterOverLive(t, n, force, live) ==
    force \/ ~Registered(t, n) \/ ~t[n].static

(* Register refuses a taken name unless it is forced or the owner is dead.   *)
(* A table without a liveness test (alive = nil) is one where every process  *)
(* counts as live.                                                           *)
CanRegister(t, n, force, live) ==
    \/ force
    \/ ~Registered(t, n)
    \/ Registered(t, n) /\ ~t[n].static /\ t[n].pid \in Pids \ live

(* Faulty variant of Register: the name is not expanded with the TLDs.       *)
RegisterUnexpanded(t, n, p, static) ==
    [t EXCEPT ![n] = [pid |-> p, static |-> static, hosts |-> {n}]]

Register(t, n, p, static) ==
    [t EXCEPT ![n] = [pid |-> p, static |-> static, hosts |-> Expansion[n]]]

AddHostname(t, n, h) == [t EXCEPT ![n].hosts = @ \cup {h}]

RemoveHostname(t, n, h) == [t EXCEPT ![n].hosts = @ \ {h}]

(* Faulty variant of CanRemove: the PID is not compared.                     *)
CanRemoveAny(t, n, p) == Registered(t, n)

(* Remove(name, pid): PID 0 removes whatever is there, any other PID only    *)
(* its own route.                                                            *)
CanRemove(t, n, p) == Registered(t, n) /\ (p = NoPid \/ t[n].pid = p)

Remove(t, n, p) == IF CanRemove(t, n, p) THEN [t EXCEPT ![n] = NoRoute] ELSE t

(* What a starting daemon makes of the saved table: every route gets the     *)
(* names of the current TLDs it does not have yet.                           *)
Restored(saved) ==
    [n \in Names |->
        IF Registered(saved, n)
        THEN [saved[n] EXCEPT !.hosts = @ \cup Expansion[n]]
        ELSE NoRoute]

(* The names the hosts file's managed block holds for a table.               *)
HostBlock(t) == UNION {t[n].hosts : n \in {m \in Names : Registered(t, m)}}
===============================================================================

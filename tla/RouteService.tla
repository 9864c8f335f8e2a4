------------------------------ MODULE RouteService ------------------------------
(*****************************************************************************)
(* What the control socket promises its callers, whatever processes a        *)
(* handler has to stop on the way and however handlers interleave: a call    *)
(* takes effect on the route table at one moment between its invocation and  *)
(* its answer, and it is granted only after a copy of the table as it was    *)
(* then or later has been saved.  A prune takes entries away one by one.     *)
(* ControlDaemon implements this (ControlDaemon!ImplementsService).          *)
(*****************************************************************************)
EXTENDS RouteTable

CONSTANTS
    Callers,    \* those who call
    Request,    \* their requests
    NoCall      \* "this caller waits for nothing"

VARIABLES
    up,         \* the service runs
    table,      \* its route table
    disk,       \* the saved table
    call,       \* call[c]: how far the call of c is
    request,    \* request[c]: its request
    copy        \* copy[c]: the table it is about to save

vars == <<up, table, disk, call, request, copy>>

Progress == {"idle", "pending", "effected", "copied", "granted", "refused", "offline"}

Init ==
    /\ up = FALSE
    /\ table = EmptyTable
    /\ disk = EmptyTable
    /\ call = [c \in Callers |-> "idle"]
    /\ request = [c \in Callers |-> NoCall]
    /\ copy = [c \in Callers |-> EmptyTable]

Goes(c, from, to) == call[c] = from /\ call' = [call EXCEPT ![c] = to]

Start ==
    /\ ~up
    /\ up' = TRUE
    /\ table' = Restored(disk)
    /\ UNCHANGED <<disk, call, request, copy>>

InService(c) == call[c] \notin {"idle", "offline"}

Stop ==
    /\ up
    /\ up' = FALSE
    /\ call' = [c \in Callers |-> IF InService(c) THEN "idle" ELSE call[c]]
    /\ request' = [c \in Callers |-> IF InService(c) THEN NoCall ELSE request[c]]
    /\ copy' = [c \in Callers |-> IF InService(c) THEN EmptyTable ELSE copy[c]]
    /\ UNCHANGED <<table, disk>>

Invoke(c, r) ==
    /\ up
    /\ Goes(c, "idle", "pending")
    /\ request' = [request EXCEPT ![c] = r]
    /\ UNCHANGED <<up, table, disk, copy>>

(* The owner's life is judged at the moment of the effect.                   *)
Granted(r, live) ==
    CASE r.op = "register" -> CanRegister(table, r.name, r.force, live)
      [] r.op \in {"add_hostname", "remove_hostname"} -> Registered(table, r.name)
      [] OTHER -> TRUE

Effected(r) ==
    CASE r.op = "register" -> Register(table, r.name, r.pid, r.static)
      [] r.op = "deregister" -> Remove(table, r.name, r.pid)
      [] r.op = "add_hostname" -> AddHostname(table, r.name, r.host)
      [] r.op = "remove_hostname" -> RemoveHostname(table, r.name, r.host)
      [] OTHER -> table

Effect(c) ==
    /\ Goes(c, "pending", "effected")
    /\ \E live \in SUBSET Pids : Granted(request[c], live)
    /\ table' = Effected(request[c])
    /\ UNCHANGED <<up, disk, request, copy>>

PruneOne(c) ==
    /\ call[c] = "pending" /\ request[c].op = "prune"
    /\ \E n \in Names, p \in Owner : table' = Remove(table, n, p)
    /\ UNCHANGED <<up, disk, call, request, copy>>

Refuse(c) ==
    /\ Goes(c, "pending", "refused")
    /\ \E live \in SUBSET Pids : ~Granted(request[c], live)
    /\ UNCHANGED <<up, table, disk, request, copy>>

Copy(c) ==
    /\ Goes(c, "effected", "copied")
    /\ copy' = [copy EXCEPT ![c] = table]
    /\ UNCHANGED <<up, table, disk, request>>

Save(c) ==
    /\ Goes(c, "copied", "granted")
    /\ disk' = copy[c]
    /\ UNCHANGED <<up, table, request, copy>>

SaveFails(c) ==
    /\ Goes(c, "copied", "refused")
    /\ UNCHANGED <<up, table, disk, request, copy>>

Return(c) ==
    /\ call[c] \in {"granted", "refused"}
    /\ call' = [call EXCEPT ![c] = "idle"]
    /\ request' = [request EXCEPT ![c] = NoCall]
    /\ copy' = [copy EXCEPT ![c] = EmptyTable]
    /\ UNCHANGED <<up, table, disk>>

(* An alias set or removed while no service answered: on a copy of the saved *)
(* table, which is saved later.                                              *)
OfflineCopy(c) ==
    /\ Goes(c, "idle", "offline")
    /\ \E n \in Names :
          copy' = [copy EXCEPT ![c] = Register(disk, n, NoPid, TRUE)]
          \/ copy' = [copy EXCEPT ![c] = Remove(disk, n, NoPid)]
    /\ UNCHANGED <<up, table, disk, request>>

OfflineSave(c) ==
    /\ Goes(c, "offline", "idle")
    /\ disk' = copy[c]
    /\ copy' = [copy EXCEPT ![c] = EmptyTable]
    /\ UNCHANGED <<up, table, request>>

CallStep(c) ==
    \/ \E r \in Request : Invoke(c, r)
    \/ Effect(c) \/ PruneOne(c) \/ Refuse(c)
    \/ Copy(c) \/ Save(c) \/ SaveFails(c) \/ Return(c)
    \/ OfflineCopy(c) \/ OfflineSave(c)

Next == Start \/ Stop \/ \E c \in Callers : CallStep(c)

Spec == Init /\ [][Next]_vars
===============================================================================

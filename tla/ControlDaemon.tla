----------------------------- MODULE ControlDaemon -----------------------------
(*****************************************************************************)
(* The devhostd daemon's control server, the runners that register routes    *)
(* with it, and the command-line clients that change them.                   *)
(*                                                                           *)
(* The daemon serves each control connection in a goroutine of its own       *)
(* (internal/control/control.go) and handles its requests one at a time      *)
(* (Server.handle, internal/daemon/daemon.go).  A handler takes the table's  *)
(* lock for one table operation at a time and holds no lock while it stops a *)
(* process, writes routes.json or rewrites the hosts file, so the handlers   *)
(* of several clients interleave between any two of these steps.  pc[c] is   *)
(* where the handler of client c's call stands:                              *)
(*                                                                           *)
(*   register:      [takeover -> (signal -> await)] -> apply -> persist      *)
(*   prune:         scan -> prune [-> [signal -> await] -> remove -> prune]  *)
(*                  -> persist                                               *)
(*   other changes: apply -> persist                                         *)
(*   persist:       list -> write -> sync -> ok                              *)
(*                                                                           *)
(* and "error" answers a refused request or a failed write.                  *)
(*****************************************************************************)
EXTENDS Naturals, RouteTable

CONSTANTS
    Clients,        \* command-line clients: alias, prune, share, api
    RunName,        \* RunName[p]: the route name runner p asks for
    Ops,            \* the operations the clients use
    HostsSync,      \* the daemon may rewrite the hosts file
    WriteMayFail,   \* writing routes.json may fail
    MaxEpochs       \* bound: how often a daemon is started

AllOps == {"alias", "unalias", "anonymous", "hostname", "prune", "offline"}

ASSUME ClientAssumption == Clients \cap Owner = {}
ASSUME RunNameAssumption == RunName \in [Pids -> Names]
ASSUME OpsAssumption == Ops \subseteq AllOps
ASSUME FlagAssumption == HostsSync \in BOOLEAN /\ WriteMayFail \in BOOLEAN
ASSUME EpochAssumption == MaxEpochs \in Nat \ {0}

VARIABLES
    up,         \* a daemon is running
    epoch,      \* how many daemons have been started
    table,      \* its route table
    file,       \* routes.json
    block,      \* the managed block of the hosts file
    pc,         \* pc[c]: where the handler of c's call stands
    req,        \* req[c]: the request it handles
    snap,       \* snap[c]: the copy of the table it is about to write
    cur,        \* cur[c]: the table entry whose process it is stopping
    todo,       \* todo[c]: the entries prune has not looked at yet
    proc,       \* proc[p]: the life of runner p
    listening,  \* runners whose application accepts connections
    termed,     \* runners that a takeover has sent SIGTERM
    seen,       \* history: epoch in which the daemon last granted p's call
    released,   \* history: runners whose route was taken away on request
    store       \* history: how routes.json relates to the table

daemonVars  == <<up, epoch, table, file, block, store>>
handlerVars == <<pc, req, snap, cur, todo>>
runnerVars  == <<proc, listening, termed, seen, released>>
vars == <<daemonVars, handlerVars, runnerVars>>

Callers == Pids \cup Clients

Entry == [name : Names, pid : Owner]
NoEntry == [name |-> NoRoute, pid |-> NoPid]

RegisterCall(n, p, static, force) ==
    [op |-> "register", name |-> n, pid |-> p, static |-> static, force |-> force]
DeregisterCall(n, p) == [op |-> "deregister", name |-> n, pid |-> p]
HostnameCall(op, n, h) == [op |-> op, name |-> n, host |-> h]
PruneCall == [op |-> "prune"]
NoCall == [op |-> "none"]

Request ==
    [op : {"register"}, name : Names, pid : Owner, static : BOOLEAN, force : BOOLEAN]
    \cup [op : {"deregister"}, name : Names, pid : Owner]
    \cup [op : {"add_hostname", "remove_hostname"}, name : Names, host : Hosts]
    \cup {PruneCall, NoCall}

(* Positions of a handler, and the part of them in which its change of the   *)
(* table is made but not yet in routes.json and the hosts file.              *)
Persisting == {"list", "write", "sync"}
Handling == {"takeover", "signal", "await", "apply", "scan", "prune",
             "remove", "ok", "error"} \cup Persisting

(* A process that kill(pid, 0) finds.                                        *)
Alive == {p \in Pids : proc[p] \in {"registering", "serving", "leaving"}}

TypeOK ==
    /\ up \in BOOLEAN
    /\ epoch \in Nat
    /\ table \in Table
    /\ file \in Table
    /\ block \in SUBSET Hosts
    /\ pc \in [Callers -> Handling \cup {"idle", "down", "offline"}]
    /\ req \in [Callers -> Request]
    /\ snap \in [Callers -> Table]
    /\ cur \in [Callers -> Entry \cup {NoEntry}]
    /\ todo \in [Callers -> SUBSET Entry]
    /\ proc \in [Pids -> {"idle", "registering", "serving", "leaving",
                          "exited", "failed", "killed"}]
    /\ listening \in SUBSET Pids
    /\ termed \in SUBSET Pids
    /\ seen \in [Pids -> Nat]
    /\ released \in SUBSET Pids
    /\ store \in {"loaded", "saved", "torn"}

Init ==
    /\ up = FALSE
    /\ epoch = 0
    /\ table = EmptyTable
    /\ file = EmptyTable
    /\ block = {}
    /\ pc = [c \in Callers |-> "idle"]
    /\ req = [c \in Callers |-> NoCall]
    /\ snap = [c \in Callers |-> EmptyTable]
    /\ cur = [c \in Callers |-> NoEntry]
    /\ todo = [c \in Callers |-> {}]
    /\ proc = [p \in Pids |-> "idle"]
    /\ listening = {}
    /\ termed = {}
    /\ seen = [p \in Pids |-> 0]
    /\ released = {}
    /\ store = "loaded"

-------------------------------------------------------------------------------
(* The daemon process.                                                       *)

(* Faulty variant of DaemonStart: routes.json is not loaded.                 *)
DaemonStartEmpty ==
    /\ ~up
    /\ epoch < MaxEpochs
    /\ up' = TRUE
    /\ epoch' = epoch + 1
    /\ table' = EmptyTable
    /\ store' = "loaded"
    /\ UNCHANGED <<file, block, handlerVars, runnerVars>>

(* Run loads routes.json before it opens the control socket.                 *)
DaemonStart ==
    /\ ~up
    /\ epoch < MaxEpochs
    /\ up' = TRUE
    /\ epoch' = epoch + 1
    /\ table' = Restored(file)
    /\ store' = "loaded"
    /\ UNCHANGED <<file, block, handlerVars, runnerVars>>

InDaemon(c) == pc[c] \in Handling

(* What a runner does when its call returns: a registered one starts its     *)
(* application, a refused one gives up, one that deregistered ends.          *)
Answered(p, ok) ==
    IF proc[p] = "registering" THEN (IF ok THEN "serving" ELSE "failed")
    ELSE IF proc[p] = "leaving" THEN "exited" ELSE proc[p]

(* The daemon is stopped or dies: Run returns while handlers are running, so *)
(* they end where they stand and their callers see the connection close.     *)
DaemonExit ==
    /\ up
    /\ up' = FALSE
    /\ pc' = [c \in Callers |-> IF InDaemon(c) THEN "idle" ELSE pc[c]]
    /\ req' = [c \in Callers |-> IF InDaemon(c) THEN NoCall ELSE req[c]]
    /\ snap' = [c \in Callers |-> IF InDaemon(c) THEN EmptyTable ELSE snap[c]]
    /\ cur' = [c \in Callers |-> NoEntry]
    /\ todo' = [c \in Callers |-> {}]
    /\ proc' = [p \in Pids |-> Answered(p, FALSE)]
    /\ UNCHANGED <<epoch, table, file, block, store,
                   listening, termed, seen, released>>

-------------------------------------------------------------------------------
(* The callers.                                                              *)

(* The position at which handle begins to work on a request.                 *)
Entrance(r) ==
    CASE r.op = "prune" -> "scan"
      [] r.op = "register" -> IF r.force THEN "takeover" ELSE "apply"
      [] OTHER -> "apply"

Call(c, r) ==
    /\ up
    /\ pc[c] = "idle"
    /\ pc' = [pc EXCEPT ![c] = Entrance(r)]
    /\ req' = [req EXCEPT ![c] = r]
    /\ UNCHANGED <<snap, cur, todo>>

(* runner.Run: register, then start the application.                         *)
RunnerStart(p, force) ==
    /\ proc[p] = "idle"
    /\ proc' = [proc EXCEPT ![p] = "registering"]
    /\ Call(p, RegisterCall(RunName[p], p, FALSE, force))
    /\ UNCHANGED <<daemonVars, listening, termed, seen, released>>

AppListens(p) ==
    /\ proc[p] = "serving"
    /\ p \notin listening
    /\ listening' = listening \cup {p}
    /\ UNCHANGED <<daemonVars, handlerVars, proc, termed, seen, released>>

(* A development server closes its port while it restarts.                   *)
AppCloses(p) ==
    /\ p \in listening
    /\ listening' = listening \ {p}
    /\ UNCHANGED <<daemonVars, handlerVars, proc, termed, seen, released>>

(* Faulty variant of RunnerExit: the runner ends without its deferred call.  *)
RunnerExitSilently(p) ==
    /\ proc[p] = "serving"
    /\ listening' = listening \ {p}
    /\ proc' = [proc EXCEPT ![p] = "exited"]
    /\ UNCHANGED <<daemonVars, handlerVars, termed, seen, released>>

(* Faulty variant of RunnerExit: SIGTERM is caught and not acted on.         *)
RunnerExitUnlessTermed(p) ==
    /\ proc[p] = "serving"
    /\ p \notin termed
    /\ listening' = listening \ {p}
    /\ \/ /\ proc' = [proc EXCEPT ![p] = "leaving"]
          /\ Call(p, DeregisterCall(RunName[p], p))
       \/ /\ ~up
          /\ proc' = [proc EXCEPT ![p] = "exited"]
          /\ UNCHANGED handlerVars
    /\ UNCHANGED <<daemonVars, termed, seen, released>>

(* The application ends, or the runner stops it because it was told to end:  *)
(* the deferred deregister call is made, and its failure ignored.            *)
RunnerExit(p) ==
    /\ proc[p] = "serving"
    /\ listening' = listening \ {p}
    /\ \/ /\ proc' = [proc EXCEPT ![p] = "leaving"]
          /\ Call(p, DeregisterCall(RunName[p], p))
       \/ /\ ~up
          /\ proc' = [proc EXCEPT ![p] = "exited"]
          /\ UNCHANGED handlerVars
    /\ UNCHANGED <<daemonVars, termed, seen, released>>

(* The runner dies without its deferred calls.  A handler that works for it  *)
(* goes on.                                                                  *)
RunnerKilled(p) ==
    /\ p \in Alive
    /\ proc' = [proc EXCEPT ![p] = "killed"]
    /\ listening' = listening \ {p}
    /\ UNCHANGED <<daemonVars, handlerVars, termed, seen, released>>

ClientCall(c) ==
    /\ \/ /\ "alias" \in Ops
          /\ \E n \in Names, force \in BOOLEAN :
                Call(c, RegisterCall(n, NoPid, TRUE, force))
       \/ /\ "anonymous" \in Ops
          /\ \E n \in Names : Call(c, RegisterCall(n, NoPid, FALSE, FALSE))
       \/ /\ "unalias" \in Ops
          /\ \E n \in Names : Call(c, DeregisterCall(n, NoPid))
       \/ /\ "hostname" \in Ops
          /\ \E op \in {"add_hostname", "remove_hostname"}, n \in Names, h \in Hosts :
                Call(c, HostnameCall(op, n, h))
       \/ "prune" \in Ops /\ Call(c, PruneCall)
    /\ UNCHANGED <<daemonVars, runnerVars>>

(* alias and alias --remove when the ping found no daemon: the client edits  *)
(* a copy of routes.json and writes it back, whoever has started a daemon in *)
(* the meantime.  A taken name is refused.                                   *)
OfflinePing(c) ==
    /\ "offline" \in Ops
    /\ ~up
    /\ pc[c] = "idle"
    /\ pc' = [pc EXCEPT ![c] = "down"]
    /\ UNCHANGED <<daemonVars, req, snap, cur, todo, runnerVars>>

OfflineRead(c) ==
    /\ pc[c] = "down"
    /\ \E n \in Names, force \in BOOLEAN :
          \/ /\ CanRegister(file, n, force, Pids)
             /\ snap' = [snap EXCEPT ![c] = Register(file, n, NoPid, TRUE)]
             /\ pc' = [pc EXCEPT ![c] = "offline"]
          \/ /\ ~CanRegister(file, n, force, Pids)
             /\ pc' = [pc EXCEPT ![c] = "idle"]
             /\ UNCHANGED snap
          \/ /\ snap' = [snap EXCEPT ![c] = Remove(file, n, NoPid)]
             /\ pc' = [pc EXCEPT ![c] = "offline"]
    /\ UNCHANGED <<daemonVars, req, cur, todo, runnerVars>>

OfflineWrite(c) ==
    /\ pc[c] = "offline"
    /\ file' = snap[c]
    /\ store' = IF up THEN "torn" ELSE store
    /\ pc' = [pc EXCEPT ![c] = "idle"]
    /\ snap' = [snap EXCEPT ![c] = EmptyTable]
    /\ UNCHANGED <<up, epoch, table, block, req, cur, todo, runnerVars>>

-------------------------------------------------------------------------------
(* The handlers.                                                             *)

Goto(c, where) == pc' = [pc EXCEPT ![c] = where]

(* The handler that stops a process goes on when the process is gone, or     *)
(* when it could not be stopped.                                             *)
AfterTakeover(c) == IF req[c].op = "prune" THEN "remove" ELSE "apply"

(* A forced register reads the table for the runner it has to stop.          *)
FindOwner(c) ==
    LET n == req[c].name
        old == table[n].pid
        stop == Registered(table, n) /\ old # NoPid /\ old # req[c].pid
    IN  /\ pc[c] = "takeover"
        /\ cur' = [cur EXCEPT ![c] = IF stop THEN [name |-> n, pid |-> old]
                                             ELSE NoEntry]
        /\ Goto(c, IF stop THEN "signal" ELSE "apply")
        /\ UNCHANGED <<daemonVars, req, snap, todo, runnerVars>>

(* takeover(pid): SIGTERM, which fails when the process is gone.             *)
Signal(c) ==
    /\ pc[c] = "signal"
    /\ IF cur[c].pid \in Alive
       THEN termed' = termed \cup {cur[c].pid} /\ Goto(c, "await")
       ELSE Goto(c, AfterTakeover(c)) /\ UNCHANGED termed
    /\ UNCHANGED <<daemonVars, req, snap, cur, todo, proc, listening, seen, released>>

(* ... then wait until it is gone, for three seconds at most ...             *)
TargetGone(c) ==
    /\ pc[c] = "await"
    /\ cur[c].pid \notin Alive
    /\ Goto(c, AfterTakeover(c))
    /\ UNCHANGED <<daemonVars, req, snap, cur, todo, runnerVars>>

(* Faulty variant of KillTarget: the wait has no deadline.                   *)
KillTargetNever(c) ==
    /\ pc[c] = "await"
    /\ cur[c].pid \in Alive
    /\ UNCHANGED vars

(* ... and SIGKILL.                                                          *)
KillTarget(c) ==
    /\ pc[c] = "await"
    /\ cur[c].pid \in Alive
    /\ proc' = [proc EXCEPT ![cur[c].pid] = "killed"]
    /\ listening' = listening \ {cur[c].pid}
    /\ Goto(c, AfterTakeover(c))
    /\ UNCHANGED <<daemonVars, req, snap, cur, todo, termed, seen, released>>

(* Handlers that have a copy of the table they did not write out yet.        *)
HoldsCopy(c) == pc[c] \in {"write", "sync"}

ChangeTable(c, t) ==
    /\ table' = t
    /\ store' = IF t # table /\ (\E d \in Callers \ {c} : HoldsCopy(d))
                THEN "torn" ELSE store
    /\ UNCHANGED <<up, epoch, file, block>>

(* The runner whose route a step takes away from name n, if there is one.    *)
OwnerOf(n) == IF Registered(table, n) THEN {table[n].pid} \cap Pids ELSE {}

ApplyRegister(c) ==
    LET r == req[c]
    IN  /\ pc[c] = "apply"
        /\ r.op = "register"
        /\ IF CanRegister(table, r.name, r.force, Alive)
           THEN /\ ChangeTable(c, Register(table, r.name, r.pid, r.static))
                /\ seen' = [p \in Pids |-> IF p = r.pid THEN epoch ELSE seen[p]]
                /\ released' = IF r.force THEN released \cup (OwnerOf(r.name) \ {r.pid})
                                          ELSE released
                /\ Goto(c, "list")
           ELSE Goto(c, "error") /\ UNCHANGED <<daemonVars, seen, released>>
        /\ UNCHANGED <<req, snap, cur, todo, proc, listening, termed>>

(* Faulty variant of ApplyDeregister: the change is not persisted.           *)
ApplyDeregisterOnly(c) ==
    LET r == req[c]
    IN  /\ pc[c] = "apply"
        /\ r.op = "deregister"
        /\ ChangeTable(c, Remove(table, r.name, r.pid))
        /\ seen' = [p \in Pids |-> IF p = r.pid THEN epoch ELSE seen[p]]
        /\ released' = IF r.pid = NoPid THEN released \cup OwnerOf(r.name)
                                        ELSE released
        /\ Goto(c, "ok")
        /\ UNCHANGED <<req, snap, cur, todo, proc, listening, termed>>

ApplyDeregister(c) ==
    LET r == req[c]
    IN  /\ pc[c] = "apply"
        /\ r.op = "deregister"
        /\ ChangeTable(c, Remove(table, r.name, r.pid))
        /\ seen' = [p \in Pids |-> IF p = r.pid THEN epoch ELSE seen[p]]
        /\ released' = IF r.pid = NoPid THEN released \cup OwnerOf(r.name)
                                        ELSE released
        /\ Goto(c, "list")
        /\ UNCHANGED <<req, snap, cur, todo, proc, listening, termed>>

ApplyHostname(c) ==
    LET r == req[c]
    IN  /\ pc[c] = "apply"
        /\ r.op \in {"add_hostname", "remove_hostname"}
        /\ IF Registered(table, r.name)
           THEN /\ ChangeTable(c, IF r.op = "add_hostname"
                                  THEN AddHostname(table, r.name, r.host)
                                  ELSE RemoveHostname(table, r.name, r.host))
                /\ Goto(c, "list")
           ELSE Goto(c, "error") /\ UNCHANGED daemonVars
        /\ UNCHANGED <<req, snap, cur, todo, runnerVars>>

(* prune lists the table once and then looks at its dynamic routes.          *)
PruneScan(c) ==
    /\ pc[c] = "scan"
    /\ todo' = [todo EXCEPT ![c] =
                   {[name |-> n, pid |-> table[n].pid] :
                       n \in {m \in Names : Registered(table, m) /\ ~table[m].static}}]
    /\ Goto(c, "prune")
    /\ UNCHANGED <<daemonVars, req, snap, cur, runnerVars>>

(* A route is stale when its process is dead or its port closed.  The live   *)
(* owner of a closed port is stopped.                                        *)
PruneNext(c) ==
    /\ pc[c] = "prune"
    /\ \E e \in todo[c] :
          /\ todo' = [todo EXCEPT ![c] = @ \ {e}]
          /\ IF e.pid \in Alive \cap listening
             THEN UNCHANGED <<pc, cur>>
             ELSE /\ cur' = [cur EXCEPT ![c] = e]
                  /\ Goto(c, IF e.pid \in Alive THEN "signal" ELSE "remove")
    /\ UNCHANGED <<daemonVars, req, snap, runnerVars>>

PruneRemove(c) ==
    LET e == cur[c]
    IN  /\ pc[c] = "remove"
        /\ ChangeTable(c, Remove(table, e.name, e.pid))
        /\ released' = IF CanRemove(table, e.name, e.pid)
                       THEN released \cup OwnerOf(e.name) ELSE released
        /\ Goto(c, "prune")
        /\ UNCHANGED <<req, snap, cur, todo, proc, listening, termed, seen>>

PruneDone(c) ==
    /\ pc[c] = "prune"
    /\ todo[c] = {}
    /\ Goto(c, "list")
    /\ UNCHANGED <<daemonVars, req, snap, cur, todo, runnerVars>>

(* persist: copy the table, write the copy out, rewrite the hosts file.      *)
List(c) ==
    /\ pc[c] = "list"
    /\ snap' = [snap EXCEPT ![c] = table]
    /\ store' = IF \E d \in Callers : HoldsCopy(d) THEN store ELSE "saved"
    /\ Goto(c, "write")
    /\ UNCHANGED <<up, epoch, table, file, block, req, cur, todo, runnerVars>>

Write(c) ==
    /\ pc[c] = "write"
    /\ file' = snap[c]
    /\ Goto(c, "sync")
    /\ UNCHANGED <<up, epoch, table, block, store, req, snap, cur, todo, runnerVars>>

WriteFails(c) ==
    /\ WriteMayFail
    /\ pc[c] = "write"
    /\ store' = "torn"
    /\ Goto(c, "error")
    /\ UNCHANGED <<up, epoch, table, file, block, req, snap, cur, todo, runnerVars>>

(* A failing hosts.Sync is only logged.                                      *)
Sync(c) ==
    /\ pc[c] = "sync"
    /\ block' = IF HostsSync THEN HostBlock(snap[c]) ELSE block
    /\ Goto(c, "ok")
    /\ UNCHANGED <<up, epoch, table, file, store, req, snap, cur, todo, runnerVars>>

(* The answer reaches the caller.                                            *)
Reply(c) ==
    /\ pc[c] \in {"ok", "error"}
    /\ Goto(c, "idle")
    /\ req' = [req EXCEPT ![c] = NoCall]
    /\ snap' = [snap EXCEPT ![c] = EmptyTable]
    /\ cur' = [cur EXCEPT ![c] = NoEntry]
    /\ todo' = [todo EXCEPT ![c] = {}]
    /\ proc' = [p \in Pids |-> IF p = c THEN Answered(p, pc[c] = "ok") ELSE proc[p]]
    /\ UNCHANGED <<daemonVars, listening, termed, seen, released>>

HandlerStep(c) ==
    \/ FindOwner(c) \/ Signal(c) \/ TargetGone(c) \/ KillTarget(c)
    \/ ApplyRegister(c) \/ ApplyDeregister(c) \/ ApplyHostname(c)
    \/ PruneScan(c) \/ PruneNext(c) \/ PruneRemove(c) \/ PruneDone(c)
    \/ List(c) \/ Write(c) \/ WriteFails(c) \/ Sync(c) \/ Reply(c)

RunnerStep(p) ==
    \/ \E force \in BOOLEAN : RunnerStart(p, force)
    \/ AppListens(p) \/ AppCloses(p) \/ RunnerExit(p) \/ RunnerKilled(p)

ClientStep(c) == ClientCall(c) \/ OfflinePing(c) \/ OfflineRead(c) \/ OfflineWrite(c)

Next ==
    \/ DaemonStart
    \/ DaemonExit
    \/ \E c \in Callers : HandlerStep(c)
    \/ \E p \in Pids : RunnerStep(p)
    \/ \E c \in Clients : ClientStep(c)

Spec == Init /\ [][Next]_vars

(* A handler goroutine that can take a step takes it, and the wait of a      *)
(* takeover ends after three seconds.  Nothing is assumed of daemons,        *)
(* runners, applications and users.                                          *)
FairSpec == Spec /\ \A c \in Callers : WF_vars(HandlerStep(c))

(* A runner that got SIGTERM stops its application and ends: the cancelled   *)
(* context wakes the select of runner.Run.                                   *)
StopOnSignal(p) == p \in termed /\ RunnerExit(p)

-------------------------------------------------------------------------------
(* Properties.                                                               *)

(* A runner whose command is running owns its route, unless the route was    *)
(* taken from it on request: by a forced register, by alias --remove or by   *)
(* prune.  No other order of calls by other runners and clients, and no late *)
(* deregister of a displaced runner, takes a live runner's route.            *)
ServingOwnsRoute ==
    \A p \in Pids :
        up /\ proc[p] = "serving" /\ seen[p] = epoch /\ p \notin released
            => OwnedBy(table, RunName[p], p)

(* When a runner has ended after a deregister that this daemon handled, the  *)
(* daemon has no route of it left, whatever was in flight when it ended.     *)
ExitedLeavesNoRoute ==
    \A p \in Pids :
        up /\ proc[p] = "exited" /\ seen[p] = epoch
            => \A n \in Names : ~OwnedBy(table, n, p)

(* A handler that has changed the table, or may, and has not yet persisted.  *)
Unsaved(c) ==
    \/ pc[c] \in Persisting
    \/ req[c].op = "prune" /\ pc[c] \notin {"ok", "error"}

(* When no change waits to be persisted, routes.json holds the table and the *)
(* hosts file its names, unless another handler changed the table while one  *)
(* held a copy of it, or a write failed.  The overlap of persist's copy and  *)
(* its writes is the only way a daemon that can write loses a route.         *)
SavedUnlessTorn ==
    up /\ (\A c \in Callers : ~Unsaved(c)) =>
        /\ store = "loaded" => table = Restored(file)
        /\ store = "saved" => /\ table = file
                              /\ HostsSync => block = HostBlock(table)

(* An alias outlives everything but a request for its name: only a forced    *)
(* register, a deregister without a PID, or the prune of an anonymous route  *)
(* that had the same name replaces it.  The late deregister of a displaced   *)
(* runner and the prune of a runner's old entry leave it alone.              *)
AliasLostOnRequest ==
    [][\A n \in Names :
          up /\ up' /\ Registered(table, n) /\ table[n].static
             /\ ~(Registered(table', n) /\ table'[n].static)
          => \E c \in Callers :
                \/ pc[c] = "apply" /\ req[c].op = "register" /\ req[c].force
                \/ pc[c] = "apply" /\ req[c] = DeregisterCall(n, NoPid)
                \/ pc[c] = "remove" /\ cur[c].pid = NoPid]_vars

(* Every call ends, whatever process it has to stop and however that process *)
(* behaves: a takeover that is not obeyed within its three seconds kills.    *)
EveryCallEnds == \A c \in Callers : InDaemon(c) ~> ~InDaemon(c)

(* A runner that a takeover told to end does end, also when the daemon that  *)
(* would have killed it ends first, if it obeys SIGTERM.                     *)
TakenOverRunnerEnds ==
    (\A p \in Pids : WF_vars(StopOnSignal(p)))
        => \A p \in Pids : p \in termed ~> p \notin Alive

(* The abstract service of RouteService: how far a handler at a position is  *)
(* in its terms.                                                             *)
Stage(where) ==
    CASE where \in {"idle", "down"} -> "idle"
      [] where = "offline" -> "offline"
      [] where = "list" -> "effected"
      [] where = "write" -> "copied"
      [] where \in {"sync", "ok"} -> "granted"
      [] where = "error" -> "refused"
      [] OTHER -> "pending"

ServiceCall == [c \in Callers |-> Stage(pc[c])]

Service == INSTANCE RouteService WITH
    disk <- file, call <- ServiceCall, request <- req, copy <- snap

(* The handlers implement that service: with all the processes they stop,    *)
(* the entries they re-read and the calls they overlap with, each call takes *)
(* effect once and as a whole, and is granted only when a later copy of the  *)
(* table is in routes.json.                                                  *)
ImplementsService == Service!Spec
-------------------------------------------------------------------------------
(* What the documentation says and the daemon does not keep.                 *)

(* The persistent aliases of README.md: when no call is being handled, every *)
(* alias the daemon serves is in routes.json, so that the next daemon will   *)
(* serve it too.                                                             *)
AliasesPersist ==
    up /\ (\A c \in Callers : pc[c] = "idle") =>
        \A n \in Names :
            Registered(table, n) /\ table[n].static
                => Registered(file, n) /\ file[n].static

(* "Routes are removed when the runner exits" (README.md), for a runner that *)
(* ended in the ordinary way.                                                *)
RoutesRemovedOnExit ==
    \A p \in Pids :
        up /\ proc[p] = "exited" => \A n \in Names : ~OwnedBy(table, n, p)
===============================================================================

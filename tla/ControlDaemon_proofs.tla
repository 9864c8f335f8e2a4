------------------------- MODULE ControlDaemon_proofs --------------------------
(*****************************************************************************)
(* Proofs about ControlDaemon, for any number of runners, clients, names and *)
(* daemon starts: what the operators of RouteTable make of a table and what  *)
(* they leave alone, the inductive invariant of the daemon, and the          *)
(* refinement: ControlDaemon implements RouteService.  Every step of the     *)
(* daemon, of its handlers and of their callers is one step of the service,  *)
(* or changes nothing the service shows.                                     *)
(*****************************************************************************)
EXTENDS ControlDaemon, TLAPS

(* The operators of the route table.                                         *)

(* The table of a daemon that saved nothing is a table.                      *)
LEMMA EmptyTableType == EmptyTable \in Table
BY DEF EmptyTable, Table

(* A registered name has a route.                                            *)
LEMMA RegisteredRoute ==
    ASSUME NEW t \in Table, NEW n \in Names, Registered(t, n)
    PROVE  /\ t[n] \in Route
           /\ t[n].pid \in Owner
           /\ t[n].static \in BOOLEAN
           /\ t[n].hosts \in SUBSET Hosts
<1>1. t[n] \in Route
  BY DEF Registered, Table
<1> QED
  BY <1>1 DEF Route

(* Table.Register returns a table in which the name has the new route and    *)
(* every other name its old one.                                             *)
LEMMA RegisterFacts ==
    ASSUME NEW t \in Table, NEW n \in Names, NEW p \in Owner,
           NEW static \in BOOLEAN
    PROVE  /\ Register(t, n, p, static) \in Table
           /\ OwnedBy(Register(t, n, p, static), n, p)
           /\ \A m \in Names \ {n} : Register(t, n, p, static)[m] = t[m]
<1> DEFINE r == [pid |-> p, static |-> static, hosts |-> Expansion[n]]
<1>1. r \in Route
  BY ExpansionAssumption DEF Route
<1>2. r # NoRoute
  BY <1>1, RouteAssumption
<1>3. Register(t, n, p, static) = [t EXCEPT ![n] = r]
  BY DEF Register
<1>4. r.pid = p
  OBVIOUS
<1> HIDE DEF r
<1> QED
  BY <1>1, <1>2, <1>3, <1>4 DEF Table, OwnedBy, Registered

(* Table.Remove returns a table without the route it may remove, and leaves  *)
(* the others alone.                                                         *)
LEMMA RemoveFacts ==
    ASSUME NEW t \in Table, NEW n, NEW p
    PROVE  /\ Remove(t, n, p) \in Table
           /\ CanRemove(t, n, p) => ~Registered(Remove(t, n, p), n) \/ n \notin Names
           /\ ~CanRemove(t, n, p) => Remove(t, n, p) = t
           /\ \A m \in Names \ {n} : Remove(t, n, p)[m] = t[m]
           /\ \A m \in Names : Registered(Remove(t, n, p), m)
                                  => Remove(t, n, p)[m] = t[m]
BY DEF Remove, Table, Registered

(* A change of host names keeps every route's owner and kind.                *)
LEMMA HostnameFacts ==
    ASSUME NEW t \in Table, NEW n \in Names, NEW h \in Hosts, Registered(t, n),
           NEW u, u \in {AddHostname(t, n, h), RemoveHostname(t, n, h)}
    PROVE  /\ u \in Table
           /\ \A m \in Names : /\ Registered(u, m) <=> Registered(t, m)
                               /\ Registered(t, m) => /\ u[m].pid = t[m].pid
                                                      /\ u[m].static = t[m].static
<1> DEFINE r == [t[n] EXCEPT !.hosts = @ \cup {h}]
           s == [t[n] EXCEPT !.hosts = @ \ {h}]
<1>1. /\ r \in Route /\ r.pid = t[n].pid /\ r.static = t[n].static
      /\ s \in Route /\ s.pid = t[n].pid /\ s.static = t[n].static
  BY RegisteredRoute DEF Route
<1>2. u = [t EXCEPT ![n] = r] \/ u = [t EXCEPT ![n] = s]
  BY DEF AddHostname, RemoveHostname
<1>3. r # NoRoute /\ s # NoRoute
  BY <1>1, RouteAssumption
<1> HIDE DEF r, s
<1> QED
  BY <1>1, <1>2, <1>3 DEF Table, Registered

(* A restored table has the routes of the saved one, with the same owners.   *)
LEMMA RestoredFacts ==
    ASSUME NEW t \in Table
    PROVE  /\ Restored(t) \in Table
           /\ \A n \in Names : /\ Registered(Restored(t), n) <=> Registered(t, n)
                               /\ Registered(t, n)
                                    => /\ Restored(t)[n].pid = t[n].pid
                                       /\ Restored(t)[n].static = t[n].static
<1> DEFINE r(n) == [t[n] EXCEPT !.hosts = @ \cup Expansion[n]]
<1>1. ASSUME NEW n \in Names, Registered(t, n)
      PROVE  r(n) \in Route /\ r(n).pid = t[n].pid /\ r(n).static = t[n].static
  BY <1>1, RegisteredRoute, ExpansionAssumption DEF Route
<1>2. Restored(t) = [n \in Names |-> IF Registered(t, n) THEN r(n) ELSE NoRoute]
  BY DEF Restored
<1> HIDE DEF r
<1>3. \A n \in Names : Registered(t, n) => r(n) # NoRoute
  BY <1>1, RouteAssumption
<1> QED
  BY <1>1, <1>2, <1>3 DEF Table, Registered

(* The names of the hosts block are host names.                              *)
LEMMA HostBlockType ==
    ASSUME NEW t \in Table
    PROVE  HostBlock(t) \in SUBSET Hosts
BY RegisteredRoute DEF HostBlock

-------------------------------------------------------------------------------
(* The daemon.                                                               *)

USE DEF Callers

(* What a handler's position says of the request it handles.                 *)
Positions ==
    \A c \in Callers :
        /\ pc[c] \in {"idle", "down", "offline"} => req[c] = NoCall
        /\ pc[c] = "takeover" => req[c].op = "register"
        /\ pc[c] \in {"signal", "await"} => req[c].op \in {"register", "prune"}
        /\ pc[c] \in {"scan", "prune", "remove"} => req[c].op = "prune"

(* Runners ask for their own name with their own PID, clients without one.   *)
OwnRequests ==
    /\ \A p \in Pids :
          /\ req[p].op \in {"register", "deregister", "none"}
          /\ req[p].op # "none" => req[p].pid = p /\ req[p].name = RunName[p]
    /\ \A c \in Clients :
          req[c].op \in {"register", "deregister"} => req[c].pid = NoPid

(* What a runner waits for, and that nothing waits for a runner that does    *)
(* not, unless it was killed.                                                *)
RunnerPositions ==
    \A p \in Pids :
        /\ pc[p] \notin {"down", "offline"}
        /\ proc[p] \in {"idle", "serving", "exited", "failed"} => pc[p] = "idle"
        /\ proc[p] = "registering" => pc[p] \in Handling /\ req[p].op = "register"
        /\ proc[p] = "leaving" => pc[p] \in Handling /\ req[p].op = "deregister"

(* Handlers run in the daemon, and history does not run ahead of it.         *)
Sanity ==
    /\ \A c \in Callers : pc[c] \in Handling => up
    /\ \A p \in Pids : seen[p] <= epoch

Structure == Positions /\ OwnRequests /\ RunnerPositions /\ Sanity

-------------------------------------------------------------------------------
(* Type correctness.                                                         *)

(* The fields of a request, by operation.                                    *)
LEMMA RequestFields ==
    ASSUME NEW r \in Request
    PROVE  /\ r.op \in {"register", "deregister", "add_hostname",
                        "remove_hostname", "prune", "none"}
           /\ r.op = "register" => /\ r.name \in Names /\ r.pid \in Owner
                                   /\ r.static \in BOOLEAN /\ r.force \in BOOLEAN
           /\ r.op = "deregister" => r.name \in Names /\ r.pid \in Owner
           /\ r.op \in {"add_hostname", "remove_hostname"}
                 => r.name \in Names /\ r.host \in Hosts
BY DEF Request, PruneCall, NoCall

(* The requests of runners and clients are requests.                         *)
LEMMA CallTypes ==
    /\ \A n \in Names, p \in Owner, s, f \in BOOLEAN : RegisterCall(n, p, s, f) \in Request
    /\ \A n \in Names, p \in Owner : DeregisterCall(n, p) \in Request
    /\ \A op \in {"add_hostname", "remove_hostname"}, n \in Names, h \in Hosts :
          HostnameCall(op, n, h) \in Request
    /\ PruneCall \in Request /\ NoCall \in Request
BY DEF Request, RegisterCall, DeregisterCall, HostnameCall

(* A call keeps the handlers' types.                                         *)
LEMMA CallTypeOK ==
    ASSUME TypeOK, NEW c \in Callers, NEW r \in Request, Call(c, r)
    PROVE  /\ pc' \in [Callers -> Handling \cup {"idle", "down", "offline"}]
           /\ req' \in [Callers -> Request]
           /\ snap' = snap /\ cur' = cur /\ todo' = todo
<1>1. Entrance(r) \in Handling
  BY DEF Entrance, Handling
<1> QED
  BY <1>1 DEF TypeOK, Call

(* The entries prune looks at are entries.                                   *)
LEMMA ScanTypeOK ==
    ASSUME TypeOK, NEW n \in Names, Registered(table, n)
    PROVE  [name |-> n, pid |-> table[n].pid] \in Entry
BY RegisteredRoute DEF TypeOK, Entry

LEMMA InitTypeOK == Init => TypeOK
<1> SUFFICES ASSUME Init
             PROVE  TypeOK
  OBVIOUS
<1>1. EmptyTable \in Table /\ NoCall \in Request
  BY EmptyTableType, CallTypes
<1> QED
  BY <1>1 DEF Init, TypeOK

(* Every step of the daemon process and of the callers keeps the types.      *)
LEMMA OutsideTypeOK ==
    ASSUME TypeOK,
           \/ DaemonStart
           \/ DaemonExit
           \/ \E p \in Pids : RunnerStep(p)
           \/ \E c \in Clients : ClientStep(c)
    PROVE  TypeOK'
<1> USE DEF daemonVars, handlerVars, runnerVars
<1>1. CASE DaemonStart
  BY <1>1, RestoredFacts DEF TypeOK, DaemonStart
<1>2. CASE DaemonExit
  BY <1>2, EmptyTableType, CallTypes DEF TypeOK, DaemonExit, Answered
<1>3. ASSUME NEW p \in Pids, RunnerStep(p)
      PROVE  TypeOK'
  <2>1. ASSUME NEW force \in BOOLEAN, RunnerStart(p, force)
        PROVE  TypeOK'
    <3>1. RegisterCall(RunName[p], p, FALSE, force) \in Request
      BY CallTypes, RunNameAssumption DEF Owner
    <3> QED
      BY <2>1, <3>1, CallTypeOK DEF TypeOK, RunnerStart
  <2>2. CASE AppListens(p)
    BY <2>2 DEF TypeOK, AppListens
  <2>3. CASE AppCloses(p)
    BY <2>3 DEF TypeOK, AppCloses
  <2>4. CASE RunnerExit(p)
    <3>1. DeregisterCall(RunName[p], p) \in Request
      BY CallTypes, RunNameAssumption DEF Owner
    <3> QED
      BY <2>4, <3>1, CallTypeOK DEF TypeOK, RunnerExit
  <2>5. CASE RunnerKilled(p)
    BY <2>5 DEF TypeOK, RunnerKilled
  <2> QED
    BY <1>3, <2>1, <2>2, <2>3, <2>4, <2>5 DEF RunnerStep
<1>4. ASSUME NEW c \in Clients, ClientStep(c)
      PROVE  TypeOK'
  <2>1. CASE ClientCall(c)
    <3>1. \E r \in Request : Call(c, r)
      BY <2>1, CallTypes DEF ClientCall, Owner
    <3> QED
      BY <2>1, <3>1, CallTypeOK DEF TypeOK, ClientCall
  <2>2. CASE OfflineRead(c)
    <3>1. PICK n \in Names :
             \/ snap' = [snap EXCEPT ![c] = Register(file, n, NoPid, TRUE)]
             \/ snap' = [snap EXCEPT ![c] = Remove(file, n, NoPid)]
             \/ snap' = snap
      BY <2>2 DEF OfflineRead
    <3>2. Register(file, n, NoPid, TRUE) \in Table /\ Remove(file, n, NoPid) \in Table
      BY RegisterFacts, RemoveFacts DEF TypeOK, Owner
    <3>3. snap' \in [Callers -> Table]
      <4> DEFINE t == Register(file, n, NoPid, TRUE)
                 u == Remove(file, n, NoPid)
      <4> HIDE DEF t, u
      <4> QED
        BY <3>1, <3>2 DEF TypeOK, t, u
    <3>4. /\ UNCHANGED <<daemonVars, req, cur, todo, runnerVars>>
          /\ \E where \in {"idle", "offline"} : pc' = [pc EXCEPT ![c] = where]
      BY <2>2 DEF OfflineRead
    <3> QED
      BY <3>3, <3>4 DEF TypeOK
  <2>3. CASE OfflineWrite(c)
    BY <2>3, EmptyTableType DEF TypeOK, OfflineWrite
  <2>4. CASE OfflinePing(c)
    BY <2>4 DEF TypeOK, OfflinePing
  <2> QED
    BY <1>4, <2>1, <2>2, <2>3, <2>4 DEF ClientStep
<1> QED
  BY <1>1, <1>2, <1>3, <1>4

(* Every step of a handler keeps the types.                                  *)
LEMMA HandlerTypeOK ==
    ASSUME TypeOK, Positions, NEW c \in Callers, HandlerStep(c)
    PROVE  TypeOK'
<1> USE DEF daemonVars, handlerVars, runnerVars, Goto
<1>0. AfterTakeover(c) \in Handling
  BY DEF AfterTakeover, Handling
<1>1. CASE FindOwner(c)
  <2> DEFINE n == req[c].name
             e == [name |-> n, pid |-> table[n].pid]
  <2>1. n \in Names
    BY <1>1, RequestFields DEF FindOwner, TypeOK, Positions
  <2>2. Registered(table, n) => e \in Entry
    BY <2>1, ScanTypeOK
  <2>3. cur' \in [Callers -> Entry \cup {NoEntry}]
    <3>1. CASE cur' = [cur EXCEPT ![c] = NoEntry]
      BY <3>1 DEF TypeOK
    <3>2. CASE cur' = [cur EXCEPT ![c] = e] /\ Registered(table, n)
      BY <2>2, <3>2 DEF TypeOK
    <3> QED
      BY <1>1, <3>1, <3>2 DEF FindOwner
  <2> QED
    BY <1>1, <2>3 DEF TypeOK, FindOwner, Handling
<1>2. CASE Signal(c)
  BY <1>0, <1>2 DEF TypeOK, Signal, Handling, Alive
<1>3. CASE TargetGone(c)
  BY <1>0, <1>3 DEF TypeOK, TargetGone
<1>4. CASE KillTarget(c)
  BY <1>0, <1>4 DEF TypeOK, KillTarget
<1>5. CASE ApplyRegister(c)
  <2> DEFINE r == req[c]
  <2>1. r.name \in Names /\ r.pid \in Owner /\ r.static \in BOOLEAN
    BY <1>5, RequestFields DEF ApplyRegister, TypeOK
  <2>2. Register(table, r.name, r.pid, r.static) \in Table
    BY <2>1, RegisterFacts DEF TypeOK
  <2> QED
    BY <1>5, <2>2 DEF TypeOK, ApplyRegister, ChangeTable, OwnerOf, Handling, Persisting
<1>6. CASE ApplyDeregister(c)
  <2>1. Remove(table, req[c].name, req[c].pid) \in Table
    BY RemoveFacts DEF TypeOK
  <2> QED
    BY <1>6, <2>1 DEF TypeOK, ApplyDeregister, ChangeTable, OwnerOf, Handling, Persisting
<1>7. CASE ApplyHostname(c)
  <2> DEFINE r == req[c]
  <2>1. r.name \in Names /\ r.host \in Hosts
    BY <1>7, RequestFields DEF ApplyHostname, TypeOK
  <2>2. Registered(table, r.name) =>
           /\ AddHostname(table, r.name, r.host) \in Table
           /\ RemoveHostname(table, r.name, r.host) \in Table
    BY <2>1, HostnameFacts DEF TypeOK
  <2> QED
    BY <1>7, <2>2 DEF TypeOK, ApplyHostname, ChangeTable, Handling, Persisting
<1>8. CASE PruneScan(c)
  BY <1>8, ScanTypeOK DEF TypeOK, PruneScan, Handling
<1>9. CASE PruneNext(c)
  BY <1>9 DEF TypeOK, PruneNext, Handling
<1>10. CASE PruneRemove(c)
  <2>1. Remove(table, cur[c].name, cur[c].pid) \in Table
    BY RemoveFacts DEF TypeOK
  <2> QED
    BY <1>10, <2>1 DEF TypeOK, PruneRemove, ChangeTable, OwnerOf, Handling
<1>11. CASE PruneDone(c)
  BY <1>11 DEF TypeOK, PruneDone, Handling, Persisting
<1>12. CASE List(c)
  BY <1>12 DEF TypeOK, List, Handling, Persisting
<1>13. CASE Write(c)
  BY <1>13 DEF TypeOK, Write, Handling, Persisting
<1>14. CASE WriteFails(c)
  BY <1>14 DEF TypeOK, WriteFails, Handling
<1>15. CASE Sync(c)
  BY <1>15, HostBlockType DEF TypeOK, Sync, Handling
<1>16. CASE Reply(c)
  BY <1>16, EmptyTableType, CallTypes DEF TypeOK, Reply, Answered
<1> QED
  BY <1>1, <1>2, <1>3, <1>4, <1>5, <1>6, <1>7, <1>8, <1>9, <1>10, <1>11, <1>12,
     <1>13, <1>14, <1>15, <1>16
  DEF HandlerStep

-------------------------------------------------------------------------------
(* The structure of calls.                                                   *)

(* Runners and clients are different callers.                                *)
LEMMA CallersDiffer == Pids \cap Clients = {} /\ NoPid \notin Callers
BY ClientAssumption, PidAssumption DEF Owner

(* A handler that only moves on keeps the structure.                         *)
LEMMA MoveStructure ==
    ASSUME TypeOK, Structure, NEW c \in Callers, NEW where \in Handling,
           pc[c] \in Handling,
           pc' = [pc EXCEPT ![c] = where],
           UNCHANGED <<up, epoch, req, proc>>,
           seen' = seen \/ \E p \in Pids : seen' = [seen EXCEPT ![p] = epoch],
           where = "takeover" => req[c].op = "register",
           where \in {"signal", "await"} => req[c].op \in {"register", "prune"},
           where \in {"scan", "prune", "remove"} => req[c].op = "prune"
    PROVE  Structure'
<1>1. Positions'
  BY DEF TypeOK, Structure, Positions, Handling, Persisting
<1>2. OwnRequests'
  BY DEF Structure, OwnRequests
<1>3. RunnerPositions'
  BY DEF TypeOK, Structure, RunnerPositions, Handling, Persisting
<1>4. Sanity'
  <2>1. \A p \in Pids : seen[p] \in Nat /\ epoch \in Nat
    BY DEF TypeOK
  <2> QED
    BY <2>1 DEF TypeOK, Structure, Sanity
<1> QED
  BY <1>1, <1>2, <1>3, <1>4 DEF Structure

LEMMA HandlerStructure ==
    ASSUME TypeOK, Structure, NEW c \in Callers, HandlerStep(c)
    PROVE  Structure'
<1> USE DEF daemonVars, handlerVars, runnerVars, Goto
<1> DEFINE Move(where) ==
        /\ where \in Handling
        /\ pc[c] \in Handling
        /\ pc' = [pc EXCEPT ![c] = where]
        /\ UNCHANGED <<up, epoch, req, proc>>
        /\ seen' = seen \/ \E p \in Pids : seen' = [seen EXCEPT ![p] = epoch]
        /\ where = "takeover" => req[c].op = "register"
        /\ where \in {"signal", "await"} => req[c].op \in {"register", "prune"}
        /\ where \in {"scan", "prune", "remove"} => req[c].op = "prune"
<1>0. ASSUME NEW where, Move(where)
      PROVE  Structure'
  BY <1>0, MoveStructure
<1>a. AfterTakeover(c) \in {"apply", "remove"} /\ (AfterTakeover(c) = "remove" => req[c].op = "prune")
  BY DEF AfterTakeover
<1>b. seen' = [p \in Pids |-> IF p = req[c].pid THEN epoch ELSE seen[p]]
        => seen' = seen \/ \E p \in Pids : seen' = [seen EXCEPT ![p] = epoch]
  <2>1. seen \in [Pids -> Nat]
    BY DEF TypeOK
  <2>2. CASE req[c].pid \in Pids
    BY <2>1, <2>2
  <2>3. CASE req[c].pid \notin Pids
    BY <2>1, <2>3
  <2> QED
    BY <2>2, <2>3
<1>1. CASE FindOwner(c)
  <2>1. Move("signal") \/ Move("apply")
    BY <1>1 DEF FindOwner, Structure, Positions, Handling
  <2> QED
    BY <1>0, <2>1
<1>2. CASE Signal(c)
  <2>1. Move("await") \/ Move(AfterTakeover(c))
    BY <1>2, <1>a DEF Signal, Structure, Positions, Handling
  <2> QED
    BY <1>0, <2>1
<1>3. CASE TargetGone(c)
  <2>1. Move(AfterTakeover(c))
    BY <1>3, <1>a DEF TargetGone, Handling
  <2> QED
    BY <1>0, <2>1
<1>4. CASE KillTarget(c)
  <2>1. /\ AfterTakeover(c) \in Handling
        /\ pc' = [pc EXCEPT ![c] = AfterTakeover(c)]
        /\ pc[c] \in Handling
        /\ UNCHANGED <<up, epoch, req, seen>>
        /\ cur[c].pid \in Pids
        /\ proc' = [proc EXCEPT ![cur[c].pid] = "killed"]
    BY <1>4, <1>a DEF KillTarget, Handling, Alive
  <2>2. Positions'
    BY <1>a, <2>1 DEF TypeOK, Structure, Positions, Handling
  <2>3. RunnerPositions'
    BY <1>a, <2>1 DEF TypeOK, Structure, RunnerPositions, Handling, Persisting
  <2>4. OwnRequests' /\ Sanity'
    BY <2>1 DEF TypeOK, Structure, OwnRequests, Sanity
  <2> QED
    BY <2>2, <2>3, <2>4 DEF Structure
<1>5. CASE ApplyRegister(c)
  <2>1. Move("list") \/ Move("error")
    BY <1>5, <1>b DEF ApplyRegister, ChangeTable, Handling, Persisting
  <2> QED
    BY <1>0, <2>1
<1>6. CASE ApplyDeregister(c)
  <2>1. Move("list")
    BY <1>6, <1>b DEF ApplyDeregister, ChangeTable, Handling, Persisting
  <2> QED
    BY <1>0, <2>1
<1>7. CASE ApplyHostname(c)
  <2>1. Move("list") \/ Move("error")
    BY <1>7 DEF ApplyHostname, ChangeTable, Handling, Persisting
  <2> QED
    BY <1>0, <2>1
<1>8. CASE PruneScan(c)
  <2>1. Move("prune")
    BY <1>8 DEF PruneScan, Structure, Positions, Handling
  <2> QED
    BY <1>0, <2>1
<1>9. CASE PruneNext(c)
  <2>1. UNCHANGED <<pc, up, epoch, req, proc, seen>> \/ Move("signal") \/ Move("remove")
    BY <1>9 DEF PruneNext, Structure, Positions, Handling
  <2>2. CASE UNCHANGED <<pc, up, epoch, req, proc, seen>>
    BY <2>2 DEF Structure, Positions, OwnRequests, RunnerPositions, Sanity
  <2> QED
    BY <1>0, <2>1, <2>2
<1>10. CASE PruneRemove(c)
  <2>1. Move("prune")
    BY <1>10 DEF PruneRemove, ChangeTable, Structure, Positions, Handling
  <2> QED
    BY <1>0, <2>1
<1>11. CASE PruneDone(c)
  <2>1. Move("list")
    BY <1>11 DEF PruneDone, Handling, Persisting
  <2> QED
    BY <1>0, <2>1
<1>12. CASE List(c)
  <2>1. Move("write")
    BY <1>12 DEF List, Handling, Persisting
  <2> QED
    BY <1>0, <2>1
<1>13. CASE Write(c)
  <2>1. Move("sync")
    BY <1>13 DEF Write, Handling, Persisting
  <2> QED
    BY <1>0, <2>1
<1>14. CASE WriteFails(c)
  <2>1. Move("error")
    BY <1>14 DEF WriteFails, Handling, Persisting
  <2> QED
    BY <1>0, <2>1
<1>15. CASE Sync(c)
  <2>1. Move("ok")
    BY <1>15 DEF Sync, Handling, Persisting
  <2> QED
    BY <1>0, <2>1
<1>16. CASE Reply(c)
  <2>1. Positions'
    BY <1>16 DEF Reply, TypeOK, Structure, Positions
  <2>2. OwnRequests'
    BY <1>16 DEF Reply, TypeOK, Structure, OwnRequests, NoCall
  <2>3. RunnerPositions'
    BY <1>16, CallersDiffer DEF Reply, Answered, TypeOK, Structure, RunnerPositions, Handling, Persisting
  <2>4. Sanity'
    BY <1>16 DEF Reply, TypeOK, Structure, Sanity, Handling, Persisting
  <2> QED
    BY <2>1, <2>2, <2>3, <2>4 DEF Structure
<1> QED
  BY <1>1, <1>2, <1>3, <1>4, <1>5, <1>6, <1>7, <1>8, <1>9, <1>10, <1>11, <1>12,
     <1>13, <1>14, <1>15, <1>16
  DEF HandlerStep

(* A caller that makes a call of its own.                                    *)
LEMMA CallStructure ==
    ASSUME TypeOK, Structure, NEW c \in Callers, NEW r \in Request, Call(c, r),
           r.op # "none",
           UNCHANGED <<up, epoch, seen>>,
           c \in Pids => /\ r.op \in {"register", "deregister"}
                         /\ r.pid = c /\ r.name = RunName[c]
                         /\ proc' = [proc EXCEPT ![c] = IF r.op = "register"
                                                        THEN "registering" ELSE "leaving"],
           c \in Clients => /\ r.op \in {"register", "deregister"} => r.pid = NoPid
                            /\ proc' = proc
    PROVE  Structure'
<1>0. Entrance(r) \in {"scan", "takeover", "apply"}
  BY DEF Entrance
<1>1. Positions'
  BY <1>0 DEF Call, Entrance, TypeOK, Structure, Positions
<1>2. OwnRequests'
  BY CallersDiffer DEF Call, TypeOK, Structure, OwnRequests
<1>3. RunnerPositions'
  BY <1>0, CallersDiffer DEF Call, TypeOK, Structure, RunnerPositions, Handling
<1>4. Sanity'
  BY DEF Call, TypeOK, Structure, Sanity
<1> QED
  BY <1>1, <1>2, <1>3, <1>4 DEF Structure

LEMMA OutsideStructure ==
    ASSUME TypeOK, Structure,
           \/ DaemonStart
           \/ DaemonExit
           \/ \E p \in Pids : RunnerStep(p)
           \/ \E c \in Clients : ClientStep(c)
    PROVE  Structure'
<1> USE DEF daemonVars, handlerVars, runnerVars
<1>1. CASE DaemonStart
  <2>1. \A p \in Pids : seen[p] \in Nat /\ epoch \in Nat
    BY DEF TypeOK
  <2> QED
    BY <1>1, <2>1 DEF DaemonStart, Structure, Positions, OwnRequests, RunnerPositions, Sanity
<1>2. CASE DaemonExit
  <2>1. Positions'
    BY <1>2 DEF DaemonExit, InDaemon, TypeOK, Structure, Positions, Handling, Persisting
  <2>2. OwnRequests'
    BY <1>2 DEF DaemonExit, InDaemon, TypeOK, Structure, OwnRequests, NoCall
  <2>3. RunnerPositions'
    BY <1>2 DEF DaemonExit, InDaemon, Answered, TypeOK, Structure, RunnerPositions
  <2>4. Sanity'
    BY <1>2 DEF DaemonExit, InDaemon, TypeOK, Structure, Sanity, Handling, Persisting
  <2> QED
    BY <2>1, <2>2, <2>3, <2>4 DEF Structure
<1>3. ASSUME NEW p \in Pids, RunnerStep(p)
      PROVE  Structure'
  <2>1. ASSUME NEW force \in BOOLEAN, RunnerStart(p, force)
        PROVE  Structure'
    <3> DEFINE r == RegisterCall(RunName[p], p, FALSE, force)
    <3>1. /\ r \in Request /\ r.op = "register" /\ r.pid = p /\ r.name = RunName[p]
          /\ Call(p, r)
          /\ UNCHANGED <<up, epoch, seen>>
          /\ proc' = [proc EXCEPT ![p] = "registering"]
      BY <2>1, CallTypes, RunNameAssumption DEF Owner, RegisterCall, RunnerStart
    <3> HIDE DEF r
    <3> QED
      BY <3>1, CallersDiffer, CallStructure
  <2>2. CASE AppListens(p)
    BY <2>2 DEF AppListens, Structure, Positions, OwnRequests, RunnerPositions, Sanity
  <2>3. CASE AppCloses(p)
    BY <2>3 DEF AppCloses, Structure, Positions, OwnRequests, RunnerPositions, Sanity
  <2>4. CASE RunnerExit(p)
    <3> DEFINE r == DeregisterCall(RunName[p], p)
    <3>1. CASE proc' = [proc EXCEPT ![p] = "leaving"] /\ Call(p, r)
      <4>1. /\ r \in Request /\ r.op = "deregister" /\ r.pid = p /\ r.name = RunName[p]
            /\ Call(p, r)
            /\ UNCHANGED <<up, epoch, seen>>
            /\ proc' = [proc EXCEPT ![p] = "leaving"]
        BY <2>4, <3>1, CallTypes, RunNameAssumption DEF Owner, DeregisterCall, RunnerExit
      <4> HIDE DEF r
      <4> QED
        BY <4>1, CallersDiffer, CallStructure
    <3>2. CASE ~up /\ proc' = [proc EXCEPT ![p] = "exited"] /\ UNCHANGED handlerVars
      BY <2>4, <3>2 DEF RunnerExit, TypeOK, Structure, Positions, OwnRequests, RunnerPositions, Sanity
    <3> QED
      BY <2>4, <3>1, <3>2 DEF RunnerExit
  <2>5. CASE RunnerKilled(p)
    BY <2>5 DEF RunnerKilled, TypeOK, Structure, Positions, OwnRequests, RunnerPositions, Sanity
  <2> QED
    BY <1>3, <2>1, <2>2, <2>3, <2>4, <2>5 DEF RunnerStep
<1>4. ASSUME NEW c \in Clients, ClientStep(c)
      PROVE  Structure'
  <2>1. CASE ClientCall(c)
    <3>1. \E r \in Request : /\ Call(c, r) /\ r.op # "none"
                             /\ r.op \in {"register", "deregister"} => r.pid = NoPid
      <4>1. \A n \in Names, s, f \in BOOLEAN :
               LET r == RegisterCall(n, NoPid, s, f)
               IN  r \in Request /\ r.op = "register" /\ r.pid = NoPid
        BY CallTypes DEF RegisterCall, Owner
      <4>2. \A n \in Names :
               LET r == DeregisterCall(n, NoPid)
               IN  r \in Request /\ r.op = "deregister" /\ r.pid = NoPid
        BY CallTypes DEF DeregisterCall, Owner
      <4>3. \A op \in {"add_hostname", "remove_hostname"}, n \in Names, h \in Hosts :
               HostnameCall(op, n, h) \in Request /\ HostnameCall(op, n, h).op = op
        BY CallTypes DEF HostnameCall
      <4>4. PruneCall \in Request /\ PruneCall.op = "prune"
        BY CallTypes DEF PruneCall
      <4> QED
        BY <2>1, <4>1, <4>2, <4>3, <4>4 DEF ClientCall
    <3> QED
      BY <2>1, <3>1, CallersDiffer, CallStructure DEF ClientCall
  <2>2. CASE OfflineRead(c)
    <3>1. /\ pc[c] = "down" /\ UNCHANGED <<up, epoch, req, proc, seen>>
          /\ \E where \in {"idle", "offline"} : pc' = [pc EXCEPT ![c] = where]
      BY <2>2 DEF OfflineRead
    <3> QED
      BY <3>1, CallersDiffer
      DEF TypeOK, Structure, Positions, OwnRequests, RunnerPositions, Sanity, Handling, Persisting
  <2>3. CASE OfflineWrite(c)
    BY <2>3, CallersDiffer
    DEF OfflineWrite, TypeOK, Structure, Positions, OwnRequests, RunnerPositions, Sanity, Handling, Persisting
  <2>4. CASE OfflinePing(c)
    BY <2>4, CallersDiffer
    DEF OfflinePing, TypeOK, Structure, Positions, OwnRequests, RunnerPositions, Sanity, Handling, Persisting
  <2> QED
    BY <1>4, <2>1, <2>2, <2>3, <2>4 DEF ClientStep
<1> QED
  BY <1>1, <1>2, <1>3, <1>4

(* The types and the structure of calls are one inductive invariant.         *)
LEMMA Base == Spec => [](TypeOK /\ Structure)
<1>1. Init => TypeOK /\ Structure
  <2> SUFFICES ASSUME Init
               PROVE  Structure
    BY InitTypeOK
  <2> QED
    BY DEF Init, Structure, Positions, OwnRequests, RunnerPositions, Sanity, NoCall, Handling, Persisting
<1>2. TypeOK /\ Structure /\ [Next]_vars => TypeOK' /\ Structure'
  <2> SUFFICES ASSUME TypeOK, Structure, [Next]_vars
               PROVE  TypeOK' /\ Structure'
    OBVIOUS
  <2>1. Positions
    BY DEF Structure
  <2>2. CASE UNCHANGED vars
    <3>1. TypeOK'
      BY <2>2 DEF TypeOK, vars, daemonVars, handlerVars, runnerVars, Alive
    <3> QED
      BY <2>2, <3>1
      DEF vars, daemonVars, handlerVars, runnerVars, Structure, Positions, OwnRequests, RunnerPositions, Sanity
  <2>3. CASE Next
    BY <2>1, <2>3, HandlerTypeOK, OutsideTypeOK, HandlerStructure, OutsideStructure DEF Next
  <2> QED
    BY <2>2, <2>3
<1> QED
  BY <1>1, <1>2, PTL DEF Spec

(* TypeOK, for every instance: what the control server stores and what its   *)
(* clients send keeps its shape.                                             *)
THEOREM TypeCorrect == Spec => []TypeOK
BY Base, PTL

-------------------------------------------------------------------------------
(* A live runner's route.                                                    *)

(* A runner has its route from the moment its register call is applied: the  *)
(* property extended to the time in which the answer is still under way.     *)
Granted(p) ==
    \/ up /\ proc[p] = "serving" /\ seen[p] = epoch
    \/ proc[p] = "registering" /\ pc[p] \in Persisting \cup {"ok"}

Ownership ==
    \A p \in Pids :
        Granted(p) /\ p \notin released => OwnedBy(table, RunName[p], p)

(* A step that changes no route keeps Ownership, if it grants none.          *)
LEMMA KeepOwnership ==
    ASSUME Ownership, table' = table, released \subseteq released',
           \A p \in Pids : Granted(p)' => Granted(p)
    PROVE  Ownership'
BY DEF Ownership, OwnedBy, Registered

LEMMA HandlerOwnership ==
    ASSUME TypeOK, Structure, Ownership, NEW c \in Callers, HandlerStep(c)
    PROVE  Ownership'
<1> USE DEF daemonVars, handlerVars, runnerVars, Goto
<1>0. /\ \A p \in Pids : RunName[p] \in Names
      /\ \A p \in Pids : seen[p] \in Nat /\ epoch \in Nat
  BY RunNameAssumption DEF TypeOK
<1>1. CASE FindOwner(c)
  BY <1>1, KeepOwnership DEF FindOwner, TypeOK, Structure, RunnerPositions, Granted, Persisting
<1>2. CASE Signal(c)
  BY <1>2, KeepOwnership DEF Signal, AfterTakeover, TypeOK, Granted, Persisting
<1>3. CASE TargetGone(c)
  BY <1>3, KeepOwnership DEF TargetGone, AfterTakeover, TypeOK, Granted, Persisting
<1>4. CASE KillTarget(c)
  BY <1>4, KeepOwnership DEF KillTarget, AfterTakeover, TypeOK, Granted, Persisting
<1>5. CASE ApplyRegister(c)
  <2> DEFINE r == req[c]
  <2>1. /\ r.name \in Names /\ r.pid \in Owner /\ r.static \in BOOLEAN
        /\ r.op = "register"
    BY <1>5, RequestFields DEF ApplyRegister, TypeOK
  <2>2. CASE ~CanRegister(table, r.name, r.force, Alive)
    BY <1>5, <2>2, KeepOwnership DEF ApplyRegister, TypeOK, Granted, Persisting
  <2>3. CASE CanRegister(table, r.name, r.force, Alive)
    <3>1. /\ table' = Register(table, r.name, r.pid, r.static)
          /\ seen' = [p \in Pids |-> IF p = r.pid THEN epoch ELSE seen[p]]
          /\ released' = IF r.force THEN released \cup (OwnerOf(r.name) \ {r.pid})
                                    ELSE released
          /\ pc' = [pc EXCEPT ![c] = "list"]
          /\ UNCHANGED <<up, epoch, proc>>
      BY <1>5, <2>3 DEF ApplyRegister, ChangeTable
    <3>2. /\ OwnedBy(table', r.name, r.pid)
          /\ \A m \in Names \ {r.name} : table'[m] = table[m]
      BY <2>1, <3>1, RegisterFacts DEF TypeOK
    <3> SUFFICES ASSUME NEW p \in Pids, Granted(p)', p \notin released'
                 PROVE  OwnedBy(table', RunName[p], p)
      BY DEF Ownership, OwnedBy, Registered
    <3>3. CASE c = p
      BY <2>1, <3>2, <3>3 DEF Structure, OwnRequests
    <3>4. CASE c # p
      <4>1. r.pid # p
        BY <2>1, <3>4, PidAssumption DEF Structure, OwnRequests
      <4>2. Granted(p) /\ p \notin released
        BY <3>1, <3>4, <4>1 DEF Granted, TypeOK
      <4>3. OwnedBy(table, RunName[p], p) /\ p \in Alive
        BY <4>2 DEF Ownership, Granted, Alive
      <4>4. r.name # RunName[p]
        <5>1. CASE r.force
          BY <3>1, <4>1, <4>3, <5>1 DEF OwnerOf, OwnedBy
        <5>2. CASE ~r.force
          BY <2>3, <4>3, <5>2 DEF CanRegister, OwnedBy
        <5> QED
          BY <5>1, <5>2
      <4> QED
        BY <1>0, <3>2, <4>3, <4>4 DEF OwnedBy, Registered
    <3> QED
      BY <3>3, <3>4
  <2> QED
    BY <2>2, <2>3
<1>6. CASE ApplyDeregister(c)
  <2> DEFINE r == req[c]
  <2>1. /\ r.name \in Names /\ r.pid \in Owner /\ r.op = "deregister"
    BY <1>6, RequestFields DEF ApplyDeregister, TypeOK
  <2>2. /\ table' = Remove(table, r.name, r.pid)
        /\ seen' = [p \in Pids |-> IF p = r.pid THEN epoch ELSE seen[p]]
        /\ released' = IF r.pid = NoPid THEN released \cup OwnerOf(r.name) ELSE released
        /\ pc' = [pc EXCEPT ![c] = "list"]
        /\ pc[c] = "apply"
        /\ UNCHANGED <<up, epoch, proc>>
    BY <1>6 DEF ApplyDeregister, ChangeTable
  <2> SUFFICES ASSUME NEW p \in Pids, Granted(p)', p \notin released'
               PROVE  OwnedBy(table', RunName[p], p)
    BY DEF Ownership, OwnedBy, Registered
  <2>3. c # p
    BY <2>1, <2>2 DEF Granted, TypeOK, Structure, RunnerPositions
  <2>4. r.pid # p
    BY <2>1, <2>3, PidAssumption DEF Structure, OwnRequests
  <2>5. Granted(p) /\ p \notin released
    BY <2>2, <2>3, <2>4 DEF Granted, TypeOK
  <2>6. OwnedBy(table, RunName[p], p)
    BY <2>5 DEF Ownership
  <2>7. ~(r.name = RunName[p] /\ CanRemove(table, r.name, r.pid))
    BY <2>2, <2>4, <2>6 DEF CanRemove, OwnerOf, OwnedBy
  <2>8. table'[RunName[p]] = table[RunName[p]]
    BY <1>0, <2>2, <2>7, RemoveFacts DEF TypeOK
  <2> QED
    BY <2>6, <2>8 DEF OwnedBy, Registered
<1>7. CASE ApplyHostname(c)
  <2> DEFINE r == req[c]
  <2>1. r.name \in Names /\ r.host \in Hosts
    BY <1>7, RequestFields DEF ApplyHostname, TypeOK
  <2>2. \A p \in Pids, n \in Names : OwnedBy(table, n, p) => OwnedBy(table', n, p)
    <3>1. CASE Registered(table, r.name)
      <4>1. table' \in {AddHostname(table, r.name, r.host),
                        RemoveHostname(table, r.name, r.host)}
        BY <1>7, <3>1 DEF ApplyHostname, ChangeTable
      <4> QED
        BY <2>1, <3>1, <4>1, HostnameFacts DEF TypeOK, OwnedBy
    <3>2. CASE ~Registered(table, r.name)
      BY <1>7, <3>2 DEF ApplyHostname
    <3> QED
      BY <3>1, <3>2
  <2>3. \A p \in Pids : p # c
    BY <1>7 DEF ApplyHostname, Structure, OwnRequests
  <2>4. \A p \in Pids : Granted(p)' => Granted(p)
    BY <1>7, <2>3 DEF ApplyHostname, ChangeTable, TypeOK, Granted
  <2>5. released' = released
    BY <1>7 DEF ApplyHostname
  <2> QED
    BY <1>0, <2>2, <2>4, <2>5 DEF Ownership, OwnedBy, Registered
<1>8. CASE PruneScan(c)
  BY <1>8, KeepOwnership DEF PruneScan, TypeOK, Granted, Persisting
<1>9. CASE PruneNext(c)
  BY <1>9, KeepOwnership DEF PruneNext, TypeOK, Granted, Persisting
<1>10. CASE PruneRemove(c)
  <2> DEFINE e == cur[c]
  <2>1. /\ table' = Remove(table, e.name, e.pid)
        /\ released' = IF CanRemove(table, e.name, e.pid)
                       THEN released \cup OwnerOf(e.name) ELSE released
        /\ pc' = [pc EXCEPT ![c] = "prune"]
        /\ UNCHANGED <<up, epoch, proc, seen>>
    BY <1>10 DEF PruneRemove, ChangeTable
  <2> SUFFICES ASSUME NEW p \in Pids, Granted(p)', p \notin released'
               PROVE  OwnedBy(table', RunName[p], p)
    BY DEF Ownership, OwnedBy, Registered
  <2>2. Granted(p) /\ p \notin released
    BY <2>1 DEF Granted, TypeOK, Persisting
  <2>3. OwnedBy(table, RunName[p], p)
    BY <2>2 DEF Ownership
  <2>4. ~(e.name = RunName[p] /\ CanRemove(table, e.name, e.pid))
    BY <2>1, <2>3 DEF OwnerOf, OwnedBy
  <2>5. table'[RunName[p]] = table[RunName[p]]
    BY <1>0, <2>1, <2>4, RemoveFacts DEF TypeOK
  <2> QED
    BY <2>3, <2>5 DEF OwnedBy, Registered
<1>11. CASE PruneDone(c)
  <2>1. \A p \in Pids : p # c
    BY <1>11 DEF PruneDone, Structure, Positions, OwnRequests
  <2> QED
    BY <1>11, <2>1, KeepOwnership DEF PruneDone, TypeOK, Granted
<1>12. CASE List(c)
  BY <1>12, KeepOwnership DEF List, TypeOK, Granted, Persisting
<1>13. CASE Write(c)
  BY <1>13, KeepOwnership DEF Write, TypeOK, Granted, Persisting
<1>14. CASE WriteFails(c)
  BY <1>14, KeepOwnership DEF WriteFails, TypeOK, Granted, Persisting
<1>15. CASE Sync(c)
  BY <1>15, KeepOwnership DEF Sync, TypeOK, Granted, Persisting
<1>16. CASE Reply(c)
  BY <1>16, KeepOwnership DEF Reply, Answered, TypeOK, Granted, Persisting, Structure, Sanity
<1> QED
  BY <1>1, <1>2, <1>3, <1>4, <1>5, <1>6, <1>7, <1>8, <1>9, <1>10, <1>11, <1>12,
     <1>13, <1>14, <1>15, <1>16
  DEF HandlerStep

LEMMA OutsideOwnership ==
    ASSUME TypeOK, Structure, Ownership,
           \/ DaemonStart
           \/ DaemonExit
           \/ \E p \in Pids : RunnerStep(p)
           \/ \E c \in Clients : ClientStep(c)
    PROVE  Ownership'
<1> USE DEF daemonVars, handlerVars, runnerVars
<1>1. CASE DaemonStart
  <2>1. \A p \in Pids : ~Granted(p)'
    <3>1. \A p \in Pids : seen[p] \in Nat /\ epoch \in Nat /\ seen[p] <= epoch
      BY DEF TypeOK, Structure, Sanity
    <3> QED
      BY <1>1, <3>1 DEF DaemonStart, Granted, Structure, Sanity, RunnerPositions
  <2> QED
    BY <2>1 DEF Ownership
<1>2. CASE DaemonExit
  <2>1. \A p \in Pids : ~Granted(p)'
    BY <1>2 DEF DaemonExit, InDaemon, Answered, TypeOK, Granted
  <2> QED
    BY <2>1 DEF Ownership
<1>3. ASSUME NEW p \in Pids, RunnerStep(p)
      PROVE  Ownership'
  <2>1. ASSUME NEW force \in BOOLEAN, RunnerStart(p, force)
        PROVE  Ownership'
    BY <2>1, KeepOwnership
    DEF RunnerStart, Call, Entrance, RegisterCall, TypeOK, Granted, Persisting
  <2>2. CASE AppListens(p)
    BY <2>2, KeepOwnership DEF AppListens, Granted
  <2>3. CASE AppCloses(p)
    BY <2>3, KeepOwnership DEF AppCloses, Granted
  <2>4. CASE RunnerExit(p)
    BY <2>4, KeepOwnership DEF RunnerExit, Call, TypeOK, Granted
  <2>5. CASE RunnerKilled(p)
    BY <2>5, KeepOwnership DEF RunnerKilled, TypeOK, Granted
  <2> QED
    BY <1>3, <2>1, <2>2, <2>3, <2>4, <2>5 DEF RunnerStep
<1>4. ASSUME NEW c \in Clients, ClientStep(c)
      PROVE  Ownership'
  <2>1. CASE ClientCall(c)
    <3>1. \A p \in Pids : pc'[p] = pc[p]
      BY <2>1, CallersDiffer DEF ClientCall, Call, TypeOK
    <3> QED
      BY <2>1, <3>1, KeepOwnership DEF ClientCall, Granted
  <2>2. CASE OfflineRead(c)
    BY <2>2, CallersDiffer, KeepOwnership DEF OfflineRead, TypeOK, Granted
  <2>3. CASE OfflineWrite(c)
    BY <2>3, CallersDiffer, KeepOwnership DEF OfflineWrite, TypeOK, Granted
  <2>4. CASE OfflinePing(c)
    BY <2>4, CallersDiffer, KeepOwnership DEF OfflinePing, TypeOK, Granted
  <2> QED
    BY <1>4, <2>1, <2>2, <2>3, <2>4 DEF ClientStep
<1> QED
  BY <1>1, <1>2, <1>3, <1>4

(* ServingOwnsRoute, for any number of runners and clients and any order of  *)
(* their calls: no late deregister, no unforced register and no hostname     *)
(* call takes the route of a runner whose command runs.                      *)
THEOREM ServingRunnersKeepTheirRoutes == Spec => []ServingOwnsRoute
<1>1. Init => Ownership
  BY DEF Init, Ownership, Granted, Persisting
<1>2. TypeOK /\ Structure /\ Ownership /\ [Next]_vars => Ownership'
  <2> SUFFICES ASSUME TypeOK, Structure, Ownership, [Next]_vars
               PROVE  Ownership'
    OBVIOUS
  <2>1. CASE UNCHANGED vars
    BY <2>1, KeepOwnership DEF vars, daemonVars, handlerVars, runnerVars, Granted
  <2>2. CASE Next
    BY <2>2, HandlerOwnership, OutsideOwnership DEF Next
  <2> QED
    BY <2>1, <2>2
<1>3. Ownership => ServingOwnsRoute
  BY DEF Ownership, ServingOwnsRoute, Granted
<1> QED
  BY <1>1, <1>2, <1>3, Base, PTL DEF Spec

-------------------------------------------------------------------------------
(* The route of a runner that ended.                                         *)

(* A runner's PID is found under its own name only, in the table and in      *)
(* every copy of it.                                                         *)
OwnNames(t) ==
    \A n \in Names : Registered(t, n) /\ t[n].pid \in Pids => RunName[t[n].pid] = n

NoRouteOf(p) == \A n \in Names : ~OwnedBy(table, n, p)

Departure ==
    /\ OwnNames(table) /\ OwnNames(file)
    /\ \A c \in Callers : OwnNames(snap[c])
    /\ \A p \in Pids :
          \/ proc[p] = "leaving" /\ pc[p] \in Persisting \cup {"ok", "error"}
          \/ up /\ proc[p] = "exited" /\ seen[p] = epoch
          => NoRouteOf(p)

(* A step keeps Departure if the tables it leaves have no owner the ones     *)
(* before had not, and if it makes no runner depart.                         *)
Departed(p) ==
    \/ proc[p] = "leaving" /\ pc[p] \in Persisting \cup {"ok", "error"}
    \/ up /\ proc[p] = "exited" /\ seen[p] = epoch

LEMMA KeepDeparture ==
    ASSUME Departure,
           \A p \in Pids, n \in Names : OwnedBy(table', n, p) => OwnedBy(table, n, p),
           OwnNames(file'), \A c \in Callers : OwnNames(snap'[c]),
           \A p \in Pids : Departed(p)' => Departed(p)
    PROVE  Departure'
<1>1. OwnNames(table')
  BY DEF Departure, OwnNames, OwnedBy
<1>2. \A p \in Pids : Departed(p)' => NoRouteOf(p)'
  BY DEF Departure, Departed, NoRouteOf
<1> QED
  BY <1>1, <1>2 DEF Departure, Departed

LEMMA HandlerDeparture ==
    ASSUME TypeOK, Structure, Departure, NEW c \in Callers, HandlerStep(c)
    PROVE  Departure'
<1> USE DEF daemonVars, handlerVars, runnerVars, Goto
<1>0. /\ OwnNames(file) /\ OwnNames(table) /\ \A d \in Callers : OwnNames(snap[d])
      /\ OwnNames(EmptyTable)
  BY DEF Departure, OwnNames, EmptyTable, Registered
<1>1. CASE FindOwner(c)
  BY <1>0, <1>1, KeepDeparture DEF FindOwner, TypeOK, Departed, Persisting
<1>2. CASE Signal(c)
  BY <1>0, <1>2, KeepDeparture DEF Signal, AfterTakeover, TypeOK, Departed, Persisting
<1>3. CASE TargetGone(c)
  BY <1>0, <1>3, KeepDeparture DEF TargetGone, AfterTakeover, TypeOK, Departed, Persisting
<1>4. CASE KillTarget(c)
  BY <1>0, <1>4, KeepDeparture DEF KillTarget, AfterTakeover, TypeOK, Departed, Persisting
<1>5. CASE ApplyRegister(c)
  <2> DEFINE r == req[c]
  <2>1. /\ r.name \in Names /\ r.pid \in Owner /\ r.static \in BOOLEAN
        /\ r.op = "register" /\ pc[c] = "apply"
    BY <1>5, RequestFields DEF ApplyRegister, TypeOK
  <2>2. \A p \in Pids : p = c => proc[p] \notin {"leaving", "exited"}
    BY <2>1 DEF Structure, RunnerPositions
  <2>3. CASE ~CanRegister(table, r.name, r.force, Alive)
    BY <1>0, <1>5, <2>2, <2>3, KeepDeparture DEF ApplyRegister, TypeOK, Departed
  <2>4. CASE CanRegister(table, r.name, r.force, Alive)
    <3>1. /\ table' = Register(table, r.name, r.pid, r.static)
          /\ seen' = [p \in Pids |-> IF p = r.pid THEN epoch ELSE seen[p]]
          /\ pc' = [pc EXCEPT ![c] = "list"]
          /\ UNCHANGED <<up, epoch, proc, file, snap>>
      BY <1>5, <2>4 DEF ApplyRegister, ChangeTable
    <3>2. /\ table'[r.name].pid = r.pid
          /\ \A m \in Names \ {r.name} : table'[m] = table[m]
      BY <2>1, <3>1, RegisterFacts DEF TypeOK, OwnedBy
    <3>3. r.pid \in Pids => r.pid = c /\ r.name = RunName[r.pid]
      BY <2>1, PidAssumption DEF Structure, OwnRequests
    <3>4. OwnNames(table')
      BY <1>0, <3>2, <3>3 DEF OwnNames, Registered
    <3>5. ASSUME NEW p \in Pids, Departed(p)'
          PROVE  NoRouteOf(p)'
      <4>1. p # c
        BY <2>2, <3>1, <3>5 DEF Departed
      <4>2. r.pid # p
        BY <3>3, <4>1
      <4>3. Departed(p)
        BY <3>1, <3>5, <4>1, <4>2 DEF Departed, TypeOK
      <4>4. NoRouteOf(p)
        BY <4>3 DEF Departure, Departed
      <4> QED
        BY <3>2, <4>2, <4>4 DEF NoRouteOf, OwnedBy, Registered
    <3> QED
      BY <1>0, <3>1, <3>4, <3>5 DEF Departure, Departed
  <2> QED
    BY <2>3, <2>4
<1>6. CASE ApplyDeregister(c)
  <2> DEFINE r == req[c]
  <2>1. /\ r.name \in Names /\ r.pid \in Owner /\ r.op = "deregister"
    BY <1>6, RequestFields DEF ApplyDeregister, TypeOK
  <2>2. /\ table' = Remove(table, r.name, r.pid)
        /\ seen' = [p \in Pids |-> IF p = r.pid THEN epoch ELSE seen[p]]
        /\ pc' = [pc EXCEPT ![c] = "list"]
        /\ UNCHANGED <<up, epoch, proc, file, snap>>
    BY <1>6 DEF ApplyDeregister, ChangeTable
  <2>3. \A n \in Names : Registered(table', n) => table'[n] = table[n] /\ Registered(table, n)
    BY <2>2, RemoveFacts DEF TypeOK, Registered
  <2>4. OwnNames(table')
    BY <1>0, <2>3 DEF OwnNames
  <2>5. ASSUME NEW p \in Pids, Departed(p)'
        PROVE  NoRouteOf(p)'
    <3>1. CASE p = c
      <4>1. r.pid = p /\ r.name = RunName[p]
        BY <2>1, <3>1 DEF Structure, OwnRequests
      <4>2. \A n \in Names : OwnedBy(table, n, p) => n = r.name /\ CanRemove(table, n, p)
        BY <1>0, <4>1 DEF OwnNames, OwnedBy, CanRemove
      <4>3. ~OwnedBy(table', r.name, p)
        <5>1. CASE OwnedBy(table, r.name, p)
          BY <2>1, <2>2, <4>1, <4>2, <5>1, RemoveFacts DEF TypeOK, OwnedBy
        <5>2. CASE ~OwnedBy(table, r.name, p)
          BY <2>1, <2>3, <5>2 DEF OwnedBy
        <5> QED
          BY <5>1, <5>2
      <4> QED
        BY <2>3, <4>2, <4>3 DEF NoRouteOf, OwnedBy
    <3>2. CASE p # c
      <4>1. r.pid # p
        BY <2>1, <3>2, PidAssumption DEF Structure, OwnRequests
      <4>2. Departed(p)
        BY <2>2, <2>5, <3>2, <4>1 DEF Departed, TypeOK
      <4>3. NoRouteOf(p)
        BY <4>2 DEF Departure, Departed
      <4> QED
        BY <2>3, <4>3 DEF NoRouteOf, OwnedBy
    <3> QED
      BY <3>1, <3>2
  <2> QED
    BY <1>0, <2>2, <2>4, <2>5 DEF Departure, Departed
<1>7. CASE ApplyHostname(c)
  <2> DEFINE r == req[c]
  <2>1. r.name \in Names /\ r.host \in Hosts
    BY <1>7, RequestFields DEF ApplyHostname, TypeOK
  <2>2. \A p \in Pids, n \in Names : OwnedBy(table', n, p) => OwnedBy(table, n, p)
    <3>1. CASE Registered(table, r.name)
      <4>1. table' \in {AddHostname(table, r.name, r.host),
                        RemoveHostname(table, r.name, r.host)}
        BY <1>7, <3>1 DEF ApplyHostname, ChangeTable
      <4> QED
        BY <2>1, <3>1, <4>1, HostnameFacts DEF TypeOK, OwnedBy
    <3>2. CASE ~Registered(table, r.name)
      BY <1>7, <3>2 DEF ApplyHostname
    <3> QED
      BY <3>1, <3>2
  <2>3. \A p \in Pids : p # c
    BY <1>7 DEF ApplyHostname, Structure, OwnRequests
  <2>4. /\ \A p \in Pids : Departed(p)' => Departed(p)
        /\ file' = file /\ snap' = snap
    BY <1>7, <2>3 DEF ApplyHostname, ChangeTable, TypeOK, Departed
  <2> QED
    BY <1>0, <2>2, <2>4, KeepDeparture
<1>8. CASE PruneScan(c)
  BY <1>0, <1>8, KeepDeparture DEF PruneScan, TypeOK, Departed, Persisting
<1>9. CASE PruneNext(c)
  BY <1>0, <1>9, KeepDeparture DEF PruneNext, TypeOK, Departed, Persisting
<1>10. CASE PruneRemove(c)
  <2>1. table' = Remove(table, cur[c].name, cur[c].pid)
    BY <1>10 DEF PruneRemove, ChangeTable
  <2>2. \A p \in Pids, n \in Names : OwnedBy(table', n, p) => OwnedBy(table, n, p)
    BY <2>1, RemoveFacts DEF TypeOK, OwnedBy, Registered
  <2>3. /\ \A p \in Pids : Departed(p)' => Departed(p)
        /\ file' = file /\ snap' = snap
    BY <1>10 DEF PruneRemove, ChangeTable, TypeOK, Departed, Persisting
  <2> QED
    BY <1>0, <2>2, <2>3, KeepDeparture
<1>11. CASE PruneDone(c)
  <2>1. \A p \in Pids : p # c
    BY <1>11 DEF PruneDone, Structure, Positions, OwnRequests
  <2> QED
    BY <1>0, <1>11, <2>1, KeepDeparture DEF PruneDone, TypeOK, Departed
<1>12. CASE List(c)
  <2>1. \A d \in Callers : OwnNames(snap'[d])
    BY <1>0, <1>12 DEF List, TypeOK
  <2> QED
    BY <1>0, <1>12, <2>1, KeepDeparture DEF List, TypeOK, Departed, Persisting
<1>13. CASE Write(c)
  BY <1>0, <1>13, KeepDeparture DEF Write, TypeOK, Departed, Persisting
<1>14. CASE WriteFails(c)
  BY <1>0, <1>14, KeepDeparture DEF WriteFails, TypeOK, Departed, Persisting
<1>15. CASE Sync(c)
  BY <1>0, <1>15, KeepDeparture DEF Sync, TypeOK, Departed, Persisting
<1>16. CASE Reply(c)
  <2>1. \A d \in Callers : OwnNames(snap'[d])
    BY <1>0, <1>16 DEF Reply, TypeOK
  <2>2. \A p \in Pids : Departed(p)' => Departed(p)
    BY <1>16 DEF Reply, Answered, TypeOK, Departed
  <2> QED
    BY <1>0, <1>16, <2>1, <2>2, KeepDeparture DEF Reply
<1> QED
  BY <1>1, <1>2, <1>3, <1>4, <1>5, <1>6, <1>7, <1>8, <1>9, <1>10, <1>11, <1>12,
     <1>13, <1>14, <1>15, <1>16
  DEF HandlerStep

LEMMA OutsideDeparture ==
    ASSUME TypeOK, Structure, Departure,
           \/ DaemonStart
           \/ DaemonExit
           \/ \E p \in Pids : RunnerStep(p)
           \/ \E c \in Clients : ClientStep(c)
    PROVE  Departure'
<1> USE DEF daemonVars, handlerVars, runnerVars
<1>0. /\ OwnNames(file) /\ OwnNames(table) /\ \A d \in Callers : OwnNames(snap[d])
      /\ OwnNames(EmptyTable)
  BY DEF Departure, OwnNames, EmptyTable, Registered
<1>1. CASE DaemonStart
  <2>1. \A p \in Pids : ~Departed(p)'
    <3>1. \A p \in Pids : seen[p] \in Nat /\ epoch \in Nat /\ seen[p] <= epoch
      BY DEF TypeOK, Structure, Sanity
    <3> QED
      BY <1>1, <3>1 DEF DaemonStart, Departed, Structure, Sanity, RunnerPositions
  <2>2. OwnNames(table')
    BY <1>0, <1>1, RestoredFacts DEF DaemonStart, TypeOK, OwnNames
  <2> QED
    BY <1>0, <1>1, <2>1, <2>2 DEF DaemonStart, Departure, Departed
<1>2. CASE DaemonExit
  <2>1. \A p \in Pids : ~Departed(p)'
    BY <1>2 DEF DaemonExit, InDaemon, Answered, TypeOK, Departed
  <2>2. \A d \in Callers : OwnNames(snap'[d])
    BY <1>0, <1>2 DEF DaemonExit
  <2> QED
    BY <1>0, <1>2, <2>1, <2>2 DEF DaemonExit, Departure, Departed
<1>3. ASSUME NEW p \in Pids, RunnerStep(p)
      PROVE  Departure'
  <2>1. ASSUME NEW force \in BOOLEAN, RunnerStart(p, force)
        PROVE  Departure'
    BY <1>0, <2>1, KeepDeparture DEF RunnerStart, Call, TypeOK, Departed
  <2>2. CASE AppListens(p)
    BY <1>0, <2>2, KeepDeparture DEF AppListens, Departed
  <2>3. CASE AppCloses(p)
    BY <1>0, <2>3, KeepDeparture DEF AppCloses, Departed
  <2>4. CASE RunnerExit(p)
    <3>1. \A q \in Pids : Departed(q)' => Departed(q)
      BY <2>4 DEF RunnerExit, Call, Entrance, DeregisterCall, TypeOK, Departed, Persisting
    <3> QED
      BY <1>0, <2>4, <3>1, KeepDeparture DEF RunnerExit, Call
  <2>5. CASE RunnerKilled(p)
    BY <1>0, <2>5, KeepDeparture DEF RunnerKilled, TypeOK, Departed
  <2> QED
    BY <1>3, <2>1, <2>2, <2>3, <2>4, <2>5 DEF RunnerStep
<1>4. ASSUME NEW c \in Clients, ClientStep(c)
      PROVE  Departure'
  <2>1. CASE ClientCall(c)
    <3>1. (\A p \in Pids : pc'[p] = pc[p]) /\ snap' = snap
      BY <2>1, CallersDiffer DEF ClientCall, Call, TypeOK
    <3> QED
      BY <1>0, <2>1, <3>1, KeepDeparture DEF ClientCall, Departed
  <2>2. CASE OfflineRead(c)
    <3>1. PICK n \in Names :
             \/ snap' = [snap EXCEPT ![c] = Register(file, n, NoPid, TRUE)]
             \/ snap' = [snap EXCEPT ![c] = Remove(file, n, NoPid)]
             \/ snap' = snap
      BY <2>2 DEF OfflineRead
    <3>2. OwnNames(Register(file, n, NoPid, TRUE))
      <4> DEFINE t == Register(file, n, NoPid, TRUE)
      <4>1. file \in Table /\ NoPid \in Owner
        BY DEF TypeOK, Owner
      <4>2. \A m \in Names \ {n} : t[m] = file[m]
        BY <4>1, RegisterFacts
      <4>3. OwnedBy(t, n, NoPid)
        BY <4>1, RegisterFacts, Zenon
      <4>4. ASSUME NEW m \in Names, Registered(t, m), t[m].pid \in Pids
            PROVE  RunName[t[m].pid] = m
        <5>1. m # n
          BY <4>3, <4>4, PidAssumption DEF OwnedBy
        <5> HIDE DEF t
        <5> QED
          BY <1>0, <4>2, <4>4, <5>1 DEF OwnNames, Registered
      <4> QED
        BY <4>4 DEF OwnNames
    <3>3. OwnNames(Remove(file, n, NoPid))
      BY <1>0, RemoveFacts DEF TypeOK, OwnNames, Registered
    <3>4. \A d \in Callers : OwnNames(snap'[d])
      BY <1>0, <3>1, <3>2, <3>3 DEF TypeOK
    <3>5. \A p \in Pids : pc'[p] = pc[p]
      BY <2>2, CallersDiffer DEF OfflineRead, TypeOK
    <3> QED
      BY <1>0, <2>2, <3>4, <3>5, KeepDeparture DEF OfflineRead, Departed
  <2>3. CASE OfflineWrite(c)
    <3>1. OwnNames(file') /\ \A d \in Callers : OwnNames(snap'[d])
      BY <1>0, <2>3 DEF OfflineWrite, TypeOK
    <3>2. \A p \in Pids : pc'[p] = pc[p]
      BY <2>3, CallersDiffer DEF OfflineWrite, TypeOK
    <3> QED
      BY <1>0, <2>3, <3>1, <3>2, KeepDeparture DEF OfflineWrite, Departed
  <2>4. CASE OfflinePing(c)
    <3>1. \A p \in Pids : pc'[p] = pc[p]
      BY <2>4, CallersDiffer DEF OfflinePing, TypeOK
    <3> QED
      BY <1>0, <2>4, <3>1, KeepDeparture DEF OfflinePing, Departed
  <2> QED
    BY <1>4, <2>1, <2>2, <2>3, <2>4 DEF ClientStep
<1> QED
  BY <1>1, <1>2, <1>3, <1>4

(* ExitedLeavesNoRoute, for any number of runners: once the daemon has       *)
(* handled a runner's deregister it never gets that runner's route back,     *)
(* neither from a call still under way nor from a copy.                      *)
THEOREM ExitedRunnersLeaveNoRoute == Spec => []ExitedLeavesNoRoute
<1>1. Init => Departure
  BY DEF Init, Departure, OwnNames, EmptyTable, Registered, NoRouteOf, OwnedBy
<1>2. TypeOK /\ Structure /\ Departure /\ [Next]_vars => Departure'
  <2> SUFFICES ASSUME TypeOK, Structure, Departure, [Next]_vars
               PROVE  Departure'
    OBVIOUS
  <2>1. CASE UNCHANGED vars
    BY <2>1, KeepDeparture
    DEF vars, daemonVars, handlerVars, runnerVars, Departure, Departed, OwnNames, Registered, NoRouteOf, OwnedBy
  <2>2. CASE Next
    BY <2>2, HandlerDeparture, OutsideDeparture DEF Next
  <2> QED
    BY <2>1, <2>2
<1>3. Departure => ExitedLeavesNoRoute
  BY DEF Departure, ExitedLeavesNoRoute, NoRouteOf
<1> QED
  BY <1>1, <1>2, <1>3, Base, PTL DEF Spec

-------------------------------------------------------------------------------
(* What is saved.                                                            *)

(* While the store is not torn, every copy a handler holds is the table, and *)
(* routes.json too once one of them has written its copy.                    *)
Copies ==
    up /\ store # "torn" =>
        \A c \in Callers :
            /\ HoldsCopy(c) => snap[c] = table /\ store = "saved"
            /\ pc[c] = "sync" => file = table
(* Both parts of what is to be kept of the store.                            *)
Saved == Copies /\ SavedUnlessTorn

(* A step outside the persist of a handler that changes neither the table    *)
(* nor a file keeps Saved, if it finishes no change that is not persisted.   *)
LEMMA KeepSaved ==
    ASSUME Saved, up' => up, UNCHANGED <<table, file, block, store>>,
           \A c \in Callers : HoldsCopy(c)' => HoldsCopy(c) /\ snap'[c] = snap[c],
           \A c \in Callers : pc'[c] = "sync" => pc[c] = "sync",
           up' => \A c \in Callers : Unsaved(c) => Unsaved(c)'
    PROVE  Saved'
<1>1. Copies'
  BY DEF Saved, Copies, HoldsCopy
<1>2. SavedUnlessTorn'
  BY DEF Saved, SavedUnlessTorn
<1> QED
  BY <1>1, <1>2 DEF Saved

(* A change of the table by a handler that is about to persist it.           *)
LEMMA ChangeSaved ==
    ASSUME TypeOK, Saved, NEW c \in Callers, NEW t, ChangeTable(c, t),
           ~HoldsCopy(c), UNCHANGED snap,
           NEW where \in {"list", "prune"}, pc' = [pc EXCEPT ![c] = where],
           Unsaved(c)'
    PROVE  Saved'
<1>1. Copies'
  <2> SUFFICES ASSUME up', store' # "torn", NEW d \in Callers, HoldsCopy(d)'
               PROVE  /\ snap'[d] = table' /\ store' = "saved"
                      /\ pc'[d] = "sync" => file' = table'
    BY DEF Copies, HoldsCopy
  <2>1. d # c /\ HoldsCopy(d) /\ pc'[d] = pc[d]
    BY DEF HoldsCopy, TypeOK
  <2>2. table' = table /\ store' = store /\ file' = file /\ up
    BY <2>1 DEF ChangeTable
  <2> QED
    BY <2>1, <2>2 DEF Saved, Copies
<1>2. SavedUnlessTorn'
  BY DEF SavedUnlessTorn
<1> QED
  BY <1>1, <1>2 DEF Saved

LEMMA HandlerSaved ==
    ASSUME TypeOK, Structure, Saved, NEW c \in Callers, HandlerStep(c)
    PROVE  Saved'
<1> USE DEF daemonVars, handlerVars, runnerVars, Goto
<1>1. CASE FindOwner(c)
  BY <1>1, KeepSaved DEF FindOwner, Structure, Positions, TypeOK, HoldsCopy, Unsaved, Persisting
<1>2. CASE Signal(c)
  BY <1>2, KeepSaved DEF Signal, AfterTakeover, TypeOK, HoldsCopy, Unsaved, Persisting
<1>3. CASE TargetGone(c)
  BY <1>3, KeepSaved DEF TargetGone, AfterTakeover, TypeOK, HoldsCopy, Unsaved, Persisting
<1>4. CASE KillTarget(c)
  BY <1>4, KeepSaved DEF KillTarget, AfterTakeover, TypeOK, HoldsCopy, Unsaved, Persisting
<1>5. CASE ApplyRegister(c)
  <2>1. CASE pc' = [pc EXCEPT ![c] = "error"] /\ UNCHANGED daemonVars
    BY <1>5, <2>1, KeepSaved DEF ApplyRegister, TypeOK, HoldsCopy, Unsaved, Persisting
  <2>2. CASE pc' = [pc EXCEPT ![c] = "list"] /\ \E t : ChangeTable(c, t)
    BY <1>5, <2>2, ChangeSaved DEF ApplyRegister, TypeOK, HoldsCopy, Unsaved, Persisting
  <2> QED
    BY <1>5, <2>1, <2>2 DEF ApplyRegister
<1>6. CASE ApplyDeregister(c)
  BY <1>6, ChangeSaved DEF ApplyDeregister, TypeOK, HoldsCopy, Unsaved, Persisting
<1>7. CASE ApplyHostname(c)
  <2>1. CASE pc' = [pc EXCEPT ![c] = "error"] /\ UNCHANGED daemonVars
    BY <1>7, <2>1, KeepSaved DEF ApplyHostname, TypeOK, HoldsCopy, Unsaved, Persisting
  <2>2. CASE pc' = [pc EXCEPT ![c] = "list"] /\ \E t : ChangeTable(c, t)
    BY <1>7, <2>2, ChangeSaved DEF ApplyHostname, TypeOK, HoldsCopy, Unsaved, Persisting
  <2> QED
    BY <1>7, <2>1, <2>2 DEF ApplyHostname
<1>8. CASE PruneScan(c)
  BY <1>8, KeepSaved DEF PruneScan, TypeOK, HoldsCopy, Unsaved, Persisting
<1>9. CASE PruneNext(c)
  BY <1>9, KeepSaved DEF PruneNext, TypeOK, HoldsCopy, Unsaved, Persisting
<1>10. CASE PruneRemove(c)
  BY <1>10, ChangeSaved DEF PruneRemove, Structure, Positions, TypeOK, HoldsCopy, Unsaved, Persisting
<1>11. CASE PruneDone(c)
  BY <1>11, KeepSaved DEF PruneDone, TypeOK, HoldsCopy, Unsaved, Persisting
<1>12. CASE List(c)
  <2>1. /\ pc[c] = "list" /\ pc' = [pc EXCEPT ![c] = "write"]
        /\ snap' = [snap EXCEPT ![c] = table]
        /\ store' = IF \E d \in Callers : HoldsCopy(d) THEN store ELSE "saved"
        /\ UNCHANGED <<up, table, file, block, req>>
    BY <1>12 DEF List
  <2>2. Copies'
    <3> SUFFICES ASSUME up', store' # "torn", NEW d \in Callers, HoldsCopy(d)'
                 PROVE  /\ snap'[d] = table' /\ store' = "saved"
                        /\ pc'[d] = "sync" => file' = table'
      BY DEF Copies, HoldsCopy
    <3>1. CASE \E e \in Callers : HoldsCopy(e)
      BY <2>1, <3>1 DEF Saved, Copies, HoldsCopy, TypeOK
    <3>2. CASE ~\E e \in Callers : HoldsCopy(e)
      BY <2>1, <3>2 DEF HoldsCopy, TypeOK
    <3> QED
      BY <3>1, <3>2
  <2>3. Unsaved(c)'
    BY <2>1 DEF Unsaved, Persisting, TypeOK
  <2> QED
    BY <2>2, <2>3 DEF Saved, SavedUnlessTorn
<1>13. CASE Write(c)
  <2>1. /\ pc[c] = "write" /\ pc' = [pc EXCEPT ![c] = "sync"]
        /\ file' = snap[c]
        /\ UNCHANGED <<up, table, block, store, req, snap>>
    BY <1>13 DEF Write
  <2>2. Copies'
    BY <2>1 DEF Saved, Copies, HoldsCopy, TypeOK
  <2>3. Unsaved(c)'
    BY <2>1 DEF Unsaved, Persisting, TypeOK
  <2> QED
    BY <2>2, <2>3 DEF Saved, SavedUnlessTorn
<1>14. CASE WriteFails(c)
  <2>1. store' = "torn"
    BY <1>14 DEF WriteFails
  <2> QED
    BY <2>1 DEF Saved, Copies, SavedUnlessTorn
<1>15. CASE Sync(c)
  <2>1. /\ pc[c] = "sync" /\ pc' = [pc EXCEPT ![c] = "ok"]
        /\ block' = IF HostsSync THEN HostBlock(snap[c]) ELSE block
        /\ UNCHANGED <<up, table, file, store, req, snap>>
    BY <1>15 DEF Sync
  <2>2. Copies'
    BY <2>1 DEF Saved, Copies, HoldsCopy, TypeOK
  <2>3. up /\ store # "torn" => snap[c] = table /\ file = table /\ store = "saved"
    BY <2>1 DEF Saved, Copies, HoldsCopy
  <2>4. SavedUnlessTorn'
    BY <2>1, <2>3 DEF SavedUnlessTorn
  <2> QED
    BY <2>2, <2>4 DEF Saved
<1>16. CASE Reply(c)
  BY <1>16, KeepSaved DEF Reply, TypeOK, HoldsCopy, Unsaved, Persisting
<1> QED
  BY <1>1, <1>2, <1>3, <1>4, <1>5, <1>6, <1>7, <1>8, <1>9, <1>10, <1>11, <1>12,
     <1>13, <1>14, <1>15, <1>16
  DEF HandlerStep

LEMMA OutsideSaved ==
    ASSUME TypeOK, Structure, Saved,
           \/ DaemonStart
           \/ DaemonExit
           \/ \E p \in Pids : RunnerStep(p)
           \/ \E c \in Clients : ClientStep(c)
    PROVE  Saved'
<1> USE DEF daemonVars, handlerVars, runnerVars
<1>1. CASE DaemonStart
  <2>1. \A c \in Callers : ~HoldsCopy(c)'
    BY <1>1 DEF DaemonStart, HoldsCopy, Structure, Sanity, Handling, Persisting
  <2>2. Copies'
    BY <2>1 DEF Copies, HoldsCopy
  <2> QED
    BY <1>1, <2>2 DEF DaemonStart, Saved, SavedUnlessTorn
<1>2. CASE DaemonExit
  BY <1>2 DEF DaemonExit, Saved, Copies, SavedUnlessTorn
<1>3. ASSUME NEW p \in Pids, RunnerStep(p)
      PROVE  Saved'
  <2>1. ASSUME NEW c \in Callers, NEW r, Call(c, r),
               UNCHANGED daemonVars
        PROVE  Saved'
    BY <2>1, KeepSaved
    DEF Call, Entrance, Structure, Positions, NoCall, TypeOK, HoldsCopy, Unsaved, Persisting
  <2>2. CASE UNCHANGED <<daemonVars, handlerVars>>
    BY <2>2, KeepSaved DEF HoldsCopy, Unsaved
  <2> QED
    BY <1>3, <2>1, <2>2
    DEF RunnerStep, RunnerStart, AppListens, AppCloses, RunnerExit, RunnerKilled
<1>4. ASSUME NEW c \in Clients, ClientStep(c)
      PROVE  Saved'
  <2>1. CASE ClientCall(c)
    <3>1. \E r : Call(c, r)
      BY <2>1 DEF ClientCall
    <3> QED
      BY <2>1, <3>1, KeepSaved
      DEF ClientCall, Call, Entrance, Structure, Positions, NoCall, TypeOK, HoldsCopy, Unsaved, Persisting
  <2>2. CASE OfflineRead(c)
    BY <2>2, KeepSaved
    DEF OfflineRead, Structure, Positions, NoCall, TypeOK, HoldsCopy, Unsaved, Persisting
  <2>3. CASE OfflineWrite(c)
    <3>1. up => store' = "torn"
      BY <2>3 DEF OfflineWrite
    <3> QED
      BY <2>3, <3>1 DEF OfflineWrite, Saved, Copies, SavedUnlessTorn
  <2>4. CASE OfflinePing(c)
    BY <2>4, KeepSaved DEF OfflinePing, Structure, Positions, NoCall, TypeOK, HoldsCopy, Unsaved, Persisting
  <2> QED
    BY <1>4, <2>1, <2>2, <2>3, <2>4 DEF ClientStep
<1> QED
  BY <1>1, <1>2, <1>3, <1>4

(* SavedUnlessTorn, for any number of handlers: a copy of the table that is  *)
(* overtaken by a change, and a write that fails, are the only ways in which *)
(* what the daemon serves and what it has saved come to differ.              *)
THEOREM SavedUnlessACopyIsOvertaken == Spec => []SavedUnlessTorn
<1>1. Init => Saved
  BY DEF Init, Saved, Copies, SavedUnlessTorn
<1>2. TypeOK /\ Structure /\ Saved /\ [Next]_vars => Saved'
  <2> SUFFICES ASSUME TypeOK, Structure, Saved, [Next]_vars
               PROVE  Saved'
    OBVIOUS
  <2>1. CASE UNCHANGED vars
    BY <2>1, KeepSaved DEF vars, daemonVars, handlerVars, HoldsCopy, Unsaved
  <2>2. CASE Next
    BY <2>2, HandlerSaved, OutsideSaved DEF Next
  <2> QED
    BY <2>1, <2>2
<1>3. Saved => SavedUnlessTorn
  BY DEF Saved
<1> QED
  BY <1>1, <1>2, <1>3, Base, PTL DEF Spec
-------------------------------------------------------------------------------
(* Aliases.                                                                  *)

(* An alias has no owner, in the table and wherever a table is kept or about *)
(* to be made.                                                               *)
Unowned(t) == \A n \in Names : Registered(t, n) /\ t[n].static => t[n].pid = NoPid

Aliases ==
    /\ Unowned(table)
    /\ Unowned(file)
    /\ \A c \in Callers : Unowned(snap[c])
    /\ \A c \in Callers : req[c].op = "register" /\ req[c].static => req[c].pid = NoPid

(* What the table's operators make of a table whose aliases have no owner.   *)
LEMMA UnownedFacts ==
    ASSUME NEW t \in Table, Unowned(t)
    PROVE  /\ \A n \in Names, p \in Owner, static \in BOOLEAN :
                 (static => p = NoPid) => Unowned(Register(t, n, p, static))
           /\ \A n, p : Unowned(Remove(t, n, p))
           /\ \A n \in Names, h \in Hosts :
                 Registered(t, n) => /\ Unowned(AddHostname(t, n, h))
                                     /\ Unowned(RemoveHostname(t, n, h))
           /\ Unowned(Restored(t))
<1>1. ASSUME NEW n \in Names, NEW p \in Owner, NEW static \in BOOLEAN, static => p = NoPid
      PROVE  Unowned(Register(t, n, p, static))
  <2>1. Register(t, n, p, static)[n].pid = p /\ Register(t, n, p, static)[n].static = static
    BY DEF Register, Table
  <2> QED
    BY <1>1, <2>1, RegisterFacts DEF Unowned, Registered
<1>2. \A n, p : Unowned(Remove(t, n, p))
  BY RemoveFacts DEF Unowned, Registered
<1>3. ASSUME NEW n \in Names, NEW h \in Hosts, Registered(t, n)
      PROVE  Unowned(AddHostname(t, n, h)) /\ Unowned(RemoveHostname(t, n, h))
  BY <1>3, HostnameFacts DEF Unowned
<1>4. Unowned(Restored(t))
  BY RestoredFacts DEF Unowned
<1> QED
  BY <1>1, <1>2, <1>3, <1>4

(* Handlers that leave the table, the file and the copies alone.             *)
LEMMA HandlerAliases ==
    ASSUME TypeOK, Structure, Aliases, NEW c \in Callers, HandlerStep(c)
    PROVE  Aliases'
<1> USE DEF daemonVars, handlerVars, runnerVars, Goto
<1>0. req[c] \in Request /\ table \in Table /\ Unowned(EmptyTable)
  BY DEF TypeOK, Unowned, EmptyTable, Registered
<1>1. ASSUME UNCHANGED <<table, file, snap, req>>
      PROVE  Aliases'
  BY <1>1 DEF Aliases
<1>2. ASSUME Unowned(table'), UNCHANGED <<file, snap, req>>
      PROVE  Aliases'
  BY <1>2 DEF Aliases
<1>3. CASE ApplyRegister(c)
  <2> DEFINE r == req[c]
  <2>1. r.op = "register"
    BY <1>3 DEF ApplyRegister
  <2>2. Unowned(Register(table, r.name, r.pid, r.static))
    BY <1>0, <2>1, RequestFields, UnownedFacts DEF Aliases
  <2>3. Unowned(table')
    BY <1>3, <2>2 DEF ApplyRegister, ChangeTable, Aliases
  <2> QED
    BY <1>2, <1>3, <2>3 DEF ApplyRegister, ChangeTable
<1>4. CASE ApplyDeregister(c)
  <2>1. Unowned(table')
    BY <1>0, <1>4, UnownedFacts DEF ApplyDeregister, ChangeTable, Aliases
  <2> QED
    BY <1>2, <1>4, <2>1 DEF ApplyDeregister, ChangeTable
<1>5. CASE ApplyHostname(c)
  <2>1. req[c].name \in Names /\ req[c].host \in Hosts
    BY <1>0, <1>5, RequestFields DEF ApplyHostname
  <2>2. Unowned(table')
    BY <1>0, <1>5, <2>1, UnownedFacts DEF ApplyHostname, ChangeTable, Aliases
  <2> QED
    BY <1>2, <1>5, <2>2 DEF ApplyHostname, ChangeTable
<1>6. CASE PruneRemove(c)
  <2>1. Unowned(table')
    BY <1>0, <1>6, UnownedFacts DEF PruneRemove, ChangeTable, Aliases
  <2> QED
    BY <1>2, <1>6, <2>1 DEF PruneRemove, ChangeTable
<1>7. CASE List(c)
  BY <1>7 DEF List, Aliases, TypeOK
<1>8. CASE Write(c)
  BY <1>8 DEF Write, Aliases
<1>9. CASE Reply(c)
  <2>1. \A d \in Callers : Unowned(snap'[d])
    BY <1>0, <1>9 DEF Reply, Aliases, TypeOK
  <2>2. \A d \in Callers : req'[d] = req[d] \/ req'[d] = NoCall
    BY <1>9 DEF Reply, TypeOK
  <2>3. UNCHANGED <<table, file>>
    BY <1>9 DEF Reply
  <2> QED
    BY <2>1, <2>2, <2>3 DEF Aliases, NoCall
<1>10. CASE \/ FindOwner(c) \/ Signal(c) \/ TargetGone(c) \/ KillTarget(c)
            \/ PruneScan(c) \/ PruneNext(c) \/ PruneDone(c) \/ WriteFails(c) \/ Sync(c)
  BY <1>1, <1>10
  DEF FindOwner, Signal, TargetGone, KillTarget, PruneScan, PruneNext, PruneDone, WriteFails, Sync
<1> QED
  BY <1>3, <1>4, <1>5, <1>6, <1>7, <1>8, <1>9, <1>10 DEF HandlerStep

(* Outside the handlers a runner's call is never for an alias.               *)
LEMMA OutsideAliases ==
    ASSUME TypeOK, Aliases,
           \/ DaemonStart
           \/ DaemonExit
           \/ \E p \in Pids : RunnerStep(p)
           \/ \E c \in Clients : ClientStep(c)
    PROVE  Aliases'
<1> USE DEF daemonVars, handlerVars, runnerVars
<1>0. Unowned(EmptyTable) /\ file \in Table
  BY DEF TypeOK, Unowned, EmptyTable, Registered
<1>1. CASE DaemonStart
  BY <1>0, <1>1, UnownedFacts DEF DaemonStart, Aliases
<1>2. CASE DaemonExit
  BY <1>0, <1>2 DEF DaemonExit, Aliases, NoCall
<1>3. ASSUME NEW c \in Callers, NEW r, Call(c, r), UNCHANGED daemonVars,
             r.op = "register" /\ r.static => r.pid = NoPid
      PROVE  Aliases'
  BY <1>3 DEF Call, Aliases, TypeOK
<1>4. ASSUME UNCHANGED <<daemonVars, handlerVars>>
      PROVE  Aliases'
  BY <1>4 DEF Aliases
<1>5. ASSUME NEW p \in Pids, RunnerStep(p)
      PROVE  Aliases'
  <2>1. ASSUME NEW force \in BOOLEAN, RunnerStart(p, force)
        PROVE  Aliases'
    BY <1>3, <2>1 DEF RunnerStart, RegisterCall
  <2>2. CASE RunnerExit(p)
    BY <1>3, <1>4, <2>2 DEF RunnerExit, DeregisterCall
  <2>3. CASE AppListens(p)
    BY <1>4, <2>3 DEF AppListens
  <2>4. CASE AppCloses(p)
    BY <1>4, <2>4 DEF AppCloses
  <2>5. CASE RunnerKilled(p)
    BY <1>4, <2>5 DEF RunnerKilled
  <2> QED
    BY <1>5, <2>1, <2>2, <2>3, <2>4, <2>5 DEF RunnerStep
<1>6. ASSUME NEW c \in Clients, ClientStep(c)
      PROVE  Aliases'
  <2>1. CASE ClientCall(c)
    BY <1>3, <2>1 DEF ClientCall, RegisterCall, DeregisterCall, HostnameCall, PruneCall
  <2>2. CASE OfflinePing(c)
    BY <2>2 DEF OfflinePing, Aliases
  <2>3. CASE OfflineRead(c)
    <3>1. \A d \in Callers : Unowned(snap'[d])
      <4>1. /\ \A n \in Names : Unowned(Register(file, n, NoPid, TRUE))
            /\ \A n \in Names : Unowned(Remove(file, n, NoPid))
        BY <1>0, UnownedFacts DEF Aliases, Owner
      <4> QED
        BY <2>3, <4>1 DEF OfflineRead, Aliases, TypeOK
    <3> QED
      BY <2>3, <3>1 DEF OfflineRead, Aliases
  <2>4. CASE OfflineWrite(c)
    BY <1>0, <2>4 DEF OfflineWrite, Aliases, TypeOK
  <2> QED
    BY <1>6, <2>1, <2>2, <2>3, <2>4 DEF ClientStep
<1> QED
  BY <1>1, <1>2, <1>5, <1>6

(* AliasLostOnRequest, for any number of names and callers: the PID that a   *)
(* late deregister or a prune of a runner's entry brings along never matches *)
(* an alias, which has none.                                                 *)
THEOREM AliasesAreLostOnRequest == Spec => AliasLostOnRequest
<1> DEFINE Asked(n) == \E c \in Callers :
                \/ pc[c] = "apply" /\ req[c].op = "register" /\ req[c].force
                \/ pc[c] = "apply" /\ req[c] = DeregisterCall(n, NoPid)
                \/ pc[c] = "remove" /\ cur[c].pid = NoPid
           Lost == \A n \in Names :
                      up /\ up' /\ Registered(table, n) /\ table[n].static
                         /\ ~(Registered(table', n) /\ table'[n].static) => Asked(n)
<1>1. Init => Aliases
  BY DEF Init, Aliases, Unowned, EmptyTable, Registered, NoCall
<1>2. TypeOK /\ Structure /\ Aliases /\ [Next]_vars => Aliases'
  <2> SUFFICES ASSUME TypeOK, Structure, Aliases, [Next]_vars
               PROVE  Aliases'
    OBVIOUS
  <2>1. CASE UNCHANGED vars
    BY <2>1 DEF vars, daemonVars, handlerVars, Aliases
  <2>2. CASE Next
    BY <2>2, HandlerAliases, OutsideAliases DEF Next
  <2> QED
    BY <2>1, <2>2
<1>3. TypeOK /\ Structure /\ Aliases /\ [Next]_vars => [Lost]_vars
  <2> SUFFICES ASSUME TypeOK, Structure, Aliases, Next,
                      NEW n \in Names, up, up', Registered(table, n), table[n].static,
                      ~(Registered(table', n) /\ table'[n].static)
               PROVE  Asked(n)
    OBVIOUS
  <2> USE DEF daemonVars, handlerVars, runnerVars
  <2>0. table \in Table /\ table[n].pid = NoPid /\ table' # table
    BY DEF TypeOK, Aliases, Unowned
  <2>1. PICK c \in Callers : HandlerStep(c)
    BY <2>0 DEF Next, DaemonStart, DaemonExit, RunnerStep, RunnerStart, AppListens, AppCloses,
                RunnerExit, RunnerKilled, ClientStep, ClientCall, OfflinePing, OfflineRead, OfflineWrite
  <2>2. req[c] \in Request
    BY DEF TypeOK
  <2>3. CASE ApplyRegister(c)
    <3>1. /\ pc[c] = "apply" /\ req[c].op = "register"
          /\ CanRegister(table, req[c].name, req[c].force, Alive)
          /\ table' = Register(table, req[c].name, req[c].pid, req[c].static)
      BY <2>0, <2>3 DEF ApplyRegister, ChangeTable
    <3>2. n = req[c].name
      BY <2>0, <2>2, <3>1, RegisterFacts, RequestFields DEF Registered
    <3>3. req[c].force
      BY <3>1, <3>2 DEF CanRegister
    <3> QED
      BY <3>1, <3>3
  <2>4. CASE ApplyDeregister(c)
    <3>1. /\ pc[c] = "apply" /\ req[c].op = "deregister"
          /\ table' = Remove(table, req[c].name, req[c].pid)
      BY <2>4 DEF ApplyDeregister, ChangeTable
    <3>2. n = req[c].name /\ req[c].pid = NoPid
      BY <2>0, <3>1, RemoveFacts DEF CanRemove, Registered
    <3>3. req[c] = DeregisterCall(n, NoPid)
      BY <2>2, <3>1, <3>2 DEF Request, DeregisterCall, PruneCall, NoCall
    <3> QED
      BY <3>1, <3>3
  <2>5. CASE ApplyHostname(c)
    <3>1. /\ req[c].op \in {"add_hostname", "remove_hostname"}
          /\ Registered(table, req[c].name)
          /\ table' \in {AddHostname(table, req[c].name, req[c].host),
                         RemoveHostname(table, req[c].name, req[c].host)}
      BY <2>0, <2>5 DEF ApplyHostname, ChangeTable
    <3>2. req[c].name \in Names /\ req[c].host \in Hosts
      BY <2>2, <3>1, RequestFields
    <3> QED
      BY <2>0, <3>1, <3>2, HostnameFacts
  <2>6. CASE PruneRemove(c)
    <3>1. pc[c] = "remove" /\ table' = Remove(table, cur[c].name, cur[c].pid)
      BY <2>6 DEF PruneRemove, ChangeTable
    <3>2. cur[c].pid = NoPid
      BY <2>0, <3>1, RemoveFacts DEF CanRemove, Registered
    <3> QED
      BY <3>1, <3>2
  <2> QED
    BY <2>0, <2>1, <2>3, <2>4, <2>5, <2>6
    DEF HandlerStep, FindOwner, Signal, TargetGone, KillTarget, PruneScan, PruneNext,
        PruneDone, List, Write, WriteFails, Sync, Reply
<1>4. Spec => [][Lost]_vars
  <2> HIDE DEF Lost
  <2> QED
    BY <1>1, <1>2, <1>3, Base, PTL DEF Spec
<1> QED
  BY <1>4 DEF AliasLostOnRequest

-------------------------------------------------------------------------------
(* The refinement.                                                           *)

(* The process a handler stops, and the entry it removes after that, are     *)
(* those of an entry of the table.                                           *)
Stopping == \A c \in Callers : pc[c] \in {"signal", "await", "remove"} => cur[c] \in Entry

-------------------------------------------------------------------------------
(* The invariant.                                                            *)

LEMMA HandlerStopping ==
    ASSUME TypeOK, Structure, Stopping, NEW c \in Callers, HandlerStep(c)
    PROVE  Stopping'
<1> USE DEF daemonVars, handlerVars, runnerVars, Goto, Stopping
<1>1. CASE FindOwner(c)
  <2>1. pc[c] = "takeover" => req[c].op = "register"
    BY DEF Structure, Positions
  <2>2. req[c].name \in Names
    BY <1>1, <2>1, RequestFields DEF FindOwner, TypeOK
  <2>3. Registered(table, req[c].name) => table[req[c].name].pid \in Owner
    BY <2>2, RegisteredRoute DEF TypeOK
  <2> QED
    BY <1>1, <2>2, <2>3 DEF FindOwner, TypeOK, Entry
<1>2. CASE Signal(c)
  BY <1>2 DEF Signal, AfterTakeover, TypeOK
<1>3. CASE TargetGone(c)
  BY <1>3 DEF TargetGone, AfterTakeover, TypeOK
<1>4. CASE KillTarget(c)
  BY <1>4 DEF KillTarget, AfterTakeover, TypeOK
<1>5. CASE ApplyRegister(c)
  BY <1>5 DEF ApplyRegister, TypeOK
<1>6. CASE ApplyDeregister(c)
  BY <1>6 DEF ApplyDeregister, TypeOK
<1>7. CASE ApplyHostname(c)
  BY <1>7 DEF ApplyHostname, TypeOK
<1>8. CASE PruneScan(c)
  BY <1>8 DEF PruneScan, TypeOK
<1>9. CASE PruneNext(c)
  BY <1>9 DEF PruneNext, TypeOK
<1>10. CASE PruneRemove(c)
  BY <1>10 DEF PruneRemove, TypeOK
<1>11. CASE PruneDone(c)
  BY <1>11 DEF PruneDone, TypeOK
<1>12. CASE List(c)
  BY <1>12 DEF List, TypeOK
<1>13. CASE Write(c)
  BY <1>13 DEF Write, TypeOK
<1>14. CASE WriteFails(c)
  BY <1>14 DEF WriteFails, TypeOK
<1>15. CASE Sync(c)
  BY <1>15 DEF Sync, TypeOK
<1>16. CASE Reply(c)
  BY <1>16 DEF Reply, TypeOK
<1> QED
  BY <1>1, <1>2, <1>3, <1>4, <1>5, <1>6, <1>7, <1>8, <1>9, <1>10, <1>11, <1>12,
     <1>13, <1>14, <1>15, <1>16
  DEF HandlerStep

LEMMA OutsideStopping ==
    ASSUME TypeOK, Stopping,
           \/ DaemonStart
           \/ DaemonExit
           \/ \E p \in Pids : RunnerStep(p)
           \/ \E c \in Clients : ClientStep(c)
    PROVE  Stopping'
<1> USE DEF daemonVars, handlerVars, runnerVars, Stopping
<1>1. CASE DaemonStart
  BY <1>1 DEF DaemonStart
<1>2. CASE DaemonExit
  BY <1>2 DEF DaemonExit, InDaemon, Handling
<1>3. ASSUME NEW c \in Callers, NEW r, Call(c, r)
      PROVE  Stopping'
  <2>1. Entrance(r) \in {"scan", "takeover", "apply"}
    BY DEF Entrance
  <2> QED
    BY <1>3, <2>1 DEF Call, TypeOK
<1>4. ASSUME NEW p \in Pids, RunnerStep(p)
      PROVE  Stopping'
  BY <1>3, <1>4 DEF RunnerStep, RunnerStart, AppListens, AppCloses, RunnerExit, RunnerKilled
<1>5. ASSUME NEW c \in Clients, ClientStep(c)
      PROVE  Stopping'
  <2>1. CASE ClientCall(c)
    BY <1>3, <2>1 DEF ClientCall
  <2>2. CASE OfflinePing(c)
    BY <2>2 DEF OfflinePing, TypeOK
  <2>3. CASE OfflineRead(c)
    BY <2>3 DEF OfflineRead, TypeOK
  <2>4. CASE OfflineWrite(c)
    BY <2>4 DEF OfflineWrite, TypeOK
  <2> QED
    BY <1>5, <2>1, <2>2, <2>3, <2>4 DEF ClientStep
<1> QED
  BY <1>1, <1>2, <1>4, <1>5

LEMMA BaseStopping == Spec => [](TypeOK /\ Structure /\ Stopping)
<1>1. Init => Stopping
  BY DEF Init, Stopping
<1>2. TypeOK /\ Structure /\ Stopping /\ [Next]_vars => Stopping'
  <2> SUFFICES ASSUME TypeOK, Structure, Stopping, [Next]_vars
               PROVE  Stopping'
    OBVIOUS
  <2>1. CASE UNCHANGED vars
    BY <2>1 DEF vars, handlerVars, Stopping
  <2>2. CASE Next
    BY <2>2, HandlerStopping, OutsideStopping DEF Next
  <2> QED
    BY <2>1, <2>2
<1> QED
  BY <1>1, <1>2, Base, PTL DEF Spec

-------------------------------------------------------------------------------
(* How the two specifications' terms relate.                                 *)

(* The service's table operators are the daemon's.                           *)
LEMMA SameTable ==
    /\ Service!EmptyTable = EmptyTable
    /\ \A t : Service!Restored(t) = Restored(t)
    /\ \A t, n : Service!Registered(t, n) <=> Registered(t, n)
    /\ \A t, n, force, live :
          Service!CanRegister(t, n, force, live) <=> CanRegister(t, n, force, live)
    /\ \A t, n, p, s : Service!Register(t, n, p, s) = Register(t, n, p, s)
    /\ \A t, n, h : Service!AddHostname(t, n, h) = AddHostname(t, n, h)
    /\ \A t, n, h : Service!RemoveHostname(t, n, h) = RemoveHostname(t, n, h)
    /\ \A t, n, p : Service!Remove(t, n, p) = Remove(t, n, p)
    /\ Service!Owner = Owner
BY DEF Service!EmptyTable, EmptyTable, Service!Restored, Restored, Service!Registered, Registered,
       Service!CanRegister, CanRegister, Service!Register, Register,
       Service!AddHostname, AddHostname, Service!RemoveHostname, RemoveHostname,
       Service!Remove, Remove, Service!CanRemove, CanRemove, Service!Owner, Owner

(* A handler that moves on moves its call on.                                *)
LEMMA Moves ==
    ASSUME TypeOK, NEW c \in Callers, NEW where, pc' = [pc EXCEPT ![c] = where]
    PROVE  ServiceCall' = [ServiceCall EXCEPT ![c] = Stage(where)]
BY DEF ServiceCall, TypeOK

(* A handler that moves within a stage does nothing the service shows.       *)
LEMMA Stays ==
    ASSUME TypeOK, NEW c \in Callers, NEW where, pc' = [pc EXCEPT ![c] = where],
           Stage(where) = Stage(pc[c])
    PROVE  ServiceCall' = ServiceCall
BY DEF ServiceCall, TypeOK

(* From one stage to the next.                                               *)
LEMMA GoesOn ==
    ASSUME TypeOK, NEW c \in Callers, NEW where, pc' = [pc EXCEPT ![c] = where]
    PROVE  Service!Goes(c, Stage(pc[c]), Stage(where))
<1>1. ServiceCall[c] = Stage(pc[c])
  BY DEF ServiceCall
<1> QED
  BY <1>1, Moves DEF Service!Goes

-------------------------------------------------------------------------------
(* The steps.                                                                *)

(* A step of a handler.  Stopping processes and going through prune's list   *)
(* is not seen; each other step is one of the service's.                     *)
LEMMA HandlerServes ==
    ASSUME TypeOK, Structure, Stopping, NEW c \in Callers, HandlerStep(c)
    PROVE  Service!CallStep(c) \/ UNCHANGED Service!vars
<1> USE DEF daemonVars, handlerVars, runnerVars, Goto
<1>0. /\ Stage("takeover") = "pending" /\ Stage("signal") = "pending"
      /\ Stage("await") = "pending" /\ Stage("apply") = "pending"
      /\ Stage("scan") = "pending" /\ Stage("prune") = "pending"
      /\ Stage("remove") = "pending" /\ Stage("list") = "effected"
      /\ Stage("write") = "copied" /\ Stage("sync") = "granted"
      /\ Stage("ok") = "granted" /\ Stage("error") = "refused"
      /\ Stage("idle") = "idle"
  BY DEF Stage
<1>a. AfterTakeover(c) \in {"remove", "apply"}
  BY DEF AfterTakeover
<1>b. Alive \in SUBSET Pids
  BY DEF Alive
<1>c. req[c] \in Request
  BY DEF TypeOK
<1>1. CASE FindOwner(c)
  <2>1. ServiceCall' = ServiceCall
    BY <1>0, <1>1, Stays DEF FindOwner
  <2> QED
    BY <1>1, <2>1 DEF FindOwner, Service!vars
<1>2. CASE Signal(c)
  <2>1. ServiceCall' = ServiceCall
    BY <1>0, <1>a, <1>2, Stays DEF Signal
  <2> QED
    BY <1>2, <2>1 DEF Signal, Service!vars
<1>3. CASE TargetGone(c)
  <2>1. ServiceCall' = ServiceCall
    BY <1>0, <1>a, <1>3, Stays DEF TargetGone
  <2> QED
    BY <1>3, <2>1 DEF TargetGone, Service!vars
<1>4. CASE KillTarget(c)
  <2>1. ServiceCall' = ServiceCall
    BY <1>0, <1>a, <1>4, Stays DEF KillTarget
  <2> QED
    BY <1>4, <2>1 DEF KillTarget, Service!vars
<1>5. CASE ApplyRegister(c)
  <2> DEFINE r == req[c]
  <2>1. r.op = "register" /\ pc[c] = "apply"
    BY <1>5 DEF ApplyRegister
  <2>2. \A live : Service!Granted(r, live) <=> CanRegister(table, r.name, r.force, live)
    BY <2>1, SameTable DEF Service!Granted
  <2>3. CASE CanRegister(table, r.name, r.force, Alive)
    <3>1. pc' = [pc EXCEPT ![c] = "list"] /\ table' = Register(table, r.name, r.pid, r.static)
      BY <1>5, <2>3 DEF ApplyRegister, ChangeTable
    <3>2. Service!Goes(c, "pending", "effected")
      BY <1>0, <2>1, <3>1, GoesOn
    <3>3. table' = Service!Effected(r)
      BY <2>1, <3>1, SameTable DEF Service!Effected
    <3>4. UNCHANGED <<up, file, req, snap>>
      BY <1>5, <2>3 DEF ApplyRegister, ChangeTable
    <3> QED
      BY <1>b, <2>2, <2>3, <3>2, <3>3, <3>4 DEF Service!CallStep, Service!Effect
  <2>4. CASE ~CanRegister(table, r.name, r.force, Alive)
    <3>1. pc' = [pc EXCEPT ![c] = "error"] /\ UNCHANGED <<up, table, file, req, snap>>
      BY <1>5, <2>4 DEF ApplyRegister
    <3>2. Service!Goes(c, "pending", "refused")
      BY <1>0, <2>1, <3>1, GoesOn
    <3> QED
      BY <1>b, <2>2, <2>4, <3>1, <3>2 DEF Service!CallStep, Service!Refuse
  <2> QED
    BY <2>3, <2>4
<1>6. CASE ApplyDeregister(c)
  <2> DEFINE r == req[c]
  <2>1. /\ r.op = "deregister" /\ pc[c] = "apply" /\ pc' = [pc EXCEPT ![c] = "list"]
        /\ table' = Remove(table, r.name, r.pid)
        /\ UNCHANGED <<up, file, req, snap>>
    BY <1>6 DEF ApplyDeregister, ChangeTable
  <2>2. Service!Goes(c, "pending", "effected")
    BY <1>0, <2>1, GoesOn
  <2>3. table' = Service!Effected(r) /\ Service!Granted(r, Alive)
    BY <2>1, SameTable DEF Service!Effected, Service!Granted
  <2> QED
    BY <1>b, <2>1, <2>2, <2>3 DEF Service!CallStep, Service!Effect
<1>7. CASE ApplyHostname(c)
  <2> DEFINE r == req[c]
  <2>1. r.op \in {"add_hostname", "remove_hostname"} /\ pc[c] = "apply"
    BY <1>7 DEF ApplyHostname
  <2>2. Service!Granted(r, Alive) <=> Registered(table, r.name)
    BY <2>1, SameTable DEF Service!Granted
  <2>3. CASE Registered(table, r.name)
    <3>1. /\ pc' = [pc EXCEPT ![c] = "list"]
          /\ table' = IF r.op = "add_hostname" THEN AddHostname(table, r.name, r.host)
                                              ELSE RemoveHostname(table, r.name, r.host)
          /\ UNCHANGED <<up, file, req, snap>>
      BY <1>7, <2>3 DEF ApplyHostname, ChangeTable
    <3>2. Service!Goes(c, "pending", "effected")
      BY <1>0, <2>1, <3>1, GoesOn
    <3>3. table' = Service!Effected(r)
      BY <2>1, <3>1, SameTable DEF Service!Effected
    <3> QED
      BY <1>b, <2>2, <2>3, <3>1, <3>2, <3>3 DEF Service!CallStep, Service!Effect
  <2>4. CASE ~Registered(table, r.name)
    <3>1. pc' = [pc EXCEPT ![c] = "error"] /\ UNCHANGED <<up, table, file, req, snap>>
      BY <1>7, <2>4 DEF ApplyHostname
    <3>2. Service!Goes(c, "pending", "refused")
      BY <1>0, <2>1, <3>1, GoesOn
    <3> QED
      BY <1>b, <2>2, <2>4, <3>1, <3>2 DEF Service!CallStep, Service!Refuse
  <2> QED
    BY <2>3, <2>4
<1>8. CASE PruneScan(c)
  <2>1. ServiceCall' = ServiceCall
    BY <1>0, <1>8, Stays DEF PruneScan
  <2> QED
    BY <1>8, <2>1 DEF PruneScan, Service!vars
<1>9. CASE PruneNext(c)
  <2>1. ServiceCall' = ServiceCall
    BY <1>0, <1>9, Stays DEF PruneNext, ServiceCall
  <2> QED
    BY <1>9, <2>1 DEF PruneNext, Service!vars
<1>10. CASE PruneRemove(c)
  <2>1. /\ pc[c] = "remove" /\ pc' = [pc EXCEPT ![c] = "prune"]
        /\ table' = Remove(table, cur[c].name, cur[c].pid)
        /\ UNCHANGED <<up, file, req, snap>>
    BY <1>10 DEF PruneRemove, ChangeTable
  <2>2. ServiceCall[c] = "pending" /\ ServiceCall' = ServiceCall
    BY <1>0, <2>1, Stays DEF ServiceCall
  <2>3. cur[c].name \in Names /\ cur[c].pid \in Owner
    BY <2>1 DEF Stopping, Entry
  <2>4. req[c].op = "prune"
    BY <2>1 DEF Structure, Positions
  <2> QED
    BY <2>1, <2>2, <2>3, <2>4, SameTable DEF Service!CallStep, Service!PruneOne
<1>11. CASE PruneDone(c)
  <2>1. /\ pc[c] = "prune" /\ pc' = [pc EXCEPT ![c] = "list"]
        /\ UNCHANGED <<up, table, file, req, snap>>
    BY <1>11 DEF PruneDone
  <2>2. req[c].op = "prune"
    BY <2>1 DEF Structure, Positions
  <2>3. Service!Goes(c, "pending", "effected")
    BY <1>0, <2>1, GoesOn
  <2>4. table' = Service!Effected(req[c]) /\ Service!Granted(req[c], Alive)
    BY <2>1, <2>2 DEF Service!Effected, Service!Granted
  <2> QED
    BY <1>b, <2>1, <2>3, <2>4 DEF Service!CallStep, Service!Effect
<1>12. CASE List(c)
  <2>1. Service!Goes(c, "effected", "copied")
    BY <1>0, <1>12, GoesOn DEF List
  <2> QED
    BY <1>12, <2>1 DEF List, Service!CallStep, Service!Copy
<1>13. CASE Write(c)
  <2>1. Service!Goes(c, "copied", "granted")
    BY <1>0, <1>13, GoesOn DEF Write
  <2> QED
    BY <1>13, <2>1 DEF Write, Service!CallStep, Service!Save
<1>14. CASE WriteFails(c)
  <2>1. Service!Goes(c, "copied", "refused")
    BY <1>0, <1>14, GoesOn DEF WriteFails
  <2> QED
    BY <1>14, <2>1 DEF WriteFails, Service!CallStep, Service!SaveFails
<1>15. CASE Sync(c)
  <2>1. ServiceCall' = ServiceCall
    BY <1>0, <1>15, Stays DEF Sync
  <2> QED
    BY <1>15, <2>1 DEF Sync, Service!vars
<1>16. CASE Reply(c)
  <2>1. ServiceCall[c] \in {"granted", "refused"}
    BY <1>0, <1>16 DEF Reply, ServiceCall
  <2>2. ServiceCall' = [ServiceCall EXCEPT ![c] = "idle"]
    <3>1. pc' = [pc EXCEPT ![c] = "idle"]
      BY <1>16 DEF Reply
    <3>2. ServiceCall' = [ServiceCall EXCEPT ![c] = Stage("idle")]
      BY <3>1, Moves
    <3> QED
      BY <1>0, <3>2
  <2> QED
    BY <1>16, <2>1, <2>2, SameTable DEF Reply, Service!CallStep, Service!Return
<1> QED
  BY <1>1, <1>2, <1>3, <1>4, <1>5, <1>6, <1>7, <1>8, <1>9, <1>10, <1>11, <1>12,
     <1>13, <1>14, <1>15, <1>16
  DEF HandlerStep

(* A step of the daemon process or of a caller.                              *)
LEMMA OutsideServes ==
    ASSUME TypeOK,
           \/ DaemonStart
           \/ DaemonExit
           \/ \E p \in Pids : RunnerStep(p)
           \/ \E c \in Clients : ClientStep(c)
    PROVE  Service!Next \/ UNCHANGED Service!vars
<1> USE DEF daemonVars, handlerVars, runnerVars
<1>0. /\ Stage("idle") = "idle" /\ Stage("down") = "idle" /\ Stage("offline") = "offline"
      /\ \A where \in Handling : Stage(where) \notin {"idle", "offline"}
      /\ \A where \in {"scan", "takeover", "apply"} : Stage(where) = "pending"
  BY DEF Stage, Handling, Persisting
<1>1. CASE DaemonStart
  BY <1>1, SameTable DEF DaemonStart, ServiceCall, Service!Next, Service!Start
<1>2. CASE DaemonExit
  <2>1. \A c \in Callers : InDaemon(c) <=> Service!InService(c)
    <3> SUFFICES ASSUME NEW c \in Callers
                 PROVE  InDaemon(c) <=> Service!InService(c)
      OBVIOUS
    <3>1. pc[c] \in Handling \/ pc[c] \in {"idle", "down", "offline"}
      BY DEF TypeOK
    <3> QED
      BY <1>0, <3>1 DEF InDaemon, Service!InService, ServiceCall
  <2>2. ServiceCall' = [c \in Callers |-> IF InDaemon(c) THEN "idle" ELSE ServiceCall[c]]
    BY <1>0, <1>2 DEF DaemonExit, ServiceCall
  <2> QED
    BY <1>2, <2>1, <2>2, SameTable DEF DaemonExit, Service!Next, Service!Stop
<1>3. ASSUME NEW c \in Callers, NEW r \in Request, Call(c, r), UNCHANGED daemonVars
      PROVE  Service!CallStep(c)
  <2>1. Entrance(r) \in {"scan", "takeover", "apply"}
    BY DEF Entrance
  <2>2. Service!Goes(c, "idle", "pending")
    BY <1>0, <1>3, <2>1, GoesOn DEF Call
  <2> QED
    BY <1>3, <2>2 DEF Call, Service!CallStep, Service!Invoke
<1>4. ASSUME UNCHANGED <<daemonVars, handlerVars>>
      PROVE  UNCHANGED Service!vars
  BY <1>4 DEF Service!vars, ServiceCall
<1>5. ASSUME NEW p \in Pids, RunnerStep(p)
      PROVE  Service!CallStep(p) \/ UNCHANGED Service!vars
  <2>1. ASSUME NEW force \in BOOLEAN, RunnerStart(p, force)
        PROVE  Service!CallStep(p)
    <3>1. RegisterCall(RunName[p], p, FALSE, force) \in Request
      BY CallTypes, RunNameAssumption DEF Owner
    <3> QED
      BY <1>3, <2>1, <3>1 DEF RunnerStart
  <2>2. CASE RunnerExit(p)
    <3>1. DeregisterCall(RunName[p], p) \in Request
      BY CallTypes, RunNameAssumption DEF Owner
    <3>2. CASE Call(p, DeregisterCall(RunName[p], p))
      BY <1>3, <2>2, <3>1, <3>2 DEF RunnerExit
    <3>3. CASE UNCHANGED handlerVars
      BY <1>4, <2>2, <3>3 DEF RunnerExit
    <3> QED
      BY <2>2, <3>2, <3>3 DEF RunnerExit
  <2>3. CASE AppListens(p)
    BY <1>4, <2>3 DEF AppListens
  <2>4. CASE AppCloses(p)
    BY <1>4, <2>4 DEF AppCloses
  <2>5. CASE RunnerKilled(p)
    BY <1>4, <2>5 DEF RunnerKilled
  <2> QED
    BY <1>5, <2>1, <2>2, <2>3, <2>4, <2>5 DEF RunnerStep
<1>6. ASSUME NEW c \in Clients, ClientStep(c)
      PROVE  Service!CallStep(c) \/ UNCHANGED Service!vars
  <2>1. CASE ClientCall(c)
    <3>1. \E r \in Request : Call(c, r)
      BY <2>1, CallTypes DEF ClientCall, Owner
    <3> QED
      BY <1>3, <2>1, <3>1 DEF ClientCall
  <2>2. CASE OfflinePing(c)
    <3>1. ServiceCall' = ServiceCall
      BY <1>0, <2>2, Stays DEF OfflinePing
    <3> QED
      BY <2>2, <3>1 DEF OfflinePing, Service!vars
  <2>3. CASE OfflineRead(c)
    <3>1. CASE pc' = [pc EXCEPT ![c] = "idle"] /\ UNCHANGED snap
      <4>1. ServiceCall' = ServiceCall
        BY <1>0, <2>3, <3>1, Stays DEF OfflineRead
      <4> QED
        BY <2>3, <3>1, <4>1 DEF OfflineRead, Service!vars
    <3>2. CASE /\ pc' = [pc EXCEPT ![c] = "offline"]
               /\ \E n \in Names : \/ snap' = [snap EXCEPT ![c] = Register(file, n, NoPid, TRUE)]
                                   \/ snap' = [snap EXCEPT ![c] = Remove(file, n, NoPid)]
      <4>1. Service!Goes(c, "idle", "offline")
        <5>1. pc[c] = "down" /\ pc' = [pc EXCEPT ![c] = "offline"]
          BY <2>3, <3>2 DEF OfflineRead
        <5> QED
          BY <1>0, <5>1, GoesOn
      <4> QED
        BY <2>3, <3>2, <4>1, SameTable DEF OfflineRead, Service!CallStep, Service!OfflineCopy
    <3> QED
      BY <2>3, <3>1, <3>2 DEF OfflineRead
  <2>4. CASE OfflineWrite(c)
    <3>1. Service!Goes(c, "offline", "idle")
      BY <1>0, <2>4, GoesOn DEF OfflineWrite
    <3> QED
      BY <2>4, <3>1, SameTable DEF OfflineWrite, Service!CallStep, Service!OfflineSave
  <2> QED
    BY <1>6, <2>1, <2>2, <2>3, <2>4 DEF ClientStep
<1> QED
  BY <1>1, <1>2, <1>5, <1>6 DEF Service!Next

(* ControlDaemon implements RouteService: with any number of callers, each   *)
(* call takes effect on the table once and as a whole between its invocation *)
(* and its answer, and is granted only when a copy of the table taken after  *)
(* that is in routes.json; handlers that stop processes, prunes, daemons     *)
(* that end and offline edits do nothing else to table and file.             *)
THEOREM HandlersImplementService == Spec => ImplementsService
<1>1. Init => Service!Init
  BY SameTable DEF Init, Service!Init, ServiceCall, Stage
<1>2. TypeOK /\ Structure /\ Stopping /\ [Next]_vars => [Service!Next]_(Service!vars)
  <2> SUFFICES ASSUME TypeOK, Structure, Stopping, [Next]_vars
               PROVE  Service!Next \/ UNCHANGED Service!vars
    OBVIOUS
  <2>1. CASE UNCHANGED vars
    BY <2>1 DEF vars, daemonVars, handlerVars, ServiceCall, Service!vars
  <2>2. CASE Next
    BY <2>2, HandlerServes, OutsideServes DEF Next, Service!Next
  <2> QED
    BY <2>1, <2>2
<1> QED
  BY <1>1, <1>2, BaseStopping, PTL DEF Spec, ImplementsService, Service!Spec
===============================================================================

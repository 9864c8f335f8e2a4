-------------------------------- MODULE Runner --------------------------------
(*****************************************************************************)
(* devhostd run (internal/runner): a runner finds a port, registers a route, *)
(* starts its application as the leader of a process group of its own, and   *)
(* waits for the application's end, a signal or the end of its context.      *)
(*                                                                           *)
(* SIGINT reaches a runner twice, on the channel of runner.Run and as the    *)
(* end of the context of main.run, SIGTERM only as the latter, and of events *)
(* that are there together select takes any.  Here the calls to the daemon   *)
(* are steps that are answered or not; ControlDaemon has their handlers.     *)
(*****************************************************************************)
EXTENDS Naturals

CONSTANTS
    Runners,    \* runner processes, each with a route name of its own
    Ports,      \* the ports FreePort looks at
    Told,       \* bound: the runners that others tell to end or kill
    Stranger,   \* any other program
    None        \* no port, no runner

ASSUME PortAssumption == Ports \subseteq Nat /\ None \notin Ports
ASSUME RunnerAssumption == {None, Stranger} \cap Runners = {} /\ Told \subseteq Runners
ASSUME StrangerAssumption == Stranger # None

VARIABLES
    pc,         \* pc[r]: where Run of runner r stands
    port,       \* port[r]: the port r has found
    route,      \* route[r]: the port the daemon forwards r's name to
    done,       \* runners whose context has ended
    signals,    \* runners with a SIGINT on their channel
    app,        \* app[r]: the leader of r's process group
    kids,       \* kids[r]: r's group but for its leader: see Kids
    asked,      \* runners that have sent their group a signal
    listener,   \* listener[q]: the group or program that listens on port q
    code,       \* code[r]: how the leader ended
    result,     \* result[r]: what Run returned
    gap         \* history: ports of which the code cannot know whom they lead to

(* Living processes: "early" ones, forked before the runner sent a signal,   *)
(* "told" ones, that got it, and "late" ones, forked after it.               *)
Kids == {"early", "told", "late"}

groupVars == <<app, kids, asked, listener, code>>
toldVars == <<done, signals>>
vars == <<pc, port, route, result, gap, groupVars, toldVars>>

Before == {"none", "found", "registered"}
Waiting == {"watch", "wait_signal", "wait_context"}
Alive(r) == pc[r] \in {"found", "registered", "leave"} \cup Waiting

TypeOK ==
    /\ pc \in [Runners -> Before \cup Waiting \cup {"leave", "ended", "killed"}]
    /\ port \in [Runners -> Ports \cup {None}]
    /\ route \in [Runners -> Ports \cup {None}]
    /\ done \in SUBSET Runners
    /\ signals \in SUBSET done
    /\ app \in [Runners -> {"none", "running", "ended"}]
    /\ kids \in [Runners -> SUBSET Kids]
    /\ asked \in SUBSET Runners
    /\ listener \in [Ports -> Runners \cup {None, Stranger}]
    /\ code \in [Runners -> {"none", "own", "signal", "kill"}]
    /\ result \in [Runners -> {"none", "error", "code", "context"}]
    /\ gap \in SUBSET Ports

Init ==
    /\ pc = [r \in Runners |-> "none"]
    /\ port = [r \in Runners |-> None]
    /\ route = [r \in Runners |-> None]
    /\ done = {}
    /\ signals = {}
    /\ app = [r \in Runners |-> "none"]
    /\ kids = [r \in Runners |-> {}]
    /\ asked = {}
    /\ listener = [q \in Ports |-> None]
    /\ code = [r \in Runners |-> "none"]
    /\ result = [r \in Runners |-> "none"]
    /\ gap = {}

Goto(r, where) == pc' = [pc EXCEPT ![r] = where]
Return(r, what) == result' = [result EXCEPT ![r] = what]

(* The processes of a group that live.                                       *)
GroupAlive(r) == app[r] = "running" \/ kids[r] # {}

-------------------------------------------------------------------------------
(* Before the application runs.                                              *)

(* Faulty variant of FreePort: the first port, whoever listens there.        *)
FirstPort(l) == {q \in Ports : \A p \in Ports : q <= p}

(* The first port on which nobody listens right now; it is not kept.         *)
FreePort(l) ==
    {q \in Ports : l[q] = None /\ \A p \in Ports : l[p] = None => q <= p}

(* The runners for whom port q is meant.                                     *)
Claimants(q) == {s \in Runners : port[s] = q /\ (Alive(s) \/ GroupAlive(s))}

(* A port the user names is taken as it is, whoever listens there.           *)
UsePort(r) ==
    /\ pc[r] = "none"
    /\ \E q \in Ports :
          /\ port' = [port EXCEPT ![r] = q]
          /\ gap' = IF Claimants(q) # {} \/ listener[q] \in Runners THEN gap \cup {q} ELSE gap
    /\ Goto(r, "found")
    /\ UNCHANGED <<route, result, groupVars, toldVars>>

(* If the user names none, FreePort's.                                       *)
FindPort(r) ==
    /\ pc[r] = "none"
    /\ \E q \in FreePort(listener) :
          /\ port' = [port EXCEPT ![r] = q]
          /\ gap' = IF \E s \in Claimants(q) : listener[q] # s THEN gap \cup {q} ELSE gap
    /\ Goto(r, "found")
    /\ UNCHANGED <<route, result, groupVars, toldVars>>

NoFreePort(r) ==
    /\ pc[r] = "none"
    /\ FreePort(listener) = {}
    /\ Goto(r, "ended")
    /\ Return(r, "error")
    /\ UNCHANGED <<port, route, gap, groupVars, toldVars>>

(* The register call: refused, not made by a runner whose context has ended, *)
(* or answered after a route is there.                                       *)
Register(r) ==
    /\ pc[r] = "found"
    /\ \/ /\ r \notin done
          /\ route' = [route EXCEPT ![r] = port[r]]
          /\ Goto(r, "registered")
          /\ UNCHANGED result
       \/ /\ Goto(r, "ended")
          /\ Return(r, "error")
          /\ UNCHANGED route
    /\ UNCHANGED <<port, gap, groupVars, toldVars>>

(* cmd.Start, which may fail.  Whatever ended the context before is found by *)
(* the first select; a SIGINT of that time is not on the channel.            *)
StartApp(r) ==
    /\ pc[r] = "registered"
    /\ \/ /\ app' = [app EXCEPT ![r] = "running"]
          /\ Goto(r, "watch")
          /\ UNCHANGED result
       \/ /\ Goto(r, "leave")
          /\ Return(r, "error")
          /\ UNCHANGED app
    /\ UNCHANGED <<port, route, gap, kids, asked, listener, code, toldVars>>

-------------------------------------------------------------------------------
(* The select of Run and its branches.                                       *)

(* Faulty variant of AppDone: the status is dropped here too.                *)
AppDoneAnyhow(r) ==
    /\ pc[r] = "watch"
    /\ app[r] = "ended"
    /\ Return(r, "error")
    /\ Goto(r, "leave")
    /\ UNCHANGED <<port, route, gap, groupVars, toldVars>>

AppDone(r) ==
    /\ pc[r] = "watch"
    /\ app[r] = "ended"
    /\ Return(r, "code")
    /\ Goto(r, "leave")
    /\ UNCHANGED <<port, route, gap, groupVars, toldVars>>

(* The whole group gets a signal.                                            *)
SignalGroup(r) ==
    /\ asked' = asked \cup {r}
    /\ kids' = [kids EXCEPT ![r] = IF @ = {} THEN {} ELSE {"told"}]

(* forward: SIGINT.                                                          *)
ForwardSignal(r) ==
    /\ pc[r] = "watch"
    /\ r \in signals
    /\ signals' = signals \ {r}
    /\ SignalGroup(r)
    /\ Goto(r, "wait_signal")
    /\ UNCHANGED <<port, route, result, gap, app, listener, code, done>>

(* Faulty variant of StopGroup: the group is not told.                       *)
StopNobody(r) ==
    /\ pc[r] = "watch"
    /\ r \in done
    /\ Goto(r, "wait_context")
    /\ UNCHANGED <<port, route, result, gap, groupVars, toldVars>>

(* stop: SIGTERM.                                                            *)
StopGroup(r) ==
    /\ pc[r] = "watch"
    /\ r \in done
    /\ SignalGroup(r)
    /\ Goto(r, "wait_context")
    /\ UNCHANGED <<port, route, result, gap, app, listener, code, toldVars>>

(* waitForExit returns with the leader's end; after a signal its status is   *)
(* what Run returns, after the end of the context it is dropped.             *)
Exited(r) ==
    /\ pc[r] \in {"wait_signal", "wait_context"}
    /\ app[r] = "ended"
    /\ Return(r, IF pc[r] = "wait_signal" THEN "code" ELSE "context")
    /\ Goto(r, "leave")
    /\ UNCHANGED <<port, route, gap, groupVars, toldVars>>

(* Faulty variants of KillLeader: the wait has no deadline; or it ends       *)
(* without a kill.                                                           *)
KillLeaderNever(r) == pc[r] \in {"wait_signal", "wait_context"} /\ UNCHANGED vars

StopWaiting(r) ==
    /\ pc[r] \in {"wait_signal", "wait_context"}
    /\ app[r] = "running"
    /\ Return(r, "context")
    /\ Goto(r, "leave")
    /\ UNCHANGED <<port, route, gap, groupVars, toldVars>>

(* ... or kills the leader, and only it, after three seconds.                *)
KillLeader(r) ==
    /\ pc[r] \in {"wait_signal", "wait_context"}
    /\ app[r] = "running"
    /\ app' = [app EXCEPT ![r] = "ended"]
    /\ code' = [code EXCEPT ![r] = "kill"]
    /\ listener' = IF kids[r] # {} THEN listener
                   ELSE [q \in Ports |-> IF listener[q] = r THEN None ELSE listener[q]]
    /\ UNCHANGED <<pc, port, route, result, gap, kids, asked, toldVars>>

(* The deferred deregister call, which may find no daemon.                   *)
Deregister(r) ==
    /\ pc[r] = "leave"
    /\ \/ route' = [route EXCEPT ![r] = None]
       \/ UNCHANGED route
    /\ Goto(r, "ended")
    /\ UNCHANGED <<port, result, gap, groupVars, toldVars>>

RunStep(r) ==
    \/ UsePort(r) \/ FindPort(r) \/ NoFreePort(r) \/ Register(r) \/ StartApp(r)
    \/ AppDone(r) \/ ForwardSignal(r) \/ StopGroup(r) \/ Exited(r) \/ KillLeader(r)
    \/ Deregister(r)

-------------------------------------------------------------------------------
(* The applications: where they listen, what they do with their children and *)
(* with the signals they get is up to them.                                  *)

(* On its own port, or on another one, as programs do that find theirs taken. *)
AppListens(r) ==
    /\ GroupAlive(r)
    /\ \E q \in Ports :
          /\ listener[q] = None
          /\ listener' = [listener EXCEPT ![q] = r]
          /\ gap' = IF q # port[r] /\ Claimants(q) # {} THEN gap \cup {q} ELSE gap
    /\ UNCHANGED <<pc, port, route, result, app, kids, asked, code, toldVars>>

AppCloses(r) ==
    /\ \E q \in Ports : listener[q] = r /\ listener' = [listener EXCEPT ![q] = None]
    /\ UNCHANGED <<pc, port, route, result, gap, app, kids, asked, code, toldVars>>

AppForks(r) ==
    /\ GroupAlive(r)
    /\ kids' = [kids EXCEPT ![r] = @ \cup {IF r \in asked THEN "late" ELSE "early"}]
    /\ UNCHANGED <<pc, port, route, result, gap, app, asked, listener, code, toldVars>>

(* The leader or others of the group end, and the last one's listeners with  *)
(* them; rest is who is left of the others.                                  *)
Quit(r, leader, rest) ==
    /\ app' = [app EXCEPT ![r] = IF leader THEN "ended" ELSE @]
    /\ kids' = [kids EXCEPT ![r] = rest]
    /\ code' = [code EXCEPT ![r] = IF ~leader THEN @
                                   ELSE IF r \in asked THEN "signal" ELSE "own"]
    /\ listener' = [q \in Ports |->
                       IF listener[q] = r /\ app'[r] # "running" /\ rest = {}
                       THEN None ELSE listener[q]]
    /\ UNCHANGED <<pc, port, route, result, gap, asked, toldVars>>

AppQuits(r) == app[r] = "running" /\ \E rest \in SUBSET kids[r] : Quit(r, TRUE, rest)
KidsQuit(r) == \E rest \in SUBSET kids[r] : rest # kids[r] /\ Quit(r, FALSE, rest)

AppStep(r) == AppListens(r) \/ AppCloses(r) \/ AppForks(r) \/ AppQuits(r) \/ KidsQuit(r)

-------------------------------------------------------------------------------
(* Those who tell a runner to end: the user, and a takeover (daemon.go) with *)
(* its SIGTERM and, three seconds later, its SIGKILL.                        *)

(* Faulty variant of Interrupt: the context does not end.                    *)
InterruptOnly(r) ==
    /\ Alive(r)
    /\ signals' = IF pc[r] \in Waiting THEN signals \cup {r} ELSE signals
    /\ UNCHANGED <<pc, port, route, result, gap, groupVars, done>>

(* SIGINT; the channel is there once the application runs.                   *)
Interrupt(r) ==
    /\ Alive(r)
    /\ done' = done \cup {r}
    /\ signals' = IF pc[r] \in Waiting THEN signals \cup {r} ELSE signals
    /\ UNCHANGED <<pc, port, route, result, gap, groupVars>>

Terminate(r) ==
    /\ Alive(r)
    /\ done' = done \cup {r}
    /\ UNCHANGED <<pc, port, route, result, gap, groupVars, signals>>

(* The route stays, or a takeover's daemon gives it to the next runner.      *)
Kill(r) ==
    /\ Alive(r)
    /\ Goto(r, "killed")
    /\ \/ route' = [route EXCEPT ![r] = None]
       \/ UNCHANGED route
    /\ UNCHANGED <<port, result, gap, groupVars, toldVars>>

(* Other programs listen where nobody does, and stop it.                     *)
StrangerMoves(q) ==
    /\ \/ listener[q] = None /\ listener' = [listener EXCEPT ![q] = Stranger]
       \/ listener[q] = Stranger /\ listener' = [listener EXCEPT ![q] = None]
    /\ UNCHANGED <<pc, port, route, result, gap, app, kids, asked, code, toldVars>>

Next ==
    \/ \E q \in Ports : StrangerMoves(q)
    \/ \E r \in Runners :
          \/ RunStep(r) \/ AppStep(r)
          \/ r \in Told /\ (Interrupt(r) \/ Terminate(r) \/ Kill(r))

Spec == Init /\ [][Next]_vars

(* A runner that can go on does, and its waits end.                          *)
FairSpec == Spec /\ \A r \in Runners : WF_vars(RunStep(r))

-------------------------------------------------------------------------------
(* Properties.                                                               *)

(* A runner's route leads to no other runner's application, but for ports of *)
(* which that cannot be known: one that FreePort found while an application  *)
(* it is meant for was not listening (a start at the same time, a restart,   *)
(* the application of a dead runner), one that the user named and another    *)
(* runner or application already had, and one that an application listened   *)
(* on although it was meant for another one.                                 *)
RouteReachesOwnApp ==
    \A r \in Runners :
        Alive(r) /\ route[r] # None /\ route[r] \notin gap =>
            listener[route[r]] \notin Runners \ {r}

(* A runner that was not killed does not end before its application's leader *)
(* has, whoever told it to end and whether or not the application obeys.     *)
NoAppOutlivesItsRunner == \A r \in Runners : pc[r] = "ended" => app[r] # "running"

(* When a runner that was not killed has ended, and its application's leader *)
(* had not ended before it was told to, each process left behind got the     *)
(* runner's signal or was forked after it: none is left of those that lived  *)
(* when the signal was sent and did not get it.                              *)
NobodyLeftUntold ==
    \A r \in Runners :
        pc[r] = "ended" /\ code[r] # "own" => "early" \notin kids[r]

(* The status of an application whose runner nobody told to end is what the  *)
(* runner ends with.                                                         *)
OwnStatusIsReturned ==
    \A r \in Runners :
        pc[r] = "ended" /\ code[r] # "none" /\ r \notin done => result[r] = "code"

(* A runner told to end does, also when its application ignores the signal,  *)
(* and wherever its start has got to.                                        *)
ToldRunnerEnds == \A r \in Runners : r \in done ~> ~Alive(r)
===============================================================================

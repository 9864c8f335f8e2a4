--------------------------- MODULE DaemonLifecycle ----------------------------
(*****************************************************************************)
(* How daemon processes come and go: daemon.Run from its first listener to   *)
(* its deferred clean-up (internal/daemon/daemon.go), the control socket of  *)
(* internal/control, and the start and stop commands of cmd/devhostd.        *)
(*                                                                           *)
(* The daemons of one state directory share three things that each takes and *)
(* gives up in its own time: the proxy port, the path of the control socket  *)
(* and daemon.json.  The path is not the listener: whoever removes the path  *)
(* removes it for the daemon that listens on it.                             *)
(*****************************************************************************)
EXTENDS Naturals, FiniteSets

CONSTANTS
    Daemons,        \* daemon processes, each started at most once
    Starters,       \* "devhostd daemon start" commands
    Ports,          \* proxy ports
    PortOf,         \* PortOf[d]: the port daemon d was told to use
    None,           \* nobody
    StartMayFail    \* a start may fail after the socket is there

ASSUME DaemonAssumption == None \notin Daemons
ASSUME PortAssumption == PortOf \in [Daemons -> Ports]
ASSUME FailureAssumption == StartMayFail \in BOOLEAN

VARIABLES
    phase,      \* phase[d]: where Run of daemon d stands
    cancelled,  \* daemons whose context is cancelled
    port,       \* port[q]: the daemon that listens on q
    open,       \* daemons with an open control listener
    socket,     \* the daemon whose listener the socket path leads to
    info,       \* the daemon that daemon.json describes
    cli,        \* cli[s]: where start command s stands
    answered,   \* answered[s]: the daemon whose answer made s succeed
    overlapped  \* history: daemons that got the port from one not gone yet

daemonVars == <<phase, cancelled, port, open, socket, info, overlapped>>
cliVars == <<cli, answered>>
vars == <<daemonVars, cliVars>>

Starting == {"bind", "unlink", "listen", "info", "load"}
Leaving == {"drop_info", "drop_socket", "close_control", "close_port"}
Running == Starting \cup {"serve"} \cup Leaving

TypeOK ==
    /\ phase \in [Daemons -> Running \cup {"none", "exited", "crashed"}]
    /\ cancelled \in SUBSET Daemons
    /\ port \in [Ports -> Daemons \cup {None}]
    /\ \A q \in Ports : port[q] # None => PortOf[port[q]] = q
    /\ open \in SUBSET Daemons
    /\ socket \in Daemons \cup {None}
    /\ info \in Daemons \cup {None}
    /\ cli \in [Starters -> {"idle", "spawn", "poll", "ok", "failed"}]
    /\ answered \in [Starters -> Daemons \cup {None}]
    /\ overlapped \in SUBSET Daemons

Init ==
    /\ phase = [d \in Daemons |-> "none"]
    /\ cancelled = {}
    /\ port = [q \in Ports |-> None]
    /\ open = {}
    /\ socket = None
    /\ info = None
    /\ cli = [s \in Starters |-> "idle"]
    /\ answered = [s \in Starters |-> None]
    /\ overlapped = {}

Goto(d, where) == phase' = [phase EXCEPT ![d] = where]

-------------------------------------------------------------------------------
(* daemon.Run, in the order of its listeners.                                *)

(* Faulty variant of BindPort: the deferred clean-up of the socket and of    *)
(* daemon.json is set up before the port is bound.                           *)
BindPortAfterDefers(d) ==
    /\ phase[d] = "bind"
    /\ IF port[PortOf[d]] = None
       THEN /\ port' = [port EXCEPT ![PortOf[d]] = d]
            /\ Goto(d, "unlink")
       ELSE Goto(d, "drop_info") /\ UNCHANGED port
    /\ overlapped' = IF \E e \in Daemons : phase[e] \in Leaving
                     THEN overlapped \cup {d} ELSE overlapped
    /\ UNCHANGED <<cancelled, open, socket, info, cliVars>>

(* Faulty variant of BindPort: a taken port is replaced by a free one.       *)
BindPortAny(d) ==
    /\ phase[d] = "bind"
    /\ \E q \in Ports :
          /\ port[q] = None
          /\ q = PortOf[d] \/ port[PortOf[d]] # None
          /\ port' = [port EXCEPT ![q] = d]
    /\ Goto(d, "unlink")
    /\ UNCHANGED <<cancelled, open, socket, info, overlapped, cliVars>>

(* The port decides which of several daemons runs: one that does not get it  *)
(* ends before it touches the socket or daemon.json.                         *)
BindPort(d) ==
    /\ phase[d] = "bind"
    /\ IF port[PortOf[d]] = None
       THEN /\ port' = [port EXCEPT ![PortOf[d]] = d]
            /\ Goto(d, "unlink")
       ELSE Goto(d, "exited") /\ UNCHANGED port
    /\ overlapped' = IF \E e \in Daemons : phase[e] \in Leaving
                     THEN overlapped \cup {d} ELSE overlapped
    /\ UNCHANGED <<cancelled, open, socket, info, cliVars>>

(* control.Listen removes what is at the socket path ...                     *)
Unlink(d) ==
    /\ phase[d] = "unlink"
    /\ socket' = None
    /\ Goto(d, "listen")
    /\ UNCHANGED <<cancelled, port, open, info, overlapped, cliVars>>

(* ... and listens there, which fails when something is there again.         *)
Listen(d) ==
    /\ phase[d] = "listen"
    /\ IF socket = None
       THEN /\ socket' = d
            /\ open' = open \cup {d}
            /\ Goto(d, "info")
       ELSE Goto(d, "close_port") /\ UNCHANGED <<socket, open>>
    /\ UNCHANGED <<cancelled, port, info, overlapped, cliVars>>

(* daemon.json; from here on the control server accepts calls.               *)
WriteInfo(d) ==
    /\ phase[d] = "info"
    /\ \/ info' = d /\ Goto(d, "load")
       \/ StartMayFail /\ Goto(d, "drop_socket") /\ UNCHANGED info
    /\ UNCHANGED <<cancelled, port, open, socket, overlapped, cliVars>>

(* The certificates.                                                         *)
Load(d) ==
    /\ phase[d] = "load"
    /\ \/ Goto(d, "serve")
       \/ StartMayFail /\ Goto(d, "drop_info")
    /\ UNCHANGED <<cancelled, port, open, socket, info, overlapped, cliVars>>

(* Closing the control listener unlinks the path, whoever it leads to.       *)
CloseListener(d) ==
    IF d \in open THEN open' = open \ {d} /\ socket' = None
                  ELSE UNCHANGED <<open, socket>>

(* The goroutine of control.Serve that waits for the context.                *)
CloseControl(d) ==
    /\ d \in cancelled \cap open
    /\ phase[d] \in Running \ {"info"}
    /\ CloseListener(d)
    /\ UNCHANGED <<phase, cancelled, port, info, overlapped, cliVars>>

(* Faulty variant of ShutDown: nothing waits for the context.                *)
ShutDownNever(d) == phase[d] = "serve" /\ d \in cancelled /\ UNCHANGED vars

Release(d) == port' = [q \in Ports |-> IF port[q] = d THEN None ELSE port[q]]

(* The goroutine that shuts the proxy down: its listener is closed at once,  *)
(* and Serve, and with it Run, returns.                                      *)
ShutDown(d) ==
    /\ phase[d] = "serve"
    /\ d \in cancelled
    /\ Release(d)
    /\ Goto(d, "drop_info")
    /\ UNCHANGED <<cancelled, open, socket, info, overlapped, cliVars>>

(* Faulty variant of DropInfo: daemon.json is left behind.                   *)
DropInfoNot(d) ==
    /\ phase[d] = "drop_info"
    /\ Goto(d, "drop_socket")
    /\ UNCHANGED <<cancelled, port, open, socket, info, overlapped, cliVars>>

(* The deferred calls of Run, last one first.                                *)
DropInfo(d) ==
    /\ phase[d] = "drop_info"
    /\ info' = None
    /\ Goto(d, "drop_socket")
    /\ UNCHANGED <<cancelled, port, open, socket, overlapped, cliVars>>

DropSocket(d) ==
    /\ phase[d] = "drop_socket"
    /\ socket' = None
    /\ Goto(d, "close_control")
    /\ UNCHANGED <<cancelled, port, open, info, overlapped, cliVars>>

DropControl(d) ==
    /\ phase[d] = "close_control"
    /\ CloseListener(d)
    /\ Goto(d, "close_port")
    /\ UNCHANGED <<cancelled, port, info, overlapped, cliVars>>

DropPort(d) ==
    /\ phase[d] = "close_port"
    /\ Release(d)
    /\ Goto(d, "exited")
    /\ UNCHANGED <<cancelled, open, socket, info, overlapped, cliVars>>

DaemonStep(d) ==
    \/ BindPort(d) \/ Unlink(d) \/ Listen(d) \/ WriteInfo(d) \/ Load(d)
    \/ CloseControl(d) \/ ShutDown(d)
    \/ DropInfo(d) \/ DropSocket(d) \/ DropControl(d) \/ DropPort(d)

(* A start that succeeded promises a daemon until somebody stops it.         *)
Forget == answered' = [s \in Starters |-> None] /\ UNCHANGED cli

(* The process dies: the system closes its listeners, the files stay.        *)
Crash(d) ==
    /\ phase[d] \in Running
    /\ Goto(d, "crashed")
    /\ open' = open \ {d}
    /\ Release(d)
    /\ Forget
    /\ UNCHANGED <<cancelled, socket, info, overlapped>>

-------------------------------------------------------------------------------
(* The commands.                                                             *)

(* The daemon that answers a call on the socket path.                        *)
Answers(d) ==
    /\ socket = d
    /\ d \in open
    /\ phase[d] \in {"load", "serve"} \cup Leaving

(* A call fails at once when nobody listens at the path.  A daemon that      *)
(* listens and does not accept yet makes its caller wait.                    *)
NobodyListens == socket = None \/ socket \notin open

Ping(s) ==
    /\ cli[s] \in {"idle", "poll"}
    /\ \E d \in Daemons :
          /\ Answers(d)
          /\ cli' = [cli EXCEPT ![s] = "ok"]
          /\ answered' = [answered EXCEPT ![s] = d]
    /\ UNCHANGED daemonVars

PingFails(s) ==
    /\ cli[s] = "idle"
    /\ NobodyListens
    /\ cli' = [cli EXCEPT ![s] = "spawn"]
    /\ UNCHANGED <<daemonVars, answered>>

(* spawnDaemon starts a process and polls it for four seconds.               *)
Spawn(s) ==
    /\ cli[s] = "spawn"
    /\ \E d \in Daemons : phase[d] = "none" /\ Goto(d, "bind")
    /\ cli' = [cli EXCEPT ![s] = "poll"]
    /\ UNCHANGED <<cancelled, port, open, socket, info, overlapped, answered>>

GiveUp(s) ==
    /\ cli[s] = "poll"
    /\ cli' = [cli EXCEPT ![s] = "failed"]
    /\ UNCHANGED <<daemonVars, answered>>

(* daemon start --foreground, as the startup services run it: no ping.       *)
Launch(d) ==
    /\ phase[d] = "none"
    /\ Goto(d, "bind")
    /\ UNCHANGED <<cancelled, port, open, socket, info, overlapped, cliVars>>

(* daemon stop is answered and then cancels the context; so does SIGTERM,    *)
(* which reaches a daemon also before it accepts calls.                      *)
Stop(d) ==
    /\ Answers(d)
    /\ cancelled' = cancelled \cup {d}
    /\ Forget
    /\ UNCHANGED <<phase, port, open, socket, info, overlapped>>

Terminate(d) ==
    /\ phase[d] \in Running
    /\ cancelled' = cancelled \cup {d}
    /\ Forget
    /\ UNCHANGED <<phase, port, open, socket, info, overlapped>>

Next ==
    \/ \E d \in Daemons : DaemonStep(d) \/ Crash(d) \/ Launch(d) \/ Stop(d) \/ Terminate(d)
    \/ \E s \in Starters : Ping(s) \/ PingFails(s) \/ Spawn(s) \/ GiveUp(s)

Spec == Init /\ [][Next]_vars

(* A daemon's main goroutine and the two that wait for its context run.      *)
FairSpec ==
    /\ Spec
    /\ \A d \in Daemons : WF_vars(DaemonStep(d) /\ phase' # phase)
                          /\ WF_vars(CloseControl(d))

-------------------------------------------------------------------------------
(* Properties.                                                               *)

(* A daemon that serves, and that nobody told to end, is the one at the      *)
(* control socket and in daemon.json: no daemon that lost the race for the   *)
(* port, failed to load its certificates or died takes them away, whatever   *)
(* starts were made at the same time.  The exception are daemons that got    *)
(* the port while a stopping one still had clean-up to do.                   *)
ServingDaemonIsReachable ==
    \A d \in Daemons :
        phase[d] = "serve" /\ d \notin cancelled \cup overlapped
            => socket = d /\ d \in open /\ info = d

(* A daemon that ended in its own time leaves neither its socket nor its     *)
(* daemon.json behind, also when it ended half-way through its start.        *)
ExitedDaemonLeavesNoFiles ==
    \A d \in Daemons : phase[d] = "exited" => socket # d /\ info # d

(* A daemon told to end does, wherever its start has got to, and the port is *)
(* free for the next one.                                                    *)
StoppedDaemonEnds ==
    \A d \in Daemons :
        d \in cancelled ~> phase[d] \in {"exited", "crashed"} /\ port[PortOf[d]] # d

-------------------------------------------------------------------------------
(* What the documentation says and the daemon does not keep.                 *)

(* "A single background daemon" (README.md).                                 *)
SingleDaemon == Cardinality({d \in Daemons : phase[d] = "serve"}) <= 1

Settled ==
    \A d \in Daemons :
        \/ phase[d] \in {"none", "exited", "crashed"}
        \/ phase[d] = "serve" /\ d \notin cancelled

(* "restart the daemon" (control.go): once daemon start has succeeded, and   *)
(* everything that was under way is over, a daemon answers, if none was      *)
(* stopped or died since.                                                    *)
RestartLeavesDaemon ==
    (Settled /\ \E s \in Starters : answered[s] # None)
        => \E d \in Daemons : phase[d] = "serve" /\ Answers(d)
===============================================================================

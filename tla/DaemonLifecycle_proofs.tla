------------------------ MODULE DaemonLifecycle_proofs ------------------------
(*****************************************************************************)
(* Proofs about DaemonLifecycle, for any number of daemons, start commands   *)
(* and ports.                                                                *)
(*****************************************************************************)
EXTENDS DaemonLifecycle, TLAPS

-------------------------------------------------------------------------------
(* Type correctness.                                                         *)

LEMMA StepTypeOK == TypeOK /\ [Next]_vars => TypeOK'
<1> SUFFICES ASSUME TypeOK, [Next]_vars
             PROVE  TypeOK'
  OBVIOUS
<1> USE DaemonAssumption, PortAssumption
    DEF TypeOK, cliVars, daemonVars, Goto, Release, CloseListener, Forget,
        Running, Starting, Leaving
<1>1. ASSUME NEW d \in Daemons, DaemonStep(d)
      PROVE  TypeOK'
  <2>1. CASE BindPort(d)
    BY <2>1 DEF BindPort
  <2>2. CASE Unlink(d) \/ Listen(d)
    BY <2>2 DEF Unlink, Listen
  <2>3. CASE WriteInfo(d) \/ Load(d)
    BY <2>3 DEF WriteInfo, Load
  <2>4. CASE CloseControl(d)
    BY <2>4 DEF CloseControl
  <2>5. CASE ShutDown(d)
    BY <2>5 DEF ShutDown
  <2>6. CASE DropInfo(d) \/ DropSocket(d)
    BY <2>6 DEF DropInfo, DropSocket
  <2>7. CASE DropControl(d)
    BY <2>7 DEF DropControl
  <2>8. CASE DropPort(d)
    BY <2>8 DEF DropPort
  <2> QED
    BY <1>1, <2>1, <2>2, <2>3, <2>4, <2>5, <2>6, <2>7, <2>8 DEF DaemonStep
<1>2. ASSUME NEW d \in Daemons, Crash(d)
      PROVE  TypeOK'
  BY <1>2 DEF Crash
<1>3. ASSUME NEW d \in Daemons, Launch(d) \/ Stop(d) \/ Terminate(d)
      PROVE  TypeOK'
  BY <1>3 DEF Launch, Stop, Terminate
<1>4. ASSUME NEW s \in Starters, Ping(s) \/ PingFails(s) \/ Spawn(s) \/ GiveUp(s)
      PROVE  TypeOK'
  BY <1>4 DEF Ping, PingFails, Spawn, GiveUp
<1>5. CASE UNCHANGED vars
  BY <1>5 DEF vars
<1> QED
  BY <1>1, <1>2, <1>3, <1>4, <1>5 DEF Next

(* Every variable keeps its type, and a port is only ever held by a daemon   *)
(* that was told to use it.                                                  *)
THEOREM LifecycleTypes == Spec => []TypeOK
<1>1. Init => TypeOK
  BY DaemonAssumption DEF Init, TypeOK, Running, Starting, Leaving
<1> QED
  BY <1>1, StepTypeOK, PTL DEF Spec

-------------------------------------------------------------------------------
(* What a daemon that has ended leaves behind.  A file is the daemon's only  *)
(* from the step that makes it to the deferred call that removes it.         *)

OwnedFiles ==
    \A d \in Daemons :
        /\ socket = d => phase[d] \in {"info", "load", "serve", "drop_info", "drop_socket", "crashed"}
        /\ info = d => phase[d] \in {"load", "serve", "drop_info", "crashed"}

LEMMA StepOwnedFiles == TypeOK /\ OwnedFiles /\ [Next]_vars => OwnedFiles'
<1> SUFFICES ASSUME TypeOK, OwnedFiles, [Next]_vars, NEW d \in Daemons
             PROVE  /\ (socket = d => phase[d] \in {"info", "load", "serve", "drop_info",
                                                    "drop_socket", "crashed"})'
                    /\ (info = d => phase[d] \in {"load", "serve", "drop_info", "crashed"})'
  BY DEF OwnedFiles
<1> USE DaemonAssumption
    DEF TypeOK, OwnedFiles, cliVars, daemonVars, Goto, CloseListener, Forget,
        Running, Starting, Leaving
<1>1. ASSUME NEW e \in Daemons, DaemonStep(e)
      PROVE  /\ (socket = d => phase[d] \in {"info", "load", "serve", "drop_info",
                                             "drop_socket", "crashed"})'
             /\ (info = d => phase[d] \in {"load", "serve", "drop_info", "crashed"})'
  <2>1. CASE BindPort(e)
    BY <2>1 DEF BindPort
  <2>2. CASE Unlink(e) \/ Listen(e)
    BY <2>2 DEF Unlink, Listen
  <2>3. CASE WriteInfo(e) \/ Load(e)
    BY <2>3 DEF WriteInfo, Load
  <2>4. CASE CloseControl(e) \/ ShutDown(e)
    BY <2>4 DEF CloseControl, ShutDown
  <2>5. CASE DropInfo(e) \/ DropSocket(e)
    BY <2>5 DEF DropInfo, DropSocket
  <2>6. CASE DropControl(e) \/ DropPort(e)
    BY <2>6 DEF DropControl, DropPort
  <2> QED
    BY <1>1, <2>1, <2>2, <2>3, <2>4, <2>5, <2>6 DEF DaemonStep
<1>2. ASSUME NEW e \in Daemons, Crash(e) \/ Launch(e) \/ Stop(e) \/ Terminate(e)
      PROVE  /\ (socket = d => phase[d] \in {"info", "load", "serve", "drop_info",
                                             "drop_socket", "crashed"})'
             /\ (info = d => phase[d] \in {"load", "serve", "drop_info", "crashed"})'
  BY <1>2 DEF Crash, Launch, Stop, Terminate
<1>3. ASSUME NEW s \in Starters, Ping(s) \/ PingFails(s) \/ Spawn(s) \/ GiveUp(s)
      PROVE  /\ (socket = d => phase[d] \in {"info", "load", "serve", "drop_info",
                                             "drop_socket", "crashed"})'
             /\ (info = d => phase[d] \in {"load", "serve", "drop_info", "crashed"})'
  BY <1>3 DEF Ping, PingFails, Spawn, GiveUp
<1>4. CASE UNCHANGED vars
  BY <1>4 DEF vars
<1> QED
  BY <1>1, <1>2, <1>3, <1>4 DEF Next

(* A daemon that ended in its own time leaves neither its socket nor its     *)
(* daemon.json behind, for any number of daemons on any ports.               *)
THEOREM ExitsLeaveNoFiles == Spec => []ExitedDaemonLeavesNoFiles
<1>1. Init => OwnedFiles
  BY DaemonAssumption DEF Init, OwnedFiles
<1>2. OwnedFiles => ExitedDaemonLeavesNoFiles
  BY DEF OwnedFiles, ExitedDaemonLeavesNoFiles
<1> QED
  BY <1>1, <1>2, StepOwnedFiles, LifecycleTypes, PTL DEF Spec

-------------------------------------------------------------------------------
(* Who can take the socket path away.  Between its bind and its shutdown a   *)
(* daemon holds its port; with one port there is one such daemon, and unless *)
(* it overlapped no other one still has clean-up to do.                      *)

Holding == {"unlink", "listen", "info", "load", "serve"}

PortsAreHeld ==
    \A d \in Daemons : phase[d] \in Holding => port[PortOf[d]] = d

OpenWhileUp ==
    \A d \in open : phase[d] \in Running \ {"bind", "unlink", "listen", "close_port"}

NobodyElseLeaves ==
    \A d \in Daemons :
        phase[d] \in Holding /\ d \notin overlapped
            => \A e \in Daemons \ {d} : phase[e] \notin Leaving

Reach(d) ==
    d \notin cancelled \cup overlapped =>
        /\ phase[d] \in {"info", "load", "serve"} => socket = d /\ d \in open
        /\ phase[d] \in {"load", "serve"} => info = d

LEMMA StepPortsAreHeld == TypeOK /\ PortsAreHeld /\ [Next]_vars => PortsAreHeld'
<1> SUFFICES ASSUME TypeOK, PortsAreHeld, [Next]_vars,
                    NEW d \in Daemons, phase'[d] \in Holding
             PROVE  port'[PortOf[d]] = d
  BY DEF PortsAreHeld
<1> USE DaemonAssumption, PortAssumption
    DEF TypeOK, PortsAreHeld, Holding, cliVars, daemonVars, Goto, Release, CloseListener,
        Forget, Running, Starting, Leaving
<1>1. ASSUME NEW e \in Daemons, DaemonStep(e)
      PROVE  port'[PortOf[d]] = d
  <2>1. CASE BindPort(e)
    BY <2>1 DEF BindPort
  <2>2. CASE Unlink(e) \/ Listen(e) \/ WriteInfo(e) \/ Load(e)
    BY <2>2 DEF Unlink, Listen, WriteInfo, Load
  <2>3. CASE CloseControl(e) \/ DropInfo(e) \/ DropSocket(e) \/ DropControl(e)
    BY <2>3 DEF CloseControl, DropInfo, DropSocket, DropControl
  <2>4. CASE ShutDown(e) \/ DropPort(e)
    BY <2>4 DEF ShutDown, DropPort
  <2> QED
    BY <1>1, <2>1, <2>2, <2>3, <2>4 DEF DaemonStep
<1>2. ASSUME NEW e \in Daemons, Crash(e) \/ Launch(e) \/ Stop(e) \/ Terminate(e)
      PROVE  port'[PortOf[d]] = d
  BY <1>2 DEF Crash, Launch, Stop, Terminate
<1>3. ASSUME NEW s \in Starters, Ping(s) \/ PingFails(s) \/ Spawn(s) \/ GiveUp(s)
      PROVE  port'[PortOf[d]] = d
  BY <1>3 DEF Ping, PingFails, Spawn, GiveUp
<1>4. CASE UNCHANGED vars
  BY <1>4 DEF vars
<1> QED
  BY <1>1, <1>2, <1>3, <1>4 DEF Next

LEMMA StepOpenWhileUp == TypeOK /\ OpenWhileUp /\ [Next]_vars => OpenWhileUp'
<1> SUFFICES ASSUME TypeOK, OpenWhileUp, [Next]_vars, NEW d \in open'
             PROVE  phase'[d] \in Running \ {"bind", "unlink", "listen", "close_port"}
  BY DEF OpenWhileUp
<1> USE DEF TypeOK, OpenWhileUp, cliVars, daemonVars, Goto, CloseListener, Forget,
            Running, Starting, Leaving
<1>1. ASSUME NEW e \in Daemons, DaemonStep(e)
      PROVE  phase'[d] \in Running \ {"bind", "unlink", "listen", "close_port"}
  <2>1. CASE BindPort(e) \/ Unlink(e) \/ Listen(e)
    BY <2>1 DEF BindPort, Unlink, Listen
  <2>2. CASE WriteInfo(e) \/ Load(e) \/ CloseControl(e) \/ ShutDown(e)
    BY <2>2 DEF WriteInfo, Load, CloseControl, ShutDown
  <2>3. CASE DropInfo(e) \/ DropSocket(e) \/ DropControl(e) \/ DropPort(e)
    BY <2>3 DEF DropInfo, DropSocket, DropControl, DropPort
  <2> QED
    BY <1>1, <2>1, <2>2, <2>3 DEF DaemonStep
<1>2. ASSUME NEW e \in Daemons, Crash(e) \/ Launch(e) \/ Stop(e) \/ Terminate(e)
      PROVE  phase'[d] \in Running \ {"bind", "unlink", "listen", "close_port"}
  BY <1>2 DEF Crash, Launch, Stop, Terminate
<1>3. ASSUME NEW s \in Starters, Ping(s) \/ PingFails(s) \/ Spawn(s) \/ GiveUp(s)
      PROVE  phase'[d] \in Running \ {"bind", "unlink", "listen", "close_port"}
  BY <1>3 DEF Ping, PingFails, Spawn, GiveUp
<1>4. CASE UNCHANGED vars
  BY <1>4 DEF vars
<1> QED
  BY <1>1, <1>2, <1>3, <1>4 DEF Next

OnePort == \A d, e \in Daemons : PortOf[d] = PortOf[e]

LEMMA StepNobodyElseLeaves ==
    ASSUME OnePort, TypeOK, PortsAreHeld, NobodyElseLeaves, [Next]_vars
    PROVE  NobodyElseLeaves'
<1> SUFFICES ASSUME NEW d \in Daemons, NEW f \in Daemons \ {d},
                    phase'[d] \in Holding, d \notin overlapped'
             PROVE  phase'[f] \notin Leaving
  BY DEF NobodyElseLeaves
<1>0. phase[d] \in Holding /\ d \notin overlapped
          => phase[f] \notin Leaving /\ phase[f] \notin Holding
  BY DEF OnePort, PortsAreHeld, NobodyElseLeaves
<1> USE <1>0 DEF TypeOK, Holding, cliVars, daemonVars, Goto, CloseListener, Forget, Running,
                 Starting, Leaving
<1>1. ASSUME NEW e \in Daemons, DaemonStep(e)
      PROVE  phase'[f] \notin Leaving
  <2>1. CASE BindPort(e)
    BY <2>1 DEF BindPort
  <2>2. CASE Unlink(e) \/ Listen(e)
    BY <2>2 DEF Unlink, Listen
  <2>3. CASE WriteInfo(e) \/ Load(e)
    BY <2>3 DEF WriteInfo, Load
  <2>4. CASE CloseControl(e) \/ ShutDown(e)
    BY <2>4 DEF CloseControl, ShutDown
  <2>5. CASE DropInfo(e) \/ DropSocket(e)
    BY <2>5 DEF DropInfo, DropSocket
  <2>6. CASE DropControl(e) \/ DropPort(e)
    BY <2>6 DEF DropControl, DropPort
  <2> QED
    BY <1>1, <2>1, <2>2, <2>3, <2>4, <2>5, <2>6 DEF DaemonStep
<1>2. ASSUME NEW e \in Daemons, Crash(e) \/ Launch(e) \/ Stop(e) \/ Terminate(e)
      PROVE  phase'[f] \notin Leaving
  BY <1>2 DEF Crash, Launch, Stop, Terminate
<1>3. ASSUME NEW s \in Starters, Ping(s) \/ PingFails(s) \/ Spawn(s) \/ GiveUp(s)
      PROVE  phase'[f] \notin Leaving
  BY <1>3 DEF Ping, PingFails, Spawn, GiveUp
<1>4. CASE UNCHANGED vars
  BY <1>4 DEF vars
<1> QED
  BY <1>1, <1>2, <1>3, <1>4 DEF Next

(* While a daemon that did not overlap is up, every other one has not bound  *)
(* its port yet, or is gone.                                                 *)
LEMMA OthersAreAway ==
    ASSUME OnePort, TypeOK, PortsAreHeld, NobodyElseLeaves,
           NEW d \in Daemons, phase[d] \in Holding, d \notin overlapped,
           NEW e \in Daemons \ {d}
    PROVE  phase[e] \in {"none", "bind", "exited", "crashed"}
<1>1. phase[e] \notin Holding
  BY DEF OnePort, PortsAreHeld
<1>2. phase[e] \notin Leaving
  BY DEF NobodyElseLeaves
<1> QED
  BY <1>1, <1>2 DEF TypeOK, Running, Starting, Holding

LEMMA StepReach ==
    ASSUME OnePort, TypeOK, OwnedFiles, PortsAreHeld, NobodyElseLeaves, OpenWhileUp,
           \A d \in Daemons : Reach(d),
           [Next]_vars, NEW d \in Daemons
    PROVE  Reach(d)'
<1> SUFFICES ASSUME d \notin cancelled' \cup overlapped', phase'[d] \in {"info", "load", "serve"}
             PROVE  /\ socket' = d /\ d \in open'
                    /\ phase'[d] \in {"load", "serve"} => info' = d
  BY DEF Reach
<1>0. Reach(d)
  OBVIOUS
<1> USE <1>0 DEF TypeOK, Reach, cliVars, daemonVars, Goto, CloseListener, Forget, Running,
                 Starting, Leaving
<1>1. ASSUME NEW e \in Daemons, DaemonStep(e)
      PROVE  /\ socket' = d /\ d \in open'
             /\ phase'[d] \in {"load", "serve"} => info' = d
  <2>1. CASE e = d
    <3>1. CASE BindPort(d) \/ Unlink(d) \/ Listen(d)
      BY <2>1, <3>1 DEF BindPort, Unlink, Listen
    <3>2. CASE WriteInfo(d) \/ Load(d)
      BY <2>1, <3>2 DEF WriteInfo, Load
    <3>3. CASE CloseControl(d) \/ ShutDown(d)
      BY <2>1, <3>3 DEF CloseControl, ShutDown
    <3>4. CASE DropInfo(d) \/ DropSocket(d) \/ DropControl(d) \/ DropPort(d)
      BY <2>1, <3>4 DEF DropInfo, DropSocket, DropControl, DropPort
    <3> QED
      BY <1>1, <2>1, <3>1, <3>2, <3>3, <3>4 DEF DaemonStep
  <2>2. CASE e # d
    <3>1. /\ phase'[d] = phase[d]
          /\ d \notin cancelled /\ d \notin overlapped
      BY <1>1, <2>2 DEF DaemonStep, BindPort, Unlink, Listen, WriteInfo, Load, CloseControl,
         ShutDown, DropInfo, DropSocket, DropControl, DropPort
    <3>2. phase[e] \in {"none", "bind", "exited", "crashed"}
      BY <2>2, <3>1, OthersAreAway DEF Holding
    <3>3. e \notin open
      BY <3>2 DEF OpenWhileUp
    <3>4. BindPort(e)
      BY <1>1, <3>2, <3>3 DEF DaemonStep, Unlink, Listen, WriteInfo, Load, CloseControl,
         ShutDown, DropInfo, DropSocket, DropControl, DropPort
    <3> QED
      BY <3>1, <3>4 DEF BindPort
  <2> QED
    BY <2>1, <2>2
<1>2. ASSUME NEW e \in Daemons, Crash(e) \/ Launch(e) \/ Stop(e) \/ Terminate(e)
      PROVE  /\ socket' = d /\ d \in open'
             /\ phase'[d] \in {"load", "serve"} => info' = d
  BY <1>2 DEF Crash, Launch, Stop, Terminate
<1>3. ASSUME NEW s \in Starters, Ping(s) \/ PingFails(s) \/ Spawn(s) \/ GiveUp(s)
      PROVE  /\ socket' = d /\ d \in open'
             /\ phase'[d] \in {"load", "serve"} => info' = d
  BY <1>3 DEF Ping, PingFails, Spawn, GiveUp
<1>4. CASE UNCHANGED vars
  BY <1>4 DEF vars
<1> QED
  BY <1>1, <1>2, <1>3, <1>4 DEF Next

IReach ==
    /\ OwnedFiles
    /\ PortsAreHeld
    /\ OpenWhileUp
    /\ NobodyElseLeaves
    /\ \A d \in Daemons : Reach(d)

(* When all daemons were told the same port, one that serves, that nobody    *)
(* told to end and that did not get the port from a stopping one is the      *)
(* daemon at the control socket and in daemon.json.                          *)
THEOREM OnePortDaemonIsReachable ==
    ASSUME OnePort
    PROVE  Spec => []ServingDaemonIsReachable
<1>1. Init => IReach
  BY DaemonAssumption DEF Init, IReach, OwnedFiles, PortsAreHeld, Holding, OpenWhileUp,
     NobodyElseLeaves, Reach
<1>2. TypeOK /\ IReach /\ [Next]_vars => IReach'
  <2> SUFFICES ASSUME TypeOK, IReach, [Next]_vars
               PROVE  IReach'
    OBVIOUS
  <2>1. OwnedFiles' /\ PortsAreHeld' /\ OpenWhileUp'
    BY StepOwnedFiles, StepPortsAreHeld, StepOpenWhileUp DEF IReach
  <2>2. NobodyElseLeaves'
    BY StepNobodyElseLeaves DEF IReach
  <2>3. \A d \in Daemons : Reach(d)'
    BY StepReach DEF IReach
  <2> QED
    BY <2>1, <2>2, <2>3 DEF IReach
<1>3. IReach => ServingDaemonIsReachable
  BY DEF IReach, Reach, ServingDaemonIsReachable
<1> QED
  BY <1>1, <1>2, <1>3, LifecycleTypes, PTL DEF Spec
===============================================================================

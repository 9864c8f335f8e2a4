----------------------------- MODULE Runner_proofs -----------------------------
(*****************************************************************************)
(* Proofs about Runner, for any number of runners and ports.                 *)
(*****************************************************************************)
EXTENDS Runner, TLAPS

(* How far a runner is and what that says of its application and of what it  *)
(* has told it.                                                              *)
Life(r) ==
    /\ pc[r] \in Before => app[r] = "none"
    /\ pc[r] \in Before \cup {"watch"} => r \notin asked
    /\ pc[r] \in Waiting => app[r] # "none"
    /\ pc[r] \in {"wait_signal", "wait_context"} => r \in asked
    /\ pc[r] = "wait_context" => r \in done
    /\ pc[r] \in {"leave", "ended"} => app[r] # "running"

(* How the leader ended, that only an application has processes, and that    *)
(* none of them is early once the group has its signal.                      *)
Group(r) ==
    /\ code[r] # "none" <=> app[r] = "ended"
    /\ kids[r] # {} => app[r] # "none"
    /\ r \notin asked /\ pc[r] = "watch" => code[r] \in {"none", "own"}
    /\ r \in asked => "early" \notin kids[r]

(* What a runner leaves behind when it ends in the ordinary way.             *)
Leaving(r) ==
    pc[r] \in {"leave", "ended"} =>
        /\ code[r] # "own" => r \in asked \/ kids[r] = {}
        /\ code[r] # "none" /\ r \notin done => result[r] = "code"

Lives == \A r \in Runners : Life(r) /\ Group(r) /\ Leaving(r)

-------------------------------------------------------------------------------
(* Type correctness, and the life of one runner.                             *)

LEMMA StepTypeOK == TypeOK /\ Next => TypeOK'
<1> SUFFICES ASSUME TypeOK, Next
             PROVE  TypeOK'
  OBVIOUS
<1> USE DEF TypeOK, groupVars, toldVars, Goto, Return, Before, Waiting
<1>1. ASSUME NEW q \in Ports, StrangerMoves(q)
      PROVE  TypeOK'
  BY <1>1 DEF StrangerMoves
<1>2. ASSUME NEW r \in Runners, RunStep(r)
      PROVE  TypeOK'
  <2>1. CASE FindPort(r) \/ UsePort(r)
    BY <2>1 DEF FindPort, FreePort, UsePort
  <2>2. CASE NoFreePort(r)
    BY <2>2 DEF NoFreePort
  <2>3. CASE Register(r)
    BY <2>3 DEF Register
  <2>4. CASE StartApp(r)
    BY <2>4 DEF StartApp
  <2>5. CASE AppDone(r)
    BY <2>5 DEF AppDone
  <2>6. CASE ForwardSignal(r)
    BY <2>6 DEF ForwardSignal, SignalGroup, Kids
  <2>7. CASE StopGroup(r)
    BY <2>7 DEF StopGroup, SignalGroup, Kids
  <2>8. CASE Exited(r)
    BY <2>8 DEF Exited
  <2>9. CASE KillLeader(r)
    BY <2>9 DEF KillLeader
  <2>10. CASE Deregister(r)
    BY <2>10 DEF Deregister
  <2> QED
    BY <1>2, <2>1, <2>2, <2>3, <2>4, <2>5, <2>6, <2>7, <2>8, <2>9, <2>10 DEF RunStep
<1>3. ASSUME NEW r \in Runners, AppStep(r)
      PROVE  TypeOK'
  <2>1. CASE AppListens(r)
    BY <2>1 DEF AppListens
  <2>2. CASE AppCloses(r)
    BY <2>2 DEF AppCloses
  <2>3. CASE AppForks(r)
    BY <2>3 DEF AppForks, Kids
  <2>4. CASE \E leader \in BOOLEAN, rest \in SUBSET kids[r] : Quit(r, leader, rest)
    BY <2>4 DEF Quit
  <2> QED
    BY <1>3, <2>1, <2>2, <2>3, <2>4 DEF AppStep, AppQuits, KidsQuit
<1>4. ASSUME NEW r \in Runners,
             Interrupt(r) \/ Terminate(r) \/ Kill(r)
      PROVE  TypeOK'
  BY <1>4 DEF Interrupt, Terminate, Kill
<1> QED
  BY <1>1, <1>2, <1>3, <1>4 DEF Next

(* Steps of a runner concern its own life only.                              *)
LEMMA OthersLive ==
    ASSUME TypeOK, Lives, NEW r \in Runners, NEW s \in Runners \ {r},
           RunStep(r) \/ AppStep(r)
              \/ Interrupt(r) \/ Terminate(r) \/ Kill(r)
    PROVE  Life(s)' /\ Group(s)' /\ Leaving(s)'
<1> USE DEF TypeOK, groupVars, toldVars, Goto, Return
<1>1. Life(s) /\ Group(s) /\ Leaving(s)
  BY DEF Lives
<1>2. /\ pc'[s] = pc[s] /\ app'[s] = app[s] /\ kids'[s] = kids[s] /\ code'[s] = code[s]
      /\ result'[s] = result[s] /\ (s \in asked' <=> s \in asked) /\ (s \in done' <=> s \in done)
  BY DEF RunStep, SignalGroup, UsePort, FindPort, NoFreePort, Register, StartApp, AppDone, ForwardSignal, StopGroup,
         Exited, KillLeader, Deregister, AppStep, AppListens, AppCloses, AppForks, AppQuits,
         KidsQuit, Quit, Interrupt, Terminate, Kill
<1> QED
  BY <1>1, <1>2 DEF Life, Group, Leaving

LEMMA RunLives ==
    ASSUME TypeOK, Lives, NEW r \in Runners, RunStep(r)
    PROVE  Life(r)' /\ Group(r)' /\ Leaving(r)'
<1> USE DEF TypeOK, groupVars, toldVars, Goto, Return, Before, Waiting
<1>0. Life(r) /\ Group(r) /\ Leaving(r)
  BY DEF Lives
<1>1. CASE FindPort(r) \/ UsePort(r)
  BY <1>0, <1>1 DEF FindPort, UsePort, Life, Group, Leaving
<1>2. CASE NoFreePort(r)
  BY <1>0, <1>2 DEF NoFreePort, Life, Group, Leaving
<1>3. CASE Register(r)
  BY <1>0, <1>3 DEF Register, Life, Group, Leaving
<1>4. CASE StartApp(r)
  BY <1>0, <1>4 DEF StartApp, Life, Group, Leaving
<1>5. CASE AppDone(r)
  BY <1>0, <1>5 DEF AppDone, Life, Group, Leaving
<1>6. CASE ForwardSignal(r)
  BY <1>0, <1>6 DEF ForwardSignal, SignalGroup, Life, Group, Leaving
<1>7. CASE StopGroup(r)
  BY <1>0, <1>7 DEF StopGroup, SignalGroup, Life, Group, Leaving
<1>8. CASE Exited(r)
  BY <1>0, <1>8 DEF Exited, Life, Group, Leaving
<1>9. CASE KillLeader(r)
  BY <1>0, <1>9 DEF KillLeader, Life, Group, Leaving
<1>10. CASE Deregister(r)
  BY <1>0, <1>10 DEF Deregister, Life, Group, Leaving
<1> QED
  BY <1>1, <1>2, <1>3, <1>4, <1>5, <1>6, <1>7, <1>8, <1>9, <1>10 DEF RunStep

LEMMA AppLives ==
    ASSUME TypeOK, Lives, NEW r \in Runners, AppStep(r)
    PROVE  Life(r)' /\ Group(r)' /\ Leaving(r)'
<1> USE DEF TypeOK, groupVars, toldVars, Before, Waiting
<1>0. Life(r) /\ Group(r) /\ Leaving(r)
  BY DEF Lives
<1>1. CASE AppListens(r) \/ AppCloses(r)
  BY <1>0, <1>1 DEF AppListens, AppCloses, Life, Group, Leaving
<1>2. CASE AppForks(r)
  BY <1>0, <1>2 DEF AppForks, GroupAlive, Life, Group, Leaving
<1>3. CASE AppQuits(r)
  BY <1>0, <1>3 DEF AppQuits, Quit, Life, Group, Leaving
<1>4. CASE KidsQuit(r)
  BY <1>0, <1>4 DEF KidsQuit, Quit, Life, Group, Leaving
<1> QED
  BY <1>1, <1>2, <1>3, <1>4 DEF AppStep

LEMMA ToldLives ==
    ASSUME TypeOK, Lives, NEW r \in Runners,
           Interrupt(r) \/ Terminate(r) \/ Kill(r)
    PROVE  Life(r)' /\ Group(r)' /\ Leaving(r)'
<1> USE DEF TypeOK, groupVars, toldVars, Goto, Before, Waiting
<1>0. Life(r) /\ Group(r) /\ Leaving(r)
  BY DEF Lives
<1>1. CASE Kill(r)
  BY <1>0, <1>1 DEF Kill, Life, Group, Leaving
<1>2. CASE Interrupt(r) \/ Terminate(r)
  BY <1>0, <1>2 DEF Interrupt, Terminate, Life, Group, Leaving
<1> QED
  BY <1>1, <1>2

LEMMA LivesInvariant == Spec => [](TypeOK /\ Lives)
<1>1. Init => TypeOK /\ Lives
  BY DEF Init, TypeOK, Lives, Life, Group, Leaving, Before, Waiting
<1>2. TypeOK /\ Lives /\ [Next]_vars => TypeOK' /\ Lives'
  <2> SUFFICES ASSUME TypeOK, Lives, [Next]_vars
               PROVE  TypeOK' /\ Lives'
    OBVIOUS
  <2>1. CASE UNCHANGED vars
    BY <2>1 DEF vars, groupVars, toldVars, TypeOK, Lives, Life, Group, Leaving
  <2>2. ASSUME NEW q \in Ports, StrangerMoves(q)
        PROVE  Lives'
    BY <2>2 DEF StrangerMoves, toldVars, Lives, Life, Group, Leaving
  <2>3. ASSUME NEW r \in Runners,
               RunStep(r) \/ AppStep(r)
                  \/ Interrupt(r) \/ Terminate(r) \/ Kill(r)
        PROVE  Lives'
    <3>1. \A s \in Runners \ {r} : Life(s)' /\ Group(s)' /\ Leaving(s)'
      BY <2>3, OthersLive
    <3>2. Life(r)' /\ Group(r)' /\ Leaving(r)'
      BY <2>3, RunLives, AppLives, ToldLives
    <3> QED
      BY <3>1, <3>2 DEF Lives
  <2> QED
    BY <2>1, <2>2, <2>3, StepTypeOK DEF Next
<1> QED
  BY <1>1, <1>2, PTL DEF Spec

-------------------------------------------------------------------------------
(* Ports.                                                                    *)

(* A route leads to the port its runner has; who listens lives; and a port   *)
(* that several runners have, or that is one's and another listens on, has a *)
(* gap.                                                                      *)
PortsMeant ==
    /\ \A r \in Runners :
          /\ pc[r] \in {"none", "found"} => route[r] = None
          /\ route[r] # None => route[r] = port[r]
    /\ \A q \in Ports, u \in Runners :
          listener[q] = u =>
             GroupAlive(u) /\ \A s \in Claimants(q) : s # u => q \in gap
    /\ \A q \in Ports : \A r, s \in Claimants(q) : r # s => q \in gap

(* A step that finds no port and lets nobody listen anew keeps this.         *)
LEMMA KeepPortsMeant ==
    ASSUME TypeOK, PortsMeant, gap' = gap,
           \A q \in Ports : Claimants(q)' \subseteq Claimants(q),
           \A q \in Ports, u \in Runners :
              listener'[q] = u => listener[q] = u /\ GroupAlive(u)',
           \A r \in Runners :
              /\ pc'[r] \in {"none", "found"} => route'[r] = None
              /\ route'[r] # None => route'[r] = port'[r]
    PROVE  PortsMeant'
BY DEF PortsMeant

(* A runner that has found or was given port q.                              *)
LEMMA NewPort ==
    ASSUME TypeOK, Lives, PortsMeant, NEW r \in Runners, NEW q \in Ports,
           pc[r] = "none", UNCHANGED <<route, app, kids, listener>>,
           pc' = [pc EXCEPT ![r] = "found"], port' = [port EXCEPT ![r] = q],
           gap \subseteq gap',
           Claimants(q) # {} => q \in gap',
           listener[q] \in Runners => q \in gap'
    PROVE  PortsMeant'
<1>1. ~GroupAlive(r) /\ ~Alive(r)
  BY DEF Lives, Life, Group, Before, GroupAlive, Alive, Waiting, TypeOK
<1>2. /\ Claimants(q)' \subseteq Claimants(q) \cup {r}
      /\ \A p \in Ports \ {q} : Claimants(p)' \subseteq Claimants(p)
  BY DEF Claimants, Alive, GroupAlive, TypeOK
<1>3. \A s \in Runners : GroupAlive(s)' <=> GroupAlive(s)
  BY DEF GroupAlive
<1>4. \A s \in Runners : /\ pc'[s] \in {"none", "found"} => route'[s] = None
                         /\ route'[s] # None => route'[s] = port'[s]
  BY DEF PortsMeant, TypeOK
<1>5. \A p \in Ports, u \in Runners :
         listener'[p] = u => GroupAlive(u)' /\ \A s \in Claimants(p)' : s # u => p \in gap'
  BY <1>2, <1>3 DEF PortsMeant
<1>6. \A p \in Ports : \A s, t \in Claimants(p)' : s # t => p \in gap'
  BY <1>2 DEF PortsMeant
<1> QED
  BY <1>4, <1>5, <1>6 DEF PortsMeant

LEMMA RunPorts ==
    ASSUME TypeOK, Lives, PortsMeant, TypeOK', NEW r \in Runners, RunStep(r)
    PROVE  PortsMeant'
<1> USE DEF groupVars, toldVars, Goto, Return
<1>0. /\ \A s \in Runners : Life(s) /\ Group(s)
      /\ None \notin Ports /\ None \notin Runners
  BY PortAssumption, RunnerAssumption DEF Lives
<1>1. CASE FindPort(r) \/ UsePort(r)
  <2>1. /\ UNCHANGED <<route, app, kids, listener>> /\ pc[r] = "none"
        /\ pc' = [pc EXCEPT ![r] = "found"]
    BY <1>1 DEF FindPort, UsePort
  <2>2. CASE FindPort(r)
    <3>1. PICK q \in FreePort(listener) :
            /\ port' = [port EXCEPT ![r] = q]
            /\ gap' = IF \E s \in Claimants(q) : listener[q] # s THEN gap \cup {q} ELSE gap
      BY <2>2 DEF FindPort
    <3>2. q \in Ports /\ listener[q] = None /\ Claimants(q) \subseteq Runners
      BY DEF FreePort, Claimants
    <3>3. gap \subseteq gap' /\ (Claimants(q) # {} => q \in gap')
      BY <1>0, <3>1, <3>2
    <3> QED
      BY <1>0, <2>1, <3>1, <3>2, <3>3, NewPort
  <2>3. CASE UsePort(r)
    <3>1. PICK q \in Ports :
            /\ port' = [port EXCEPT ![r] = q]
            /\ gap' = IF Claimants(q) # {} \/ listener[q] \in Runners THEN gap \cup {q} ELSE gap
      BY <2>3 DEF UsePort
    <3>2. /\ gap \subseteq gap' /\ (Claimants(q) # {} => q \in gap')
          /\ listener[q] \in Runners => q \in gap'
      BY <3>1
    <3> QED
      BY <2>1, <3>1, <3>2, NewPort
  <2> QED
    BY <1>1, <2>2, <2>3
<1>2. CASE Register(r) \/ NoFreePort(r) \/ StartApp(r) \/ AppDone(r) \/ ForwardSignal(r)
           \/ StopGroup(r) \/ Exited(r) \/ Deregister(r)
  <2>1. /\ UNCHANGED <<port, listener, gap>>
        /\ \A s \in Runners : /\ Alive(s)' => Alive(s)
                              /\ GroupAlive(s)' => GroupAlive(s) \/ Alive(s)
                              /\ GroupAlive(s) => GroupAlive(s)'
    BY <1>0, <1>2 DEF Register, NoFreePort, StartApp, AppDone, ForwardSignal, StopGroup, Exited,
                      Deregister, SignalGroup, Alive, GroupAlive, Waiting, TypeOK, Life, Before
  <2>2. \A s \in Runners : /\ pc'[s] \in {"none", "found"} => route'[s] = None
                           /\ route'[s] # None => route'[s] = port'[s]
    BY <1>2 DEF Register, NoFreePort, StartApp, AppDone, ForwardSignal, StopGroup, Exited,
                Deregister, PortsMeant, TypeOK
  <2>3. \A q \in Ports : /\ Claimants(q)' \subseteq Claimants(q)
                         /\ \A s \in Claimants(q) : GroupAlive(s) => s \in Claimants(q)'
    BY <2>1 DEF Claimants
  <2>4. \A q \in Ports, u \in Runners :
           listener'[q] = u => listener[q] = u /\ GroupAlive(u)'
    BY <2>1, <2>3 DEF PortsMeant
  <2> QED
    BY <2>1, <2>2, <2>3, <2>4, KeepPortsMeant
<1>3. CASE KillLeader(r)
  <2>1. /\ UNCHANGED <<port, pc, route, kids, gap>>
        /\ \A s \in Runners : GroupAlive(s)' => GroupAlive(s)
        /\ \A s \in Runners \ {r} : GroupAlive(s) => GroupAlive(s)'
        /\ \A q \in Ports : listener'[q] = r => kids[r] # {}
        /\ \A q \in Ports : listener'[q] # None => listener'[q] = listener[q]
        /\ kids[r] # {} => GroupAlive(r)'
    BY <1>3, RunnerAssumption DEF KillLeader, GroupAlive, TypeOK
  <2>2. \A q \in Ports : Claimants(q)' \subseteq Claimants(q)
    BY <2>1 DEF Claimants, Alive
  <2>3. \A q \in Ports, u \in Runners :
           listener'[q] = u => listener[q] = u /\ GroupAlive(u)'
    BY <2>1, RunnerAssumption DEF PortsMeant, Claimants
  <2>4. \A s \in Runners : /\ pc'[s] \in {"none", "found"} => route'[s] = None
                           /\ route'[s] # None => route'[s] = port'[s]
    BY <2>1 DEF PortsMeant
  <2> QED
    BY <2>1, <2>2, <2>3, <2>4, KeepPortsMeant
<1> QED
  BY <1>1, <1>2, <1>3 DEF RunStep

LEMMA AppPorts ==
    ASSUME TypeOK, Lives, PortsMeant, TypeOK', NEW r \in Runners, AppStep(r)
    PROVE  PortsMeant'
<1> USE DEF groupVars, toldVars
<1>0. \A s \in Runners : /\ pc'[s] \in {"none", "found"} => route'[s] = None
                         /\ route'[s] # None => route'[s] = port'[s]
  BY DEF AppStep, AppListens, AppCloses, AppForks, AppQuits, KidsQuit, Quit, PortsMeant
<1>1. CASE AppListens(r)
  <2>1. PICK p \in Ports :
          /\ listener' = [listener EXCEPT ![p] = r]
          /\ gap' = IF p # port[r] /\ Claimants(p) # {} THEN gap \cup {p} ELSE gap
    BY <1>1 DEF AppListens
  <2>2. /\ UNCHANGED <<pc, port, route, app, kids>> /\ GroupAlive(r)
        /\ \A q \in Ports : Claimants(q)' = Claimants(q)
        /\ \A s \in Runners : GroupAlive(s)' <=> GroupAlive(s)
    BY <1>1 DEF AppListens, Claimants, Alive, GroupAlive
  <2>3. gap \subseteq gap' /\ (p # port[r] /\ Claimants(p) # {} => p \in gap')
    BY <2>1
  <2>4. listener'[p] = r /\ \A q \in Ports \ {p} : listener'[q] = listener[q]
    BY <2>1 DEF TypeOK
  <2>5. p = port[r] => r \in Claimants(p)
    BY <2>2 DEF Claimants
  <2>6. \A s \in Claimants(p) : s # r => p \in gap'
    BY <2>3, <2>5 DEF PortsMeant
  <2>7. \A q \in Ports, u \in Runners :
           listener'[q] = u => GroupAlive(u)' /\ \A s \in Claimants(q)' : s # u => q \in gap'
    BY <2>2, <2>3, <2>4, <2>6 DEF PortsMeant
  <2>8. \A q \in Ports : \A s, t \in Claimants(q)' : s # t => q \in gap'
    BY <2>2, <2>3 DEF PortsMeant
  <2> QED
    BY <1>0, <2>7, <2>8 DEF PortsMeant
<1>2. CASE AppCloses(r)
  <2>1. \A q \in Ports : Claimants(q)' = Claimants(q)
    BY <1>2 DEF AppCloses, Claimants, Alive, GroupAlive
  <2>2. \A q \in Ports : listener'[q] = listener[q] \/ listener'[q] = None
    BY <1>2 DEF AppCloses, TypeOK
  <2>3. \A q \in Ports, u \in Runners :
           listener'[q] = u => listener[q] = u /\ GroupAlive(u)'
    BY <1>2, <2>1, <2>2, RunnerAssumption DEF AppCloses, PortsMeant, GroupAlive
  <2> QED
    BY <1>0, <1>2, <2>1, <2>3, KeepPortsMeant DEF AppCloses
<1>3. CASE AppForks(r)
  <2>1. UNCHANGED <<pc, port, listener, gap>> /\ \A s \in Runners : GroupAlive(s)' <=> GroupAlive(s)
    BY <1>3 DEF AppForks, GroupAlive
  <2>2. \A q \in Ports : Claimants(q)' = Claimants(q)
    BY <2>1 DEF Claimants, Alive
  <2>3. \A q \in Ports, u \in Runners :
           listener'[q] = u => listener[q] = u /\ GroupAlive(u)'
    BY <2>1, <2>2 DEF PortsMeant
  <2> QED
    BY <1>0, <2>1, <2>2, <2>3, KeepPortsMeant
<1>4. CASE AppQuits(r) \/ KidsQuit(r)
  <2>1. /\ UNCHANGED <<pc, port, gap>>
        /\ \A s \in Runners : GroupAlive(s)' => GroupAlive(s)
        /\ \A s \in Runners \ {r} : GroupAlive(s) => GroupAlive(s)'
        /\ \A q \in Ports : listener'[q] = r => GroupAlive(r)'
        /\ \A q \in Ports : listener'[q] # None => listener'[q] = listener[q]
    BY <1>4, RunnerAssumption DEF AppQuits, KidsQuit, Quit, GroupAlive, TypeOK
  <2>2. \A q \in Ports : Claimants(q)' \subseteq Claimants(q)
    BY <2>1 DEF Claimants, Alive
  <2>3. \A q \in Ports, u \in Runners :
           listener'[q] = u => listener[q] = u /\ GroupAlive(u)'
    BY <2>1, RunnerAssumption DEF PortsMeant, Claimants
  <2> QED
    BY <1>0, <2>1, <2>2, <2>3, KeepPortsMeant
<1> QED
  BY <1>1, <1>2, <1>3, <1>4 DEF AppStep

(* Those who tell a runner to end, and other programs.                       *)
LEMMA OtherPorts ==
    ASSUME TypeOK, PortsMeant, TypeOK',
           \/ \E q \in Ports : StrangerMoves(q)
           \/ \E r \in Runners :
                 Interrupt(r) \/ Terminate(r) \/ Kill(r)
    PROVE  PortsMeant'
<1> USE DEF groupVars, toldVars, Goto
<1>1. ASSUME NEW q \in Ports, StrangerMoves(q)
      PROVE  PortsMeant'
  <2>1. UNCHANGED <<pc, port, route, gap, app, kids>>
    BY <1>1 DEF StrangerMoves
  <2>2. \A p \in Ports : Claimants(p)' = Claimants(p)
    BY <2>1 DEF Claimants, Alive, GroupAlive
  <2>3. \A p \in Ports : listener'[p] \in Runners => listener'[p] = listener[p]
    BY <1>1, RunnerAssumption DEF StrangerMoves, TypeOK
  <2> QED
    BY <2>1, <2>2, <2>3, KeepPortsMeant DEF PortsMeant, GroupAlive
<1>2. ASSUME NEW r \in Runners,
             Interrupt(r) \/ Terminate(r) \/ Kill(r)
      PROVE  PortsMeant'
  <2>1. /\ UNCHANGED <<port, gap, app, kids, listener>>
        /\ \A s \in Runners : Alive(s)' => Alive(s)
    BY <1>2 DEF Interrupt, Terminate, Kill, Alive, Waiting, TypeOK
  <2>2. \A s \in Runners : /\ pc'[s] \in {"none", "found"} => route'[s] = None
                           /\ route'[s] # None => route'[s] = port'[s]
    BY <1>2 DEF Interrupt, Terminate, Kill, PortsMeant, TypeOK
  <2>3. \A q \in Ports : /\ Claimants(q)' \subseteq Claimants(q)
                         /\ \A s \in Claimants(q) : GroupAlive(s) => s \in Claimants(q)'
    BY <2>1 DEF Claimants, GroupAlive
  <2>4. \A q \in Ports, u \in Runners :
           listener'[q] = u => listener[q] = u /\ GroupAlive(u)'
    BY <2>1, <2>3 DEF PortsMeant, GroupAlive
  <2> QED
    BY <2>1, <2>2, <2>3, <2>4, KeepPortsMeant
<1> QED
  BY <1>1, <1>2

LEMMA PortsInvariant == Spec => []PortsMeant
<1>1. Init => PortsMeant
  BY RunnerAssumption DEF Init, PortsMeant, Claimants, Alive, GroupAlive, Waiting
<1>2. TypeOK /\ Lives /\ PortsMeant /\ TypeOK' /\ [Next]_vars => PortsMeant'
  <2> SUFFICES ASSUME TypeOK, Lives, PortsMeant, TypeOK', [Next]_vars
               PROVE  PortsMeant'
    OBVIOUS
  <2>1. CASE UNCHANGED vars
    BY <2>1 DEF vars, groupVars, PortsMeant, Claimants, Alive, GroupAlive
  <2>2. CASE Next
    BY <2>2, RunPorts, AppPorts, OtherPorts DEF Next
  <2> QED
    BY <2>1, <2>2
<1> QED
  BY <1>1, <1>2, LivesInvariant, PTL DEF Spec

-------------------------------------------------------------------------------
(* The theorems.                                                             *)

(* Every variable keeps its type, for any runners and ports.                 *)
THEOREM RunnerTypes == Spec => []TypeOK
BY LivesInvariant, PTL

(* A runner that ends without being killed ends after its application.       *)
THEOREM RunnersOutliveTheirApps == Spec => []NoAppOutlivesItsRunner
<1>1. Lives => NoAppOutlivesItsRunner
  BY DEF Lives, Life, NoAppOutlivesItsRunner
<1> QED
  BY <1>1, LivesInvariant, PTL

(* Whatever a runner leaves of its application when it ends got its signal   *)
(* or was forked after it, unless the application's leader ended by itself:  *)
(* runner.go's one signal reaches the whole group before the leader's end.   *)
THEOREM GroupsAreTold == Spec => []NobodyLeftUntold
<1>1. Lives => NobodyLeftUntold
  BY DEF Lives, Group, Leaving, NobodyLeftUntold
<1> QED
  BY <1>1, LivesInvariant, PTL

(* Only a runner that was told to end may drop its application's status.     *)
THEOREM StatusIsReturned == Spec => []OwnStatusIsReturned
<1>1. Lives => OwnStatusIsReturned
  BY DEF Lives, Leaving, OwnStatusIsReturned
<1> QED
  BY <1>1, LivesInvariant, PTL

(* A route leads to no application but its runner's, for any number of       *)
(* runners that start, restart and end at once, with ports of FreePort's or  *)
(* the user's choice and applications that listen where they like, unless    *)
(* the port is one of the gaps RouteReachesOwnApp names.                     *)
THEOREM RoutesReachTheirApps == Spec => []RouteReachesOwnApp
<1>1. TypeOK /\ PortsMeant => RouteReachesOwnApp
  <2> SUFFICES ASSUME TypeOK, PortsMeant, NEW r \in Runners, Alive(r), route[r] # None,
                      listener[route[r]] \in Runners \ {r}
               PROVE  route[r] \in gap
    BY DEF RouteReachesOwnApp
  <2>1. route[r] \in Ports /\ route[r] = port[r]
    BY DEF TypeOK, PortsMeant
  <2>2. r \in Claimants(route[r])
    BY <2>1 DEF Claimants
  <2> QED
    BY <2>1, <2>2 DEF PortsMeant
<1> QED
  BY <1>1, LivesInvariant, PortsInvariant, PTL
===============================================================================

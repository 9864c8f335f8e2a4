# devhostd in TLA+

devhostd gives development servers stable host names.  A daemon proxies requests
by host name; per-application *runners* register a route with it and take it
away when they end; command-line clients add aliases, prune stale routes and
start and stop the daemon.  This directory holds TLA+ models of the parts of
devhostd where processes meet, the TLC configurations that check them and TLAPS
proofs of what matters most.  `PROJECT.json` maps every definition to the lines
it models and lists the hazards, runs and theorems in machine-readable form.

    tlc -workers 2 -config ctl_restart.cfg MCControlDaemon.tla   # a run
    tlapm ControlDaemon_proofs.tla                               # a proof

## The system

| Component | Source | State | Operations |
|---|---|---|---|
| Control server and handlers | `internal/daemon/daemon.go`, `process_unix.go`, `internal/control` | the table; one goroutine per connection | register (with takeover), deregister, add/remove hostname, prune, stop; reading calls |
| Route table | `internal/routes` | name -> owner PID, alias flag, host names, under one mutex | Register, Remove, AddHostname, RemoveHostname, List, Replace, Lookup |
| State files | `internal/state` | routes.json, daemon.json, config.json | ReadJSON, WriteJSON (temporary file and rename) |
| Hosts file | `internal/hosts` | the managed block of /etc/hosts | Block, Replace, Sync |
| Runner | `internal/runner` | the child process, one route | register, run the child, forward signals, deregister |
| Command line | `cmd/devhostd` | none | alias (online and offline), prune, daemon start and stop, run, clean, ... |
| Daemon start and stop | `daemon.Run`, `control.Serve`, `spawnDaemon` | proxy port, socket path, daemon.json | bind, listen, serve, shut down, deferred clean-up |
| Certificate authority | `internal/ca` | root and leaf files, a cache | Open, generate, Certificate |
| Updater | `internal/update` | update-check.json, the executable | Check, Install, replaceExecutable |
| Proxy, mDNS | `daemon.ServeHTTP`, `internal/mdns` | none of their own | Lookup, the depth bound, the WebSocket bridge |
| Configuration, doctor, services, privileges | `internal/config`, `doctor`, `service` | none | sequential searches and external programs |

Runners and clients talk to the daemon by calls over a Unix socket; a handler
stops other runners with signals; handlers share the table (one lock per table
operation, none across operations) and routes.json; clients edit routes.json
themselves when the daemon is down; successive daemons share routes.json,
daemon.json, the socket path and the proxy port.

What makes this hard, and what correctness means, component by component:

- *Handlers.*  A handler is several locked steps with unlocked waits, a process
  kill and two file writes in between, and the handlers of all connections
  interleave.  A running application must keep its route, an ended one must not
  leave one, an alias must survive what other callers do, what is served must be
  what is saved, and every call must end.
- *Runners.*  Their ports are nobody's until somebody listens.  They can be told to end, killed, displaced, or end while no daemon
  listens; their late deregister must not hit their successor.
- *Start and stop.*  Several daemons can be starting and ending at once; a
  failed or ending one must not take the socket or daemon.json of the one that
  serves.
- *Files.*  Written by several processes, read once at start.
- *Certificates.*  A pair is two files, each truncated before it is filled; a
  daemon can end in between and the next one opens what is left; clean removes them
  one by one, perhaps under a daemon.  What is served must verify against the root the
  system trusts, and `ca/trusted` must say whether it does.
- *Updater.*  Renames that a crash can cut and that another update overlaps; a
  binary must remain, and a release must be announced in the end.
- *Hosts file.*  Read, replaced and renamed by several processes around the user's
  own edits, which must survive.
- *Proxy.*  Readers go through the host names of a route without the lock that
  their writers hold; the answers must still be the longest match, and a request
  must not go round for ever.

## The modules

**`RouteTable`** is `routes.Table` as a value: a function from names to a route
`[pid, static, hosts]` or `NoRoute`, and one operator per method.  Each method
holds the table's mutex from its first read to its last write, so one operator is
one atomic step.  `CanRegister` is the refusal test of Register with the set of
live PIDs (all of them when the code passes `alive = nil`), `Restored` what a
starting daemon makes of routes.json (it adds missing TLD names), `HostBlock` the
names of the hosts file's block.

**`ControlDaemon`** EXTENDS it and is the core: the daemon, its handlers, the
runners and the clients.  `pc[c]` is where the handler of caller `c` stands,
`req[c]` its request, `snap[c]` the copy of the table persist took, `cur[c]` and
`todo[c]` the process being stopped and the rest of prune's list.

| Code | Actions |
|---|---|
| `daemon.Run` loads routes.json / returns | `DaemonStart` / `DaemonExit` (handlers end where they stand, callers see an error) |
| register with force | `FindOwner`, `Signal`, `TargetGone` or `KillTarget`, `ApplyRegister` |
| register, deregister, hostname calls | `ApplyRegister`, `ApplyDeregister`, `ApplyHostname` |
| prune | `PruneScan`, `PruneNext`, (`Signal`, `TargetGone`, `KillTarget`), `PruneRemove`, `PruneDone` |
| persist | `List`, `Write` or `WriteFails`, `Sync`; then `Reply` |
| `runner.Run` | `RunnerStart`, `AppListens`, `AppCloses`, `RunnerExit`, `RunnerKilled` |
| alias, prune, share, api | `ClientCall`; with no daemon `OfflinePing`, `OfflineRead`, `OfflineWrite` |

`seen`, `released` and `store` are history for the properties: the daemon that
last granted a runner's call, the runners whose route was taken on request, and
whether a copy of the table was overtaken by a change or a write failed.

**`DaemonLifecycle`** models daemons as processes.  `phase[d]` walks through
`daemon.Run`: bind the port, remove the socket path, listen, write daemon.json,
load certificates, serve, and the deferred calls in reverse order.  The port, the
path and daemon.json are shared; the socket *path* is kept apart from the open
*listener*, because removing the path cuts off whoever listens.  `CloseControl`
and `ShutDown` are the goroutines that wait for the context.  `StartMayFail` lets
daemon.json or the certificates fail; a control server that fails cancels the
context, which is `Terminate`.  `cli[s]` is `spawnDaemon`.  `overlapped` is
history: daemons that got the port while an ending one had clean-up left.

**`RouteService`** is what the control socket promises, without handlers: a call is
invoked, takes effect on the table at one moment, is granted after a copy of the
table taken then or later has been saved, or refused.  `ControlDaemon` instantiates
it: `file` is its saved table, `snap` its copies, and `Stage(pc[c])` says how far
the call of `c` is.  Re-reading an owner, signalling and waiting for it, and going
through prune's list are stutters; a prune takes entries away one by one.

**`Runner`** is `devhostd run` from the inside: the port, which the user names
(`UsePort`: --app-port, DEVHOSTD_APP_PORT or the project file, taken unseen) or
FreePort finds and closes again (`FindPort`), `Register`, `StartApp`, then the select
of `runner.Run` over the application's end (`AppDone`), the signal channel
(`ForwardSignal`) and the context (`StopGroup`), `Exited` or `KillLeader` for
waitForExit, and `Deregister`.  SIGINT (`Interrupt`) fires both the channel and the
context, SIGTERM, the user's or a takeover's (`Terminate`), only the context; SIGKILL
(`Kill`), also a takeover's after its three seconds, can come at any time, since the
two waits of three seconds run beside each other and either can end first.  The
application is a process group: a leader and other processes, of which `kids` keeps
apart those that were forked before the runner's signal, those that got it and those
that were forked after it.  Any of them listens on any port, the one it was given or
another; `Stranger` is any other program that takes a port.

**`CertAuthority`** has the two files of each certificate on disk, the daemons that
open the authority (`GenerateRoot`, `LoadRoot`, `RejectRoot`) and hand out leaves
(`LoadLeaf`, `GenerateLeaf`), and the writing of a file as `Truncate` and `Fill`;
`Exit` can fall between any two of these.  The user's commands are taken apart too:
trust copies the root to the anchor file, has the bundle made and notes it
(`TrustInstall`, `TrustUpdate`, `TrustMark`), untrust removes the anchor file and has
the bundle made anew (`CleanUntrust`, `CleanUpdate`), and `os.RemoveAll` takes the
files, the note and the directories one by one, in any order (`CleanRemove` and what
follows it); each can be cut off or fail between any two steps (`TrustInterrupted`,
`CleanInterrupted`).

**`Updater`** walks `replaceExecutable` rename by rename for several update
processes, and models `Check` with its cache for all other commands.

**`HostsFile`** has `Replace` as an operator on a sequence of lines, and processes
that read, replace and rename while a user adds and deletes lines.

**`Proxy`** has `Lookup` over routes with nested names, the slice of names that
Lookup and List hand out and AddHostname and RemoveHostname write behind (`scan`,
`edit`), the certificate a TLS hello gets, and a request's way through `ServeHTTP`
and applications that send it back, as HTTP (`sent`) or over the bridge that every
HTTP/2 CONNECT takes (`bridged`).  A read of a name that is being written may
return `Torn`: that is a data race in Go.

The modules compose where the code's parts meet: `ControlDaemon` has runners and
handlers together; `Runner` has the same runners with what `ControlDaemon` leaves
abstract (ports, the process group, the select) and the daemon's answers as
choices; `DaemonLifecycle` and `CertAuthority` have daemons that come and go, whose
overlap the first explains and the second suffers from.

**`Filter`** is the loop both `RemoveHostname` and the hosts file's block need: the
values of a list that are kept, in their order, as a recursive function (`Only`).

`ControlDaemon_proofs` (with what the operators of `RouteTable` do and the
refinement of `RouteService`), `DaemonLifecycle_proofs`, `Runner_proofs`,
`CertAuthority_proofs`, `Updater_proofs`, `HostsFile_proofs` and `Proxy_proofs` hold
the theorems, `Filter_proofs` the lemmas about sequences that the last two share;
the modules named `MC...` give TLC its small instances.  Definitions called faulty variants put a plausible bug next to the
action they vary; no specification uses them, and each breaks the property it is
there for.

Several modules have a history variable `slips` (`overlapped`, `gap`, `store`,
`shifted`): what has happened that a property excepts.  Every exception is a real
weakness of the code, not of the model, and the property says that it is the only
one.  The two longest lists:

- `Runner!gap`, ports of which the code cannot know whom they lead to: FreePort found
  it while an application it is meant for was not listening; the user named it while
  another runner had it or another application listened on it; an application listens
  on it that was given another one, while it is meant for somebody else.
- `CertAuthority!slips`.  `mixed`: two daemons opened the authority at once, a daemon
  opened it while clean removed it (or clean began to while a daemon was opening it),
  or a removal left something behind; until a clean gets to its end with no daemon
  running.  `misnoted`: trust met a root that was not whole, or clean ended between the
  trust's removal and that of the note; until clean has removed the note.  `unnoted`:
  trust ended before its note, or clean between the removal of the anchor file and the
  new bundle, after which the next clean (main.go:863) finds no anchor file and asks
  for none; until trust gets to its end.

## The runs

| Run | Instance | Shows |
|---|---|---|
| `ctl_takeover` | 2 runners of one name, 1 client, one daemon; alias, alias --remove, prune | `ServingOwnsRoute`, `ExitedLeavesNoRoute`, `AliasLostOnRequest` |
| `ctl_restart` | 1 runner, 1 client with anonymous routes, host names, prune and offline aliases, failing writes, two daemons in turn, fair handlers | `TypeOK`, `SavedUnlessTorn`, `EveryCallEnds`, `TakenOverRunnerEnds`, and the refinement `ImplementsService` |
| `life_one_port` | 3 daemons told one port, 1 start command, stops, failures, crashes | `TypeOK`, `ServingDaemonIsReachable`, `ExitedDaemonLeavesNoFiles`, `StoppedDaemonEnds` |
| `runner` | 2 runners, 2 ports, one of the runners told to end | `TypeOK`, `RouteReachesOwnApp`, `NoAppOutlivesItsRunner`, `NobodyLeftUntold`, `OwnStatusIsReturned`, `ToldRunnerEnds` |
| `cert_authority` | 3 daemons, 1 host name, 3 keys, trust and clean | `TypeOK`, `RootPairMatches`, `SavedLeavesHaveTheirRoot`, `ServedLeavesVerify`, `MarkedRootIsTrusted`, `UnmarkedMeansUntrusted` |
| `updater` | 2 updates, 1 checking command, 3 versions | `TypeOK`, `ABinaryRemains`, `ExecutableInPlace`, `NeverOlder`, `NewReleaseIsAnnounced` |
| `hosts_file` | 2 writers, 2 user lines, 1 host name, 3 edits | `TypeOK`, `UserLinesSurvive`, `OneBlock`, `ReplaceSettles`, `LinesBeforeBlockSurvive` |
| `proxy` | 2 routes, 3 nested names, one route edited | `TypeOK`, `LookupIsLongest`, `CertificateCoversHost`, `OnlyOwnNamesAreRead`, `KeptNamesAreListed`, `RequestsEnd` |
| `ctl_alias_lost` | 1 runner, 1 client | `AliasesPersist` is violated |
| `ctl_exit_offline` | 1 runner, two daemons in turn | `RoutesRemovedOnExit` is violated |
| `life_two_ports` | 2 daemons of two ports | `SingleDaemon` is violated |
| `life_restart` | 2 daemons of one port, 1 start command | `RestartLeavesDaemon` is violated |

**Bounds.**  Three handlers on one name are the least in which a displaced
owner, its successor and a third party (an alias or a prune) meet; two names never
meet in a handler except in persist, which writes the whole table whatever changed,
so that one name already shows a copy being overtaken.  Three daemons let one end,
one serve or crash and one start at once.  `MaxEpochs` bounds how often a daemon is
started: two starts show one loss and one recovery.  Each runner, start command,
update and daemon process is used once.

- `runner`: two ports, so that a runner can be given, and an application can move to,
  the next one; `Told` limits the signals to one runner, whose neighbour shows who else
  is hit.
- `cert_authority`: `MaxKeys = 3` is a root, a leaf and a root after clean; three
  daemons are one that is cut off, one that finds what it left and one that
  overlaps.
- `updater`: three versions let a release be withdrawn and replaced by one that is
  still newer than what runs.
- `hosts_file`: `MaxEdits = 3` lets the user break a block and write around it;
  lines are taken from two, so that their order shows.
- `proxy`: three names, each below the other, and `MaxNames = 2` for the one route
  in `Edited`: the least in which a removal moves a name and an addition finds room
  in the old array.

**Deadlock** is checked in `runner`, `hosts_file` and `proxy`, where somebody can
always move.  It is off in the others, because a system in which every process has
ended rightly stops.

**Symmetry** is used in `ctl_takeover`, `cert_authority` and `hosts_file`, which
check no liveness.

**Fairness.**  `ControlDaemon!FairSpec` assumes weak fairness of each handler: a
goroutine that can run does, and the wait of a takeover ends after its three
seconds (`KillTarget`).  Nothing is assumed of users, applications, runners or the
daemon's life.  `TakenOverRunnerEnds` states its own assumption, that a runner that
got SIGTERM acts on it, as `runner.Run`'s select does.  `DaemonLifecycle!FairSpec`
assumes that the main goroutine of a daemon and the two that wait for its context
run.  `Runner!FairSpec`
assumes that a runner that can go on does, its waits ending after their seconds;
applications may ignore every signal but SIGKILL.
`Proxy!FairSpec` assumes strong fairness of `Serve`, because the table's RWMutex lets
a waiting reader in before the next writer, and weak fairness of a writer's steps and
of the applications.  `RequestsEnd` excepts what the code does not bound: a request
that comes as an HTTP/2 CONNECT in every round is bridged with its depth unchanged
(daemon.go:338-340), so the property says that each request comes to its end or to the
bridge, and from the bridge to its end or back to the daemon.  The updater has no fairness of its own: `NewReleaseIsAnnounced`
states what it needs as a hypothesis: the user keeps running commands, time passes,
and a query that is made again and again succeeds.

## What the code does not keep

Four statements of the documentation and messages are checked and violated; the
properties stand at the end of their modules.

- `AliasesPersist` ("persistent aliases", README.md:10).  persist's copy and write
  are not one step, so an older copy can be written over a newer file.
- `RoutesRemovedOnExit` ("Routes are removed when the runner exits",
  README.md:241).  The one deregister call fails unnoticed while the daemon is
  down, and the next daemon restores the route.
- `SingleDaemon` ("A single background daemon", README.md:3).  A daemon of another
  port takes the control socket away from the first.
- `RestartLeavesDaemon` ("restart the daemon", control.go:53, doctor.go:41).  A
  start right after a stop can be answered by the daemon that is ending.

## What is proved

For all values of the constants, from the constants' named assumptions only.  Where
a theorem has a hypothesis of its own, the table says so.

| Module | Theorem | States |
|---|---|---|
| `ControlDaemon_proofs` | `TypeCorrect` | `Spec => []TypeOK` |
| | `ServingRunnersKeepTheirRoutes` | `Spec => []ServingOwnsRoute` |
| | `ExitedRunnersLeaveNoRoute` | `Spec => []ExitedLeavesNoRoute` |
| | `SavedUnlessACopyIsOvertaken` | `Spec => []SavedUnlessTorn` |
| | `AliasesAreLostOnRequest` | `Spec => AliasLostOnRequest` |
| | `HandlersImplementService` | `Spec => ImplementsService` |
| `DaemonLifecycle_proofs` | `LifecycleTypes` | `Spec => []TypeOK` |
| | `ExitsLeaveNoFiles` | `Spec => []ExitedDaemonLeavesNoFiles` |
| | `OnePortDaemonIsReachable` | `Spec => []ServingDaemonIsReachable`, if all daemons were told one port |
| `Runner_proofs` | `RunnerTypes` | `Spec => []TypeOK` |
| | `RunnersOutliveTheirApps` | `Spec => []NoAppOutlivesItsRunner` |
| | `GroupsAreTold` | `Spec => []NobodyLeftUntold` |
| | `StatusIsReturned` | `Spec => []OwnStatusIsReturned` |
| | `RoutesReachTheirApps` | `Spec => []RouteReachesOwnApp` |
| `CertAuthority_proofs` | `AuthorityTypes` | `Spec => []TypeOK` |
| | `RootFilesMatch` | `Spec => []RootPairMatches` |
| | `LeavesHaveTheirRoot` | `Spec => []SavedLeavesHaveTheirRoot` |
| | `ServedCertificatesVerify` | `Spec => []ServedLeavesVerify` |
| | `MarkerMeansTrusted` | `Spec => []MarkedRootIsTrusted` |
| | `CleanLeavesNoAnchor` | `Spec => []UnmarkedMeansUntrusted` |
| `Updater_proofs` | `UpdaterTypes` | `Spec => []TypeOK` |
| | `ABinaryAlwaysRemains` | `Spec => []ABinaryRemains` |
| | `ReplacementIsComplete` | `Spec => []ExecutableInPlace` |
| | `InstallsOnlyNewer` | `Spec => NeverOlder` |
| `HostsFile_proofs` | `TypeCorrect` | `Spec => []TypeOK` |
| | `UserLinesSafe` | `Spec => []UserLinesSurvive` |
| | `OneBlockAtMost` | `Spec => []OneBlock` |
| | `ReplaceIsStable` | `Spec => []ReplaceSettles` |
| | `LinesBeforeBlockSafe` | `Spec => LinesBeforeBlockSurvive` |
| `Proxy_proofs` | `TypeCorrect` | `Spec => []TypeOK` |
| | `LongestNameAnswers` | `Spec => []LookupIsLongest` |
| | `CertificateSafe` | `Spec => []CertificateCoversHost` |
| | `ReadersSafe` | `Spec => []OnlyOwnNamesAreRead` |
| | `ListsComplete` | `Spec => []KeptNamesAreListed` |

**The control daemon.**  None of the properties is inductive.  `Structure` says what
a handler's position tells of its request (`Positions`), that a runner asks only for
its own name with its own PID and a client without one (`OwnRequests`), what position
a runner's life goes with (`RunnerPositions`), and that handlers run only in a daemon
(`Sanity`); `TypeOK /\ Structure` is inductive (lemma `Base`).  On it rest separate
arguments:

- *Ownership* covers the time before a runner serves: from the step that grants its
  register to its reply the route is already its own.  The only callers that could
  remove it unasked would have to use its PID, which `OwnRequests` excludes.
- *Departure* covers a runner from the step that removes its route to its end, and
  needs that every table that can come back, the file and each handler's copy, names
  a runner's PID only under that runner's name.
- *Saved* relates the table to the copies in flight: while no copy was overtaken
  every copy is the table, and the file and the block follow at the next write.
- *Aliases* says that an alias has no owner, in the table, the file and every copy;
  so a PID never takes one away.
- *Stopping* says that the process a handler stops is of the
  entry it goes on to remove.  With it each action is one step of `RouteService` or a
  stutter (`HandlerServes`, `OutsideServes`).

Each is proved by one lemma for the steps of a handler (one step per action) and
one for the steps outside (`Handler...`, `Outside...`), and a temporal step.
The first section of `ControlDaemon_proofs` states once what the table operators
return and preserve.

**Start and stop.**  `OwnedFiles`: the socket path and daemon.json lead to a daemon
only at the positions between the step that makes each and the call that removes it.
`PortsAreHeld` and `OpenWhileUp` tell a daemon's port and listener by its position.
With one port only one daemon can be past its bind, and `NobodyElseLeaves` adds that
unless it overlapped no other one has clean-up left; so nobody is there who could
take its files (`Reach`).  That daemons share a port is needed: `life_two_ports`
shows what happens without.

**The runner.**  `Lives` says for each position of Run what that tells of the
application's leader, its other processes and whether they got the runner's signal
(`Life`, `Group`, `Leaving`): no process is `early` once the group was signalled, and
a runner leaves only after that, after a leader that ended by itself, or with no
process at all.  `PortsMeant` says that who listens lives, and that a port is a `gap`
if two runners have it or if it is one runner's and another's application listens on
it; `NewPort` is the step of a runner that gets a port, found or named.

**Certificates.**  `Tree` and `Memory` hold whatever gets mixed: files are only in
directories that exist, an open file has a name, and what a daemon holds in memory is
a pair that parses, what it serves one that belongs together.  `Sole` is what the
absence of `mixed` buys, one daemon at most, and the rest is about that time
(`OneAtATime`).  `Whole`: outside a removal both directories are there or none.
`RootShape`: the key file follows the certificate file, and only clean takes the
certificate away first.  `WritesRoot`: a root that is being written replaces no usable
one.  `LeavesFitRoot` and `WritesLeaf`: outside a removal leaves are signed with the
root on disk.  `Serves`: the daemon that is up has the root on disk in memory, or that
has gone with its directory.  `Noted`: the trust store agrees, at each place of the
user's commands.  A daemon's steps need only its own part (`Own`) and the shared one
(`Kept`); the user's are a lemma per kind of step (`TrustKept`, `RemoveKept`,
`EmptyKept`, `EndKept`).  `CleanLeavesNoAnchor` needs none of that: `Unanchored` says
what the place of the user's command tells of the anchor file and the bundle.

**The updater.**  `SomebodyReplaces` needs no exclusion: the executable is away only
while some update is between its two renames.  `OneByOne` has the files as a function
of the position of the one update that is under way (`Place`).

**Sequences.**  `HostsFile` and `Proxy` are about lists of any length, and their
operators are loops: `Only`, and `Lookup`'s two nested ones (`Longer`, `Longest`).
The library's induction theorems take a predicate as a parameter, which the provers
cannot instantiate; `Filter_proofs` states induction for a *set* of numbers instead
(`SetInduction`), derived from the well-foundedness of the naturals.  With it a lemma
of each loop says that its recursive function exists and takes the steps it is
written with (`OnlyStepsAre`, `LongerSteps`, `LongestSteps`), and the next ones what
it returns: a kept list is a part of the list, Only of two lists joined is the two
results joined, the longest fitting name is found.  The definitions are recursive
functions written out, and not SelectSeq and the folds of the community modules, of
which the library proves nothing.

**The hosts file.**  Most of the work is in the operators: what `Cut` takes out of a
file and that it takes no user line when every begin has its end (`CutOfPaired`,
`CutKeepsUserLines`), that a file with a new block is paired again
(`ReplacePairs`), and that `Replace` repeated is `Replace` (`ReplaceTwice`).  The
invariant `Inv` then has to speak of every copy a writer holds as well as of the file
(`Files`), because a rename puts an old copy back: all of them are paired unless the
user broke a pair, and nobody's line stands inside a block unless the user put it
there.  An edit moves all lines behind it, so `InsertFramed` and `RemoveFramed` say
what an inserted or removed line does to a file whose block is framed by its markers.
`LinesBeforeBlockSafe` needs only types: it compares the prefix of the file with that
of `Replace`.

**The proxy.**  `LookupFacts` says of one order of the map that the exact pass and
the wildcard pass together answer with a longest name, and of an order that begins
with such a route that it is the answer; with `OrderFacts` (a finite set has an order
that begins with any given element) the answers of all orders are exactly the routes
with a longest name.  For the readers without the lock, types are not inductive
either: that an index is within its array needs the relation of the slice to the
writes that are left.  `EditInv` says that a writer's target fits the array and that
the writes made so far are in it; `ScanInv` that every place of the reader's slice
holds a name the route had, and that a writer of the same array is behind the slice
unless it removes a name; `SteadyInv` that as long as no name is removed the slice
does not change under the reader and holds all names that were kept.  The steps are
grouped by what they do: `EntryReplaced` (Register, Remove, an append that moves the
slice: the reader keeps the old array), `WritesBegin` and `EditStepInv` (writes in
place), `TakeInv` and `ReadOn` (a reader starts and goes on), `NoReader` (the rest).
TLC found every part of `Inv` to hold in the 1.1 million states of the run `proxy`
before it was proved.

**Assumptions.**  `HostOrderAssumption`: the order in which Block sorts the names is
a list of host names without repetition.  `HostAssumption`: there is a host name, and
each is a non-empty list of labels.  `RoutesAssumption`: there are finitely many
routes, as in a Go map.  The others (`NothingAssumption`, `TornAssumption`, ...) keep
the values that stand for nothing apart from those that stand for something.

**Model-checked only:** the six liveness properties (`EveryCallEnds`,
`TakenOverRunnerEnds`, `StoppedDaemonEnds`, `ToldRunnerEnds`, `NewReleaseIsAnnounced`,
`RequestsEnd`), which with ENABLED are out of the prover's reach.  Every other property
of the passing runs is a theorem.

## Abstractions

- PIDs are not reused; a takeover never reaches a stranger.
- A write of routes.json is one step that replaces the file or fails; a crash
  inside `AtomicWrite` leaves the old file.  Hosts-file synchronisation is on or off
  for a run, and succeeds when it is on.
- Clients call without a PID.  `devhostd api` passes any JSON on, also a register or
  deregister with another process's PID; the model and the theorems leave that out.
- prune visits its list in any order.  Ports, certificates and times are not part
  of a route; that a port accepts is `listening`.
- A daemon is up from the moment it has loaded routes.json; its early failures are
  the subject of `DaemonLifecycle`.  `DaemonExit` stands for stop, signals and death.
- Names are those `ValidateName` accepts; two spellings of a host name are not
  distinguished.
- The Unix files are modelled, not their Windows counterparts.
- *Runner:* a process that leaves its group is no longer the application's; a call to
  the daemon is answered or not; the bypass `DEVHOSTD=0` and the
  child's environment are left out.
- *Certificates:* keys are numbers, a certificate the key it is for and the key that
  signed it.  Dates, and with them renewal, are left out, and so are the names inside
  a certificate, which `Proxy` has.  The trust store is that of update-ca-certificates:
  one anchor file, which a new root replaces, and the bundle, which nobody else has made
  anew; update-ca-trust goes the same way, `trust anchor`, macOS and Windows, whose
  store is one command, are left out.  The user runs one trust or clean command at a
  time.  `os.RemoveAll` lists a directory and then removes what it listed; in the model
  a file that is written again after its removal may be removed again.
- *Updater:* releases are numbers; a download, checksum or archive that fails is the
  update that ends early.  Development builds, which do not check, are left out.
- *Hosts file:* a marker fills its line; what a line of a name looks like is left out.
- *Proxy:* a host name is the sequence of its labels; the doubling of a slice's
  capacity is that of Go for small slices; List and the page of an unknown name go
  through every route, here through one.  Time-outs of applications are an answer,
  and an application that sends a request back passes its headers on.

## Not modelled

The copy loops of the WebSocket bridge and all other byte streams, TLS, the mDNS
servers, downloads and archives (libraries and I/O); `config.Find` and the parsers of
project files (searches without shared state); doctor and service installation
(read-only, or external programs run in sequence); sudo, chown and the tools of the
trust store; Tailscale and ngrok; the Windows variants.

## What could follow

1. Two properties a product decision would have to come before: that prune spares a
   runner whose application is still starting, and that a takeover waits for the
   validation of the new route.  Both need a statement of what is meant.
2. `AtomicWrite` as two steps with temporary files left behind, and config.json.
3. The runner's side of `ControlDaemon` as an abstraction of `Runner`: the two model
   the same process, one by what its handlers see and one by what it does.

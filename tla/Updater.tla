------------------------------- MODULE Updater --------------------------------
(*****************************************************************************)
(* The updater (internal/update/update.go): update replaces the executable   *)
(* by renaming files beside it, and every other command checks, through a    *)
(* cache with a lifetime, whether a newer release is there to announce.      *)
(*                                                                           *)
(* Nothing locks the executable, its backup or the cache: updates and        *)
(* commands of one user overlap, and a process can end between any two       *)
(* renames.  Releases are compared as numbers; downloads, checksums and      *)
(* archives are the chance that a query or a preparation fails.              *)
(*****************************************************************************)
EXTENDS Naturals

CONSTANTS
    Updates,    \* "devhostd update" processes
    Commands,   \* processes of other commands, one after the other
    Versions,   \* the versions that are ever released
    None        \* no file, no version

ASSUME VersionAssumption == Versions \subseteq Nat /\ None \notin Versions

Version == Versions \cup {None}
Entry == [current : Versions, latest : Version, fresh : BOOLEAN]

ASSUME EntryAssumption == None \notin Entry

VARIABLES
    released,   \* the latest release, as the release server tells it
    exe,        \* the version of the executable at its path
    old,        \* the version of the backup beside it
    pc,         \* pc[u]: where update u stands
    running,    \* running[u]: the version that runs in u
    target,     \* target[u]: the version u installs
    cached,     \* update-check.json
    at,         \* at[c]: where command c's check stands
    asks,       \* asks[c]: the version that runs in command c
    heard,      \* heard[c]: the release c was told by the server
    told,       \* history: the last notice, <<running, announced>>
    slips       \* history: what happened that the properties except

updateVars == <<exe, old, pc, running, target, slips>>
checkVars == <<cached, at, asks, heard, told>>
vars == <<released, updateVars, checkVars>>

(* Positions of an update that has the release it wants to install.          *)
Replacing == {"stat", "drop", "away", "in", "restore", "tidy"}
Busy(u) == pc[u] \in Replacing \cup {"query"}

TypeOK ==
    /\ released \in Versions
    /\ exe \in Version
    /\ old \in Version
    /\ pc \in [Updates -> Replacing \cup {"none", "query", "done", "dead"}]
    /\ running \in [Updates -> Version]
    /\ target \in [Updates -> Version]
    /\ \A u \in Updates : pc[u] \in Replacing => target[u] \in Versions
    /\ cached \in Entry \cup {None}
    /\ at \in [Commands -> {"idle", "fetch", "write"}]
    /\ asks \in [Commands -> Version]
    /\ \A c \in Commands : at[c] # "idle" => asks[c] \in Versions
    /\ heard \in [Commands -> Version]
    /\ told \in (Versions \X Versions) \cup {None}
    /\ slips \in SUBSET {"overlap", "died", "failed"}

Init ==
    /\ released \in Versions
    /\ exe \in Versions
    /\ old = None
    /\ pc = [u \in Updates |-> "none"]
    /\ running = [u \in Updates |-> None]
    /\ target = [u \in Updates |-> None]
    /\ cached = None
    /\ at = [c \in Commands |-> "idle"]
    /\ asks = [c \in Commands |-> None]
    /\ heard = [c \in Commands |-> None]
    /\ told = None
    /\ slips = {}

(* A release is published, or the latest one withdrawn.                      *)
Publish ==
    /\ released' \in Versions \ {released}
    /\ UNCHANGED <<updateVars, checkVars>>

VersionLess(a, b) == a \in Versions /\ b \in Versions /\ a < b

-------------------------------------------------------------------------------
(* update.                                                                   *)

Goto(u, where) == pc' = [pc EXCEPT ![u] = where] /\ UNCHANGED <<running, target>>

(* A process that ends takes what it knows with it.                          *)
End(u, how) ==
    /\ pc' = [pc EXCEPT ![u] = how]
    /\ running' = [running EXCEPT ![u] = None]
    /\ target' = [target EXCEPT ![u] = None]

Begin(u) ==
    /\ pc[u] = "none"
    /\ exe # None
    /\ running' = [running EXCEPT ![u] = exe]
    /\ slips' = IF \E w \in Updates : Busy(w) THEN slips \cup {"overlap"} ELSE slips
    /\ pc' = [pc EXCEPT ![u] = "query"]
    /\ UNCHANGED <<released, exe, old, target, checkVars>>

(* Faulty variants of Query: the release need not be newer than the version  *)
(* that runs; or an answer without a release is used.                        *)
QueryAny(u) ==
    /\ pc[u] = "query"
    /\ target' = [target EXCEPT ![u] = released]
    /\ pc' = [pc EXCEPT ![u] = "stat"]
    /\ UNCHANGED <<released, exe, old, running, slips, checkVars>>

QueryNothing(u) ==
    /\ pc[u] = "query"
    /\ \E v \in {released, None} : target' = [target EXCEPT ![u] = v]
    /\ pc' = [pc EXCEPT ![u] = "stat"]
    /\ UNCHANGED <<released, exe, old, running, slips, checkVars>>

(* The latest release, if it is newer than the version that runs.  Any error *)
(* until the new binary is at hand ends the update.                          *)
Query(u) ==
    /\ pc[u] = "query"
    /\ \/ /\ VersionLess(running[u], released)
          /\ pc' = [pc EXCEPT ![u] = "stat"]
          /\ target' = [target EXCEPT ![u] = released]
          /\ UNCHANGED running
       \/ End(u, "done")
    /\ UNCHANGED <<released, exe, old, slips, checkVars>>

(* replaceExecutable looks at the executable and writes the new one beside   *)
(* it, under a name of its own ...                                           *)
Stat(u) ==
    /\ pc[u] = "stat"
    /\ \/ exe # None /\ Goto(u, "drop")
       \/ End(u, "done")
    /\ UNCHANGED <<released, exe, old, slips, checkVars>>

(* ... removes an older backup ...                                           *)
DropBackup(u) ==
    /\ pc[u] = "drop"
    /\ old' = None
    /\ Goto(u, "away")
    /\ UNCHANGED <<released, exe, slips, checkVars>>

(* Faulty variant of MoveAway: the executable is removed, not renamed.       *)
MoveAwayRemoved(u) ==
    /\ pc[u] = "away"
    /\ exe' = None
    /\ Goto(u, "in")
    /\ UNCHANGED <<released, old, slips, checkVars>>

(* ... renames the executable to the backup ...                              *)
MoveAway(u) ==
    /\ pc[u] = "away"
    /\ IF exe # None
       THEN old' = exe /\ exe' = None /\ Goto(u, "in")
       ELSE End(u, "done") /\ UNCHANGED <<exe, old>>
    /\ UNCHANGED <<released, slips, checkVars>>

(* Faulty variant of MoveIn: without its backup the update stops.            *)
MoveInIfBackup(u) ==
    /\ pc[u] = "in"
    /\ IF old # None THEN exe' = target[u] /\ Goto(u, "tidy")
                     ELSE End(u, "done") /\ UNCHANGED exe
    /\ UNCHANGED <<released, old, slips, checkVars>>

(* ... and the new one to its place, over whatever is there by now.          *)
MoveIn(u) ==
    /\ pc[u] = "in"
    /\ exe' = target[u]
    /\ Goto(u, "tidy")
    /\ UNCHANGED <<released, old, slips, checkVars>>

(* A rename is refused: of the first nothing has happened yet, the second    *)
(* is undone.                                                                *)
RenameFails(u) ==
    /\ pc[u] \in {"away", "in"}
    /\ IF pc[u] = "away" THEN End(u, "done") ELSE Goto(u, "restore")
    /\ slips' = slips \cup {"failed"}
    /\ UNCHANGED <<released, exe, old, checkVars>>

Restore(u) ==
    /\ pc[u] = "restore"
    /\ \/ old # None /\ exe' = old /\ old' = None
       \/ UNCHANGED <<exe, old>>
    /\ End(u, "done")
    /\ UNCHANGED <<released, slips, checkVars>>

Tidy(u) ==
    /\ pc[u] = "tidy"
    /\ old' = None
    /\ End(u, "done")
    /\ UNCHANGED <<released, exe, slips, checkVars>>

(* The process ends where it stands.                                         *)
Die(u) ==
    /\ Busy(u)
    /\ End(u, "dead")
    /\ slips' = slips \cup {"died"}
    /\ UNCHANGED <<released, exe, old, checkVars>>

UpdateStep(u) ==
    \/ Begin(u) \/ Query(u) \/ Stat(u) \/ DropBackup(u) \/ MoveAway(u) \/ MoveIn(u)
    \/ RenameFails(u) \/ Restore(u) \/ Tidy(u) \/ Die(u)

-------------------------------------------------------------------------------
(* Check, as Notify calls it in every other command, and "update --check",   *)
(* which does not look at the cache.                                         *)

(* The notice of a command that runs v, about release w.                     *)
Tell(v, w) == told' = IF VersionLess(v, w) THEN <<v, w>> ELSE told

(* Faulty variant of CacheHit: an entry is used whatever its age.            *)
CacheHitAnyAge(v) == cached # None /\ cached.current = v

(* An entry counts if it was made by the version that runs and is younger    *)
(* than twelve hours, also if it only notes that a check failed.             *)
CacheHit(v) == cached # None /\ cached.current = v /\ cached.fresh

Check(c, force) ==
    /\ at[c] = "idle"
    /\ exe # None
    /\ IF CacheHit(exe) /\ ~force
       THEN Tell(exe, cached.latest) /\ UNCHANGED <<at, asks>>
       ELSE /\ at' = [at EXCEPT ![c] = "fetch"]
            /\ asks' = [asks EXCEPT ![c] = exe]
            /\ UNCHANGED told
    /\ UNCHANGED <<released, updateVars, cached, heard>>

Fetch(c) ==
    /\ at[c] = "fetch"
    /\ heard' = [heard EXCEPT ![c] = released]
    /\ at' = [at EXCEPT ![c] = "write"]
    /\ UNCHANGED <<released, updateVars, cached, asks, told>>

FetchFails(c) ==
    /\ at[c] = "fetch"
    /\ heard' = [heard EXCEPT ![c] = None]
    /\ at' = [at EXCEPT ![c] = "write"]
    /\ UNCHANGED <<released, updateVars, cached, asks, told>>

(* The answer is cached, a failure as an entry without a release, and told.  *)
(* The write may fail, or leave a file that does not parse.                  *)
WriteCache(c) ==
    /\ at[c] = "write"
    /\ \/ cached' = [current |-> asks[c], latest |-> heard[c], fresh |-> TRUE]
       \/ cached' = None
       \/ UNCHANGED cached
    /\ Tell(asks[c], heard[c])
    /\ at' = [at EXCEPT ![c] = "idle"]
    /\ asks' = [asks EXCEPT ![c] = None]
    /\ heard' = [heard EXCEPT ![c] = None]
    /\ UNCHANGED <<released, updateVars>>

(* Twelve hours pass.                                                        *)
Expire ==
    /\ cached # None
    /\ cached.fresh
    /\ cached' = [cached EXCEPT !.fresh = FALSE]
    /\ UNCHANGED <<released, updateVars, at, asks, heard, told>>

CommandStep(c) ==
    (\E force \in BOOLEAN : Check(c, force)) \/ Fetch(c) \/ FetchFails(c) \/ WriteCache(c)

Next ==
    \/ Publish
    \/ Expire
    \/ \E u \in Updates : UpdateStep(u)
    \/ \E c \in Commands : CommandStep(c)

Spec == Init /\ [][Next]_vars

-------------------------------------------------------------------------------
(* Properties.                                                               *)

(* Wherever an update is cut off, and whatever rename is refused, a binary   *)
(* remains, at its path or as the backup beside it: only a second update     *)
(* that removes the first one's backup can lose both.                        *)
ABinaryRemains == "overlap" \notin slips => exe # None \/ old # None

(* When no update is under way the executable is at its path, even if        *)
(* several updates ran at once, provided none died and no rename was         *)
(* refused.                                                                  *)
ExecutableInPlace ==
    (\A u \in Updates : ~Busy(u)) /\ slips \cap {"died", "failed"} = {} => exe # None

(* What is installed only gets newer, also when a release is withdrawn; only *)
(* overlapping updates can put an older release over a newer one.            *)
Installed == IF exe # None THEN exe ELSE old

NeverOlder ==
    [][("overlap" \notin slips' /\ Installed \in Versions) =>
          Installed' \in Versions /\ Installed' >= Installed]_vars

(* A release that is newer than the executable is announced in the end: the  *)
(* cache, also of a failed check, only delays it.  Assumed is that the user  *)
(* keeps running commands, that time passes, and that a query which is made  *)
(* again and again succeeds.                                                 *)
NewReleaseIsAnnounced ==
    /\ WF_vars(Expire)
    /\ \A c \in Commands :
          /\ WF_vars(Check(c, FALSE))
          /\ SF_vars(Fetch(c))
          /\ WF_vars(WriteCache(c))
    => \A v, w \in Versions :
          v < w => (<>[](exe = v /\ released = w) => []<>(told = <<v, w>>))
===============================================================================

---------------------------- MODULE Updater_proofs -----------------------------
(*****************************************************************************)
(* Proofs about Updater, for any number of update processes and commands and *)
(* any set of released versions.                                             *)
(*****************************************************************************)
EXTENDS Updater, TLAPS

-------------------------------------------------------------------------------
(* Type correctness.                                                         *)

LEMMA UpdateTypeOK == ASSUME TypeOK, NEW u \in Updates, UpdateStep(u) PROVE TypeOK'
<1> USE VersionAssumption, EntryAssumption
    DEF TypeOK, Version, Replacing, checkVars, Goto, End
<1>1. CASE Begin(u)
  BY <1>1 DEF Begin
<1>2. CASE Query(u)
  BY <1>2 DEF Query, VersionLess
<1>3. CASE Stat(u) \/ DropBackup(u)
  BY <1>3 DEF Stat, DropBackup
<1>4. CASE MoveAway(u)
  BY <1>4 DEF MoveAway
<1>5. CASE MoveIn(u)
  BY <1>5 DEF MoveIn
<1>6. CASE RenameFails(u)
  BY <1>6 DEF RenameFails
<1>7. CASE Restore(u) \/ Tidy(u)
  BY <1>7 DEF Restore, Tidy
<1>8. CASE Die(u)
  BY <1>8 DEF Die
<1> QED
  BY <1>1, <1>2, <1>3, <1>4, <1>5, <1>6, <1>7, <1>8 DEF UpdateStep

(* The checks of other commands leave every update and its files alone.      *)
LEMMA CheckSteps ==
    ASSUME Publish \/ Expire \/ (\E c \in Commands : CommandStep(c))
    PROVE  UNCHANGED updateVars
BY DEF Publish, Expire, CommandStep, Check, Fetch, FetchFails, WriteCache

LEMMA CheckTypeOK ==
    ASSUME TypeOK, Publish \/ Expire \/ (\E c \in Commands : CommandStep(c))
    PROVE  TypeOK'
<1> USE VersionAssumption, EntryAssumption
    DEF TypeOK, Version, Entry, updateVars, checkVars, Tell, VersionLess
<1>1. CASE Publish
  BY <1>1 DEF Publish
<1>2. CASE Expire
  BY <1>2 DEF Expire
<1>3. ASSUME NEW c \in Commands, NEW force \in BOOLEAN, Check(c, force)
      PROVE  TypeOK'
  <2>1. told' \in (Versions \X Versions) \cup {None}
    BY <1>3 DEF Check, CacheHit
  <2>2. /\ at' \in [Commands -> {"idle", "fetch", "write"}]
        /\ asks' \in [Commands -> Version]
        /\ \A b \in Commands : at'[b] # "idle" => asks'[b] \in Versions
    BY <1>3 DEF Check
  <2> QED
    BY <1>3, <2>1, <2>2 DEF Check
<1>4. ASSUME NEW c \in Commands, Fetch(c) \/ FetchFails(c)
      PROVE  TypeOK'
  <2>1. /\ at' \in [Commands -> {"idle", "fetch", "write"}]
        /\ heard' \in [Commands -> Version]
    BY <1>4 DEF Fetch, FetchFails
  <2> QED
    BY <1>4, <2>1 DEF Fetch, FetchFails
<1>5. ASSUME NEW c \in Commands, WriteCache(c)
      PROVE  TypeOK'
  <2>1. /\ at' \in [Commands -> {"idle", "fetch", "write"}]
        /\ asks' \in [Commands -> Version]
        /\ heard' \in [Commands -> Version]
        /\ \A b \in Commands : at'[b] # "idle" => asks'[b] \in Versions
    BY <1>5 DEF WriteCache
  <2>2. told' \in (Versions \X Versions) \cup {None}
    BY <1>5 DEF WriteCache
  <2>3. cached' \in Entry \cup {None}
    <3>1. asks[c] \in Versions /\ heard[c] \in Versions \cup {None}
      BY <1>5 DEF WriteCache
    <3>2. [current |-> asks[c], latest |-> heard[c], fresh |-> TRUE] \in Entry
      BY <3>1
    <3>3. cached \in Entry \cup {None}
      BY DEF TypeOK
    <3> HIDE DEF TypeOK, Entry
    <3> QED
      BY <1>5, <3>2, <3>3 DEF WriteCache
  <2> QED
    BY <1>5, <2>1, <2>2, <2>3 DEF WriteCache
<1> QED
  BY <1>1, <1>2, <1>3, <1>4, <1>5 DEF CommandStep

LEMMA StepTypeOK == TypeOK /\ [Next]_vars => TypeOK'
<1> SUFFICES ASSUME TypeOK, [Next]_vars
             PROVE  TypeOK'
  OBVIOUS
<1>1. CASE UNCHANGED vars
  BY <1>1 DEF vars, updateVars, checkVars, TypeOK
<1> QED
  BY <1>1, UpdateTypeOK, CheckTypeOK DEF Next

(* Every variable keeps its type.                                            *)
THEOREM UpdaterTypes == Spec => []TypeOK
<1>1. Init => TypeOK
  BY VersionAssumption DEF Init, TypeOK, Version, Replacing
<1> QED
  BY <1>1, StepTypeOK, PTL DEF Spec

-------------------------------------------------------------------------------
(* With several updates at once: the executable is away only while one of    *)
(* them is between its two renames.                                          *)

SomebodyReplaces ==
    /\ slips \cap {"died", "failed"} = {} /\ exe = None => \E u \in Updates : pc[u] = "in"
    /\ \A u \in Updates : pc[u] = "restore" => "failed" \in slips

LEMMA StepSomebodyReplaces ==
    TypeOK /\ SomebodyReplaces /\ [Next]_vars => SomebodyReplaces'
<1> SUFFICES ASSUME TypeOK, SomebodyReplaces, [Next]_vars
             PROVE  SomebodyReplaces'
  OBVIOUS
<1> USE VersionAssumption DEF SomebodyReplaces, Goto, End
<1>1. ASSUME NEW u \in Updates, UpdateStep(u)
      PROVE  SomebodyReplaces'
  <2> USE DEF TypeOK, Replacing
  <2>1. CASE Begin(u)
    BY <2>1 DEF Begin
  <2>2. CASE Query(u)
    BY <2>2 DEF Query
  <2>3. CASE Stat(u) \/ DropBackup(u)
    BY <2>3 DEF Stat, DropBackup
  <2>4. CASE MoveAway(u)
    BY <2>4 DEF MoveAway
  <2>5. CASE MoveIn(u)
    BY <2>5 DEF MoveIn
  <2>6. CASE RenameFails(u)
    BY <2>6 DEF RenameFails
  <2>7. CASE Restore(u) \/ Tidy(u)
    BY <2>7 DEF Restore, Tidy
  <2>8. CASE Die(u)
    BY <2>8 DEF Die
  <2> QED
    BY <1>1, <2>1, <2>2, <2>3, <2>4, <2>5, <2>6, <2>7, <2>8 DEF UpdateStep
<1>2. CASE UNCHANGED updateVars
  BY <1>2 DEF updateVars
<1> QED
  BY <1>1, <1>2, CheckSteps DEF Next, vars

(* When no update is under way the executable is at its path, however many   *)
(* ran at once, provided none died and no rename was refused.                *)
THEOREM ReplacementIsComplete == Spec => []ExecutableInPlace
<1>1. Init => SomebodyReplaces
  BY VersionAssumption DEF Init, SomebodyReplaces
<1>2. TypeOK /\ SomebodyReplaces => ExecutableInPlace
  BY DEF TypeOK, SomebodyReplaces, ExecutableInPlace, Busy, Replacing
<1> QED
  BY <1>1, <1>2, StepSomebodyReplaces, UpdaterTypes, PTL DEF Spec

-------------------------------------------------------------------------------
(* One update at a time: what is on disk tells where it stands, so it can    *)
(* neither lose the binary nor install an older one.                         *)

Alone == \A u, w \in Updates : Busy(u) /\ Busy(w) => u = w

(* The files as update u finds them at each of its positions.                *)
Place(u) ==
    /\ Busy(u) => running[u] \in Versions
    /\ pc[u] \in Replacing => running[u] < target[u]
    /\ pc[u] \in {"query", "stat", "drop", "away"} => exe = running[u]
    /\ pc[u] \in {"in", "restore"} => exe = None /\ old = running[u]
    /\ pc[u] = "tidy" => exe = target[u]

OneByOne ==
    "overlap" \notin slips =>
        /\ Alone
        /\ \A u \in Updates : Place(u)
        /\ exe # None \/ old # None

LEMMA UpdateAlone ==
    ASSUME TypeOK, Alone, NEW u \in Updates, UpdateStep(u), "overlap" \notin slips'
    PROVE  Alone'
<1> USE DEF Alone, Busy, TypeOK, Goto, End, Replacing
<1>1. CASE Begin(u)
  BY <1>1 DEF Begin
<1>2. CASE ~Begin(u)
  <2>1. \A w \in Updates : Busy(w)' => Busy(w)
    BY <1>2 DEF UpdateStep, Query, Stat, DropBackup, MoveAway, MoveIn, RenameFails, Restore,
       Tidy, Die
  <2> QED
    BY <2>1
<1> QED
  BY <1>1, <1>2

(* The step of an update leaves the files as the update expects them, and no *)
(* older than they were.                                                     *)
LEMMA UpdatePlace ==
    ASSUME NEW u \in Updates, TypeOK, Place(u), exe # None \/ old # None,
           UpdateStep(u), TypeOK'
    PROVE  /\ Place(u)'
           /\ exe' # None \/ old' # None
           /\ Installed' \in Versions /\ Installed' >= Installed
<1>0. Installed \in Versions /\ Installed \in Nat
  BY VersionAssumption DEF TypeOK, Version, Installed
<1> USE <1>0, VersionAssumption
    DEF TypeOK, Version, Place, Installed, Goto, End, Busy, Replacing
<1>1. CASE Begin(u)
  BY <1>1 DEF Begin
<1>2. CASE Query(u)
  BY <1>2 DEF Query, VersionLess
<1>3. CASE Stat(u)
  BY <1>3 DEF Stat
<1>4. CASE DropBackup(u)
  BY <1>4 DEF DropBackup
<1>5. CASE MoveAway(u)
  BY <1>5 DEF MoveAway
<1>6. CASE MoveIn(u)
  <2>1. target[u] \in Nat /\ running[u] \in Nat /\ Installed = running[u]
    BY <1>6 DEF MoveIn
  <2>2. exe' = target[u] /\ target[u] \in Versions /\ running[u] < target[u]
    BY <1>6 DEF MoveIn
  <2>3. Place(u)'
    BY <1>6, <2>2 DEF MoveIn
  <2>4. Installed' = target[u]
    BY <2>2
  <2> QED
    BY <2>1, <2>2, <2>3, <2>4
<1>7. CASE RenameFails(u)
  BY <1>7 DEF RenameFails
<1>8. CASE Restore(u)
  BY <1>8 DEF Restore
<1>9. CASE Tidy(u)
  BY <1>9 DEF Tidy
<1>10. CASE Die(u)
  BY <1>10 DEF Die
<1> QED
  BY <1>1, <1>2, <1>3, <1>4, <1>5, <1>6, <1>7, <1>8, <1>9, <1>10 DEF UpdateStep

(* An update that is not under way expects nothing of the files.             *)
LEMMA IdlePlace ==
    ASSUME NEW u \in Updates, NEW w \in Updates \ {u}, TypeOK, Alone, Place(w),
           UpdateStep(u), "overlap" \notin slips'
    PROVE  Place(w)'
<1> USE DEF TypeOK, Goto, End
<1>1. pc'[w] = pc[w]
  BY DEF UpdateStep, Begin, Query, Stat, DropBackup, MoveAway, MoveIn, RenameFails, Restore,
     Tidy, Die
<1>2. ~Busy(w)
  <2>1. CASE Begin(u)
    BY <2>1 DEF Begin
  <2>2. CASE ~Begin(u)
    <3>1. Busy(u)
      BY <2>2 DEF UpdateStep, Query, Stat, DropBackup, MoveAway, MoveIn, RenameFails, Restore,
         Tidy, Die, Busy, Replacing
    <3> QED
      BY <3>1 DEF Alone
  <2> QED
    BY <2>1, <2>2
<1> QED
  BY <1>1, <1>2 DEF Place, Busy, Replacing

LEMMA StepOneByOne ==
    ASSUME TypeOK, OneByOne, [Next]_vars
    PROVE  /\ OneByOne'
           /\ "overlap" \notin slips' => Installed' \in Versions /\ Installed' >= Installed
<1> SUFFICES ASSUME "overlap" \notin slips'
             PROVE  /\ Alone'
                    /\ \A u \in Updates : Place(u)'
                    /\ exe' # None \/ old' # None
                    /\ Installed' \in Versions /\ Installed' >= Installed
  BY DEF OneByOne
<1>1. ASSUME NEW u \in Updates, UpdateStep(u)
      PROVE  /\ Alone'
             /\ \A w \in Updates : Place(w)'
             /\ exe' # None \/ old' # None
             /\ Installed' \in Versions /\ Installed' >= Installed
  <2>1. "overlap" \notin slips
    BY <1>1 DEF UpdateStep, Begin, Query, Stat, DropBackup, MoveAway, MoveIn, RenameFails,
       Restore, Tidy, Die
  <2>2. Alone /\ (\A w \in Updates : Place(w)) /\ (exe # None \/ old # None)
    BY <2>1 DEF OneByOne
  <2>3. TypeOK'
    BY <1>1, UpdateTypeOK
  <2>4. Alone'
    BY <1>1, <2>2, UpdateAlone
  <2>5. \A w \in Updates \ {u} : Place(w)'
    BY <1>1, <2>2, IdlePlace
  <2>6. /\ Place(u)'
        /\ exe' # None \/ old' # None
        /\ Installed' \in Versions /\ Installed' >= Installed
    BY <1>1, <2>2, <2>3, UpdatePlace
  <2> QED
    BY <2>4, <2>5, <2>6
<1>2. ASSUME UNCHANGED updateVars
      PROVE  /\ Alone'
             /\ \A w \in Updates : Place(w)'
             /\ exe' # None \/ old' # None
             /\ Installed' \in Versions /\ Installed' >= Installed
  <2>1. Alone /\ (\A w \in Updates : Place(w)) /\ (exe # None \/ old # None)
    BY <1>2 DEF OneByOne, updateVars
  <2>2. Installed \in Versions /\ Installed \in Nat
    BY <2>1, VersionAssumption DEF TypeOK, Version, Installed
  <2>3. Installed' = Installed
    BY <1>2 DEF updateVars, Installed
  <2>4. Alone' /\ \A w \in Updates : Place(w)'
    BY <1>2, <2>1 DEF updateVars, Alone, Place, Busy
  <2> QED
    BY <1>2, <2>1, <2>2, <2>3, <2>4 DEF updateVars
<1> QED
  BY <1>1, <1>2, CheckSteps DEF Next, vars

LEMMA AlwaysOneByOne == Spec => []OneByOne
<1>1. Init => OneByOne
  BY VersionAssumption DEF Init, OneByOne, Alone, Place, Busy, Replacing
<1>2. TypeOK /\ OneByOne /\ [Next]_vars => OneByOne'
  BY StepOneByOne
<1> QED
  BY <1>1, <1>2, UpdaterTypes, PTL DEF Spec

(* Wherever an update is cut off, a binary remains.                          *)
THEOREM ABinaryAlwaysRemains == Spec => []ABinaryRemains
<1>1. OneByOne => ABinaryRemains
  BY DEF OneByOne, ABinaryRemains
<1> QED
  BY <1>1, AlwaysOneByOne, PTL

(* What is installed only gets newer, unless updates overlap.                *)
THEOREM InstallsOnlyNewer == Spec => NeverOlder
<1>1. TypeOK /\ OneByOne /\ [Next]_vars
          => [("overlap" \notin slips' /\ Installed \in Versions) =>
                 Installed' \in Versions /\ Installed' >= Installed]_vars
  BY StepOneByOne
<1> QED
  BY <1>1, AlwaysOneByOne, UpdaterTypes, PTL DEF Spec, NeverOlder
================================================================================

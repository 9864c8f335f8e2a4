----------------------------- MODULE CertAuthority -----------------------------
(*****************************************************************************)
(* The local certificate authority (internal/ca/ca.go), as the daemons of    *)
(* one state directory open and use it, and the trust and clean commands of  *)
(* cmd/devhostd that put its root into the system's trust store and take it  *)
(* out again.                                                                *)
(*                                                                           *)
(* A certificate and its key are two files, written one after the other with *)
(* os.WriteFile, which truncates the file before it fills it.  A daemon can  *)
(* end between any two of these steps, and the next one finds what it left.  *)
(* A key is a number, a certificate the key it is for and the key that       *)
(* signed it; dates and names inside certificates are left out.              *)
(*                                                                           *)
(* The trust store is the one of update-ca-certificates: a directory of      *)
(* anchor files, and the bundle the tool makes of them.  clean removes the   *)
(* state directory with os.RemoveAll, which takes one entry after the other  *)
(* and can be cut off, or fail, between any two of them.                     *)
(*****************************************************************************)
EXTENDS Naturals

CONSTANTS
    Daemons,    \* daemon processes, each of which opens the authority once
    Hosts,      \* host names, a wildcard one being a name of its own
    Root,       \* the subject of the root certificate
    Missing,    \* there is no such file, no such certificate, no such job
    Torn,       \* a file that does not parse: truncated and not filled
    MaxKeys     \* bound: how many keys are ever generated

ASSUME RootAssumption == Root \notin Hosts
ASSUME KeysAssumption == MaxKeys \in Nat
ASSUME TornAssumption == Torn # Missing

Keys == 1..MaxKeys
Cert == [key : Keys, signer : Keys]
Subjects == Hosts \cup {Root}

(* The two files of a subject, as they are on disk or being written.         *)
Pair == [cert : Cert, key : Keys]
Files == [cert : Cert \cup {Missing, Torn}, key : Keys \cup {Missing, Torn}]
NoFiles == [cert |-> Missing, key |-> Missing]
Truncated == [cert |-> Torn, key |-> Torn]

ASSUME FilesAssumption == {Missing, Torn} \cap (Cert \cup Keys \cup Pair) = {}

(* Writing a pair: which file is next, and whether it has been opened.  An   *)
(* open file may be removed under its writer.                                *)
Job == [subject : Subjects, pair : Pair, file : {"cert", "key"},
        fd : {"closed", "open", "removed"}]

ASSUME JobAssumption == Missing \notin Job

VARIABLES
    disk,       \* disk[s]: the certificate and key file of subject s
    dirs,       \* the directories that exist
    made,       \* how many keys have been generated
    phase,      \* phase[d]: the life of daemon d
    root,       \* root[d]: the root pair daemon d has in memory
    job,        \* job[d]: the pair daemon d is writing
    cache,      \* cache[d][h]: the leaf pair daemon d serves for h
    source,     \* the anchor file devhostd.crt
    anchor,     \* the key of the root in the bundle the system trusts
    marker,     \* the file ca/trusted
    cmd,        \* where the user's trust or clean command stands
    slips       \* history: what happened that the properties except: see Slips

(* "mixed": two daemons opened the authority at the same time, or one opened *)
(* it while clean removed it, or a removal left something behind, so that    *)
(* files of two authorities may be on disk; until clean has removed all of   *)
(* them while no daemon runs.                                                *)
(* "misnoted": trust met a root that was not whole yet, or clean ended after *)
(* it had taken the trust out and before it began to remove the note of it;  *)
(* until clean has removed the note.                                         *)
(* "unnoted": trust ended before it had noted what it did, or clean after it *)
(* had removed the anchor file and before the bundle was made anew; until    *)
(* trust gets to its end.                                                    *)
Slips == {"mixed", "misnoted", "unnoted"}

daemonVars == <<phase, root, job, cache, made>>
userVars == <<source, anchor, marker, cmd>>
vars == <<disk, dirs, daemonVars, userVars, slips>>

NoCache == [h \in Hosts |-> Missing]

TypeOK ==
    /\ disk \in [Subjects -> Files]
    /\ dirs \in SUBSET {"ca", "certs"}
    /\ made \in 0..MaxKeys
    /\ phase \in [Daemons -> {"none", "open", "up", "failed", "gone"}]
    /\ root \in [Daemons -> Pair \cup {Missing}]
    /\ job \in [Daemons -> Job \cup {Missing}]
    /\ cache \in [Daemons -> [Hosts -> Pair \cup {Missing}]]
    /\ source \in Keys \cup {Missing, Torn}
    /\ anchor \in Keys \cup {Missing}
    /\ marker \in BOOLEAN
    /\ cmd \in {"idle", "installed", "anchored", "withdrawn", "untrusted", "removing"}
    /\ slips \in SUBSET Slips

Init ==
    /\ disk = [s \in Subjects |-> NoFiles]
    /\ dirs = {}
    /\ made = 0
    /\ phase = [d \in Daemons |-> "none"]
    /\ root = [d \in Daemons |-> Missing]
    /\ job = [d \in Daemons |-> Missing]
    /\ cache = [d \in Daemons |-> NoCache]
    /\ source = Missing
    /\ anchor = Missing
    /\ marker = FALSE
    /\ cmd = "idle"
    /\ slips = {}

Running(d) == phase[d] \in {"open", "up"}

(* What tls.LoadX509KeyPair accepts: both files parse and belong together.   *)
Usable(f) == f.cert \in Cert /\ f.key \in Keys /\ f.cert.key = f.key

-------------------------------------------------------------------------------
(* Writing a pair.                                                           *)

(* A new key, and its certificate signed with the given key.                 *)
WriteJob(s, signer) ==
    [subject |-> s, file |-> "cert", fd |-> "closed",
     pair |-> [key |-> made + 1, cert |-> [key |-> made + 1, signer |-> signer]]]

(* The next pair daemon d writes.  Keys that would exceed the bound are not  *)
(* generated.                                                                *)
Generate(d, s, signer) ==
    /\ made < MaxKeys
    /\ made' = made + 1
    /\ job' = [job EXCEPT ![d] = WriteJob(s, signer)]

DirOf(s) == IF s = Root THEN "ca" ELSE "certs"

At(f, file) == IF file = "cert" THEN f.cert ELSE f.key

(* The files f with the named one taken from g.                              *)
Put(f, file, g) ==
    IF file = "cert" THEN [f EXCEPT !.cert = g.cert] ELSE [f EXCEPT !.key = g.key]

(* Faulty variant of WriteFails: an error while the root is written is not   *)
(* looked at.                                                                *)
WriteFailsUnnoticed(d) ==
    /\ job[d] # Missing
    /\ phase' = [phase EXCEPT ![d] = "up"]
    /\ root' = [root EXCEPT ![d] = IF job[d].subject = Root THEN job[d].pair ELSE @]
    /\ job' = [job EXCEPT ![d] = Missing]
    /\ UNCHANGED <<disk, dirs, made, cache, userVars, slips>>

(* An error while the root is written ends Open and with it the daemon, one  *)
(* while a leaf is written only the handshake that wanted it.                *)
WriteFails(d) ==
    /\ job[d] # Missing
    /\ phase' = [phase EXCEPT ![d] = IF job[d].subject = Root THEN "failed" ELSE @]
    /\ job' = [job EXCEPT ![d] = Missing]
    /\ UNCHANGED <<disk, dirs, made, root, cache, userVars, slips>>

(* os.WriteFile opens the file and truncates it ...                          *)
Truncate(d) ==
    LET j == job[d]
    IN  /\ j # Missing
        /\ j.fd = "closed"
        /\ DirOf(j.subject) \in dirs
        /\ disk' = [disk EXCEPT ![j.subject] = Put(@, j.file, Truncated)]
        /\ job' = [job EXCEPT ![d].fd = "open"]
        /\ UNCHANGED <<dirs, phase, root, cache, made, userVars, slips>>

(* ... and fills it.  After the certificate comes the key, and after the key *)
(* the pair is in use.                                                       *)
Fill(d) ==
    LET j == job[d]
    IN  /\ j # Missing
        /\ j.fd # "closed"
        /\ disk' = IF j.fd = "open"
                   THEN [disk EXCEPT ![j.subject] = Put(@, j.file, j.pair)]
                   ELSE disk
        /\ IF j.file = "cert"
           THEN /\ job' = [job EXCEPT ![d] = [@ EXCEPT !.file = "key", !.fd = "closed"]]
                /\ UNCHANGED <<phase, root, cache>>
           ELSE /\ job' = [job EXCEPT ![d] = Missing]
                /\ IF j.subject = Root
                   THEN /\ root' = [root EXCEPT ![d] = j.pair]
                        /\ phase' = [phase EXCEPT ![d] = "up"]
                        /\ UNCHANGED cache
                   ELSE /\ cache' = [cache EXCEPT ![d][j.subject] = j.pair]
                        /\ UNCHANGED <<phase, root>>
        /\ UNCHANGED <<dirs, made, userVars, slips>>

-------------------------------------------------------------------------------
(* Opening the authority.                                                    *)

Start(d) ==
    /\ phase[d] = "none"
    /\ phase' = [phase EXCEPT ![d] = "open"]
    /\ dirs' = {"ca", "certs"}
    /\ slips' = IF cmd = "removing" \/ \E e \in Daemons : Running(e)
                THEN slips \cup {"mixed"} ELSE slips
    /\ UNCHANGED <<disk, root, job, cache, made, userVars>>

Opening(d) == phase[d] = "open" /\ job[d] = Missing

(* Faulty variant of GenerateRoot: a root is made whatever load has found.   *)
GenerateRootAnew(d) ==
    /\ Opening(d)
    /\ Generate(d, Root, made + 1)
    /\ UNCHANGED <<disk, dirs, phase, root, cache, userVars, slips>>

(* load found no certificate or no key: a new root is made, also over a      *)
(* certificate whose key was never written.                                  *)
GenerateRoot(d) ==
    /\ Opening(d)
    /\ Missing \in {disk[Root].cert, disk[Root].key}
    /\ Generate(d, Root, made + 1)
    /\ UNCHANGED <<disk, dirs, phase, root, cache, userVars, slips>>

(* Faulty variant of LoadRoot: what does not parse is taken as it is.        *)
LoadRootUnparsed(d) ==
    /\ Opening(d)
    /\ Missing \notin {disk[Root].cert, disk[Root].key}
    /\ root' = [root EXCEPT ![d] = disk[Root]]
    /\ phase' = [phase EXCEPT ![d] = "up"]
    /\ UNCHANGED <<disk, dirs, job, cache, made, userVars, slips>>

(* Both files parse.  Nobody asks whether they belong together.              *)
LoadRoot(d) ==
    /\ Opening(d)
    /\ disk[Root] \in Pair
    /\ root' = [root EXCEPT ![d] = disk[Root]]
    /\ phase' = [phase EXCEPT ![d] = "up"]
    /\ UNCHANGED <<disk, dirs, job, cache, made, userVars, slips>>

(* "invalid CA files": the daemon does not start.                            *)
RejectRoot(d) ==
    /\ Opening(d)
    /\ Missing \notin {disk[Root].cert, disk[Root].key}
    /\ Torn \in {disk[Root].cert, disk[Root].key}
    /\ phase' = [phase EXCEPT ![d] = "failed"]
    /\ UNCHANGED <<disk, dirs, root, job, cache, made, userVars, slips>>

-------------------------------------------------------------------------------
(* Certificate, which holds the authority's lock from its look at the cache  *)
(* to its last write.                                                        *)

Wanted(d, h) == phase[d] = "up" /\ job[d] = Missing /\ cache[d][h] = Missing

(* Faulty variant of LoadLeaf: the key is not compared with the certificate. *)
LoadLeafUnmatched(d, h) ==
    /\ Wanted(d, h)
    /\ disk[h] \in Pair
    /\ cache' = [cache EXCEPT ![d][h] = disk[h]]
    /\ UNCHANGED <<disk, dirs, phase, root, job, made, userVars, slips>>

LoadLeaf(d, h) ==
    /\ Wanted(d, h)
    /\ Usable(disk[h])
    /\ cache' = [cache EXCEPT ![d][h] = disk[h]]
    /\ UNCHANGED <<disk, dirs, phase, root, job, made, userVars, slips>>

(* x509.CreateCertificate refuses a root whose key is another one's.         *)
GenerateLeaf(d, h) ==
    /\ Wanted(d, h)
    /\ ~Usable(disk[h])
    /\ Usable(root[d])
    /\ Generate(d, h, root[d].key)
    /\ UNCHANGED <<disk, dirs, phase, root, cache, userVars, slips>>

(* The daemon ends: stopped, killed, or with an error of its own.            *)
Exit(d) ==
    /\ Running(d)
    /\ phase' = [phase EXCEPT ![d] = "gone"]
    /\ root' = [root EXCEPT ![d] = Missing]
    /\ job' = [job EXCEPT ![d] = Missing]
    /\ cache' = [cache EXCEPT ![d] = NoCache]
    /\ UNCHANGED <<disk, dirs, made, userVars, slips>>

DaemonStep(d) ==
    \/ Start(d) \/ GenerateRoot(d) \/ LoadRoot(d) \/ RejectRoot(d)
    \/ Truncate(d) \/ Fill(d) \/ WriteFails(d) \/ Exit(d)
    \/ \E h \in Hosts : LoadLeaf(d, h) \/ GenerateLeaf(d, h)

-------------------------------------------------------------------------------
(* trust and clean, one command of the user at a time.                       *)

(* What update-ca-certificates makes of the anchor file.                     *)
Bundled(f) == IF f \in Keys THEN f ELSE Missing

(* trust copies the root certificate to the anchor file, if there is one,    *)
(* whether or not it is whole and its key on disk yet ...                    *)
TrustInstall ==
    /\ cmd = "idle"
    /\ disk[Root].cert # Missing
    /\ source' = IF disk[Root].cert = Torn THEN Torn ELSE disk[Root].cert.key
    /\ cmd' = "installed"
    /\ slips' = IF Usable(disk[Root]) THEN slips ELSE slips \cup {"misnoted"}
    /\ UNCHANGED <<disk, dirs, daemonVars, anchor, marker>>

(* ... has the bundle made anew ...                                          *)
TrustUpdate ==
    /\ cmd = "installed"
    /\ anchor' = Bundled(source)
    /\ cmd' = "anchored"
    /\ UNCHANGED <<disk, dirs, daemonVars, source, marker, slips>>

(* ... and notes that it has.                                                *)
TrustMark ==
    /\ cmd = "anchored"
    /\ marker' = TRUE
    /\ dirs' = dirs \cup {"ca"}
    /\ cmd' = "idle"
    /\ slips' = slips \ {"unnoted"}
    /\ UNCHANGED <<disk, daemonVars, source, anchor>>

(* It is cut off, or one of its steps fails.                                 *)
TrustInterrupted ==
    /\ cmd \in {"installed", "anchored"}
    /\ cmd' = "idle"
    /\ slips' = IF cmd = "anchored" /\ ~marker THEN slips \cup {"unnoted"} ELSE slips
    /\ UNCHANGED <<disk, dirs, daemonVars, source, anchor, marker>>

(* Faulty variant of CleanUntrust: a root that does not parse does not stop  *)
(* the command.                                                              *)
CleanUntrustOrNot ==
    /\ cmd = "idle"
    /\ IF marker /\ disk[Root].cert \in Cert /\ source # Missing
       THEN source' = Missing /\ cmd' = "withdrawn"
       ELSE cmd' = "untrusted" /\ UNCHANGED source
    /\ UNCHANGED <<disk, dirs, daemonVars, anchor, marker, slips>>

(* clean asks the daemon to stop and does not wait for it.  A root that is   *)
(* noted as trusted is taken out of the store, unless there is no anchor     *)
(* file to remove; one that does not parse stops the command there.          *)
CleanUntrust ==
    /\ cmd = "idle"
    /\ marker => disk[Root].cert \in Cert
    /\ IF marker /\ source # Missing
       THEN source' = Missing /\ cmd' = "withdrawn"
       ELSE cmd' = "untrusted" /\ UNCHANGED source
    /\ UNCHANGED <<disk, dirs, daemonVars, anchor, marker, slips>>

(* The bundle is made anew without it.                                       *)
CleanUpdate ==
    /\ cmd = "withdrawn"
    /\ anchor' = Bundled(source)
    /\ cmd' = "untrusted"
    /\ UNCHANGED <<disk, dirs, daemonVars, source, marker, slips>>

(* The state directory is removed, also under a daemon that writes into it   *)
(* or is about to make a root.                                               *)
CleanRemove ==
    /\ cmd = "untrusted"
    /\ cmd' = "removing"
    /\ slips' = IF \E d \in Daemons : phase[d] = "open" THEN slips \cup {"mixed"} ELSE slips
    /\ UNCHANGED <<disk, dirs, daemonVars, source, anchor, marker>>

(* A file goes; who has it open writes into what has no name.                *)
RemoveFile(s, file) ==
    /\ cmd = "removing"
    /\ At(disk[s], file) # Missing
    /\ disk' = [disk EXCEPT ![s] = Put(@, file, NoFiles)]
    /\ job' = [d \in Daemons |->
                  IF /\ job[d] # Missing /\ job[d].fd = "open"
                     /\ job[d].subject = s /\ job[d].file = file
                  THEN [job[d] EXCEPT !.fd = "removed"] ELSE job[d]]
    /\ UNCHANGED <<dirs, phase, root, cache, made, userVars, slips>>

RemoveMarker ==
    /\ cmd = "removing"
    /\ marker
    /\ marker' = FALSE
    /\ UNCHANGED <<disk, dirs, daemonVars, source, anchor, cmd, slips>>

(* A directory goes when nothing is left or has been written anew in it.     *)
RemoveDir(x) ==
    /\ cmd = "removing"
    /\ x \in dirs
    /\ \A s \in Subjects : DirOf(s) = x => disk[s] = NoFiles
    /\ x = "ca" => ~marker
    /\ dirs' = dirs \ {x}
    /\ UNCHANGED <<disk, daemonVars, userVars, slips>>

CleanEnds ==
    /\ cmd = "removing"
    /\ dirs = {}
    /\ cmd' = "idle"
    /\ slips' = slips \ (IF \E d \in Daemons : Running(d) THEN {"misnoted"}
                         ELSE {"misnoted", "mixed"})
    /\ UNCHANGED <<disk, dirs, daemonVars, source, anchor, marker>>

(* clean is cut off, or a step of it fails: update-ca-certificates, the      *)
(* hosts file, or the removal of something.                                  *)
CleanInterrupted ==
    /\ cmd \in {"withdrawn", "untrusted", "removing"}
    /\ cmd = "removing" => dirs # {}
    /\ cmd' = "idle"
    /\ slips' = slips \cup {CASE cmd = "withdrawn" -> "unnoted"
                              [] cmd = "untrusted" -> "misnoted"
                              [] cmd = "removing" -> "mixed"}
    /\ UNCHANGED <<disk, dirs, daemonVars, source, anchor, marker>>

UserStep ==
    \/ TrustInstall \/ TrustUpdate \/ TrustMark \/ TrustInterrupted
    \/ CleanUntrust \/ CleanUpdate \/ CleanRemove
    \/ \E s \in Subjects, file \in {"cert", "key"} : RemoveFile(s, file)
    \/ RemoveMarker
    \/ \E x \in {"ca", "certs"} : RemoveDir(x)
    \/ CleanEnds \/ CleanInterrupted

Next == UserStep \/ \E d \in Daemons : DaemonStep(d)

Spec == Init /\ [][Next]_vars

-------------------------------------------------------------------------------
(* Properties.                                                               *)

(* The root certificate and the root key on disk belong together whenever    *)
(* both parse, wherever daemons were cut off while they wrote them, and      *)
(* while clean removes them one by one, but for the mixing said above.       *)
RootPairMatches ==
    "mixed" \notin slips /\ disk[Root] \in Pair => Usable(disk[Root])

(* A saved leaf that a daemon would use was signed by the root on disk: no   *)
(* leaf outlives the root that signed it, across crashes, failed writes and  *)
(* every clean that gets to its end, also one under a daemon that serves.    *)
SavedLeavesHaveTheirRoot ==
    "mixed" \notin slips /\ cmd # "removing" =>
        \A h \in Hosts :
            Usable(disk[h]) => /\ Usable(disk[Root])
                               /\ disk[h].cert.signer = disk[Root].key

(* What a daemon serves is a certificate with its own key, however the files *)
(* of several authorities got mixed, and, if they did not, one that verifies *)
(* against the daemon's root, also while clean removes its files.            *)
ServedLeavesVerify ==
    \A d \in Daemons, h \in Hosts :
        cache[d][h] # Missing =>
            /\ Usable(cache[d][h])
            /\ "mixed" \notin slips => cache[d][h].cert.signer = root[d].key

(* When ca/trusted is there, and neither trust nor clean is at work, the     *)
(* root on disk is the one the system trusts, unless trust met a root that   *)
(* was still being written, or clean ended after it had taken the trust out  *)
(* and before it had removed everything.                                     *)
MarkedRootIsTrusted ==
    marker /\ cmd = "idle" /\ slips \cap {"mixed", "misnoted"} = {} =>
        disk[Root].cert \in Cert /\ disk[Root].cert.key = anchor

(* clean leaves no root in the system's bundle: whatever removes ca/trusted  *)
(* has removed the trust before, wherever trust and clean are cut off but    *)
(* for two places: trust before its note, and clean after it has removed the *)
(* anchor file and before the bundle is made anew, since the next clean      *)
(* finds no anchor file and asks for no new bundle.                          *)
UnmarkedMeansUntrusted ==
    ~marker /\ cmd # "anchored" /\ "unnoted" \notin slips =>
        anchor = Missing
===============================================================================

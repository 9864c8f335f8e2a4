------------------------- MODULE CertAuthority_proofs --------------------------
(*****************************************************************************)
(* Proofs about CertAuthority, for any number of daemons, host names and     *)
(* keys.                                                                     *)
(*****************************************************************************)
EXTENDS CertAuthority, TLAPS

-------------------------------------------------------------------------------
(* Type correctness.                                                         *)

LEMMA PutType ==
    ASSUME NEW f \in Files, NEW file \in {"cert", "key"}, NEW g \in Pair \cup {Truncated}
    PROVE  Put(f, file, g) \in Files
BY DEF Put, Files, Pair, Truncated

(* The records of a job that is being written, and of a new one.             *)
LEMMA JobFields ==
    ASSUME NEW j \in Job
    PROVE  /\ j.subject \in Subjects /\ j.file \in {"cert", "key"} /\ j.pair \in Pair
           /\ [j EXCEPT !.fd = "open"] \in Job
           /\ [j EXCEPT !.fd = "removed"] \in Job
           /\ [j EXCEPT !.file = "key", !.fd = "closed"] \in Job
BY DEF Job

LEMMA NewKey ==
    ASSUME TypeOK, made < MaxKeys
    PROVE  made + 1 \in Keys /\ made + 1 \in 0..MaxKeys
BY KeysAssumption DEF TypeOK, Keys

LEMMA NewJob ==
    ASSUME TypeOK, made < MaxKeys, NEW s \in Subjects, NEW signer \in Keys
    PROVE  WriteJob(s, signer) \in Job
<1>1. made + 1 \in Keys
  BY NewKey
<1>2. [key |-> made + 1, signer |-> signer] \in Cert
  BY <1>1 DEF Cert
<1> QED
  BY <1>1, <1>2 DEF WriteJob, Job, Pair

LEMMA StartType == ASSUME TypeOK, NEW d \in Daemons, Start(d) PROVE TypeOK'
BY DEF TypeOK, Start, userVars, Slips

LEMMA TruncateType == ASSUME TypeOK, NEW d \in Daemons, Truncate(d) PROVE TypeOK'
<1>1. job[d] \in Job
  BY DEF TypeOK, Truncate
<1>2. job' \in [Daemons -> Job \cup {Missing}]
  BY <1>1, JobFields DEF TypeOK, Truncate
<1>3. disk' \in [Subjects -> Files]
  BY <1>1, JobFields, PutType DEF TypeOK, Truncate
<1> QED
  BY <1>2, <1>3 DEF TypeOK, Truncate, userVars

LEMMA FillType == ASSUME TypeOK, NEW d \in Daemons, Fill(d) PROVE TypeOK'
<1> DEFINE j == job[d]
<1>1. j \in Job
  BY DEF TypeOK, Fill
<1>2. job' \in [Daemons -> Job \cup {Missing}]
  BY <1>1, JobFields DEF TypeOK, Fill
<1>3. disk' \in [Subjects -> Files]
  BY <1>1, JobFields, PutType DEF TypeOK, Fill
<1>4. root' \in [Daemons -> Pair \cup {Missing}]
  BY <1>1, JobFields DEF TypeOK, Fill
<1>5. cache' \in [Daemons -> [Hosts -> Pair \cup {Missing}]]
  <2>1. CASE j.file = "key" /\ j.subject # Root
    <3>1. j.subject \in Hosts /\ j.pair \in Pair
      BY <1>1, <2>1, JobFields DEF Subjects
    <3>2. cache' = [cache EXCEPT ![d][j.subject] = j.pair]
      BY <2>1 DEF Fill
    <3>3. [cache[d] EXCEPT ![j.subject] = j.pair] \in [Hosts -> Pair \cup {Missing}]
      BY <3>1 DEF TypeOK
    <3>4. cache' = [cache EXCEPT ![d] = [cache[d] EXCEPT ![j.subject] = j.pair]]
      BY <3>2
    <3> QED
      BY <3>3, <3>4 DEF TypeOK
  <2>2. CASE ~(j.file = "key" /\ j.subject # Root)
    BY <1>1, <2>2, JobFields DEF TypeOK, Fill
  <2> QED
    BY <2>1, <2>2
<1>6. phase' \in [Daemons -> {"none", "open", "up", "failed", "gone"}]
  BY DEF TypeOK, Fill
<1> QED
  BY <1>2, <1>3, <1>4, <1>5, <1>6 DEF TypeOK, Fill, userVars

LEMMA OpenType ==
    ASSUME TypeOK, NEW d \in Daemons,
           GenerateRoot(d) \/ LoadRoot(d) \/ RejectRoot(d) \/ WriteFails(d) \/ Exit(d)
    PROVE  TypeOK'
<1> USE DEF TypeOK, userVars
<1>1. CASE GenerateRoot(d)
  <2>1. WriteJob(Root, made + 1) \in Job /\ made' \in 0..MaxKeys
    BY <1>1, NewKey, NewJob DEF GenerateRoot, Generate, Subjects
  <2> QED
    BY <1>1, <2>1 DEF GenerateRoot, Generate
<1>2. CASE LoadRoot(d) \/ RejectRoot(d)
  BY <1>2 DEF LoadRoot, RejectRoot
<1>3. CASE WriteFails(d)
  BY <1>3 DEF WriteFails
<1>4. CASE Exit(d)
  BY <1>4 DEF Exit, NoCache
<1> QED
  BY <1>1, <1>2, <1>3, <1>4

LEMMA LeafType ==
    ASSUME TypeOK, NEW d \in Daemons, NEW h \in Hosts, LoadLeaf(d, h) \/ GenerateLeaf(d, h)
    PROVE  TypeOK'
<1> USE DEF TypeOK, userVars
<1>1. CASE LoadLeaf(d, h)
  <2>1. disk[h] \in Pair
    BY <1>1 DEF LoadLeaf, Usable, Subjects, Files, Pair
  <2> QED
    BY <1>1, <2>1 DEF LoadLeaf
<1>2. CASE GenerateLeaf(d, h)
  <2>1. WriteJob(h, root[d].key) \in Job /\ made' \in 0..MaxKeys
    BY <1>2, NewKey, NewJob DEF GenerateLeaf, Generate, Usable, Subjects
  <2> QED
    BY <1>2, <2>1 DEF GenerateLeaf, Generate
<1> QED
  BY <1>1, <1>2

(* A file that is removed.                                                   *)
LEMMA RemoveFileType ==
    ASSUME TypeOK, NEW s \in Subjects, NEW file \in {"cert", "key"}, RemoveFile(s, file)
    PROVE  TypeOK'
<1>1. job' \in [Daemons -> Job \cup {Missing}]
  <2>1. ASSUME NEW d \in Daemons
        PROVE  /\ job[d] \in Job \cup {Missing}
               /\ job[d] # Missing => [job[d] EXCEPT !.fd = "removed"] \in Job
    BY JobFields DEF TypeOK
  <2> QED
    BY <2>1 DEF RemoveFile
<1>2. disk' \in [Subjects -> Files]
  <2>1. Put(disk[s], file, NoFiles) \in Files
    BY DEF TypeOK, Put, Files, NoFiles
  <2> QED
    BY <2>1 DEF RemoveFile, TypeOK
<1> QED
  BY <1>1, <1>2 DEF TypeOK, RemoveFile, userVars

LEMMA UserType == ASSUME TypeOK, UserStep PROVE TypeOK'
<1> USE DEF TypeOK, daemonVars
<1>1. CASE TrustInstall
  <2>1. source' \in Keys \cup {Missing, Torn}
    BY <1>1 DEF TrustInstall, Files, Cert, Subjects
  <2>2. slips' \in SUBSET Slips
    BY <1>1 DEF TrustInstall, Slips
  <2> QED
    BY <1>1, <2>1, <2>2 DEF TrustInstall
<1>2. CASE TrustUpdate \/ CleanUpdate
  BY <1>2 DEF TrustUpdate, CleanUpdate, Bundled
<1>3. CASE TrustMark \/ TrustInterrupted
  BY <1>3 DEF TrustMark, TrustInterrupted, Slips
<1>4. CASE CleanUntrust \/ RemoveMarker
  BY <1>4 DEF CleanUntrust, RemoveMarker
<1>5. CASE CleanRemove \/ CleanEnds \/ CleanInterrupted
  BY <1>5 DEF CleanRemove, CleanEnds, CleanInterrupted, Slips
<1>6. ASSUME NEW x \in {"ca", "certs"}, RemoveDir(x)
      PROVE  TypeOK'
  BY <1>6 DEF RemoveDir, userVars
<1> QED
  BY <1>1, <1>2, <1>3, <1>4, <1>5, <1>6, RemoveFileType DEF UserStep

LEMMA StepTypeOK == TypeOK /\ [Next]_vars => TypeOK'
<1> SUFFICES ASSUME TypeOK, [Next]_vars
             PROVE  TypeOK'
  OBVIOUS
<1>1. CASE UNCHANGED vars
  BY <1>1 DEF vars, daemonVars, userVars, TypeOK
<1> QED
  BY <1>1, StartType, TruncateType, FillType, OpenType, LeafType, UserType DEF Next, DaemonStep

(* Every variable keeps its type: what is in memory is a parsed pair, what   *)
(* is on disk may be missing or truncated.                                   *)
THEOREM AuthorityTypes == Spec => []TypeOK
<1>1. Init => TypeOK
  <2> SUFFICES ASSUME Init
               PROVE  TypeOK
    OBVIOUS
  <2>1. disk \in [Subjects -> Files]
    BY DEF Init, NoFiles, Files
  <2>2. cache \in [Daemons -> [Hosts -> Pair \cup {Missing}]]
    BY DEF Init, NoCache
  <2>3. made \in 0..MaxKeys
    BY KeysAssumption DEF Init
  <2> QED
    BY <2>1, <2>2, <2>3 DEF Init, TypeOK
<1> QED
  BY <1>1, StepTypeOK, PTL DEF Spec

-------------------------------------------------------------------------------
(* The trust store without its note.                                         *)

(* Without an anchor file the bundle has no root, and without the note, or   *)
(* once the trust has been taken out, neither.                               *)
Unanchored ==
    /\ cmd = "anchored" => source # Missing
    /\ cmd = "withdrawn" => source = Missing
    /\ cmd # "withdrawn" /\ "unnoted" \notin slips /\ source = Missing => anchor = Missing
    /\ /\ cmd # "anchored" /\ "unnoted" \notin slips
       /\ ~marker \/ cmd \in {"untrusted", "removing"}
       => anchor = Missing
    /\ cmd = "withdrawn" => marker
    /\ cmd = "installed" => source # Missing

LEMMA UserUnanchored == TypeOK /\ Unanchored /\ UserStep => Unanchored'
<1> SUFFICES ASSUME TypeOK, Unanchored, UserStep
             PROVE  Unanchored'
  OBVIOUS
<1> USE DEF Unanchored, TypeOK
<1>1. CASE TrustInstall
  <2>1. source' # Missing
    BY <1>1, TornAssumption, FilesAssumption DEF TrustInstall, Files, Cert, Subjects
  <2> QED
    BY <1>1, <2>1 DEF TrustInstall
<1>2. CASE TrustUpdate
  BY <1>2 DEF TrustUpdate
<1>3. CASE TrustMark \/ TrustInterrupted
  BY <1>3 DEF TrustMark, TrustInterrupted
<1>4. CASE CleanUntrust
  BY <1>4 DEF CleanUntrust
<1>5. CASE CleanUpdate
  BY <1>5, FilesAssumption DEF CleanUpdate, Bundled
<1>6. CASE CleanRemove \/ CleanEnds \/ RemoveMarker
  BY <1>6 DEF CleanRemove, CleanEnds, RemoveMarker
<1>7. CASE CleanInterrupted
  BY <1>7 DEF CleanInterrupted
<1>8. ASSUME NEW s \in Subjects, NEW file \in {"cert", "key"}, RemoveFile(s, file)
      PROVE  Unanchored'
  BY <1>8 DEF RemoveFile, userVars
<1>9. ASSUME NEW x \in {"ca", "certs"}, RemoveDir(x)
      PROVE  Unanchored'
  BY <1>9 DEF RemoveDir, userVars
<1> QED
  BY <1>1, <1>2, <1>3, <1>4, <1>5, <1>6, <1>7, <1>8, <1>9 DEF UserStep

LEMMA StepUnanchored == TypeOK /\ Unanchored /\ [Next]_vars => Unanchored'
<1> SUFFICES ASSUME TypeOK, Unanchored, [Next]_vars
             PROVE  Unanchored'
  OBVIOUS
<1>1. ASSUME NEW d \in Daemons, DaemonStep(d)
      PROVE  UNCHANGED userVars /\ ("unnoted" \in slips' <=> "unnoted" \in slips)
  BY <1>1 DEF DaemonStep, Start, GenerateRoot, LoadRoot, RejectRoot, Truncate, Fill, WriteFails,
     Exit, LoadLeaf, GenerateLeaf
<1>2. CASE UNCHANGED vars
  BY <1>2 DEF vars, userVars, Unanchored
<1> QED
  BY <1>1, <1>2, UserUnanchored DEF Next, userVars, Unanchored

(* clean leaves no root in the bundle the system trusts, however daemons     *)
(* write theirs meanwhile and wherever trust and clean are cut off, but      *)
(* before trust's note, and between clean's two commands.                    *)
THEOREM CleanLeavesNoAnchor == Spec => []UnmarkedMeansUntrusted
<1>1. Init => Unanchored
  BY DEF Init, Unanchored
<1>2. Unanchored => UnmarkedMeansUntrusted
  BY DEF Unanchored, UnmarkedMeansUntrusted
<1> QED
  BY <1>1, <1>2, StepUnanchored, AuthorityTypes, PTL DEF Spec

-------------------------------------------------------------------------------
(* What holds however daemons overlap.                                       *)

(* What is in a directory goes before it, a file that is open has a name,    *)
(* and the root certificate that trust copies stays until trust is done.     *)
Tree ==
    /\ \A s \in Subjects : DirOf(s) \notin dirs => disk[s] = NoFiles
    /\ marker => "ca" \in dirs
    /\ \A d \in Daemons : job[d] # Missing /\ job[d].fd = "open" =>
          At(disk[job[d].subject], job[d].file) # Missing
    /\ cmd \in {"installed", "anchored"} => disk[Root].cert # Missing

(* What a daemon has in memory, by its phase.                                *)
Memory(d) ==
    /\ job[d] # Missing => /\ Running(d)
                           /\ Usable(job[d].pair)
                           /\ job[d].subject = Root <=> phase[d] = "open"
    /\ phase[d] = "up" => root[d] \in Pair
    /\ \A h \in Hosts : cache[d][h] # Missing => phase[d] = "up" /\ Usable(cache[d][h])

LEMMA Distinct ==
    /\ Missing # Torn /\ Missing \notin Cert /\ Missing \notin Keys /\ Missing \notin Pair
    /\ Torn \notin Cert /\ Torn \notin Keys /\ Missing \notin Job /\ Root \notin Hosts
BY TornAssumption, FilesAssumption, JobAssumption, RootAssumption

LEMMA NewPairUsable ==
    ASSUME TypeOK, made < MaxKeys, NEW s \in Subjects, NEW signer \in Keys
    PROVE  /\ Usable(WriteJob(s, signer).pair)
           /\ WriteJob(s, signer).pair.cert.signer = signer
           /\ WriteJob(s, signer).subject = s
           /\ WriteJob(s, signer).file = "cert"
           /\ WriteJob(s, signer).fd = "closed"
BY NewKey DEF WriteJob, Usable, Cert

(* What Put leaves and what it takes over.                                   *)
LEMMA PutAt ==
    ASSUME NEW f \in Files, NEW file \in {"cert", "key"}, NEW g \in Pair \cup {Truncated, NoFiles}
    PROVE  /\ At(Put(f, file, g), file) = At(g, file)
           /\ \A other \in {"cert", "key"} \ {file} : At(Put(f, file, g), other) = At(f, other)
BY DEF Put, At, Files, Pair, Truncated, NoFiles

LEMMA TreeDaemon ==
    ASSUME TypeOK, Tree, NEW d \in Daemons, Truncate(d) \/ Fill(d)
    PROVE  Tree'
<1> DEFINE j == job[d]
<1>1. /\ j \in Job /\ j # Missing /\ j.subject \in Subjects /\ j.file \in {"cert", "key"}
      /\ j.pair \in Pair /\ Root \in Subjects
  BY JobFields DEF TypeOK, Truncate, Fill, Subjects
<1>2. UNCHANGED <<dirs, userVars>>
  BY DEF Truncate, Fill
<1>3. PICK g \in Pair \cup {Truncated} :
         disk' \in {disk, [disk EXCEPT ![j.subject] = Put(disk[j.subject], j.file, g)]}
  BY <1>1 DEF Truncate, Fill
<1>4. At(g, j.file) # Missing
  BY <1>1, Distinct DEF At, Pair, Truncated
<1>5. ASSUME NEW s \in Subjects, NEW file \in {"cert", "key"}
      PROVE  At(disk[s], file) # Missing => At(disk'[s], file) # Missing
  <2>1. CASE disk' = disk
    BY <2>1
  <2>2. CASE disk' = [disk EXCEPT ![j.subject] = Put(disk[j.subject], j.file, g)]
    <3>1. CASE s # j.subject
      BY <2>2, <3>1 DEF TypeOK
    <3>2. CASE s = j.subject
      <4>1. disk'[s] = Put(disk[s], j.file, g) /\ disk[s] \in Files
        BY <2>2, <3>2 DEF TypeOK
      <4> QED
        BY <1>1, <1>4, <4>1, PutAt
    <3> QED
      BY <3>1, <3>2
  <2> QED
    BY <1>3, <2>1, <2>2
<1>6. DirOf(j.subject) \in dirs \/ disk' = disk
  <2>1. CASE Truncate(d)
    BY <2>1 DEF Truncate
  <2>2. CASE Fill(d) /\ j.fd = "open"
    <3>1. At(disk[j.subject], j.file) # Missing
      BY <1>1, <2>2 DEF Tree
    <3>2. disk[j.subject] # NoFiles
      BY <1>1, <3>1 DEF At, NoFiles
    <3> QED
      BY <1>1, <3>2 DEF Tree
  <2>3. CASE Fill(d) /\ j.fd # "open"
    BY <2>3 DEF Fill
  <2> QED
    BY <2>1, <2>2, <2>3
<1>7. ASSUME NEW s \in Subjects, DirOf(s) \notin dirs'
      PROVE  disk'[s] = NoFiles
  <2>1. s # j.subject \/ disk' = disk
    BY <1>2, <1>6, <1>7
  <2>2. disk'[s] = disk[s]
    BY <1>3, <2>1 DEF TypeOK
  <2> QED
    BY <1>2, <1>7, <2>2 DEF Tree
<1>8. \A e \in Daemons \ {d} : job'[e] = job[e]
  BY DEF Truncate, Fill, TypeOK
<1>9. ASSUME NEW e \in Daemons, job'[e] # Missing, job'[e].fd = "open"
      PROVE  At(disk'[job'[e].subject], job'[e].file) # Missing
  <2>1. CASE e # d
    <3>1. job'[e] = job[e] /\ job[e] \in Job
      BY <1>8, <1>9, <2>1 DEF TypeOK
    <3>2. job[e].subject \in Subjects /\ job[e].file \in {"cert", "key"}
      BY <3>1, JobFields
    <3> QED
      BY <1>5, <1>9, <3>1, <3>2 DEF Tree
  <2>2. CASE e = d /\ Truncate(d)
    <3>1. job'[d].subject = j.subject /\ job'[d].file = j.file
      BY <1>1, <2>2 DEF Truncate, TypeOK, Job
    <3>2. disk'[j.subject] = Put(disk[j.subject], j.file, Truncated) /\ disk[j.subject] \in Files
      BY <1>1, <2>2 DEF Truncate, TypeOK
    <3>3. At(Truncated, j.file) = Torn
      BY <1>1 DEF At, Truncated
    <3> QED
      BY <1>1, <2>2, <3>1, <3>2, <3>3, PutAt, Distinct
  <2>3. CASE e = d /\ Fill(d)
    <3>1. job'[d] = Missing \/ job'[d] = [j EXCEPT !.file = "key", !.fd = "closed"]
      BY <2>3 DEF Fill, TypeOK
    <3>2. [j EXCEPT !.file = "key", !.fd = "closed"].fd = "closed"
      BY <1>1 DEF Job
    <3> QED
      BY <1>9, <2>3, <3>1, <3>2
  <2> QED
    BY <2>1, <2>2, <2>3
<1>10. disk'[Root].cert = Missing => disk[Root].cert = Missing
  <2>1. At(disk[Root], "cert") # Missing => At(disk'[Root], "cert") # Missing
    BY <1>1, <1>5
  <2> QED
    BY <2>1 DEF At
<1> QED
  BY <1>2, <1>7, <1>9, <1>10 DEF Tree, userVars

LEMMA TreeRemove ==
    ASSUME TypeOK, Tree, NEW s \in Subjects, NEW file \in {"cert", "key"}, RemoveFile(s, file)
    PROVE  Tree'
<1>1. disk[s] \in Files /\ \A e \in Daemons : job[e] # Missing => job[e] \in Job
  BY DEF TypeOK
<1>2. /\ cmd = "removing" /\ UNCHANGED <<dirs, userVars>>
      /\ disk' = [disk EXCEPT ![s] = Put(disk[s], file, NoFiles)]
  BY DEF RemoveFile
<1>3. disk'[s] = Put(disk[s], file, NoFiles) /\ \A t \in Subjects \ {s} : disk'[t] = disk[t]
  BY <1>2 DEF TypeOK
<1>4. ASSUME NEW t \in Subjects, DirOf(t) \notin dirs'
      PROVE  disk'[t] = NoFiles
  <2>1. disk[t] = NoFiles
    BY <1>2, <1>4 DEF Tree
  <2>2. t # s
    BY <2>1 DEF RemoveFile, At, NoFiles
  <2> QED
    BY <1>3, <2>1, <2>2
<1>5. ASSUME NEW e \in Daemons, job'[e] # Missing, job'[e].fd = "open"
      PROVE  At(disk'[job'[e].subject], job'[e].file) # Missing
  <2>1. job'[e] = job[e] /\ ~(job[e].subject = s /\ job[e].file = file)
    <3>1. job'[e] = IF /\ job[e] # Missing /\ job[e].fd = "open"
                       /\ job[e].subject = s /\ job[e].file = file
                    THEN [job[e] EXCEPT !.fd = "removed"] ELSE job[e]
      BY DEF RemoveFile
    <3>2. job[e] # Missing => [job[e] EXCEPT !.fd = "removed"].fd = "removed"
      BY <1>1 DEF Job
    <3> QED
      BY <1>5, <3>1, <3>2
  <2>2. job[e].subject \in Subjects /\ job[e].file \in {"cert", "key"}
    BY <1>1, <1>5, <2>1, JobFields
  <2>3. At(disk[job[e].subject], job[e].file) # Missing
    BY <1>5, <2>1 DEF Tree
  <2>4. CASE job[e].subject # s
    BY <1>3, <2>1, <2>2, <2>3, <2>4
  <2>5. CASE job[e].subject = s
    BY <1>1, <1>3, <2>1, <2>2, <2>3, <2>5, PutAt
  <2> QED
    BY <2>4, <2>5
<1> QED
  BY <1>2, <1>4, <1>5 DEF Tree, userVars

LEMMA TreeUser ==
    ASSUME TypeOK, Tree, UserStep,
           \A s \in Subjects, file \in {"cert", "key"} : ~RemoveFile(s, file)
    PROVE  Tree'
<1>1. UNCHANGED <<disk, job>>
  BY DEF UserStep, TrustInstall, TrustUpdate, TrustMark, TrustInterrupted, CleanUntrust,
     CleanUpdate, CleanRemove, RemoveMarker, RemoveDir, CleanEnds, CleanInterrupted, daemonVars
<1>2. cmd' \in {"installed", "anchored"} => disk[Root].cert # Missing
  BY DEF UserStep, TrustInstall, TrustUpdate, TrustMark, TrustInterrupted, CleanUntrust,
     CleanUpdate, CleanRemove, RemoveMarker, RemoveDir, CleanEnds, CleanInterrupted, userVars, Tree
<1>3. ASSUME NEW s \in Subjects, DirOf(s) \notin dirs'
      PROVE  disk[s] = NoFiles
  <2>1. CASE DirOf(s) \notin dirs
    BY <2>1 DEF Tree
  <2>2. CASE DirOf(s) \in dirs
    <3>1. PICK x \in {"ca", "certs"} : RemoveDir(x)
      BY <1>3, <2>2 DEF UserStep, TrustInstall, TrustUpdate, TrustMark, TrustInterrupted,
         CleanUntrust, CleanUpdate, CleanRemove, RemoveMarker, CleanEnds, CleanInterrupted
    <3>2. DirOf(s) = x
      BY <1>3, <2>2, <3>1 DEF RemoveDir
    <3> QED
      BY <3>1, <3>2 DEF RemoveDir
  <2> QED
    BY <2>1, <2>2
<1>4. marker' => "ca" \in dirs'
  BY DEF UserStep, TrustInstall, TrustUpdate, TrustMark, TrustInterrupted, CleanUntrust,
     CleanUpdate, CleanRemove, RemoveMarker, RemoveDir, CleanEnds, CleanInterrupted, userVars, Tree
<1> QED
  BY <1>1, <1>2, <1>3, <1>4 DEF Tree

LEMMA StepTree == TypeOK /\ TypeOK' /\ Tree /\ [Next]_vars => Tree'
<1> SUFFICES ASSUME TypeOK, TypeOK', Tree, [Next]_vars
             PROVE  Tree'
  OBVIOUS
<1>1. ASSUME NEW d \in Daemons, Start(d)
      PROVE  Tree'
  BY <1>1 DEF Start, userVars, Tree, DirOf
<1>2. ASSUME NEW d \in Daemons,
             GenerateRoot(d) \/ LoadRoot(d) \/ RejectRoot(d) \/ WriteFails(d) \/ Exit(d)
                \/ \E h \in Hosts : LoadLeaf(d, h) \/ GenerateLeaf(d, h)
      PROVE  Tree'
  <2>1. UNCHANGED <<disk, dirs, marker, cmd>>
    BY <1>2 DEF GenerateRoot, LoadRoot, RejectRoot, WriteFails, Exit, LoadLeaf, GenerateLeaf, userVars
  <2>2. \A e \in Daemons : job'[e] = job[e] \/ job'[e] = Missing \/ job'[e].fd = "closed"
    <3>1. \A t, signer : WriteJob(t, signer).fd = "closed"
      BY DEF WriteJob
    <3>2. \/ job' \in {job, [job EXCEPT ![d] = Missing]}
          \/ \E t, signer : job' = [job EXCEPT ![d] = WriteJob(t, signer)]
      BY <1>2 DEF GenerateRoot, LoadRoot, RejectRoot, WriteFails, Exit, LoadLeaf, GenerateLeaf,
         Generate
    <3>3. ASSUME NEW t, NEW signer, job' = [job EXCEPT ![d] = WriteJob(t, signer)]
          PROVE  \A e \in Daemons : job'[e] = job[e] \/ job'[e].fd = "closed"
      BY <3>1, <3>3 DEF TypeOK
    <3> QED
      BY <3>2, <3>3 DEF TypeOK
  <2>3. \A e \in Daemons : job'[e] # Missing /\ job'[e].fd = "open" => job'[e] = job[e]
    BY <2>2
  <2> QED
    BY <2>1, <2>3 DEF Tree
<1>3. CASE UNCHANGED vars
  BY <1>3 DEF vars, daemonVars, userVars, Tree
<1> QED
  BY <1>1, <1>2, <1>3, TreeDaemon, TreeRemove, TreeUser DEF Next, DaemonStep

LEMMA OthersMemory ==
    ASSUME TypeOK, NEW d \in Daemons, DaemonStep(d), NEW e \in Daemons \ {d}, Memory(e)
    PROVE  /\ Memory(e)'
           /\ phase'[e] = phase[e] /\ job'[e] = job[e] /\ root'[e] = root[e] /\ cache'[e] = cache[e]
<1>1. phase'[e] = phase[e] /\ job'[e] = job[e] /\ root'[e] = root[e] /\ cache'[e] = cache[e]
  BY DEF TypeOK, DaemonStep, Start, GenerateRoot, LoadRoot, RejectRoot, Truncate, Fill,
     WriteFails, Exit, LoadLeaf, GenerateLeaf, Generate
<1> QED
  BY <1>1 DEF Memory, Running

LEMMA DaemonMemory ==
    ASSUME TypeOK, TypeOK', NEW d \in Daemons, DaemonStep(d), Memory(d)
    PROVE  Memory(d)'
<1>0. job[d] # Missing => job[d] \in Job
  BY DEF TypeOK
<1> USE <1>0, Distinct DEF Memory, Running
<1>1. CASE Start(d) \/ RejectRoot(d) \/ WriteFails(d)
  <2>1. CASE Start(d)
    BY <2>1 DEF Start, TypeOK
  <2>2. CASE RejectRoot(d)
    BY <2>2 DEF RejectRoot, Opening, TypeOK
  <2>3. CASE WriteFails(d)
    <3>1. job'[d] = Missing /\ root' = root /\ cache' = cache
      BY <2>3 DEF WriteFails, TypeOK
    <3>2. phase'[d] = IF phase[d] = "open" THEN "failed" ELSE phase[d]
      BY <2>3 DEF WriteFails, TypeOK
    <3> QED
      BY <3>1, <3>2
  <2> QED
    BY <1>1, <2>1, <2>2, <2>3
<1>2. CASE GenerateRoot(d)
  <2>1. WriteJob(Root, made + 1) # Missing
    BY <1>2, NewKey, NewJob DEF GenerateRoot, Generate, Subjects
  <2>2. job'[d] = WriteJob(Root, made + 1) /\ made < MaxKeys
    BY <1>2 DEF GenerateRoot, Generate, TypeOK
  <2>3. Usable(job'[d].pair) /\ job'[d].subject = Root
    BY <2>2, NewKey, NewPairUsable DEF Subjects
  <2> QED
    BY <1>2, <2>3 DEF GenerateRoot, Opening
<1>3. CASE LoadRoot(d)
  BY <1>3 DEF LoadRoot, Opening, TypeOK
<1>4. CASE Truncate(d)
  <2>1. job'[d].pair = job[d].pair /\ job'[d].subject = job[d].subject
    BY <1>4 DEF Truncate, TypeOK, Job
  <2> QED
    BY <1>4, <2>1 DEF Truncate
<1>5. CASE Fill(d)
  <2> DEFINE j == job[d]
  <2>1. j \in Job /\ j.pair \in Pair /\ j.subject \in Subjects
    BY <1>5, JobFields DEF Fill
  <2>2. CASE j.file = "cert"
    <3>1. job'[d].pair = j.pair /\ job'[d].subject = j.subject
      <4>1. job'[d] = [j EXCEPT !.file = "key", !.fd = "closed"]
        BY <1>5, <2>2 DEF Fill, TypeOK
      <4> QED
        BY <2>1, <4>1 DEF Job
    <3> QED
      BY <1>5, <2>1, <2>2, <3>1 DEF Fill
  <2>3. CASE j.file # "cert" /\ j.subject = Root
    BY <1>5, <2>1, <2>3 DEF Fill, TypeOK
  <2>4. CASE j.file # "cert" /\ j.subject # Root
    <3>1. phase[d] = "up" /\ phase' = phase /\ root' = root /\ job'[d] = Missing
      BY <1>5, <2>1, <2>4 DEF Fill, TypeOK
    <3>2. cache' = [cache EXCEPT ![d][j.subject] = j.pair]
      BY <1>5, <2>4 DEF Fill
    <3>3. \A h \in Hosts : cache'[d][h] \in {cache[d][h], j.pair}
      BY <2>1, <3>2 DEF TypeOK, Subjects
    <3> QED
      BY <1>5, <2>1, <3>1, <3>3 DEF Fill
  <2> QED
    BY <2>2, <2>3, <2>4
<1>6. CASE Exit(d)
  BY <1>6 DEF Exit, NoCache, TypeOK
<1>7. ASSUME NEW h \in Hosts, LoadLeaf(d, h)
      PROVE  Memory(d)'
  <2>1. \A i \in Hosts : cache'[d][i] = IF i = h THEN disk[h] ELSE cache[d][i]
    BY <1>7 DEF LoadLeaf, TypeOK
  <2> QED
    BY <1>7, <2>1 DEF LoadLeaf, Wanted
<1>8. ASSUME NEW h \in Hosts, GenerateLeaf(d, h)
      PROVE  Memory(d)'
  <2>1. root[d].key \in Keys /\ made < MaxKeys /\ h \in Subjects
    BY <1>8 DEF GenerateLeaf, Generate, Usable, Subjects
  <2>2. job'[d] = WriteJob(h, root[d].key)
    BY <1>8 DEF GenerateLeaf, Generate, TypeOK
  <2>3. Usable(job'[d].pair) /\ job'[d].subject = h
    BY <2>1, <2>2, NewPairUsable
  <2> QED
    BY <1>8, <2>3 DEF GenerateLeaf, Wanted
<1> QED
  BY <1>1, <1>2, <1>3, <1>4, <1>5, <1>6, <1>7, <1>8 DEF DaemonStep

(* What the commands of the user do to the daemons: at most, files go that   *)
(* one has open.                                                             *)
LEMMA UserDaemons ==
    ASSUME TypeOK, UserStep
    PROVE  /\ UNCHANGED <<phase, root, cache>>
           /\ \A d \in Daemons :
                 \/ job'[d] = job[d]
                 \/ /\ job[d] # Missing /\ job'[d] # Missing /\ job'[d].fd = "removed"
                    /\ job'[d].pair = job[d].pair /\ job'[d].subject = job[d].subject
                    /\ job'[d].file = job[d].file
<1>1. CASE \E s \in Subjects, file \in {"cert", "key"} : RemoveFile(s, file)
  <2>1. UNCHANGED <<phase, root, cache>>
    BY <1>1 DEF RemoveFile
  <2>2. ASSUME NEW d \in Daemons
        PROVE  \/ job'[d] = job[d]
               \/ job[d] # Missing /\ job'[d] = [job[d] EXCEPT !.fd = "removed"]
    BY <1>1 DEF RemoveFile
  <2>3. ASSUME NEW d \in Daemons, job[d] # Missing,
               job'[d] = [job[d] EXCEPT !.fd = "removed"]
        PROVE  /\ job'[d] # Missing /\ job'[d].fd = "removed"
               /\ job'[d].pair = job[d].pair /\ job'[d].subject = job[d].subject
               /\ job'[d].file = job[d].file
    <3>1. job[d] \in Job
      BY <2>3 DEF TypeOK
    <3>2. job'[d] \in Job
      BY <2>3, <3>1, JobFields
    <3> QED
      BY <2>3, <3>1, <3>2, Distinct DEF Job
  <2> QED
    BY <2>1, <2>2, <2>3
<1>2. CASE ~\E s \in Subjects, file \in {"cert", "key"} : RemoveFile(s, file)
  <2>1. UNCHANGED <<phase, root, cache, job>>
    BY <1>2 DEF UserStep, TrustInstall, TrustUpdate, TrustMark, TrustInterrupted, CleanUntrust,
       CleanUpdate, CleanRemove, RemoveMarker, RemoveDir, CleanEnds, CleanInterrupted, daemonVars
  <2> QED
    BY <2>1
<1> QED
  BY <1>1, <1>2

LEMMA StepMemory ==
    ASSUME TypeOK, TypeOK', \A d \in Daemons : Memory(d), [Next]_vars
    PROVE  \A d \in Daemons : Memory(d)'
<1>1. ASSUME UserStep, NEW d \in Daemons
      PROVE  Memory(d)'
  <2>1. UNCHANGED <<phase, root, cache>>
    BY <1>1, UserDaemons
  <2>2. job'[d] # Missing => /\ job[d] # Missing
                             /\ job'[d].pair = job[d].pair /\ job'[d].subject = job[d].subject
    BY <1>1, UserDaemons
  <2> QED
    BY <2>1, <2>2 DEF Memory, Running
<1>2. ASSUME UNCHANGED vars, NEW d \in Daemons
      PROVE  Memory(d)'
  BY <1>2 DEF vars, daemonVars, Memory, Running
<1> QED
  BY <1>1, <1>2, OthersMemory, DaemonMemory DEF Next

-------------------------------------------------------------------------------
(* One daemon at a time: what is on disk tells how far it was written, and   *)
(* the daemon that runs knows it.                                            *)

Sole == \A d, e \in Daemons : Running(d) /\ Running(e) => d = e

(* Outside of a removal there are both directories or none, and a daemon     *)
(* that opens the authority has both.                                        *)
Whole ==
    /\ cmd # "removing" => dirs \in {{}, {"ca", "certs"}}
    /\ \A d \in Daemons : phase[d] = "open" => cmd # "removing" /\ dirs = {"ca", "certs"}

(* The key file follows the certificate file; only clean takes the latter    *)
(* away first.                                                               *)
RootShape ==
    \/ disk[Root].key = Missing
    \/ disk[Root].cert \in Cert /\ disk[Root].key \in {Torn, disk[Root].cert.key}
    \/ disk[Root].cert = Missing /\ cmd = "removing"

LeavesFitRoot ==
    cmd # "removing" =>
        \A h \in Hosts :
            Usable(disk[h]) => Usable(disk[Root]) /\ disk[h].cert.signer = disk[Root].key

RootIs(k) == Usable(disk[Root]) /\ disk[Root].cert.key = k

Noted ==
    "misnoted" \notin slips =>
        /\ marker /\ cmd \notin {"untrusted", "removing"} => RootIs(anchor)
        /\ cmd = "installed" => RootIs(source)
        /\ cmd = "anchored" => RootIs(anchor)

(* A root that is being written replaces no usable one.                      *)
WritesRoot(d) ==
    job[d] # Missing /\ job[d].subject = Root =>
        /\ disk[Root].key \notin Keys
        /\ job[d].fd # "removed"
        /\ job[d].file = "cert" => disk[Root].key = Missing
        /\ job[d].file = "key" => disk[Root].cert = job[d].pair.cert

(* Of a leaf's files that clean has removed meanwhile, nobody makes the      *)
(* certificate again.                                                        *)
WritesLeaf(d) ==
    job[d] # Missing /\ job[d].subject # Root =>
        /\ Usable(root[d])
        /\ job[d].pair.cert.signer = root[d].key
        /\ job[d].file = "cert" /\ job[d].fd = "removed" => disk[job[d].subject].cert = Missing
        /\ job[d].file = "key" => disk[job[d].subject].cert \in {job[d].pair.cert, Missing}

(* A leaf that the daemon that runs may load is its root's.                  *)
Serves(d) ==
    phase[d] = "up" =>
        /\ dirs # {} /\ cmd # "removing" => disk[Root] = root[d]
        /\ \A h \in Hosts : Usable(disk[h]) => disk[h].cert.signer = root[d].key
        /\ \A h \in Hosts : cache[d][h] # Missing => cache[d][h].cert.signer = root[d].key

Own(d) == WritesRoot(d) /\ WritesLeaf(d) /\ Serves(d)

Kept == Whole /\ RootShape /\ LeavesFitRoot /\ Noted

LEMMA IdleOwn ==
    ASSUME NEW d \in Daemons, Memory(d), ~Running(d)
    PROVE  Own(d)
BY DEF Memory, Running, Own, WritesRoot, WritesLeaf, Serves

LEMMA NoFilesUnusable == ~Usable(NoFiles)
BY Distinct DEF Usable, NoFiles

LEMMA PutKey ==
    ASSUME NEW f \in Files, NEW g \in Pair, f.cert = g.cert
    PROVE  Put(f, "key", g) = g
BY DEF Put, Files, Pair

(* A daemon's step that leaves the files and the trust store alone.          *)
LEMMA SameFiles ==
    ASSUME Kept, UNCHANGED <<disk, dirs, slips, userVars>>,
           \A d \in Daemons : phase'[d] = "open" => phase[d] = "open"
    PROVE  Kept'
BY DEF Kept, Whole, RootShape, LeavesFitRoot, Noted, RootIs, Usable, userVars

LEMMA OpenOwn ==
    ASSUME TypeOK, TypeOK', Tree, NEW d \in Daemons, Memory(d), Memory(d)', Kept, Own(d),
           GenerateRoot(d) \/ LoadRoot(d) \/ RejectRoot(d) \/ WriteFails(d) \/ Exit(d)
    PROVE  Kept' /\ Own(d)'
<1>1. UNCHANGED <<disk, dirs, slips, userVars>>
  BY DEF GenerateRoot, LoadRoot, RejectRoot, WriteFails, Exit
<1>2. Kept'
  <2>1. \A e \in Daemons : phase'[e] = "open" => phase[e] = "open"
    BY DEF GenerateRoot, LoadRoot, RejectRoot, WriteFails, Exit, TypeOK
  <2> QED
    BY <1>1, <2>1, SameFiles
<1>3. CASE GenerateRoot(d)
  <2>1. job'[d] = WriteJob(Root, made + 1) /\ made < MaxKeys /\ phase'[d] = "open"
    BY <1>3 DEF GenerateRoot, Generate, Opening, TypeOK
  <2>2. job'[d].subject = Root /\ job'[d].file = "cert" /\ job'[d].fd = "closed"
    BY <2>1 DEF WriteJob
  <2>3. cmd # "removing"
    BY <1>3 DEF GenerateRoot, Opening, Kept, Whole
  <2>4. disk[Root].key = Missing
    BY <1>3, <2>3, Distinct DEF GenerateRoot, Kept, RootShape
  <2> QED
    BY <1>1, <1>2, <2>1, <2>2, <2>4, Distinct DEF Own, WritesRoot, WritesLeaf, Serves
<1>4. CASE LoadRoot(d)
  <2>1. job'[d] = Missing /\ root'[d] = disk[Root] /\ cache' = cache
    BY <1>4 DEF LoadRoot, Opening, TypeOK
  <2>2. \A h \in Hosts : cache[d][h] = Missing
    BY <1>4 DEF LoadRoot, Opening, Memory
  <2>3. \A h \in Hosts : Usable(disk[h]) => disk[h].cert.signer = disk[Root].key
    BY <1>4 DEF LoadRoot, Opening, Kept, Whole, LeavesFitRoot
  <2> QED
    BY <1>1, <1>2, <2>1, <2>2, <2>3 DEF Own, WritesRoot, WritesLeaf, Serves, Usable
<1>5. CASE RejectRoot(d) \/ Exit(d)
  <2>1. ~Running(d)'
    BY <1>5 DEF RejectRoot, Exit, Running, TypeOK
  <2> QED
    BY <1>2, <2>1 DEF Own, WritesRoot, WritesLeaf, Serves, Memory, Running
<1>6. CASE WriteFails(d)
  <2>1. job'[d] = Missing /\ root' = root /\ cache' = cache
        /\ (phase'[d] = "up" => phase[d] = "up")
    BY <1>6 DEF WriteFails, TypeOK
  <2> QED
    BY <1>1, <1>2, <2>1 DEF Own, WritesRoot, WritesLeaf, Serves, Usable, userVars
<1> QED
  BY <1>3, <1>4, <1>5, <1>6

LEMMA LeafOwn ==
    ASSUME TypeOK, TypeOK', Tree, NEW d \in Daemons, Memory(d), Kept, Own(d),
           NEW h \in Hosts, LoadLeaf(d, h) \/ GenerateLeaf(d, h)
    PROVE  Kept' /\ Own(d)'
<1>1. UNCHANGED <<disk, dirs, slips, userVars>>
  BY DEF LoadLeaf, GenerateLeaf
<1>2. phase' = phase /\ root' = root /\ phase[d] = "up"
  BY DEF LoadLeaf, GenerateLeaf, Wanted
<1>3. Kept'
  BY <1>1, <1>2, SameFiles
<1>4. CASE LoadLeaf(d, h)
  <2>1. disk[h].cert.signer = root[d].key
    BY <1>2, <1>4 DEF LoadLeaf, Own, Serves
  <2>2. \A i \in Hosts : cache'[d][i] = IF i = h THEN disk[h] ELSE cache[d][i]
    BY <1>4 DEF LoadLeaf, TypeOK
  <2>3. job'[d] = Missing
    BY <1>4 DEF LoadLeaf, Wanted
  <2> QED
    BY <1>1, <1>2, <1>3, <2>1, <2>2, <2>3
       DEF Own, WritesRoot, WritesLeaf, Serves, Usable, userVars
<1>5. CASE GenerateLeaf(d, h)
  <2>1. Usable(root[d]) /\ root[d].key \in Keys /\ made < MaxKeys /\ cache' = cache
    BY <1>5 DEF GenerateLeaf, Generate, Usable
  <2>2. job'[d] = WriteJob(h, root[d].key)
    BY <1>5 DEF GenerateLeaf, Generate, TypeOK
  <2>3. /\ job'[d].subject # Root /\ job'[d].file = "cert" /\ job'[d].fd = "closed"
        /\ job'[d].pair.cert.signer = root[d].key
    BY <2>1, <2>2, NewPairUsable, Distinct DEF Subjects
  <2>4. Usable(root'[d]) /\ root'[d] = root[d] /\ cache'[d] = cache[d]
    BY <1>2, <2>1
  <2>5. WritesRoot(d)' /\ WritesLeaf(d)'
    BY <2>3, <2>4 DEF WritesRoot, WritesLeaf
  <2>6. Serves(d)'
    BY <1>1, <1>2, <2>4 DEF Own, Serves, Usable, userVars
  <2> QED
    BY <1>3, <2>5, <2>6 DEF Own
<1> QED
  BY <1>4, <1>5

LEMMA TruncateOwn ==
    ASSUME TypeOK, TypeOK', NEW d \in Daemons, Memory(d), Kept, Own(d), Truncate(d)
    PROVE  Kept' /\ Own(d)'
<1> DEFINE j == job[d]
           w == j.subject
<1>1. /\ j \in Job /\ j # Missing /\ w \in Subjects /\ j.file \in {"cert", "key"}
      /\ j.pair \in Pair /\ j.pair.cert \in Cert /\ Root \in Subjects
  BY JobFields DEF Truncate, TypeOK, Subjects, Pair
<1>2. /\ UNCHANGED <<dirs, phase, root, cache, slips, cmd, source, anchor, marker>>
      /\ disk' = [disk EXCEPT ![w] = Put(disk[w], j.file, Truncated)]
  BY DEF Truncate, userVars
<1>3. /\ job'[d] # Missing /\ job'[d].subject = w /\ job'[d].file = j.file
      /\ job'[d].pair = j.pair /\ job'[d].fd = "open"
  <2>1. job'[d] = [j EXCEPT !.fd = "open"]
    BY DEF Truncate, TypeOK
  <2>2. [j EXCEPT !.fd = "open"] \in Job
    BY <1>1 DEF Job
  <2>3. job'[d] # Missing
    BY <2>1, <2>2, Distinct
  <2> QED
    BY <1>1, <2>1, <2>3 DEF Job
<1>4. disk[w] \in Files
  BY <1>1 DEF TypeOK
<1>5. /\ j.file = "cert" => disk'[w].cert = Torn /\ disk'[w].key = disk[w].key
      /\ j.file = "key" => disk'[w].key = Torn /\ disk'[w].cert = disk[w].cert
  BY <1>1, <1>2, <1>4 DEF Put, Truncated, Files, TypeOK
<1>6. \A s \in Subjects \ {w} : disk'[s] = disk[s]
  BY <1>2 DEF TypeOK
<1>7. ~Usable(disk'[w])
  BY <1>1, <1>5, Distinct DEF Usable
<1>8. Whole'
  BY <1>2 DEF Kept, Whole
<1>9. CASE w = Root
  <2>1. /\ disk[Root].key \notin Keys
        /\ j.file = "cert" => disk[Root].key = Missing
        /\ j.file = "key" => disk[Root].cert = j.pair.cert
    BY <1>1, <1>9 DEF Own, WritesRoot
  <2>2. phase[d] = "open" /\ cmd # "removing"
    BY <1>1, <1>9 DEF Memory, Kept, Whole
  <2>3. RootShape'
    BY <1>1, <1>5, <1>9, <2>1 DEF RootShape
  <2>4. ~Usable(disk[Root])
    BY <2>1 DEF Usable
  <2>5. \A h \in Hosts : ~Usable(disk[h]) /\ disk'[h] = disk[h]
    BY <1>6, <1>9, <2>2, <2>4, Distinct DEF Kept, LeavesFitRoot, Subjects
  <2>6. LeavesFitRoot'
    BY <2>5 DEF LeavesFitRoot, Usable
  <2>7. Noted'
    BY <1>2, <2>4 DEF Kept, Noted, RootIs
  <2>8. WritesRoot(d)'
    BY <1>1, <1>3, <1>5, <1>9, <2>1, Distinct DEF WritesRoot
  <2> QED
    BY <1>2, <1>3, <1>8, <1>9, <2>2, <2>3, <2>6, <2>7, <2>8 DEF Kept, Own, WritesLeaf, Serves
<1>10. CASE w # Root
  <2>1. disk'[Root] = disk[Root]
    BY <1>1, <1>6, <1>10
  <2>2. RootShape' /\ Noted'
    BY <1>2, <2>1 DEF Kept, RootShape, Noted, RootIs, Usable
  <2>3. LeavesFitRoot'
    BY <1>2, <1>6, <1>7, <2>1 DEF Kept, LeavesFitRoot, Usable, Subjects
  <2>4. WritesLeaf(d)'
    BY <1>1, <1>2, <1>3, <1>5, <1>10 DEF Own, WritesLeaf, Usable
  <2>5. Serves(d)'
    BY <1>2, <1>6, <1>7, <2>1 DEF Own, Serves, Usable, Subjects
  <2> QED
    BY <1>3, <1>8, <1>10, <2>2, <2>3, <2>4, <2>5 DEF Kept, Own, WritesRoot
<1> QED
  BY <1>9, <1>10

(* What Fill does to the daemon, file by file.                               *)
LEMMA FillSteps ==
    ASSUME TypeOK, NEW d \in Daemons, Fill(d)
    PROVE  /\ job[d] \in Job /\ job[d] # Missing
           /\ job[d].file = "cert" =>
                 /\ job'[d] # Missing /\ job'[d].subject = job[d].subject
                 /\ job'[d].file = "key" /\ job'[d].fd = "closed"
                 /\ job'[d].pair = job[d].pair
                 /\ UNCHANGED <<phase, root, cache>>
           /\ job[d].file = "key" => job'[d] = Missing
<1> DEFINE j == job[d]
<1>1. j \in Job /\ j # Missing
  BY DEF Fill, TypeOK
<1>2. ASSUME j.file = "cert"
      PROVE  /\ job'[d] # Missing /\ job'[d].subject = j.subject
             /\ job'[d].file = "key" /\ job'[d].fd = "closed"
             /\ job'[d].pair = j.pair
             /\ UNCHANGED <<phase, root, cache>>
  <2>1. job'[d] = [j EXCEPT !.file = "key", !.fd = "closed"] /\ UNCHANGED <<phase, root, cache>>
    BY <1>2 DEF Fill, TypeOK
  <2>2. [j EXCEPT !.file = "key", !.fd = "closed"] # Missing
    BY <1>1, JobFields, Distinct
  <2> QED
    BY <1>1, <2>1, <2>2 DEF Job
<1>3. j.file = "key" => job'[d] = Missing
  BY DEF Fill, TypeOK
<1> QED
  BY <1>1, <1>2, <1>3

(* The root is written by a daemon that opens the authority.                 *)
LEMMA FillRoot ==
    ASSUME TypeOK, TypeOK', NEW d \in Daemons, Memory(d), Kept, Own(d), Fill(d),
           job[d].subject = Root
    PROVE  Kept' /\ Own(d)'
<1> DEFINE j == job[d]
<1>1. /\ j \in Job /\ j # Missing /\ j.file \in {"cert", "key"} /\ j.fd = "open"
      /\ j.pair \in Pair /\ j.pair.cert \in Cert /\ j.pair.key \in Keys /\ Usable(j.pair)
      /\ Root \in Subjects
  BY JobFields, FillSteps DEF Fill, TypeOK, Subjects, Pair, Memory, Own, WritesRoot, Job
<1>2. UNCHANGED <<dirs, slips, cmd, source, anchor, marker>>
  BY DEF Fill, userVars
<1>3. phase[d] = "open" /\ cmd # "removing" /\ \A h \in Hosts : cache[d][h] = Missing
  BY <1>1 DEF Memory, Kept, Whole
<1>4. /\ disk[Root].key \notin Keys
      /\ j.file = "cert" => disk[Root].key = Missing
      /\ j.file = "key" => disk[Root].cert = j.pair.cert
  BY <1>1 DEF Own, WritesRoot
<1>5. ~Usable(disk[Root])
  BY <1>4 DEF Usable
<1>6. disk' = [disk EXCEPT ![Root] = Put(disk[Root], j.file, j.pair)] /\ disk[Root] \in Files
  BY <1>1 DEF Fill, TypeOK
<1>7. \A s \in Subjects \ {Root} : disk'[s] = disk[s]
  BY <1>6 DEF TypeOK
<1>8. \A h \in Hosts : ~Usable(disk'[h])
  BY <1>3, <1>5, <1>7, Distinct DEF Kept, LeavesFitRoot, Subjects
<1>9. LeavesFitRoot'
  BY <1>8 DEF LeavesFitRoot
<1>10. Noted'
  BY <1>2, <1>5 DEF Kept, Noted, RootIs
<1>11. Whole'
  <2>1. \A e \in Daemons : phase'[e] = "open" => phase[e] = "open"
    BY DEF Fill, TypeOK
  <2> QED
    BY <1>2, <2>1 DEF Kept, Whole
<1>12. CASE j.file = "cert"
  <2>1. disk'[Root].cert = j.pair.cert /\ disk'[Root].key = disk[Root].key
    BY <1>1, <1>6, <1>12 DEF Put, Files, TypeOK
  <2>2. /\ job'[d].subject = Root /\ job'[d].file = "key" /\ job'[d].fd = "closed"
        /\ job'[d].pair = j.pair /\ phase'[d] = "open"
    BY <1>3, <1>12, FillSteps
  <2>3. RootShape'
    BY <1>4, <1>12, <2>1 DEF RootShape
  <2>4. WritesRoot(d)'
    BY <1>4, <1>12, <2>1, <2>2, Distinct DEF WritesRoot
  <2>5. WritesLeaf(d)' /\ Serves(d)'
    BY <2>2 DEF WritesLeaf, Serves
  <2> QED
    BY <1>9, <1>10, <1>11, <2>3, <2>4, <2>5 DEF Kept, Own
<1>13. CASE j.file = "key"
  <2>1. disk'[Root] = j.pair
    BY <1>1, <1>4, <1>6, <1>13, PutKey DEF TypeOK
  <2>2. job'[d] = Missing
    BY <1>13, FillSteps
  <2>3. RootShape'
    BY <1>1, <2>1 DEF RootShape, Usable
  <2>4. root'[d] = j.pair /\ \A h \in Hosts : cache'[d][h] = Missing
    BY <1>3, <1>13 DEF Fill, TypeOK
  <2>5. Serves(d)'
    BY <1>8, <2>1, <2>4 DEF Serves
  <2> QED
    BY <1>9, <1>10, <1>11, <2>2, <2>3, <2>5 DEF Kept, Own, WritesRoot, WritesLeaf
<1> QED
  BY <1>1, <1>12, <1>13

(* A leaf is written by a daemon that serves, while clean removes its files  *)
(* or not.                                                                   *)
LEMMA FillLeaf ==
    ASSUME TypeOK, TypeOK', Tree, NEW d \in Daemons, Memory(d), Kept, Own(d), Fill(d),
           job[d].subject # Root
    PROVE  Kept' /\ Own(d)'
<1> DEFINE j == job[d]
           w == j.subject
<1>1. /\ j \in Job /\ j # Missing /\ w \in Subjects /\ j.file \in {"cert", "key"}
      /\ j.fd \in {"open", "removed"}
      /\ j.pair \in Pair /\ j.pair.cert \in Cert /\ j.pair.key \in Keys /\ Usable(j.pair)
      /\ Root \in Subjects /\ w \in Hosts
  BY JobFields, FillSteps DEF Fill, TypeOK, Subjects, Pair, Memory, Job
<1>2. UNCHANGED <<dirs, slips, cmd, source, anchor, marker>>
  BY DEF Fill, userVars
<1>3. phase' = phase /\ root' = root
  BY <1>1, FillSteps DEF Fill
<1>4. /\ phase[d] = "up" /\ Usable(root[d]) /\ j.pair.cert.signer = root[d].key
      /\ j.file = "cert" /\ j.fd = "removed" => disk[w].cert = Missing
      /\ j.file = "key" => disk[w].cert \in {j.pair.cert, Missing}
  BY <1>1 DEF Memory, Running, Own, WritesLeaf
<1>5. \/ disk' = disk /\ j.fd = "removed"
      \/ disk' = [disk EXCEPT ![w] = Put(disk[w], j.file, j.pair)] /\ j.fd = "open"
  BY <1>1 DEF Fill
<1>6. \A s \in Subjects \ {w} : disk'[s] = disk[s]
  BY <1>5 DEF TypeOK
<1>7. disk'[Root] = disk[Root]
  BY <1>1, <1>6
<1>8. disk[w] \in Files
  BY <1>1 DEF TypeOK
<1>9. disk'[w].cert \in {j.pair.cert, Missing}
  <2>1. CASE j.fd = "removed" /\ j.file = "cert"
    BY <1>4, <1>5, <2>1
  <2>2. CASE j.fd = "open" /\ j.file = "cert"
    <3>1. disk'[w] = Put(disk[w], "cert", j.pair)
      BY <1>1, <1>5, <2>2 DEF TypeOK
    <3> QED
      BY <1>8, <3>1 DEF Put, Files
  <2>3. CASE j.file = "key"
    <3>1. disk'[w] = disk[w] \/ disk'[w] = Put(disk[w], "key", j.pair)
      BY <1>1, <1>5, <2>3 DEF TypeOK
    <3>2. Put(disk[w], "key", j.pair).cert = disk[w].cert
      BY <1>8 DEF Put, Files
    <3> QED
      BY <1>4, <2>3, <3>1, <3>2
  <2> QED
    BY <1>1, <2>1, <2>2, <2>3
<1>10. Usable(disk'[w]) => disk'[w].cert.signer = root[d].key
  BY <1>4, <1>9, Distinct DEF Usable
<1>11. Whole' /\ RootShape' /\ Noted'
  BY <1>2, <1>3, <1>7 DEF Kept, Whole, RootShape, Noted, RootIs, Usable
<1>12. LeavesFitRoot'
  <2>1. SUFFICES ASSUME cmd # "removing", NEW h \in Hosts, Usable(disk'[h])
                 PROVE  Usable(disk[Root]) /\ disk'[h].cert.signer = disk[Root].key
    BY <1>2, <1>7 DEF LeavesFitRoot, Usable
  <2>2. CASE disk'[h] = disk[h]
    BY <2>1, <2>2 DEF Kept, LeavesFitRoot
  <2>3. CASE disk'[h] # disk[h]
    <3>1. h = w /\ j.fd = "open"
      BY <1>5, <1>6, <2>3 DEF Subjects
    <3>2. At(disk[w], j.file) # Missing
      BY <1>1, <3>1 DEF Tree
    <3>3. disk[w] # NoFiles
      BY <1>1, <3>2 DEF At, NoFiles
    <3>4. dirs # {}
      BY <1>1, <3>3 DEF Tree
    <3>5. disk[Root] = root[d]
      BY <1>4, <2>1, <3>4 DEF Own, Serves
    <3> QED
      BY <1>4, <1>10, <2>1, <3>1, <3>5
  <2> QED
    BY <2>2, <2>3
<1>13. ASSUME NEW h \in Hosts, Usable(disk'[h])
       PROVE  disk'[h].cert.signer = root[d].key
  <2>1. CASE h = w
    BY <1>10, <1>13, <2>1
  <2>2. CASE h # w
    <3>1. disk'[h] = disk[h]
      BY <1>6, <2>2 DEF Subjects
    <3> QED
      BY <1>4, <1>13, <3>1 DEF Own, Serves
  <2> QED
    BY <2>1, <2>2
<1>14. \A h \in Hosts : cache'[d][h] # Missing => cache'[d][h].cert.signer = root[d].key
  <2>1. CASE j.file = "cert"
    BY <1>4, <2>1, FillSteps DEF Own, Serves
  <2>2. CASE j.file = "key"
    <3>1. cache' = [cache EXCEPT ![d][w] = j.pair]
      BY <2>2 DEF Fill
    <3>2. \A h \in Hosts : cache'[d][h] = IF h = w THEN j.pair ELSE cache[d][h]
      BY <3>1 DEF TypeOK
    <3> QED
      BY <1>4, <3>2 DEF Own, Serves
  <2> QED
    BY <1>1, <2>1, <2>2
<1>15. Serves(d)'
  BY <1>2, <1>3, <1>4, <1>7, <1>13, <1>14 DEF Own, Serves, Usable
<1>16. WritesRoot(d)' /\ WritesLeaf(d)'
  <2>1. CASE j.file = "cert"
    <3>1. /\ job'[d] # Missing /\ job'[d].subject = w /\ job'[d].file = "key"
          /\ job'[d].fd = "closed" /\ job'[d].pair = j.pair
      BY <2>1, FillSteps
    <3> QED
      BY <1>3, <1>4, <1>9, <3>1 DEF WritesRoot, WritesLeaf, Usable
  <2>2. CASE j.file = "key"
    BY <2>2, FillSteps DEF WritesRoot, WritesLeaf
  <2> QED
    BY <1>1, <2>1, <2>2
<1> QED
  BY <1>11, <1>12, <1>15, <1>16 DEF Kept, Own

LEMMA StartOwn ==
    ASSUME TypeOK, NEW d \in Daemons, Memory(d), Memory(d)', Kept, Start(d),
           "mixed" \notin slips'
    PROVE  Own(d)' /\ Kept'
<1>1. job'[d] = Missing
  BY DEF Start, Memory, Running
<1>2. phase'[d] = "open" /\ dirs' = {"ca", "certs"} /\ cmd # "removing"
  BY DEF Start, TypeOK
<1>3. Own(d)'
  BY <1>1, <1>2 DEF Own, WritesRoot, WritesLeaf, Serves
<1>4. slips' = slips /\ UNCHANGED <<disk, userVars>>
  BY DEF Start
<1>5. Whole'
  BY <1>2, <1>4 DEF Whole, userVars
<1> QED
  BY <1>3, <1>4, <1>5 DEF Kept, RootShape, LeavesFitRoot, Noted, RootIs, Usable, userVars

OneAtATime ==
    "mixed" \notin slips => Sole /\ Kept /\ \A d \in Daemons : Own(d)

LEMMA StepSole ==
    ASSUME TypeOK, Sole, NEW d \in Daemons, Memory(d), DaemonStep(d), "mixed" \notin slips'
    PROVE  /\ Sole'
           /\ \A e \in Daemons \ {d} : ~Running(e) /\ ~Running(e)'
<1> USE DEF Running, TypeOK
<1>1. \A e \in Daemons \ {d} : phase'[e] = phase[e]
  BY DEF DaemonStep, Start, GenerateRoot, LoadRoot, RejectRoot, Truncate, Fill, WriteFails, Exit,
     LoadLeaf, GenerateLeaf
<1>2. \A e \in Daemons \ {d} : ~Running(e)
  <2>1. CASE Start(d)
    BY <2>1 DEF Start
  <2>2. CASE ~Start(d)
    <3>1. Running(d)
      BY <2>2 DEF DaemonStep, GenerateRoot, LoadRoot, RejectRoot, Truncate, Fill, WriteFails,
         Exit, LoadLeaf, GenerateLeaf, Opening, Wanted, Memory
    <3> QED
      BY <3>1 DEF Sole
  <2> QED
    BY <2>1, <2>2
<1> QED
  BY <1>1, <1>2 DEF Sole

LEMMA DaemonOneAtATime ==
    ASSUME TypeOK, TypeOK', Tree, \A e \in Daemons : Memory(e), \A e \in Daemons : Memory(e)',
           OneAtATime, NEW d \in Daemons, DaemonStep(d), "mixed" \notin slips'
    PROVE  Sole' /\ Kept' /\ \A e \in Daemons : Own(e)'
<1>1. "mixed" \notin slips
  BY DEF DaemonStep, Start, GenerateRoot, LoadRoot, RejectRoot, Truncate, Fill, WriteFails, Exit,
     LoadLeaf, GenerateLeaf
<1>2. Sole /\ Kept /\ Own(d)
  BY <1>1 DEF OneAtATime
<1>3. Sole' /\ \A e \in Daemons \ {d} : ~Running(e)'
  BY <1>2, StepSole
<1>4. \A e \in Daemons \ {d} : Own(e)'
  BY <1>3 DEF Memory, Running, Own, WritesRoot, WritesLeaf, Serves
<1>5. Kept' /\ Own(d)'
  <2>1. CASE Start(d)
    BY <1>2, <2>1, StartOwn
  <2>2. CASE Truncate(d)
    BY <1>2, <2>2, TruncateOwn
  <2>3. CASE Fill(d)
    BY <1>2, <2>3, FillRoot, FillLeaf
  <2>4. CASE GenerateRoot(d) \/ LoadRoot(d) \/ RejectRoot(d) \/ WriteFails(d) \/ Exit(d)
    BY <1>2, <2>4, OpenOwn
  <2>5. ASSUME NEW h \in Hosts, LoadLeaf(d, h) \/ GenerateLeaf(d, h)
        PROVE  Kept' /\ Own(d)'
    BY <1>2, <2>5, LeafOwn
  <2> QED
    BY <2>1, <2>2, <2>3, <2>4, <2>5 DEF DaemonStep
<1> QED
  BY <1>3, <1>4, <1>5

(* The commands around the removal leave the files alone.                    *)
LEMMA TrustKept ==
    ASSUME TypeOK, TypeOK', Tree, Kept, \A d \in Daemons : Own(d), "mixed" \notin slips',
           \/ TrustInstall \/ TrustUpdate \/ TrustMark \/ TrustInterrupted
           \/ CleanUntrust \/ CleanUpdate \/ CleanRemove \/ CleanInterrupted
    PROVE  Kept' /\ \A d \in Daemons : Own(d)'
<1>1. UNCHANGED <<disk, job, phase, root, cache>>
  BY DEF TrustInstall, TrustUpdate, TrustMark, TrustInterrupted, CleanUntrust, CleanUpdate,
     CleanRemove, CleanInterrupted, daemonVars
<1>2. dirs' = dirs
  <2>1. CASE TrustMark
    <3>1. disk[Root] # NoFiles /\ Root \in Subjects
      BY <2>1 DEF TrustMark, Tree, NoFiles, Subjects
    <3>2. "ca" \in dirs
      BY <3>1 DEF Tree, DirOf
    <3> QED
      BY <2>1, <3>2 DEF TrustMark
  <2>2. CASE ~TrustMark
    BY <2>2 DEF TrustInstall, TrustUpdate, TrustInterrupted, CleanUntrust, CleanUpdate,
       CleanRemove, CleanInterrupted
  <2> QED
    BY <2>1, <2>2
<1>3. cmd # "removing"
  BY DEF TrustInstall, TrustUpdate, TrustMark, TrustInterrupted, CleanUntrust, CleanUpdate,
     CleanRemove, CleanInterrupted
<1>4. Whole'
  BY <1>1, <1>2, <1>3 DEF Kept, Whole, TrustInstall, TrustUpdate, TrustMark, TrustInterrupted,
     CleanUntrust, CleanUpdate, CleanRemove, CleanInterrupted
<1>5. RootShape' /\ LeavesFitRoot'
  BY <1>1, <1>3 DEF Kept, RootShape, LeavesFitRoot, Usable
<1>6. Usable(disk'[Root]) <=> Usable(disk[Root])
  BY <1>1
<1>7. Noted'
  <2>1. CASE TrustInstall
    <3>1. "misnoted" \notin slips' => Usable(disk[Root]) /\ source' = disk[Root].cert.key
      BY <2>1, Distinct DEF TrustInstall, Usable
    <3>2. cmd' = "installed" /\ marker' = marker /\ anchor' = anchor /\ cmd = "idle"
          /\ slips \subseteq slips'
      BY <2>1 DEF TrustInstall
    <3> QED
      BY <1>1, <1>6, <3>1, <3>2 DEF Kept, Noted, RootIs
  <2>2. CASE TrustUpdate
    <3>1. "misnoted" \notin slips => anchor' = disk[Root].cert.key /\ Usable(disk[Root])
      BY <2>2 DEF TrustUpdate, Kept, Noted, RootIs, Bundled, Usable, Cert
    <3> QED
      BY <1>1, <1>6, <2>2, <3>1 DEF TrustUpdate, Noted, RootIs
  <2>3. CASE TrustMark \/ TrustInterrupted
    BY <1>1, <1>6, <2>3 DEF TrustMark, TrustInterrupted, Kept, Noted, RootIs
  <2>4. CASE CleanUntrust \/ CleanUpdate \/ CleanRemove
    BY <1>1, <1>6, <2>4 DEF CleanUntrust, CleanUpdate, CleanRemove, Kept, Noted, RootIs
  <2>5. CASE CleanInterrupted
    BY <1>1, <1>3, <1>6, <2>5 DEF CleanInterrupted, Kept, Noted, RootIs
  <2> QED
    BY <2>1, <2>2, <2>3, <2>4, <2>5
<1>8. \A d \in Daemons : Own(d)'
  BY <1>1, <1>2, <1>3 DEF Own, WritesRoot, WritesLeaf, Serves, Usable
<1> QED
  BY <1>4, <1>5, <1>7, <1>8 DEF Kept

(* While clean removes the files, no daemon opens the authority.             *)
LEMMA RemoveKept ==
    ASSUME TypeOK, TypeOK', \A d \in Daemons : Memory(d), Kept, \A d \in Daemons : Own(d),
           NEW s \in Subjects, NEW file \in {"cert", "key"}, RemoveFile(s, file)
    PROVE  Kept' /\ \A d \in Daemons : Own(d)'
<1>1. /\ cmd = "removing" /\ UNCHANGED <<dirs, phase, root, cache, cmd, marker, anchor, source, slips>>
      /\ disk' = [disk EXCEPT ![s] = Put(disk[s], file, NoFiles)]
  BY DEF RemoveFile, userVars
<1>2. /\ disk[s] \in Files /\ disk'[s] = Put(disk[s], file, NoFiles)
      /\ \A t \in Subjects \ {s} : disk'[t] = disk[t]
  BY <1>1 DEF TypeOK
<1>3. disk'[s].cert \in {disk[s].cert, Missing} /\ disk'[s].key \in {disk[s].key, Missing}
  BY <1>2 DEF Put, Files, NoFiles
<1>4. ~Usable(disk'[s])
  <2>1. file = "cert" => disk'[s].cert = Missing
    BY <1>2 DEF Put, Files, NoFiles
  <2>2. file = "key" => disk'[s].key = Missing
    BY <1>2 DEF Put, Files, NoFiles
  <2> QED
    BY <2>1, <2>2, Distinct DEF Usable
<1>5. ASSUME NEW t \in Subjects
      PROVE  disk'[t].cert \in {disk[t].cert, Missing} /\ disk'[t].key \in {disk[t].key, Missing}
  BY <1>2, <1>3
<1>6. Whole' /\ LeavesFitRoot' /\ Noted'
  BY <1>1 DEF Kept, Whole, LeavesFitRoot, Noted
<1>7. RootShape'
  <2>1. Root \in Subjects
    BY DEF Subjects
  <2> QED
    BY <1>1, <1>5, <2>1 DEF Kept, RootShape
<1>8. ASSUME NEW d \in Daemons
      PROVE  Own(d)'
  <2>1. phase[d] # "open"
    BY <1>1 DEF Kept, Whole
  <2>2. \/ job'[d] = job[d]
        \/ /\ job[d] # Missing /\ job'[d] # Missing /\ job'[d].fd = "removed"
           /\ job'[d].pair = job[d].pair /\ job'[d].subject = job[d].subject
           /\ job'[d].file = job[d].file
    BY UserDaemons DEF UserStep
  <2>3. WritesRoot(d)'
    BY <2>1, <2>2 DEF WritesRoot, Memory
  <2>4. Serves(d)'
    <3>1. ASSUME NEW h \in Hosts, Usable(disk'[h])
          PROVE  Usable(disk[h]) /\ disk'[h] = disk[h]
      BY <1>2, <1>4, <3>1 DEF Subjects
    <3> QED
      BY <1>1, <3>1 DEF Own, Serves
  <2>5. WritesLeaf(d)'
    <3>1. SUFFICES ASSUME job'[d] # Missing, job'[d].subject # Root
                   PROVE  WritesLeaf(d)'
      BY DEF WritesLeaf
    <3>2. /\ job[d] # Missing /\ job[d].subject # Root /\ job[d] \in Job
          /\ job'[d].pair = job[d].pair /\ job'[d].subject = job[d].subject
          /\ job'[d].file = job[d].file /\ job[d].subject \in Subjects
      BY <2>2, <3>1, JobFields DEF TypeOK
    <3>3. Usable(root'[d]) /\ job'[d].pair.cert.signer = root'[d].key
      BY <1>1, <3>2 DEF Own, WritesLeaf, Usable
    <3>4. ASSUME job'[d].file = "cert", job'[d].fd = "removed"
          PROVE  disk'[job'[d].subject].cert = Missing
      <4>1. CASE job[d].fd = "removed"
        BY <1>5, <3>2, <3>4, <4>1 DEF Own, WritesLeaf
      <4>2. CASE job[d].fd # "removed"
        <5>1. job[d].subject = s /\ file = "cert"
          BY <3>2, <3>4, <4>2 DEF RemoveFile
        <5> QED
          BY <1>2, <3>2, <5>1 DEF Put, Files, NoFiles
      <4> QED
        BY <4>1, <4>2
    <3>5. ASSUME job'[d].file = "key"
          PROVE  disk'[job'[d].subject].cert \in {job'[d].pair.cert, Missing}
      BY <1>5, <3>2, <3>5 DEF Own, WritesLeaf
    <3> QED
      BY <3>3, <3>4, <3>5 DEF WritesLeaf
  <2> QED
    BY <2>3, <2>4, <2>5 DEF Own
<1> QED
  BY <1>6, <1>7, <1>8 DEF Kept

LEMMA EmptyKept ==
    ASSUME TypeOK, TypeOK', Tree, Kept, \A d \in Daemons : Own(d),
           RemoveMarker \/ \E x \in {"ca", "certs"} : RemoveDir(x)
    PROVE  Kept' /\ \A d \in Daemons : Own(d)'
<1>1. /\ cmd = "removing" /\ UNCHANGED <<disk, job, phase, root, cache, cmd, anchor, source, slips>>
      /\ dirs' \subseteq dirs
  BY DEF RemoveMarker, RemoveDir, userVars, daemonVars
<1>2. Kept'
  BY <1>1 DEF Kept, Whole, RootShape, LeavesFitRoot, Noted
<1>3. \A d \in Daemons : Own(d)'
  BY <1>1 DEF Own, WritesRoot, WritesLeaf, Serves, Usable
<1> QED
  BY <1>2, <1>3

(* When everything has been removed, what is on disk is nobody's; if no      *)
(* daemon runs, whatever was mixed before is gone.                           *)
LEMMA EndKept ==
    ASSUME TypeOK, TypeOK', Tree, \A d \in Daemons : Memory(d), OneAtATime,
           CleanEnds, "mixed" \notin slips'
    PROVE  Sole' /\ Kept' /\ \A d \in Daemons : Own(d)'
<1>1. /\ cmd = "removing" /\ cmd' = "idle" /\ dirs = {} /\ dirs' = {}
      /\ UNCHANGED <<disk, job, phase, root, cache, anchor, source, marker>>
  BY DEF CleanEnds, daemonVars
<1>2. (\A s \in Subjects : disk[s] = NoFiles) /\ ~marker /\ Root \in Subjects
  BY <1>1 DEF Tree, Subjects
<1>3. \A h \in Hosts : ~Usable(disk'[h])
  BY <1>1, <1>2, NoFilesUnusable DEF Subjects
<1>4. RootShape' /\ LeavesFitRoot' /\ Noted'
  BY <1>1, <1>2, <1>3 DEF RootShape, LeavesFitRoot, Noted, NoFiles
<1>5. CASE "mixed" \notin slips
  <2>1. Sole /\ Whole /\ \A d \in Daemons : Own(d)
    BY <1>5 DEF OneAtATime, Kept
  <2>2. Sole'
    BY <1>1, <2>1 DEF Sole, Running
  <2>3. Whole'
    BY <1>1, <2>1 DEF Whole
  <2>4. \A d \in Daemons : Own(d)'
    BY <1>1, <2>1 DEF Own, WritesRoot, WritesLeaf, Serves, Usable
  <2> QED
    BY <1>4, <2>2, <2>3, <2>4 DEF Kept
<1>6. CASE "mixed" \in slips
  <2>1. \A d \in Daemons : ~Running(d)
    BY <1>6 DEF CleanEnds
  <2>2. \A d \in Daemons : ~Running(d)' /\ job'[d] = Missing
    BY <1>1, <2>1 DEF Running, Memory
  <2>3. Sole' /\ Whole'
    BY <1>1, <2>2 DEF Sole, Whole, Running
  <2>4. \A d \in Daemons : Own(d)'
    BY <2>2 DEF Own, WritesRoot, WritesLeaf, Serves, Running
  <2> QED
    BY <1>4, <2>3, <2>4 DEF Kept
<1> QED
  BY <1>5, <1>6

LEMMA UserOneAtATime ==
    ASSUME TypeOK, TypeOK', Tree, \A e \in Daemons : Memory(e),
           OneAtATime, UserStep, "mixed" \notin slips'
    PROVE  Sole' /\ Kept' /\ \A e \in Daemons : Own(e)'
<1>1. CASE CleanEnds
  BY <1>1, EndKept
<1>2. CASE ~CleanEnds
  <2>1. "mixed" \notin slips
    BY <1>2 DEF UserStep, TrustInstall, TrustUpdate, TrustMark, TrustInterrupted, CleanUntrust,
       CleanUpdate, CleanRemove, RemoveFile, RemoveMarker, RemoveDir, CleanInterrupted
  <2>2. Sole /\ Kept /\ \A e \in Daemons : Own(e)
    BY <2>1 DEF OneAtATime
  <2>3. Sole'
    <3>1. phase' = phase
      BY UserDaemons
    <3> QED
      BY <2>2, <3>1 DEF Sole, Running
  <2>4. Kept' /\ \A e \in Daemons : Own(e)'
    BY <1>2, <2>2, TrustKept, RemoveKept, EmptyKept DEF UserStep
  <2> QED
    BY <2>3, <2>4
<1> QED
  BY <1>1, <1>2

IInv == Tree /\ (\A d \in Daemons : Memory(d)) /\ OneAtATime

LEMMA StepIInv == TypeOK /\ TypeOK' /\ IInv /\ [Next]_vars => IInv'
<1> SUFFICES ASSUME TypeOK, TypeOK', IInv, [Next]_vars
             PROVE  IInv'
  OBVIOUS
<1>1. Tree'
  BY StepTree DEF IInv
<1>2. \A d \in Daemons : Memory(d)'
  BY StepMemory DEF IInv
<1>3. CASE UserStep
  BY <1>1, <1>2, <1>3, UserOneAtATime DEF IInv, OneAtATime
<1>4. ASSUME NEW d \in Daemons, DaemonStep(d)
      PROVE  OneAtATime'
  BY <1>2, <1>4, DaemonOneAtATime DEF IInv, OneAtATime
<1>5. CASE UNCHANGED vars
  BY <1>1, <1>2, <1>5 DEF IInv, OneAtATime, Sole, Running, Kept, Whole, RootShape, LeavesFitRoot,
     Noted, RootIs, Own, WritesRoot, WritesLeaf, Serves, Usable, vars, daemonVars, userVars
<1> QED
  BY <1>1, <1>2, <1>3, <1>4, <1>5 DEF Next, IInv

LEMMA AlwaysIInv == Spec => []IInv
<1>1. Init => IInv
  <2> SUFFICES ASSUME Init
               PROVE  IInv
    OBVIOUS
  <2>1. Tree
    BY DEF Init, Tree
  <2>2. \A d \in Daemons : Memory(d) /\ ~Running(d)
    BY DEF Init, Memory, Running, NoCache
  <2>3. \A d \in Daemons : Own(d)
    BY <2>2, IdleOwn
  <2>4. Sole /\ Kept
    BY <2>2, NoFilesUnusable
       DEF Sole, Init, Kept, Whole, RootShape, LeavesFitRoot, Noted, NoFiles, Subjects
  <2> QED
    BY <2>1, <2>2, <2>3, <2>4 DEF IInv, OneAtATime
<1> QED
  BY <1>1, StepIInv, AuthorityTypes, PTL DEF Spec

(* The root certificate and key on disk belong together whenever both parse, *)
(* however often daemons were cut off while they wrote them, and at every    *)
(* step of clean, but for the mixing that Slips names.                       *)
THEOREM RootFilesMatch == Spec => []RootPairMatches
<1>1. TypeOK /\ IInv => RootPairMatches
  BY Distinct DEF IInv, OneAtATime, Kept, RootShape, RootPairMatches, Usable, Pair
<1> QED
  BY <1>1, AlwaysIInv, AuthorityTypes, PTL

(* No saved leaf outlives the root that signed it, but for the same mixing.  *)
THEOREM LeavesHaveTheirRoot == Spec => []SavedLeavesHaveTheirRoot
<1>1. IInv => SavedLeavesHaveTheirRoot
  BY DEF IInv, OneAtATime, Kept, LeavesFitRoot, SavedLeavesHaveTheirRoot
<1> QED
  BY <1>1, AlwaysIInv, PTL

(* What a daemon serves verifies against the root it has in memory, also     *)
(* while clean removes its files, but for the same mixing.                   *)
THEOREM ServedCertificatesVerify == Spec => []ServedLeavesVerify
<1>1. IInv => ServedLeavesVerify
  BY DEF IInv, OneAtATime, Memory, Own, Serves, ServedLeavesVerify
<1> QED
  BY <1>1, AlwaysIInv, PTL

(* ca/trusted tells the truth about the system's bundle, but for the same    *)
(* mixing and the interruptions that Slips names.                            *)
THEOREM MarkerMeansTrusted == Spec => []MarkedRootIsTrusted
<1>1. IInv => MarkedRootIsTrusted
  BY DEF IInv, OneAtATime, Kept, Noted, RootIs, Usable, MarkedRootIsTrusted
<1> QED
  BY <1>1, AlwaysIInv, PTL
================================================================================

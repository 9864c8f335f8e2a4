------------------------------- MODULE HostsFile -------------------------------
(*****************************************************************************)
(* The hosts file (internal/hosts/hosts.go): the daemon's persist, the hosts *)
(* command and clean each read it, replace its managed block and rename the  *)
(* result over it, while the user edits the lines around the block.          *)
(*                                                                           *)
(* The file is a sequence of lines: the two markers, blank lines, a line for *)
(* each host name the block holds, and the user's lines.  A marker fills its *)
(* line.  Replace is the code's algorithm on it; the properties say what it  *)
(* should keep.                                                              *)
(*****************************************************************************)
EXTENDS Naturals, SequencesExt, Filter

CONSTANTS
    Writers,            \* processes that synchronise the file
    HostOrder,          \* the host names, in their order
    UserLines,          \* lines the user may write, each once
    Begin, End, Blank,  \* the markers and the blank line
    NoRoutes,           \* no route at all: what clean writes
    Idle,               \* the view of a writer that has read nothing
    MaxEdits            \* bound: lines the user adds or deletes

Hosts == Range(HostOrder)
Line == {Begin, End, Blank} \cup Hosts \cup UserLines

ASSUME HostOrderAssumption == HostOrder \in Seq(Hosts) /\ IsInjective(HostOrder)
ASSUME LineAssumption ==
    /\ Begin # End /\ Blank \notin {Begin, End}
    /\ Hosts \cap (UserLines \cup {Begin, End, Blank}) = {}
    /\ UserLines \cap {Begin, End, Blank} = {}
ASSUME RoutesAssumption == \A routes \in SUBSET Hosts : routes # NoRoutes
ASSUME BoundAssumption == MaxEdits \in Nat

(* The routes a writer has: none, or some that have these names together.    *)
Routes == {NoRoutes} \cup SUBSET Hosts

-------------------------------------------------------------------------------
(* Replace.                                                                  *)

NonBlank(s) == {i \in DOMAIN s : s[i] # Blank}

TrimRight(s) == SubSeq(s, 1, Max(NonBlank(s) \cup {0}))
SkipBlanks(s) == SubSeq(s, Min(NonBlank(s) \cup {Len(s) + 1}), Len(s))

Begins(s) == {i \in DOMAIN s : s[i] = Begin}
EndsAfter(s, start) == {i \in DOMAIN s : i > start /\ s[i] = End}

(* Faulty variant of Cut: everything after the marker goes.                  *)
CutTail(s) == IF Begins(s) = {} THEN s ELSE SubSeq(s, 1, Min(Begins(s)) - 1)

(* Faulty variant of Cut: the line above the marker is taken for the blank   *)
(* one that Replace puts there.                                              *)
CutSeparator(s) ==
    IF Begins(s) = {} \/ EndsAfter(s, Min(Begins(s))) = {} THEN s
    ELSE SubSeq(s, 1, Min(Begins(s)) - 2)
         \o SkipBlanks(SubSeq(s, Min(EndsAfter(s, Min(Begins(s)))) + 1, Len(s)))

(* The file without its block: from the first begin to the first end after   *)
(* it and the blank lines that follow.  A begin without an end is kept.      *)
Cut(s) ==
    IF Begins(s) = {} \/ EndsAfter(s, Min(Begins(s))) = {} THEN s
    ELSE LET start == Min(Begins(s))
             stop == Min(EndsAfter(s, start))
         IN  SubSeq(s, 1, start - 1) \o SkipBlanks(SubSeq(s, stop + 1, Len(s)))

(* Faulty variant of Block: all names in one line.                           *)
BlockOfOneLine(routes) == <<Begin, routes, End>>

Block(routes) == <<Begin>> \o Only(HostOrder, routes) \o <<End>>

(* Faulty variants of Replace: blank lines pile up; the old block stays.     *)
ReplaceUntrimmed(s, routes) ==
    IF routes = NoRoutes THEN Cut(s) ELSE Cut(s) \o <<Blank>> \o Block(routes)

ReplaceNothing(s, routes) ==
    IF routes = NoRoutes THEN TrimRight(s)
    ELSE TrimRight(s) \o <<Blank>> \o Block(routes)

(* The old block is cut out and a new one put at the end, if there are       *)
(* routes.  An empty file becomes an empty line.                             *)
Replace(s, routes) ==
    LET kept == TrimRight(Cut(s))
        lines == IF kept = <<>> THEN <<Blank>> ELSE kept
    IN  IF routes = NoRoutes THEN lines ELSE lines \o <<Blank>> \o Block(routes)

-------------------------------------------------------------------------------
(* The file and those who write it.                                          *)

VARIABLES
    content,    \* the hosts file
    view,       \* view[w]: the file as writer w has read it
    wanted,     \* history: the user's lines, as the user left them
    edits,      \* history: how many edits that took (the bound)
    slips       \* history: what happened that the properties except

vars == <<content, view, wanted, edits, slips>>

TypeOK ==
    /\ content \in Seq(Line)
    /\ view \in [Writers -> {Idle} \cup Seq(Line)]
    /\ wanted \in Seq(UserLines)
    /\ edits \in 0..MaxEdits
    /\ slips \in SUBSET {"raced", "unpaired", "inside"}

OfUser(s) == Only(s, UserLines)

Init ==
    /\ content = <<Blank>>
    /\ view = [w \in Writers |-> Idle]
    /\ wanted = <<>>
    /\ edits = 0
    /\ slips = {}

Read(w) ==
    /\ view[w] = Idle
    /\ view' = [view EXCEPT ![w] = content]
    /\ UNCHANGED <<content, wanted, edits, slips>>

(* A rename replaces the file, whatever happened to it since it was read.    *)
(* The routes are any: a list taken earlier, or none at all.                 *)
Write(w, routes) ==
    /\ view[w] # Idle
    /\ content' = Replace(view[w], routes)
    /\ slips' = IF OfUser(view[w]) # OfUser(content) THEN slips \cup {"raced"} ELSE slips
    /\ view' = [view EXCEPT ![w] = Idle]
    /\ UNCHANGED <<wanted, edits>>

(* The process ends, or may not write the file.                              *)
GiveUp(w) ==
    /\ view[w] # Idle
    /\ view' = [view EXCEPT ![w] = Idle]
    /\ UNCHANGED <<content, wanted, edits, slips>>

InBlock(i) ==
    \E b \in Begins(content) : b < i /\ ~\E e \in EndsAfter(content, b) : e < i

Edited == edits < MaxEdits /\ edits' = edits + 1 /\ wanted' = OfUser(content')

(* The user puts a line before the i-th one, which had better not be one of  *)
(* the block.                                                                *)
AddLine(l, i) ==
    /\ l \in UserLines => l \notin Range(content)
    /\ content' = InsertAt(content, i, l)
    /\ Edited
    /\ slips' = IF l # Blank /\ InBlock(i) THEN slips \cup {"inside"} ELSE slips
    /\ UNCHANGED view

(* The user deletes a line, which had better not be a marker.                *)
DeleteLine(i) ==
    /\ content' = RemoveAt(content, i)
    /\ Edited
    /\ slips' = IF content[i] \in {Begin, End} THEN slips \cup {"unpaired"} ELSE slips
    /\ UNCHANGED view

WriterStep(w) == Read(w) \/ GiveUp(w) \/ \E routes \in Routes : Write(w, routes)

UserStep ==
    \/ \E l \in UserLines \cup {Blank}, i \in 1..(Len(content) + 1) : AddLine(l, i)
    \/ \E i \in DOMAIN content : DeleteLine(i)

Next == UserStep \/ \E w \in Writers : WriterStep(w)

Spec == Init /\ [][Next]_vars

-------------------------------------------------------------------------------
(* Properties.                                                               *)

Paired(s) ==
    \/ Range(s) \cap ({Begin, End} \cup Hosts) = {}
    \/ \E b, e \in DOMAIN s :
          /\ b < e
          /\ Begins(s) = {b}
          /\ EndsAfter(s, 0) = {e}
          /\ \A i \in DOMAIN s : s[i] \in Hosts => b < i /\ i < e

(* The user's lines are what the user left, in their order, however often    *)
(* and by however many processes the block is replaced, unless an edit was   *)
(* made between a writer's read and its write, inside the block, or to its   *)
(* markers.                                                                  *)
UserLinesSurvive == slips = {} => OfUser(content) = wanted

(* While the markers are left alone there is one block at most, and the      *)
(* lines of host names are in it and nowhere else.                           *)
OneBlock == "unpaired" \notin slips => Paired(content)

(* A second Replace with the same routes changes nothing, and one without    *)
(* routes leaves nothing of the block, wherever the user has put it.         *)
ReplaceSettles ==
    "unpaired" \notin slips =>
        /\ \A routes \in Routes :
              LET once == Replace(content, routes) IN Replace(once, routes) = once
        /\ Range(Replace(content, NoRoutes)) \subseteq UserLines \cup {Blank}

(* What stands before the first begin survives every write of a file that    *)
(* was not edited since it was read, also when the markers no longer pair.   *)
LinesBeforeBlockSurvive ==
    [][\A w \in Writers, routes \in Routes :
          Write(w, routes) /\ view[w] = content =>
              LET before == IF Begins(content) = {} THEN content
                            ELSE SubSeq(content, 1, Min(Begins(content)) - 1)
              IN  IsPrefix(OfUser(before), OfUser(content'))]_vars
===============================================================================

--------------------------------- MODULE Proxy ---------------------------------
(*****************************************************************************)
(* The serving side of the daemon: Table.Lookup, the choice of a certificate *)
(* for a TLS hello, and the path of a request through the proxy and the apps *)
(* behind it, while control calls edit the host names of the routes.         *)
(*                                                                           *)
(* The host names of a route are a Go slice.  Lookup and List copy the slice *)
(* header under the table's lock and hand it out; AddHostname and            *)
(* RemoveHostname write in the array behind it.  So a reader that goes       *)
(* through the names without the lock sees the writes one by one, and may    *)
(* see half of the one being made (Torn).                                    *)
(*                                                                           *)
(* A host name is the sequence of its labels, top level last.                *)
(*****************************************************************************)
EXTENDS Naturals, SequencesExt, Filter

CONSTANTS
    Routes,     \* route names
    Hosts,      \* host names
    NoRoute,    \* "this name has no route"
    NoEdit,     \* "nobody holds the table's write lock"
    Torn,       \* a string that is no host name: half a write, or no write yet
    Expansion,  \* Expansion[r]: the names Register gives to route r
    Edited,     \* bound: the routes whose names are added to and removed
    MaxNames    \* bound: the names of one route

Entry == [names : Seq(Hosts \cup {Torn}), len : Nat]
Writes == [route : Routes, target : Seq(Hosts), at : Nat]
Slice == [shared : BOOLEAN, names : Seq(Hosts \cup {Torn}), len : Nat]

ASSUME HostAssumption == Hosts # {} /\ \A h \in Hosts : h \in Seq(STRING) /\ h # <<>>
ASSUME TornAssumption == Torn \notin Hosts
ASSUME ExpansionAssumption == Expansion \in [Routes -> Seq(Hosts)]
ASSUME RoutesAssumption == IsFiniteSet(Routes) /\ NoRoute \notin Routes
ASSUME NothingAssumption == NoRoute \notin Entry /\ NoEdit \notin Writes
ASSUME BoundAssumption == Edited \subseteq Routes /\ MaxNames \in Nat

MaxDepth == 5   \* ServeHTTP's limit on Devhostd-Depth

VARIABLES
    wildcard,   \* the daemon's option
    table,      \* table[r]: the array of r's names, and how many of them count
    edit,       \* the writes AddHostname or RemoveHostname still has to make
    phase,      \* what the client does
    host,       \* the name it asks for
    route,      \* the route the daemon found for it
    depth,      \* the request's Devhostd-Depth
    scan,       \* the slice of names a reader without the lock goes through
    seen,       \* the names it has read
    cert,       \* the certificate the client was given
    had,        \* history: the names the route had since the slice was taken
    kept,       \* history: the names it had all that time
    shifted     \* history: a name was removed in that time

tableVars == <<table, edit>>
scanVars == <<scan, seen, had, kept, shifted>>
vars == <<wildcard, phase, host, route, depth, cert, tableVars, scanVars>>

Scanning == {"hello", "listing"}
InFlight == {"requested", "sent", "bridged", "sentback"}
Ended == {"answered", "notfound", "looped", "unavailable"}

Registered == {r \in Routes : table[r] # NoRoute}

TypeOK ==
    /\ wildcard \in BOOLEAN
    /\ table \in [Routes -> Entry \cup {NoRoute}]
    /\ \A r \in Registered :
          /\ table[r].len <= Len(table[r].names)
          /\ \A i \in 1..table[r].len : table[r].names[i] \in Hosts
    /\ edit \in Writes \cup {NoEdit}
    /\ edit # NoEdit => edit.route \in Registered
    /\ phase \in {"idle", "listed", "connected"} \cup InFlight \cup Scanning \cup Ended
    /\ host \in Hosts /\ route \in Routes \cup {NoRoute}
    /\ depth \in 0..MaxDepth
    /\ scan \in Slice
    /\ seen \in Seq(Hosts \cup {Torn}) /\ (phase \in Scanning => Len(seen) <= scan.len)
    /\ cert \in [base : Hosts, wild : BOOLEAN]
    /\ had \in SUBSET Hosts /\ kept \in SUBSET Hosts /\ shifted \in BOOLEAN

(* What the variables are that a client at rest does not use.                *)
AnyHost == CHOOSE h \in Hosts : TRUE
NoCert == [base |-> AnyHost, wild |-> FALSE]
NoScan == [shared |-> FALSE, names |-> <<>>, len |-> 0]

Init ==
    /\ wildcard \in BOOLEAN
    /\ table = [r \in Routes |-> NoRoute]
    /\ edit = NoEdit
    /\ phase = "idle" /\ host = AnyHost /\ route = NoRoute /\ depth = 0 /\ cert = NoCert
    /\ scan = NoScan /\ seen = <<>> /\ had = {} /\ kept = {} /\ shifted = FALSE

-------------------------------------------------------------------------------
(* Lookup.                                                                   *)

Names(r) == SubSeq(table[r].names, 1, table[r].len)

IsBelow(h, base) == h # base /\ IsSuffix(base, h)

(* Faulty variant of Better: the shortest name wins.                          *)
BetterShorter(h, name, best) ==
    IsBelow(h, name) /\ (best = <<>> \/ Len(name) < Len(best))

(* A name of the wildcard pass replaces the best one so far when it is       *)
(* longer.  Of two that h is below, the longer one has more labels.          *)
Better(h, name, best) == IsBelow(h, name) /\ Len(name) > Len(best)

Named(h) == {r \in Registered : Contains(Names(r), h)}

(* The best name so far, and its route, after the names of r.                *)
Longer(r, h, best) ==
    LET longer[i \in 0..Len(Names(r))] ==
            IF i = 0 THEN best
            ELSE IF Better(h, Names(r)[i], longer[i - 1].name)
                 THEN [route |-> r, name |-> Names(r)[i]]
                 ELSE longer[i - 1]
    IN  longer[Len(Names(r))]

(* The same after all routes of the order.                                   *)
Longest(order, h) ==
    LET longest[i \in 0..Len(order)] ==
            IF i = 0 THEN [route |-> NoRoute, name |-> <<>>]
            ELSE Longer(order[i], h, longest[i - 1])
    IN  longest[Len(order)]

(* The answer when the map of routes is ranged over in this order.           *)
Lookup(order, h) ==
    LET exact == {i \in DOMAIN order : order[i] \in Named(h)}
    IN  IF exact # {} THEN order[Min(exact)]
        ELSE IF wildcard THEN Longest(order, h).route
        ELSE NoRoute

(* Go may choose any order.                                                  *)
Answers(h) == {Lookup(order, h) : order \in SetToSeqs(Registered)}

-------------------------------------------------------------------------------
(* The table's writers.  Register and Deregister change the entry; a reader  *)
(* of the old slice keeps its array.                                         *)

IsRead(r) == phase \in Scanning /\ scan.shared /\ route = r

Leave(r) ==
    scan' = IF IsRead(r) THEN [scan EXCEPT !.shared = FALSE, !.names = table[r].names]
            ELSE scan

Watch(r, names, removed) ==
    IF IsRead(r)
    THEN /\ had' = had \cup names
         /\ kept' = kept \cap names
         /\ shifted' = (shifted \/ removed)
    ELSE UNCHANGED <<had, kept, shifted>>

Locked == edit = NoEdit /\ UNCHANGED <<wildcard, phase, host, route, depth, cert, seen>>

(* Faulty variant of Register: the old array is used again.                  *)
RegisterInPlace(r) ==
    /\ Locked
    /\ LET old == IF r \in Registered THEN table[r].names ELSE <<>>
           names == Expansion[r] \o SubSeq(old, Len(Expansion[r]) + 1, Len(old))
       IN  table' = [table EXCEPT ![r] = [names |-> names, len |-> Len(Expansion[r])]]
    /\ UNCHANGED <<edit, scan, had, kept, shifted>>

Register(r) ==
    /\ Locked
    /\ table' = [table EXCEPT ![r] = [names |-> Expansion[r], len |-> Len(Expansion[r])]]
    /\ Leave(r)
    /\ UNCHANGED <<edit, had, kept, shifted>>

Deregister(r) ==
    /\ Locked
    /\ table' = [table EXCEPT ![r] = NoRoute]
    /\ Leave(r)
    /\ UNCHANGED <<edit, had, kept, shifted>>

Begin(r, target, at) ==
    /\ edit' = [route |-> r, target |-> target, at |-> at]
    /\ UNCHANGED <<table, scan>>

(* An append to a full slice moves it to an array twice as long.             *)
Grow(r, h) ==
    /\ table' = [table EXCEPT ![r] =
          [names |-> Append(Names(r), h) \o [i \in 1..(table[r].len - 1) |-> Torn],
           len |-> table[r].len + 1]]
    /\ Leave(r)
    /\ UNCHANGED edit

(* Faulty variant of AddHostname: the new name is put first, in place.       *)
AddHostnameFirst(r, h) ==
    /\ Locked
    /\ r \in Registered /\ ~Contains(Names(r), h)
    /\ table[r].len < MaxNames
    /\ IF table[r].len < Len(table[r].names)
       THEN Begin(r, <<h>> \o Names(r), 1)
       ELSE Grow(r, h)
    /\ Watch(r, Range(Append(Names(r), h)), FALSE)

AddHostname(r, h) ==
    /\ Locked
    /\ r \in Registered /\ ~Contains(Names(r), h)
    /\ table[r].len < MaxNames
    /\ IF table[r].len < Len(table[r].names)
       THEN Begin(r, Append(Names(r), h), table[r].len + 1)
       ELSE Grow(r, h)
    /\ Watch(r, Range(Append(Names(r), h)), FALSE)

(* The names that stay are moved to the front, in the array of the old ones. *)
RemoveHostname(r, h) ==
    /\ Locked
    /\ r \in Registered /\ Contains(Names(r), h)
    /\ LET rest == Only(Names(r), Hosts \ {h})
       IN  Begin(r, rest, 1) /\ Watch(r, Range(rest), TRUE)

Edit ==
    /\ edit # NoEdit
    /\ LET r == edit.route
       IN  IF edit.at <= Len(edit.target)
           THEN /\ table' = [table EXCEPT ![r].names[edit.at] = edit.target[edit.at]]
                /\ edit' = [edit EXCEPT !.at = @ + 1]
           ELSE /\ table' = [table EXCEPT ![r].len = Len(edit.target)]
                /\ edit' = NoEdit
    /\ UNCHANGED <<wildcard, phase, host, route, depth, cert, scanVars>>

-------------------------------------------------------------------------------
(* Readers without the lock.                                                 *)

Kept == UNCHANGED <<wildcard, tableVars>>
Untouched == UNCHANGED scanVars

(* The slice of route r as Lookup or List returns it.                        *)
Take(r) ==
    /\ edit = NoEdit
    /\ route' = r
    /\ scan' = [shared |-> TRUE, names |-> <<>>, len |-> table[r].len]
    /\ seen' = <<>>
    /\ had' = Range(Names(r))
    /\ kept' = Range(Names(r))
    /\ shifted' = FALSE

Array == IF scan.shared THEN table[route].names ELSE scan.names

(* What reading the next name of the slice may return.                       *)
NextName ==
    LET i == Len(seen) + 1
        beingWritten == scan.shared /\ edit # NoEdit /\ edit.route = route /\ edit.at = i
    IN  {Array[i]} \cup (IF beingWritten THEN {Torn} ELSE {})

ReadAll == Len(seen) = scan.len

(* A list reply, the saved file and the page of an unknown name go through   *)
(* the names of every route: here, of one.                                   *)
List(r) ==
    /\ phase = "idle" /\ phase' = "listing"
    /\ r \in Registered
    /\ Take(r)
    /\ Kept /\ UNCHANGED <<host, depth, cert>>

ListName ==
    /\ phase = "listing"
    /\ IF ReadAll THEN phase' = "listed" /\ scan' = NoScan /\ UNCHANGED seen
       ELSE UNCHANGED <<phase, scan>> /\ \E name \in NextName : seen' = Append(seen, name)
    /\ Kept /\ UNCHANGED <<host, depth, cert, route, had, kept, shifted>>

Present(base, wild) ==
    /\ phase' = "connected"
    /\ cert' = [base |-> base, wild |-> wild]
    /\ scan' = NoScan /\ seen' = <<>>

(* GetCertificate for a hello with this server name.                         *)
Hello(h) ==
    /\ phase = "idle" /\ host' = h
    /\ \/ /\ wildcard => edit = NoEdit /\ NoRoute \in Answers(h)
          /\ Present(h, FALSE)
          /\ UNCHANGED <<route, had, kept, shifted>>
       \/ /\ wildcard /\ edit = NoEdit
          /\ \E r \in Answers(h) \ {NoRoute} : Take(r)
          /\ phase' = "hello" /\ UNCHANGED cert
    /\ Kept /\ UNCHANGED depth

(* Faulty variant of Fits: the wildcard is taken to cover the sibling names. *)
FitsSibling(h, name) == Len(name) > 1 /\ IsSuffix(Tail(name), h)

(* The certificate of the name itself, or of the one it is below.            *)
Fits(h, name) == h = name \/ IsBelow(h, name)

HelloName ==
    /\ phase = "hello"
    /\ IF ReadAll THEN Present(host, FALSE)
       ELSE \E name \in NextName :
              IF name # Torn /\ Fits(host, name) THEN Present(name, TRUE)
              ELSE seen' = Append(seen, name) /\ UNCHANGED <<phase, cert, scan>>
    /\ Kept /\ UNCHANGED <<host, depth, route, had, kept, shifted>>

-------------------------------------------------------------------------------
(* Requests.                                                                 *)

(* Over a TLS connection, or without one.                                    *)
Request(h) ==
    /\ phase \in {"idle", "connected"} /\ phase' = "requested"
    /\ host' = h /\ depth' = 0 /\ route' = NoRoute /\ cert' = NoCert
    /\ scan' = NoScan /\ seen' = <<>> /\ had' = {} /\ kept' = {} /\ shifted' = FALSE
    /\ Kept

(* Faulty variant of Deeper: the proxy passes the header on as it is.        *)
DeeperNot(d) == d

Deeper(d) == d + 1

(* Faulty variant of TooDeep: one hop more.                                  *)
TooDeepLate(d) == d > MaxDepth

TooDeep(d) == d >= MaxDepth

(* ServeHTTP: the page of an unknown name, the loop page, or on to the app.  *)
(* A WebSocket that comes as an HTTP/2 CONNECT, from the client or from an   *)
(* app, is bridged, its header unchanged.                                    *)
Serve ==
    /\ phase \in {"requested", "sentback"} /\ edit = NoEdit
    /\ \E r \in Answers(host) :
          /\ route' = r
          /\ \/ r = NoRoute /\ phase' = "notfound" /\ UNCHANGED depth
             \/ r # NoRoute /\ TooDeep(depth) /\ phase' = "looped" /\ UNCHANGED depth
             \/ r # NoRoute /\ ~TooDeep(depth) /\ phase' = "sent" /\ depth' = Deeper(depth)
             \/ r # NoRoute /\ ~TooDeep(depth) /\ phase' = "bridged" /\ UNCHANGED depth
    /\ Kept /\ Untouched /\ UNCHANGED <<host, cert>>

(* The app cannot be reached, answers, or is a proxy that sends the request, *)
(* with its header, to the daemon again, with a host name the daemon knows   *)
(* or not.                                                                   *)
App ==
    /\ phase \in {"sent", "bridged"}
    /\ \/ phase' \in {"unavailable", "answered"} /\ UNCHANGED host
       \/ phase' = "sentback" /\ host' \in Hosts
    /\ Kept /\ Untouched /\ UNCHANGED <<route, depth, cert>>

(* The client forgets what it has got.                                       *)
Again ==
    /\ phase \in Ended \cup {"listed"} /\ phase' = "idle"
    /\ host' = AnyHost /\ route' = NoRoute /\ depth' = 0 /\ cert' = NoCert
    /\ scan' = NoScan /\ seen' = <<>> /\ had' = {} /\ kept' = {} /\ shifted' = FALSE
    /\ Kept

TableStep ==
    \/ \E r \in Routes : Register(r) \/ Deregister(r)
    \/ \E r \in Edited, h \in Hosts : AddHostname(r, h) \/ RemoveHostname(r, h)
    \/ Edit

Next ==
    \/ TableStep
    \/ \E r \in Routes : List(r)
    \/ \E h \in Hosts : Hello(h) \/ Request(h)
    \/ ListName \/ HelloName
    \/ Serve \/ App \/ Again

Spec == Init /\ [][Next]_vars

(* The table's RWMutex lets a waiting reader in after the writer it waits    *)
(* for; the apps answer or are refused.                                      *)
FairSpec ==
    /\ Spec
    /\ WF_vars(Edit)
    /\ SF_vars(Serve)
    /\ WF_vars(App)

-------------------------------------------------------------------------------
(* Properties.                                                               *)

(* Whatever the order the map of routes is gone through in, Lookup answers   *)
(* with a route that has the longest name which is the host or, with the     *)
(* wildcard option, a parent of it; so nested names and names added to one   *)
(* route never take a host from a route with a longer one.  Only routes that *)
(* share that very name leave a choice.                                      *)
Matches(h) ==
    {m \in Registered \X Hosts :
        /\ Contains(Names(m[1]), m[2])
        /\ h # m[2] => wildcard /\ IsBelow(h, m[2])}

LookupIsLongest ==
    edit = NoEdit => \A h \in Hosts :
        Answers(h) =
            IF Matches(h) = {} THEN {NoRoute}
            ELSE {m[1] : m \in {best \in Matches(h) :
                                 \A o \in Matches(h) : Len(o[2]) <= Len(best[2])}}

(* A client gets a certificate for the name it asked for, however the names  *)
(* of the route change while they are gone through, unless one of those      *)
(* names is more than one label above: the wildcard reaches one label only.  *)
CertificateCoversHost ==
    phase = "connected" =>
        \/ cert.base = host
        \/ cert.wild /\ cert.base = Tail(host)
        \/ \E name \in had : IsBelow(host, name) /\ name # Tail(host)

(* A reader sees only names its route had since the slice was taken, even if *)
(* the route is replaced or removed meanwhile; half a string at worst, when  *)
(* a name was removed.                                                       *)
OnlyOwnNamesAreRead ==
    phase \in Scanning \cup {"listed"} =>
        Range(seen) \subseteq had \cup (IF shifted THEN {Torn} ELSE {})

(* A list holds every name the route has kept all the time, unless a name    *)
(* was removed while it was made: additions never hide one.                  *)
KeptNamesAreListed ==
    phase = "listed" /\ ~shifted => kept \subseteq Range(seen)

(* Every request ends, also when the apps send it back again and again,      *)
(* unless it is bridged again and again: from wherever it is it comes to an  *)
(* end or to the bridge, which does not count, and from the bridge to an end *)
(* or back to the daemon.                                                    *)
RequestsEnd ==
    /\ phase \in InFlight \ {"bridged"} ~> phase \in Ended \cup {"bridged"}
    /\ phase = "bridged" ~> phase \in Ended \cup {"sentback"}
===============================================================================

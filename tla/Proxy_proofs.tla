------------------------------ MODULE Proxy_proofs ------------------------------
(*****************************************************************************)
(* Proofs about the proxy, for every set of routes and host names: Lookup    *)
(* answers with the longest name in whatever order the map is gone through,  *)
(* and readers without the lock see what they should while the names of the  *)
(* routes are written.                                                       *)
(*                                                                           *)
(* The first half is about Lookup: its two loops are recursive functions     *)
(* over sequences, taken step by step with SetInduction.  The second half    *)
(* is the inductive invariant Inv, with one lemma for every action.          *)
(*****************************************************************************)
EXTENDS Proxy, Filter_proofs, FiniteSetTheorems

-------------------------------------------------------------------------------
(* Lookup's loops.                                                           *)

(* The names of a route, as host names, and as sequences.                    *)
Listed(r) == Names(r) \in Seq(Hosts)

(* A host name is a sequence of labels, at least one.                        *)
LEMMA HostFacts ==
    ASSUME NEW h \in Hosts
    PROVE  h \in Seq(STRING) /\ Len(h) \in Nat /\ Len(h) > 0
<1>1. h \in Seq(STRING) /\ h # <<>>
  BY HostAssumption
<1> QED
  BY <1>1, EmptySeq, LenProperties

(* The loop over the names of a route, step by step.                         *)
LEMMA LongerSteps ==
    ASSUME NEW r, NEW h, NEW best, Listed(r)
    PROVE  \E g : /\ Longer(r, h, best) = g[Len(Names(r))]
                  /\ g[0] = best
                  /\ \A i \in 1..Len(Names(r)) :
                        g[i] = IF Better(h, Names(r)[i], g[i - 1].name)
                               THEN [route |-> r, name |-> Names(r)[i]] ELSE g[i - 1]
<1> DEFINE n == Len(Names(r))
           Body(g, i) == IF i = 0 THEN best
                         ELSE IF Better(h, Names(r)[i], g[i - 1].name)
                              THEN [route |-> r, name |-> Names(r)[i]] ELSE g[i - 1]
           S == {m \in Nat : \E g : g = [i \in 0..m |-> Body(g, i)]}
           Fold(g) == [i \in 0..n |-> Body(g, i)]
           f == CHOOSE g : g = Fold(g)
<1>0. n \in Nat
  BY LenProperties DEF Listed
<1>1. Longer(r, h, best) = f[n]
  BY DEF Longer
<1> HIDE DEF n, Fold, f
<1>2. 0 \in S
  <2>1. [i \in 0..0 |-> best] = [i \in 0..0 |-> Body([j \in 0..0 |-> best], i)]
    OBVIOUS
  <2> QED
    BY <2>1
<1>3. ASSUME NEW m \in Nat, m \in S PROVE m + 1 \in S
  <2>1. PICK g : g = [i \in 0..m |-> Body(g, i)]
    BY <1>3
  <2> DEFINE k == [i \in 0..(m + 1) |-> IF i = m + 1 THEN Body(g, m + 1) ELSE g[i]]
  <2>2. ASSUME NEW i \in 0..(m + 1) PROVE k[i] = Body(k, i)
    <3>1. CASE i = m + 1
      <4>1. k[i - 1] = g[i - 1] /\ i # 0
        BY <3>1
      <4> QED
        BY <3>1, <4>1
    <3>2. CASE i # m + 1
      <4>1. i \in 0..m /\ k[i] = g[i]
        BY <3>2
      <4>2. i # 0 => k[i - 1] = g[i - 1]
        BY <3>2
      <4>3. g[i] = Body(g, i)
        BY <2>1, <4>1
      <4> QED
        BY <4>1, <4>2, <4>3
    <3> QED
      BY <3>1, <3>2
  <2>3. k = [i \in 0..(m + 1) |-> Body(k, i)]
    BY <2>2
  <2>4. \E x : x = [i \in 0..(m + 1) |-> Body(x, i)]
    BY <2>3
  <2> QED
    BY <2>4
<1> HIDE DEF S
<1>4. n \in S
  BY <1>0, <1>2, <1>3, SetInduction
<1> HIDE DEF Body
<1>5. \E g : g = Fold(g)
  BY <1>4 DEF S, Fold
<1>6. f = Fold(f)
  BY <1>5 DEF f
<1>7. \A i \in 0..n : f[i] = Body(f, i)
  BY <1>6 DEF Fold
<1>8. f[0] = best
  <2>1. 0 \in 0..n
    BY <1>0
  <2>2. f[0] = Body(f, 0)
    BY <1>7, <2>1
  <2>3. Body(f, 0) = best
    BY DEF Body
  <2> QED
    BY <2>2, <2>3
<1>9. \A i \in 1..n : f[i] = IF Better(h, Names(r)[i], f[i - 1].name)
                             THEN [route |-> r, name |-> Names(r)[i]] ELSE f[i - 1]
  <2> SUFFICES ASSUME NEW i \in 1..n
               PROVE  f[i] = IF Better(h, Names(r)[i], f[i - 1].name)
                             THEN [route |-> r, name |-> Names(r)[i]] ELSE f[i - 1]
    OBVIOUS
  <2>1. i \in 0..n /\ i # 0
    BY <1>0
  <2> QED
    BY <1>7, <2>1 DEF Body
<1> QED
  BY <1>1, <1>8, <1>9 DEF n

(* What the loop leaves: the best so far, or a longer name of the route that *)
(* the host is below; and no name of the route that the host is below is     *)
(* longer.                                                                   *)
LEMMA LongerFacts ==
    ASSUME NEW r, NEW h, NEW best, Listed(r), Len(best.name) \in Nat
    PROVE  /\ \/ Longer(r, h, best) = best
              \/ \E x \in Range(Names(r)) : /\ Longer(r, h, best) = [route |-> r, name |-> x]
                                            /\ IsBelow(h, x) /\ Len(x) > Len(best.name)
           /\ \A x \in Range(Names(r)) : IsBelow(h, x) => Len(x) <= Len(Longer(r, h, best).name)
<1> DEFINE s == Names(r)
<1>0. s \in Seq(Hosts) /\ Len(s) \in Nat /\ DOMAIN s = 1..Len(s)
  BY LenProperties DEF Listed
<1>1. \A i \in 1..Len(s) : s[i] \in Hosts /\ Len(s[i]) \in Nat /\ s[i] \in Range(s)
  <2>1. \A i \in 1..Len(s) : s[i] \in Hosts
    BY <1>0, ElementOfSeq
  <2> QED
    BY <1>0, <2>1, HostFacts DEF Range
<1>2. PICK g : /\ Longer(r, h, best) = g[Len(s)]
               /\ g[0] = best
               /\ \A i \in 1..Len(s) : g[i] = IF Better(h, s[i], g[i - 1].name)
                                              THEN [route |-> r, name |-> s[i]] ELSE g[i - 1]
  BY LongerSteps
<1>3. Range(s) = {s[i] : i \in 1..Len(s)}
  BY <1>0 DEF Range
<1> DEFINE Either(i) == \/ g[i] = best
                        \/ \E x \in Range(s) : /\ g[i] = [route |-> r, name |-> x]
                                               /\ IsBelow(h, x) /\ Len(x) > Len(best.name)
           T == {n \in Nat : n <= Len(s) =>
                    /\ Either(n)
                    /\ \A j \in 1..n : IsBelow(h, s[j]) => Len(s[j]) <= Len(g[n].name)}
<1> HIDE DEF s, Either
<1>4. 0 \in T
  BY <1>2 DEF Either
<1>5. ASSUME NEW n \in Nat, n \in T PROVE n + 1 \in T
  <2> SUFFICES ASSUME n + 1 <= Len(s)
               PROVE  /\ Either(n + 1)
                      /\ \A j \in 1..(n + 1) : IsBelow(h, s[j]) => Len(s[j]) <= Len(g[n + 1].name)
    OBVIOUS
  <2>1. /\ Either(n)
        /\ \A j \in 1..n : IsBelow(h, s[j]) => Len(s[j]) <= Len(g[n].name)
    BY <1>0, <1>5
  <2>2. n + 1 \in 1..Len(s) /\ (n + 1) - 1 = n
    BY <1>0
  <2>3. g[n + 1] = IF Better(h, s[n + 1], g[n].name)
                   THEN [route |-> r, name |-> s[n + 1]] ELSE g[n]
    BY <1>2, <2>2
  <2>4. Len(g[n].name) \in Nat /\ Len(g[n].name) >= Len(best.name)
    <3>1. CASE g[n] = best
      BY <3>1
    <3>2. CASE \E x \in Range(s) : /\ g[n] = [route |-> r, name |-> x]
                                   /\ IsBelow(h, x) /\ Len(x) > Len(best.name)
      <4>1. PICK x \in Range(s) : g[n].name = x /\ Len(x) > Len(best.name)
        BY <3>2
      <4>2. Len(x) \in Nat
        BY <1>1, <1>3
      <4> QED
        BY <4>1, <4>2
    <3> QED
      BY <2>1, <3>1, <3>2 DEF Either
  <2>5. CASE Better(h, s[n + 1], g[n].name)
    <3>1. /\ g[n + 1] = [route |-> r, name |-> s[n + 1]] /\ g[n + 1].name = s[n + 1]
          /\ IsBelow(h, s[n + 1]) /\ Len(s[n + 1]) > Len(g[n].name)
      BY <2>3, <2>5 DEF Better
    <3>2. Len(s[n + 1]) \in Nat /\ s[n + 1] \in Range(s)
      BY <1>1, <2>2
    <3>3. Len(s[n + 1]) > Len(best.name)
      BY <2>4, <3>1, <3>2
    <3>4. Either(n + 1)
      BY <3>1, <3>2, <3>3 DEF Either
    <3>5. ASSUME NEW j \in 1..(n + 1), IsBelow(h, s[j]) PROVE Len(s[j]) <= Len(s[n + 1])
      <4>1. j \in 1..n \/ j = n + 1
        OBVIOUS
      <4>2. j \in 1..Len(s)
        BY <1>0
      <4>3. Len(s[j]) \in Nat
        BY <1>1, <4>2
      <4> QED
        BY <2>1, <2>4, <3>1, <3>2, <3>5, <4>1, <4>3
    <3> QED
      BY <3>1, <3>4, <3>5
  <2>6. CASE ~Better(h, s[n + 1], g[n].name)
    <3>1. g[n + 1] = g[n]
      BY <2>3, <2>6
    <3>2. IsBelow(h, s[n + 1]) => ~(Len(s[n + 1]) > Len(g[n].name))
      BY <2>6 DEF Better
    <3>3. Len(s[n + 1]) \in Nat
      BY <1>1, <2>2
    <3>4. ASSUME NEW j \in 1..(n + 1), IsBelow(h, s[j]) PROVE Len(s[j]) <= Len(g[n].name)
      <4>1. j \in 1..n \/ j = n + 1
        OBVIOUS
      <4> QED
        BY <2>1, <2>4, <3>2, <3>3, <3>4, <4>1
    <3>5. Either(n + 1)
      BY <2>1, <3>1 DEF Either
    <3> QED
      BY <3>1, <3>4, <3>5
  <2> QED
    BY <2>5, <2>6
<1> HIDE DEF T
<1>6. Len(s) \in T
  BY <1>0, <1>4, <1>5, SetInduction
<1>7. /\ Either(Len(s))
      /\ \A j \in 1..Len(s) : IsBelow(h, s[j]) => Len(s[j]) <= Len(g[Len(s)].name)
  BY <1>0, <1>6 DEF T
<1>8. \A x \in Range(s) : IsBelow(h, x) => Len(x) <= Len(g[Len(s)].name)
  BY <1>3, <1>7
<1> QED
  BY <1>2, <1>7, <1>8 DEF s, Either

(* The loop over the routes, step by step.                                   *)
LEMMA LongestSteps ==
    ASSUME NEW order, NEW h, Len(order) \in Nat
    PROVE  \E g : /\ Longest(order, h) = g[Len(order)]
                  /\ g[0] = [route |-> NoRoute, name |-> <<>>]
                  /\ \A i \in 1..Len(order) : g[i] = Longer(order[i], h, g[i - 1])
<1> DEFINE n == Len(order)
           none == [route |-> NoRoute, name |-> <<>>]
           Body(g, i) == IF i = 0 THEN none ELSE Longer(order[i], h, g[i - 1])
           S == {m \in Nat : \E g : g = [i \in 0..m |-> Body(g, i)]}
           Fold(g) == [i \in 0..n |-> Body(g, i)]
           f == CHOOSE g : g = Fold(g)
<1>1. Longest(order, h) = f[n]
  BY DEF Longest
<1> HIDE DEF n, Fold, f, none
<1>0. n \in Nat
  BY DEF n
<1>2. 0 \in S
  <2>1. [i \in 0..0 |-> none] = [i \in 0..0 |-> Body([j \in 0..0 |-> none], i)]
    OBVIOUS
  <2> QED
    BY <2>1
<1>3. ASSUME NEW m \in Nat, m \in S PROVE m + 1 \in S
  <2>1. PICK g : g = [i \in 0..m |-> Body(g, i)]
    BY <1>3
  <2> DEFINE k == [i \in 0..(m + 1) |-> IF i = m + 1 THEN Body(g, m + 1) ELSE g[i]]
  <2>2. ASSUME NEW i \in 0..(m + 1) PROVE k[i] = Body(k, i)
    <3>1. CASE i = m + 1
      <4>1. k[i - 1] = g[i - 1] /\ i # 0
        BY <3>1
      <4> QED
        BY <3>1, <4>1
    <3>2. CASE i # m + 1
      <4>1. i \in 0..m /\ k[i] = g[i]
        BY <3>2
      <4>2. i # 0 => k[i - 1] = g[i - 1]
        BY <3>2
      <4>3. g[i] = Body(g, i)
        BY <2>1, <4>1
      <4> QED
        BY <4>1, <4>2, <4>3
    <3> QED
      BY <3>1, <3>2
  <2>3. k = [i \in 0..(m + 1) |-> Body(k, i)]
    BY <2>2
  <2>4. \E x : x = [i \in 0..(m + 1) |-> Body(x, i)]
    BY <2>3
  <2> QED
    BY <2>4
<1> HIDE DEF S
<1>4. n \in S
  BY <1>0, <1>2, <1>3, SetInduction
<1> HIDE DEF Body
<1>5. \E g : g = Fold(g)
  BY <1>4 DEF S, Fold
<1>6. f = Fold(f)
  BY <1>5 DEF f
<1>7. \A i \in 0..n : f[i] = Body(f, i)
  BY <1>6 DEF Fold
<1>8. f[0] = none
  <2>1. 0 \in 0..n
    BY <1>0
  <2>2. f[0] = Body(f, 0)
    BY <1>7, <2>1
  <2>3. Body(f, 0) = none
    BY DEF Body
  <2> QED
    BY <2>2, <2>3
<1>9. \A i \in 1..n : f[i] = Longer(order[i], h, f[i - 1])
  <2> SUFFICES ASSUME NEW i \in 1..n PROVE f[i] = Longer(order[i], h, f[i - 1])
    OBVIOUS
  <2>1. i \in 0..n /\ i # 0
    BY <1>0
  <2> QED
    BY <1>7, <2>1 DEF Body
<1> QED
  BY <1>1, <1>8, <1>9 DEF n, none

(* A name of a route in the order that h is below.                           *)
Parent(order, h, i, x) == x \in Range(Names(order[i])) /\ IsBelow(h, x)

(* What the loop leaves: nothing, or a name the host is below; and no such   *)
(* name is longer.  If a name of the first route is as long as any, that     *)
(* route stays.                                                              *)
LEMMA LongestFacts ==
    ASSUME NEW order, NEW h, Len(order) \in Nat, \A i \in 1..Len(order) : Listed(order[i])
    PROVE  /\ \/ Longest(order, h) = [route |-> NoRoute, name |-> <<>>]
              \/ \E i \in 1..Len(order) : /\ Longest(order, h).route = order[i]
                                          /\ Parent(order, h, i, Longest(order, h).name)
           /\ \A i \in 1..Len(order) : \A x : Parent(order, h, i, x)
                 => Len(x) <= Len(Longest(order, h).name)
           /\ \A y : /\ Len(order) # 0
                     /\ Parent(order, h, 1, y)
                     /\ \A i \in 1..Len(order) : \A x : Parent(order, h, i, x) => Len(x) <= Len(y)
                     => Longest(order, h).route = order[1]
<1> DEFINE N == Len(order)
           none == [route |-> NoRoute, name |-> <<>>]
<1>1. PICK g : /\ Longest(order, h) = g[N]
               /\ g[0] = none
               /\ \A i \in 1..N : g[i] = Longer(order[i], h, g[i - 1])
  BY LongestSteps
<1> HIDE DEF N
<1>0. N \in Nat /\ \A i \in 1..N : Listed(order[i])
  BY DEF N
<1>2. none.name = <<>> /\ Len(none.name) = 0
  BY EmptySeq
<1> HIDE DEF none
<1>3. \A i \in 1..N : \A x : Parent(order, h, i, x) => Len(x) \in Nat /\ Len(x) > 0
  <2> SUFFICES ASSUME NEW i \in 1..N, NEW x \in Range(Names(order[i]))
               PROVE  Len(x) \in Nat /\ Len(x) > 0
    BY DEF Parent
  <2>1. Names(order[i]) \in Seq(Hosts)
    BY <1>0 DEF Listed
  <2>2. x \in Hosts
    BY <2>1, LenProperties, ElementOfSeq DEF Range
  <2> QED
    BY <2>2, HostFacts
<1>4. ASSUME NEW i \in 1..N, NEW b, Len(b.name) \in Nat
      PROVE  /\ \/ Longer(order[i], h, b) = b
                \/ /\ Longer(order[i], h, b).route = order[i]
                   /\ Parent(order, h, i, Longer(order[i], h, b).name)
                   /\ Len(Longer(order[i], h, b).name) > Len(b.name)
             /\ \A x : Parent(order, h, i, x) => Len(x) <= Len(Longer(order[i], h, b).name)
             /\ Len(Longer(order[i], h, b).name) \in Nat
             /\ Len(Longer(order[i], h, b).name) >= Len(b.name)
  <2> DEFINE l == Longer(order[i], h, b)
  <2>1. /\ \/ l = b
           \/ \E x \in Range(Names(order[i])) : /\ l = [route |-> order[i], name |-> x]
                                                /\ IsBelow(h, x) /\ Len(x) > Len(b.name)
        /\ \A x \in Range(Names(order[i])) : IsBelow(h, x) => Len(x) <= Len(l.name)
    BY <1>0, <1>4, LongerFacts
  <2> HIDE DEF l
  <2>2. \/ l = b
        \/ l.route = order[i] /\ Parent(order, h, i, l.name) /\ Len(l.name) > Len(b.name)
    BY <2>1 DEF Parent
  <2>3. \A x : Parent(order, h, i, x) => Len(x) <= Len(l.name)
    BY <2>1 DEF Parent
  <2>4. Len(l.name) \in Nat /\ Len(l.name) >= Len(b.name)
    BY <1>3, <1>4, <2>2
  <2> QED
    BY <2>2, <2>3, <2>4 DEF l
<1> DEFINE Found(n) == \/ g[n] = none
                       \/ \E i \in 1..N : g[n].route = order[i] /\ Parent(order, h, i, g[n].name)
           Best(n) == \A i \in 1..n : \A x : Parent(order, h, i, x) => Len(x) <= Len(g[n].name)
           T == {n \in Nat : n <= N => Len(g[n].name) \in Nat /\ Found(n) /\ Best(n)}
<1> HIDE DEF Found, Best
<1>5. 0 \in T
  BY <1>1, <1>2 DEF Found, Best
<1>6. ASSUME NEW n \in Nat, n \in T PROVE n + 1 \in T
  <2> SUFFICES ASSUME n + 1 <= N
               PROVE  Len(g[n + 1].name) \in Nat /\ Found(n + 1) /\ Best(n + 1)
    OBVIOUS
  <2>1. Len(g[n].name) \in Nat /\ Found(n) /\ Best(n)
    BY <1>0, <1>6
  <2>2. n + 1 \in 1..N /\ (n + 1) - 1 = n
    BY <1>0
  <2>3. g[n + 1] = Longer(order[n + 1], h, g[n])
    BY <1>1, <2>2
  <2>4. /\ \/ g[n + 1] = g[n]
           \/ g[n + 1].route = order[n + 1] /\ Parent(order, h, n + 1, g[n + 1].name)
        /\ \A x : Parent(order, h, n + 1, x) => Len(x) <= Len(g[n + 1].name)
        /\ Len(g[n + 1].name) \in Nat /\ Len(g[n + 1].name) >= Len(g[n].name)
    BY <1>4, <2>1, <2>2, <2>3
  <2>5. Found(n + 1)
    BY <2>1, <2>2, <2>4 DEF Found
  <2>6. Best(n + 1)
    <3> SUFFICES ASSUME NEW i \in 1..(n + 1), NEW x, Parent(order, h, i, x)
                 PROVE  Len(x) <= Len(g[n + 1].name)
      BY DEF Best
    <3>1. i \in 1..n \/ i = n + 1
      OBVIOUS
    <3>2. CASE i = n + 1
      BY <2>4, <3>2
    <3>3. CASE i \in 1..n
      <4>1. Len(x) <= Len(g[n].name)
        BY <2>1, <3>3 DEF Best
      <4>2. Len(x) \in Nat
        BY <1>0, <1>3, <2>2
      <4> QED
        BY <2>1, <2>4, <4>1, <4>2
    <3> QED
      BY <3>1, <3>2, <3>3
  <2> QED
    BY <2>4, <2>5, <2>6
<1> HIDE DEF T
<1>7. \A n \in Nat : n \in T
  BY <1>5, <1>6, SetInduction
<1>8. Found(N) /\ Best(N)
  BY <1>0, <1>7 DEF T
<1>9. ASSUME NEW y, N # 0, Parent(order, h, 1, y),
             \A i \in 1..N : \A x : Parent(order, h, i, x) => Len(x) <= Len(y)
      PROVE  g[N].route = order[1]
  <2> DEFINE U == {n \in Nat : n + 1 <= N =>
                      g[n + 1].route = order[1] /\ Len(g[n + 1].name) = Len(y)}
  <2>0. 1 \in 1..N /\ 1 - 1 = 0 /\ Len(y) \in Nat /\ Len(y) > 0
    BY <1>0, <1>3, <1>9
  <2>1. 0 \in U
    <3>1. g[1] = Longer(order[1], h, none)
      BY <1>1, <2>0
    <3>2. Len(none.name) \in Nat
      BY <1>2
    <3>3. /\ \/ g[1] = none
             \/ g[1].route = order[1] /\ Parent(order, h, 1, g[1].name)
          /\ Len(y) <= Len(g[1].name)
      BY <1>4, <1>9, <2>0, <3>1, <3>2
    <3>4. g[1] # none
      BY <1>2, <2>0, <3>3
    <3>5. Len(g[1].name) <= Len(y) /\ Len(g[1].name) \in Nat
      BY <1>3, <1>9, <2>0, <3>3, <3>4
    <3>6. g[1].route = order[1] /\ Len(g[1].name) = Len(y)
      BY <2>0, <3>3, <3>4, <3>5
    <3> QED
      BY <3>6
  <2>2. ASSUME NEW n \in Nat, n \in U PROVE n + 1 \in U
    <3> SUFFICES ASSUME (n + 1) + 1 <= N
                 PROVE  /\ g[(n + 1) + 1].route = order[1]
                        /\ Len(g[(n + 1) + 1].name) = Len(y)
      OBVIOUS
    <3> DEFINE j == (n + 1) + 1
    <3>1. j \in 1..N /\ j - 1 = n + 1 /\ n + 1 <= N
      BY <1>0
    <3>2. g[n + 1].route = order[1] /\ Len(g[n + 1].name) = Len(y)
      BY <2>2, <3>1
    <3> HIDE DEF j
    <3>3. g[j] = Longer(order[j], h, g[n + 1])
      BY <1>1, <3>1
    <3>4. \/ g[j] = g[n + 1]
          \/ Parent(order, h, j, g[j].name) /\ Len(g[j].name) > Len(y)
      BY <1>4, <2>0, <3>1, <3>2, <3>3
    <3>5. ~(Parent(order, h, j, g[j].name) /\ Len(g[j].name) > Len(y))
      <4>1. Parent(order, h, j, g[j].name) =>
               Len(g[j].name) \in Nat /\ Len(g[j].name) <= Len(y)
        BY <1>3, <1>9, <3>1
      <4> QED
        BY <2>0, <4>1
    <3> QED
      BY <3>2, <3>4, <3>5 DEF j
  <2> HIDE DEF U
  <2>3. \A n \in Nat : n \in U
    BY <2>1, <2>2, SetInduction
  <2>4. N - 1 \in Nat /\ (N - 1) + 1 = N
    BY <1>0, <1>9
  <2>5. N - 1 \in U
    BY <2>3, <2>4
  <2> QED
    BY <1>0, <2>4, <2>5 DEF U
<1>10. \A i \in 1..N : \A x : Parent(order, h, i, x) => Len(x) <= Len(g[N].name)
  BY <1>8 DEF Best
<1>11. \/ g[N] = none
       \/ \E i \in 1..N : g[N].route = order[i] /\ Parent(order, h, i, g[N].name)
  BY <1>8 DEF Found
<1> QED
  BY <1>1, <1>9, <1>10, <1>11 DEF N, none

-------------------------------------------------------------------------------
(* Orders, names and entries.                                                *)

(* The orders of a finite set: each has every element, there is one, and one *)
(* that begins with any given element.                                       *)
LEMMA OrderFacts ==
    ASSUME NEW S, IsFiniteSet(S)
    PROVE  /\ \A order \in SetToSeqs(S) :
                 /\ Len(order) \in Nat /\ DOMAIN order = 1..Len(order)
                 /\ \A i \in 1..Len(order) : order[i] \in S
                 /\ \A r \in S : \E i \in 1..Len(order) : order[i] = r
           /\ SetToSeqs(S) # {}
           /\ \A r \in S : \E order \in SetToSeqs(S) : Len(order) # 0 /\ order[1] = r
<1> DEFINE n == Cardinality(S)
           D == 1..n
<1>1. n \in Nat /\ ExistsBijection(D, S)
  BY FS_CardinalityType
<1> HIDE DEF n
<1>2. SetToSeqs(S) = {f \in [D -> S] : \A i, j \in D : i # j => f[i] # f[j]}
  BY DEF SetToSeqs, n
<1>3. ASSUME NEW order \in SetToSeqs(S)
      PROVE  /\ Len(order) = n /\ DOMAIN order = D
             /\ \A i \in D : order[i] \in S
             /\ \A r \in S : \E i \in D : order[i] = r
  <2>1. order \in [D -> S] /\ \A i, j \in D : i # j => order[i] # order[j]
    BY <1>2
  <2>2. order \in Injection(D, S)
    BY <2>1 DEF Injection, IsInjective
  <2>3. Len(order) = n /\ DOMAIN order = D
    BY <1>1, <2>1, LenProperties, SeqDef
  <2>4. IsFiniteSet(D) /\ Cardinality(D) = n
    BY <1>1, FS_Interval
  <2>5. order \in Surjection(D, S)
    BY <2>2, <2>4, FS_Injection DEF n
  <2> QED
    BY <2>1, <2>3, <2>5 DEF Surjection
<1>4. PICK f \in [D -> S] : /\ \A i, j \in D : f[i] = f[j] => i = j
                            /\ \A r \in S : \E i \in D : f[i] = r
  BY <1>1 DEF ExistsBijection, Bijection, Injection, Surjection, IsInjective
<1>5. f \in SetToSeqs(S)
  BY <1>2, <1>4
<1>6. ASSUME NEW r \in S PROVE \E order \in SetToSeqs(S) : Len(order) # 0 /\ order[1] = r
  <2>1. PICK k \in D : f[k] = r
    BY <1>4
  <2>2. n # 0 /\ 1 \in D
    BY <1>1, <2>1
  <2> DEFINE g == [i \in D |-> IF i = 1 THEN f[k] ELSE IF i = k THEN f[1] ELSE f[i]]
  <2>3. g \in [D -> S]
    BY <2>2
  <2>4. ASSUME NEW i \in D, NEW j \in D, i # j PROVE g[i] # g[j]
    <3>1. f[i] # f[j] /\ (i # k => f[i] # f[k]) /\ (j # k => f[j] # f[k])
      BY <1>4, <2>4
    <3>2. (i # 1 => f[i] # f[1]) /\ (j # 1 => f[j] # f[1]) /\ (k # 1 => f[k] # f[1])
      BY <1>4, <2>2
    <3> QED
      BY <2>2, <2>4, <3>1, <3>2
  <2>5. g[1] = r
    BY <2>1, <2>2
  <2> HIDE DEF g
  <2>6. g \in SetToSeqs(S)
    BY <1>2, <2>3, <2>4
  <2>7. Len(g) # 0
    BY <1>3, <2>2, <2>6
  <2> QED
    BY <2>5, <2>6, <2>7
<1> QED
  BY <1>1, <1>3, <1>5, <1>6

(* A name is longer than those it is below.                                  *)
LEMMA BelowIsLonger ==
    ASSUME NEW h \in Hosts, NEW x \in Hosts, IsBelow(h, x)
    PROVE  Len(x) < Len(h)
<1> DEFINE p == Reverse(x)
           q == Reverse(h)
<1>1. /\ x \in Seq(STRING) /\ h \in Seq(STRING)
      /\ Len(x) \in Nat /\ Len(h) \in Nat
  BY HostFacts
<1>2. /\ p = [i \in 1..Len(x) |-> x[(Len(x) - i) + 1]]
      /\ q = [i \in 1..Len(h) |-> h[(Len(h) - i) + 1]]
  BY DEF Reverse
<1> HIDE DEF p, q
<1>3. \A i \in 1..Len(x) : (Len(x) - i) + 1 \in 1..Len(x) /\ x[i] \in STRING
  BY <1>1, ElementOfSeq
<1>4. \A i \in 1..Len(h) : (Len(h) - i) + 1 \in 1..Len(h) /\ h[i] \in STRING
  BY <1>1, ElementOfSeq
<1>5. p \in Seq(STRING) /\ Len(p) = Len(x)
  <2>1. p \in [1..Len(x) -> STRING]
    BY <1>2, <1>3
  <2> QED
    BY <1>1, <2>1, SeqDef, LenProperties
<1>6. q \in Seq(STRING) /\ Len(q) = Len(h)
  <2>1. q \in [1..Len(h) -> STRING]
    BY <1>2, <1>4
  <2> QED
    BY <1>1, <2>1, SeqDef, LenProperties
<1>7. h # x /\ Len(p) <= Len(q) /\ SubSeq(p, 1, Len(p)) = SubSeq(q, 1, Len(p))
  BY DEF IsBelow, IsSuffix, IsPrefix, p, q
<1>8. CASE Len(x) = Len(h)
  <2>1. ASSUME NEW s \in Seq(STRING) PROVE SubSeq(s, 1, Len(s)) = s
    <3>1. Len(s) \in Nat /\ Len(s) \in 0..Len(s)
      BY LenProperties
    <3> DEFINE t == SubSeq(s, 1, Len(s))
    <3>2. /\ t \in Seq(STRING)
          /\ Len(t) = IF 1 <= Len(s) THEN Len(s) - 1 + 1 ELSE 0
          /\ \A i \in 1..(Len(s) - 1 + 1) : t[i] = s[1 + i - 1]
      BY <3>1, PieceFacts
    <3> HIDE DEF t
    <3>3. Len(t) = Len(s)
      BY <3>1, <3>2
    <3>4. ASSUME NEW i \in 1..Len(t) PROVE t[i] = s[i]
      <4>1. i \in 1..(Len(s) - 1 + 1) /\ 1 + i - 1 = i
        BY <3>1, <3>3
      <4> QED
        BY <3>2, <4>1
    <3>5. t = s
      BY <3>2, <3>3, <3>4, SeqEqual
    <3> QED
      BY <3>5 DEF t
  <2>2. p = q
    BY <1>5, <1>6, <1>7, <1>8, <2>1
  <2>3. ASSUME NEW i \in 1..Len(x) PROVE x[i] = h[i]
    <3> DEFINE j == (Len(x) - i) + 1
    <3>1. j \in 1..Len(x) /\ (Len(x) - j) + 1 = i /\ (Len(h) - j) + 1 = i /\ j \in 1..Len(h)
      BY <1>1, <1>8
    <3> HIDE DEF j
    <3>2. p[j] = x[i] /\ q[j] = h[i]
      BY <1>2, <3>1
    <3> QED
      BY <2>2, <3>2
  <2>4. x = h
    BY <1>1, <1>8, <2>3, SeqEqual
  <2> QED
    BY <1>7, <2>4
<1> QED
  BY <1>1, <1>5, <1>6, <1>7, <1>8

(* The names of a route are host names while the types are right.            *)
LEMMA NamesFacts ==
    ASSUME TypeOK, NEW r \in Registered
    PROVE  /\ Listed(r) /\ r \in Routes /\ table[r] \in Entry
           /\ Len(Names(r)) = table[r].len
           /\ \A i \in 1..table[r].len : Names(r)[i] = table[r].names[i]
           /\ Range(Names(r)) = {table[r].names[i] : i \in 1..table[r].len}
           /\ \A x : Contains(Names(r), x) <=> x \in Range(Names(r))
<1> DEFINE s == table[r].names
           n == table[r].len
           t == SubSeq(s, 1, n)
<1>1. r \in Routes /\ table[r] \in Entry
  BY DEF Registered, TypeOK
<1>2. s \in Seq(Hosts \cup {Torn}) /\ n \in Nat /\ n <= Len(s) /\ Len(s) \in Nat
      /\ \A i \in 1..n : s[i] \in Hosts
  BY <1>1, LenProperties DEF TypeOK, Entry
<1>3. Names(r) = t
  BY DEF Names
<1> HIDE DEF s, n
<1>4. /\ Len(t) = IF 1 <= n THEN n - 1 + 1 ELSE 0
      /\ \A i \in 1..(n - 1 + 1) : t[i] = s[1 + i - 1]
  BY <1>2, PieceFacts
<1>5. t \in Seq(Hosts)
  <2>1. 1 \in Int /\ n \in Int
    BY <1>2
  <2> QED
    BY <1>2, <2>1, SubSeqProperties
<1> HIDE DEF t
<1>6. Len(t) = n
  BY <1>2, <1>4
<1>7. ASSUME NEW i \in 1..n PROVE t[i] = s[i]
  <2>1. i \in 1..(n - 1 + 1) /\ 1 + i - 1 = i
    BY <1>2
  <2> QED
    BY <1>4, <2>1
<1>8. DOMAIN t = 1..n
  BY <1>5, <1>6, LenProperties
<1>9. Range(t) = {s[i] : i \in 1..n}
  BY <1>7, <1>8 DEF Range
<1>10. \A x : Contains(t, x) <=> x \in Range(t)
  BY <1>6, <1>7, <1>9 DEF Contains
<1> QED
  BY <1>1, <1>3, <1>5, <1>6, <1>7, <1>9, <1>10 DEF Listed, s, n

-------------------------------------------------------------------------------
(* Lookup's answers.                                                         *)

(* Route r has name x, which is h or, with the wildcard option, above it.    *)
Match(h, r, x) ==
    /\ r \in Registered /\ x \in Range(Names(r))
    /\ h # x => wildcard /\ IsBelow(h, x)

(* Route r has the longest of these names.                                   *)
Chosen(h, r) ==
    \E x \in Hosts :
        /\ Match(h, r, x)
        /\ \A q \in Registered, y \in Hosts :
              Match(h, q, y) => Len(y) <= Len(x)

(* Matches in terms of Match.                                                *)
LEMMA MatchesAre ==
    ASSUME TypeOK, NEW h \in Hosts
    PROVE  /\ Matches(h) = {} <=> \A r \in Registered, x \in Hosts : ~Match(h, r, x)
           /\ {m[1] : m \in {best \in Matches(h) :
                               \A o \in Matches(h) : Len(o[2]) <= Len(best[2])}}
                 = {r \in Registered : Chosen(h, r)}
<1>1. \A r \in Registered, x \in Hosts : <<r, x>> \in Matches(h) <=> Match(h, r, x)
  BY NamesFacts DEF Matches, Match
<1>2. \A m \in Matches(h) : /\ m = <<m[1], m[2]>> /\ m[1] \in Registered /\ m[2] \in Hosts
                            /\ Match(h, m[1], m[2])
  <2>1. ASSUME NEW m \in Matches(h)
        PROVE  m = <<m[1], m[2]>> /\ m[1] \in Registered /\ m[2] \in Hosts
    BY DEF Matches
  <2> QED
    BY <1>1, <2>1
<1> DEFINE Longs == {best \in Matches(h) : \A o \in Matches(h) : Len(o[2]) <= Len(best[2])}
<1>3. ASSUME NEW m \in Longs PROVE m[1] \in {r \in Registered : Chosen(h, r)}
  <2>1. m[1] \in Registered /\ m[2] \in Hosts /\ Match(h, m[1], m[2])
    BY <1>2
  <2>2. ASSUME NEW q \in Registered, NEW y \in Hosts, Match(h, q, y)
        PROVE  Len(y) <= Len(m[2])
    <3>1. <<q, y>> \in Matches(h)
      BY <1>1, <2>2
    <3>2. Len(<<q, y>>[2]) <= Len(m[2])
      BY <3>1
    <3> QED
      BY <3>2
  <2> QED
    BY <2>1, <2>2 DEF Chosen
<1>4. ASSUME NEW r \in Registered, Chosen(h, r) PROVE \E m \in Longs : m[1] = r
  <2>1. PICK x \in Hosts : /\ Match(h, r, x)
                           /\ \A q \in Registered, y \in Hosts :
                                 Match(h, q, y) => Len(y) <= Len(x)
    BY <1>4 DEF Chosen
  <2>2. <<r, x>> \in Matches(h) /\ <<r, x>>[1] = r /\ <<r, x>>[2] = x
    BY <1>1, <2>1
  <2>3. \A o \in Matches(h) : Len(o[2]) <= Len(x)
    BY <1>2, <2>1
  <2> QED
    BY <2>2, <2>3
<1> QED
  <2>1. Matches(h) = {} <=> \A r \in Registered, x \in Hosts : ~Match(h, r, x)
    BY <1>1, <1>2
  <2>2. {m[1] : m \in Longs} = {r \in Registered : Chosen(h, r)}
    <3> HIDE DEF Longs
    <3> QED
      BY <1>3, <1>4
  <2> QED
    BY <2>1, <2>2

(* The smallest index.                                                       *)
LEMMA FirstIndex ==
    ASSUME NEW n \in Nat, NEW S, S \subseteq 1..n, S # {}
    PROVE  Min(S) \in S /\ \A i \in S : Min(S) <= i
<1>1. S \subseteq Nat
  OBVIOUS
<1>2. \E m \in S : \A i \in S : m <= i
  BY <1>1, LeastNumber
<1> QED
  BY <1>2 DEF Min

(* Lookup's answer for one order, and the answers for an order that begins   *)
(* with a route that may be chosen.                                          *)
LEMMA LookupFacts ==
    ASSUME TypeOK, NEW h \in Hosts, NEW order \in SetToSeqs(Registered)
    PROVE  /\ Lookup(order, h) \in Registered \cup {NoRoute}
           /\ (\E r \in Registered, x \in Hosts : Match(h, r, x))
                 => Chosen(h, Lookup(order, h)) /\ Lookup(order, h) \in Registered
           /\ (\A r \in Registered, x \in Hosts : ~Match(h, r, x)) => Lookup(order, h) = NoRoute
           /\ Len(order) # 0 /\ Chosen(h, order[1]) => Lookup(order, h) = order[1]
<1> DEFINE n == Len(order)
           exact == {i \in DOMAIN order : order[i] \in Named(h)}
<1>0. /\ n \in Nat /\ DOMAIN order = 1..n
      /\ \A i \in 1..n : order[i] \in Registered
      /\ \A r \in Registered : \E i \in 1..n : order[i] = r
  <2>1. IsFiniteSet(Registered)
    <3>1. Registered \subseteq Routes
      BY DEF Registered
    <3> QED
      BY <3>1, RoutesAssumption, FS_Subset
  <2> QED
    BY <2>1, OrderFacts
<1>1. \A r \in Registered : Listed(r) /\ \A x \in Range(Names(r)) : x \in Hosts
  <2> SUFFICES ASSUME NEW r \in Registered
               PROVE  Listed(r) /\ \A x \in Range(Names(r)) : x \in Hosts
    OBVIOUS
  <2>1. Listed(r)
    BY NamesFacts
  <2> QED
    BY <2>1, LenProperties, ElementOfSeq DEF Listed, Range
<1>2. \A r \in Registered : r \in Named(h) <=> Match(h, r, h)
  BY NamesFacts DEF Named, Match
<1>3. Named(h) \subseteq Registered
  BY DEF Named
<1>4. \A x \in Hosts : Len(x) \in Nat /\ Len(x) > 0
  BY HostFacts
<1>5. \A x \in Hosts : IsBelow(h, x) => Len(x) < Len(h) /\ x # h
  BY BelowIsLonger DEF IsBelow
<1>6. NoRoute \notin Registered
  BY RoutesAssumption DEF Registered
<1> HIDE DEF n
<1>7. CASE exact # {}
  <2>1. Lookup(order, h) = order[Min(exact)]
    BY <1>7 DEF Lookup
  <2>2. exact \subseteq 1..n
    BY <1>0
  <2> HIDE DEF exact
  <2>3. Min(exact) \in exact /\ \A i \in exact : Min(exact) <= i
    BY <1>0, <1>7, <2>2, FirstIndex
  <2>4. Lookup(order, h) \in Named(h)
    BY <2>1, <2>3 DEF exact
  <2>5. \A q \in Registered, y \in Hosts : Match(h, q, y) => Len(y) <= Len(h)
    BY <1>4, <1>5 DEF Match
  <2>6. Match(h, Lookup(order, h), h)
    BY <1>2, <1>3, <2>4
  <2>7. Chosen(h, Lookup(order, h)) /\ Lookup(order, h) \in Registered
    BY <1>3, <2>4, <2>5, <2>6 DEF Chosen
  <2>8. ASSUME n # 0, Chosen(h, order[1]) PROVE Lookup(order, h) = order[1]
    <3>1. PICK x \in Hosts : /\ Match(h, order[1], x)
                             /\ \A q \in Registered, y \in Hosts :
                                   Match(h, q, y) => Len(y) <= Len(x)
      BY <2>8 DEF Chosen
    <3>2. Len(h) <= Len(x)
      BY <2>6, <2>7, <3>1
    <3>3. x = h
      BY <1>4, <1>5, <3>1, <3>2 DEF Match
    <3>4. 1 \in 1..n
      BY <1>0, <2>8
    <3>5. 1 \in exact
      BY <1>0, <1>2, <3>1, <3>3, <3>4 DEF exact
    <3>6. Min(exact) = 1
      <4> DEFINE m == Min(exact)
      <4>1. m \in 1..n /\ m <= 1
        BY <2>2, <2>3, <3>5
      <4> HIDE DEF m
      <4>2. m = 1
        BY <1>0, <4>1
      <4> QED
        BY <4>2 DEF m
    <3> QED
      BY <2>1, <3>6
  <2> QED
    BY <2>6, <2>7, <2>8 DEF n
<1>8. CASE exact = {}
  <2>1. \A r \in Registered : ~Match(h, r, h)
    BY <1>0, <1>2, <1>8
  <2>2. CASE ~wildcard
    <3>1. Lookup(order, h) = NoRoute
      BY <1>8, <2>2 DEF Lookup
    <3>2. \A r \in Registered, x \in Hosts : ~Match(h, r, x)
      BY <2>1, <2>2 DEF Match
    <3>3. \A r : ~Chosen(h, r)
      BY <3>2 DEF Chosen, Match
    <3> QED
      BY <3>1, <3>2, <3>3
  <2>3. CASE wildcard
    <3> DEFINE l == Longest(order, h)
    <3>1. Lookup(order, h) = l.route
      BY <1>8, <2>3 DEF Lookup
    <3>2. /\ \/ l = [route |-> NoRoute, name |-> <<>>]
             \/ \E i \in 1..n : l.route = order[i] /\ Parent(order, h, i, l.name)
          /\ \A i \in 1..n : \A x : Parent(order, h, i, x) => Len(x) <= Len(l.name)
          /\ \A y : /\ n # 0
                    /\ Parent(order, h, 1, y)
                    /\ \A i \in 1..n : \A x : Parent(order, h, i, x) => Len(x) <= Len(y)
                    => l.route = order[1]
      <4>1. Len(order) \in Nat /\ \A i \in 1..Len(order) : Listed(order[i])
        BY <1>0, <1>1 DEF n
      <4> HIDE DEF l
      <4> QED
        BY <4>1, LongestFacts DEF l, n
    <3> HIDE DEF l
    <3>3. \A i \in 1..n : \A x : Parent(order, h, i, x) <=> x \in Hosts /\ Match(h, order[i], x)
      BY <1>0, <1>1, <1>5, <2>1, <2>3 DEF Parent, Match
    <3>4. CASE \E i \in 1..n : l.route = order[i] /\ Parent(order, h, i, l.name)
      <4>1. PICK i \in 1..n : l.route = order[i] /\ Parent(order, h, i, l.name)
        BY <3>4
      <4>2. l.name \in Hosts /\ Match(h, l.route, l.name) /\ l.route \in Registered
        BY <1>0, <3>3, <4>1
      <4>3. \A q \in Registered, y \in Hosts : Match(h, q, y) => Len(y) <= Len(l.name)
        BY <1>0, <3>2, <3>3
      <4>4. Chosen(h, l.route)
        BY <4>2, <4>3 DEF Chosen
      <4>5. ASSUME n # 0, Chosen(h, order[1]) PROVE l.route = order[1]
        <5>1. PICK x \in Hosts : /\ Match(h, order[1], x)
                                 /\ \A q \in Registered, y \in Hosts :
                                       Match(h, q, y) => Len(y) <= Len(x)
          BY <4>5 DEF Chosen
        <5>2. 1 \in 1..n
          BY <1>0, <4>5
        <5>3. Parent(order, h, 1, x)
          BY <3>3, <5>1, <5>2
        <5>4. \A j \in 1..n : \A y : Parent(order, h, j, y) => Len(y) <= Len(x)
          BY <1>0, <3>3, <5>1
        <5> QED
          BY <3>2, <4>5, <5>3, <5>4
      <4> QED
        BY <3>1, <4>2, <4>4, <4>5 DEF n
    <3>5. CASE l = [route |-> NoRoute, name |-> <<>>]
      <4>1. l.route = NoRoute /\ l.name = <<>> /\ Len(l.name) = 0
        BY <3>5, EmptySeq
      <4>2. ASSUME NEW r \in Registered, NEW x \in Hosts PROVE ~Match(h, r, x)
        <5>1. PICK i \in 1..n : order[i] = r
          BY <1>0
        <5>2. Match(h, r, x) => Len(x) <= Len(l.name)
          BY <3>2, <3>3, <5>1
        <5> QED
          BY <1>4, <4>1, <5>2
      <4>3. \A r : ~Chosen(h, r)
        BY <4>2 DEF Chosen, Match
      <4> QED
        BY <3>1, <4>1, <4>2, <4>3
    <3> QED
      BY <3>2, <3>4, <3>5
  <2> QED
    BY <2>2, <2>3
<1> QED
  BY <1>7, <1>8

(* The answers are routes of the table, or none.                             *)
LEMMA AnswersType ==
    ASSUME TypeOK, NEW h \in Hosts, NEW r \in Answers(h)
    PROVE  r \in Registered \cup {NoRoute}
BY LookupFacts DEF Answers

(* Lookup's answers are the routes with the longest name, and all of them.   *)
LEMMA AnswersAreLongest ==
    ASSUME TypeOK
    PROVE  LookupIsLongest
<1> SUFFICES ASSUME NEW h \in Hosts
             PROVE  Answers(h) =
                      IF Matches(h) = {} THEN {NoRoute}
                      ELSE {m[1] : m \in {best \in Matches(h) :
                                           \A o \in Matches(h) : Len(o[2]) <= Len(best[2])}}
  BY DEF LookupIsLongest
<1>0. IsFiniteSet(Registered)
  <2>1. Registered \subseteq Routes
    BY DEF Registered
  <2> QED
    BY <2>1, RoutesAssumption, FS_Subset
<1>1. CASE Matches(h) = {}
  <2>1. \A r \in Registered, x \in Hosts : ~Match(h, r, x)
    BY <1>1, MatchesAre
  <2>2. \A order \in SetToSeqs(Registered) : Lookup(order, h) = NoRoute
    BY <2>1, LookupFacts
  <2>3. SetToSeqs(Registered) # {}
    BY <1>0, OrderFacts
  <2>4. Answers(h) = {NoRoute}
    BY <2>2, <2>3 DEF Answers
  <2> QED
    BY <1>1, <2>4
<1>2. CASE Matches(h) # {}
  <2>1. \E r \in Registered, x \in Hosts : Match(h, r, x)
    BY <1>2, MatchesAre
  <2>2. \A order \in SetToSeqs(Registered) :
           Chosen(h, Lookup(order, h)) /\ Lookup(order, h) \in Registered
    BY <2>1, LookupFacts
  <2>3. ASSUME NEW r \in Registered, Chosen(h, r) PROVE r \in Answers(h)
    <3>1. PICK order \in SetToSeqs(Registered) : Len(order) # 0 /\ order[1] = r
      BY <1>0, OrderFacts
    <3>2. Lookup(order, h) = r
      BY <2>3, <3>1, LookupFacts
    <3> QED
      BY <3>2 DEF Answers
  <2>4. Answers(h) = {r \in Registered : Chosen(h, r)}
    BY <2>2, <2>3 DEF Answers
  <2> QED
    BY <1>2, <2>4, MatchesAre
<1> QED
  BY <1>1, <1>2

-------------------------------------------------------------------------------
(* The inductive invariant.                                                  *)

(* A list of kept values is not longer than the list.                        *)
LEMMA OnlyIsShorter ==
    ASSUME NEW Value, NEW s \in Seq(Value), NEW keep
    PROVE  Len(Only(s, keep)) \in Nat /\ Len(Only(s, keep)) <= Len(s)
<1> DEFINE g == OnlySteps(s, keep)
           S == {n \in Nat : n <= Len(s) => Len(g[n]) <= n}
<1>0. Len(s) \in Nat
  BY LenProperties
<1>1. /\ g[0] = <<>>
      /\ \A i \in 1..Len(s) : g[i] = IF s[i] \in keep THEN Append(g[i - 1], s[i]) ELSE g[i - 1]
      /\ \A i \in 0..Len(s) : g[i] \in Seq(Value \cap keep)
  BY OnlyStepsAre, OnlyStepsType
<1> HIDE DEF g
<1>2. 0 \in S
  BY <1>1, EmptySeq
<1>3. ASSUME NEW n \in Nat, n \in S PROVE n + 1 \in S
  <2> SUFFICES ASSUME n + 1 <= Len(s) PROVE Len(g[n + 1]) <= n + 1
    OBVIOUS
  <2>1. n + 1 \in 1..Len(s) /\ (n + 1) - 1 = n /\ n \in 0..Len(s)
    BY <1>0
  <2>2. g[n] \in Seq(Value \cap keep) /\ Len(g[n]) <= n /\ Len(g[n]) \in Nat
    BY <1>0, <1>1, <1>3, <2>1, LenProperties
  <2>3. CASE s[n + 1] \in keep
    <3>1. s[n + 1] \in Value \cap keep
      BY <2>1, <2>3, ElementOfSeq
    <3>2. g[n + 1] = Append(g[n], s[n + 1])
      BY <1>1, <2>1, <2>3
    <3>3. Len(g[n + 1]) = Len(g[n]) + 1
      BY <2>2, <3>1, <3>2, AppendProperties
    <3> QED
      BY <2>2, <3>3
  <2>4. CASE s[n + 1] \notin keep
    <3>1. g[n + 1] = g[n]
      BY <1>1, <2>1, <2>4
    <3> QED
      BY <2>2, <3>1
  <2> QED
    BY <2>3, <2>4
<1> HIDE DEF S
<1>4. Len(s) \in S
  BY <1>0, <1>2, <1>3, SetInduction
<1>5. g[Len(s)] \in Seq(Value \cap keep) /\ Len(g[Len(s)]) <= Len(s)
  BY <1>0, <1>1, <1>4 DEF S
<1>6. Len(g[Len(s)]) \in Nat
  BY <1>5, LenProperties
<1> QED
  BY <1>5, <1>6 DEF Only, g

(* The parts of the types: what the table holds, and what a client holds.    *)
Good(e) ==
    /\ e \in Entry /\ e.len <= Len(e.names)
    /\ \A i \in 1..e.len : e.names[i] \in Hosts

EntriesOK ==
    /\ table \in [Routes -> Entry \cup {NoRoute}]
    /\ \A r \in Registered : Good(table[r])
    /\ edit \in Writes \cup {NoEdit}
    /\ edit # NoEdit => edit.route \in Registered

ClientOK ==
    /\ phase \in {"idle", "listed", "connected"} \cup InFlight \cup Scanning \cup Ended
    /\ host \in Hosts /\ route \in Routes \cup {NoRoute}
    /\ depth \in 0..MaxDepth
    /\ cert \in [base : Hosts, wild : BOOLEAN]

ReaderOK ==
    /\ scan \in Slice
    /\ seen \in Seq(Hosts \cup {Torn}) /\ (phase \in Scanning => Len(seen) <= scan.len)
    /\ had \in SUBSET Hosts /\ kept \in SUBSET Hosts /\ shifted \in BOOLEAN

(* The types are right when their parts are.                                 *)
LEMMA TypeParts ==
    /\ TypeOK <=> wildcard \in BOOLEAN /\ EntriesOK /\ ClientOK /\ ReaderOK
    /\ TypeOK' <=> wildcard' \in BOOLEAN /\ EntriesOK' /\ ClientOK' /\ ReaderOK'
<1>1. TypeOK => wildcard \in BOOLEAN /\ EntriesOK /\ ClientOK /\ ReaderOK
  <2> SUFFICES ASSUME TypeOK PROVE wildcard \in BOOLEAN /\ EntriesOK /\ ClientOK /\ ReaderOK
    OBVIOUS
  <2>1. wildcard \in BOOLEAN /\ ClientOK /\ ReaderOK
    BY DEF TypeOK, ClientOK, ReaderOK
  <2>2. \A r \in Registered : table[r] \in Entry
    BY DEF TypeOK, Registered
  <2> QED
    BY <2>1, <2>2 DEF TypeOK, EntriesOK, Good
<1>2. wildcard \in BOOLEAN /\ EntriesOK /\ ClientOK /\ ReaderOK => TypeOK
  BY DEF TypeOK, EntriesOK, Good, ClientOK, ReaderOK
<1>3. TypeOK' => wildcard' \in BOOLEAN /\ EntriesOK' /\ ClientOK' /\ ReaderOK'
  <2> SUFFICES ASSUME TypeOK' PROVE wildcard' \in BOOLEAN /\ EntriesOK' /\ ClientOK' /\ ReaderOK'
    OBVIOUS
  <2>1. wildcard' \in BOOLEAN /\ ClientOK' /\ ReaderOK'
    BY DEF TypeOK, ClientOK, ReaderOK
  <2>2. \A r \in Registered' : table'[r] \in Entry
    BY DEF TypeOK, Registered
  <2> QED
    BY <2>1, <2>2 DEF TypeOK, EntriesOK, Good
<1>4. wildcard' \in BOOLEAN /\ EntriesOK' /\ ClientOK' /\ ReaderOK' => TypeOK'
  BY DEF TypeOK, EntriesOK, Good, ClientOK, ReaderOK
<1> QED
  BY <1>1, <1>2, <1>3, <1>4

(* The writes that are left go to the array of the route they are for, and   *)
(* those made so far are in it.                                              *)
EditInv ==
    edit # NoEdit =>
        /\ edit.at \in 1..(Len(edit.target) + 1)
        /\ Len(edit.target) <= Len(table[edit.route].names)
        /\ \A i \in 1..(edit.at - 1) : table[edit.route].names[i] = edit.target[i]

(* The reader's slice lies within its array and holds names the route had,   *)
(* and a writer of that array puts such names into it, behind the slice      *)
(* unless it removes one.                                                    *)
ScanInv ==
    phase \in Scanning =>
        /\ scan.shared => route \in Registered
        /\ scan.len <= Len(Array)
        /\ \A i \in 1..scan.len : Array[i] \in had
        /\ edit # NoEdit /\ scan.shared /\ edit.route = route =>
              /\ Range(edit.target) \subseteq had
              /\ edit.at > scan.len \/ shifted

(* As long as no name is removed, the slice does not change under the        *)
(* reader: it has all names that were kept, and was read as it is.           *)
SteadyInv ==
    phase \in Scanning /\ ~shifted =>
        /\ scan.shared => scan.len <= table[route].len
        /\ kept \subseteq {Array[i] : i \in 1..scan.len}
        /\ \A i \in 1..Len(seen) : seen[i] = Array[i]

Inv ==
    /\ TypeOK /\ EditInv /\ ScanInv /\ SteadyInv
    /\ CertificateCoversHost /\ OnlyOwnNamesAreRead /\ KeptNamesAreListed

(* The daemon starts with no route and a client at rest.                     *)
LEMMA InitInv == Init => Inv
<1> SUFFICES ASSUME Init PROVE Inv
  OBVIOUS
<1>1. AnyHost \in Hosts
  BY HostAssumption DEF AnyHost
<1>2. Registered = {}
  BY DEF Init, Registered
<1>3. EntriesOK
  BY <1>2 DEF Init, EntriesOK
<1>4. ClientOK
  BY <1>1 DEF Init, ClientOK, NoCert, MaxDepth
<1>5. ReaderOK
  <2>1. <<>> \in Seq(Hosts \cup {Torn})
    BY EmptySeq
  <2> QED
    BY <2>1 DEF Init, ReaderOK, NoScan, Slice, Scanning
<1>6. TypeOK
  BY <1>3, <1>4, <1>5, TypeParts DEF Init
<1>7. EditInv /\ ScanInv /\ SteadyInv
  BY DEF Init, EditInv, ScanInv, SteadyInv, Scanning
<1>8. CertificateCoversHost /\ OnlyOwnNamesAreRead /\ KeptNamesAreListed
  BY DEF Init, CertificateCoversHost, OnlyOwnNamesAreRead, KeptNamesAreListed, Scanning
<1> QED
  BY <1>6, <1>7, <1>8 DEF Inv

(* What is told of clients that do not read does not change when only the    *)
(* history grows.                                                            *)
LEMMA HistoryGrows ==
    ASSUME Inv, UNCHANGED <<phase, host, cert, seen>>,
           had \subseteq had', kept' \subseteq kept, shifted => shifted',
           phase \notin Scanning => UNCHANGED <<had, kept, shifted>>
    PROVE  CertificateCoversHost' /\ OnlyOwnNamesAreRead' /\ KeptNamesAreListed'
<1>1. CertificateCoversHost'
  BY DEF Inv, CertificateCoversHost, Scanning
<1>2. OnlyOwnNamesAreRead'
  BY DEF Inv, OnlyOwnNamesAreRead
<1>3. KeptNamesAreListed'
  BY DEF Inv, KeptNamesAreListed, Scanning
<1> QED
  BY <1>1, <1>2, <1>3

(* The entry of a route is replaced, or dropped: a reader keeps the array.   *)
LEMMA EntryReplaced ==
    ASSUME Inv, NEW r \in Routes, NEW e, e = NoRoute \/ Good(e),
           edit = NoEdit, edit' = NoEdit,
           table' = [table EXCEPT ![r] = e], Leave(r),
           UNCHANGED <<wildcard, phase, host, route, depth, cert, seen>>,
           had \subseteq had', had' \subseteq Hosts, kept' \subseteq kept, shifted' = shifted,
           phase \notin Scanning => UNCHANGED <<had, kept, shifted>>
    PROVE  Inv'
<1>0. TypeOK /\ EntriesOK /\ ClientOK /\ ReaderOK /\ ScanInv /\ SteadyInv
  BY TypeParts DEF Inv
<1>1. EntriesOK'
  <2>1. table' \in [Routes -> Entry \cup {NoRoute}]
    BY <1>0 DEF EntriesOK, Good
  <2>2. ASSUME NEW q \in Registered' PROVE Good(table'[q])
    <3>1. q \in Routes /\ table'[q] # NoRoute
      BY <2>2 DEF Registered
    <3>2. q # r => table'[q] = table[q] /\ q \in Registered
      BY <1>0, <3>1 DEF EntriesOK, Registered
    <3>3. q = r => table'[q] = e
      BY <1>0 DEF EntriesOK
    <3> QED
      BY <1>0, <3>1, <3>2, <3>3 DEF EntriesOK
  <2>3. \A q \in Registered' : Good(table'[q])
    BY <2>2
  <2> QED
    BY <2>1, <2>3 DEF EntriesOK, Good
<1>2. ClientOK'
  BY <1>0 DEF ClientOK
<1>3. phase \in Scanning =>
         /\ scan' \in Slice /\ scan'.len = scan.len /\ Array' = Array
         /\ scan'.shared => scan.shared /\ route # r /\ table'[route] = table[route]
                            /\ route \in Registered'
  <2> SUFFICES ASSUME phase \in Scanning
               PROVE  /\ scan' \in Slice /\ scan'.len = scan.len /\ Array' = Array
                      /\ scan'.shared => scan.shared /\ route # r /\ table'[route] = table[route]
                                         /\ route \in Registered'
    OBVIOUS
  <2>1. scan.shared => route \in Registered
    BY <1>0 DEF ScanInv
  <2>2. CASE scan.shared /\ route = r
    <3>1. scan' = [scan EXCEPT !.shared = FALSE, !.names = table[r].names]
      BY <2>2 DEF Leave, IsRead
    <3>2. table[r].names \in Seq(Hosts \cup {Torn})
      BY <1>0, <2>1, <2>2 DEF EntriesOK, Good, Entry
    <3>3. scan' \in Slice /\ scan'.len = scan.len /\ ~scan'.shared /\ scan'.names = table[r].names
      BY <1>0, <3>1, <3>2 DEF ReaderOK, Slice
    <3> QED
      BY <2>2, <3>3 DEF Array
  <2>3. CASE ~(scan.shared /\ route = r)
    <3>1. scan' = scan
      BY <2>3 DEF Leave, IsRead
    <3>2. scan.shared => table'[route] = table[route] /\ route # r
      BY <1>0, <2>1, <2>3 DEF EntriesOK, Registered
    <3>3. scan' \in Slice /\ scan'.len = scan.len /\ (scan'.shared <=> scan.shared)
      BY <1>0, <3>1 DEF ReaderOK
    <3>4. Array' = Array
      BY <3>1, <3>2 DEF Array
    <3>5. scan.shared => route \in Registered'
      BY <2>1, <3>2 DEF Registered
    <3> QED
      BY <3>2, <3>3, <3>4, <3>5
  <2> QED
    BY <2>2, <2>3
<1>4. ReaderOK'
  <2>1. phase \notin Scanning => scan' = scan
    BY DEF Leave, IsRead
  <2>2. scan' \in Slice /\ (phase' \in Scanning => Len(seen') <= scan'.len)
    BY <1>0, <1>3, <2>1 DEF ReaderOK
  <2>3. had' \in SUBSET Hosts /\ kept' \in SUBSET Hosts /\ shifted' \in BOOLEAN
    BY <1>0 DEF ReaderOK
  <2> QED
    BY <1>0, <2>2, <2>3 DEF ReaderOK
<1>5. EditInv'
  BY DEF EditInv
<1>6. ScanInv'
  <2> SUFFICES ASSUME phase \in Scanning
               PROVE  /\ scan'.shared => route \in Registered'
                      /\ scan'.len <= Len(Array')
                      /\ \A i \in 1..scan'.len : Array'[i] \in had'
    BY DEF ScanInv
  <2> QED
    BY <1>0, <1>3 DEF ScanInv
<1>7. SteadyInv'
  <2> SUFFICES ASSUME phase \in Scanning, ~shifted
               PROVE  /\ scan'.shared => scan'.len <= table'[route].len
                      /\ kept' \subseteq {Array'[i] : i \in 1..scan'.len}
                      /\ \A i \in 1..Len(seen) : seen[i] = Array'[i]
    BY DEF SteadyInv
  <2> QED
    BY <1>0, <1>3 DEF SteadyInv
<1>8. CertificateCoversHost' /\ OnlyOwnNamesAreRead' /\ KeptNamesAreListed'
  BY HistoryGrows
<1>9. TypeOK'
  BY <1>0, <1>1, <1>2, <1>4, TypeParts DEF TypeOK
<1> QED
  BY <1>5, <1>6, <1>7, <1>8, <1>9 DEF Inv

-------------------------------------------------------------------------------
(* The writers of the table.                                                 *)

(* Writes in the array of a route begin, while the table is not yet changed. *)
LEMMA WritesBegin ==
    ASSUME Inv, NEW r \in Registered, NEW target \in Seq(Hosts), NEW at, NEW removed \in BOOLEAN,
           Locked, Begin(r, target, at), Watch(r, Range(target), removed),
           Len(target) <= Len(table[r].names),
           at \in 1..(Len(target) + 1),
           \A i \in 1..(at - 1) : table[r].names[i] = target[i],
           removed \/ at > table[r].len
    PROVE  Inv'
<1>0. TypeOK /\ EntriesOK /\ ClientOK /\ ReaderOK /\ ScanInv /\ SteadyInv
  BY TypeParts DEF Inv
<1>1. /\ edit = NoEdit /\ edit' = [route |-> r, target |-> target, at |-> at]
      /\ UNCHANGED <<table, scan, wildcard, phase, host, route, depth, cert, seen>>
  BY DEF Locked, Begin
<1>2. Registered' = Registered /\ Array' = Array
  BY <1>1 DEF Registered, Array
<1>3. r \in Routes /\ Len(target) \in Nat /\ at \in Nat
  <2>1. Len(target) \in Nat
    BY LenProperties
  <2> QED
    BY <2>1 DEF Registered
<1>4. /\ edit' \in Writes /\ edit' # NoEdit
      /\ edit'.route = r /\ edit'.target = target /\ edit'.at = at
  <2>1. edit' \in Writes
    BY <1>1, <1>3 DEF Writes
  <2> QED
    BY <1>1, <2>1, NothingAssumption
<1>5. EntriesOK'
  BY <1>0, <1>1, <1>2, <1>4 DEF EntriesOK, Good
<1>6. ClientOK'
  BY <1>0, <1>1 DEF ClientOK
<1>7. Range(target) \subseteq Hosts
  <2>1. \A i \in DOMAIN target : target[i] \in Hosts
    BY LenProperties, ElementOfSeq
  <2> QED
    BY <2>1 DEF Range
<1>8. /\ had \subseteq had' /\ had' \subseteq Hosts /\ kept' \subseteq kept
      /\ shifted => shifted'
      /\ phase \notin Scanning => UNCHANGED <<had, kept, shifted>>
      /\ phase \in Scanning /\ scan.shared /\ route = r =>
            Range(target) \subseteq had' /\ (removed => shifted')
  BY <1>0, <1>7 DEF Watch, IsRead, ReaderOK
<1>9. ReaderOK'
  <2>1. had' \in SUBSET Hosts /\ kept' \in SUBSET Hosts
    BY <1>0, <1>8 DEF ReaderOK
  <2>2. scan' \in Slice /\ seen' \in Seq(Hosts \cup {Torn})
        /\ (phase' \in Scanning => Len(seen') <= scan'.len)
    BY <1>0, <1>1 DEF ReaderOK
  <2>3. shifted' \in BOOLEAN
    <3>1. shifted \in BOOLEAN
      BY <1>0 DEF ReaderOK
    <3>2. shifted' = shifted \/ shifted' = (shifted \/ removed)
      BY DEF Watch
    <3> QED
      BY <3>1, <3>2
  <2> QED
    BY <2>1, <2>2, <2>3 DEF ReaderOK
<1>10. TypeOK'
  BY <1>0, <1>1, <1>5, <1>6, <1>9, TypeParts DEF TypeOK
<1>11. EditInv'
  BY <1>1, <1>4 DEF EditInv
<1>12. ScanInv'
  <2> SUFFICES ASSUME phase \in Scanning
               PROVE  /\ scan.shared => route \in Registered
                      /\ scan.len <= Len(Array)
                      /\ \A i \in 1..scan.len : Array[i] \in had'
                      /\ scan.shared /\ r = route =>
                            /\ Range(target) \subseteq had'
                            /\ at > scan.len \/ shifted'
    BY <1>1, <1>2, <1>4 DEF ScanInv
  <2>1. /\ scan.shared => route \in Registered
        /\ scan.len <= Len(Array)
        /\ \A i \in 1..scan.len : Array[i] \in had'
    BY <1>0, <1>8 DEF ScanInv
  <2>2. ASSUME scan.shared, r = route
        PROVE  Range(target) \subseteq had' /\ (at > scan.len \/ shifted')
    <3>1. CASE shifted \/ removed
      BY <1>8, <2>2, <3>1
    <3>2. CASE ~shifted /\ ~removed
      <4>1. scan.len <= table[r].len /\ table[r].len < at
        BY <1>0, <2>2, <3>2 DEF SteadyInv
      <4>2. scan.len \in Nat /\ table[r].len \in Nat
        BY <1>0 DEF ReaderOK, Slice, EntriesOK, Good, Entry
      <4>3. at > scan.len
        BY <1>3, <4>1, <4>2
      <4> QED
        BY <1>8, <2>2, <4>3
    <3> QED
      BY <3>1, <3>2
  <2> QED
    BY <2>1, <2>2
<1>13. SteadyInv'
  BY <1>0, <1>1, <1>2, <1>8 DEF SteadyInv
<1>14. CertificateCoversHost' /\ OnlyOwnNamesAreRead' /\ KeptNamesAreListed'
  BY <1>1, <1>8, HistoryGrows
<1> QED
  BY <1>10, <1>11, <1>12, <1>13, <1>14 DEF Inv

(* A route is registered, or registered anew.                                *)
LEMMA RegisterInv ==
    ASSUME Inv, NEW r \in Routes, Register(r)
    PROVE  Inv'
<1> DEFINE e == [names |-> Expansion[r], len |-> Len(Expansion[r])]
<1>1. Expansion[r] \in Seq(Hosts)
  BY ExpansionAssumption
<1>2. Good(e)
  <2>1. Len(Expansion[r]) \in Nat /\ \A i \in 1..Len(Expansion[r]) : Expansion[r][i] \in Hosts
    BY <1>1, LenProperties, ElementOfSeq
  <2>2. Expansion[r] \in Seq(Hosts \cup {Torn})
    BY <2>1, <1>1, AllInSet
  <2> QED
    BY <2>1, <2>2 DEF Good, Entry
<1>3. had \subseteq Hosts
  BY TypeParts DEF Inv, ReaderOK
<1>4. /\ table' = [table EXCEPT ![r] = e] /\ Leave(r) /\ edit = NoEdit /\ edit' = NoEdit
      /\ UNCHANGED <<wildcard, phase, host, route, depth, cert, seen, had, kept, shifted>>
  BY DEF Register, Locked
<1> HIDE DEF e
<1> QED
  BY <1>2, <1>3, <1>4, EntryReplaced

(* A route is removed.                                                       *)
LEMMA DeregisterInv ==
    ASSUME Inv, NEW r \in Routes, Deregister(r)
    PROVE  Inv'
<1>1. had \subseteq Hosts
  BY TypeParts DEF Inv, ReaderOK
<1>2. /\ table' = [table EXCEPT ![r] = NoRoute] /\ Leave(r) /\ edit = NoEdit /\ edit' = NoEdit
      /\ UNCHANGED <<wildcard, phase, host, route, depth, cert, seen, had, kept, shifted>>
  BY DEF Deregister, Locked
<1> QED
  BY <1>1, <1>2, EntryReplaced

(* The names of a route and one more.                                        *)
LEMMA OneMore ==
    ASSUME Inv, NEW r \in Registered, NEW h \in Hosts
    PROVE  /\ Append(Names(r), h) \in Seq(Hosts)
           /\ Len(Append(Names(r), h)) = table[r].len + 1
           /\ \A i \in 1..table[r].len : Append(Names(r), h)[i] = table[r].names[i]
           /\ table[r].len \in Nat
           /\ Range(Append(Names(r), h)) \subseteq Hosts
<1>0. TypeOK
  BY DEF Inv
<1>1. /\ Names(r) \in Seq(Hosts) /\ table[r].len \in Nat
      /\ Len(Names(r)) = table[r].len
      /\ \A i \in 1..table[r].len : Names(r)[i] = table[r].names[i]
  BY <1>0, NamesFacts DEF Listed, Entry
<1> DEFINE t == Append(Names(r), h)
<1>2. /\ t \in Seq(Hosts) /\ Len(t) = table[r].len + 1
      /\ \A i \in 1..table[r].len : t[i] = table[r].names[i]
  BY <1>1, AppendProperties
<1> HIDE DEF t
<1>3. \A i \in DOMAIN t : t[i] \in Hosts
  BY <1>2, LenProperties, ElementOfSeq
<1> QED
  BY <1>1, <1>2, <1>3 DEF t, Range

(* A name is added: behind the others in the array, or in a longer one.      *)
LEMMA AddHostnameInv ==
    ASSUME Inv, NEW r \in Routes, NEW h \in Hosts, AddHostname(r, h)
    PROVE  Inv'
<1> DEFINE t == Append(Names(r), h)
<1>0. TypeOK /\ EntriesOK /\ ReaderOK
  BY TypeParts DEF Inv
<1>1. r \in Registered /\ Locked /\ Watch(r, Range(t), FALSE)
  BY DEF AddHostname
<1>2. /\ t \in Seq(Hosts) /\ Len(t) = table[r].len + 1
      /\ \A i \in 1..table[r].len : t[i] = table[r].names[i]
      /\ table[r].len \in Nat /\ Range(t) \subseteq Hosts
  BY <1>1, OneMore
<1>3. /\ table[r].names \in Seq(Hosts \cup {Torn}) /\ Len(table[r].names) \in Nat
      /\ table[r].len <= Len(table[r].names)
  <2>1. Good(table[r])
    BY <1>0, <1>1 DEF EntriesOK
  <2> QED
    BY <2>1, LenProperties DEF Good, Entry
<1>4. CASE table[r].len < Len(table[r].names)
  <2> DEFINE at == table[r].len + 1
  <2>1. Begin(r, t, at)
    BY <1>4 DEF AddHostname
  <2> HIDE DEF t
  <2>2. /\ Len(t) <= Len(table[r].names)
        /\ at \in 1..(Len(t) + 1)
        /\ \A i \in 1..(at - 1) : table[r].names[i] = t[i]
        /\ at > table[r].len
    BY <1>2, <1>3, <1>4
  <2> HIDE DEF at
  <2>3. t \in Seq(Hosts) /\ FALSE \in BOOLEAN /\ (FALSE \/ at > table[r].len)
    BY <1>2, <2>2
  <2> QED
    BY <1>1, <2>1, <2>2, <2>3, WritesBegin, Zenon
<1>5. CASE ~(table[r].len < Len(table[r].names))
  <2> DEFINE blank == [i \in 1..(table[r].len - 1) |-> Torn]
             e == [names |-> t \o blank, len |-> table[r].len + 1]
  <2>1. /\ table' = [table EXCEPT ![r] = e] /\ Leave(r) /\ edit = NoEdit /\ edit' = NoEdit
        /\ UNCHANGED <<wildcard, phase, host, route, depth, cert, seen>>
    BY <1>1, <1>5 DEF AddHostname, Grow, Locked
  <2>2. blank \in Seq(Hosts \cup {Torn})
    <3>1. CASE table[r].len = 0
      <4>1. blank = <<>>
        BY <3>1
      <4> QED
        BY <4>1, EmptySeq
    <3>2. CASE table[r].len # 0
      <4>1. table[r].len - 1 \in Nat
        BY <1>2, <3>2
      <4>2. blank \in [1..(table[r].len - 1) -> Hosts \cup {Torn}]
        OBVIOUS
      <4> QED
        BY <4>1, <4>2, SeqDef
    <3> QED
      BY <3>1, <3>2
  <2>3. Good(e)
    <3> HIDE DEF t, blank
    <3>1. t \in Seq(Hosts \cup {Torn})
      <4>1. \A i \in 1..Len(t) : t[i] \in Hosts \cup {Torn}
        BY <1>2, ElementOfSeq
      <4> QED
        BY <1>2, <4>1, AllInSet
    <3>2. /\ t \o blank \in Seq(Hosts \cup {Torn})
          /\ Len(t \o blank) = Len(t) + Len(blank)
          /\ \A i \in 1..(Len(t) + Len(blank)) :
                (t \o blank)[i] = IF i <= Len(t) THEN t[i] ELSE blank[i - Len(t)]
      BY <2>2, <3>1, ConcatProperties
    <3>3. Len(blank) \in Nat /\ Len(t) \in Nat
      BY <2>2, <3>1, LenProperties
    <3>4. ASSUME NEW i \in 1..(table[r].len + 1) PROVE (t \o blank)[i] \in Hosts
      <4>1. i \in 1..Len(t) /\ i \in 1..(Len(t) + Len(blank)) /\ i <= Len(t)
        BY <1>2, <3>3
      <4>2. (t \o blank)[i] = t[i]
        BY <3>2, <4>1
      <4> QED
        BY <1>2, <4>1, <4>2, ElementOfSeq
    <3>5. table[r].len + 1 <= Len(t \o blank)
      BY <1>2, <3>2, <3>3
    <3> QED
      BY <1>2, <3>2, <3>4, <3>5 DEF Good, Entry
  <2> HIDE DEF e
  <2>4. /\ had \subseteq had' /\ had' \subseteq Hosts /\ kept' \subseteq kept /\ shifted' = shifted
        /\ phase \notin Scanning => UNCHANGED <<had, kept, shifted>>
    BY <1>0, <1>1, <1>2 DEF Watch, IsRead, ReaderOK
  <2> QED
    BY <2>1, <2>3, <2>4, EntryReplaced
<1> QED
  BY <1>4, <1>5

(* A name is removed: the others are moved to the front of the array.        *)
LEMMA RemoveHostnameInv ==
    ASSUME Inv, NEW r \in Routes, NEW h \in Hosts, RemoveHostname(r, h)
    PROVE  Inv'
<1> DEFINE rest == Only(Names(r), Hosts \ {h})
<1>0. TypeOK /\ EntriesOK
  BY TypeParts DEF Inv
<1>1. r \in Registered /\ Locked /\ Begin(r, rest, 1) /\ Watch(r, Range(rest), TRUE)
  BY DEF RemoveHostname
<1>2. Names(r) \in Seq(Hosts) /\ Len(Names(r)) = table[r].len
  BY <1>0, <1>1, NamesFacts DEF Listed
<1>3. rest \in Seq(Hosts) /\ Len(rest) \in Nat /\ Len(rest) <= table[r].len
  BY <1>2, OnlyOfValue, OnlyIsShorter
<1> HIDE DEF rest
<1>4. table[r].len <= Len(table[r].names) /\ table[r].len \in Nat /\ Len(table[r].names) \in Nat
  <2>1. Good(table[r])
    BY <1>0, <1>1 DEF EntriesOK
  <2> QED
    BY <2>1, LenProperties DEF Good, Entry
<1>5. /\ Len(rest) <= Len(table[r].names)
      /\ 1 \in 1..(Len(rest) + 1)
      /\ \A i \in 1..(1 - 1) : table[r].names[i] = rest[i]
  BY <1>3, <1>4
<1> QED
  BY <1>1, <1>3, <1>5, WritesBegin

(* One write of a writer, or its last, which sets the length.                *)
LEMMA EditStepInv ==
    ASSUME Inv, Edit
    PROVE  Inv'
<1> DEFINE r == edit.route
           target == edit.target
           at == edit.at
<1>0. TypeOK /\ EntriesOK /\ ClientOK /\ ReaderOK /\ EditInv /\ ScanInv /\ SteadyInv
  BY TypeParts DEF Inv
<1>1. /\ edit # NoEdit
      /\ UNCHANGED <<wildcard, phase, host, route, depth, cert, scan, seen, had, kept, shifted>>
  BY DEF Edit, scanVars
<1>2. /\ edit \in Writes /\ r \in Registered /\ r \in Routes
      /\ target \in Seq(Hosts) /\ at \in Nat /\ Len(target) \in Nat
  <2>1. edit \in Writes /\ r \in Registered
    BY <1>0, <1>1 DEF EntriesOK
  <2>2. target \in Seq(Hosts) /\ at \in Nat
    BY <2>1 DEF Writes
  <2> QED
    BY <2>1, <2>2, LenProperties DEF Registered
<1> DEFINE s == table[r].names
           n == table[r].len
<1>3. s \in Seq(Hosts \cup {Torn}) /\ n \in Nat /\ n <= Len(s) /\ Len(s) \in Nat
      /\ (\A i \in 1..n : s[i] \in Hosts)
      /\ table[r] = [names |-> s, len |-> n]
  <2>1. Good(table[r])
    BY <1>0, <1>2 DEF EntriesOK
  <2>2. s \in Seq(Hosts \cup {Torn}) /\ table[r] = [names |-> s, len |-> n]
    BY <2>1 DEF Good, Entry
  <2> QED
    BY <2>1, <2>2, LenProperties DEF Good, Entry
<1>4. /\ at \in 1..(Len(target) + 1) /\ Len(target) <= Len(s)
      /\ \A i \in 1..(at - 1) : s[i] = target[i]
  BY <1>0, <1>1 DEF EditInv
<1>5. ClientOK' /\ ReaderOK'
  BY <1>0, <1>1 DEF ClientOK, ReaderOK
<1>6. CertificateCoversHost' /\ OnlyOwnNamesAreRead' /\ KeptNamesAreListed'
  BY <1>1, HistoryGrows DEF Inv
<1>7. ASSUME NEW e, Good(e), table' = [table EXCEPT ![r] = e]
      PROVE  /\ table' \in [Routes -> Entry \cup {NoRoute}]
             /\ Registered' = Registered
             /\ \A q \in Registered' : Good(table'[q])
             /\ table'[r] = e
             /\ \A q \in Routes : q # r => table'[q] = table[q]
  <2>1. /\ table' \in [Routes -> Entry \cup {NoRoute}] /\ table'[r] = e
        /\ \A q \in Routes : q # r => table'[q] = table[q]
    BY <1>0, <1>2, <1>7 DEF EntriesOK, Good
  <2>2. e # NoRoute
    BY <1>7, NothingAssumption DEF Good
  <2>3. Registered' = Registered
    BY <1>2, <2>1, <2>2 DEF Registered
  <2>4. \A q \in Registered' : q \in Routes
    BY DEF Registered
  <2> QED
    BY <1>0, <1>7, <2>1, <2>3, <2>4 DEF EntriesOK
<1>8. CASE at <= Len(target)
  <2> DEFINE names == [s EXCEPT ![at] = target[at]]
             e == [names |-> names, len |-> n]
  <2>1. at \in 1..Len(target) /\ at \in 1..Len(s)
    BY <1>2, <1>3, <1>4, <1>8
  <2>2. target[at] \in Hosts /\ target[at] \in Range(target)
    BY <1>2, <2>1, ElementOfSeq, LenProperties DEF Range
  <2>3. /\ names \in Seq(Hosts \cup {Torn}) /\ Len(names) = Len(s)
        /\ names[at] = target[at]
        /\ \A i \in 1..Len(s) : i # at => names[i] = s[i]
    BY <1>3, <2>1, <2>2, ExceptSeq
  <2>4. table' = [table EXCEPT ![r] = e] /\ edit' = [edit EXCEPT !.at = at + 1]
    <3>1. table' = [table EXCEPT ![r].names[at] = target[at]]
      BY <1>8 DEF Edit
    <3>2. table' = [table EXCEPT ![r] = [table[r] EXCEPT !.names = names]]
      BY <3>1
    <3> HIDE DEF names
    <3>3. [table[r] EXCEPT !.names = names] = [names |-> names, len |-> n]
      BY <1>3
    <3>4. edit' = [edit EXCEPT !.at = at + 1]
      BY <1>8 DEF Edit
    <3> QED
      BY <3>2, <3>3, <3>4
  <2> HIDE DEF names
  <2>5. Good(e)
    <3>1. ASSUME NEW i \in 1..n PROVE names[i] \in Hosts
      BY <1>3, <2>2, <2>3
    <3> QED
      BY <1>3, <2>3, <3>1 DEF Good, Entry
  <2>6. e.names = names /\ e.len = n
    OBVIOUS
  <2> HIDE DEF e
  <2>7. /\ table' \in [Routes -> Entry \cup {NoRoute}]
        /\ Registered' = Registered
        /\ \A q \in Registered' : Good(table'[q])
        /\ table'[r] = e
        /\ \A q \in Routes : q # r => table'[q] = table[q]
    BY <1>7, <2>4, <2>5
  <2>8. edit' \in Writes /\ edit'.route = r /\ edit'.target = target /\ edit'.at = at + 1
    BY <1>2, <2>4 DEF Writes
  <2>9. EntriesOK'
    BY <1>2, <2>7, <2>8 DEF EntriesOK, Good
  <2>10. TypeOK'
    BY <1>0, <1>1, <1>5, <2>9, TypeParts DEF TypeOK
  <2>11. EditInv'
    <3>1. at + 1 \in 1..(Len(target) + 1) /\ Len(target) <= Len(names)
      BY <1>2, <1>4, <2>1, <2>3
    <3>2. ASSUME NEW i \in 1..(at + 1 - 1) PROVE names[i] = target[i]
      <4>1. i \in 1..Len(s) /\ (i # at => i \in 1..(at - 1))
        BY <1>2, <1>3, <2>1
      <4> QED
        BY <1>4, <2>3, <4>1
    <3>3. table'[r].names = names
      BY <2>6, <2>7
    <3> HIDE DEF r, target, at
    <3> DEFINE E == edit'
    <3>4. E.at = at + 1 /\ E.target = target /\ table'[E.route].names = names
      BY <2>8, <3>3
    <3> HIDE DEF E
    <3>5. /\ E.at \in 1..(Len(E.target) + 1)
          /\ Len(E.target) <= Len(table'[E.route].names)
      BY <3>1, <3>4
    <3>6. \A i \in 1..(E.at - 1) : table'[E.route].names[i] = E.target[i]
      BY <1>2, <3>2, <3>4
    <3> QED
      BY <3>5, <3>6 DEF EditInv, E
  <2>12. phase \in Scanning =>
            /\ Len(Array') = Len(Array)
            /\ IF scan.shared /\ route = r
               THEN \A i \in 1..Len(Array) : Array'[i] = IF i = at THEN target[at] ELSE Array[i]
               ELSE Array' = Array
    <3> SUFFICES ASSUME phase \in Scanning
                 PROVE  /\ Len(Array') = Len(Array)
                        /\ IF scan.shared /\ route = r
                           THEN \A i \in 1..Len(Array) :
                                   Array'[i] = IF i = at THEN target[at] ELSE Array[i]
                           ELSE Array' = Array
      OBVIOUS
    <3>1. scan.shared => route \in Routes
      BY <1>0 DEF ScanInv, Registered
    <3>2. CASE scan.shared /\ route = r
      <4>1. Array = s /\ Array' = names
        BY <1>1, <2>6, <2>7, <3>2 DEF Array
      <4> QED
        BY <2>3, <3>2, <4>1
    <3>3. CASE ~(scan.shared /\ route = r)
      <4>1. Array' = Array
        BY <1>1, <2>7, <3>1, <3>3 DEF Array
      <4> QED
        BY <3>3, <4>1
    <3> QED
      BY <3>2, <3>3
  <2>13. phase \in Scanning => scan.len \in Nat /\ scan.len <= Len(Array) /\ Len(Array) \in Nat
                               /\ Len(seen) \in Nat /\ Len(seen) <= scan.len
    <3> SUFFICES ASSUME phase \in Scanning
                 PROVE  scan.len \in Nat /\ scan.len <= Len(Array) /\ Len(Array) \in Nat
                        /\ Len(seen) \in Nat /\ Len(seen) <= scan.len
      OBVIOUS
    <3>1. scan.len \in Nat /\ scan.len <= Len(Array) /\ seen \in Seq(Hosts \cup {Torn})
          /\ Len(seen) <= scan.len
      BY <1>0 DEF ScanInv, ReaderOK, Slice
    <3>2. Array \in Seq(Hosts \cup {Torn})
      <4>1. scan.shared => Good(table[route])
        BY <1>0 DEF ScanInv, EntriesOK
      <4> QED
        BY <1>0, <4>1 DEF Array, Good, Entry, ReaderOK, Slice
    <3> QED
      BY <3>1, <3>2, LenProperties
  <2>14. ScanInv'
    <3> SUFFICES ASSUME phase \in Scanning
                 PROVE  /\ scan.shared => route \in Registered
                        /\ scan.len <= Len(Array')
                        /\ \A i \in 1..scan.len : Array'[i] \in had
                        /\ scan.shared /\ r = route =>
                              /\ Range(target) \subseteq had
                              /\ at + 1 > scan.len \/ shifted
      BY <1>1, <2>7, <2>8 DEF ScanInv
    <3>1. /\ scan.shared => route \in Registered
          /\ \A i \in 1..scan.len : Array[i] \in had
          /\ scan.shared /\ r = route =>
                /\ Range(target) \subseteq had
                /\ at > scan.len \/ shifted
      BY <1>0, <1>1 DEF ScanInv
    <3>2. ASSUME NEW i \in 1..scan.len PROVE Array'[i] \in had
      <4>1. i \in 1..Len(Array)
        BY <2>13
      <4> QED
        BY <2>2, <2>12, <3>1, <4>1
    <3>3. at > scan.len => at + 1 > scan.len
      BY <1>2, <2>13
    <3> QED
      BY <2>12, <2>13, <3>1, <3>2, <3>3
  <2>15. SteadyInv'
    <3> SUFFICES ASSUME phase \in Scanning, ~shifted
                 PROVE  /\ scan.shared => scan.len <= table'[route].len
                        /\ kept \subseteq {Array'[i] : i \in 1..scan.len}
                        /\ \A i \in 1..Len(seen) : seen[i] = Array'[i]
      BY <1>1 DEF SteadyInv
    <3>1. /\ scan.shared => scan.len <= table[route].len /\ route \in Routes
          /\ kept \subseteq {Array[i] : i \in 1..scan.len}
          /\ \A i \in 1..Len(seen) : seen[i] = Array[i]
      BY <1>0 DEF SteadyInv, ScanInv, Registered
    <3>2. scan.shared => scan.len <= table'[route].len
      BY <2>6, <2>7, <3>1
    <3>3. ASSUME NEW i \in 1..scan.len PROVE Array'[i] = Array[i]
      <4>1. i \in 1..Len(Array)
        BY <2>13
      <4>2. scan.shared /\ route = r => i # at
        <5>1. scan.shared /\ route = r => at > scan.len
          BY <1>0, <1>1 DEF ScanInv
        <5> QED
          BY <1>2, <2>13, <5>1
      <4> QED
        BY <2>12, <4>1, <4>2
    <3>4. \A i \in 1..Len(seen) : i \in 1..scan.len
      BY <2>13
    <3> QED
      BY <3>1, <3>2, <3>3, <3>4
  <2> QED
    BY <1>6, <2>10, <2>11, <2>14, <2>15 DEF Inv
<1>9. CASE ~(at <= Len(target))
  <2> DEFINE m == Len(target)
             e == [names |-> s, len |-> m]
  <2>1. at = m + 1
    BY <1>2, <1>4, <1>9
  <2>2. table' = [table EXCEPT ![r] = e] /\ edit' = NoEdit
    <3>1. table' = [table EXCEPT ![r].len = m] /\ edit' = NoEdit
      BY <1>9 DEF Edit
    <3>2. table' = [table EXCEPT ![r] = [table[r] EXCEPT !.len = m]]
      BY <3>1
    <3> HIDE DEF m
    <3>3. [table[r] EXCEPT !.len = m] = [names |-> s, len |-> m]
      BY <1>3
    <3> QED
      BY <3>1, <3>2, <3>3
  <2>3. Good(e)
    <3>1. ASSUME NEW i \in 1..m PROVE s[i] \in Hosts
      <4>1. s[i] = target[i]
        BY <1>2, <1>4, <2>1
      <4> QED
        BY <1>2, <4>1, ElementOfSeq
    <3> QED
      BY <1>2, <1>3, <1>4, <3>1 DEF Good, Entry
  <2>4. e.names = s /\ e.len = m
    OBVIOUS
  <2> HIDE DEF e
  <2>5. /\ table' \in [Routes -> Entry \cup {NoRoute}]
        /\ Registered' = Registered
        /\ \A q \in Registered' : Good(table'[q])
        /\ table'[r] = e
        /\ \A q \in Routes : q # r => table'[q] = table[q]
    BY <1>7, <2>2, <2>3
  <2>6. EntriesOK'
    BY <2>2, <2>5 DEF EntriesOK, Good
  <2>7. TypeOK'
    BY <1>0, <1>1, <1>5, <2>6, TypeParts DEF TypeOK
  <2>8. EditInv'
    BY <2>2 DEF EditInv
  <2>9. phase \in Scanning => Array' = Array
    <3>1. phase \in Scanning /\ scan.shared => route \in Routes
      BY <1>0 DEF ScanInv, Registered
    <3>2. phase \in Scanning /\ scan.shared => table'[route].names = table[route].names
      BY <2>4, <2>5, <3>1
    <3> QED
      BY <1>1, <3>2 DEF Array
  <2>10. ScanInv'
    BY <1>0, <1>1, <2>2, <2>5, <2>9 DEF ScanInv
  <2>11. SteadyInv'
    <3> SUFFICES ASSUME phase \in Scanning, ~shifted
                 PROVE  /\ scan.shared => scan.len <= table'[route].len
                        /\ kept \subseteq {Array[i] : i \in 1..scan.len}
                        /\ \A i \in 1..Len(seen) : seen[i] = Array[i]
      BY <1>1, <2>9 DEF SteadyInv
    <3>1. /\ scan.shared => scan.len <= table[route].len /\ route \in Routes
          /\ kept \subseteq {Array[i] : i \in 1..scan.len}
          /\ \A i \in 1..Len(seen) : seen[i] = Array[i]
      BY <1>0 DEF SteadyInv, ScanInv, Registered
    <3>2. ASSUME scan.shared, route = r PROVE scan.len <= m
      <4>1. at > scan.len
        BY <1>0, <1>1, <3>2 DEF ScanInv
      <4>2. scan.len \in Nat
        BY <1>0 DEF ReaderOK, Slice
      <4> QED
        BY <1>2, <2>1, <4>1, <4>2
    <3> QED
      BY <2>4, <2>5, <3>1, <3>2
  <2> QED
    BY <1>6, <2>7, <2>8, <2>10, <2>11 DEF Inv
<1> QED
  BY <1>8, <1>9

-------------------------------------------------------------------------------
(* The readers.                                                              *)

(* A reader's array holds strings, and reading the next one is within it.    *)
LEMMA ReaderFacts ==
    ASSUME Inv, phase \in Scanning
    PROVE  /\ Array \in Seq(Hosts \cup {Torn}) /\ Len(Array) \in Nat
           /\ scan.len \in Nat /\ scan.len <= Len(Array)
           /\ Len(seen) \in Nat /\ Len(seen) <= scan.len
           /\ seen \in Seq(Hosts \cup {Torn})
<1>0. EntriesOK /\ ReaderOK /\ ScanInv
  BY TypeParts DEF Inv
<1>1. Array \in Seq(Hosts \cup {Torn})
  <2>1. scan.shared => Good(table[route])
    BY <1>0 DEF ScanInv, EntriesOK
  <2> QED
    BY <1>0, <2>1 DEF Array, Good, Entry, ReaderOK, Slice
<1>2. scan.len \in Nat /\ scan.len <= Len(Array) /\ Len(seen) <= scan.len
      /\ seen \in Seq(Hosts \cup {Torn})
  BY <1>0 DEF ScanInv, ReaderOK, Slice
<1> QED
  BY <1>1, <1>2, LenProperties

(* What is read next is the name at that place, which the route had, or half *)
(* of one while a name is removed.                                           *)
LEMMA NextNameFacts ==
    ASSUME Inv, phase \in Scanning, ~ReadAll, NEW name \in NextName
    PROVE  /\ name \in had \cup {Torn}
           /\ name = Array[Len(seen) + 1] \/ (name = Torn /\ shifted)
           /\ Len(seen) + 1 \in 1..scan.len
           /\ Array[Len(seen) + 1] \in had
<1> DEFINE i == Len(seen) + 1
<1>1. /\ Len(seen) \in Nat /\ scan.len \in Nat /\ i \in 1..scan.len
  <2>1. /\ Len(seen) \in Nat /\ scan.len \in Nat /\ Len(seen) <= scan.len
    BY ReaderFacts
  <2>2. Len(seen) # scan.len
    BY DEF ReadAll
  <2> QED
    BY <2>1, <2>2
<1>2. Array[i] \in had
  BY <1>1 DEF Inv, ScanInv
<1>3. \/ name = Array[i]
      \/ /\ name = Torn /\ scan.shared
         /\ edit # NoEdit /\ edit.route = route /\ edit.at = i
  BY DEF NextName
<1>4. ASSUME name = Torn, scan.shared, edit # NoEdit, edit.route = route, edit.at = i PROVE shifted
  <2>1. edit.at > scan.len \/ shifted
    BY <1>4 DEF Inv, ScanInv
  <2> QED
    BY <1>1, <1>4, <2>1
<1> QED
  BY <1>1, <1>2, <1>3, <1>4

(* A reader that does not touch the table.                                   *)
LEMMA TableKept ==
    ASSUME Inv, Kept
    PROVE  /\ EntriesOK' /\ EditInv' /\ wildcard' \in BOOLEAN /\ Registered' = Registered
<1>1. UNCHANGED <<wildcard, table, edit>>
  BY DEF Kept, tableVars
<1>2. TypeOK /\ EntriesOK /\ EditInv
  BY TypeParts DEF Inv
<1>3. Registered' = Registered
  BY <1>1 DEF Registered
<1>4. EntriesOK'
  BY <1>1, <1>2, <1>3 DEF EntriesOK
<1>5. EditInv'
  BY <1>1, <1>2 DEF EditInv
<1> QED
  BY <1>1, <1>2, <1>3, <1>4, <1>5 DEF TypeOK

(* A reader starts: it has the slice of the table as it is.                  *)
LEMMA TakeInv ==
    ASSUME Inv, Kept, NEW r \in Registered, Take(r), phase' \in Scanning,
           host' \in Hosts, UNCHANGED <<cert, depth>>
    PROVE  Inv'
<1>0. TypeOK /\ EntriesOK /\ ClientOK
  BY TypeParts DEF Inv
<1>1. /\ EntriesOK' /\ EditInv' /\ wildcard' \in BOOLEAN /\ Registered' = Registered
  BY TableKept
<1>2. /\ edit = NoEdit /\ edit' = NoEdit /\ table' = table
      /\ route' = r /\ seen' = <<>>
      /\ scan' = [shared |-> TRUE, names |-> <<>>, len |-> table[r].len]
      /\ had' = Range(Names(r)) /\ kept' = Range(Names(r)) /\ shifted' = FALSE
  BY DEF Take, Kept, tableVars
<1>3. /\ r \in Routes /\ table[r].len \in Nat /\ table[r].len <= Len(table[r].names)
      /\ Range(Names(r)) = {table[r].names[i] : i \in 1..table[r].len}
      /\ Range(Names(r)) \subseteq Hosts
  <2>1. Good(table[r]) /\ r \in Routes
    BY <1>0 DEF EntriesOK, Registered
  <2>2. Range(Names(r)) = {table[r].names[i] : i \in 1..table[r].len}
    BY <1>0, NamesFacts
  <2> QED
    BY <2>1, <2>2 DEF Good, Entry
<1>4. Array' = table[r].names /\ scan'.len = table[r].len /\ scan'.shared
  BY <1>2 DEF Array
<1>5. phase' \notin {"listed", "connected"}
  BY DEF Scanning
<1>6. ClientOK'
  BY <1>0, <1>2, <1>3 DEF ClientOK
<1>7. ReaderOK'
  <2>1. <<>> \in Seq(Hosts \cup {Torn}) /\ Len(<<>>) = 0
    BY EmptySeq
  <2>2. scan' \in Slice
    BY <1>2, <1>3, <2>1 DEF Slice
  <2>3. seen' \in Seq(Hosts \cup {Torn}) /\ Len(seen') <= scan'.len
    BY <1>2, <1>3, <1>4, <2>1
  <2>4. had' \in SUBSET Hosts /\ kept' \in SUBSET Hosts /\ shifted' \in BOOLEAN
    BY <1>2, <1>3
  <2> QED
    BY <2>2, <2>3, <2>4 DEF ReaderOK
<1>8. TypeOK'
  BY <1>1, <1>6, <1>7, TypeParts
<1>9. ScanInv'
  BY <1>1, <1>2, <1>3, <1>4 DEF ScanInv
<1>10. SteadyInv'
  <2>1. Len(seen') = 0
    BY <1>2, EmptySeq
  <2> QED
    BY <1>2, <1>3, <1>4, <2>1 DEF SteadyInv
<1>11. OnlyOwnNamesAreRead'
  <2>1. Range(seen') = {}
    BY <1>2, EmptySeq DEF Range
  <2> QED
    BY <2>1 DEF OnlyOwnNamesAreRead
<1>12. CertificateCoversHost' /\ KeptNamesAreListed'
  BY <1>5 DEF CertificateCoversHost, KeptNamesAreListed
<1> QED
  BY <1>1, <1>8, <1>9, <1>10, <1>11, <1>12 DEF Inv

(* A list of the names of a route begins.                                    *)
LEMMA ListInv ==
    ASSUME Inv, NEW r \in Routes, List(r)
    PROVE  Inv'
<1>1. /\ Kept /\ r \in Registered /\ Take(r) /\ phase' \in Scanning
      /\ UNCHANGED <<host, cert, depth>>
  BY DEF List, Scanning
<1>2. host' \in Hosts
  BY <1>1 DEF Inv, TypeOK
<1> QED
  BY <1>1, <1>2, TakeInv

(* A step into a phase without a reader, which keeps the table.              *)
LEMMA NoReader ==
    ASSUME Inv, Kept, phase' \notin Scanning, ClientOK', ReaderOK',
           CertificateCoversHost', OnlyOwnNamesAreRead', KeptNamesAreListed'
    PROVE  Inv'
<1>1. EntriesOK' /\ EditInv' /\ wildcard' \in BOOLEAN
  BY TableKept
<1>2. TypeOK'
  BY <1>1, TypeParts
<1>3. ScanInv' /\ SteadyInv'
  BY DEF ScanInv, SteadyInv
<1> QED
  BY <1>1, <1>2, <1>3 DEF Inv

(* A client at rest holds a slice, too.                                      *)
LEMMA EmptySlice == NoScan \in Slice /\ <<>> \in Seq(Hosts \cup {Torn})
BY EmptySeq DEF NoScan, Slice

(* The reader of a list reads on.                                            *)
LEMMA ReadOn ==
    ASSUME Inv, Kept, phase \in Scanning, ~ReadAll, NEW name \in NextName,
           seen' = Append(seen, name),
           UNCHANGED <<phase, scan, host, route, depth, cert, had, kept, shifted>>
    PROVE  Inv'
<1>0. ClientOK /\ ReaderOK /\ ScanInv /\ SteadyInv /\ OnlyOwnNamesAreRead
  BY TypeParts DEF Inv
<1>1. EntriesOK' /\ EditInv' /\ wildcard' \in BOOLEAN /\ Registered' = Registered
  BY TableKept
<1>2. table' = table /\ edit' = edit /\ Array' = Array
  BY DEF Kept, tableVars, Array
<1>3. /\ name \in had \cup {Torn}
      /\ name = Array[Len(seen) + 1] \/ (name = Torn /\ shifted)
      /\ Len(seen) + 1 \in 1..scan.len
      /\ Array[Len(seen) + 1] \in had
  BY NextNameFacts
<1>4. /\ seen \in Seq(Hosts \cup {Torn}) /\ Len(seen) \in Nat /\ scan.len \in Nat
      /\ had \subseteq Hosts
  BY <1>0, ReaderFacts DEF ReaderOK
<1>5. name \in Hosts \cup {Torn}
  BY <1>3, <1>4
<1>6. /\ seen' \in Seq(Hosts \cup {Torn}) /\ Len(seen') = Len(seen) + 1
      /\ \A i \in 1..Len(seen) : seen'[i] = seen[i]
      /\ seen'[Len(seen) + 1] = name
  BY <1>4, <1>5, AppendProperties
<1>7. ASSUME NEW i \in 1..Len(seen') PROVE i \in 1..Len(seen) \/ i = Len(seen) + 1
  BY <1>4, <1>6
<1>8. ClientOK'
  BY <1>0 DEF ClientOK
<1>9. ReaderOK'
  <2>1. Len(seen') <= scan'.len
    BY <1>3, <1>4, <1>6
  <2> QED
    BY <1>0, <1>6, <2>1 DEF ReaderOK
<1>10. TypeOK'
  BY <1>1, <1>8, <1>9, TypeParts
<1>11. ScanInv'
  BY <1>0, <1>1, <1>2 DEF ScanInv
<1>12. SteadyInv'
  <2> SUFFICES ASSUME ~shifted
               PROVE  /\ scan.shared => scan.len <= table[route].len
                      /\ kept \subseteq {Array[i] : i \in 1..scan.len}
                      /\ \A i \in 1..Len(seen') : seen'[i] = Array[i]
    BY <1>2 DEF SteadyInv
  <2>1. /\ scan.shared => scan.len <= table[route].len
        /\ kept \subseteq {Array[i] : i \in 1..scan.len}
        /\ \A i \in 1..Len(seen) : seen[i] = Array[i]
    BY <1>0 DEF SteadyInv
  <2> QED
    BY <1>3, <1>6, <1>7, <2>1
<1>13. OnlyOwnNamesAreRead'
  <2>1. Range(seen) \subseteq had \cup (IF shifted THEN {Torn} ELSE {})
    BY <1>0 DEF OnlyOwnNamesAreRead
  <2>2. name \in had \cup (IF shifted THEN {Torn} ELSE {})
    BY <1>3
  <2>3. ASSUME NEW i \in DOMAIN seen' PROVE seen'[i] \in Range(seen) \cup {name}
    <3>1. i \in 1..Len(seen')
      BY <1>6, LenProperties
    <3>2. i \in 1..Len(seen) => seen[i] \in Range(seen)
      BY <1>4, LenProperties DEF Range
    <3> QED
      BY <1>6, <1>7, <3>1, <3>2
  <2>4. Range(seen') \subseteq Range(seen) \cup {name}
    BY <2>3 DEF Range
  <2> QED
    BY <2>1, <2>2, <2>4 DEF OnlyOwnNamesAreRead
<1>14. phase' \notin {"listed", "connected"}
  BY DEF Scanning
<1>15. CertificateCoversHost' /\ KeptNamesAreListed'
  BY <1>14 DEF CertificateCoversHost, KeptNamesAreListed
<1> QED
  BY <1>1, <1>10, <1>11, <1>12, <1>13, <1>15 DEF Inv

(* The list reads on, or ends.                                               *)
LEMMA ListNameInv ==
    ASSUME Inv, ListName
    PROVE  Inv'
<1>0. ClientOK /\ ReaderOK /\ ScanInv /\ SteadyInv /\ OnlyOwnNamesAreRead
  BY TypeParts DEF Inv
<1>1. /\ phase = "listing" /\ phase \in Scanning /\ Kept
      /\ UNCHANGED <<host, depth, cert, route, had, kept, shifted>>
  BY DEF ListName, Scanning
<1>2. CASE ~ReadAll
  <2>1. PICK name \in NextName : seen' = Append(seen, name)
    BY <1>2 DEF ListName
  <2>2. UNCHANGED <<phase, scan>>
    BY <1>2 DEF ListName
  <2> QED
    BY <1>1, <1>2, <2>1, <2>2, ReadOn
<1>3. CASE ReadAll
  <2>1. phase' = "listed" /\ scan' = NoScan /\ seen' = seen
    BY <1>3 DEF ListName
  <2>2. phase' \notin Scanning
    BY <2>1 DEF Scanning
  <2>3. ClientOK'
    BY <1>0, <1>1, <2>1 DEF ClientOK
  <2>4. ReaderOK'
    BY <1>0, <1>1, <2>1, <2>2, EmptySlice DEF ReaderOK
  <2>5. CertificateCoversHost'
    BY <2>1 DEF CertificateCoversHost
  <2>6. OnlyOwnNamesAreRead'
    BY <1>0, <1>1, <2>1 DEF OnlyOwnNamesAreRead
  <2>7. KeptNamesAreListed'
    <3> SUFFICES ASSUME ~shifted, NEW x \in kept PROVE x \in Range(seen)
      BY <1>1, <2>1 DEF KeptNamesAreListed
    <3>1. PICK i \in 1..scan.len : x = Array[i]
      BY <1>0, <1>1 DEF SteadyInv
    <3>2. Len(seen) = scan.len
      BY <1>3 DEF ReadAll
    <3>3. i \in 1..Len(seen) /\ seen[i] = x
      BY <1>0, <1>1, <3>1, <3>2 DEF SteadyInv
    <3>4. i \in DOMAIN seen
      BY <1>1, <3>3, ReaderFacts, LenProperties
    <3> QED
      BY <3>3, <3>4 DEF Range
  <2> QED
    BY <1>1, <2>2, <2>3, <2>4, <2>5, <2>6, <2>7, NoReader
<1> QED
  BY <1>2, <1>3

(* A client is given a certificate that covers the name it asked for.        *)
LEMMA PresentInv ==
    ASSUME Inv, Kept, NEW base \in Hosts, NEW wild \in BOOLEAN, Present(base, wild),
           host' \in Hosts, UNCHANGED <<depth, route, had, kept, shifted>>,
           base = host' \/ (wild /\ base = Tail(host'))
              \/ \E name \in had : IsBelow(host', name) /\ name # Tail(host')
    PROVE  Inv'
<1>0. ClientOK /\ ReaderOK
  BY TypeParts DEF Inv
<1>1. /\ phase' = "connected" /\ cert' = [base |-> base, wild |-> wild]
      /\ scan' = NoScan /\ seen' = <<>>
  BY DEF Present
<1>2. phase' \notin Scanning
  BY <1>1 DEF Scanning
<1>3. ClientOK'
  BY <1>0, <1>1 DEF ClientOK
<1>4. ReaderOK'
  BY <1>0, <1>1, <1>2, EmptySlice DEF ReaderOK
<1>5. CertificateCoversHost'
  <2>1. cert'.base = base /\ (cert'.wild <=> wild)
    BY <1>1
  <2> QED
    BY <2>1 DEF CertificateCoversHost
<1>6. OnlyOwnNamesAreRead' /\ KeptNamesAreListed'
  BY <1>1, <1>2 DEF OnlyOwnNamesAreRead, KeptNamesAreListed
<1> QED
  BY <1>2, <1>3, <1>4, <1>5, <1>6, NoReader

(* A client says hello: with the wildcard option, the route's names are      *)
(* gone through.                                                             *)
LEMMA HelloInv ==
    ASSUME Inv, NEW h \in Hosts, Hello(h)
    PROVE  Inv'
<1>1. Kept /\ host' = h /\ UNCHANGED depth /\ TypeOK
  BY DEF Hello, Inv
<1>2. CASE Present(h, FALSE) /\ UNCHANGED <<route, had, kept, shifted>>
  BY <1>1, <1>2, PresentInv
<1>3. CASE /\ wildcard /\ edit = NoEdit
           /\ \E r \in Answers(h) \ {NoRoute} : Take(r)
           /\ phase' = "hello" /\ UNCHANGED cert
  <2>1. PICK r \in Answers(h) \ {NoRoute} : Take(r)
    BY <1>3
  <2>2. r \in Registered
    BY <1>1, <2>1, AnswersType
  <2>3. phase' \in Scanning /\ host' \in Hosts /\ UNCHANGED <<cert, depth>>
    BY <1>1, <1>3 DEF Scanning
  <2> QED
    BY <1>1, <2>1, <2>2, <2>3, TakeInv
<1> QED
  BY <1>2, <1>3 DEF Hello

(* A name is tried for the certificate.                                      *)
LEMMA HelloNameInv ==
    ASSUME Inv, HelloName
    PROVE  Inv'
<1>0. ClientOK /\ ReaderOK
  BY TypeParts DEF Inv
<1>1. /\ phase = "hello" /\ phase \in Scanning /\ Kept
      /\ UNCHANGED <<host, depth, route, had, kept, shifted>>
  BY DEF HelloName, Scanning
<1>2. host \in Hosts /\ host' \in Hosts /\ had \subseteq Hosts
  BY <1>0, <1>1 DEF ClientOK, ReaderOK
<1>3. CASE ReadAll
  <2>1. Present(host, FALSE)
    BY <1>3 DEF HelloName
  <2> QED
    BY <1>1, <1>2, <2>1, PresentInv
<1>4. CASE ~ReadAll
  <2>1. PICK name \in NextName :
           IF name # Torn /\ Fits(host, name) THEN Present(name, TRUE)
           ELSE seen' = Append(seen, name) /\ UNCHANGED <<phase, cert, scan>>
    BY <1>4 DEF HelloName
  <2>2. CASE name # Torn /\ Fits(host, name)
    <3>1. Present(name, TRUE)
      BY <2>1, <2>2
    <3>2. name \in had
      BY <1>1, <1>4, <2>2, NextNameFacts
    <3>3. name = host \/ IsBelow(host, name)
      BY <2>2 DEF Fits
    <3>4. name = host' \/ name = Tail(host')
             \/ \E x \in had : IsBelow(host', x) /\ x # Tail(host')
      BY <1>1, <3>2, <3>3
    <3>5. name \in Hosts
      BY <1>2, <3>2
    <3> QED
      BY <1>1, <1>2, <3>1, <3>4, <3>5, PresentInv
  <2>3. CASE ~(name # Torn /\ Fits(host, name))
    <3>1. seen' = Append(seen, name) /\ UNCHANGED <<phase, cert, scan>>
      BY <2>1, <2>3
    <3> QED
      BY <1>1, <1>4, <3>1, ReadOn
  <2> QED
    BY <2>2, <2>3
<1> QED
  BY <1>3, <1>4

(* The client starts again, with nothing of what it had.                     *)
LEMMA FreshInv ==
    ASSUME Inv, Kept, phase' \in {"idle", "requested"}, host' \in Hosts,
           depth' = 0, route' = NoRoute, cert' = NoCert,
           scan' = NoScan, seen' = <<>>, had' = {}, kept' = {}, shifted' = FALSE
    PROVE  Inv'
<1>1. phase' \notin Scanning
  BY DEF Scanning
<1>2. ClientOK'
  <2>1. NoCert \in [base : Hosts, wild : BOOLEAN]
    BY HostAssumption DEF NoCert, AnyHost
  <2> QED
    BY <2>1 DEF ClientOK, InFlight, MaxDepth
<1>3. ReaderOK'
  BY <1>1, EmptySlice DEF ReaderOK
<1>4. CertificateCoversHost' /\ OnlyOwnNamesAreRead' /\ KeptNamesAreListed'
  BY <1>1 DEF CertificateCoversHost, OnlyOwnNamesAreRead, KeptNamesAreListed
<1> QED
  BY <1>1, <1>2, <1>3, <1>4, NoReader

(* A client sends a request.                                                 *)
LEMMA RequestInv ==
    ASSUME Inv, NEW h \in Hosts, Request(h)
    PROVE  Inv'
BY FreshInv DEF Request

(* The client forgets what it has got.                                       *)
LEMMA AgainInv ==
    ASSUME Inv, Again
    PROVE  Inv'
<1>1. AnyHost \in Hosts
  BY HostAssumption DEF AnyHost
<1> QED
  BY <1>1, FreshInv DEF Again

(* A request on its way, whose client reads nothing.                         *)
LEMMA OnTheWay ==
    ASSUME Inv, Kept, Untouched, UNCHANGED cert,
           phase \notin Scanning, phase' \notin Scanning \cup {"connected", "listed"}, ClientOK'
    PROVE  Inv'
<1>1. ReaderOK'
  <2>1. ReaderOK
    BY TypeParts DEF Inv
  <2> QED
    BY <2>1 DEF ReaderOK, Untouched, scanVars
<1>2. CertificateCoversHost' /\ OnlyOwnNamesAreRead' /\ KeptNamesAreListed'
  BY DEF CertificateCoversHost, OnlyOwnNamesAreRead, KeptNamesAreListed
<1> QED
  BY <1>1, <1>2, NoReader

(* The proxy answers the request or passes it on.                            *)
LEMMA ServeInv ==
    ASSUME Inv, Serve
    PROVE  Inv'
<1>0. TypeOK /\ ClientOK
  BY TypeParts DEF Inv
<1>1. /\ Kept /\ Untouched /\ UNCHANGED <<host, cert>> /\ phase \notin Scanning
  BY DEF Serve, Scanning
<1>2. PICK r \in Answers(host) :
         /\ route' = r
         /\ \/ r = NoRoute /\ phase' = "notfound" /\ UNCHANGED depth
            \/ r # NoRoute /\ TooDeep(depth) /\ phase' = "looped" /\ UNCHANGED depth
            \/ r # NoRoute /\ ~TooDeep(depth) /\ phase' = "sent" /\ depth' = Deeper(depth)
            \/ r # NoRoute /\ ~TooDeep(depth) /\ phase' = "bridged" /\ UNCHANGED depth
  BY DEF Serve
<1>3. r \in Routes \cup {NoRoute}
  <2>1. host \in Hosts
    BY <1>0 DEF ClientOK
  <2>2. r \in Registered \cup {NoRoute}
    BY <1>0, <2>1, AnswersType
  <2> QED
    BY <2>2 DEF Registered
<1>4. depth' \in 0..MaxDepth
  <2>1. depth \in 0..MaxDepth
    BY <1>0 DEF ClientOK
  <2> QED
    BY <1>2, <2>1 DEF TooDeep, Deeper, MaxDepth
<1>5. phase' \in {"notfound", "looped", "sent", "bridged"}
  BY <1>2
<1>6. ClientOK'
  BY <1>0, <1>1, <1>2, <1>3, <1>4, <1>5 DEF ClientOK, Ended, InFlight
<1>7. phase' \notin Scanning \cup {"connected", "listed"}
  BY <1>5 DEF Scanning
<1> QED
  BY <1>1, <1>6, <1>7, OnTheWay

(* The app answers the request, fails, or sends it back.                     *)
LEMMA AppInv ==
    ASSUME Inv, App
    PROVE  Inv'
<1>0. ClientOK
  BY TypeParts DEF Inv
<1>1. /\ Kept /\ Untouched /\ UNCHANGED <<route, depth, cert>> /\ phase \notin Scanning
      /\ phase' \in {"unavailable", "answered", "sentback"}
  BY DEF App, Scanning
<1>2. host' \in Hosts
  BY <1>0 DEF App, ClientOK
<1>3. ClientOK'
  BY <1>0, <1>1, <1>2 DEF ClientOK, Ended, InFlight
<1>4. phase' \notin Scanning \cup {"connected", "listed"}
  BY <1>1 DEF Scanning
<1> QED
  BY <1>1, <1>3, <1>4, OnTheWay

(* Nothing happens.                                                          *)
LEMMA StutterInv ==
    ASSUME Inv, UNCHANGED vars
    PROVE  Inv'
<1>1. UNCHANGED <<wildcard, table, edit, phase, host, route, depth, cert, scan, seen,
                  had, kept, shifted>>
  BY DEF vars, tableVars, scanVars
<1>2. Kept
  BY <1>1 DEF Kept, tableVars
<1>3. EntriesOK' /\ EditInv' /\ wildcard' \in BOOLEAN /\ Registered' = Registered
  BY <1>2, TableKept
<1>4. ClientOK' /\ ReaderOK'
  <2>1. ClientOK /\ ReaderOK
    BY TypeParts DEF Inv
  <2> QED
    BY <1>1, <2>1 DEF ClientOK, ReaderOK
<1>5. TypeOK'
  BY <1>3, <1>4, TypeParts
<1>6. Array' = Array
  BY <1>1 DEF Array
<1>7. ScanInv' /\ SteadyInv'
  BY <1>1, <1>3, <1>6 DEF Inv, ScanInv, SteadyInv
<1>8. CertificateCoversHost' /\ OnlyOwnNamesAreRead' /\ KeptNamesAreListed'
  BY <1>1, HistoryGrows
<1> QED
  BY <1>3, <1>5, <1>7, <1>8 DEF Inv

(* Every step preserves the invariant.                                       *)
LEMMA NextInv == Inv /\ [Next]_vars => Inv'
<1> SUFFICES ASSUME Inv, [Next]_vars PROVE Inv'
  OBVIOUS
<1>1. ASSUME NEW r \in Routes, Register(r) PROVE Inv'
  BY <1>1, RegisterInv
<1>2. ASSUME NEW r \in Routes, Deregister(r) PROVE Inv'
  BY <1>2, DeregisterInv
<1>3. ASSUME NEW r \in Edited, NEW h \in Hosts, AddHostname(r, h) PROVE Inv'
  BY <1>3, BoundAssumption, AddHostnameInv
<1>4. ASSUME NEW r \in Edited, NEW h \in Hosts, RemoveHostname(r, h) PROVE Inv'
  BY <1>4, BoundAssumption, RemoveHostnameInv
<1>5. CASE Edit
  BY <1>5, EditStepInv
<1>6. ASSUME NEW r \in Routes, List(r) PROVE Inv'
  BY <1>6, ListInv
<1>7. ASSUME NEW h \in Hosts, Hello(h) PROVE Inv'
  BY <1>7, HelloInv
<1>8. ASSUME NEW h \in Hosts, Request(h) PROVE Inv'
  BY <1>8, RequestInv
<1>9. CASE ListName \/ HelloName
  BY <1>9, ListNameInv, HelloNameInv
<1>10. CASE Serve \/ App \/ Again
  BY <1>10, ServeInv, AppInv, AgainInv
<1>11. CASE UNCHANGED vars
  BY <1>11, StutterInv
<1> QED
  BY <1>1, <1>2, <1>3, <1>4, <1>5, <1>6, <1>7, <1>8, <1>9, <1>10, <1>11 DEF Next, TableStep

-------------------------------------------------------------------------------
(* What follows.                                                             *)

(* The invariant always holds.                                               *)
LEMMA InvAlways == Spec => []Inv
BY InitInv, NextInv, PTL DEF Spec

(* The table, the writes that are left, the client and its slice always have *)
(* the types the code gives them; in particular every index a reader or a    *)
(* writer uses is within its array.                                          *)
THEOREM TypeCorrect == Spec => []TypeOK
<1>1. Inv => TypeOK
  BY DEF Inv
<1> QED
  BY <1>1, InvAlways, PTL

(* Whatever order Go goes through the map of routes in, Lookup answers with a *)
(* route that has the longest name that fits the host, and every such route  *)
(* may be the answer.                                                        *)
THEOREM LongestNameAnswers == Spec => []LookupIsLongest
<1>1. Inv => LookupIsLongest
  BY AnswersAreLongest DEF Inv
<1> QED
  BY <1>1, InvAlways, PTL

(* GetCertificate hands out a certificate that covers the host of the hello,  *)
(* unless a name of the route is more than one label above, however the      *)
(* names change while they are gone through.                                 *)
THEOREM CertificateSafe == Spec => []CertificateCoversHost
<1>1. Inv => CertificateCoversHost
  BY DEF Inv
<1> QED
  BY <1>1, InvAlways, PTL

(* A reader without the lock sees only names its route had since the slice   *)
(* was taken, and half a string at worst, when a name was removed.           *)
THEOREM ReadersSafe == Spec => []OnlyOwnNamesAreRead
<1>1. Inv => OnlyOwnNamesAreRead
  BY DEF Inv
<1> QED
  BY <1>1, InvAlways, PTL

(* A list holds every name the route has kept all the time, unless a name    *)
(* was removed while it was made.                                            *)
THEOREM ListsComplete == Spec => []KeptNamesAreListed
<1>1. Inv => KeptNamesAreListed
  BY DEF Inv
<1> QED
  BY <1>1, InvAlways, PTL
===============================================================================

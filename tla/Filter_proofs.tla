----------------------------- MODULE Filter_proofs -----------------------------
(*****************************************************************************)
(* Facts about Only, and about the pieces of sequences.  Only is recursive:  *)
(* what it computes is shown by induction on the number of values it has     *)
(* gone through, that is, by SetInduction for the set of the numbers for     *)
(* which the claim holds.                                                    *)
(*****************************************************************************)
EXTENDS Filter, SequenceTheorems, WellFoundedInduction, TLAPS

(* Every set of numbers that is not empty has a least one.                   *)
LEMMA LeastNumber ==
    ASSUME NEW S, S \subseteq Nat, S # {}
    PROVE  \E m \in S : \A n \in S : m <= n
<1>1. PICK m \in S : \A n \in S : <<n, m>> \notin OpToRel(<, Nat)
  BY NatLessThanWellFounded, WFMin
<1>2. \A n \in S : ~(n < m)
  BY <1>1 DEF OpToRel
<1> QED
  BY <1>2

(* Induction, for a set of numbers.                                          *)
LEMMA SetInduction ==
    ASSUME NEW S, 0 \in S, \A n \in Nat : n \in S => n + 1 \in S
    PROVE  \A n \in Nat : n \in S
<1>1. SUFFICES ASSUME Nat \ S # {} PROVE FALSE
  OBVIOUS
<1>2. PICK m \in Nat \ S : \A n \in Nat \ S : m <= n
  BY <1>1, LeastNumber
<1>3. m # 0 /\ m - 1 \in Nat
  BY <1>2
<1>4. m - 1 \in S
  BY <1>2, <1>3
<1> QED
  BY <1>2, <1>3, <1>4

(* The pieces of a sequence.                                                 *)
LEMMA PieceFacts ==
    ASSUME NEW Value, NEW s \in Seq(Value), NEW m \in Nat, NEW n \in Nat,
           1 <= m, n <= Len(s)
    PROVE  /\ SubSeq(s, m, n) \in Seq(Value)
           /\ Len(SubSeq(s, m, n)) = IF m <= n THEN n - m + 1 ELSE 0
           /\ \A i \in 1..(n - m + 1) : SubSeq(s, m, n)[i] = s[m + i - 1]
<1>1. \A i \in m..n : s[i] \in Value
  BY ElementOfSeq, LenProperties
<1> QED
  BY <1>1, SubSeqProperties

(* A sequence cut in two.                                                    *)
LEMMA TwoPieces ==
    ASSUME NEW Value, NEW s \in Seq(Value), NEW n \in 0..Len(s)
    PROVE  /\ SubSeq(s, 1, n) \in Seq(Value)
           /\ SubSeq(s, n + 1, Len(s)) \in Seq(Value)
           /\ s = SubSeq(s, 1, n) \o SubSeq(s, n + 1, Len(s))
<1>1. Len(s) \in Nat
  BY LenProperties
<1>2. SubSeq(s, 1, n) \in Seq(Value) /\ SubSeq(s, n + 1, Len(s)) \in Seq(Value)
  BY <1>1, PieceFacts
<1>3. SubSeq(s, 1, n) \o SubSeq(s, n + 1, Len(s)) = SubSeq(s, 1, Len(s))
  <2>1. 1 \in 1..(Len(s) + 1) /\ n \in (1 - 1)..Len(s) /\ Len(s) \in n..Len(s)
    BY <1>1
  <2> QED
    BY <2>1, ConcatAdjacentSubSeq, Zenon
<1>4. SubSeq(s, 1, Len(s)) = s
  BY SubSeqFull
<1> QED
  BY <1>2, <1>3, <1>4

(* A sequence whose values are all in a set is a sequence of that set.       *)
LEMMA AllInSet ==
    ASSUME NEW Value, NEW s \in Seq(Value), NEW T, \A i \in 1..Len(s) : s[i] \in T
    PROVE  s \in Seq(T)
<1>1. Len(s) \in Nat /\ s \in [1..Len(s) -> Value]
  BY LenProperties
<1>2. s \in [1..Len(s) -> T]
  BY <1>1
<1> QED
  BY <1>1, <1>2, SeqDef

(* The recursive function of Only exists, and takes the steps it is defined  *)
(* by.                                                                       *)
LEMMA OnlyStepsExist ==
    ASSUME NEW Value, NEW s \in Seq(Value), NEW keep
    PROVE  \E g : g = [i \in 0..Len(s) |->
             IF i = 0 THEN <<>>
             ELSE IF s[i] \in keep THEN Append(g[i - 1], s[i]) ELSE g[i - 1]]
<1> DEFINE Body(g, i) == IF i = 0 THEN <<>>
             ELSE IF s[i] \in keep THEN Append(g[i - 1], s[i]) ELSE g[i - 1]
           S == {n \in Nat : \E g : g = [i \in 0..n |-> Body(g, i)]}
<1>1. 0 \in S
  <2>1. [i \in 0..0 |-> <<>>] = [i \in 0..0 |-> Body([j \in 0..0 |-> <<>>], i)]
    OBVIOUS
  <2> QED
    BY <2>1
<1>2. ASSUME NEW n \in Nat, n \in S PROVE n + 1 \in S
  <2>1. PICK g : g = [i \in 0..n |-> Body(g, i)]
    BY <1>2
  <2> DEFINE h == [i \in 0..(n + 1) |-> IF i = n + 1 THEN Body(g, n + 1) ELSE g[i]]
  <2>2. ASSUME NEW i \in 0..(n + 1) PROVE h[i] = Body(h, i)
    <3>1. CASE i = n + 1
      <4>1. h[i - 1] = g[i - 1] /\ i # 0
        BY <3>1
      <4> QED
        BY <3>1, <4>1
    <3>2. CASE i # n + 1
      <4>1. i \in 0..n /\ h[i] = g[i]
        BY <3>2
      <4>2. i # 0 => h[i - 1] = g[i - 1]
        BY <3>2
      <4>3. g[i] = Body(g, i)
        BY <2>1, <4>1
      <4> QED
        BY <4>1, <4>2, <4>3
    <3> QED
      BY <3>1, <3>2
  <2>3. h = [i \in 0..(n + 1) |-> Body(h, i)]
    BY <2>2
  <2>4. \E f : f = [i \in 0..(n + 1) |-> Body(f, i)]
    BY <2>3
  <2> QED
    BY <2>4
<1> HIDE DEF S
<1>3. Len(s) \in S
  BY <1>1, <1>2, SetInduction, LenProperties
<1> QED
  BY <1>3 DEF S

LEMMA OnlyStepsDef ==
    ASSUME NEW Value, NEW s \in Seq(Value), NEW keep
    PROVE  OnlySteps(s, keep) = [i \in 0..Len(s) |->
             IF i = 0 THEN <<>>
             ELSE IF s[i] \in keep THEN Append(OnlySteps(s, keep)[i - 1], s[i])
             ELSE OnlySteps(s, keep)[i - 1]]
<1> DEFINE Fold(g) == [i \in 0..Len(s) |->
             IF i = 0 THEN <<>>
             ELSE IF s[i] \in keep THEN Append(g[i - 1], s[i]) ELSE g[i - 1]]
<1>1. \E g : g = Fold(g)
  BY OnlyStepsExist
<1>2. OnlySteps(s, keep) = CHOOSE g : g = Fold(g)
  BY DEF OnlySteps
<1> HIDE DEF Fold
<1>3. OnlySteps(s, keep) = Fold(OnlySteps(s, keep))
  BY <1>1, <1>2
<1> QED
  BY <1>3 DEF Fold

LEMMA OnlyStepsAre ==
    ASSUME NEW Value, NEW s \in Seq(Value), NEW keep
    PROVE  /\ OnlySteps(s, keep)[0] = <<>>
           /\ \A i \in 1..Len(s) :
                 OnlySteps(s, keep)[i] = IF s[i] \in keep
                                    THEN Append(OnlySteps(s, keep)[i - 1], s[i])
                                    ELSE OnlySteps(s, keep)[i - 1]
<1> DEFINE k == OnlySteps(s, keep)
<1>1. Len(s) \in Nat
  BY LenProperties
<1>2. k = [i \in 0..Len(s) |->
             IF i = 0 THEN <<>>
             ELSE IF s[i] \in keep THEN Append(k[i - 1], s[i]) ELSE k[i - 1]]
  BY OnlyStepsDef
<1> HIDE DEF k
<1>3. k[0] = <<>>
  BY <1>1, <1>2
<1>4. ASSUME NEW i \in 1..Len(s)
      PROVE  k[i] = IF s[i] \in keep THEN Append(k[i - 1], s[i]) ELSE k[i - 1]
  <2>1. i \in 0..Len(s) /\ i # 0
    BY <1>1
  <2> QED
    BY <1>2, <2>1
<1>5. /\ k[0] = <<>>
      /\ \A i \in 1..Len(s) :
            k[i] = IF s[i] \in keep THEN Append(k[i - 1], s[i]) ELSE k[i - 1]
  BY <1>3, <1>4
<1> QED
  BY <1>5 DEF k

(* What Only keeps is of the sequence and of the set that is kept.           *)
LEMMA OnlyStepsType ==
    ASSUME NEW Value, NEW s \in Seq(Value), NEW keep
    PROVE  \A i \in 0..Len(s) : OnlySteps(s, keep)[i] \in Seq(Value \cap keep)
<1> DEFINE S == {n \in Nat : n <= Len(s) => OnlySteps(s, keep)[n] \in Seq(Value \cap keep)}
<1>1. 0 \in S
  <2>1. OnlySteps(s, keep)[0] = <<>>
    BY OnlyStepsAre
  <2>2. <<>> \in Seq(Value \cap keep)
    BY EmptySeq
  <2> QED
    BY <2>1, <2>2
<1>2. ASSUME NEW n \in Nat, n \in S PROVE n + 1 \in S
  <2>1. SUFFICES ASSUME n + 1 <= Len(s)
                 PROVE  OnlySteps(s, keep)[n + 1] \in Seq(Value \cap keep)
    OBVIOUS
  <2>2. n + 1 \in 1..Len(s) /\ (n + 1) - 1 = n
    BY <2>1
  <2>3. OnlySteps(s, keep)[n] \in Seq(Value \cap keep)
    BY <1>2, <2>1
  <2>4. s[n + 1] \in Value
    BY <2>2, ElementOfSeq
  <2>5. OnlySteps(s, keep)[n + 1] = IF s[n + 1] \in keep
                               THEN Append(OnlySteps(s, keep)[n], s[n + 1])
                               ELSE OnlySteps(s, keep)[n]
    BY <2>2, OnlyStepsAre
  <2> QED
    BY <2>3, <2>4, <2>5, AppendProperties
<1> HIDE DEF S
<1>3. \A n \in Nat : n \in S
  BY <1>1, <1>2, SetInduction
<1> QED
  BY <1>3 DEF S

LEMMA OnlyType ==
    ASSUME NEW Value, NEW s \in Seq(Value), NEW keep
    PROVE  Only(s, keep) \in Seq(Value \cap keep)
BY OnlyStepsType, LenProperties DEF Only

LEMMA OnlyOfValue ==
    ASSUME NEW Value, NEW s \in Seq(Value), NEW keep
    PROVE  Only(s, keep) \in Seq(Value)
<1>1. Only(s, keep) \in Seq(Value \cap keep)
  BY OnlyType
<1> QED
  BY <1>1, SeqMonotonic

(* Nothing is kept of a sequence without such a value.                       *)
LEMMA OnlyNone ==
    ASSUME NEW Value, NEW s \in Seq(Value), NEW keep, Value \cap keep = {}
    PROVE  Only(s, keep) = <<>>
<1>1. Only(s, keep) \in Seq({})
  BY OnlyType
<1> QED
  BY <1>1, EmptySeq, ElementOfSeq

(* Only of two sequences joined is what it is of each, joined.               *)
LEMMA OnlyStepsOfConcat ==
    ASSUME NEW Value, NEW s \in Seq(Value), NEW t \in Seq(Value), NEW keep
    PROVE  \A i \in 0..Len(s) : OnlySteps(s \o t, keep)[i] = OnlySteps(s, keep)[i]
<1> DEFINE u == s \o t
           S == {n \in Nat : n <= Len(s) => OnlySteps(u, keep)[n] = OnlySteps(s, keep)[n]}
<1>0. u \in Seq(Value) /\ Len(s) \in Nat /\ Len(u) >= Len(s)
  BY ConcatProperties, LenProperties
<1>1. 0 \in S
  BY <1>0, OnlyStepsAre
<1>2. ASSUME NEW n \in Nat, n \in S PROVE n + 1 \in S
  <2>1. SUFFICES ASSUME n + 1 <= Len(s)
                 PROVE  OnlySteps(u, keep)[n + 1] = OnlySteps(s, keep)[n + 1]
    OBVIOUS
  <2>2. n + 1 \in 1..Len(s) /\ n + 1 \in 1..Len(u) /\ (n + 1) - 1 = n
    BY <1>0, <2>1
  <2>3. (u)[n + 1] = s[n + 1]
    BY <2>2, ConcatProperties, LenProperties
  <2>4. OnlySteps(s, keep)[n + 1] = IF s[n + 1] \in keep
                               THEN Append(OnlySteps(s, keep)[n], s[n + 1])
                               ELSE OnlySteps(s, keep)[n]
    BY <2>2, OnlyStepsAre
  <2>5. OnlySteps(u, keep)[n + 1] = IF u[n + 1] \in keep
                               THEN Append(OnlySteps(u, keep)[n], u[n + 1])
                               ELSE OnlySteps(u, keep)[n]
    <3> HIDE DEF u
    <3> QED
      BY <1>0, <2>2, OnlyStepsAre
  <2> QED
    BY <1>2, <2>1, <2>3, <2>4, <2>5
<1> HIDE DEF S
<1>3. \A n \in Nat : n \in S
  BY <1>1, <1>2, SetInduction
<1> QED
  BY <1>3 DEF S

LEMMA OnlyOfConcat ==
    ASSUME NEW Value, NEW s \in Seq(Value), NEW t \in Seq(Value), NEW keep
    PROVE  Only(s \o t, keep) = Only(s, keep) \o Only(t, keep)
<1> DEFINE u == s \o t
           S == {n \in Nat : n <= Len(t) =>
                    OnlySteps(u, keep)[Len(s) + n] = Only(s, keep) \o OnlySteps(t, keep)[n]}
<1>0. /\ u \in Seq(Value)
      /\ Len(s) \in Nat /\ Len(t) \in Nat /\ Len(u) = Len(s) + Len(t)
      /\ Only(s, keep) \in Seq(Value)
  <2>1. Only(s, keep) \in Seq(Value)
    BY OnlyOfValue
  <2> QED
    BY <2>1, ConcatProperties, LenProperties
<1>1. 0 \in S
  <2>1. OnlySteps(u, keep)[Len(s)] = Only(s, keep)
    BY <1>0, OnlyStepsOfConcat DEF Only
  <2>2. OnlySteps(t, keep)[0] = <<>>
    BY OnlyStepsAre
  <2> HIDE DEF u
  <2> QED
    BY <1>0, <2>1, <2>2, ConcatEmptySeq
<1>2. ASSUME NEW n \in Nat, n \in S PROVE n + 1 \in S
  <2>1. SUFFICES ASSUME n + 1 <= Len(t)
                 PROVE  OnlySteps(u, keep)[Len(s) + (n + 1)] = Only(s, keep) \o OnlySteps(t, keep)[n + 1]
    OBVIOUS
  <2>2. /\ n + 1 \in 1..Len(t) /\ (n + 1) - 1 = n /\ n \in 0..Len(t)
        /\ Len(s) + (n + 1) \in 1..Len(u) /\ (Len(s) + (n + 1)) - 1 = Len(s) + n
    BY <1>0, <2>1
  <2>3. u[Len(s) + (n + 1)] = t[n + 1]
    BY <1>0, <2>2, ConcatProperties
  <2>4. t[n + 1] \in Value /\ OnlySteps(t, keep)[n] \in Seq(Value)
    <3>1. OnlySteps(t, keep)[n] \in Seq(Value \cap keep)
      BY <2>2, OnlyStepsType
    <3> QED
      BY <2>2, <3>1, ElementOfSeq, SeqMonotonic
  <2> HIDE DEF u
  <2>5. OnlySteps(t, keep)[n + 1] = IF t[n + 1] \in keep
                               THEN Append(OnlySteps(t, keep)[n], t[n + 1])
                               ELSE OnlySteps(t, keep)[n]
    BY <2>2, OnlyStepsAre
  <2>6. OnlySteps(u, keep)[Len(s) + (n + 1)] =
           IF u[Len(s) + (n + 1)] \in keep
           THEN Append(OnlySteps(u, keep)[Len(s) + n], u[Len(s) + (n + 1)])
           ELSE OnlySteps(u, keep)[Len(s) + n]
    BY <1>0, <2>2, OnlyStepsAre
  <2>7. OnlySteps(u, keep)[Len(s) + n] = Only(s, keep) \o OnlySteps(t, keep)[n]
    BY <1>2, <2>2
  <2>8. Append(Only(s, keep) \o OnlySteps(t, keep)[n], t[n + 1])
          = Only(s, keep) \o Append(OnlySteps(t, keep)[n], t[n + 1])
    <3> DEFINE a == Only(s, keep)
               b == OnlySteps(t, keep)[n]
               x == t[n + 1]
    <3>1. a \in Seq(Value) /\ b \in Seq(Value) /\ x \in Value
      BY <1>0, <2>4
    <3> HIDE DEF a, b, x
    <3>2. <<x>> \in Seq(Value) /\ a \o b \in Seq(Value)
      BY <3>1, ConcatProperties
    <3>3. Append(a \o b, x) = (a \o b) \o <<x>> /\ Append(b, x) = b \o <<x>>
      BY <3>1, <3>2, AppendIsConcat
    <3>4. Append(a \o b, x) = a \o Append(b, x)
      BY <3>1, <3>2, <3>3, ConcatAssociative
    <3> QED
      BY <3>4 DEF a, b, x
  <2> QED
    BY <2>3, <2>5, <2>6, <2>7, <2>8
<1>3. Len(t) \in S
  <2> HIDE DEF S
  <2> QED
    BY <1>0, <1>1, <1>2, SetInduction
<1>4. OnlySteps(u, keep)[Len(u)] = Only(s, keep) \o OnlySteps(t, keep)[Len(t)]
  <2> HIDE DEF u
  <2> QED
    BY <1>0, <1>3
<1> QED
  BY <1>4 DEF Only
===============================================================================

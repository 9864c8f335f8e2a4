---------------------------- MODULE HostsFile_proofs ---------------------------
(*****************************************************************************)
(* Proofs about HostsFile, for any number of writers, host names, user lines *)
(* and edits.                                                                *)
(*****************************************************************************)
EXTENDS HostsFile, Filter_proofs

-------------------------------------------------------------------------------
(* Numbers.                                                                  *)

(* Min and Max, of sets of numbers.                                          *)
LEMMA MinFacts ==
    ASSUME NEW S, S \subseteq Nat, S # {}
    PROVE  Min(S) \in S /\ \A n \in S : Min(S) <= n
<1>1. \E m \in S : \A n \in S : m <= n
  BY LeastNumber
<1> QED
  BY <1>1 DEF Min

LEMMA MaxFacts ==
    ASSUME NEW S, NEW bound \in Nat, S \subseteq 0..bound, S # {}
    PROVE  Max(S) \in S /\ \A n \in S : n <= Max(S)
<1> DEFINE T == {bound - n : n \in S}
<1>0. T \subseteq Nat /\ T # {}
  <2>1. \A n \in S : bound - n \in Nat
    OBVIOUS
  <2> QED
    BY <2>1
<1> HIDE DEF T
<1>1. PICK t \in T : \A n \in T : t <= n
  BY <1>0, LeastNumber
<1> USE DEF T
<1>2. PICK m \in S : t = bound - m
  OBVIOUS
<1>3. ASSUME NEW n \in S PROVE m >= n
  <2>1. t <= bound - n
    BY <1>1
  <2> QED
    BY <1>2, <2>1
<1> QED
  BY <1>2, <1>3 DEF Max

-------------------------------------------------------------------------------
(* Blank lines and the block that is cut.                                    *)

(* Trimming cuts blank lines behind the last other one, skipping those       *)
(* before the first.                                                         *)
LEMMA TrimFacts ==
    ASSUME NEW Value, NEW s \in Seq(Value)
    PROVE  \E n \in 0..Len(s) :
              /\ TrimRight(s) = SubSeq(s, 1, n)
              /\ n # 0 => s[n] # Blank
              /\ \A i \in (n + 1)..Len(s) : s[i] = Blank
<1> DEFINE S == NonBlank(s) \cup {0}
           n == Max(S)
<1>1. Len(s) \in Nat /\ DOMAIN s = 1..Len(s)
  BY LenProperties
<1>2. S \subseteq 0..Len(s) /\ S # {}
  BY <1>1 DEF NonBlank
<1> HIDE DEF S
<1>3. n \in S /\ \A i \in S : i <= n
  BY <1>1, <1>2, MaxFacts
<1>4. n \in 0..Len(s)
  BY <1>2, <1>3
<1>5. TrimRight(s) = SubSeq(s, 1, n)
  BY DEF TrimRight, S
<1> HIDE DEF n
<1>6. n # 0 => s[n] # Blank
  BY <1>3 DEF S, NonBlank
<1>7. ASSUME NEW i \in (n + 1)..Len(s) PROVE s[i] = Blank
  <2>1. i \in 1..Len(s) /\ ~(i <= n)
    BY <1>1, <1>4
  <2>2. i \notin S
    BY <1>3, <2>1
  <2> QED
    BY <1>1, <2>1, <2>2 DEF S, NonBlank
<1> QED
  BY <1>4, <1>5, <1>6, <1>7

LEMMA SkipFacts ==
    ASSUME NEW Value, NEW s \in Seq(Value)
    PROVE  \E n \in 0..Len(s) :
              /\ SkipBlanks(s) = SubSeq(s, n + 1, Len(s))
              /\ \A i \in 1..n : s[i] = Blank
<1> DEFINE S == NonBlank(s) \cup {Len(s) + 1}
           m == Min(S)
<1>1. Len(s) \in Nat /\ DOMAIN s = 1..Len(s)
  BY LenProperties
<1>2. S \subseteq 1..(Len(s) + 1) /\ S \subseteq Nat /\ Len(s) + 1 \in S
  BY <1>1 DEF NonBlank
<1>3. SkipBlanks(s) = SubSeq(s, m, Len(s))
  BY DEF SkipBlanks
<1> HIDE DEF S
<1>4. m \in S /\ \A i \in S : m <= i
  BY <1>2, MinFacts
<1> HIDE DEF m
<1>5. m - 1 \in 0..Len(s) /\ (m - 1) + 1 = m
  BY <1>1, <1>2, <1>4
<1>6. ASSUME NEW i \in 1..(m - 1) PROVE s[i] = Blank
  <2>1. i \in 1..Len(s) /\ ~(m <= i)
    BY <1>1, <1>5
  <2>2. i \notin S
    BY <1>4, <2>1
  <2> QED
    BY <1>1, <2>1, <2>2 DEF S, NonBlank
<1> QED
  BY <1>3, <1>5, <1>6

(* Cut leaves the file as it is, or takes out the lines from the first begin *)
(* to the first end after it and the blank lines behind.                     *)
LEMMA CutFacts ==
    ASSUME NEW Value, NEW s \in Seq(Value), Cut(s) # s
    PROVE  \E start, stop \in 1..Len(s) :
              /\ start < stop
              /\ s[start] = Begin /\ \A i \in 1..(start - 1) : s[i] # Begin
              /\ s[stop] = End /\ \A i \in (start + 1)..(stop - 1) : s[i] # End
              /\ Cut(s) = SubSeq(s, 1, start - 1)
                             \o SkipBlanks(SubSeq(s, stop + 1, Len(s)))
<1> DEFINE start == Min(Begins(s))
           stop == Min(EndsAfter(s, start))
<1>1. Len(s) \in Nat /\ DOMAIN s = 1..Len(s)
  BY LenProperties
<1>2. Begins(s) # {} /\ EndsAfter(s, start) # {}
  BY DEF Cut
<1>3. Cut(s) = SubSeq(s, 1, start - 1) \o SkipBlanks(SubSeq(s, stop + 1, Len(s)))
  BY <1>2 DEF Cut
<1>4. Begins(s) \subseteq Nat
  BY <1>1 DEF Begins
<1>5. EndsAfter(s, start) \subseteq Nat
  BY <1>1 DEF EndsAfter
<1>6. start \in Begins(s) /\ \A i \in Begins(s) : start <= i
  BY <1>2, <1>4, MinFacts
<1>7. stop \in EndsAfter(s, start) /\ \A i \in EndsAfter(s, start) : stop <= i
  BY <1>2, <1>5, MinFacts
<1> HIDE DEF start, stop
<1>8. start \in 1..Len(s) /\ s[start] = Begin
  BY <1>1, <1>6 DEF Begins
<1>9. stop \in 1..Len(s) /\ s[stop] = End /\ start < stop
  BY <1>1, <1>7, <1>8 DEF EndsAfter
<1>10. ASSUME NEW i \in 1..(start - 1) PROVE s[i] # Begin
  BY <1>1, <1>6, <1>8 DEF Begins
<1>11. ASSUME NEW i \in (start + 1)..(stop - 1) PROVE s[i] # End
  BY <1>1, <1>7, <1>8, <1>9 DEF EndsAfter
<1> QED
  BY <1>3, <1>8, <1>9, <1>10, <1>11

-------------------------------------------------------------------------------
(* The user's lines.                                                         *)

(* The lines of a file without a block.                                      *)
Plain == UserLines \cup {Blank}

(* Between a begin and an end there is no line of the user.                  *)
NoneInside(s) ==
    \A b \in Begins(s) : \A e \in EndsAfter(s, b) :
        \A i \in b..e : s[i] \notin UserLines

(* The markers, the blank line, host names and user lines are distinct       *)
(* lines.                                                                    *)
LEMMA DistinctLines ==
    /\ Begin # End /\ Begin # Blank /\ End # Blank
    /\ Begin \notin Plain /\ End \notin Plain
    /\ \A h \in Hosts : h \notin Plain /\ h \notin {Begin, End, Blank}
    /\ \A l \in UserLines : l \notin {Begin, End, Blank} /\ l \notin Hosts
    /\ Begin \in Line /\ End \in Line /\ Blank \in Line
    /\ UserLines \subseteq Line /\ Hosts \subseteq Line /\ Plain \subseteq Line
BY LineAssumption DEF Line, Plain

(* Lines none of which is the user's.                                        *)
LEMMA NoUserLines ==
    ASSUME NEW Value, NEW s \in Seq(Value), \A i \in 1..Len(s) : s[i] \notin UserLines
    PROVE  OfUser(s) = <<>>
<1>1. s \in Seq(Value \ UserLines)
  <2>1. \A i \in 1..Len(s) : s[i] \in Value \ UserLines
    BY ElementOfSeq
  <2> QED
    BY <2>1, AllInSet
<1>2. (Value \ UserLines) \cap UserLines = {}
  OBVIOUS
<1> QED
  BY <1>1, <1>2, OnlyNone DEF OfUser

(* The user's lines of two texts, and of one whose other part has none.      *)
LEMMA OfUserType ==
    ASSUME NEW Value, NEW s \in Seq(Value)
    PROVE  OfUser(s) \in Seq(Value)
BY OnlyOfValue DEF OfUser

LEMMA OfUserConcat ==
    ASSUME NEW Value, NEW s \in Seq(Value), NEW t \in Seq(Value)
    PROVE  OfUser(s \o t) = OfUser(s) \o OfUser(t)
BY OnlyOfConcat DEF OfUser

LEMMA OfUserFirst ==
    ASSUME NEW Value, NEW s \in Seq(Value), NEW t \in Seq(Value), OfUser(t) = <<>>
    PROVE  OfUser(s \o t) = OfUser(s)
<1>1. OfUser(s) \in Seq(Value)
  BY OfUserType
<1>2. OfUser(s \o t) = OfUser(s) \o OfUser(t)
  BY OfUserConcat
<1>3. OfUser(s) \o <<>> = OfUser(s)
  BY <1>1, ConcatEmptySeq
<1> QED
  BY <1>2, <1>3

LEMMA OfUserSecond ==
    ASSUME NEW Value, NEW s \in Seq(Value), NEW t \in Seq(Value), OfUser(s) = <<>>
    PROVE  OfUser(s \o t) = OfUser(t)
<1>1. OfUser(t) \in Seq(Value)
  BY OfUserType
<1>2. OfUser(s \o t) = OfUser(s) \o OfUser(t)
  BY OfUserConcat
<1>3. <<>> \o OfUser(t) = OfUser(t)
  BY <1>1, ConcatEmptySeq
<1> QED
  BY <1>2, <1>3

(* Blank lines go without a line of the user's.                              *)
LEMMA TrimKeepsUserLines ==
    ASSUME NEW s \in Seq(Line)
    PROVE  TrimRight(s) \in Seq(Line) /\ OfUser(TrimRight(s)) = OfUser(s)
<1>0. Len(s) \in Nat
  BY LenProperties
<1>1. PICK n \in 0..Len(s) : /\ TrimRight(s) = SubSeq(s, 1, n)
                             /\ \A i \in (n + 1)..Len(s) : s[i] = Blank
  BY TrimFacts
<1> DEFINE a == SubSeq(s, 1, n)
           z == SubSeq(s, n + 1, Len(s))
<1>2. a \in Seq(Line) /\ z \in Seq(Line) /\ s = a \o z
  BY TwoPieces
<1>3. \A i \in 1..Len(z) : z[i] \notin UserLines
  <2>1. /\ Len(z) = IF n + 1 <= Len(s) THEN Len(s) - (n + 1) + 1 ELSE 0
        /\ \A i \in 1..(Len(s) - (n + 1) + 1) : z[i] = s[n + 1 + i - 1]
    BY <1>0, PieceFacts
  <2> HIDE DEF z
  <2>2. ASSUME NEW i \in 1..Len(z) PROVE z[i] = Blank
    <3>1. i \in 1..(Len(s) - (n + 1) + 1) /\ n + 1 + i - 1 \in (n + 1)..Len(s)
      BY <1>0, <2>1
    <3> QED
      BY <1>1, <2>1, <3>1
  <2> QED
    BY <2>2, DistinctLines
<1>4. OfUser(z) = <<>>
  BY <1>2, <1>3, NoUserLines
<1> HIDE DEF a, z
<1>5. OfUser(a \o z) = OfUser(a)
  BY <1>2, <1>4, OfUserFirst
<1> QED
  BY <1>1, <1>2, <1>5 DEF a

LEMMA SkipKeepsUserLines ==
    ASSUME NEW s \in Seq(Line)
    PROVE  SkipBlanks(s) \in Seq(Line) /\ OfUser(SkipBlanks(s)) = OfUser(s)
<1>0. Len(s) \in Nat
  BY LenProperties
<1>1. PICK n \in 0..Len(s) : /\ SkipBlanks(s) = SubSeq(s, n + 1, Len(s))
                             /\ \A i \in 1..n : s[i] = Blank
  BY SkipFacts
<1> DEFINE a == SubSeq(s, 1, n)
           z == SubSeq(s, n + 1, Len(s))
<1>2. a \in Seq(Line) /\ z \in Seq(Line) /\ s = a \o z
  BY TwoPieces
<1>3. \A i \in 1..Len(a) : a[i] \notin UserLines
  <2>1. Len(a) = n /\ \A i \in 1..n : a[i] = s[i]
    <3>1. /\ Len(a) = IF 1 <= n THEN n - 1 + 1 ELSE 0
          /\ \A i \in 1..(n - 1 + 1) : a[i] = s[1 + i - 1]
      BY <1>0, PieceFacts
    <3> HIDE DEF a
    <3>2. Len(a) = n
      BY <1>0, <3>1
    <3>3. ASSUME NEW i \in 1..n PROVE a[i] = s[i]
      <4>1. i \in 1..(n - 1 + 1) /\ 1 + i - 1 = i
        BY <1>0
      <4> QED
        BY <3>1, <4>1
    <3> QED
      BY <3>2, <3>3
  <2> QED
    BY <1>1, <2>1, DistinctLines
<1>4. OfUser(a) = <<>>
  BY <1>2, <1>3, NoUserLines
<1> HIDE DEF a, z
<1>5. OfUser(a \o z) = OfUser(z)
  BY <1>2, <1>4, OfUserSecond
<1> QED
  BY <1>1, <1>2, <1>5 DEF z

(* Cut returns lines, and all of the user's if none of them is in the block. *)
LEMMA CutType ==
    ASSUME NEW s \in Seq(Line)
    PROVE  Cut(s) \in Seq(Line)
<1>1. CASE Cut(s) = s
  BY <1>1
<1>2. CASE Cut(s) # s
  <2>0. Len(s) \in Nat
    BY LenProperties
  <2>1. PICK start, stop \in 1..Len(s) :
           Cut(s) = SubSeq(s, 1, start - 1) \o SkipBlanks(SubSeq(s, stop + 1, Len(s)))
    BY <1>2, CutFacts
  <2>2. start - 1 \in 0..Len(s) /\ stop \in 0..Len(s)
    BY <2>0
  <2>3. SubSeq(s, 1, start - 1) \in Seq(Line) /\ SubSeq(s, stop + 1, Len(s)) \in Seq(Line)
    BY <2>2, TwoPieces
  <2>4. SkipBlanks(SubSeq(s, stop + 1, Len(s))) \in Seq(Line)
    BY <2>3, SkipKeepsUserLines
  <2> QED
    BY <2>1, <2>3, <2>4, ConcatProperties
<1> QED
  BY <1>1, <1>2

LEMMA CutKeepsUserLines ==
    ASSUME NEW s \in Seq(Line), NoneInside(s)
    PROVE  OfUser(Cut(s)) = OfUser(s)
<1>1. CASE Cut(s) = s
  BY <1>1
<1>2. CASE Cut(s) # s
  <2>0. Len(s) \in Nat /\ DOMAIN s = 1..Len(s)
    BY LenProperties
  <2>1. PICK start, stop \in 1..Len(s) :
           /\ start < stop /\ s[start] = Begin /\ s[stop] = End
           /\ Cut(s) = SubSeq(s, 1, start - 1) \o SkipBlanks(SubSeq(s, stop + 1, Len(s)))
    BY <1>2, CutFacts
  <2> DEFINE a == SubSeq(s, 1, start - 1)
             r == SubSeq(s, start, Len(s))
             n == stop - start + 1
             m == SubSeq(r, 1, n)
             y == SubSeq(r, n + 1, Len(r))
             z == SubSeq(s, stop + 1, Len(s))
  <2>2. start - 1 \in 0..Len(s) /\ (start - 1) + 1 = start /\ stop \in 0..Len(s)
    BY <2>0
  <2>3. a \in Seq(Line) /\ r \in Seq(Line) /\ s = a \o r
    BY <2>2, TwoPieces
  <2>4. Len(r) = Len(s) - start + 1 /\ \A i \in 1..Len(r) : r[i] = s[start + i - 1]
    <3>1. /\ Len(r) = IF start <= Len(s) THEN Len(s) - start + 1 ELSE 0
          /\ \A i \in 1..(Len(s) - start + 1) : r[i] = s[start + i - 1]
      BY <2>0, PieceFacts
    <3> HIDE DEF r
    <3> QED
      BY <2>0, <3>1
  <2>5. n \in 0..Len(r)
    <3> HIDE DEF r
    <3> QED
      BY <2>0, <2>1, <2>4
  <2>6. m \in Seq(Line) /\ y \in Seq(Line) /\ r = m \o y
    <3> HIDE DEF r, n
    <3> QED
      BY <2>3, <2>5, TwoPieces
  <2>7. z \in Seq(Line)
    BY <2>2, TwoPieces
  <2>8. y = z
    <3>1. /\ Len(y) = IF n + 1 <= Len(r) THEN Len(r) - (n + 1) + 1 ELSE 0
          /\ \A i \in 1..(Len(r) - (n + 1) + 1) : y[i] = r[n + 1 + i - 1]
      <4> HIDE DEF r, n
      <4>1. n + 1 \in Nat /\ Len(r) \in Nat /\ 1 <= n + 1
        BY <2>5, <2>3, LenProperties
      <4> QED
        BY <2>3, <4>1, PieceFacts
    <3>2. /\ Len(z) = IF stop + 1 <= Len(s) THEN Len(s) - (stop + 1) + 1 ELSE 0
          /\ \A i \in 1..(Len(s) - (stop + 1) + 1) : z[i] = s[stop + 1 + i - 1]
      BY <2>0, PieceFacts
    <3> HIDE DEF r, y, z
    <3>3. n + Len(z) = Len(r) /\ Len(r) \in Nat /\ n \in Nat /\ Len(s) - stop \in Nat
      <4>1. Len(r) = Len(s) - start + 1
        BY <2>4
      <4>2. Len(z) = IF stop + 1 <= Len(s) THEN Len(s) - (stop + 1) + 1 ELSE 0
        BY <3>2
      <4>3. start < stop
        BY <2>1
      <4> QED
        <5>1. Len(s) \in Nat /\ start \in 1..Len(s) /\ stop \in 1..Len(s)
          BY <2>0
        <5>2. n \in Nat /\ Len(s) - stop \in Nat
          BY <5>1, <4>3
        <5>3. Len(r) \in Nat
          BY <5>1, <4>1
        <5>4. Len(z) = Len(s) - stop
          BY <5>1, <4>2
        <5>5. n + Len(z) = Len(r)
          BY <5>1, <4>1, <5>4
        <5> QED
          BY <5>2, <5>3, <5>5
    <3>4. Len(y) = Len(z) /\ Len(y) \in Nat /\ Len(y) = Len(s) - stop
      <4> HIDE DEF n
      <4>1. stop \in Nat /\ Len(s) \in Nat /\ stop <= Len(s)
        BY <2>0
      <4>2. Len(z) = Len(s) - stop
        BY <3>2, <4>1
      <4>3. Len(y) = Len(r) - n
        BY <3>3, <3>1
      <4>4. Len(r) - n = Len(z)
        BY <3>3, <4>1, <4>2
      <4> QED
        BY <3>3, <4>1, <4>2, <4>3, <4>4
    <3>5. ASSUME NEW i \in 1..Len(y) PROVE y[i] = z[i]
      <4>1. /\ i \in 1..(Len(r) - (n + 1) + 1) /\ i \in 1..(Len(s) - (stop + 1) + 1)
            /\ n + 1 + i - 1 \in 1..Len(r)
            /\ start + (n + 1 + i - 1) - 1 = stop + 1 + i - 1
        BY <2>0, <3>3, <3>4
      <4> QED
        BY <2>4, <3>1, <3>2, <4>1
    <3> QED
      BY <2>6, <2>7, <3>4, <3>5, SeqEqual
  <2>9. OfUser(m) = <<>>
    <3>1. /\ Len(m) = IF 1 <= n THEN n - 1 + 1 ELSE 0
          /\ \A i \in 1..(n - 1 + 1) : m[i] = r[1 + i - 1]
      <4> HIDE DEF r, n
      <4>1. n \in Nat /\ n <= Len(r)
        BY <2>5, <2>3, LenProperties
      <4> QED
        BY <2>3, <4>1, PieceFacts
    <3> HIDE DEF r, m
    <3>2. ASSUME NEW i \in 1..Len(m) PROVE m[i] \notin UserLines
      <4>1. start \in Begins(s) /\ stop \in EndsAfter(s, start)
        BY <2>0, <2>1 DEF Begins, EndsAfter
      <4>2. /\ i \in 1..(n - 1 + 1) /\ i \in 1..Len(r) /\ 1 + i - 1 = i
            /\ start + i - 1 \in start..stop
        BY <2>0, <2>1, <2>4, <2>5, <3>1
      <4>3. m[i] = s[start + i - 1]
        BY <2>4, <3>1, <4>2
      <4> QED
        BY <4>1, <4>2, <4>3 DEF NoneInside
    <3> QED
      BY <2>6, <3>2, NoUserLines
  <2> HIDE DEF a, r, m, y, z
  <2>10. OfUser(r) = OfUser(z)
    BY <2>6, <2>8, <2>9, OfUserSecond
  <2>11. OfUser(a \o r) = OfUser(a) \o OfUser(r)
    BY <2>3, OfUserConcat
  <2>12. SkipBlanks(z) \in Seq(Line) /\ OfUser(SkipBlanks(z)) = OfUser(z)
    BY <2>7, SkipKeepsUserLines
  <2>13. OfUser(a \o SkipBlanks(z)) = OfUser(a) \o OfUser(SkipBlanks(z))
    BY <2>3, <2>12, OfUserConcat
  <2>14. Cut(s) = a \o SkipBlanks(z)
    BY <2>1 DEF a, z
  <2> QED
    BY <2>3, <2>10, <2>11, <2>12, <2>13, <2>14
<1> QED
  BY <1>1, <1>2

-------------------------------------------------------------------------------
(* Trim and Cut.                                                             *)

(* Trimming and skipping keep whatever holds of each line.                   *)
LEMMA TrimType ==
    ASSUME NEW Value, NEW s \in Seq(Value)
    PROVE  /\ TrimRight(s) \in Seq(Value)
           /\ TrimRight(s) # <<>> => TrimRight(s)[Len(TrimRight(s))] # Blank
<1>0. Len(s) \in Nat
  BY LenProperties
<1>1. PICK n \in 0..Len(s) : TrimRight(s) = SubSeq(s, 1, n) /\ (n # 0 => s[n] # Blank)
  BY TrimFacts
<1> DEFINE t == SubSeq(s, 1, n)
<1>2. t \in Seq(Value)
  BY TwoPieces
<1>3. /\ Len(t) = IF 1 <= n THEN n - 1 + 1 ELSE 0
      /\ \A i \in 1..(n - 1 + 1) : t[i] = s[1 + i - 1]
  BY <1>0, PieceFacts
<1> HIDE DEF t
<1>4. ASSUME t # <<>> PROVE t[Len(t)] # Blank
  <2>1. Len(t) # 0 /\ Len(t) \in Nat
    BY <1>2, <1>4, EmptySeq
  <2>2. n # 0 /\ Len(t) = n /\ n \in 1..(n - 1 + 1) /\ 1 + n - 1 = n
    BY <1>0, <1>3, <2>1
  <2>3. t[n] = s[n]
    BY <1>3, <2>2
  <2> QED
    BY <1>1, <2>2, <2>3
<1>5. TrimRight(s) = t
  BY <1>1 DEF t
<1> QED
  BY <1>2, <1>4, <1>5

LEMMA SkipType ==
    ASSUME NEW Value, NEW s \in Seq(Value)
    PROVE  SkipBlanks(s) \in Seq(Value)
<1>1. PICK n \in 0..Len(s) : SkipBlanks(s) = SubSeq(s, n + 1, Len(s))
  BY SkipFacts
<1> QED
  BY <1>1, TwoPieces

(* Blank lines behind a text that ends with another line are trimmed, and    *)
(* nothing else.                                                             *)
LEMMA TrimOfTrimmed ==
    ASSUME NEW Value, NEW k \in Seq(Value), NEW z \in Seq(Value),
           k # <<>> => k[Len(k)] # Blank,
           \A i \in 1..Len(z) : z[i] = Blank
    PROVE  TrimRight(k \o z) = k
<1> DEFINE u == k \o z
<1>1. /\ u \in Seq(Value) /\ Len(u) = Len(k) + Len(z)
      /\ \A i \in 1..(Len(k) + Len(z)) : u[i] = IF i <= Len(k) THEN k[i] ELSE z[i - Len(k)]
  BY ConcatProperties
<1>2. Len(k) \in Nat /\ Len(z) \in Nat
  BY LenProperties
<1> HIDE DEF u
<1>3. PICK n \in 0..Len(u) : /\ TrimRight(u) = SubSeq(u, 1, n)
                             /\ n # 0 => u[n] # Blank
                             /\ \A i \in (n + 1)..Len(u) : u[i] = Blank
  BY <1>1, TrimFacts
<1>4. ~(Len(k) < n)
  <2>1. SUFFICES ASSUME Len(k) < n PROVE FALSE
    OBVIOUS
  <2>2. n \in 1..(Len(k) + Len(z)) /\ ~(n <= Len(k)) /\ n - Len(k) \in 1..Len(z) /\ n # 0
    BY <1>1, <1>2, <2>1
  <2>3. u[n] = z[n - Len(k)]
    BY <1>1, <2>2
  <2> QED
    BY <1>3, <2>2, <2>3
<1>5. ~(n < Len(k))
  <2>1. SUFFICES ASSUME n < Len(k) PROVE FALSE
    OBVIOUS
  <2>2. /\ Len(k) \in (n + 1)..Len(u) /\ Len(k) \in 1..(Len(k) + Len(z)) /\ Len(k) <= Len(k)
        /\ Len(k) # 0
    BY <1>1, <1>2, <2>1
  <2>3. u[Len(k)] = k[Len(k)]
    BY <1>1, <2>2
  <2>4. k # <<>>
    BY <2>2, EmptySeq
  <2> QED
    BY <1>3, <2>2, <2>3, <2>4
<1>6. n = Len(k)
  BY <1>1, <1>2, <1>4, <1>5
<1> DEFINE t == SubSeq(u, 1, n)
<1>7. t \in Seq(Value)
  BY <1>1, TwoPieces
<1>8. /\ Len(t) = IF 1 <= n THEN n - 1 + 1 ELSE 0
      /\ \A i \in 1..(n - 1 + 1) : t[i] = u[1 + i - 1]
  <2>1. n \in Nat /\ n <= Len(u)
    BY <1>1, <1>2, <1>6
  <2> QED
    BY <1>1, <2>1, PieceFacts
<1>9. TrimRight(u) = t
  BY <1>3
<1> HIDE DEF t
<1>10. Len(t) = Len(k)
  BY <1>2, <1>6, <1>8
<1>11. ASSUME NEW i \in 1..Len(t) PROVE t[i] = k[i]
  <2>1. /\ i \in 1..(n - 1 + 1) /\ 1 + i - 1 = i /\ i \in 1..(Len(k) + Len(z)) /\ i <= Len(k)
    BY <1>2, <1>6, <1>10
  <2>2. t[i] = u[i]
    BY <1>8, <2>1
  <2> QED
    BY <1>1, <2>1, <2>2
<1>12. t = k
  BY <1>7, <1>10, <1>11, SeqEqual
<1> QED
  BY <1>9, <1>12 DEF u

(* The smallest of one number.                                               *)
LEMMA MinSingleton ==
    ASSUME NEW x \in Nat
    PROVE  Min({x}) = x
<1>1. {x} \subseteq Nat /\ {x} # {}
  OBVIOUS
<1>2. Min({x}) \in {x}
  BY <1>1, MinFacts
<1> QED
  BY <1>2

(* A file without markers and host names has nothing to cut.                 *)
LEMMA CutPlain ==
    ASSUME NEW s \in Seq(Plain)
    PROVE  Cut(s) = s
<1>1. Begins(s) = {}
  BY LenProperties, ElementOfSeq, DistinctLines DEF Begins
<1> QED
  BY <1>1 DEF Cut

(* What Cut leaves of a file with one block.                                 *)
LEMMA CutOneBlock ==
    ASSUME NEW s \in Seq(Line), NEW b \in Nat, NEW e \in Nat,
           Begins(s) = {b}, EndsAfter(s, b) = {e}
    PROVE  Cut(s) = SubSeq(s, 1, b - 1) \o SkipBlanks(SubSeq(s, e + 1, Len(s)))
<1>1. Min(Begins(s)) = b
  BY MinSingleton
<1>2. Min(EndsAfter(s, Min(Begins(s)))) = e
  BY <1>1, MinSingleton
<1> QED
  BY <1>1, <1>2 DEF Cut

(* Cut leaves no marker and no host name of a file with one block at most.   *)
LEMMA CutOfPaired ==
    ASSUME NEW s \in Seq(Line), Paired(s)
    PROVE  Cut(s) \in Seq(Plain)
<1>0. Len(s) \in Nat /\ DOMAIN s = 1..Len(s) /\ \A i \in 1..Len(s) : s[i] \in Line
  BY LenProperties, ElementOfSeq
<1>1. CASE Range(s) \cap ({Begin, End} \cup Hosts) = {}
  <2>1. \A i \in 1..Len(s) : s[i] \notin {Begin, End} \cup Hosts
    BY <1>0, <1>1 DEF Range
  <2>2. \A i \in 1..Len(s) : s[i] \in Plain
    BY <1>0, <2>1 DEF Line, Plain
  <2>3. s \in Seq(Plain)
    BY <2>2, AllInSet
  <2> QED
    BY <2>3, CutPlain
<1>2. CASE \E b, e \in DOMAIN s :
              /\ b < e
              /\ Begins(s) = {b}
              /\ EndsAfter(s, 0) = {e}
              /\ \A i \in DOMAIN s : s[i] \in Hosts => b < i /\ i < e
  <2>1. PICK b, e \in 1..Len(s) :
              /\ b < e
              /\ Begins(s) = {b}
              /\ EndsAfter(s, 0) = {e}
              /\ \A i \in 1..Len(s) : s[i] \in Hosts => b < i /\ i < e
    BY <1>0, <1>2
  <2>2. \A i \in 1..Len(s) : (s[i] = Begin <=> i = b) /\ (s[i] = End <=> i = e)
    BY <1>0, <2>1 DEF Begins, EndsAfter
  <2>3. EndsAfter(s, b) = {e}
    BY <1>0, <2>1, <2>2 DEF EndsAfter
  <2>4. b \in Nat /\ e \in Nat
    BY <1>0
  <2> DEFINE a == SubSeq(s, 1, b - 1)
             z == SubSeq(s, e + 1, Len(s))
  <2>5. Cut(s) = a \o SkipBlanks(z)
    BY <2>1, <2>3, <2>4, CutOneBlock
  <2>6. \A i \in 1..Len(s) : i < b \/ i > e => s[i] \in Plain
    BY <1>0, <2>1, <2>2 DEF Line, Plain
  <2>7. a \in Seq(Plain)
    <3>1. \A i \in 1..(b - 1) : s[i] \in Plain
      BY <1>0, <2>1, <2>6
    <3>2. 1 \in Int /\ b - 1 \in Int
      BY <2>4
    <3> QED
      BY <3>1, <3>2, SubSeqProperties
  <2>8. z \in Seq(Plain)
    <3>1. \A i \in (e + 1)..Len(s) : s[i] \in Plain
      BY <1>0, <2>1, <2>6
    <3>2. e + 1 \in Int /\ Len(s) \in Int
      BY <1>0, <2>4
    <3> QED
      BY <3>1, <3>2, SubSeqProperties
  <2> HIDE DEF a, z
  <2>9. SkipBlanks(z) \in Seq(Plain)
    BY <2>8, SkipType
  <2> QED
    BY <2>5, <2>7, <2>9, ConcatProperties
<1> QED
  BY <1>1, <1>2 DEF Paired

-------------------------------------------------------------------------------
(* The block.                                                                *)

(* The block: its markers around lines of host names.                        *)
LEMMA BlockFacts ==
    ASSUME NEW routes \in SUBSET Hosts
    PROVE  /\ Block(routes) \in Seq(Line)
           /\ Len(Block(routes)) >= 2
           /\ Block(routes)[1] = Begin
           /\ Block(routes)[Len(Block(routes))] = End
           /\ \A i \in 2..(Len(Block(routes)) - 1) : Block(routes)[i] \in Hosts
<1> DEFINE h == Only(HostOrder, routes)
           p == <<Begin>> \o h
           u == p \o <<End>>
<1>1. h \in Seq(Hosts)
  BY HostOrderAssumption, OnlyOfValue
<1> HIDE DEF h
<1>2. /\ h \in Seq(Line) /\ <<Begin>> \in Seq(Line) /\ <<End>> \in Seq(Line)
      /\ Len(h) \in Nat /\ \A i \in 1..Len(h) : h[i] \in Hosts
  <2>1. h \in Seq(Line)
    BY <1>1, DistinctLines, SeqMonotonic
  <2>2. <<Begin>> \in Seq(Line) /\ <<End>> \in Seq(Line)
    BY DistinctLines
  <2> QED
    BY <1>1, <2>1, <2>2, LenProperties, ElementOfSeq
<1>3. /\ p \in Seq(Line) /\ Len(p) = 1 + Len(h)
      /\ \A i \in 1..(1 + Len(h)) : p[i] = IF i <= 1 THEN <<Begin>>[i] ELSE h[i - 1]
  <2>1. Len(<<Begin>>) = 1
    OBVIOUS
  <2> QED
    BY <1>2, <2>1, ConcatProperties
<1> HIDE DEF p
<1>4. /\ u \in Seq(Line) /\ Len(u) = Len(p) + 1
      /\ \A i \in 1..(Len(p) + 1) : u[i] = IF i <= Len(p) THEN p[i] ELSE <<End>>[i - Len(p)]
  <2>1. Len(<<End>>) = 1
    OBVIOUS
  <2> QED
    BY <1>2, <1>3, <2>1, ConcatProperties
<1>5. Block(routes) = u
  BY DEF Block, u, p, h
<1> HIDE DEF u
<1>6. Len(u) = Len(h) + 2
  BY <1>2, <1>3, <1>4
<1>7. u[1] = Begin
  <2>1. u[1] = p[1]
    BY <1>2, <1>3, <1>4
  <2>2. p[1] = <<Begin>>[1]
    BY <1>2, <1>3
  <2> QED
    BY <2>1, <2>2
<1>8. u[Len(u)] = End
  <2>1. Len(u) \in 1..(Len(p) + 1) /\ ~(Len(u) <= Len(p)) /\ Len(u) - Len(p) = 1
    BY <1>2, <1>3, <1>4
  <2>2. u[Len(u)] = <<End>>[1]
    BY <1>4, <2>1
  <2> QED
    BY <2>2
<1>9. ASSUME NEW i \in 2..(Len(u) - 1) PROVE u[i] \in Hosts
  <2>1. /\ i \in 1..(Len(p) + 1) /\ i <= Len(p) /\ i \in 1..(1 + Len(h)) /\ ~(i <= 1)
        /\ i - 1 \in 1..Len(h)
    BY <1>2, <1>3, <1>6
  <2>2. u[i] = p[i] /\ p[i] = h[i - 1]
    BY <1>3, <1>4, <2>1
  <2> QED
    BY <1>2, <2>1, <2>2
<1>10. Len(u) >= 2
  BY <1>2, <1>6
<1> QED
  BY <1>4, <1>5, <1>7, <1>8, <1>9, <1>10

(* A text without a block, and the block behind it.                          *)
LEMMA BlockAppended ==
    ASSUME NEW p \in Seq(Plain), NEW routes \in SUBSET Hosts, NEW u,
           u = p \o Block(routes)
    PROVE  /\ u \in Seq(Line) /\ Len(u) > Len(p) + 1
           /\ Begins(u) = {Len(p) + 1}
           /\ EndsAfter(u, 0) = {Len(u)} /\ EndsAfter(u, Len(p) + 1) = {Len(u)}
           /\ \A i \in 1..Len(p) : u[i] = p[i] /\ u[i] \in Plain
           /\ \A i \in (Len(p) + 1)..Len(u) : u[i] \notin UserLines
<1> DEFINE k == Block(routes)
           n == Len(p)
<1>1. /\ k \in Seq(Line) /\ Len(k) >= 2 /\ k[1] = Begin /\ k[Len(k)] = End
      /\ \A i \in 2..(Len(k) - 1) : k[i] \in Hosts
  BY BlockFacts
<1> HIDE DEF k
<1>2. p \in Seq(Line) /\ Len(k) \in Nat /\ n \in Nat
  BY <1>1, DistinctLines, SeqMonotonic, LenProperties
<1>3. /\ u \in Seq(Line) /\ Len(u) = n + Len(k)
      /\ \A i \in 1..(n + Len(k)) : u[i] = IF i <= n THEN p[i] ELSE k[i - n]
  <2>1. u = p \o k
    BY DEF k
  <2> QED
    BY <1>1, <1>2, <2>1, ConcatProperties
<1>4. DOMAIN u = 1..Len(u)
  BY <1>3, LenProperties
<1>5. ASSUME NEW i \in 1..n PROVE u[i] = p[i] /\ u[i] \in Plain
  <2>1. i \in 1..(n + Len(k)) /\ i <= n
    BY <1>2
  <2>2. p[i] \in Plain
    BY ElementOfSeq
  <2> QED
    BY <1>3, <2>1, <2>2
<1> HIDE DEF n
<1>6. u[n + 1] = Begin
  <2>1. n + 1 \in 1..(n + Len(k)) /\ ~(n + 1 <= n) /\ (n + 1) - n = 1
    BY <1>1, <1>2
  <2> QED
    BY <1>1, <1>3, <2>1
<1>7. u[Len(u)] = End
  <2>1. Len(u) \in 1..(n + Len(k)) /\ ~(Len(u) <= n) /\ Len(u) - n = Len(k)
    BY <1>1, <1>2, <1>3
  <2> QED
    BY <1>1, <1>3, <2>1
<1>8. ASSUME NEW i \in (n + 2)..(Len(u) - 1) PROVE u[i] \in Hosts
  <2>1. i \in 1..(n + Len(k)) /\ ~(i <= n) /\ i - n \in 2..(Len(k) - 1)
    BY <1>1, <1>2, <1>3
  <2> QED
    BY <1>1, <1>3, <2>1
<1>9. ASSUME NEW i \in 1..Len(u)
      PROVE  i \in 1..n \/ i = n + 1 \/ i = Len(u) \/ i \in (n + 2)..(Len(u) - 1)
  <2>1. Len(u) \in Nat
    BY <1>2, <1>3
  <2>2. ASSUME ~(i \in 1..n), i # n + 1, i # Len(u) PROVE i \in (n + 2)..(Len(u) - 1)
    <3>1. i \in Int /\ i > n /\ i > n + 1 /\ i < Len(u)
      BY <1>2, <2>1, <2>2
    <3> QED
      BY <1>2, <2>1, <3>1
  <2> QED
    BY <2>2
<1>10. ASSUME NEW i \in 1..Len(u)
       PROVE (u[i] = Begin <=> i = n + 1) /\ (u[i] = End <=> i = Len(u))
  <2>1. i \in 1..n => u[i] # Begin /\ u[i] # End /\ i # n + 1 /\ i # Len(u)
    BY <1>1, <1>2, <1>3, <1>5, DistinctLines
  <2>2. i \in (n + 2)..(Len(u) - 1) => u[i] # Begin /\ u[i] # End /\ i # n + 1 /\ i # Len(u)
    BY <1>1, <1>2, <1>3, <1>8, DistinctLines
  <2>3. n + 1 # Len(u)
    BY <1>1, <1>2, <1>3
  <2> QED
    BY <1>6, <1>7, <1>9, <2>1, <2>2, <2>3, DistinctLines
<1>11. n + 1 \in 1..Len(u) /\ Len(u) \in 1..Len(u) /\ Len(u) > n + 1 /\ n + 1 > 0
  BY <1>1, <1>2, <1>3
<1>12. Begins(u) = {n + 1}
  BY <1>4, <1>10, <1>11 DEF Begins
<1>13. EndsAfter(u, 0) = {Len(u)} /\ EndsAfter(u, n + 1) = {Len(u)}
  BY <1>4, <1>10, <1>11 DEF EndsAfter
<1>14. ASSUME NEW i \in (n + 1)..Len(u) PROVE u[i] \notin UserLines
  <2>0. i \in 1..Len(u) /\ i \notin 1..n
    BY <1>2, <1>3
  <2>1. i = n + 1 \/ i = Len(u) \/ i \in (n + 2)..(Len(u) - 1)
    BY <1>9, <2>0
  <2> QED
    BY <1>6, <1>7, <1>8, <2>1, DistinctLines
<1> QED
  BY <1>3, <1>5, <1>11, <1>12, <1>13, <1>14 DEF n

(* A block behind a text without one is the only block, and Cut takes it     *)
(* away again.                                                               *)
LEMMA AppendedIsPaired ==
    ASSUME NEW p \in Seq(Plain), NEW routes \in SUBSET Hosts
    PROVE  /\ Paired(p \o Block(routes))
           /\ NoneInside(p \o Block(routes))
           /\ Cut(p \o Block(routes)) = p
<1> DEFINE u == p \o Block(routes)
           n == Len(p)
<1>1. /\ u \in Seq(Line) /\ Len(u) > n + 1
      /\ Begins(u) = {n + 1}
      /\ EndsAfter(u, 0) = {Len(u)} /\ EndsAfter(u, n + 1) = {Len(u)}
      /\ \A i \in 1..n : u[i] = p[i] /\ u[i] \in Plain
      /\ \A i \in (n + 1)..Len(u) : u[i] \notin UserLines
  BY BlockAppended
<1> HIDE DEF u
<1>2. n \in Nat /\ Len(u) \in Nat /\ DOMAIN u = 1..Len(u)
  BY <1>1, LenProperties
<1>3. Paired(u)
  <2>1. n + 1 \in DOMAIN u /\ Len(u) \in DOMAIN u /\ n + 1 < Len(u)
    BY <1>1, <1>2
  <2>2. ASSUME NEW i \in DOMAIN u, u[i] \in Hosts PROVE n + 1 < i /\ i < Len(u)
    <3>1. i \notin 1..n
      BY <1>1, <2>2, DistinctLines
    <3>2. u[n + 1] = Begin /\ u[Len(u)] = End
      BY <1>1 DEF Begins, EndsAfter
    <3>3. i # n + 1 /\ i # Len(u)
      BY <2>2, <3>2, DistinctLines
    <3> QED
      BY <1>2, <3>1, <3>3
  <2> QED
    BY <1>1, <2>1, <2>2 DEF Paired
<1>4. NoneInside(u)
  <2> HIDE DEF n
  <2> QED
    BY <1>1 DEF NoneInside
<1>5. Cut(u) = p
  <2> DEFINE a == SubSeq(u, 1, n)
             z == SubSeq(u, Len(u) + 1, Len(u))
  <2>1. Cut(u) = SubSeq(u, 1, (n + 1) - 1) \o SkipBlanks(z)
    <3>1. n + 1 \in Nat
      BY <1>2
    <3> QED
      BY <1>1, <1>2, <3>1, CutOneBlock
  <2>2. (n + 1) - 1 = n
    BY <1>2
  <2>3. z = <<>>
    BY <1>2, SubSeqEmpty
  <2>4. SkipBlanks(<<>>) = <<>>
    <3>1. <<>> \in Seq({})
      BY EmptySeq
    <3>2. SkipBlanks(<<>>) \in Seq({})
      BY <3>1, SkipType
    <3> QED
      BY <3>2, EmptySeq, ElementOfSeq
  <2>5. a = p
    <3>1. p \in Seq(Line)
      BY DistinctLines, SeqMonotonic
    <3>2. /\ a \in Seq(Line)
          /\ Len(a) = IF 1 <= n THEN n - 1 + 1 ELSE 0
          /\ \A i \in 1..(n - 1 + 1) : a[i] = u[1 + i - 1]
      <4>1. n <= Len(u)
        BY <1>1, <1>2
      <4> QED
        BY <1>1, <1>2, <4>1, PieceFacts
    <3> HIDE DEF a
    <3>3. Len(a) = Len(p)
      BY <1>2, <3>2
    <3>4. ASSUME NEW i \in 1..Len(a) PROVE a[i] = p[i]
      <4>1. i \in 1..n /\ i \in 1..(n - 1 + 1) /\ 1 + i - 1 = i
        BY <1>2, <3>3
      <4> QED
        BY <1>1, <3>2, <4>1
    <3> QED
      BY <3>1, <3>2, <3>3, <3>4, SeqEqual
  <2>6. a \o <<>> = a
    BY <2>5, ConcatEmptySeq
  <2> QED
    BY <2>1, <2>2, <2>3, <2>4, <2>5, <2>6
<1> QED
  BY <1>3, <1>4, <1>5 DEF u

-------------------------------------------------------------------------------
(* Replace.                                                                  *)

(* What Replace keeps of the file.                                          *)
KeptLines(s) == LET kept == TrimRight(Cut(s)) IN IF kept = <<>> THEN <<Blank>> ELSE kept

(* Replace, as what it keeps and what it adds.                               *)
LEMMA ReplaceIs ==
    ASSUME NEW s \in Seq(Line)
    PROVE  /\ Replace(s, NoRoutes) = KeptLines(s)
           /\ \A routes \in SUBSET Hosts :
                 Replace(s, routes) = (KeptLines(s) \o <<Blank>>) \o Block(routes)
<1>1. Replace(s, NoRoutes) = KeptLines(s)
  BY DEF Replace, KeptLines
<1>2. ASSUME NEW routes \in SUBSET Hosts
      PROVE  Replace(s, routes) = (KeptLines(s) \o <<Blank>>) \o Block(routes)
  <2>1. routes # NoRoutes
    BY RoutesAssumption
  <2> QED
    BY <2>1 DEF Replace, KeptLines
<1> QED
  BY <1>1, <1>2

(* The line between the text and the block.                                  *)
LEMMA BlankLine ==
    /\ <<Blank>> \in Seq(Plain) /\ <<Blank>> \in Seq(Line) /\ Len(<<Blank>>) = 1
    /\ \A i \in 1..Len(<<Blank>>) : <<Blank>>[i] = Blank
BY DistinctLines DEF Plain

(* What Replace keeps: the user's lines that Cut keeps.                      *)
LEMMA KeptLinesFacts ==
    ASSUME NEW s \in Seq(Line)
    PROVE  /\ KeptLines(s) \in Seq(Line)
           /\ OfUser(KeptLines(s)) = OfUser(Cut(s))
           /\ Paired(s) => KeptLines(s) \in Seq(Plain)
<1> DEFINE kept == TrimRight(Cut(s))
<1>1. Cut(s) \in Seq(Line)
  BY CutType
<1>2. kept \in Seq(Line) /\ OfUser(kept) = OfUser(Cut(s))
  BY <1>1, TrimKeepsUserLines
<1>3. OfUser(<<Blank>>) = <<>> /\ OfUser(<<>>) = <<>>
  <2>1. \A i \in 1..Len(<<Blank>>) : <<Blank>>[i] \notin UserLines
    BY BlankLine, DistinctLines
  <2>2. <<>> \in Seq(Line) /\ Len(<<>>) = 0
    BY EmptySeq
  <2>3. \A i \in 1..Len(<<>>) : <<>>[i] \notin UserLines
    BY <2>2
  <2> QED
    BY <2>1, <2>2, <2>3, BlankLine, NoUserLines
<1>4. ASSUME Paired(s) PROVE kept \in Seq(Plain)
  BY <1>4, CutOfPaired, TrimType
<1> HIDE DEF kept
<1>5. KeptLines(s) = IF kept = <<>> THEN <<Blank>> ELSE kept
  BY DEF KeptLines, kept
<1> QED
  BY <1>2, <1>3, <1>4, <1>5, BlankLine

(* Replace returns lines.                                                    *)
LEMMA ReplaceType ==
    ASSUME NEW s \in Seq(Line), NEW routes \in Routes
    PROVE  Replace(s, routes) \in Seq(Line)
<1>1. CASE routes = NoRoutes
  BY <1>1, ReplaceIs, KeptLinesFacts
<1>2. CASE routes \in SUBSET Hosts
  <2> DEFINE p == KeptLines(s) \o <<Blank>>
  <2>1. p \in Seq(Line)
    BY KeptLinesFacts, BlankLine, ConcatProperties
  <2>2. Block(routes) \in Seq(Line)
    BY <1>2, BlockFacts
  <2>3. Replace(s, routes) = p \o Block(routes)
    BY <1>2, ReplaceIs
  <2> HIDE DEF p
  <2> QED
    BY <2>1, <2>2, <2>3, ConcatProperties
<1> QED
  BY <1>1, <1>2 DEF Routes

(* Replace keeps the user's lines that Cut keeps.                            *)
LEMMA ReplaceKeepsWhatCutKeeps ==
    ASSUME NEW s \in Seq(Line), NEW routes \in Routes
    PROVE  OfUser(Replace(s, routes)) = OfUser(Cut(s))
<1>1. CASE routes = NoRoutes
  BY <1>1, ReplaceIs, KeptLinesFacts
<1>2. CASE routes \in SUBSET Hosts
  <2> DEFINE k == KeptLines(s)
             p == k \o <<Blank>>
             z == Block(routes)
  <2>1. k \in Seq(Line) /\ OfUser(k) = OfUser(Cut(s))
    BY KeptLinesFacts
  <2>2. /\ z \in Seq(Line) /\ Len(z) >= 2 /\ z[1] = Begin /\ z[Len(z)] = End
        /\ \A i \in 2..(Len(z) - 1) : z[i] \in Hosts
    BY <1>2, BlockFacts
  <2>3. Replace(s, routes) = p \o z
    BY <1>2, ReplaceIs
  <2> HIDE DEF k, z
  <2>4. OfUser(<<Blank>>) = <<>>
    <3>1. \A i \in 1..Len(<<Blank>>) : <<Blank>>[i] \notin UserLines
      BY BlankLine, DistinctLines
    <3> QED
      BY <3>1, BlankLine, NoUserLines
  <2>5. p \in Seq(Line) /\ OfUser(p) = OfUser(k)
    BY <2>1, <2>4, BlankLine, OfUserFirst, ConcatProperties
  <2>6. OfUser(z) = <<>>
    <3>1. ASSUME NEW i \in 1..Len(z) PROVE z[i] \notin UserLines
      <4>1. Len(z) \in Nat
        BY <2>2, LenProperties
      <4>2. ASSUME i # 1, i # Len(z) PROVE i \in 2..(Len(z) - 1)
        BY <4>1, <4>2
      <4> QED
        BY <2>2, <4>2, DistinctLines
    <3> QED
      BY <2>2, <3>1, NoUserLines
  <2> HIDE DEF p
  <2>7. OfUser(p \o z) = OfUser(p)
    BY <2>2, <2>5, <2>6, OfUserFirst
  <2> QED
    BY <2>1, <2>3, <2>5, <2>7
<1> QED
  BY <1>1, <1>2 DEF Routes

(* A file with one block at most becomes one, without the user's lines in    *)
(* the block.                                                                *)
LEMMA ReplacePairs ==
    ASSUME NEW s \in Seq(Line), NEW routes \in Routes, Paired(s)
    PROVE  Paired(Replace(s, routes)) /\ NoneInside(Replace(s, routes))
<1>0. KeptLines(s) \in Seq(Plain)
  BY KeptLinesFacts
<1>1. CASE routes = NoRoutes
  <2> DEFINE k == KeptLines(s)
  <2>1. Replace(s, routes) = k
    BY <1>1, ReplaceIs
  <2>2. DOMAIN k = 1..Len(k) /\ \A i \in 1..Len(k) : k[i] \in Plain
    BY <1>0, LenProperties, ElementOfSeq
  <2> HIDE DEF k
  <2>3. Paired(k)
    BY <2>2, DistinctLines DEF Paired, Range
  <2>4. NoneInside(k)
    BY <2>2, DistinctLines DEF NoneInside, Begins
  <2> QED
    BY <2>1, <2>3, <2>4
<1>2. CASE routes \in SUBSET Hosts
  <2> DEFINE p == KeptLines(s) \o <<Blank>>
  <2>1. p \in Seq(Plain)
    BY <1>0, BlankLine, ConcatProperties
  <2>2. Replace(s, routes) = p \o Block(routes)
    BY <1>2, ReplaceIs
  <2> HIDE DEF p
  <2> QED
    BY <1>2, <2>1, <2>2, AppendedIsPaired
<1> QED
  BY <1>1, <1>2 DEF Routes

(* Of a file with one block at most, Replace is a projection.                *)
LEMMA ReplaceTwice ==
    ASSUME NEW s \in Seq(Line), NEW routes \in Routes, Paired(s)
    PROVE  Replace(Replace(s, routes), routes) = Replace(s, routes)
<1> DEFINE kept == TrimRight(Cut(s))
           k == KeptLines(s)
<1>0. /\ kept \in Seq(Plain) /\ k = (IF kept = <<>> THEN <<Blank>> ELSE kept)
      /\ kept # <<>> => kept[Len(kept)] # Blank
      /\ k \in Seq(Plain) /\ k \in Seq(Line)
  <2>1. Cut(s) \in Seq(Plain)
    BY CutOfPaired
  <2>2. kept \in Seq(Plain) /\ (kept # <<>> => kept[Len(kept)] # Blank)
    BY <2>1, TrimType
  <2> QED
    BY <2>2, KeptLinesFacts DEF KeptLines
<1> HIDE DEF kept, k
<1>1. ASSUME NEW z \in Seq(Plain), \A i \in 1..Len(z) : z[i] = Blank
      PROVE  TrimRight(k \o z) = kept
  <2>1. CASE kept # <<>>
    BY <1>0, <1>1, <2>1, TrimOfTrimmed
  <2>2. CASE kept = <<>>
    <3> DEFINE y == <<Blank>> \o z
    <3>1. /\ y \in Seq(Plain) /\ Len(y) = 1 + Len(z)
          /\ \A i \in 1..(1 + Len(z)) : y[i] = IF i <= 1 THEN <<Blank>>[i] ELSE z[i - 1]
      BY BlankLine, ConcatProperties
    <3> HIDE DEF y
    <3>2. ASSUME NEW i \in 1..Len(y) PROVE y[i] = Blank
      <4>1. Len(z) \in Nat
        BY LenProperties
      <4>2. CASE i = 1
        BY <3>1, <4>1, <4>2
      <4>3. CASE i # 1
        <5>1. i \in 1..(1 + Len(z)) /\ ~(i <= 1) /\ i - 1 \in 1..Len(z)
          BY <3>1, <4>1, <4>3
        <5> QED
          BY <1>1, <3>1, <5>1
      <4> QED
        BY <4>2, <4>3
    <3>3. <<>> \o y = y /\ <<>> \in Seq(Plain)
      BY <3>1, ConcatEmptySeq, EmptySeq
    <3>4. TrimRight(<<>> \o y) = <<>>
      BY <3>1, <3>2, <3>3, TrimOfTrimmed
    <3>5. k \o z = y
      BY <1>0, <2>2 DEF y
    <3> QED
      BY <2>2, <3>3, <3>4, <3>5
  <2> QED
    BY <2>1, <2>2
<1>2. CASE routes = NoRoutes
  <2>1. Replace(s, routes) = k
    BY <1>2, ReplaceIs DEF k
  <2>2. Cut(k) = k
    BY <1>0, CutPlain
  <2>3. TrimRight(k) = kept
    <3>1. <<>> \in Seq(Plain) /\ Len(<<>>) = 0 /\ k \o <<>> = k
      BY <1>0, EmptySeq, ConcatEmptySeq
    <3>2. \A i \in 1..Len(<<>>) : <<>>[i] = Blank
      BY <3>1
    <3>3. TrimRight(k \o <<>>) = kept
      BY <1>1, <3>1, <3>2
    <3> QED
      BY <3>1, <3>3
  <2>4. KeptLines(k) = k
    BY <1>0, <2>2, <2>3 DEF KeptLines
  <2>5. Replace(k, routes) = KeptLines(k)
    BY <1>0, <1>2, ReplaceIs
  <2> QED
    BY <2>1, <2>4, <2>5
<1>3. CASE routes \in SUBSET Hosts
  <2> DEFINE p == k \o <<Blank>>
             u == p \o Block(routes)
  <2>1. p \in Seq(Plain)
    BY <1>0, BlankLine, ConcatProperties
  <2>2. Replace(s, routes) = u
    BY <1>3, ReplaceIs DEF k
  <2>3. TrimRight(p) = kept
    BY <1>1, BlankLine
  <2> HIDE DEF p
  <2>4. Cut(u) = p
    BY <1>3, <2>1, AppendedIsPaired
  <2>5. u \in Seq(Line)
    BY <1>3, <2>1, BlockAppended
  <2> HIDE DEF u
  <2>6. KeptLines(u) = k
    BY <1>0, <2>3, <2>4 DEF KeptLines
  <2>7. Replace(u, routes) = (KeptLines(u) \o <<Blank>>) \o Block(routes)
    BY <1>3, <2>5, ReplaceIs
  <2>8. Replace(u, routes) = u
    BY <2>6, <2>7 DEF u, p
  <2> QED
    BY <2>2, <2>8
<1> QED
  BY <1>2, <1>3 DEF Routes

-------------------------------------------------------------------------------
(* The invariant.  What a writer has read was the file once: it has the      *)
(* shape the file had.                                                       *)
Files == {content} \cup {view[w] : w \in {v \in Writers : view[v] # Idle}}

Inv ==
    /\ TypeOK
    /\ "unpaired" \notin slips => \A s \in Files : Paired(s)
    /\ {"unpaired", "inside"} \cap slips = {} => \A s \in Files : NoneInside(s)
    /\ UserLinesSurvive

(* A sequence with a value put in, and with one taken out.                   *)
LEMMA InsertFacts ==
    ASSUME NEW Value, NEW s \in Seq(Value), NEW l \in Value, NEW i \in 1..(Len(s) + 1)
    PROVE  /\ InsertAt(s, i, l) \in Seq(Value)
           /\ Len(InsertAt(s, i, l)) = Len(s) + 1
           /\ \A j \in 1..(Len(s) + 1) :
                 InsertAt(s, i, l)[j] = IF j < i THEN s[j] ELSE IF j = i THEN l ELSE s[j - 1]
<1> DEFINE a == SubSeq(s, 1, i - 1)
           p == a \o <<l>>
           z == SubSeq(s, i, Len(s))
           u == p \o z
<1>0. Len(s) \in Nat /\ i - 1 \in 0..Len(s) /\ (i - 1) + 1 = i /\ i \in Nat
  BY LenProperties
<1>1. InsertAt(s, i, l) = u
  BY DEF InsertAt
<1>2. a \in Seq(Value) /\ z \in Seq(Value)
  BY <1>0, TwoPieces
<1>3. Len(a) = i - 1 /\ \A j \in 1..(i - 1) : a[j] = s[j]
  <2>1. /\ Len(a) = IF 1 <= i - 1 THEN (i - 1) - 1 + 1 ELSE 0
        /\ \A j \in 1..((i - 1) - 1 + 1) : a[j] = s[1 + j - 1]
    BY <1>0, PieceFacts
  <2> HIDE DEF a
  <2>2. Len(a) = i - 1
    BY <1>0, <2>1
  <2>3. ASSUME NEW j \in 1..(i - 1) PROVE a[j] = s[j]
    <3>1. j \in 1..((i - 1) - 1 + 1) /\ 1 + j - 1 = j
      BY <1>0
    <3> QED
      BY <2>1, <3>1
  <2> QED
    BY <2>2, <2>3
<1>4. Len(z) = Len(s) - i + 1 /\ \A j \in 1..(Len(s) - i + 1) : z[j] = s[i + j - 1]
  <2>1. /\ Len(z) = IF i <= Len(s) THEN Len(s) - i + 1 ELSE 0
        /\ \A j \in 1..(Len(s) - i + 1) : z[j] = s[i + j - 1]
    BY <1>0, PieceFacts
  <2> HIDE DEF z
  <2>2. Len(z) = Len(s) - i + 1
    BY <1>0, <2>1
  <2> QED
    BY <2>1, <2>2
<1> HIDE DEF a, z
<1>5. /\ p \in Seq(Value) /\ Len(p) = i
      /\ \A j \in 1..i : p[j] = IF j <= i - 1 THEN a[j] ELSE l
  <2>1. /\ <<l>> \in Seq(Value) /\ Len(<<l>>) = 1 /\ <<l>>[1] = l
    OBVIOUS
  <2>2. /\ p \in Seq(Value) /\ Len(p) = Len(a) + Len(<<l>>)
        /\ \A j \in 1..(Len(a) + Len(<<l>>)) :
              p[j] = IF j <= Len(a) THEN a[j] ELSE <<l>>[j - Len(a)]
    BY <1>2, <2>1, ConcatProperties
  <2> HIDE DEF p
  <2>3. Len(p) = i
    BY <1>0, <1>3, <2>1, <2>2
  <2>4. ASSUME NEW j \in 1..i PROVE p[j] = IF j <= i - 1 THEN a[j] ELSE l
    <3>1. j \in 1..(Len(a) + Len(<<l>>)) /\ (~(j <= i - 1) => j - Len(a) = 1)
      BY <1>0, <1>3, <2>1
    <3> QED
      BY <1>3, <2>1, <2>2, <3>1
  <2> QED
    BY <2>2, <2>3, <2>4
<1> HIDE DEF p
<1>6. /\ u \in Seq(Value) /\ Len(u) = Len(p) + Len(z)
      /\ \A j \in 1..(Len(p) + Len(z)) : u[j] = IF j <= Len(p) THEN p[j] ELSE z[j - Len(p)]
  BY <1>2, <1>5, ConcatProperties
<1> HIDE DEF u
<1>7. Len(u) = Len(s) + 1
  BY <1>0, <1>4, <1>5, <1>6
<1>8. ASSUME NEW j \in 1..(Len(s) + 1)
      PROVE  u[j] = IF j < i THEN s[j] ELSE IF j = i THEN l ELSE s[j - 1]
  <2>0. j \in 1..(Len(p) + Len(z)) /\ j \in Nat
    BY <1>0, <1>6, <1>7
  <2>1. CASE j < i
    <3>1. j <= Len(p) /\ j \in 1..i /\ j <= i - 1 /\ j \in 1..(i - 1)
      BY <1>0, <1>5, <2>0, <2>1
    <3> QED
      BY <1>3, <1>5, <1>6, <2>0, <2>1, <3>1
  <2>2. CASE j = i
    <3>1. j <= Len(p) /\ j \in 1..i /\ ~(j <= i - 1) /\ ~(j < i)
      BY <1>0, <1>5, <2>0, <2>2
    <3> QED
      BY <1>5, <1>6, <2>0, <2>2, <3>1
  <2>3. CASE j > i
    <3>1. /\ ~(j <= Len(p)) /\ ~(j < i) /\ j # i
          /\ j - Len(p) \in 1..(Len(s) - i + 1) /\ i + (j - Len(p)) - 1 = j - 1
      BY <1>0, <1>5, <2>0, <2>3
    <3> QED
      BY <1>4, <1>6, <2>0, <3>1
  <2> QED
    BY <1>0, <2>0, <2>1, <2>2, <2>3
<1> QED
  BY <1>1, <1>6, <1>7, <1>8

LEMMA RemoveFacts ==
    ASSUME NEW Value, NEW s \in Seq(Value), NEW i \in 1..Len(s)
    PROVE  /\ RemoveAt(s, i) \in Seq(Value)
           /\ Len(RemoveAt(s, i)) = Len(s) - 1
           /\ \A j \in 1..(Len(s) - 1) :
                 RemoveAt(s, i)[j] = IF j < i THEN s[j] ELSE s[j + 1]
<1> DEFINE a == SubSeq(s, 1, i - 1)
           z == SubSeq(s, i + 1, Len(s))
           u == a \o z
<1>0. Len(s) \in Nat /\ i - 1 \in 0..Len(s) /\ i \in 0..Len(s) /\ i \in Nat
  BY LenProperties
<1>1. RemoveAt(s, i) = u
  BY DEF RemoveAt
<1>2. a \in Seq(Value) /\ z \in Seq(Value)
  BY <1>0, TwoPieces
<1>3. Len(a) = i - 1 /\ \A j \in 1..(i - 1) : a[j] = s[j]
  <2>1. /\ Len(a) = IF 1 <= i - 1 THEN (i - 1) - 1 + 1 ELSE 0
        /\ \A j \in 1..((i - 1) - 1 + 1) : a[j] = s[1 + j - 1]
    BY <1>0, PieceFacts
  <2> HIDE DEF a
  <2>2. Len(a) = i - 1
    BY <1>0, <2>1
  <2>3. ASSUME NEW j \in 1..(i - 1) PROVE a[j] = s[j]
    <3>1. j \in 1..((i - 1) - 1 + 1) /\ 1 + j - 1 = j
      BY <1>0
    <3> QED
      BY <2>1, <3>1
  <2> QED
    BY <2>2, <2>3
<1>4. Len(z) = Len(s) - i /\ \A j \in 1..(Len(s) - i) : z[j] = s[i + j]
  <2>1. /\ Len(z) = IF i + 1 <= Len(s) THEN Len(s) - (i + 1) + 1 ELSE 0
        /\ \A j \in 1..(Len(s) - (i + 1) + 1) : z[j] = s[i + 1 + j - 1]
    BY <1>0, PieceFacts
  <2> HIDE DEF z
  <2>2. Len(z) = Len(s) - i
    BY <1>0, <2>1
  <2>3. ASSUME NEW j \in 1..(Len(s) - i) PROVE z[j] = s[i + j]
    <3>1. j \in 1..(Len(s) - (i + 1) + 1) /\ i + 1 + j - 1 = i + j
      BY <1>0
    <3> QED
      BY <2>1, <3>1
  <2> QED
    BY <2>2, <2>3
<1> HIDE DEF a, z
<1>6. /\ u \in Seq(Value) /\ Len(u) = Len(a) + Len(z)
      /\ \A j \in 1..(Len(a) + Len(z)) : u[j] = IF j <= Len(a) THEN a[j] ELSE z[j - Len(a)]
  BY <1>2, ConcatProperties
<1> HIDE DEF u
<1>7. Len(u) = Len(s) - 1
  BY <1>0, <1>3, <1>4, <1>6
<1>8. ASSUME NEW j \in 1..(Len(s) - 1)
      PROVE  u[j] = IF j < i THEN s[j] ELSE s[j + 1]
  <2>0. j \in 1..(Len(a) + Len(z)) /\ j \in Nat
    BY <1>0, <1>6, <1>7
  <2>1. CASE j < i
    <3>1. j <= Len(a) /\ j \in 1..(i - 1)
      BY <1>0, <1>3, <2>0, <2>1
    <3> QED
      BY <1>3, <1>6, <2>0, <2>1, <3>1
  <2>2. CASE ~(j < i)
    <3>1. /\ ~(j <= Len(a)) /\ j - Len(a) \in 1..(Len(s) - i) /\ i + (j - Len(a)) = j + 1
      BY <1>0, <1>3, <2>0, <2>2
    <3> QED
      BY <1>4, <1>6, <2>0, <2>2, <3>1
  <2> QED
    BY <2>1, <2>2
<1> QED
  BY <1>1, <1>6, <1>7, <1>8

-------------------------------------------------------------------------------
(* Edits of a file with one block at most.                                   *)

(* A file with one block, line by line: begin at b, end at e, the host names *)
(* between them.                                                             *)
Framed(s, b, e) ==
    /\ b < e /\ s[b] = Begin /\ s[e] = End
    /\ \A i \in 1..Len(s) :
          /\ s[i] = Begin => i = b
          /\ s[i] = End => i = e
          /\ s[i] \in Hosts => b < i /\ i < e

(* Paired, line by line.                                                     *)
LEMMA PairedIs ==
    ASSUME NEW s \in Seq(Line)
    PROVE  Paired(s) <=> \/ s \in Seq(Plain)
                         \/ \E b, e \in 1..Len(s) : Framed(s, b, e)
<1>0. Len(s) \in Nat /\ DOMAIN s = 1..Len(s) /\ \A i \in 1..Len(s) : s[i] \in Line
  BY LenProperties, ElementOfSeq
<1>1. ASSUME Range(s) \cap ({Begin, End} \cup Hosts) = {} PROVE s \in Seq(Plain)
  <2>1. \A i \in 1..Len(s) : s[i] \in Plain
    BY <1>0, <1>1 DEF Range, Line, Plain
  <2> QED
    BY <2>1, AllInSet
<1>2. ASSUME s \in Seq(Plain) PROVE Range(s) \cap ({Begin, End} \cup Hosts) = {}
  <2>1. \A i \in 1..Len(s) : s[i] \in Plain
    BY <1>2, ElementOfSeq
  <2> QED
    BY <1>0, <2>1, DistinctLines DEF Range
<1>3. ASSUME NEW b \in 1..Len(s), NEW e \in 1..Len(s), b < e, Begins(s) = {b},
             EndsAfter(s, 0) = {e}, \A i \in DOMAIN s : s[i] \in Hosts => b < i /\ i < e
      PROVE  Framed(s, b, e)
  <2>1. s[b] = Begin /\ \A i \in 1..Len(s) : s[i] = Begin => i = b
    BY <1>0, <1>3 DEF Begins
  <2>2. s[e] = End /\ \A i \in 1..Len(s) : s[i] = End => i = e
    BY <1>0, <1>3 DEF EndsAfter
  <2> QED
    BY <1>0, <1>3, <2>1, <2>2 DEF Framed
<1>4. ASSUME NEW b \in 1..Len(s), NEW e \in 1..Len(s), Framed(s, b, e)
      PROVE  /\ b < e /\ Begins(s) = {b} /\ EndsAfter(s, 0) = {e}
             /\ \A i \in DOMAIN s : s[i] \in Hosts => b < i /\ i < e
  <2>1. Begins(s) = {b}
    BY <1>0, <1>4 DEF Framed, Begins
  <2>2. EndsAfter(s, 0) = {e}
    BY <1>0, <1>4 DEF Framed, EndsAfter
  <2> QED
    BY <1>0, <1>4, <2>1, <2>2 DEF Framed
<1> QED
  BY <1>0, <1>1, <1>2, <1>3, <1>4 DEF Paired

(* Without a marker nothing is inside a block.                               *)
LEMMA PlainNoneInside ==
    ASSUME NEW s \in Seq(Plain)
    PROVE  NoneInside(s)
<1>1. Begins(s) = {}
  BY LenProperties, ElementOfSeq, DistinctLines DEF Begins
<1> QED
  BY <1>1 DEF NoneInside

(* With one block, inside is between its markers.                            *)
LEMMA FramedNoneInside ==
    ASSUME NEW s \in Seq(Line), NEW b \in 1..Len(s), NEW e \in 1..Len(s), Framed(s, b, e)
    PROVE  /\ Begins(s) = {b} /\ EndsAfter(s, b) = {e}
           /\ NoneInside(s) <=> \A i \in b..e : s[i] \notin UserLines
<1>0. Len(s) \in Nat /\ DOMAIN s = 1..Len(s)
  BY LenProperties
<1>1. Begins(s) = {b}
  BY <1>0 DEF Framed, Begins
<1>2. EndsAfter(s, b) = {e}
  BY <1>0 DEF Framed, EndsAfter
<1> QED
  BY <1>1, <1>2 DEF NoneInside

(* A line of the user's, or a blank one, put into such a file.               *)
LEMMA InsertFramed ==
    ASSUME NEW s \in Seq(Line), NEW b \in 1..Len(s), NEW e \in 1..Len(s), Framed(s, b, e),
           NEW l \in Plain, NEW i \in 1..(Len(s) + 1)
    PROVE  \E c, f \in 1..Len(InsertAt(s, i, l)) :
              /\ Framed(InsertAt(s, i, l), c, f)
              /\ (i <= b \/ i > e \/ l = Blank) /\ (\A j \in b..e : s[j] \notin UserLines)
                    => \A j \in c..f : InsertAt(s, i, l)[j] \notin UserLines
<1> DEFINE u == InsertAt(s, i, l)
           c == IF b < i THEN b ELSE b + 1
           f == IF e < i THEN e ELSE e + 1
<1>0. Len(s) \in Nat /\ \A j \in 1..Len(s) : s[j] \in Line
  BY LenProperties, ElementOfSeq
<1>1. /\ l \in Line
      /\ Len(u) = Len(s) + 1
      /\ \A j \in 1..(Len(s) + 1) : u[j] = IF j < i THEN s[j] ELSE IF j = i THEN l ELSE s[j - 1]
  BY DistinctLines, InsertFacts
<1> HIDE DEF u
<1>2. c \in 1..Len(u) /\ f \in 1..Len(u) /\ c < f
  BY <1>0, <1>1 DEF Framed
<1>3. u[c] = Begin
  <2>1. CASE b < i
    BY <1>0, <1>1, <2>1 DEF Framed
  <2>2. CASE ~(b < i)
    <3>1. b + 1 \in 1..(Len(s) + 1) /\ ~(b + 1 < i) /\ b + 1 # i /\ (b + 1) - 1 = b
      BY <1>0, <2>2
    <3> QED
      BY <1>1, <2>2, <3>1 DEF Framed
  <2> QED
    BY <2>1, <2>2
<1>4. u[f] = End
  <2>1. CASE e < i
    BY <1>0, <1>1, <2>1 DEF Framed
  <2>2. CASE ~(e < i)
    <3>1. e + 1 \in 1..(Len(s) + 1) /\ ~(e + 1 < i) /\ e + 1 # i /\ (e + 1) - 1 = e
      BY <1>0, <2>2
    <3> QED
      BY <1>1, <2>2, <3>1 DEF Framed
  <2> QED
    BY <2>1, <2>2
<1>5. ASSUME NEW j \in 1..Len(u)
      PROVE  /\ u[j] = Begin => j = c
             /\ u[j] = End => j = f
             /\ u[j] \in Hosts => c < j /\ j < f
  <2>1. CASE j < i
    <3>1. j \in 1..Len(s) /\ u[j] = s[j]
      BY <1>0, <1>1, <2>1
    <3> QED
      BY <1>0, <2>1, <3>1 DEF Framed
  <2>2. CASE j = i
    <3>1. u[j] = l
      BY <1>0, <1>1, <2>2
    <3> QED
      BY <3>1, DistinctLines
  <2>3. CASE j > i
    <3>1. j - 1 \in 1..Len(s) /\ u[j] = s[j - 1]
      BY <1>0, <1>1, <2>3
    <3> QED
      BY <1>0, <2>3, <3>1 DEF Framed
  <2> QED
    BY <1>0, <1>1, <2>1, <2>2, <2>3
<1>6. Framed(u, c, f)
  BY <1>2, <1>3, <1>4, <1>5 DEF Framed
<1>7. ASSUME i <= b \/ i > e \/ l = Blank, \A j \in b..e : s[j] \notin UserLines,
             NEW j \in c..f
      PROVE  u[j] \notin UserLines
  <2>0. j \in 1..Len(u) /\ j \in 1..(Len(s) + 1)
    BY <1>0, <1>1, <1>2
  <2>1. CASE j < i
    <3>1. j \in b..e
      BY <1>0, <2>0, <2>1
    <3> QED
      BY <1>1, <1>7, <2>0, <2>1, <3>1
  <2>2. CASE j = i
    <3>1. u[j] = l
      BY <1>0, <1>1, <2>2
    <3>2. ~(i <= b) /\ ~(i > e)
      BY <1>0, <1>2, <2>0, <2>2 DEF Framed
    <3> QED
      BY <1>7, <3>1, <3>2, DistinctLines
  <2>3. CASE j > i
    <3>1. j - 1 \in b..e /\ ~(j < i) /\ j # i
      BY <1>0, <2>0, <2>3
    <3> QED
      BY <1>1, <1>7, <2>0, <3>1
  <2> QED
    BY <1>0, <2>0, <2>1, <2>2, <2>3
<1> HIDE DEF c, f
<1>8. \E x, y \in 1..Len(u) :
         /\ Framed(u, x, y)
         /\ (i <= b \/ i > e \/ l = Blank) /\ (\A j \in b..e : s[j] \notin UserLines)
               => \A j \in x..y : u[j] \notin UserLines
  BY <1>2, <1>6, <1>7
<1> QED
  BY <1>8 DEF u

(* A line that is no marker, taken out of such a file.                       *)
LEMMA RemoveFramed ==
    ASSUME NEW s \in Seq(Line), NEW b \in 1..Len(s), NEW e \in 1..Len(s), Framed(s, b, e),
           NEW i \in 1..Len(s), s[i] \notin {Begin, End}
    PROVE  \E c, f \in 1..Len(RemoveAt(s, i)) :
              /\ Framed(RemoveAt(s, i), c, f)
              /\ (\A j \in b..e : s[j] \notin UserLines)
                    => \A j \in c..f : RemoveAt(s, i)[j] \notin UserLines
<1> DEFINE u == RemoveAt(s, i)
           c == IF b < i THEN b ELSE b - 1
           f == IF e < i THEN e ELSE e - 1
<1>0. Len(s) \in Nat /\ i # b /\ i # e
  BY LenProperties DEF Framed
<1>1. /\ Len(u) = Len(s) - 1
      /\ \A j \in 1..(Len(s) - 1) : u[j] = IF j < i THEN s[j] ELSE s[j + 1]
  BY RemoveFacts
<1> HIDE DEF u
<1>2. c \in 1..Len(u) /\ f \in 1..Len(u) /\ c < f
  BY <1>0, <1>1 DEF Framed
<1>3. u[c] = Begin
  <2>1. CASE b < i
    <3>1. b \in 1..(Len(s) - 1)
      BY <1>0, <2>1
    <3> QED
      BY <1>1, <2>1, <3>1 DEF Framed
  <2>2. CASE ~(b < i)
    <3>1. b - 1 \in 1..(Len(s) - 1) /\ ~(b - 1 < i) /\ (b - 1) + 1 = b
      BY <1>0, <2>2
    <3> QED
      BY <1>1, <2>2, <3>1 DEF Framed
  <2> QED
    BY <2>1, <2>2
<1>4. u[f] = End
  <2>1. CASE e < i
    <3>1. e \in 1..(Len(s) - 1)
      BY <1>0, <2>1
    <3> QED
      BY <1>1, <2>1, <3>1 DEF Framed
  <2>2. CASE ~(e < i)
    <3>1. e - 1 \in 1..(Len(s) - 1) /\ ~(e - 1 < i) /\ (e - 1) + 1 = e
      BY <1>0, <2>2
    <3> QED
      BY <1>1, <2>2, <3>1 DEF Framed
  <2> QED
    BY <2>1, <2>2
<1>5. ASSUME NEW j \in 1..Len(u)
      PROVE  /\ u[j] = Begin => j = c
             /\ u[j] = End => j = f
             /\ u[j] \in Hosts => c < j /\ j < f
  <2>0. j \in 1..(Len(s) - 1)
    BY <1>1
  <2>1. CASE j < i
    <3>1. j \in 1..Len(s) /\ u[j] = s[j]
      BY <1>0, <1>1, <2>0, <2>1
    <3> QED
      BY <1>0, <2>1, <3>1 DEF Framed
  <2>2. CASE ~(j < i)
    <3>1. j + 1 \in 1..Len(s) /\ u[j] = s[j + 1]
      BY <1>0, <1>1, <2>0, <2>2
    <3> QED
      BY <1>0, <2>2, <3>1 DEF Framed
  <2> QED
    BY <2>1, <2>2
<1>6. Framed(u, c, f)
  BY <1>2, <1>3, <1>4, <1>5 DEF Framed
<1>7. ASSUME \A j \in b..e : s[j] \notin UserLines, NEW j \in c..f
      PROVE  u[j] \notin UserLines
  <2>0. j \in 1..(Len(s) - 1)
    BY <1>0, <1>1, <1>2
  <2>1. CASE j < i
    <3>1. j \in b..e
      BY <1>0, <2>0, <2>1
    <3> QED
      BY <1>1, <1>7, <2>0, <2>1, <3>1
  <2>2. CASE ~(j < i)
    <3>1. j + 1 \in b..e
      BY <1>0, <2>0, <2>2
    <3> QED
      BY <1>1, <1>7, <2>0, <2>2, <3>1
  <2> QED
    BY <2>1, <2>2
<1> HIDE DEF c, f
<1>8. \E x, y \in 1..Len(u) :
         /\ Framed(u, x, y)
         /\ (\A j \in b..e : s[j] \notin UserLines) => \A j \in x..y : u[j] \notin UserLines
  BY <1>2, <1>6, <1>7
<1> QED
  BY <1>8 DEF u

(* Each edit of the user's keeps a file with one block such a file, and puts *)
(* no line of the user's in the block unless it is an edit there.            *)
LEMMA InsertKeeps ==
    ASSUME NEW s \in Seq(Line), Paired(s), NEW l \in Plain, NEW i \in 1..(Len(s) + 1)
    PROVE  /\ Paired(InsertAt(s, i, l))
           /\ NoneInside(s)
              /\ (l # Blank => ~\E b \in Begins(s) : b < i /\ ~\E e \in EndsAfter(s, b) : e < i)
                 => NoneInside(InsertAt(s, i, l))
<1> DEFINE u == InsertAt(s, i, l)
<1>0. Len(s) \in Nat /\ l \in Line /\ u \in Seq(Line)
  BY LenProperties, DistinctLines, InsertFacts
<1>1. CASE s \in Seq(Plain)
  <2>1. u \in Seq(Plain)
    BY <1>1, InsertFacts
  <2> QED
    BY <1>0, <2>1, PairedIs, PlainNoneInside
<1>2. CASE \E b, e \in 1..Len(s) : Framed(s, b, e)
  <2>1. PICK b, e \in 1..Len(s) : Framed(s, b, e)
    BY <1>2
  <2>2. PICK c, f \in 1..Len(u) :
           /\ Framed(u, c, f)
           /\ (i <= b \/ i > e \/ l = Blank) /\ (\A j \in b..e : s[j] \notin UserLines)
                 => \A j \in c..f : u[j] \notin UserLines
    BY <2>1, InsertFramed
  <2> HIDE DEF u
  <2>3. Paired(u)
    BY <1>0, <2>2, PairedIs
  <2>4. ASSUME NoneInside(s),
               l # Blank => ~\E x \in Begins(s) : x < i /\ ~\E y \in EndsAfter(s, x) : y < i
        PROVE  NoneInside(u)
    <3>1. Begins(s) = {b} /\ EndsAfter(s, b) = {e} /\ \A j \in b..e : s[j] \notin UserLines
      BY <2>1, <2>4, FramedNoneInside
    <3>2. l # Blank => i <= b \/ i > e
      BY <1>0, <2>4, <3>1
    <3>3. \A j \in c..f : u[j] \notin UserLines
      BY <2>2, <3>1, <3>2
    <3> QED
      BY <1>0, <2>2, <3>3, FramedNoneInside
  <2> QED
    BY <2>3, <2>4 DEF u
<1> QED
  BY <1>1, <1>2, PairedIs

(* So does each deletion of a line that is no marker.                        *)
LEMMA RemoveKeeps ==
    ASSUME NEW s \in Seq(Line), Paired(s), NEW i \in 1..Len(s), s[i] \notin {Begin, End}
    PROVE  /\ Paired(RemoveAt(s, i))
           /\ NoneInside(s) => NoneInside(RemoveAt(s, i))
<1> DEFINE u == RemoveAt(s, i)
<1>0. Len(s) \in Nat /\ u \in Seq(Line)
  BY LenProperties, RemoveFacts
<1>1. CASE s \in Seq(Plain)
  <2>1. u \in Seq(Plain)
    BY <1>1, RemoveFacts
  <2> QED
    BY <1>0, <2>1, PairedIs, PlainNoneInside
<1>2. CASE \E b, e \in 1..Len(s) : Framed(s, b, e)
  <2>1. PICK b, e \in 1..Len(s) : Framed(s, b, e)
    BY <1>2
  <2>2. PICK c, f \in 1..Len(u) :
           /\ Framed(u, c, f)
           /\ (\A j \in b..e : s[j] \notin UserLines) => \A j \in c..f : u[j] \notin UserLines
    BY <2>1, RemoveFramed
  <2> HIDE DEF u
  <2>3. Paired(u)
    BY <1>0, <2>2, PairedIs
  <2>4. ASSUME NoneInside(s) PROVE NoneInside(u)
    <3>1. \A j \in b..e : s[j] \notin UserLines
      BY <2>1, <2>4, FramedNoneInside
    <3> QED
      BY <1>0, <2>2, <3>1, FramedNoneInside
  <2> QED
    BY <2>3, <2>4 DEF u
<1> QED
  BY <1>1, <1>2, PairedIs

(* The user's lines are the user's.                                          *)
LEMMA OfUserLines ==
    ASSUME NEW s \in Seq(Line)
    PROVE  OfUser(s) \in Seq(UserLines)
<1>1. OfUser(s) \in Seq(Line \cap UserLines)
  BY OnlyType DEF OfUser
<1>2. Line \cap UserLines \subseteq UserLines
  OBVIOUS
<1> QED
  BY <1>1, <1>2, SeqMonotonic

-------------------------------------------------------------------------------

(* The invariant holds at first.                                             *)
LEMMA InitInv == Init => Inv
<1> SUFFICES ASSUME Init PROVE Inv
  OBVIOUS
<1>1. content \in Seq(Plain) /\ content \in Seq(Line)
  BY BlankLine DEF Init
<1>2. OfUser(content) = <<>>
  <2>1. \A i \in 1..Len(content) : content[i] \notin UserLines
    BY BlankLine, DistinctLines DEF Init
  <2> QED
    BY <1>1, <2>1, NoUserLines
<1>3. Files = {content}
  BY DEF Init, Files
<1>4. Paired(content) /\ NoneInside(content)
  BY <1>1, PairedIs, PlainNoneInside
<1>5. TypeOK
  <2>1. <<>> \in Seq(UserLines)
    BY EmptySeq
  <2> QED
    BY <1>1, <2>1, BoundAssumption DEF Init, TypeOK
<1>6. UserLinesSurvive
  BY <1>2 DEF Init, UserLinesSurvive
<1> QED
  BY <1>3, <1>4, <1>5, <1>6 DEF Inv

(* The files of the next state: the content, and the views that stay.        *)
LEMMA FilesNext ==
    ASSUME TypeOK, NEW w \in Writers, view' = [view EXCEPT ![w] = Idle]
    PROVE  Files' \subseteq {content'} \cup Files
BY DEF TypeOK, Files

(* The invariant is kept: a step of a writer.                                *)
LEMMA ReadStep ==
    ASSUME Inv, NEW w \in Writers, Read(w)
    PROVE  Inv'
<1>1. content' = content /\ wanted' = wanted /\ edits' = edits /\ slips' = slips
  BY DEF Read
<1>2. view' = [view EXCEPT ![w] = content]
  BY DEF Read
<1>3. TypeOK'
  BY <1>1, <1>2 DEF Inv, TypeOK
<1>4. Files' \subseteq Files
  BY <1>1, <1>2 DEF Inv, TypeOK, Files
<1>5. UserLinesSurvive'
  BY <1>1 DEF Inv, UserLinesSurvive, OfUser
<1>6. "unpaired" \notin slips' => \A s \in Files' : Paired(s)
  BY <1>1, <1>4 DEF Inv
<1>7. {"unpaired", "inside"} \cap slips' = {} => \A s \in Files' : NoneInside(s)
  BY <1>1, <1>4 DEF Inv
<1> QED
  BY <1>3, <1>5, <1>6, <1>7 DEF Inv

LEMMA GiveUpStep ==
    ASSUME Inv, NEW w \in Writers, GiveUp(w)
    PROVE  Inv'
<1>1. content' = content /\ wanted' = wanted /\ edits' = edits /\ slips' = slips
  BY DEF GiveUp
<1>2. view' = [view EXCEPT ![w] = Idle]
  BY DEF GiveUp
<1>3. TypeOK'
  BY <1>1, <1>2 DEF Inv, TypeOK
<1>4. Files' \subseteq Files
  <2>1. Files' \subseteq {content'} \cup Files
    BY <1>2, FilesNext DEF Inv
  <2> QED
    BY <1>1, <2>1 DEF Files
<1>5. UserLinesSurvive'
  BY <1>1 DEF Inv, UserLinesSurvive, OfUser
<1>6. "unpaired" \notin slips' => \A s \in Files' : Paired(s)
  BY <1>1, <1>4 DEF Inv
<1>7. {"unpaired", "inside"} \cap slips' = {} => \A s \in Files' : NoneInside(s)
  BY <1>1, <1>4 DEF Inv
<1> QED
  BY <1>3, <1>5, <1>6, <1>7 DEF Inv

LEMMA WriteStep ==
    ASSUME Inv, NEW w \in Writers, NEW routes \in Routes, Write(w, routes)
    PROVE  Inv'
<1> DEFINE s == view[w]
<1>1. /\ s # Idle /\ s \in Seq(Line) /\ s \in Files
  BY DEF Write, Inv, TypeOK, Files
<1>2. /\ content' = Replace(s, routes)
      /\ slips' = IF OfUser(s) # OfUser(content) THEN slips \cup {"raced"} ELSE slips
      /\ view' = [view EXCEPT ![w] = Idle]
      /\ wanted' = wanted /\ edits' = edits
  BY DEF Write
<1> HIDE DEF s
<1>3. content' \in Seq(Line)
  BY <1>1, <1>2, ReplaceType
<1>4. TypeOK'
  BY <1>2, <1>3 DEF Inv, TypeOK
<1>5. Files' \subseteq {content'} \cup Files
  BY <1>2, FilesNext DEF Inv
<1>6. slips \subseteq slips' /\ ("unpaired" \notin slips' => "unpaired" \notin slips)
  BY <1>2
<1>7. "unpaired" \notin slips' => \A t \in Files' : Paired(t)
  <2> SUFFICES ASSUME "unpaired" \notin slips', NEW t \in Files' PROVE Paired(t)
    OBVIOUS
  <2>1. \A f \in Files : Paired(f)
    BY <1>6 DEF Inv
  <2>2. Paired(Replace(s, routes))
    BY <1>1, <2>1, ReplacePairs
  <2> QED
    BY <1>2, <1>5, <2>1, <2>2
<1>8. {"unpaired", "inside"} \cap slips' = {} => \A t \in Files' : NoneInside(t)
  <2> SUFFICES ASSUME {"unpaired", "inside"} \cap slips' = {}, NEW t \in Files'
               PROVE  NoneInside(t)
    OBVIOUS
  <2>1. \A f \in Files : Paired(f) /\ NoneInside(f)
    BY <1>6 DEF Inv
  <2>2. NoneInside(Replace(s, routes))
    BY <1>1, <2>1, ReplacePairs
  <2> QED
    BY <1>2, <1>5, <2>1, <2>2
<1>9. UserLinesSurvive'
  <2> SUFFICES ASSUME slips' = {} PROVE OfUser(content') = wanted'
    BY DEF UserLinesSurvive, OfUser
  <2>1. slips = {} /\ OfUser(s) = OfUser(content)
    BY <1>2
  <2>2. OfUser(content) = wanted /\ NoneInside(s)
    BY <1>1, <2>1 DEF Inv, UserLinesSurvive
  <2>3. OfUser(Cut(s)) = OfUser(s)
    BY <1>1, <2>2, CutKeepsUserLines
  <2>4. OfUser(Replace(s, routes)) = OfUser(Cut(s))
    BY <1>1, ReplaceKeepsWhatCutKeeps
  <2> QED
    BY <1>2, <2>1, <2>2, <2>3, <2>4
<1> QED
  BY <1>4, <1>7, <1>8, <1>9 DEF Inv

(* The invariant is kept: an edit.                                           *)
LEMMA AddLineStep ==
    ASSUME Inv, NEW l \in UserLines \cup {Blank}, NEW i \in 1..(Len(content) + 1), AddLine(l, i)
    PROVE  Inv'
<1>0. content \in Seq(Line) /\ l \in Plain /\ l \in Line
  BY DistinctLines DEF Inv, TypeOK, Plain
<1>1. /\ content' = InsertAt(content, i, l)
      /\ edits < MaxEdits /\ edits' = edits + 1
      /\ wanted' = OfUser(content')
      /\ slips' = IF l # Blank /\ InBlock(i) THEN slips \cup {"inside"} ELSE slips
      /\ view' = view
  BY DEF AddLine, Edited
<1>2. content' \in Seq(Line)
  BY <1>0, <1>1, InsertFacts
<1>3. OfUser(content') \in Seq(UserLines)
  BY <1>2, OfUserLines
<1>4. TypeOK'
  BY <1>1, <1>2, <1>3, BoundAssumption DEF Inv, TypeOK
<1>5. Files' \subseteq {content'} \cup Files
  BY <1>1 DEF Files
<1>6. "unpaired" \notin slips' => \A t \in Files' : Paired(t)
  <2> SUFFICES ASSUME "unpaired" \notin slips', NEW t \in Files' PROVE Paired(t)
    OBVIOUS
  <2>1. \A f \in Files : Paired(f)
    BY <1>1 DEF Inv
  <2>2. Paired(InsertAt(content, i, l))
    BY <1>0, <2>1, InsertKeeps DEF Files
  <2> QED
    BY <1>1, <1>5, <2>1, <2>2
<1>7. {"unpaired", "inside"} \cap slips' = {} => \A t \in Files' : NoneInside(t)
  <2> SUFFICES ASSUME {"unpaired", "inside"} \cap slips' = {}, NEW t \in Files'
               PROVE  NoneInside(t)
    OBVIOUS
  <2>1. {"unpaired", "inside"} \cap slips = {} /\ (l # Blank => ~InBlock(i))
    BY <1>1
  <2>2. \A f \in Files : Paired(f) /\ NoneInside(f)
    BY <2>1 DEF Inv
  <2>3. Paired(content) /\ NoneInside(content)
    BY <2>2 DEF Files
  <2>4. NoneInside(InsertAt(content, i, l))
    BY <1>0, <2>1, <2>3, InsertKeeps DEF InBlock
  <2> QED
    BY <1>1, <1>5, <2>2, <2>4
<1>8. UserLinesSurvive'
  BY <1>1 DEF UserLinesSurvive, OfUser
<1> QED
  BY <1>4, <1>6, <1>7, <1>8 DEF Inv

LEMMA DeleteLineStep ==
    ASSUME Inv, NEW i \in DOMAIN content, DeleteLine(i)
    PROVE  Inv'
<1>0. content \in Seq(Line) /\ i \in 1..Len(content)
  BY LenProperties DEF Inv, TypeOK
<1>1. /\ content' = RemoveAt(content, i)
      /\ edits < MaxEdits /\ edits' = edits + 1
      /\ wanted' = OfUser(content')
      /\ slips' = IF content[i] \in {Begin, End} THEN slips \cup {"unpaired"} ELSE slips
      /\ view' = view
  BY DEF DeleteLine, Edited
<1>2. content' \in Seq(Line)
  BY <1>0, <1>1, RemoveFacts
<1>3. OfUser(content') \in Seq(UserLines)
  BY <1>2, OfUserLines
<1>4. TypeOK'
  BY <1>1, <1>2, <1>3, BoundAssumption DEF Inv, TypeOK
<1>5. Files' \subseteq {content'} \cup Files
  BY <1>1 DEF Files
<1>6. "unpaired" \notin slips' => \A t \in Files' : Paired(t)
  <2> SUFFICES ASSUME "unpaired" \notin slips', NEW t \in Files' PROVE Paired(t)
    OBVIOUS
  <2>1. content[i] \notin {Begin, End} /\ \A f \in Files : Paired(f)
    BY <1>1 DEF Inv
  <2>2. Paired(RemoveAt(content, i))
    BY <1>0, <2>1, RemoveKeeps DEF Files
  <2> QED
    BY <1>1, <1>5, <2>1, <2>2
<1>7. {"unpaired", "inside"} \cap slips' = {} => \A t \in Files' : NoneInside(t)
  <2> SUFFICES ASSUME {"unpaired", "inside"} \cap slips' = {}, NEW t \in Files'
               PROVE  NoneInside(t)
    OBVIOUS
  <2>1. content[i] \notin {Begin, End} /\ \A f \in Files : Paired(f) /\ NoneInside(f)
    BY <1>1 DEF Inv
  <2>2. Paired(content) /\ NoneInside(content)
    BY <2>1 DEF Files
  <2>3. NoneInside(RemoveAt(content, i))
    BY <1>0, <2>1, <2>2, RemoveKeeps
  <2> QED
    BY <1>1, <1>5, <2>1, <2>3
<1>8. UserLinesSurvive'
  BY <1>1 DEF UserLinesSurvive, OfUser
<1> QED
  BY <1>4, <1>6, <1>7, <1>8 DEF Inv

(* The invariant is kept by every step, and so it always holds.              *)
LEMMA InvStep == Inv /\ [Next]_vars => Inv'
<1> SUFFICES ASSUME Inv, [Next]_vars PROVE Inv'
  OBVIOUS
<1>1. CASE UserStep
  <2>1. CASE \E l \in UserLines \cup {Blank}, i \in 1..(Len(content) + 1) : AddLine(l, i)
    BY <2>1, AddLineStep
  <2>2. CASE \E i \in DOMAIN content : DeleteLine(i)
    BY <2>2, DeleteLineStep
  <2> QED
    BY <1>1, <2>1, <2>2 DEF UserStep
<1>2. ASSUME NEW w \in Writers, WriterStep(w) PROVE Inv'
  <2>1. CASE Read(w)
    BY <2>1, ReadStep
  <2>2. CASE GiveUp(w)
    BY <2>2, GiveUpStep
  <2>3. CASE \E routes \in Routes : Write(w, routes)
    BY <2>3, WriteStep
  <2> QED
    BY <1>2, <2>1, <2>2, <2>3 DEF WriterStep
<1>3. CASE UNCHANGED vars
  <2>1. /\ content' = content /\ view' = view /\ wanted' = wanted
        /\ edits' = edits /\ slips' = slips
    BY <1>3 DEF vars
  <2> QED
    BY <2>1 DEF Inv, TypeOK, UserLinesSurvive, OfUser, Files
<1> QED
  BY <1>1, <1>2, <1>3 DEF Next

LEMMA Invariant == Spec => []Inv
BY InitInv, InvStep, PTL DEF Spec

-------------------------------------------------------------------------------

(* The variables keep their types.                                           *)
THEOREM TypeCorrect == Spec => []TypeOK
<1>1. Inv => TypeOK
  BY DEF Inv
<1> QED
  BY <1>1, Invariant, PTL

(* The user's lines are what the user left, in their order, however often    *)
(* and by however many processes the block is replaced, unless an edit was   *)
(* made between a read and a write, inside the block, or to its markers.     *)
THEOREM UserLinesSafe == Spec => []UserLinesSurvive
<1>1. Inv => UserLinesSurvive
  BY DEF Inv
<1> QED
  BY <1>1, Invariant, PTL

(* While the markers are left alone there is one block at most, and every    *)
(* line of a host name is in it.                                             *)
THEOREM OneBlockAtMost == Spec => []OneBlock
<1>1. Inv => OneBlock
  BY DEF Inv, OneBlock, Files
<1> QED
  BY <1>1, Invariant, PTL

(* Replace is a projection on the files there are, and without routes it     *)
(* leaves nothing of the block.                                              *)
THEOREM ReplaceIsStable == Spec => []ReplaceSettles
<1>1. ASSUME Inv PROVE ReplaceSettles
  <2> SUFFICES ASSUME "unpaired" \notin slips
               PROVE  /\ \A routes \in Routes :
                            Replace(Replace(content, routes), routes) = Replace(content, routes)
                      /\ Range(Replace(content, NoRoutes)) \subseteq UserLines \cup {Blank}
    BY DEF ReplaceSettles
  <2>1. content \in Seq(Line) /\ Paired(content)
    BY <1>1 DEF Inv, TypeOK, Files
  <2>2. \A routes \in Routes :
           Replace(Replace(content, routes), routes) = Replace(content, routes)
    BY <2>1, ReplaceTwice
  <2>3. Replace(content, NoRoutes) \in Seq(Plain)
    BY <2>1, ReplaceIs, KeptLinesFacts
  <2>4. ASSUME NEW s \in Seq(Plain) PROVE Range(s) \subseteq UserLines \cup {Blank}
    BY LenProperties, ElementOfSeq DEF Range, Plain
  <2> QED
    BY <2>2, <2>3, <2>4
<1> QED
  BY <1>1, Invariant, PTL

(* A sequence begins what it is joined to.                                   *)
LEMMA PrefixOfConcat ==
    ASSUME NEW Value, NEW s \in Seq(Value), NEW t \in Seq(Value)
    PROVE  IsPrefix(s, s \o t)
<1> DEFINE u == s \o t
           a == SubSeq(s, 1, Len(s))
           z == SubSeq(u, 1, Len(s))
<1>1. /\ u \in Seq(Value) /\ Len(u) = Len(s) + Len(t)
      /\ \A i \in 1..(Len(s) + Len(t)) : u[i] = IF i <= Len(s) THEN s[i] ELSE t[i - Len(s)]
  BY ConcatProperties
<1> HIDE DEF u
<1>2. Len(s) \in Nat /\ Len(t) \in Nat /\ Len(s) <= Len(u)
  BY <1>1, LenProperties
<1>3. /\ a \in Seq(Value) /\ Len(a) = IF 1 <= Len(s) THEN Len(s) - 1 + 1 ELSE 0
      /\ \A i \in 1..(Len(s) - 1 + 1) : a[i] = s[1 + i - 1]
  BY <1>2, PieceFacts
<1>4. /\ z \in Seq(Value) /\ Len(z) = IF 1 <= Len(s) THEN Len(s) - 1 + 1 ELSE 0
      /\ \A i \in 1..(Len(s) - 1 + 1) : z[i] = u[1 + i - 1]
  BY <1>1, <1>2, PieceFacts
<1> HIDE DEF a, z
<1>5. ASSUME NEW i \in 1..Len(a) PROVE a[i] = z[i]
  <2>1. i \in 1..(Len(s) - 1 + 1) /\ i \in 1..(Len(s) + Len(t)) /\ i <= Len(s) /\ 1 + i - 1 = i
    BY <1>2, <1>3
  <2> QED
    BY <1>1, <1>3, <1>4, <2>1
<1>6. a = z
  BY <1>3, <1>4, <1>5, SeqEqual
<1> QED
  BY <1>2, <1>6 DEF IsPrefix, a, z, u

(* What Cut leaves begins with what stands before the first begin.           *)
LEMMA CutKeepsBefore ==
    ASSUME NEW s \in Seq(Line), Begins(s) # {}
    PROVE  /\ SubSeq(s, 1, Min(Begins(s)) - 1) \in Seq(Line)
           /\ \E rest \in Seq(Line) : Cut(s) = SubSeq(s, 1, Min(Begins(s)) - 1) \o rest
<1> DEFINE m == Min(Begins(s))
<1>0. Len(s) \in Nat /\ DOMAIN s = 1..Len(s)
  BY LenProperties
<1>1. Begins(s) \subseteq Nat
  BY <1>0 DEF Begins
<1>2. m \in Begins(s)
  BY <1>1, MinFacts
<1>3. m \in 1..Len(s)
  BY <1>0, <1>2 DEF Begins
<1> HIDE DEF m
<1>4. m - 1 \in 0..Len(s) /\ (m - 1) + 1 = m
  BY <1>0, <1>3
<1>5. /\ SubSeq(s, 1, m - 1) \in Seq(Line) /\ SubSeq(s, m, Len(s)) \in Seq(Line)
      /\ s = SubSeq(s, 1, m - 1) \o SubSeq(s, m, Len(s))
  BY <1>4, TwoPieces
<1>6. CASE EndsAfter(s, m) = {}
  <2>1. Cut(s) = s
    BY <1>6 DEF Cut, m
  <2> QED
    BY <1>5, <2>1 DEF m
<1>7. CASE EndsAfter(s, m) # {}
  <2> DEFINE stop == Min(EndsAfter(s, m))
             z == SubSeq(s, stop + 1, Len(s))
  <2>1. EndsAfter(s, m) \subseteq Nat
    BY <1>0 DEF EndsAfter
  <2>2. stop \in EndsAfter(s, m)
    BY <1>7, <2>1, MinFacts
  <2>3. stop \in 0..Len(s)
    BY <1>0, <2>2 DEF EndsAfter
  <2>4. Cut(s) = SubSeq(s, 1, m - 1) \o SkipBlanks(z)
    BY <1>7 DEF Cut, m
  <2> HIDE DEF stop
  <2>5. z \in Seq(Line)
    BY <2>3, TwoPieces
  <2> HIDE DEF z
  <2>6. SkipBlanks(z) \in Seq(Line)
    BY <2>5, SkipType
  <2> QED
    BY <1>5, <2>4, <2>6 DEF m
<1> QED
  BY <1>6, <1>7

(* What stands before the first begin survives a write, paired or not.       *)
LEMMA WriteKeepsBefore ==
    ASSUME TypeOK, NEW w \in Writers, NEW routes \in Routes,
           Write(w, routes), view[w] = content
    PROVE  IsPrefix(OfUser(IF Begins(content) = {} THEN content
                           ELSE SubSeq(content, 1, Min(Begins(content)) - 1)),
                    OfUser(content'))
<1> DEFINE s == content
           before == IF Begins(s) = {} THEN s ELSE SubSeq(s, 1, Min(Begins(s)) - 1)
<1>1. s \in Seq(Line) /\ content' = Replace(s, routes)
  BY DEF TypeOK, Write
<1>2. OfUser(content') = OfUser(Cut(s))
  BY <1>1, ReplaceKeepsWhatCutKeeps
<1>3. before \in Seq(Line) /\ \E rest \in Seq(Line) : Cut(s) = before \o rest
  <2>1. CASE Begins(s) = {}
    <3>1. Cut(s) = s /\ before = s
      BY <2>1 DEF Cut
    <3>2. s \o <<>> = s /\ <<>> \in Seq(Line)
      BY <1>1, ConcatEmptySeq, EmptySeq
    <3> QED
      BY <1>1, <3>1, <3>2
  <2>2. CASE Begins(s) # {}
    BY <1>1, <2>2, CutKeepsBefore
  <2> QED
    BY <2>1, <2>2
<1> HIDE DEF before
<1>4. PICK rest \in Seq(Line) : Cut(s) = before \o rest
  BY <1>3
<1>5. OfUser(Cut(s)) = OfUser(before) \o OfUser(rest)
  BY <1>3, <1>4, OfUserConcat
<1>6. OfUser(before) \in Seq(Line) /\ OfUser(rest) \in Seq(Line)
  BY <1>3, OfUserType
<1>7. IsPrefix(OfUser(before), OfUser(content'))
  BY <1>2, <1>5, <1>6, PrefixOfConcat
<1> QED
  BY <1>7 DEF before

(* What stands before the first begin survives every write of a file that    *)
(* was not edited since it was read, also when the markers no longer pair.   *)
THEOREM LinesBeforeBlockSafe == Spec => LinesBeforeBlockSurvive
<1>1. ASSUME Inv
      PROVE  \A w \in Writers, routes \in Routes :
                Write(w, routes) /\ view[w] = content =>
                    LET before == IF Begins(content) = {} THEN content
                                  ELSE SubSeq(content, 1, Min(Begins(content)) - 1)
                    IN  IsPrefix(OfUser(before), OfUser(content'))
  BY <1>1, WriteKeepsBefore DEF Inv
<1> QED
  BY <1>1, Invariant, PTL DEF LinesBeforeBlockSurvive
===============================================================================

------------------------ MODULE SpliceSynthesisProofs ------------------------
(***************************************************************************)
(* Proofs about SpliceSynthesis, for any charset, any bound on the length  *)
(* of the strings and any set of requests: the strings that a template     *)
(* stands for lie where the constraint wants them, a merged disjunct holds *)
(* a disjunct of every structure, and what the solver answers satisfies    *)
(* one of every structure.                                                 *)
(***************************************************************************)
EXTENDS SpliceSynthesis, FiniteSetTheorems, SequenceTheorems, TLAPS

Letter == 1 .. Letters
Word == Seq(Letter)

---------------------------------------------------------------------------
(* Numbers and words.                                                      *)

\* Induction is by the smallest counterexample.
LEMMA LeastNumber ==
    ASSUME NEW T \in SUBSET Nat, T # {}
    PROVE  \E k \in T : \A n \in T : k <= n
  <1> DEFINE R == OpToRel(<, Nat)
  <1>1. IsWellFoundedOn(R, Nat)
    BY NatLessThanWellFounded
  <1> HIDE DEF R
  <1>2. PICK k \in T : \A n \in T : ~(<<n, k>> \in R)
    BY <1>1, WFMin
  <1>3. \A n \in T : ~(n < k)
    BY <1>2 DEF R, OpToRel
  <1> QED BY <1>3

LEMMA WordsAreWords ==
    ASSUME NEW n \in Nat, NEW t \in Words(n)
    PROVE  t \in Word /\ Len(t) \in 0 .. n
  <1>1. PICK k \in 0 .. n : t \in [1 .. k -> Letter]
    BY DEF Words, Letter
  <1> QED BY <1>1 DEF Word

LEMMA TextIsWords == BoundText \subseteq Text /\ Text \subseteq Word /\ <<>> \in Text
  <1>1. BoundLength \in Nat /\ BoundLength + 1 \in Nat
    BY StringsAssumption
  <1>2. Text \subseteq Word
    BY <1>1, WordsAreWords DEF Text
  <1>3. BoundText \subseteq Text
    BY <1>1 DEF BoundText, Text, Words
  <1>4. <<>> \in [1 .. 0 -> 1 .. Letters]
    OBVIOUS
  <1>5. <<>> \in Text
    BY <1>1, <1>4 DEF Text, Words
  <1> QED BY <1>2, <1>3, <1>5

LEMMA StartProperties ==
    ASSUME NEW t \in Word, NEW n \in 0 .. Len(t)
    PROVE  /\ Start(t, n) \in Word /\ Len(Start(t, n)) = n
           /\ \A i \in 1 .. n : Start(t, n)[i] = t[i]
  <1>1. \A i \in 1 .. n : t[i] \in Letter
    BY DEF Word
  <1> QED BY <1>1, SubSeqProperties DEF Start, Word

LEMMA StartEqual ==
    ASSUME NEW s \in Word, NEW t \in Word, NEW n \in Nat, n <= Len(s), n <= Len(t)
    PROVE  Start(s, n) = Start(t, n) <=> \A i \in 1 .. n : s[i] = t[i]
  <1>1. n \in 0 .. Len(s) /\ n \in 0 .. Len(t)
    OBVIOUS
  <1>2. /\ Start(s, n) \in Seq(Letter) /\ Len(Start(s, n)) = n
        /\ \A i \in 1 .. n : Start(s, n)[i] = s[i]
    BY <1>1, StartProperties DEF Word
  <1>3. /\ Start(t, n) \in Seq(Letter) /\ Len(Start(t, n)) = n
        /\ \A i \in 1 .. n : Start(t, n)[i] = t[i]
    BY <1>1, StartProperties DEF Word
  <1>4. ASSUME \A i \in 1 .. n : s[i] = t[i] PROVE Start(s, n) = Start(t, n)
    BY <1>2, <1>3, <1>4, SeqEqual
  <1>5. ASSUME Start(s, n) = Start(t, n), NEW i \in 1 .. n PROVE s[i] = t[i]
    BY <1>2, <1>3, <1>5
  <1> QED BY <1>4, <1>5

---------------------------------------------------------------------------
(* The order of words.                                                     *)

\* s is less than t at place i.
LessAt(s, t, i) ==
    /\ i \in 1 .. Len(t) /\ i <= Len(s) + 1
    /\ \A j \in 1 .. i - 1 : s[j] = t[j]
    /\ i <= Len(s) => s[i] < t[i]

LEMMA LessIff ==
    ASSUME NEW s \in Word, NEW t \in Word
    PROVE  Less(s, t) <=> \E i \in Nat : LessAt(s, t, i)
  <1>1. ASSUME NEW i \in 1 .. Len(t), i <= Len(s) + 1
        PROVE  Start(s, i - 1) = Start(t, i - 1) <=> \A j \in 1 .. i - 1 : s[j] = t[j]
    <2>1. i - 1 \in Nat /\ i - 1 <= Len(s) /\ i - 1 <= Len(t)
      BY <1>1 DEF Word
    <2> QED BY <2>1, StartEqual
  <1>2. 1 .. Len(t) \subseteq Nat
    OBVIOUS
  <1> QED BY <1>1, <1>2 DEF Less, LessAt

LEMMA WordTypes ==
    ASSUME NEW s \in Word
    PROVE  /\ Len(s) \in Nat /\ s \in Seq(Letter)
           /\ \A i \in 1 .. Len(s) : s[i] \in Nat /\ s[i] >= 1 /\ s[i] <= Letters
  BY StringsAssumption DEF Word, Letter

LEMMA LessIrreflexive ==
    ASSUME NEW s \in Word
    PROVE  ~Less(s, s)
  BY LessIff, WordTypes DEF LessAt

LEMMA LessTransitive ==
    ASSUME NEW s \in Word, NEW t \in Word, NEW u \in Word, Less(s, t), Less(t, u)
    PROVE  Less(s, u)
  <1>1. PICK i \in Nat : LessAt(s, t, i)
    BY LessIff
  <1>2. PICK k \in Nat : LessAt(t, u, k)
    BY LessIff
  <1>3. CASE i <= k
    <2>1. LessAt(s, u, i)
      BY <1>1, <1>2, <1>3, WordTypes DEF LessAt
    <2> QED BY <2>1, LessIff
  <1>4. CASE k < i
    <2>1. LessAt(s, u, k)
      BY <1>1, <1>2, <1>4, WordTypes DEF LessAt
    <2> QED BY <2>1, LessIff
  <1> QED BY <1>3, <1>4

LEMMA LessAsymmetric ==
    ASSUME NEW s \in Word, NEW t \in Word, Less(s, t)
    PROVE  ~Less(t, s) /\ s # t
  BY LessTransitive, LessIrreflexive

\* The first place at which two words differ, or one of them ends.
LEMMA FirstDifference ==
    ASSUME NEW s \in Word, NEW t \in Word
    PROVE  \E n \in Nat :
              /\ n <= Len(s) /\ n <= Len(t)
              /\ \A i \in 1 .. n : s[i] = t[i]
              /\ n < Len(s) /\ n < Len(t) => s[n + 1] # t[n + 1]
  <1> DEFINE D == {n \in Nat : ~(n < Len(s) /\ n < Len(t) /\ s[n + 1] = t[n + 1])}
  <1>1. Len(s) \in D
    BY WordTypes
  <1>2. PICK n \in D : \A k \in D : n <= k
    BY <1>1, LeastNumber
  <1>3. ASSUME NEW i \in 1 .. n PROVE i <= Len(s) /\ i <= Len(t) /\ s[i] = t[i]
    <2>1. i - 1 \in Nat /\ i - 1 \notin D
      BY <1>2
    <2>2. (i - 1) + 1 = i
      OBVIOUS
    <2> QED BY <2>1, <2>2, WordTypes
  <1>4. n <= Len(s) /\ n <= Len(t)
    <2>1. CASE n = 0
      BY <2>1, WordTypes
    <2>2. CASE n # 0
      <3>1. n \in 1 .. n
        BY <2>2
      <3> QED BY <3>1, <1>3
    <2> QED BY <2>1, <2>2
  <1> QED BY <1>2, <1>3, <1>4

LEMMA LessTotal ==
    ASSUME NEW s \in Word, NEW t \in Word
    PROVE  s = t \/ Less(s, t) \/ Less(t, s)
  <1>1. PICK n \in Nat :
              /\ n <= Len(s) /\ n <= Len(t)
              /\ \A i \in 1 .. n : s[i] = t[i]
              /\ n < Len(s) /\ n < Len(t) => s[n + 1] # t[n + 1]
    BY FirstDifference
  <1>2. CASE n = Len(s) /\ n = Len(t)
    <2>1. s = t
      BY <1>1, <1>2, WordTypes, SeqEqual
    <2> QED BY <2>1
  <1>3. CASE n < Len(t) /\ (n < Len(s) => s[n + 1] < t[n + 1])
    <2>1. LessAt(s, t, n + 1)
      BY <1>1, <1>3, WordTypes DEF LessAt
    <2> QED BY <2>1, LessIff
  <1>4. CASE n < Len(s) /\ (n < Len(t) => t[n + 1] < s[n + 1])
    <2>1. LessAt(t, s, n + 1)
      BY <1>1, <1>4, WordTypes DEF LessAt
    <2> QED BY <2>1, LessIff
  <1> QED BY <1>1, <1>2, <1>3, <1>4, WordTypes

\* A list has an element that a total and transitive relation has before all others.
LEMMA FirstOfList ==
    ASSUME NEW W, NEW R, NEW q \in Seq(W), q # <<>>,
           \A s, t \in W : s = t \/ <<s, t>> \in R \/ <<t, s>> \in R,
           \A s, t, u \in W : <<s, t>> \in R /\ <<t, u>> \in R => <<s, u>> \in R
    PROVE  \E s \in Range(q) : \A t \in Range(q) : s = t \/ <<s, t>> \in R
  <1> DEFINE First(n, k) == k \in 1 .. n /\ \A i \in 1 .. n : q[k] = q[i] \/ <<q[k], q[i]>> \in R
             C == {n \in 1 .. Len(q) : \A k \in 1 .. n : ~First(n, k)}
  <1>1. Len(q) \in Nat /\ Len(q) >= 1 /\ \A i \in 1 .. Len(q) : q[i] \in W
    BY EmptySeq, LenProperties, ElementOfSeq
  <1>2. C = {}
    <2> SUFFICES ASSUME C # {} PROVE FALSE
      OBVIOUS
    <2>1. PICK n \in C : \A m \in C : n <= m
      <3>1. C \in SUBSET Nat
        BY <1>1
      <3> HIDE DEF C
      <3> QED BY <3>1, LeastNumber
    <2>2. n \in 1 .. Len(q) /\ q[n] \in W
      BY <1>1
    <2>3. n # 1
      <3>1. First(1, 1)
        OBVIOUS
      <3> QED BY <3>1
    <2>4. n - 1 \notin C /\ n - 1 \in 1 .. Len(q)
      <3>1. n \in Nat /\ n - 1 \in 1 .. Len(q)
        BY <2>2, <2>3, <1>1
      <3> HIDE DEF C
      <3> QED BY <2>1, <3>1
    <2>5. PICK k \in 1 .. n - 1 : First(n - 1, k)
      BY <2>4
    <2>6. q[k] \in W /\ k \in 1 .. n
      BY <1>1, <2>2
    <2>7. CASE q[k] = q[n] \/ <<q[k], q[n]>> \in R
      <3>1. First(n, k)
        <4>1. \A i \in 1 .. n : i = n \/ i \in 1 .. n - 1
          BY <2>2
        <4> QED BY <4>1, <2>5, <2>6, <2>7
      <3> QED BY <3>1, <2>6
    <2>8. CASE <<q[n], q[k]>> \in R
      <3>1. First(n, n)
        <4>1. ASSUME NEW i \in 1 .. n - 1 PROVE <<q[n], q[i]>> \in R
          <5>1. q[i] \in W
            BY <1>1, <2>2
          <5> QED BY <5>1, <2>2, <2>5, <2>6, <2>8
        <4>2. \A i \in 1 .. n : i = n \/ i \in 1 .. n - 1
          BY <2>2
        <4>3. \A i \in 1 .. n : q[n] = q[i] \/ <<q[n], q[i]>> \in R
          <5> HIDE DEF C
          <5> QED BY <4>1, <4>2
        <4>4. n \in 1 .. n
          BY <2>2
        <4> QED BY <4>3, <4>4
      <3> QED BY <3>1, <2>2
    <2> QED BY <2>2, <2>6, <2>7, <2>8
  <1>3. PICK k \in 1 .. Len(q) : First(Len(q), k)
    <2>1. Len(q) \in 1 .. Len(q)
      BY <1>1
    <2>2. Len(q) \notin C
      <3> HIDE DEF C
      <3> QED BY <1>2
    <2> QED BY <2>1, <2>2
  <1>4. Range(q) = {q[i] : i \in 1 .. Len(q)}
    BY RangeEquality
  <1>5. q[k] \in Range(q) /\ \A t \in Range(q) : q[k] = t \/ <<q[k], t>> \in R
    BY <1>3, <1>4
  <1> QED BY <1>5

LEMMA LeastOfList ==
    ASSUME NEW q \in Seq(Word), q # <<>>
    PROVE  /\ Least(Range(q)) \in Range(q)
           /\ \A t \in Range(q) : Least(Range(q)) = t \/ Less(Least(Range(q)), t)
  <1> DEFINE R == {st \in Word \X Word : Less(st[1], st[2])}
  <1>1. \A s, t \in Word : <<s, t>> \in R <=> Less(s, t)
    OBVIOUS
  <1> HIDE DEF R
  <1>2. \E s \in Range(q) : \A t \in Range(q) : s = t \/ <<s, t>> \in R
    <2>1. \A s, t \in Word : s = t \/ <<s, t>> \in R \/ <<t, s>> \in R
      BY <1>1, LessTotal
    <2>2. \A s, t, u \in Word : <<s, t>> \in R /\ <<t, u>> \in R => <<s, u>> \in R
      BY <1>1, LessTransitive
    <2> QED BY <2>1, <2>2, FirstOfList
  <1>3. Range(q) \subseteq Word
    BY RangeOfSeq
  <1> QED BY <1>1, <1>2, <1>3 DEF Least

LEMMA GreatestOfList ==
    ASSUME NEW q \in Seq(Word), q # <<>>
    PROVE  /\ Greatest(Range(q)) \in Range(q)
           /\ \A t \in Range(q) : Greatest(Range(q)) = t \/ Less(t, Greatest(Range(q)))
  <1> DEFINE R == {st \in Word \X Word : Less(st[2], st[1])}
  <1>1. \A s, t \in Word : <<s, t>> \in R <=> Less(t, s)
    OBVIOUS
  <1> HIDE DEF R
  <1>2. \E s \in Range(q) : \A t \in Range(q) : s = t \/ <<s, t>> \in R
    <2>1. \A s, t \in Word : s = t \/ <<s, t>> \in R \/ <<t, s>> \in R
      BY <1>1, LessTotal
    <2>2. \A s, t, u \in Word : <<s, t>> \in R /\ <<t, u>> \in R => <<s, u>> \in R
      BY <1>1, LessTransitive
    <2> QED BY <2>1, <2>2, FirstOfList
  <1>3. Range(q) \subseteq Word
    BY RangeOfSeq
  <1> QED BY <1>1, <1>2, <1>3 DEF Greatest

---------------------------------------------------------------------------
(* The templates.                                                          *)

LEMMA PlaceProperties ==
    ASSUME NEW v \in Word, NEW offset \in Nat, NEW letter
    PROVE  LET i == PlaceWithout(v, offset, letter) IN
           \/ i = 0 /\ \A k \in offset + 1 .. Len(v) : v[k] = letter
           \/ /\ i \in offset + 1 .. Len(v) /\ v[i] # letter
              /\ \A k \in offset + 1 .. i - 1 : v[k] = letter
  <1> DEFINE places == {i \in offset + 1 .. Len(v) : v[i] # letter}
  <1>1. CASE places = {}
    BY <1>1 DEF PlaceWithout
  <1>2. CASE places # {}
    <2>1. places \in SUBSET Nat
      BY WordTypes
    <2>2. \E k \in places : \A n \in places : k <= n
      <3> HIDE DEF places
      <3> QED BY <2>1, <1>2, LeastNumber
    <2>3. PICK i \in places : PlaceWithout(v, offset, letter) = i /\ \A j \in places : i <= j
      BY <2>2, <1>2 DEF PlaceWithout
    <2>4. i \in offset + 1 .. Len(v) /\ v[i] # letter
      OBVIOUS
    <2>5. ASSUME NEW k \in offset + 1 .. i - 1 PROVE v[k] = letter
      <3>1. k \in offset + 1 .. Len(v) /\ ~(i <= k)
        BY <2>4, WordTypes
      <3> QED BY <3>1, <2>3
    <2> QED BY <2>3, <2>4, <2>5
  <1> QED BY <1>1, <1>2

\* The template of lt stands for smaller strings only.
LEMMA LtTemplateBelow ==
    ASSUME NEW v \in Word, v # <<>>, NEW offset \in Nat, NEW t \in LtTemplate(v, offset)
    PROVE  t \in Word /\ Less(t, v)
  <1> DEFINE i == PlaceWithout(v, offset, 1)
  <1>1. Len(v) \in Nat /\ Len(v) >= 1
    BY EmptySeq DEF Word
  <1>2. CASE i = 0
    <2>1. t = Start(v, Len(v) - 1) /\ Len(v) - 1 \in 0 .. Len(v)
      BY <1>1, <1>2 DEF LtTemplate
    <2>2. t \in Word /\ Len(t) = Len(v) - 1 /\ \A k \in 1 .. Len(v) - 1 : t[k] = v[k]
      BY <2>1, StartProperties
    <2>3. LessAt(t, v, Len(v))
      BY <1>1, <2>2 DEF LessAt
    <2> QED BY <1>1, <2>2, <2>3, LessIff
  <1>3. CASE i # 0
    <2>1. i \in offset + 1 .. Len(v)
      BY <1>3, PlaceProperties
    <2>2. t \in Word /\ Len(t) >= i /\ Start(t, i - 1) = Start(v, i - 1) /\ t[i] < v[i]
      BY <1>3, TextIsWords DEF LtTemplate
    <2> HIDE DEF i
    <2>3. \A k \in 1 .. i - 1 : t[k] = v[k]
      <3>1. i - 1 \in Nat /\ i - 1 <= Len(t) /\ i - 1 <= Len(v)
        BY <1>1, <2>1, <2>2, WordTypes
      <3> QED BY <2>2, <3>1, StartEqual
    <2>4. LessAt(t, v, i) /\ i \in Nat
      BY <1>1, <2>1, <2>2, <2>3, WordTypes DEF LessAt
    <2> QED BY <2>2, <2>4, LessIff
  <1> QED BY <1>2, <1>3

\* The template of gt stands for greater strings only, which begin with as many
\* letters of the bound as the offset says.
LEMMA GtTemplateAbove ==
    ASSUME NEW v \in Word, NEW offset \in Nat, NEW t \in GtTemplate(v, offset)
    PROVE  /\ t \in Word /\ Less(v, t)
           /\ v # <<>> /\ offset <= Len(v) => Len(t) >= offset /\ \A k \in 1 .. offset : t[k] = v[k]
  <1> DEFINE i == PlaceWithout(v, offset, Letters)
  <1>1. Len(v) \in Nat
    BY WordTypes
  <1>2. CASE v = <<>>
    <2>1. t \in Word /\ t # <<>>
      BY <1>2, TextIsWords DEF GtTemplate
    <2>2. LessAt(v, t, 1)
      BY <1>2, <2>1, EmptySeq DEF LessAt, Word
    <2> QED BY <1>2, <2>1, <2>2, LessIff
  <1>3. CASE v # <<>> /\ i = 0
    <2>1. t = Append(v, 1) /\ 1 \in Letter
      BY <1>3, StringsAssumption DEF GtTemplate, Letter
    <2>2. /\ t \in Word /\ Len(t) = Len(v) + 1
          /\ \A k \in 1 .. Len(v) : t[k] = v[k]
      BY <2>1, AppendProperties DEF Word
    <2>3. LessAt(v, t, Len(v) + 1)
      BY <1>1, <2>2 DEF LessAt
    <2> QED BY <1>1, <2>2, <2>3, LessIff
  <1>4. CASE v # <<>> /\ i # 0
    <2>1. i \in offset + 1 .. Len(v)
      BY <1>4, PlaceProperties
    <2>2. t \in Word /\ Len(t) >= i /\ Start(t, i - 1) = Start(v, i - 1) /\ t[i] > v[i]
      BY <1>4, TextIsWords DEF GtTemplate
    <2> HIDE DEF i
    <2>3. \A k \in 1 .. i - 1 : t[k] = v[k]
      <3>1. i - 1 \in Nat /\ i - 1 <= Len(t) /\ i - 1 <= Len(v)
        BY <1>1, <2>1, <2>2, WordTypes
      <3> QED BY <2>2, <3>1, StartEqual
    <2>4. LessAt(v, t, i) /\ i \in Nat
      BY <1>1, <2>1, <2>2, <2>3, WordTypes DEF LessAt
    <2>5. Len(t) >= offset /\ \A k \in 1 .. offset : t[k] = v[k]
      BY <1>1, <2>1, <2>2, <2>3, WordTypes
    <2> QED BY <2>2, <2>4, <2>5, LessIff
  <1> QED BY <1>2, <1>3, <1>4

LEMMA NeOther ==
    ASSUME NEW v \in Word, v # <<>>, NEW t \in NeConstraint(v)
    PROVE  t # v
  <1>1. t \in LtTemplate(v, 0) \/ t \in GtTemplate(v, 0)
    BY DEF NeConstraint
  <1>2. t \in Word /\ (Less(t, v) \/ Less(v, t))
    BY <1>1, LtTemplateBelow, GtTemplateAbove
  <1> QED BY <1>2, LessIrreflexive

LEMMA LtBelow ==
    ASSUME NEW v \in Word, NEW offset \in Nat, NEW t \in LtConstraint(v, offset)
    PROVE  t \in Word /\ Less(t, v)
  BY LtTemplateBelow DEF LtConstraint

LEMMA LeBelow ==
    ASSUME NEW v \in Word, NEW offset \in Nat, NEW t \in LeConstraint(v, offset)
    PROVE  t \in Word /\ (t = v \/ Less(t, v))
  <1>1. CASE v # <<>>
    BY <1>1, LtTemplateBelow DEF LeConstraint
  <1>2. CASE v = <<>>
    <2>1. Len(v) = 0
      BY <1>2
    <2>2. PlaceWithout(v, offset, 1) = 0
      BY <2>1, PlaceProperties
    <2>3. Start(v, 0 - 1) = <<>>
      BY SubSeqEmpty DEF Start
    <2>4. t = v
      BY <1>2, <2>1, <2>2, <2>3 DEF LeConstraint, LtTemplate
    <2> QED BY <2>4
  <1> QED BY <1>1, <1>2

LEMMA GtAbove ==
    ASSUME NEW v \in Word, NEW offset \in Nat, NEW t \in GtConstraint(v, offset)
    PROVE  t \in Word /\ Less(v, t)
  BY GtTemplateAbove DEF GtConstraint

LEMMA GeAbove ==
    ASSUME NEW v \in Word, NEW offset \in Nat, NEW t \in GeConstraint(v, offset)
    PROVE  t \in Word /\ (t = v \/ Less(v, t))
  BY GtTemplateAbove DEF GeConstraint

LEMMA CommonProperties ==
    ASSUME NEW s \in Word, NEW t \in Word
    PROVE  LET n == Common(s, t) IN
           /\ n \in Nat /\ n <= Len(s) /\ n <= Len(t)
           /\ \A i \in 1 .. n : s[i] = t[i]
  <1>1. PICK n \in Nat :
              /\ n <= Len(s) /\ n <= Len(t)
              /\ \A i \in 1 .. n : s[i] = t[i]
              /\ n < Len(s) /\ n < Len(t) => s[n + 1] # t[n + 1]
    BY FirstDifference
  <1>2. n \in 0 .. Len(s) /\ Start(s, n) = Start(t, n)
    BY <1>1, StartEqual, WordTypes
  <1>3. LET c == Common(s, t) IN c \in 0 .. Len(s) /\ c <= Len(t) /\ Start(s, c) = Start(t, c)
    BY <1>1, <1>2 DEF Common
  <1>4. Common(s, t) \in Nat /\ Common(s, t) <= Len(s)
    BY <1>3, WordTypes
  <1> QED BY <1>3, <1>4, StartEqual

\* Two bounds whose letters after what they have in common follow each other: what
\* has these letters of the lower one is below the upper one.
LEMMA AdjacentBelow ==
    ASSUME NEW l \in Word, NEW u \in Word, NEW n \in Nat, Adjacent(l, u, n + 1),
           \A i \in 1 .. n : l[i] = u[i],
           NEW t \in Word, Len(t) >= n + 1, \A i \in 1 .. n + 1 : t[i] = l[i]
    PROVE  Less(t, u)
  <1>1. LessAt(t, u, n + 1)
    BY WordTypes DEF LessAt, Adjacent
  <1> QED BY <1>1, LessIff

LEMMA BoundedSound ==
    ASSUME NEW u \in Word, NEW l \in Word, NEW iu \in BOOLEAN, NEW il \in BOOLEAN,
           NEW t \in BoundedConstraints(u, l, iu, il)
    PROVE  /\ t \in Word
           /\ Less(t, u) \/ (iu /\ t = u)
           /\ Less(l, t) \/ (il /\ t = l)
  <1> DEFINE offset == Common(u, l)
  <1>1. /\ offset \in Nat /\ offset + 1 \in Nat /\ offset <= Len(u) /\ offset <= Len(l)
        /\ \A i \in 1 .. offset : u[i] = l[i]
    BY CommonProperties
  <1>2. u # l
    BY DEF BoundedConstraints
  <1>3. CASE Adjacent(l, u, offset + 1)
    <2>1. t \in IF il THEN GeConstraint(l, offset + 1) ELSE GtConstraint(l, offset + 1)
      BY <1>2, <1>3 DEF BoundedConstraints
    <2> HIDE DEF offset
    <2>2. t \in Word /\ (Less(l, t) \/ (il /\ t = l))
      BY <1>1, <2>1, GtAbove, GeAbove
    <2>3. l # <<>> /\ offset + 1 <= Len(l)
      BY <1>1, <1>3, WordTypes DEF Adjacent
    <2>4. t = l \/ t \in GtTemplate(l, offset + 1)
      BY <2>1 DEF GeConstraint, GtConstraint
    <2>5. Len(t) >= offset + 1 /\ \A k \in 1 .. offset + 1 : t[k] = l[k]
      BY <1>1, <2>3, <2>4, GtTemplateAbove, WordTypes
    <2>6. Less(t, u)
      BY <1>1, <1>3, <2>2, <2>5, AdjacentBelow
    <2> QED BY <2>2, <2>6
  <1>4. CASE ~Adjacent(l, u, offset + 1)
    <2>1. /\ t \in IF iu THEN LeConstraint(u, offset) ELSE LtConstraint(u, offset)
          /\ t \in IF il THEN GeConstraint(l, offset) ELSE GtConstraint(l, offset)
      BY <1>2, <1>4 DEF BoundedConstraints
    <2> HIDE DEF offset
    <2> QED BY <1>1, <2>1, GtAbove, GeAbove, LtBelow, LeBelow
  <1> QED BY <1>3, <1>4

---------------------------------------------------------------------------
(* One conjunct.                                                           *)

LEMMA NamedOperands ==
    ASSUME NEW m, Conjunct(m)
    PROVE  /\ \A op \in Operators : Named(m)[op] = Range(m[op]) /\ (Named(m)[op] = {} <=> m[op] = <<>>)
           /\ \A op \in {"lt", "le", "gt", "ge", "ne"} : m[op] \in Seq(Word) /\ Named(m)[op] \subseteq BoundText
           /\ \A op \in Operators : Named(m)[op] \subseteq Operands(op)
  <1>1. ASSUME NEW op \in Operators
        PROVE  /\ Named(m)[op] = Range(m[op]) /\ (Named(m)[op] = {} <=> m[op] = <<>>)
               /\ Range(m[op]) \subseteq Operands(op)
    <2>1. Named(m)[op] = Range(m[op])
      BY DEF Named
    <2>2. m[op] \in Seq(Operands(op))
      BY DEF Conjunct
    <2>3. Range(m[op]) = {m[op][i] : i \in 1 .. Len(m[op])}
      BY <2>2, RangeEquality
    <2>4. Range(m[op]) \subseteq Operands(op)
      BY <2>2, RangeOfSeq
    <2>5. m[op] = <<>> <=> Len(m[op]) = 0
      BY <2>2, EmptySeq
    <2>6. Len(m[op]) \in Nat
      BY <2>2, LenProperties
    <2>7. Range(m[op]) = {} <=> Len(m[op]) = 0
      <3>1. ASSUME Len(m[op]) # 0 PROVE Range(m[op]) # {}
        <4>1. 1 \in 1 .. Len(m[op])
          BY <2>6, <3>1
        <4> QED BY <4>1, <2>3
      <3>2. ASSUME Len(m[op]) = 0 PROVE Range(m[op]) = {}
        <4>1. 1 .. Len(m[op]) = {}
          BY <3>2
        <4> QED BY <4>1, <2>3
      <3> QED BY <3>1, <3>2
    <2> QED BY <2>1, <2>4, <2>5, <2>7
  <1>2. ASSUME NEW op \in {"lt", "le", "gt", "ge", "ne"}
        PROVE  m[op] \in Seq(Word) /\ Named(m)[op] \subseteq BoundText
    <2>1. op \in Operators /\ Operands(op) = BoundText
      BY DEF Operators, Operands
    <2>2. m[op] \in Seq(BoundText) /\ BoundText \subseteq Word
      BY <2>1, TextIsWords DEF Conjunct
    <2>3. m[op] \in Seq(Word)
      BY <2>2, SeqMonotonic
    <2> QED BY <1>1, <2>1, <2>3
  <1> QED BY <1>1, <1>2

LEMMA LeastOfTwo ==
    ASSUME NEW a \in Seq(Word), NEW b \in Seq(Word), Range(a) \cup Range(b) # {}
    PROVE  LET u == Least(Range(a) \cup Range(b)) IN
           u \in Word /\ \A v \in Range(a) \cup Range(b) : u = v \/ Less(u, v)
  <1>1. a \o b \in Seq(Word) /\ Range(a \o b) = Range(a) \cup Range(b)
    BY RangeConcatenation, ConcatProperties
  <1>2. a \o b # <<>>
    <2>1. Range(<<>>) = {}
      BY DEF Range
    <2> QED BY <1>1, <2>1
  <1>3. Range(a \o b) \subseteq Word
    BY <1>1, RangeOfSeq
  <1> QED BY <1>1, <1>2, <1>3, LeastOfList

LEMMA GreatestOfTwo ==
    ASSUME NEW a \in Seq(Word), NEW b \in Seq(Word), Range(a) \cup Range(b) # {}
    PROVE  LET l == Greatest(Range(a) \cup Range(b)) IN
           l \in Word /\ \A v \in Range(a) \cup Range(b) : l = v \/ Less(v, l)
  <1>1. a \o b \in Seq(Word) /\ Range(a \o b) = Range(a) \cup Range(b)
    BY RangeConcatenation, ConcatProperties
  <1>2. a \o b # <<>>
    <2>1. Range(<<>>) = {}
      BY DEF Range
    <2> QED BY <1>1, <2>1
  <1>3. Range(a \o b) \subseteq Word
    BY <1>1, RangeOfSeq
  <1> QED BY <1>1, <1>2, <1>3, GreatestOfList

\* What bounds and ne ask for.
Bounding(c, t) ==
    /\ \A v \in c.lt : Less(t, v)
    /\ \A v \in c.le : ~Less(v, t)
    /\ \A v \in c.gt : Less(v, t)
    /\ \A v \in c.ge : ~Less(t, v)

LEMMA BoundsSound ==
    ASSUME NEW m, Conjunct(m), NEW t \in Text,
           t \in IF Named(m).lt \cup Named(m).le # {} /\ Named(m).gt \cup Named(m).ge # {}
                 THEN Bounded(Named(m)) ELSE OneSided(Named(m))
    PROVE  Bounding(Named(m), t)
  <1> DEFINE c == Named(m)
  <1>1. /\ m.lt \in Seq(Word) /\ m.le \in Seq(Word) /\ m.gt \in Seq(Word) /\ m.ge \in Seq(Word)
        /\ c.lt = Range(m.lt) /\ c.le = Range(m.le) /\ c.gt = Range(m.gt) /\ c.ge = Range(m.ge)
        /\ c.lt \subseteq Word /\ c.le \subseteq Word /\ c.gt \subseteq Word /\ c.ge \subseteq Word
        /\ t \in Word
    BY NamedOperands, TextIsWords DEF Operators
  <1>2. /\ c.lt # {} => m.lt # <<>>
        /\ c.le # {} => m.le # <<>>
        /\ c.gt # {} => m.gt # <<>>
        /\ c.ge # {} => m.ge # <<>>
    BY NamedOperands DEF Operators
  <1> HIDE DEF c
  <1>3. CASE c.lt \cup c.le # {} /\ c.gt \cup c.ge # {}
    <2> DEFINE u == Least(c.lt \cup c.le)
               l == Greatest(c.gt \cup c.ge)
    <2>1. /\ u \in Word /\ \A v \in c.lt \cup c.le : u = v \/ Less(u, v)
          /\ l \in Word /\ \A v \in c.gt \cup c.ge : l = v \/ Less(v, l)
      BY <1>1, <1>3, LeastOfTwo, GreatestOfTwo
    <2>2. t \in BoundedConstraints(u, l, u \notin c.lt, l \notin c.gt)
      BY <1>3 DEF c, Bounded
    <2> HIDE DEF u, l
    <2>3. /\ Less(t, u) \/ (u \notin c.lt /\ t = u)
          /\ Less(l, t) \/ (l \notin c.gt /\ t = l)
      BY <2>1, <2>2, BoundedSound
    <2>4. ASSUME NEW v \in c.lt PROVE Less(t, v)
      BY <1>1, <2>1, <2>3, LessTransitive
    <2>5. ASSUME NEW v \in c.le PROVE ~Less(v, t)
      BY <1>1, <2>1, <2>3, LessTransitive, LessIrreflexive
    <2>6. ASSUME NEW v \in c.gt PROVE Less(v, t)
      BY <1>1, <2>1, <2>3, LessTransitive
    <2>7. ASSUME NEW v \in c.ge PROVE ~Less(t, v)
      BY <1>1, <2>1, <2>3, LessTransitive, LessIrreflexive
    <2> QED BY <2>4, <2>5, <2>6, <2>7 DEF Bounding, c
  <1>4. CASE ~(c.lt \cup c.le # {} /\ c.gt \cup c.ge # {})
    <2>1. /\ c.lt # {} => t \in LtConstraint(Least(c.lt), 0)
          /\ c.le # {} => t \in LeConstraint(Least(c.le), 0)
          /\ c.gt # {} => t \in GtConstraint(Greatest(c.gt), 0)
          /\ c.ge # {} => t \in GeConstraint(Greatest(c.ge), 0)
      BY <1>4 DEF c, OneSided
    <2>2. ASSUME NEW v \in c.lt PROVE Less(t, v)
      <3>1. Least(c.lt) \in c.lt /\ (Least(c.lt) = v \/ Less(Least(c.lt), v))
        BY <1>1, <1>2, LeastOfList
      <3>2. Less(t, Least(c.lt))
        BY <1>1, <2>1, <3>1, LtBelow
      <3> QED BY <1>1, <3>1, <3>2, LessTransitive
    <2>3. ASSUME NEW v \in c.le PROVE ~Less(v, t)
      <3>1. Least(c.le) \in c.le /\ (Least(c.le) = v \/ Less(Least(c.le), v))
        BY <1>1, <1>2, LeastOfList
      <3>2. t = Least(c.le) \/ Less(t, Least(c.le))
        BY <1>1, <2>1, <3>1, LeBelow
      <3> QED BY <1>1, <3>1, <3>2, LessTransitive, LessIrreflexive
    <2>4. ASSUME NEW v \in c.gt PROVE Less(v, t)
      <3>1. Greatest(c.gt) \in c.gt /\ (Greatest(c.gt) = v \/ Less(v, Greatest(c.gt)))
        BY <1>1, <1>2, GreatestOfList
      <3>2. Less(Greatest(c.gt), t)
        BY <1>1, <2>1, <3>1, GtAbove
      <3> QED BY <1>1, <3>1, <3>2, LessTransitive
    <2>5. ASSUME NEW v \in c.ge PROVE ~Less(t, v)
      <3>1. Greatest(c.ge) \in c.ge /\ (Greatest(c.ge) = v \/ Less(v, Greatest(c.ge)))
        BY <1>1, <1>2, GreatestOfList
      <3>2. t = Greatest(c.ge) \/ Less(Greatest(c.ge), t)
        BY <1>1, <2>1, <3>1, GeAbove
      <3> QED BY <1>1, <3>1, <3>2, LessTransitive, LessIrreflexive
    <2> QED BY <2>2, <2>3, <2>4, <2>5 DEF Bounding, c
  <1> QED BY <1>3, <1>4

\* What the string variable may be satisfies the bounds and ne.
LEMMA WordsForSound ==
    ASSUME NEW m, Conjunct(m), <<>> \notin Named(m).ne, NEW t \in Text, t \in WordsFor(Named(m))
    PROVE  Bounding(Named(m), t) /\ \A v \in Named(m).ne : t # v
  <1>1. t \in IF Named(m).lt \cup Named(m).le # {} /\ Named(m).gt \cup Named(m).ge # {}
              THEN Bounded(Named(m)) ELSE OneSided(Named(m))
    BY DEF WordsFor
  <1>2. Bounding(Named(m), t)
    BY <1>1, BoundsSound
  <1>3. Named(m).ne \subseteq Word
    BY NamedOperands, TextIsWords
  <1>4. \A v \in Named(m).ne : t \in NeConstraint(v)
    BY DEF WordsFor
  <1> QED BY <1>2, <1>3, <1>4, NeOther

LEMMA OneOperand ==
    ASSUME NEW m, Conjunct(m), NEW op \in Operators, Len(m[op]) <= 1
    PROVE  \A u, v \in Named(m)[op] : u = v
  <1>1. m[op] \in Seq(Operands(op)) /\ Named(m)[op] = Range(m[op])
    BY NamedOperands DEF Conjunct
  <1>2. Range(m[op]) = {m[op][i] : i \in 1 .. Len(m[op])} /\ Len(m[op]) \in Nat
    BY <1>1, RangeEquality, LenProperties
  <1>3. \A i \in 1 .. Len(m[op]) : i = 1
    BY <1>2
  <1> QED BY <1>1, <1>2, <1>3

\* The letters to keep.
LEMMA KeptProperties ==
    ASSUME NEW x, x.value \in Word, x.length \in Nat, x.length <= Len(x.value)
    PROVE  /\ KeptStart(x) \in Word /\ Len(KeptStart(x)) = x.length
           /\ KeptStart(x) = Start(x.value, x.length)
  <1>1. x.length \in 0 .. Len(x.value)
    BY WordTypes
  <1>2. KeptStart(x) = Start(x.value, x.length)
    BY <1>1, WordTypes DEF KeptStart
  <1> QED BY <1>1, <1>2, StartProperties

LEMMA MatchingIff ==
    ASSUME NEW x, x.value \in Word, x.length \in Nat, x.length <= Len(x.value),
           NEW T \in SUBSET Word, NEW v \in T
    PROVE  v \in Matching(T, x) <=>
             v # <<>> /\ Len(v) >= x.length /\ \A i \in 1 .. x.length : v[i] = x.value[i]
  <1>1. KeptStart(x) = Start(x.value, x.length)
    BY KeptProperties
  <1>2. Len(v) >= x.length =>
            (Start(v, x.length) = Start(x.value, x.length) <=> \A i \in 1 .. x.length : v[i] = x.value[i])
    BY StartEqual, WordTypes
  <1> QED BY <1>1, <1>2 DEF Matching

\* An upper bound of a string that does not begin with the letters to keep, as the
\* string does, is above all that begins with them.
LEMMA UpperWithout ==
    ASSUME NEW n \in Nat, NEW w \in Word, NEW u \in Word, NEW t \in Word, n > 0,
           Len(w) >= n, ~Less(u, w), ~(Len(u) >= n /\ \A i \in 1 .. n : u[i] = w[i]),
           Len(t) >= n, \A i \in 1 .. n : t[i] = w[i]
    PROVE  Less(t, u)
  <1>1. Less(w, u)
    BY LessTotal
  <1>2. PICK i \in Nat : LessAt(w, u, i)
    BY <1>1, LessIff
  <1>3. i <= n
    BY <1>2, WordTypes DEF LessAt
  <1>4. LessAt(t, u, i)
    BY <1>2, <1>3, WordTypes DEF LessAt
  <1> QED BY <1>4, LessIff

LEMMA LowerWithout ==
    ASSUME NEW n \in Nat, NEW w \in Word, NEW l \in Word, NEW t \in Word, n > 0,
           Len(w) >= n, ~Less(w, l), ~(Len(l) >= n /\ \A i \in 1 .. n : l[i] = w[i]),
           Len(t) >= n, \A i \in 1 .. n : t[i] = w[i]
    PROVE  Less(l, t)
  <1>1. Less(l, w)
    BY LessTotal
  <1>2. PICK i \in Nat : LessAt(l, w, i)
    BY <1>1, LessIff
  <1>3. i <= n
    BY <1>2, WordTypes DEF LessAt
  <1>4. LessAt(l, t, i)
    BY <1>2, <1>3, WordTypes DEF LessAt
  <1> QED BY <1>4, LessIff

LEMMA EmptyIsLeast ==
    ASSUME NEW t \in Word
    PROVE  ~Less(t, <<>>) /\ (t = <<>> \/ Less(<<>>, t))
  <1>1. ~Less(t, <<>>)
    BY DEF Less
  <1>2. <<>> \in Word
    BY TextIsWords
  <1> QED BY <1>1, <1>2, LessTotal

\* What the string variable may be beside xeq has the letters to keep, and lies
\* between the bounds.
LEMMA XeqWordsSound ==
    ASSUME NEW m, Conjunct(m), NEW x \in Named(m).xeq, Len(m.lt) <= 1, Len(m.gt) <= 1,
           Solvable(Named(m)), ~XeqIsEmpty(Named(m), x), NEW t \in Text, t \in XeqWords(Named(m), x)
    PROVE  HoldsXeq(Named(m), x, t)
  <1> DEFINE c == Named(m)
             n == x.length
             w == x.value
  <1>1. /\ c.lt \in SUBSET Word /\ c.gt \in SUBSET Word /\ t \in Word
        /\ \A u, v \in c.lt : u = v
        /\ \A u, v \in c.gt : u = v
    BY NamedOperands, OneOperand, TextIsWords DEF Operators
  <1>2. w \in Word /\ n \in Nat
    <2>1. x \in [value : BoundText, length : Nat]
      BY NamedOperands DEF Operators, Operands
    <2> QED BY <2>1, TextIsWords
  <1>3. /\ n <= Len(w)
        /\ \A v \in c.lt : ~Less(v, w)
        /\ \A v \in c.gt : ~Less(w, v)
    BY DEF Solvable
  <1>4. /\ \A v \in c.lt : v \in Matching(c.lt, x) <=>
                  v # <<>> /\ Len(v) >= n /\ \A i \in 1 .. n : v[i] = w[i]
        /\ \A v \in c.gt : v \in Matching(c.gt, x) <=>
                  v # <<>> /\ Len(v) >= n /\ \A i \in 1 .. n : v[i] = w[i]
    BY <1>1, <1>2, <1>3, MatchingIff
  <1>5. Matching(c.lt, x) \subseteq c.lt /\ Matching(c.gt, x) \subseteq c.gt
    BY DEF Matching
  <1>6. KeptStart(x) \in Word /\ Len(KeptStart(x)) = n /\ KeptStart(x) = Start(w, n)
    BY <1>2, <1>3, KeptProperties
  <1> HIDE DEF c
  <1>7. CASE n = 0
    <2>1. Len(t) >= n /\ Start(t, n) = KeptStart(x)
      BY <1>1, <1>2, <1>3, <1>6, <1>7, StartEqual, WordTypes
    <2>2. \A v \in c.lt \cup c.gt : v # <<>> => Len(v) >= n /\ \A i \in 1 .. n : v[i] = w[i]
      BY <1>1, <1>7, WordTypes
    <2>3. CASE Matching(c.lt, x) # {} /\ Matching(c.gt, x) # {}
      <3>1. PICK u \in c.lt : Matching(c.lt, x) = {u} /\ c.lt = {u}
        BY <1>1, <1>5, <2>3
      <3>2. PICK l \in c.gt : Matching(c.gt, x) = {l} /\ c.gt = {l}
        BY <1>1, <1>5, <2>3
      <3>3. t \in BoundedConstraints(Least({u}), Greatest({l}), FALSE, FALSE)
        BY <1>7, <2>3, <3>1, <3>2 DEF XeqWords, c
      <3>4. Least({u}) = u /\ Greatest({l}) = l
        BY DEF Least, Greatest
      <3>5. Less(t, u) /\ Less(l, t)
        BY <1>1, <3>3, <3>4, BoundedSound
      <3> QED BY <1>1, <2>1, <3>1, <3>2, <3>5, LessAsymmetric DEF HoldsXeq, c
    <2>4. CASE Matching(c.lt, x) # {} /\ Matching(c.gt, x) = {}
      <3>1. PICK u \in c.lt : Matching(c.lt, x) = {u} /\ c.lt = {u}
        BY <1>1, <1>5, <2>4
      <3>2. t \in LtConstraint(u, n)
        BY <1>7, <2>4, <3>1 DEF XeqWords, c
      <3>3. Less(t, u)
        BY <1>1, <1>2, <3>2, LtBelow
      <3>4. \A v \in c.gt : v = <<>>
        BY <1>4, <2>2, <2>4
      <3>5. \A v \in c.gt : ~Less(t, v)
        BY <1>1, <3>4, EmptyIsLeast
      <3> QED BY <1>1, <2>1, <3>1, <3>3, <3>5, LessAsymmetric DEF HoldsXeq, c
    <2>5. CASE Matching(c.lt, x) = {} /\ Matching(c.gt, x) # {}
      <3>1. PICK l \in c.gt : Matching(c.gt, x) = {l} /\ c.gt = {l}
        BY <1>1, <1>5, <2>5
      <3>2. t \in GtConstraint(l, n)
        BY <1>7, <2>5, <3>1 DEF XeqWords, c
      <3>3. Less(l, t)
        BY <1>1, <1>2, <3>2, GtAbove
      <3>4. c.lt = {}
        <4> SUFFICES ASSUME NEW v \in c.lt PROVE FALSE
          OBVIOUS
        <4>1. v = <<>>
          BY <1>4, <2>2, <2>5
        <4>2. w = <<>>
          BY <1>2, <1>3, <4>1, EmptyIsLeast
        <4>3. l # <<>>
          BY <1>4, <3>1
        <4> QED BY <1>1, <1>3, <4>2, <4>3, EmptyIsLeast
      <3> QED BY <1>1, <2>1, <3>1, <3>3, <3>4, LessAsymmetric DEF HoldsXeq, c
    <2>6. CASE Matching(c.lt, x) = {} /\ Matching(c.gt, x) = {}
      <3>1. Matching(c.lt \cup c.gt, x) = {}
        BY <2>6 DEF Matching
      <3> QED BY <1>7, <3>1 DEF XeqIsEmpty, c
    <2> QED BY <2>3, <2>4, <2>5, <2>6
  <1>8. CASE n > 0
    <2> DEFINE adjacent == \E u \in Matching(c.lt, x), l \in Matching(c.gt, x) : Adjacent(l, u, n + 1)
    <2>1. /\ Len(t) > Len(KeptStart(x)) /\ Start(t, Len(KeptStart(x))) = KeptStart(x)
          /\ \A u \in Matching(c.lt, x) : adjacent \/ t \in LtConstraint(u, n)
          /\ \A l \in Matching(c.gt, x) : t \in GtConstraint(l, IF adjacent THEN n + 1 ELSE n)
      <3>1. n # 0
        BY <1>2, <1>8
      <3>2. t \in {r \in {s \in Text : /\ Len(s) > Len(KeptStart(x))
                                     /\ Start(s, Len(KeptStart(x))) = KeptStart(x)} :
                     /\ \A u \in Matching(c.lt, x) : adjacent \/ r \in LtConstraint(u, n)
                     /\ \A l \in Matching(c.gt, x) : r \in GtConstraint(l, IF adjacent THEN n + 1 ELSE n)}
        BY <3>1, Zenon DEF XeqWords, c
      <3> HIDE DEF adjacent
      <3> QED BY <3>2
    <2>2. Len(t) > n /\ Start(t, n) = KeptStart(x) /\ \A i \in 1 .. n : t[i] = w[i]
      <3>1. Len(t) > n /\ Start(t, n) = KeptStart(x)
        BY <1>6, <2>1
      <3>2. Start(t, n) = Start(w, n) /\ n <= Len(t)
        BY <1>1, <1>2, <1>6, <3>1, WordTypes
      <3> HIDE DEF n, w
      <3> QED BY <1>1, <1>2, <1>3, <3>1, <3>2, StartEqual
    <2>3. n > 0 /\ Len(w) >= n /\ Len(t) >= n /\ n # 0 /\ Len(<<>>) = 0
      BY <1>1, <1>2, <1>3, <1>8, <2>2, WordTypes
    <2>4. ASSUME NEW l \in c.gt PROVE ~Less(t, l)
      <3>1. CASE l \in Matching(c.gt, x)
        <4>1. t \in GtConstraint(l, n) \/ t \in GtConstraint(l, n + 1)
          BY <2>1, <3>1
        <4>2. Less(l, t)
          BY <1>1, <1>2, <4>1, GtAbove
        <4> QED BY <1>1, <4>2, LessAsymmetric
      <3>2. CASE l \notin Matching(c.gt, x)
        <4>1. ~(Len(l) >= n /\ \A i \in 1 .. n : l[i] = w[i])
          BY <1>2, <1>4, <2>3, <3>2
        <4>2. Less(l, t)
          <5>1. l \in Word /\ ~Less(w, l)
            BY <1>1, <1>3
          <5> HIDE DEF n, w
          <5> QED BY <1>1, <1>2, <2>2, <2>3, <4>1, <5>1, LowerWithout
        <4> QED BY <1>1, <4>2, LessAsymmetric
      <3> QED BY <3>1, <3>2
    <2>5. ASSUME NEW u \in c.lt PROVE ~Less(u, t)
      <3>1. CASE u \in Matching(c.lt, x) /\ adjacent
        <4>1. PICK l \in Matching(c.gt, x) : Adjacent(l, u, n + 1)
          BY <1>1, <1>5, <3>1
        <4>2. t \in GtTemplate(l, n + 1)
          BY <2>1, <3>1 DEF GtConstraint
        <4>3. /\ l \in Word /\ l # <<>> /\ \A i \in 1 .. n : l[i] = w[i]
              /\ \A i \in 1 .. n : u[i] = w[i]
          BY <1>1, <1>4, <1>5, <3>1
        <4>4. Len(t) >= n + 1 /\ \A i \in 1 .. n + 1 : t[i] = l[i]
          <5>1. n + 1 <= Len(l) /\ n + 1 \in Nat
            BY <1>2, <4>1 DEF Adjacent
          <5> HIDE DEF n, w, adjacent
          <5> QED BY <4>2, <4>3, <5>1, GtTemplateAbove
        <4>5. Less(t, u)
          BY <1>1, <1>2, <4>1, <4>3, <4>4, AdjacentBelow
        <4> QED BY <1>1, <4>5, LessAsymmetric
      <3>2. CASE u \in Matching(c.lt, x) /\ ~adjacent
        <4>1. Less(t, u)
          BY <1>1, <1>2, <2>1, <3>2, LtBelow
        <4> QED BY <1>1, <4>1, LessAsymmetric
      <3>3. CASE u \notin Matching(c.lt, x)
        <4>1. ~(Len(u) >= n /\ \A i \in 1 .. n : u[i] = w[i])
          BY <1>2, <1>4, <2>3, <3>3
        <4>2. Less(t, u)
          <5>1. u \in Word /\ ~Less(u, w)
            BY <1>1, <1>3
          <5> HIDE DEF n, w
          <5> QED BY <1>1, <1>2, <2>2, <2>3, <4>1, <5>1, UpperWithout
        <4> QED BY <1>1, <4>2, LessAsymmetric
      <3> QED BY <3>1, <3>2, <3>3
    <2> QED BY <1>1, <1>2, <2>2, <2>4, <2>5, WordTypes DEF HoldsXeq, c
  <1> QED BY <1>2, <1>7, <1>8

---------------------------------------------------------------------------
(* Merging.                                                                *)

\* A place in the product of two lists.
LEMMA Quotient ==
    ASSUME NEW p \in Nat, NEW q \in Nat, q > 0, NEW n \in 1 .. p * q
    PROVE  ((n - 1) \div q) + 1 \in 1 .. p /\ ((n - 1) % q) + 1 \in 1 .. q
  <1> DEFINE d == (n - 1) \div q
             e == (n - 1) % q
  <1>1. p * q \in Nat /\ n - 1 \in Nat /\ n - 1 < p * q
    OBVIOUS
  <1>2. d \in Nat /\ e \in 0 .. q - 1 /\ n - 1 = q * d + e
    BY <1>1
  <1> HIDE DEF d, e
  <1>3. ASSUME d >= p PROVE FALSE
    <2>1. PICK k \in Nat : d = p + k
      <3>1. d - p \in Nat /\ d = p + (d - p)
        BY <1>2, <1>3
      <3> QED BY <3>1
    <2>2. q * d = p * q + q * k /\ q * k \in Nat
      BY <2>1
    <2> QED BY <1>1, <1>2, <2>2
  <1>4. d + 1 \in 1 .. p /\ e + 1 \in 1 .. q
    BY <1>2, <1>3
  <1> QED BY <1>4 DEF d, e

LEMMA MergedMembers ==
    ASSUME NEW a, a \in Seq(Range(a)), NEW b, b \in Seq(Range(b))
    PROVE  /\ Merged(a, b) \in Seq(Range(Merged(a, b)))
           /\ Merged(a, b) = <<>> => a = <<>> /\ b = <<>>
           /\ \A m \in Range(Merged(a, b)) :
                 \/ a = <<>> /\ m \in Range(b)
                 \/ b = <<>> /\ m \in Range(a)
                 \/ a # <<>> /\ b # <<>> /\ \E c \in Range(a), d \in Range(b) : m = Both(c, d)
  <1>1. CASE a = <<>>
    BY <1>1 DEF Merged
  <1>2. CASE a # <<>> /\ b = <<>>
    BY <1>2 DEF Merged
  <1>3. CASE a # <<>> /\ b # <<>>
    <2> DEFINE p == Len(a)
               q == Len(b)
               f == [n \in 1 .. p * q |-> Both(a[((n - 1) \div q) + 1], b[((n - 1) % q) + 1])]
    <2>1. p \in Nat /\ q \in Nat /\ p > 0 /\ q > 0
      BY <1>3, EmptySeq, LenProperties
    <2>2. Merged(a, b) = f
      BY <1>3, Zenon DEF Merged
    <2>3. p * q \in Nat /\ p * q # 0
      <3>1. p * q >= q
        <4>1. PICK k \in Nat : p = k + 1
          <5>1. p - 1 \in Nat /\ p = (p - 1) + 1
            BY <2>1
          <5> QED BY <5>1
        <4>2. p * q = k * q + q /\ k * q \in Nat
          BY <2>1, <4>1
        <4> QED BY <2>1, <4>2
      <3> QED BY <2>1, <3>1
    <2>4. ASSUME NEW n \in 1 .. p * q
          PROVE  \E c \in Range(a), d \in Range(b) : f[n] = Both(c, d)
      <3>1. ((n - 1) \div q) + 1 \in 1 .. p /\ ((n - 1) % q) + 1 \in 1 .. q
        BY <2>1, Quotient
      <3>2. a[((n - 1) \div q) + 1] \in Range(a) /\ b[((n - 1) % q) + 1] \in Range(b)
        BY <3>1, ElementOfSeq
      <3> QED BY <3>2
    <2>5. f \in Seq(Range(f))
      <3>1. DOMAIN f = 1 .. p * q
        OBVIOUS
      <3>2. \A n \in 1 .. p * q : f[n] \in Range(f)
        BY <3>1, Zenon DEF Range
      <3>3. f \in [1 .. p * q -> Range(f)]
        <4> HIDE DEF p, q
        <4> QED BY <3>2
      <3> HIDE DEF f
      <3> QED BY <2>3, <3>3, SeqDef
    <2>6. f # <<>>
      <3>1. DOMAIN f = 1 .. p * q /\ 1 \in 1 .. p * q
        BY <2>3
      <3>2. DOMAIN <<>> = {}
        OBVIOUS
      <3> HIDE DEF f
      <3> QED BY <3>1, <3>2
    <2>7. \A m \in Range(f) : \E c \in Range(a), d \in Range(b) : m = Both(c, d)
      <3> SUFFICES ASSUME NEW m \in Range(f)
                   PROVE  \E c \in Range(a), d \in Range(b) : m = Both(c, d)
        OBVIOUS
      <3>1. DOMAIN f = 1 .. p * q
        OBVIOUS
      <3> HIDE DEF f
      <3>2. PICK n \in 1 .. p * q : m = f[n]
        BY <3>1 DEF Range
      <3> QED BY <3>2, <2>4
    <2> HIDE DEF f
    <2> QED BY <1>3, <2>2, <2>5, <2>6, <2>7
  <1> QED BY <1>1, <1>2, <1>3

\* What MergedAll computes for the first n structures, for every n up to k.
Merging(r, k, f) == f = [n \in 0 .. k |-> IF n = 0 THEN <<>> ELSE Merged(f[n - 1], r[n])]

LEMMA MergingExists ==
    ASSUME NEW r, NEW l \in Nat
    PROVE  \E f : Merging(r, l, f)
  <1> DEFINE C == {k \in Nat : \A f : ~Merging(r, k, f)}
  <1>1. C = {}
    <2> SUFFICES ASSUME C # {} PROVE FALSE
      OBVIOUS
    <2>1. PICK k \in C : \A m \in C : k <= m
      <3>1. C \in SUBSET Nat
        OBVIOUS
      <3> HIDE DEF C
      <3> QED BY <3>1, LeastNumber
    <2>2. k \in Nat /\ \A f : ~Merging(r, k, f)
      OBVIOUS
    <2>3. CASE k = 0
      <3>1. Merging(r, 0, [n \in 0 .. 0 |-> <<>>])
        <4>1. \A n \in 0 .. 0 : n = 0
          OBVIOUS
        <4> QED BY <4>1 DEF Merging
      <3> QED BY <2>2, <2>3, <3>1
    <2>4. CASE k # 0
      <3>1. k - 1 \in Nat /\ k - 1 \notin C
        <4>1. k - 1 \in Nat /\ ~(k <= k - 1)
          BY <2>2, <2>4
        <4> HIDE DEF C
        <4> QED BY <2>1, <4>1
      <3>2. PICK f : Merging(r, k - 1, f)
        BY <3>1
      <3> DEFINE g == [n \in 0 .. k |-> IF n < k THEN f[n] ELSE Merged(f[k - 1], r[k])]
      <3>3. \A n \in 0 .. k - 1 : f[n] = IF n = 0 THEN <<>> ELSE Merged(f[n - 1], r[n])
        BY <3>2 DEF Merging
      <3>4. ASSUME NEW n \in 0 .. k
            PROVE  g[n] = IF n = 0 THEN <<>> ELSE Merged(g[n - 1], r[n])
        <4>1. CASE n = 0
          BY <2>2, <2>4, <3>3, <4>1
        <4>2. CASE n # 0 /\ n < k
          <5>1. n \in 0 .. k - 1 /\ n - 1 \in 0 .. k /\ n - 1 < k
            BY <2>2, <4>2
          <5>2. g[n] = f[n] /\ g[n - 1] = f[n - 1]
            BY <4>2, <5>1
          <5> QED BY <3>3, <4>2, <5>1, <5>2
        <4>3. CASE n # 0 /\ n = k
          <5>1. k - 1 \in 0 .. k /\ k - 1 < k /\ ~(k < k)
            BY <2>2, <4>3
          <5>2. g[k] = Merged(f[k - 1], r[k]) /\ g[k - 1] = f[k - 1]
            BY <4>3, <5>1
          <5> QED BY <4>3, <5>2
        <4> QED BY <2>2, <4>1, <4>2, <4>3
      <3>5. Merging(r, k, g)
        <4>1. g = [n \in 0 .. k |-> g[n]]
          OBVIOUS
        <4> HIDE DEF g
        <4> QED BY <3>4, <4>1 DEF Merging
      <3> QED BY <2>2, <3>5
    <2> QED BY <2>3, <2>4
  <1>2. l \notin C
    <2> HIDE DEF C
    <2> QED BY <1>1
  <1> QED BY <1>2

\* MergedAll folds the constraints of the structures from the first on.
LEMMA MergedAllFolds ==
    ASSUME NEW r, Len(r) \in Nat
    PROVE  \E f : /\ MergedAll(r) = f[Len(r)]
                  /\ f[0] = <<>>
                  /\ \A n \in 1 .. Len(r) : f[n] = Merged(f[n - 1], r[n])
  <1> DEFINE f == CHOOSE f : f = [n \in 0 .. Len(r) |-> IF n = 0 THEN <<>> ELSE Merged(f[n - 1], r[n])]
  <1>1. MergedAll(r) = f[Len(r)]
    BY DEF MergedAll
  <1>2. \E g : g = [n \in 0 .. Len(r) |-> IF n = 0 THEN <<>> ELSE Merged(g[n - 1], r[n])]
    BY MergingExists DEF Merging
  <1>3. f = [n \in 0 .. Len(r) |-> IF n = 0 THEN <<>> ELSE Merged(f[n - 1], r[n])]
    BY <1>2
  <1> HIDE DEF f
  <1>4. f[0] = <<>> /\ \A n \in 1 .. Len(r) : f[n] = Merged(f[n - 1], r[n])
    <2>1. 0 \in 0 .. Len(r) /\ \A n \in 1 .. Len(r) : n \in 0 .. Len(r) /\ n # 0
      OBVIOUS
    <2> QED BY <1>3, <2>1
  <1> QED BY <1>1, <1>4

\* A conjunct names all that another one names.
Within(d, m) == \A op \in Operators : Range(d[op]) \subseteq Range(m[op])

\* A merged disjunct has one of each of the first n structures, and nothing else.
MergeOf(r, n, m) ==
    /\ Conjunct(m)
    /\ \A i \in 1 .. n : r[i] # <<>> => \E d \in Range(r[i]) : Within(d, m)
    /\ \A op \in Operators : \A v \in Range(m[op]) :
          \E i \in 1 .. n : \E d \in Range(r[i]) : Within(d, m) /\ v \in Range(d[op])

IsRequest(r) ==
    /\ r \in Seq(Range(r))
    /\ \A i \in 1 .. Len(r) : /\ r[i] \in Seq(Range(r[i]))
                              /\ \A d \in Range(r[i]) : Conjunct(d)

LEMMA BothProperties ==
    ASSUME NEW c, Conjunct(c), NEW d, Conjunct(d)
    PROVE  /\ Conjunct(Both(c, d))
           /\ \A op \in Operators : Range(Both(c, d)[op]) = Range(c[op]) \cup Range(d[op])
           /\ Within(c, Both(c, d)) /\ Within(d, Both(c, d))
  <1>1. ASSUME NEW op \in Operators
        PROVE  /\ Both(c, d)[op] \in Seq(Operands(op))
               /\ Range(Both(c, d)[op]) = Range(c[op]) \cup Range(d[op])
    <2>1. c[op] \in Seq(Operands(op)) /\ d[op] \in Seq(Operands(op)) /\ Both(c, d)[op] = c[op] \o d[op]
      BY DEF Conjunct, Both
    <2> QED BY <2>1, ConcatProperties, RangeConcatenation
  <1>2. DOMAIN Both(c, d) = Operators
    BY DEF Both
  <1> QED BY <1>1, <1>2 DEF Conjunct, Within

LEMMA WithinTransitive ==
    ASSUME NEW c, NEW d, NEW e, Within(c, d), Within(d, e)
    PROVE  Within(c, e)
  BY DEF Within

\* A disjunct of the first n structures with one of the next.
LEMMA MergeOfBoth ==
    ASSUME NEW r, NEW n \in Nat, NEW c, MergeOf(r, n, c), NEW d \in Range(r[n + 1]), Conjunct(d)
    PROVE  MergeOf(r, n + 1, Both(c, d))
  <1> DEFINE m == Both(c, d)
  <1>1. /\ Conjunct(m) /\ Within(c, m) /\ Within(d, m)
        /\ \A op \in Operators : Range(m[op]) = Range(c[op]) \cup Range(d[op])
    BY BothProperties DEF MergeOf
  <1> HIDE DEF m
  <1>2. ASSUME NEW i \in 1 .. n + 1, r[i] # <<>> PROVE \E e \in Range(r[i]) : Within(e, m)
    <2>1. CASE i = n + 1
      BY <1>1, <2>1
    <2>2. CASE i # n + 1
      <3>1. i \in 1 .. n
        BY <2>2
      <3>2. PICK e \in Range(r[i]) : Within(e, c)
        BY <3>1, <1>2 DEF MergeOf
      <3> QED BY <1>1, <3>2, WithinTransitive
    <2> QED BY <2>1, <2>2
  <1>3. ASSUME NEW op \in Operators, NEW v \in Range(m[op])
        PROVE  \E i \in 1 .. n + 1 : \E e \in Range(r[i]) : Within(e, m) /\ v \in Range(e[op])
    <2>1. CASE v \in Range(c[op])
      <3>1. PICK i \in 1 .. n : \E e \in Range(r[i]) : Within(e, c) /\ v \in Range(e[op])
        BY <2>1 DEF MergeOf
      <3>2. PICK e \in Range(r[i]) : Within(e, c) /\ v \in Range(e[op])
        BY <3>1
      <3>3. i \in 1 .. n + 1 /\ Within(e, m)
        BY <1>1, <3>2, WithinTransitive
      <3> QED BY <3>2, <3>3
    <2>2. CASE v \in Range(d[op])
      <3>1. n + 1 \in 1 .. n + 1
        OBVIOUS
      <3> QED BY <1>1, <2>2, <3>1
    <2> QED BY <1>1, <2>1, <2>2
  <1> QED BY <1>1, <1>2, <1>3 DEF MergeOf, m

\* The next structure asks for nothing.
LEMMA MergeOfFirst ==
    ASSUME NEW r, NEW n \in Nat, NEW c, MergeOf(r, n, c), r[n + 1] = <<>>
    PROVE  MergeOf(r, n + 1, c)
  <1>1. \A i \in 1 .. n + 1 : i = n + 1 \/ i \in 1 .. n
    OBVIOUS
  <1>2. 1 .. n \subseteq 1 .. n + 1
    OBVIOUS
  <1> QED BY <1>1, <1>2 DEF MergeOf

\* The next structure is the first that asks for something.
LEMMA MergeOfNext ==
    ASSUME NEW r, NEW n \in Nat, NEW d \in Range(r[n + 1]), Conjunct(d), \A i \in 1 .. n : r[i] = <<>>
    PROVE  MergeOf(r, n + 1, d)
  <1>1. \A i \in 1 .. n + 1 : i = n + 1 \/ i \in 1 .. n
    OBVIOUS
  <1>2. n + 1 \in 1 .. n + 1
    OBVIOUS
  <1>3. Within(d, d)
    BY DEF Within
  <1> QED BY <1>1, <1>2, <1>3 DEF MergeOf

\* Every merged disjunct has one of every structure, and nothing else.
LEMMA MergedAllProperties ==
    ASSUME NEW r, IsRequest(r)
    PROVE  /\ MergedAll(r) \in Seq(Range(MergedAll(r)))
           /\ \A m \in Range(MergedAll(r)) : MergeOf(r, Len(r), m)
  <1>1. Len(r) \in Nat
    BY LenProperties DEF IsRequest
  <1>2. PICK f : /\ MergedAll(r) = f[Len(r)]
                 /\ f[0] = <<>>
                 /\ \A n \in 1 .. Len(r) : f[n] = Merged(f[n - 1], r[n])
    BY <1>1, MergedAllFolds
  <1> DEFINE Good(n) == /\ f[n] \in Seq(Range(f[n]))
                        /\ f[n] = <<>> => \A i \in 1 .. n : r[i] = <<>>
                        /\ \A m \in Range(f[n]) : MergeOf(r, n, m)
             C == {n \in 0 .. Len(r) : ~Good(n)}
  <1>3. Good(0)
    <2>1. Range(<<>>) = {}
      BY DEF Range
    <2>2. 1 .. 0 = {}
      OBVIOUS
    <2> QED BY <1>2, <2>1, <2>2
  <1>4. ASSUME NEW n \in 0 .. Len(r) - 1, Good(n) PROVE Good(n + 1)
    <2>1. /\ n \in Nat /\ n + 1 \in 1 .. Len(r) /\ (n + 1) - 1 = n
          /\ \A i \in 1 .. n + 1 : i = n + 1 \/ i \in 1 .. n
      BY <1>1
    <2> DEFINE a == f[n]
               b == r[n + 1]
    <2>2. f[n + 1] = Merged(a, b)
      BY <1>2, <2>1
    <2>3. /\ a \in Seq(Range(a)) /\ b \in Seq(Range(b))
          /\ a = <<>> => \A i \in 1 .. n : r[i] = <<>>
          /\ \A d \in Range(b) : Conjunct(d)
          /\ \A m \in Range(a) : MergeOf(r, n, m)
      BY <1>4, <2>1 DEF IsRequest
    <2>4. /\ Merged(a, b) \in Seq(Range(Merged(a, b)))
          /\ Merged(a, b) = <<>> => a = <<>> /\ b = <<>>
          /\ \A m \in Range(Merged(a, b)) :
                \/ a = <<>> /\ m \in Range(b)
                \/ b = <<>> /\ m \in Range(a)
                \/ a # <<>> /\ b # <<>> /\ \E c \in Range(a), d \in Range(b) : m = Both(c, d)
      <3> HIDE DEF a, b
      <3> QED BY <2>3, MergedMembers
    <2>5. ASSUME NEW m \in Range(Merged(a, b)) PROVE MergeOf(r, n + 1, m)
      <3>1. CASE a = <<>> /\ m \in Range(b)
        BY <2>1, <2>3, <3>1, MergeOfNext
      <3>2. CASE b = <<>> /\ m \in Range(a)
        BY <2>1, <2>3, <3>2, MergeOfFirst
      <3>3. CASE \E c \in Range(a), d \in Range(b) : m = Both(c, d)
        BY <2>1, <2>3, <3>3, MergeOfBoth
      <3> HIDE DEF a, b
      <3> QED BY <2>4, <3>1, <3>2, <3>3
    <2>6. Merged(a, b) = <<>> => \A i \in 1 .. n + 1 : r[i] = <<>>
      BY <2>1, <2>3, <2>4
    <2> HIDE DEF a, b
    <2> QED BY <2>2, <2>4, <2>5, <2>6
  <1> HIDE DEF Good
  <1>5. C = {}
    <2> SUFFICES ASSUME C # {} PROVE FALSE
      OBVIOUS
    <2>1. PICK k \in C : \A m \in C : k <= m
      <3>1. C \in SUBSET Nat
        BY <1>1
      <3> HIDE DEF C
      <3> QED BY <3>1, LeastNumber
    <2>2. k \in 0 .. Len(r) /\ ~Good(k) /\ k # 0
      BY <1>3
    <2>3. k - 1 \in 0 .. Len(r) - 1 /\ k - 1 \in 0 .. Len(r) /\ (k - 1) + 1 = k /\ ~(k <= k - 1)
      BY <1>1, <2>2
    <2>4. Good(k - 1)
      BY <2>1, <2>3
    <2> QED BY <1>4, <2>2, <2>3, <2>4
  <1>6. Len(r) \in 0 .. Len(r)
    BY <1>1
  <1>7. Good(Len(r))
    BY <1>5, <1>6
  <1> QED BY <1>2, <1>7 DEF Good

---------------------------------------------------------------------------
(* The solver.                                                             *)

LEMMA RequestsAreRequests ==
    ASSUME NEW r \in Requests
    PROVE  IsRequest(r)
  <1>1. r \in Seq(Range(r)) /\ DOMAIN r = 1 .. Len(r)
    BY SynthesisAssumption, LenProperties
  <1>2. \A i \in 1 .. Len(r) : r[i] \in Seq(Range(r[i])) /\ \A d \in Range(r[i]) : Conjunct(d)
    BY <1>1, SynthesisAssumption DEF Range
  <1> QED BY <1>1, <1>2 DEF IsRequest

\* There is an answer if both variables have a value.
LEMMA AnswersIff ==
    ASSUME NEW s
    PROVE  Answers(s) = {} <=> s.words = {} \/ HashWords(s) = {}
  BY DEF Answers

\* Constraints that are added to those of a solver without an answer do not help.
LEMMA FailsForGood ==
    ASSUME NEW s, NEW t, Answers(s) = {}, t.words \subseteq s.words, s.hashes \subseteq t.hashes
    PROVE  Answers(t) = {}
  <1>1. HashWords(t) \subseteq HashWords(s)
    BY DEF HashWords
  <1> QED BY <1>1, AnswersIff

LEMMA AnswersOf ==
    ASSUME NEW s, NEW t \in Answers(s)
    PROVE  IF s.mentioned THEN t \in s.words ELSE t \in HashWords(s)
  BY DEF Answers

Solvers == [words : SUBSET Text, mentioned : BOOLEAN, hashes : SUBSET Nat]

LEMMA FreshType == Fresh \in Solvers
  BY DEF Fresh, Solvers

\* Without xeq.
LEMMA TrySound ==
    ASSUME NEW m, Conjunct(m), m.xeq = <<>>, NEW s \in Solvers, NEW t,
           LET c == Named(m) IN
           t = [words |-> s.words \cap WordsFor(c),
                mentioned |-> s.mentioned \/ Mentions(c),
                hashes |-> s.hashes \cup c.eq]
    PROVE  /\ t \in Solvers
           /\ Answers(s) = {} => Answers(t) = {}
           /\ s = Fresh => \A a \in Answers(t) : MayAnswer(m, a)
  <1> DEFINE c == Named(m)
  <1>1. /\ t.words = s.words \cap WordsFor(c)
        /\ t.mentioned = (s.mentioned \/ Mentions(c))
        /\ t.hashes = s.hashes \cup c.eq
    OBVIOUS
  <1>2. c.eq \subseteq Nat
    BY NamedOperands DEF Operators, Operands
  <1>3. s.words \subseteq Text /\ s.mentioned \in BOOLEAN /\ s.hashes \subseteq Nat
    BY DEF Solvers
  <1> HIDE DEF c
  <1>4. t \in Solvers
    BY <1>2, <1>3 DEF Solvers, c
  <1>5. ASSUME Answers(s) = {} PROVE Answers(t) = {}
    BY <1>1, <1>5, FailsForGood
  <1>6. ASSUME s = Fresh, NEW a \in Answers(t) PROVE MayAnswer(m, a)
    <2>1. s.words = Text /\ s.mentioned = FALSE /\ s.hashes = {}
      BY <1>6 DEF Fresh
    <2>2. CASE Mentions(c)
      BY <1>1, <1>6, <2>1, <2>2, AnswersOf DEF MayAnswer, c
    <2>3. CASE ~Mentions(c)
      <3>1. a \in HashWords(t) /\ t.hashes = c.eq
        BY <1>1, <1>6, <2>1, <2>3, AnswersOf
      <3>2. HashWords(t) = HashWords([Fresh EXCEPT !.hashes = c.eq])
        <4>1. [Fresh EXCEPT !.hashes = c.eq].hashes = c.eq
          BY DEF Fresh
        <4> QED BY <3>1, <4>1 DEF HashWords
      <3> QED BY <2>3, <3>1, <3>2 DEF MayAnswer, c
    <2> QED BY <2>2, <2>3
  <1> QED BY <1>4, <1>5, <1>6

\* With xeq.
LEMMA TryXeqSound ==
    ASSUME NEW m, Conjunct(m), Len(m.xeq) = 1, Len(m.lt) <= 1, Len(m.gt) <= 1,
           NEW s \in Solvers, NEW t,
           LET c == Named(m) IN
           /\ ~(XeqIsEmpty(c, m.xeq[1]) /\ Unconstrained(s))
           /\ t = [s EXCEPT !.words = @ \cap XeqWords(c, m.xeq[1]),
                            !.mentioned = @ \/ ~XeqIsEmpty(c, m.xeq[1])]
    PROVE  /\ t \in Solvers
           /\ Answers(s) = {} => Answers(t) = {}
           /\ s = Fresh => \A a \in Answers(t) : MayAnswer(m, a)
  <1> DEFINE c == Named(m)
             x == m.xeq[1]
  <1>1. /\ t.words = s.words \cap XeqWords(c, x)
        /\ t.mentioned = (s.mentioned \/ ~XeqIsEmpty(c, x))
        /\ t.hashes = s.hashes
    BY DEF Solvers
  <1>2. s.words \subseteq Text /\ s.mentioned \in BOOLEAN /\ s.hashes \subseteq Nat
    BY DEF Solvers
  <1>3. ~(XeqIsEmpty(c, x) /\ Unconstrained(s))
    OBVIOUS
  <1>4. t \in Solvers
    BY <1>2 DEF Solvers
  <1> HIDE DEF c, x
  <1>5. ASSUME Answers(s) = {} PROVE Answers(t) = {}
    BY <1>1, <1>5, FailsForGood
  <1>6. ASSUME s = Fresh, NEW a \in Answers(t) PROVE MayAnswer(m, a)
    <2>1. s.words = Text /\ Unconstrained(s)
      BY <1>6 DEF Fresh, Unconstrained
    <2>2. ~XeqIsEmpty(c, x) /\ t.mentioned
      BY <1>1, <1>3, <2>1
    <2>3. a \in Text /\ a \in XeqWords(c, x)
      BY <1>1, <1>6, <2>1, <2>2, AnswersOf
    <2>4. m.xeq # <<>>
      OBVIOUS
    <2> QED BY <2>2, <2>3, <2>4 DEF MayAnswer, c, x
  <1> QED BY <1>4, <1>5, <1>6

---------------------------------------------------------------------------
(* Steps.                                                                  *)

Merges == MergedAll(request)

LEMMA DisjunctsAreConjuncts ==
    ASSUME request \in Requests
    PROVE  Merges \in Seq(Range(Merges)) /\ \A m \in Range(Merges) : Conjunct(m)
  BY RequestsAreRequests, MergedAllProperties DEF MergeOf, Merges

\* The disjuncts that are left are among those that were left before.
LEMMA TailOfTodo ==
    ASSUME NEW S, NEW q \in Seq(S), q # <<>>
    PROVE  /\ Head(q) \in S /\ Tail(q) \in Seq(S)
           /\ Len(q) # 1 => Tail(q) # <<>>
  <1>1. Head(q) \in S /\ Tail(q) \in Seq(S) /\ Len(Tail(q)) = Len(q) - 1
    BY HeadTailProperties
  <1>2. Len(q) \in Nat /\ Len(q) >= 1
    BY EmptySeq
  <1>3. ASSUME Tail(q) = <<>> PROVE Len(q) = 1
    <2>1. Len(Tail(q)) = 0
      BY <1>3, EmptySeq
    <2>2. \A k \in Nat : k - 1 = 0 => k = 1
      OBVIOUS
    <2> QED BY <1>1, <1>2, <2>1, <2>2
  <1> QED BY <1>1, <1>3

\* What the solver says of the first disjunct that is left.
LEMMA ConcludeKeeps ==
    ASSUME request \in Requests, SolverInv, status = "trying", solver' \in Solvers, request' = request,
           Answers(solver) = {} => Answers(solver') = {},
           solver = Fresh => \A a \in Answers(solver') : MayAnswer(Head(todo), a),
           Conclude
    PROVE  SolverInv'
  <1>1. /\ todo \in Seq(Range(Merges)) /\ todo # <<>>
        /\ solver = Fresh \/ Answers(solver) = {}
    BY DEF SolverInv, Merges
  <1>2. /\ Head(todo) \in Range(Merges) /\ Tail(todo) \in Seq(Range(Merges))
        /\ Len(todo) # 1 => Tail(todo) # <<>>
    BY <1>1, TailOfTodo
  <1>3. Merges' = Merges
    BY DEF Merges
  <1>4. CASE Answers(solver') = {}
    <2>1. todo' = Tail(todo) /\ status' = IF Len(todo) = 1 THEN "failed" ELSE "trying"
      BY <1>4 DEF Conclude
    <2> QED BY <1>2, <1>3, <1>4, <2>1 DEF SolverInv, Merges, Solvers
  <1>5. CASE Answers(solver') # {}
    <2>1. answer' \in Answers(solver') /\ status' = "found"
      BY <1>5 DEF Conclude
    <2>2. MayAnswer(Head(todo), answer')
      BY <1>1, <1>5, <2>1
    <2> QED BY <1>2, <1>3, <2>1, <2>2 DEF SolverInv, Merges, Solvers
  <1> QED BY <1>4, <1>5

LEMMA SolverKept ==
    ASSUME request \in Requests, SolverInv, [Next]_vars
    PROVE  SolverInv' /\ request' = request
  <1>1. request' = request
    <2>1. Merge \/ Try \/ Skip \/ TryXeq \/ UNCHANGED vars
      BY DEF Next
    <2>2. Merge \/ Try \/ Skip \/ TryXeq => request' = request
      BY Zenon DEF Merge, Try, Skip, TryXeq
    <2> QED BY <2>1, <2>2 DEF vars
  <1>2. Merges' = Merges /\ Merges \in Seq(Range(Merges)) /\ \A m \in Range(Merges) : Conjunct(m)
    BY <1>1, DisjunctsAreConjuncts DEF Merges
  <1>3. solver \in Solvers
    BY DEF SolverInv, Solvers
  <1>4. ASSUME status = "trying"
        PROVE  /\ todo \in Seq(Range(Merges)) /\ Head(todo) \in Range(Merges) /\ Conjunct(Head(todo))
               /\ Tail(todo) \in Seq(Range(Merges))
               /\ Len(todo) # 1 => Tail(todo) # <<>>
    <2>1. todo \in Seq(Range(Merges)) /\ todo # <<>>
      BY <1>4 DEF SolverInv, Merges
    <2> QED BY <1>2, <2>1, TailOfTodo
  <1>5. CASE Merge
    BY <1>2, <1>5 DEF Merge, SolverInv, Merges
  <1>6. CASE Try
    <2>1. /\ status = "trying" /\ Head(todo).xeq = <<>>
          /\ solver' = [words |-> solver.words \cap WordsFor(Named(Head(todo))),
                        mentioned |-> solver.mentioned \/ Mentions(Named(Head(todo))),
                        hashes |-> solver.hashes \cup Named(Head(todo)).eq]
          /\ Conclude
      BY <1>6, Zenon DEF Try
    <2>2. /\ solver' \in Solvers
          /\ Answers(solver) = {} => Answers(solver') = {}
          /\ solver = Fresh => \A a \in Answers(solver') : MayAnswer(Head(todo), a)
      BY <1>3, <1>4, <2>1, TrySound
    <2> QED BY <1>1, <2>1, <2>2, ConcludeKeeps
  <1>7. CASE Skip
    <2>1. /\ status = "trying" /\ todo' = Tail(todo)
          /\ status' = IF Len(todo) = 1 THEN "failed" ELSE "trying"
          /\ UNCHANGED <<request, solver, answer>>
      BY <1>7 DEF Skip
    <2> QED BY <1>2, <1>4, <2>1 DEF SolverInv, Merges
  <1>8. CASE TryXeq
    <2> DEFINE m == Head(todo)
    <2>1. status = "trying" /\ Len(m.xeq) = 1 /\ Len(m.lt) <= 1 /\ Len(m.gt) <= 1
      BY <1>8 DEF TryXeq
    <2>2. CASE status' = "raised" /\ UNCHANGED <<todo, solver, answer>>
      BY <1>1, <2>2 DEF SolverInv
    <2>3. CASE /\ ~(XeqIsEmpty(Named(m), m.xeq[1]) /\ Unconstrained(solver))
               /\ solver' = [solver EXCEPT !.words = @ \cap XeqWords(Named(m), m.xeq[1]),
                                           !.mentioned = @ \/ ~XeqIsEmpty(Named(m), m.xeq[1])]
               /\ Conclude
      <3>1. /\ solver' \in Solvers
            /\ Answers(solver) = {} => Answers(solver') = {}
            /\ solver = Fresh => \A a \in Answers(solver') : MayAnswer(m, a)
        BY <1>3, <1>4, <2>1, <2>3, TryXeqSound
      <3> QED BY <1>1, <2>1, <2>3, <3>1, ConcludeKeeps
    <2> QED BY <1>8, <2>2, <2>3, Zenon DEF TryXeq
  <1>9. CASE UNCHANGED vars
    BY <1>9 DEF vars, SolverInv
  <1> QED BY <1>1, <1>5, <1>6, <1>7, <1>8, <1>9 DEF Next

---------------------------------------------------------------------------
(* The key of a dictionary.                                                *)

\* The only disjunct of a request for a key.
ForKey(m, t) ==
    /\ Conjunct(m) /\ m.eq # <<>> /\ Range(m.eq) = {Hash(t)}
    /\ \A op \in Operators \ {"eq"} : m[op] = <<>>

LEMMA ForKeyBoth ==
    ASSUME NEW t, NEW c, ForKey(c, t), NEW d, ForKey(d, t)
    PROVE  ForKey(Both(c, d), t)
  <1>1. /\ Conjunct(Both(c, d))
        /\ \A op \in Operators : Range(Both(c, d)[op]) = Range(c[op]) \cup Range(d[op])
    BY BothProperties DEF ForKey
  <1>2. "eq" \in Operators /\ Range(Both(c, d).eq) = {Hash(t)}
    BY <1>1 DEF ForKey, Operators
  <1>3. Range(<<>>) = {}
    BY DEF Range
  <1>4. \A op \in Operators \ {"eq"} : Both(c, d)[op] = <<>>
    BY DEF ForKey, Both
  <1> QED BY <1>1, <1>2, <1>3, <1>4 DEF ForKey

LEMMA OnlyElement ==
    ASSUME NEW q, q \in Seq(Range(q)), Len(q) = 1
    PROVE  q # <<>> /\ Range(q) = {q[1]} /\ Head(q) = q[1]
  <1>1. Range(q) = {q[i] : i \in 1 .. Len(q)}
    BY RangeEquality
  <1>2. \A i \in 1 .. Len(q) : i = 1
    OBVIOUS
  <1> QED BY <1>1, <1>2

\* A key that is asked for by all structures is asked for once.
LEMMA KeyMerges ==
    ASSUME request \in Requests, NEW t, AsksForKey(t)
    PROVE  Len(Merges) = 1 /\ ForKey(Head(Merges), t)
  <1> DEFINE r == request
  <1>1. IsRequest(r) /\ Len(r) \in Nat /\ Len(r) >= 1 /\ DOMAIN r = 1 .. Len(r)
    BY RequestsAreRequests, EmptySeq, LenProperties DEF IsRequest, AsksForKey
  <1>2. PICK f : /\ MergedAll(r) = f[Len(r)]
                 /\ f[0] = <<>>
                 /\ \A n \in 1 .. Len(r) : f[n] = Merged(f[n - 1], r[n])
    BY <1>1, MergedAllFolds
  <1>3. ASSUME NEW i \in 1 .. Len(r) PROVE Len(r[i]) = 1 /\ r[i] # <<>> /\ ForKey(r[i][1], t)
    <2>1. /\ Len(r[i]) = 1 /\ r[i][1].eq = <<Hash(t)>>
          /\ \A op \in Operators \ {"eq"} : r[i][1][op] = <<>>
      BY <1>1 DEF AsksForKey
    <2>2. r[i] # <<>> /\ Conjunct(r[i][1])
      BY <1>1, <2>1, OnlyElement DEF IsRequest
    <2>3. Range(<<Hash(t)>>) = {Hash(t)} /\ <<Hash(t)>> # <<>>
      BY DEF Range
    <2> QED BY <2>1, <2>2, <2>3 DEF ForKey
  <1> DEFINE Good(n) == Len(f[n]) = 1 /\ f[n] # <<>> /\ ForKey(f[n][1], t)
             C == {n \in 1 .. Len(r) : ~Good(n)}
  <1>4. Good(1)
    <2>1. f[1] = Merged(f[0], r[1]) /\ 1 \in 1 .. Len(r)
      BY <1>1, <1>2
    <2> QED BY <1>2, <1>3, <2>1 DEF Merged
  <1>5. ASSUME NEW n \in 1 .. Len(r) - 1, Good(n) PROVE Good(n + 1)
    <2> DEFINE a == f[n]
               b == r[n + 1]
    <2>1. n + 1 \in 1 .. Len(r) /\ (n + 1) - 1 = n
      BY <1>1
    <2>2. f[n + 1] = Merged(a, b)
      BY <1>2, <2>1
    <2>3. Len(a) = 1 /\ a # <<>> /\ Len(b) = 1 /\ b # <<>> /\ ForKey(a[1], t) /\ ForKey(b[1], t)
      BY <1>3, <1>5, <2>1
    <2> HIDE DEF a, b
    <2>4. Merged(a, b) = [k \in 1 .. 1 |-> Both(a[((k - 1) \div 1) + 1], b[((k - 1) % 1) + 1])]
      <3>1. Merged(a, b) = [k \in 1 .. Len(a) * Len(b) |->
                               Both(a[((k - 1) \div Len(b)) + 1], b[((k - 1) % Len(b)) + 1])]
        BY <2>3, Zenon DEF Merged
      <3>2. 1 * 1 = 1
        OBVIOUS
      <3> QED BY <2>3, <3>1, <3>2, Zenon
    <2>5. Merged(a, b) = [k \in 1 .. 1 |-> Both(a[1], b[1])]
      <3>1. \A k \in 1 .. 1 : ((k - 1) \div 1) + 1 = 1 /\ ((k - 1) % 1) + 1 = 1
        OBVIOUS
      <3> QED BY <2>4, <3>1
    <2>6. Len(Merged(a, b)) = 1 /\ Merged(a, b) # <<>> /\ Merged(a, b)[1] = Both(a[1], b[1])
      BY <2>5
    <2> QED BY <2>2, <2>3, <2>6, ForKeyBoth
  <1> HIDE DEF Good
  <1>6. C = {}
    <2> SUFFICES ASSUME C # {} PROVE FALSE
      OBVIOUS
    <2>1. PICK k \in C : \A m \in C : k <= m
      <3>1. C \in SUBSET Nat
        BY <1>1
      <3> HIDE DEF C
      <3> QED BY <3>1, LeastNumber
    <2>2. k \in 1 .. Len(r) /\ ~Good(k) /\ k # 1
      BY <1>4
    <2>3. k - 1 \in 1 .. Len(r) - 1 /\ k - 1 \in 1 .. Len(r) /\ (k - 1) + 1 = k /\ ~(k <= k - 1)
      BY <1>1, <2>2
    <2>4. Good(k - 1)
      BY <2>1, <2>3
    <2> QED BY <1>5, <2>2, <2>3, <2>4
  <1>7. Good(Len(r))
    <2>1. Len(r) \in 1 .. Len(r)
      BY <1>1
    <2> QED BY <1>6, <2>1
  <1>8. Head(Merges) = Merges[1]
    BY <1>2, <1>7, OnlyElement, DisjunctsAreConjuncts DEF Good, Merges
  <1> QED BY <1>2, <1>7, <1>8 DEF Good, Merges

\* The solver finds the key.
LEMMA KeyFound ==
    ASSUME NEW t \in Words(Slots), NEW m, ForKey(m, t), NEW s,
           s.words = Text \cap WordsFor(Named(m)), s.hashes = Named(m).eq
    PROVE  Answers(s) # {}
  <1>1. /\ Named(m).lt = {} /\ Named(m).le = {} /\ Named(m).gt = {} /\ Named(m).ge = {}
        /\ Named(m).ne = {} /\ Named(m).eq = {Hash(t)}
    BY NamedOperands DEF ForKey, Operators
  <1>2. s.words = Text
    BY <1>1 DEF WordsFor, OneSided
  <1>3. t \in HashWords(s)
    BY <1>1 DEF HashWords
  <1> QED BY <1>2, <1>3, TextIsWords, AnswersIff

LEMMA KeyKept ==
    ASSUME request \in Requests, SolverInv, KeyInv, [Next]_vars
    PROVE  KeyInv'
  <1> SUFFICES ASSUME NEW t \in Words(Slots), AsksForKey(t)'
               PROVE  /\ status' # "failed"
                      /\ status' = "trying" => todo' = Merges /\ solver' = Fresh
    BY SolverKept DEF KeyInv, Merges
  <1>1. AsksForKey(t) /\ request' = request
    BY SolverKept DEF AsksForKey
  <1>2. /\ status # "failed"
        /\ status = "trying" => todo = Merges /\ solver = Fresh
    BY <1>1 DEF KeyInv, Merges
  <1>3. Len(Merges) = 1 /\ ForKey(Head(Merges), t)
    BY <1>1, KeyMerges
  <1>4. Head(Merges).eq # <<>> /\ Head(Merges).xeq = <<>> /\ "eq" \in Operators
    BY <1>3 DEF ForKey, Operators
  <1>5. CASE Merge
    <2>1. status = "asked" /\ todo' = Merges /\ UNCHANGED solver
      BY <1>5 DEF Merge, Merges
    <2>2. Merges # <<>>
      BY <1>3
    <2> QED BY <1>5, <2>1, <2>2 DEF Merge, SolverInv
  <1>6. CASE Try
    <2>1. /\ status = "trying"
          /\ solver' = [words |-> solver.words \cap WordsFor(Named(Head(todo))),
                        mentioned |-> solver.mentioned \/ Mentions(Named(Head(todo))),
                        hashes |-> solver.hashes \cup Named(Head(todo)).eq]
          /\ Conclude
      BY <1>6, Zenon DEF Try
    <2>2. Answers(solver') # {}
      <3>1. solver.words = Text /\ solver.hashes = {}
        BY <1>2, <2>1 DEF Fresh
      <3>2. solver'.words = Text \cap WordsFor(Named(Head(Merges))) /\ solver'.hashes = Named(Head(Merges)).eq
        BY <1>2, <2>1, <3>1
      <3> QED BY <1>3, <3>2, KeyFound
    <2> QED BY <2>1, <2>2 DEF Conclude
  <1>7. CASE Skip
    BY <1>2, <1>4, <1>7 DEF Skip, Empty
  <1>8. CASE TryXeq
    <2>1. status = "trying" /\ Len(Head(todo).xeq) = 1
      BY <1>8 DEF TryXeq
    <2>2. Head(todo).xeq = <<>>
      BY <1>2, <1>4, <2>1
    <2>3. Len(Head(todo).xeq) = 0
      BY <2>2, EmptySeq
    <2> QED BY <2>1, <2>3
  <1>9. CASE UNCHANGED vars
    BY <1>2, <1>9 DEF vars
  <1> QED BY <1>5, <1>6, <1>7, <1>8, <1>9 DEF Next

---------------------------------------------------------------------------
(* The theorems.                                                           *)

\* The solver is only added to: it finds a string with the first constraints it is
\* given or never, and a key is found with the first.
THEOREM SynthesisInvariant == Spec => []SynthesisInv
  <1>1. Init => SynthesisInv
    BY FreshType DEF Init, SynthesisInv, SolverInv, KeyInv, Solvers
  <1>2. SynthesisInv /\ [Next]_vars => SynthesisInv'
    BY SolverKept, KeyKept DEF SynthesisInv
  <1> QED BY <1>1, <1>2, PTL DEF Spec

\* The disjuncts of the structures, by the lists that a merged one is made of.
LEMMA ConjunctsOfRequest ==
    ASSUME request \in Requests, NEW i \in 1 .. Len(request), NEW d \in Range(request[i])
    PROVE  /\ Conjunct(d) /\ Named(d) \in Conjuncts
           /\ \E j \in DOMAIN request[i] : d = request[i][j]
  <1>1. IsRequest(request) /\ DOMAIN request = 1 .. Len(request)
    BY RequestsAreRequests, LenProperties DEF IsRequest
  <1>2. PICK j \in DOMAIN request[i] : d = request[i][j]
    BY DEF Range
  <1> QED BY <1>1, <1>2 DEF IsRequest, Conjuncts

LEMMA NamedWithin ==
    ASSUME NEW d, NEW m, Within(d, m)
    PROVE  \A op \in Operators : Named(d)[op] \subseteq Named(m)[op]
  BY DEF Within, Named

\* The answer to a merged disjunct without xeq.
LEMMA BoundsHold ==
    ASSUME request \in Requests, Separate, NEW m, MergeOf(request, Len(request), m),
           m.xeq = <<>>, NEW t, MayAnswer(m, t),
           NEW i \in 1 .. Len(request), NEW d \in Range(request[i]), Within(d, m)
    PROVE  Holds(Named(d), t)
  <1>1. Conjunct(m) /\ Conjunct(d) /\ Named(d) \in Conjuncts
    BY ConjunctsOfRequest DEF MergeOf
  <1>2. /\ \A op \in Operators : Named(d)[op] \subseteq Named(m)[op]
        /\ Named(m).xeq = {}
    BY <1>1, NamedOperands, NamedWithin DEF Operators
  <1>3. Named(d).xeq = {}
    BY <1>2 DEF Operators
  <1>4. \A op \in Operators : \A v \in Named(m)[op] :
            \E c \in Conjuncts : v \in c[op]
    <2> SUFFICES ASSUME NEW op \in Operators, NEW v \in Named(m)[op]
                 PROVE  \E c \in Conjuncts : v \in c[op]
      OBVIOUS
    <2>1. v \in Range(m[op])
      BY <1>1, NamedOperands
    <2>2. PICK k \in 1 .. Len(request) : \E e \in Range(request[k]) : Within(e, m) /\ v \in Range(e[op])
      BY <2>1 DEF MergeOf
    <2>3. PICK e \in Range(request[k]) : v \in Range(e[op])
      BY <2>2
    <2>4. Named(e) \in Conjuncts /\ Conjunct(e)
      BY ConjunctsOfRequest
    <2>5. v \in Named(e)[op]
      BY <2>3, <2>4, NamedOperands
    <2> QED BY <2>4, <2>5
  <1>5. CASE Mentions(Named(m))
    <2>1. t \in Text /\ t \in WordsFor(Named(m))
      BY <1>5 DEF MayAnswer
    <2>2. PICK op \in {"lt", "le", "gt", "ge", "ne"} : Named(m)[op] # {}
      BY <1>5 DEF Mentions, Bounds
    <2>3. \E c \in Conjuncts : Mentions(c)
      <3>1. op \in Operators
        BY DEF Operators
      <3>2. PICK c \in Conjuncts : c[op] # {}
        BY <1>4, <2>2, <3>1
      <3>3. Mentions(c)
        BY <3>2 DEF Mentions, Bounds
      <3> QED BY <3>3
    <2>4. Named(d).eq = {}
      BY <1>1, <2>3 DEF Separate
    <2>5. <<>> \notin Named(m).ne
      BY <1>4 DEF Separate, Operators
    <2>6. Bounding(Named(m), t) /\ \A v \in Named(m).ne : t # v
      BY <1>1, <2>1, <2>5, WordsForSound
    <2> QED BY <1>2, <1>3, <2>4, <2>6 DEF Holds, Bounding, Operators
  <1>6. CASE ~Mentions(Named(m))
    <2>1. t \in HashWords([Fresh EXCEPT !.hashes = Named(m).eq])
      BY <1>6 DEF MayAnswer
    <2>2. \A h \in Named(m).eq : Hash(t) = h
      BY <2>1 DEF HashWords, Fresh
    <2>3. /\ Named(d).lt = {} /\ Named(d).le = {} /\ Named(d).gt = {} /\ Named(d).ge = {}
          /\ Named(d).ne = {}
      BY <1>2, <1>6 DEF Mentions, Bounds, Operators
    <2> QED BY <1>2, <1>3, <2>2, <2>3 DEF Holds, Operators
  <1> QED BY <1>5, <1>6

\* The answer to a merged disjunct with xeq.
LEMMA XeqHolds ==
    ASSUME request \in Requests, Separate, NEW m, MergeOf(request, Len(request), m),
           m.xeq # <<>>, NEW t, MayAnswer(m, t),
           NEW i \in 1 .. Len(request), NEW d \in Range(request[i]), Within(d, m)
    PROVE  Holds(Named(d), t)
  <1>1. Conjunct(m) /\ Conjunct(d) /\ Named(d) \in Conjuncts
    BY ConjunctsOfRequest DEF MergeOf
  <1>2. \A op \in Operators : Named(d)[op] \subseteq Named(m)[op]
    BY NamedWithin
  <1> DEFINE x == m.xeq[1]
  <1>3. /\ Len(m.xeq) = 1 /\ Len(m.lt) <= 1 /\ Len(m.gt) <= 1
        /\ ~XeqIsEmpty(Named(m), x)
        /\ t \in Text /\ t \in XeqWords(Named(m), x)
    BY DEF MayAnswer
  <1>4. x \in Named(m).xeq /\ \A y \in Named(m).xeq : y = x
    <2>1. "xeq" \in Operators /\ m.xeq \in Seq(Operands("xeq")) /\ Named(m).xeq = Range(m.xeq)
      BY <1>1, NamedOperands DEF Conjunct, Operators
    <2>2. Range(m.xeq) = {m.xeq[k] : k \in 1 .. Len(m.xeq)}
      BY <2>1, RangeEquality
    <2>3. \A k \in 1 .. Len(m.xeq) : k = 1
      BY <1>3
    <2>4. 1 \in 1 .. Len(m.xeq)
      BY <1>3
    <2> QED BY <2>1, <2>2, <2>3, <2>4
  <1> HIDE DEF x
  <1>5. \A op \in Operators : \A v \in Named(m)[op] :
            \E c \in Conjuncts : v \in c[op] /\ \A o \in Operators : c[o] \subseteq Named(m)[o]
    <2> SUFFICES ASSUME NEW op \in Operators, NEW v \in Named(m)[op]
                 PROVE  \E c \in Conjuncts : v \in c[op] /\ \A o \in Operators : c[o] \subseteq Named(m)[o]
      OBVIOUS
    <2>1. v \in Range(m[op])
      BY <1>1, NamedOperands
    <2>2. PICK k \in 1 .. Len(request) : \E e \in Range(request[k]) : Within(e, m) /\ v \in Range(e[op])
      BY <2>1 DEF MergeOf
    <2>3. PICK e \in Range(request[k]) : Within(e, m) /\ v \in Range(e[op])
      BY <2>2
    <2>4. Named(e) \in Conjuncts /\ Conjunct(e)
      BY ConjunctsOfRequest
    <2>5. v \in Named(e)[op] /\ \A o \in Operators : Named(e)[o] \subseteq Named(m)[o]
      BY <2>3, <2>4, NamedOperands, NamedWithin
    <2> QED BY <2>4, <2>5
  <1>6. \E c \in Conjuncts : c.xeq # {}
    BY <1>4, <1>5 DEF Operators
  <1>7. ASSUME NEW c \in Conjuncts, NEW op \in Operators \ {"xeq"}, c[op] # {}
        PROVE  c.xeq # {} /\ op \in {"lt", "gt"}
    BY <1>6, <1>7 DEF Separate
  <1>8. Solvable(Named(m))
    <2>1. x.length <= Len(x.value)
      <3>1. PICK c \in Conjuncts : x \in c.xeq
        BY <1>4, <1>5 DEF Operators
      <3> QED BY <3>1 DEF Separate, Solvable
    <2>2. ASSUME NEW op \in {"lt", "gt"}, NEW v \in Named(m)[op]
          PROVE  \E c \in Conjuncts : v \in c[op] /\ x \in c.xeq
      <3>1. op \in Operators \ {"xeq"} /\ "xeq" \in Operators
        BY DEF Operators
      <3>2. PICK c \in Conjuncts : v \in c[op] /\ \A o \in Operators : c[o] \subseteq Named(m)[o]
        BY <1>5, <2>2, <3>1
      <3>3. c.xeq # {} /\ c.xeq \subseteq Named(m).xeq
        BY <1>7, <3>1, <3>2
      <3> QED BY <1>4, <3>2, <3>3
    <2>3. ASSUME NEW v \in Named(m).lt PROVE ~Less(v, x.value)
      <3>1. PICK c \in Conjuncts : v \in c.lt /\ x \in c.xeq
        BY <2>2
      <3> QED BY <3>1 DEF Separate, Solvable
    <2>4. ASSUME NEW v \in Named(m).gt PROVE ~Less(x.value, v)
      <3>1. PICK c \in Conjuncts : v \in c.gt /\ x \in c.xeq
        BY <2>2
      <3> QED BY <3>1 DEF Separate, Solvable
    <2> QED BY <1>4, <2>1, <2>3, <2>4 DEF Solvable
  <1>9. HoldsXeq(Named(m), x, t)
    BY <1>1, <1>3, <1>4, <1>8, XeqWordsSound
  <1>10. CASE Named(d).xeq # {}
    <2>1. \A y \in Named(d).xeq : y = x
      BY <1>2, <1>4 DEF Operators
    <2>2. Named(d).lt \subseteq Named(m).lt /\ Named(d).gt \subseteq Named(m).gt
      BY <1>2 DEF Operators
    <2>3. HoldsXeq(Named(d), x, t)
      BY <1>9, <2>2 DEF HoldsXeq
    <2> QED BY <1>10, <2>1, <2>3 DEF Holds
  <1>11. CASE Named(d).xeq = {}
    <2>1. \A op \in Operators \ {"xeq"} : Named(d)[op] = {}
      BY <1>1, <1>7, <1>11
    <2>2. /\ Named(d).lt = {} /\ Named(d).le = {} /\ Named(d).gt = {} /\ Named(d).ge = {}
          /\ Named(d).ne = {} /\ Named(d).eq = {}
      BY <2>1 DEF Operators
    <2> QED BY <1>11, <2>2 DEF Holds
  <1> QED BY <1>10, <1>11

\* splice_synthesis with concretize_and_merge_constraints: a string that is found
\* satisfies the constraint of every structure that the object is in.
THEOREM ResultsAreSound == Spec => []ResultSound
  <1>1. SynthesisInv => ResultSound
    <2> SUFFICES ASSUME SynthesisInv, status = "found", Separate,
                        NEW i \in DOMAIN request, request[i] # <<>>
                 PROVE  \E j \in DOMAIN request[i] : Holds(Named(request[i][j]), answer)
      BY DEF ResultSound
    <2>1. request \in Requests /\ IsRequest(request)
      BY RequestsAreRequests DEF SynthesisInv
    <2>2. i \in 1 .. Len(request)
      BY <2>1, LenProperties DEF IsRequest
    <2>3. PICK m \in Range(MergedAll(request)) : MayAnswer(m, answer)
      BY DEF SynthesisInv, SolverInv
    <2>4. MergeOf(request, Len(request), m)
      BY <2>1, MergedAllProperties
    <2>5. PICK d \in Range(request[i]) : Within(d, m)
      BY <2>2, <2>4 DEF MergeOf
    <2>6. Holds(Named(d), answer)
      BY <2>1, <2>2, <2>3, <2>4, <2>5, BoundsHold, XeqHolds
    <2> QED BY <2>1, <2>2, <2>6, ConjunctsOfRequest
  <1> QED BY <1>1, SynthesisInvariant, PTL

\* SpliceDict: the synthesizer never gives up on a key that fits in the slots, which
\* would otherwise only be flagged.
THEOREM KeysAreSynthesized == Spec => []KeySynthesized
  <1>1. SynthesisInv => KeySynthesized
    BY DEF SynthesisInv, KeyInv, KeySynthesized
  <1> QED BY <1>1, SynthesisInvariant, PTL

=============================================================================

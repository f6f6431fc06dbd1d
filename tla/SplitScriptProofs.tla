-------------------------- MODULE SplitScriptProofs --------------------------
(***************************************************************************)
(* Proofs about the splitter: that it cuts a script of any length where    *)
(* the server does.  First the lemmas about sequences that the proofs of   *)
(* the other forms need as well, about those that the community modules'   *)
(* operators make of a set or join into one.                               *)
(***************************************************************************)
EXTENDS SplitScript, TLAPS, WellFoundedInduction, FiniteSetTheorems, SequenceTheorems

\* Induction over the numbers, for a set: one that holds 0 and, with a
\* number, the next holds them all.
LEMMA NatSetInduction ==
    ASSUME NEW S, 0 \in S, \A n \in Nat : n \in S => n + 1 \in S
    PROVE  Nat \subseteq S
<1> DEFINE R == OpToRel(<, Nat)
           B == Nat \ S
<1> SUFFICES ASSUME B # {} PROVE FALSE OBVIOUS
<1>1. IsWellFoundedOn(R, Nat) BY NatLessThanWellFounded
<1>2. PICK m \in B : \A y \in B : <<y, m>> \notin R
  <2> HIDE DEF B, R
  <2> B \subseteq Nat BY DEF B
  <2> QED BY <1>1, WFMin
<1>3. \A y \in B : ~(y < m) BY <1>2 DEF OpToRel
<1>4. m # 0 /\ m - 1 \in Nat OBVIOUS
<1>5. m - 1 \in S BY <1>3, <1>4
<1> QED BY <1>4, <1>5

\* Two sequences, one after the other: the type, and what is in it.
LEMMA ConcatRange ==
    ASSUME NEW T, NEW a \in Seq(T), NEW b \in Seq(T)
    PROVE  a \o b \in Seq(T) /\ Range(a \o b) = Range(a) \cup Range(b)
<1>1. a \o b \in Seq(T) /\ Len(a \o b) = Len(a) + Len(b) OBVIOUS
<1>2. \A i \in 1 .. Len(a) : i \in 1 .. Len(a) + Len(b) /\ (a \o b)[i] = a[i] OBVIOUS
<1>3. \A i \in 1 .. Len(b) : Len(a) + i \in 1 .. Len(a) + Len(b) /\ (a \o b)[Len(a) + i] = b[i] OBVIOUS
<1>4. ASSUME NEW i \in 1 .. Len(a) + Len(b)
      PROVE  i \in 1 .. Len(a) \/ \E j \in 1 .. Len(b) : i = Len(a) + j
  <2>1. CASE i <= Len(a) BY <2>1
  <2>2. CASE i > Len(a)
    <3> i - Len(a) \in 1 .. Len(b) /\ i = Len(a) + (i - Len(a)) BY <2>2
    <3> QED OBVIOUS
  <2> QED BY <2>1, <2>2
<1>5. DOMAIN (a \o b) = 1 .. Len(a) + Len(b) /\ DOMAIN a = 1 .. Len(a) /\ DOMAIN b = 1 .. Len(b)
  BY <1>1
<1>6. Range(a \o b) \subseteq Range(a) \cup Range(b) BY <1>2, <1>3, <1>4, <1>5, SMTT(30) DEF Range
<1>7. Range(a) \cup Range(b) \subseteq Range(a \o b) BY <1>2, <1>3, <1>5 DEF Range
<1> QED BY <1>1, <1>6, <1>7

\* A sequence is its first element and the rest.
LEMMA TailRange ==
    ASSUME NEW T, NEW s \in Seq(T), s # <<>>
    PROVE  /\ Head(s) \in T /\ Tail(s) \in Seq(T)
           /\ Range(s) = {Head(s)} \cup Range(Tail(s)) /\ s = <<Head(s)>> \o Tail(s)
<1>1. Head(s) \in T /\ Tail(s) \in Seq(T) /\ s = <<Head(s)>> \o Tail(s) OBVIOUS
<1>2. Range(<<Head(s)>>) = {Head(s)} BY DEF Range
<1>3. <<Head(s)>> \in Seq(T) BY <1>1
<1>4. Range(<<Head(s)>> \o Tail(s)) = Range(<<Head(s)>>) \cup Range(Tail(s)) BY <1>1, <1>3, ConcatRange, ZenonT(60)
<1> QED BY <1>1, <1>2, <1>4

\* The elements of a sequence over T are in T.
LEMMA RangeType ==
    ASSUME NEW T, NEW s \in Seq(T) PROVE Range(s) \subseteq T
BY DEF Range

\* A sequence over a set is one over a larger set.
LEMMA SeqWidens ==
    ASSUME NEW S, NEW T, S \subseteq T PROVE Seq(S) \subseteq Seq(T)
OBVIOUS

\* Nothing is in the empty sequence.
LEMMA EmptyRange == Range(<<>>) = {}
BY DEF Range

\* FlattenSeq appends one sequence after the other.
LEMMA FlattenSeqSteps ==
    ASSUME NEW S, NEW seqs \in Seq(S), seqs # <<>>
    PROVE  \E flat : /\ flat[1] = seqs[1]
                     /\ \A i \in 2 .. Len(seqs) : flat[i] = flat[i - 1] \o seqs[i]
                     /\ FlattenSeq(seqs) = flat[Len(seqs)]
<1> DEFINE n == Len(seqs)
           Step(f, i) == IF i = 1 THEN seqs[i] ELSE f[i - 1] \o seqs[i]
           Upto(f, k) == f = [i \in 1 .. k |-> Step(f, i)]
           D == {k \in Nat : k \in 1 .. n => \E f : Upto(f, k)}
           flat == CHOOSE f : Upto(f, n)
<1>n. n \in Nat /\ n >= 1 OBVIOUS
<1>1. ASSUME NEW k \in Nat, k \in D PROVE k + 1 \in D
  <2>1. CASE k = 0
    <3> DEFINE g == [i \in 1 .. 1 |-> seqs[1]]
    <3>1. Upto(g, k + 1) BY <2>1
    <3> HIDE DEF Upto, g
    <3> QED BY <3>1
  <2>2. CASE k # 0 /\ k + 1 \in 1 .. n
    <3>1. PICK f : Upto(f, k)
      <4> HIDE DEF Upto
      <4> QED BY <1>1, <2>2
    <3> DEFINE g == [i \in 1 .. k + 1 |-> IF i = k + 1 THEN f[k] \o seqs[k + 1] ELSE f[i]]
    <3>2. \A i \in 1 .. k : f[i] = Step(f, i) BY <3>1
    <3>3. \A i \in 1 .. k + 1 : g[i] = Step(g, i)
      <4> TAKE i \in 1 .. k + 1
      <4>1. CASE i = k + 1
        <5>1. k \in 1 .. k + 1 /\ k # k + 1 /\ i - 1 = k /\ i # 1 BY <4>1, <2>2
        <5>2. g[k] = f[k] BY <5>1
        <5> QED BY <5>1, <5>2, <4>1
      <4>2. CASE i = 1 BY <4>2, <2>2, <3>2
      <4>3. CASE i \in 2 .. k
        <5> i \in 1 .. k /\ i - 1 \in 1 .. k + 1 /\ i - 1 # k + 1 BY <4>3
        <5> g[i] = f[i] /\ g[i - 1] = f[i - 1] BY <4>3
        <5> QED BY <3>2, <4>3
      <4> QED BY <4>1, <4>2, <4>3, <2>2
    <3>4. Upto(g, k + 1)
      <4> HIDE DEF Step
      <4> QED BY <3>3
    <3> HIDE DEF Upto, g
    <3> QED BY <3>4
  <2>3. CASE k + 1 \notin 1 .. n
    <3> HIDE DEF Upto
    <3> QED BY <2>3
  <2> QED BY <2>1, <2>2, <2>3
<1>2. Nat \subseteq D
  <2>1. 0 \in D OBVIOUS
  <2> HIDE DEF D
  <2> QED BY <1>1, <2>1, NatSetInduction
<1>3. Upto(flat, n)
  <2>1. n \in D BY <1>2, <1>n
  <2> HIDE DEF Upto
  <2>2. \E f : Upto(f, n) BY <2>1, <1>n
  <2> QED BY <2>2
<1>4. \A i \in 1 .. n : flat[i] = Step(flat, i) BY <1>3
<1>5. FlattenSeq(seqs) = flat[n] BY <1>n DEF FlattenSeq
<1> HIDE DEF flat
<1>6. flat[1] = seqs[1] BY <1>4, <1>n
<1>7. ASSUME NEW i \in 2 .. n PROVE flat[i] = flat[i - 1] \o seqs[i]
  <2> i \in 1 .. n /\ i # 1 OBVIOUS
  <2> QED BY <1>4
<1> QED BY <1>5, <1>6, <1>7

\* It holds the elements of the sequences and no others.
LEMMA FlattenSeqElements ==
    ASSUME NEW T, NEW seqs \in Seq(Seq(T))
    PROVE  /\ FlattenSeq(seqs) \in Seq(T)
           /\ \A j \in 1 .. Len(seqs) : Range(seqs[j]) \subseteq Range(FlattenSeq(seqs))
<1>1. CASE Len(seqs) = 0
  <2>1. seqs = <<>> BY <1>1
  <2>2. FlattenSeq(seqs) = <<>> BY <1>1, <2>1 DEF FlattenSeq
  <2> QED BY <2>2, <1>1
<1>2. CASE Len(seqs) # 0
  <2> DEFINE n == Len(seqs)
  <2>n. n \in Nat /\ n >= 1 BY <1>2
  <2>1. PICK flat : /\ flat[1] = seqs[1]
                    /\ \A i \in 2 .. n : flat[i] = flat[i - 1] \o seqs[i]
                    /\ FlattenSeq(seqs) = flat[n]
    <3> seqs # <<>> BY <1>2
    <3> QED BY FlattenSeqSteps
  <2> DEFINE Good(k) == /\ flat[k] \in Seq(T)
                        /\ \A j \in 1 .. k : Range(seqs[j]) \subseteq Range(flat[k])
             F == {k \in Nat : k \in 1 .. n => Good(k)}
  <2>5. ASSUME NEW k \in Nat, k \in F PROVE k + 1 \in F
    <3>1. CASE k = 0
      <4>1. 1 \in 1 .. n BY <2>n
      <4>2. flat[1] = seqs[1] BY <2>1, <4>1
      <4>3. seqs[1] \in Seq(T) BY <4>1
      <4>4. Good(1) BY <4>2, <4>3
      <4> HIDE DEF Good
      <4> QED BY <3>1, <4>4
    <3>2. CASE k # 0 /\ k + 1 \in 1 .. n
      <4>1. k + 1 \in 1 .. n /\ k + 1 # 1 /\ k \in 1 .. n /\ (k + 1) - 1 = k BY <3>2
      <4>2. flat[k + 1] = flat[k] \o seqs[k + 1]
        <5> k + 1 \in 2 .. n BY <4>1
        <5> QED BY <2>1, <4>1
      <4>3. Good(k)
        <5> HIDE DEF Good
        <5> QED BY <2>5, <4>1
      <4>4. seqs[k + 1] \in Seq(T) BY <4>1
      <4>5. flat[k + 1] \in Seq(T) BY <4>2, <4>3, <4>4
      <4>6. Range(flat[k + 1]) = Range(flat[k]) \cup Range(seqs[k + 1])
        BY <4>2, <4>3, <4>4, ConcatRange
      <4>7. \A j \in 1 .. k + 1 : Range(seqs[j]) \subseteq Range(flat[k + 1])
        <5> TAKE j \in 1 .. k + 1
        <5>1. CASE j = k + 1 BY <5>1, <4>6
        <5>2. CASE j \in 1 .. k BY <5>2, <4>6, <4>3
        <5> QED BY <5>1, <5>2
      <4>8. Good(k + 1) BY <4>5, <4>7
      <4> HIDE DEF Good
      <4> QED BY <4>8
    <3>3. CASE k + 1 \notin 1 .. n
      <4> HIDE DEF Good
      <4> QED BY <3>3
    <3> QED BY <3>1, <3>2, <3>3
  <2>6. Nat \subseteq F
    <3>1. 0 \in F OBVIOUS
    <3> HIDE DEF F
    <3> QED BY <2>5, <3>1, NatSetInduction
  <2>8. n \in F BY <2>6, <2>n
  <2>9. Good(n)
    <3> HIDE DEF Good
    <3> QED BY <2>8, <2>n
  <2> QED BY <2>1, <2>9
<1> QED BY <1>1, <1>2

\* What holds in order within the sequences and from one to the next holds in
\* order of all.
LEMMA FlattenSeqPairs ==
    ASSUME NEW T, NEW seqs \in Seq(Seq(T)), NEW R,
           \A k \in 1 .. Len(seqs) : \A i, j \in DOMAIN seqs[k] : i < j => <<seqs[k][i], seqs[k][j]>> \in R,
           \A k, l \in 1 .. Len(seqs) : k < l =>
              \A x \in Range(seqs[k]), y \in Range(seqs[l]) : <<x, y>> \in R
    PROVE  \A i, j \in DOMAIN FlattenSeq(seqs) : i < j => <<FlattenSeq(seqs)[i], FlattenSeq(seqs)[j]>> \in R
<1>1. CASE Len(seqs) = 0
  <2>1. seqs = <<>> BY <1>1
  <2>2. FlattenSeq(seqs) = <<>> BY <1>1, <2>1 DEF FlattenSeq
  <2> QED BY <2>2
<1>2. CASE Len(seqs) # 0
  <2> DEFINE n == Len(seqs)
  <2>n. n \in Nat /\ n >= 1 BY <1>2
  <2>1. PICK flat : /\ flat[1] = seqs[1]
                    /\ \A i \in 2 .. n : flat[i] = flat[i - 1] \o seqs[i]
                    /\ FlattenSeq(seqs) = flat[n]
    <3> seqs # <<>> BY <1>2
    <3> QED BY FlattenSeqSteps
  <2> DEFINE Good(k) == /\ flat[k] \in Seq(T)
                        /\ Range(flat[k]) \subseteq UNION {Range(seqs[m]) : m \in 1 .. k}
                        /\ \A i, j \in DOMAIN flat[k] : i < j => <<flat[k][i], flat[k][j]>> \in R
             F == {k \in Nat : k \in 1 .. n => Good(k)}
  <2>5. ASSUME NEW k \in Nat, k \in F PROVE k + 1 \in F
    <3>1. CASE k = 0
      <4>1. 1 \in 1 .. n BY <2>n
      <4>2. flat[1] = seqs[1] /\ seqs[1] \in Seq(T) BY <2>1, <4>1
      <4>3. \A i, j \in DOMAIN flat[1] : i < j => <<flat[1][i], flat[1][j]>> \in R BY <4>1, <4>2
      <4>4. Range(flat[1]) \subseteq UNION {Range(seqs[m]) : m \in 1 .. 1} BY <4>2
      <4>5. Good(1) BY <4>2, <4>3, <4>4
      <4> HIDE DEF Good
      <4> QED BY <3>1, <4>5
    <3>2. CASE k # 0 /\ k + 1 \in 1 .. n
      <4> DEFINE a == flat[k]
                 b == seqs[k + 1]
      <4>1. k \in 1 .. n /\ k + 1 \in 2 .. n /\ (k + 1) - 1 = k BY <3>2
      <4>2. flat[k + 1] = a \o b BY <2>1, <4>1
      <4>3. Good(k)
        <5> HIDE DEF Good
        <5> QED BY <2>5, <4>1
      <4>4. b \in Seq(T) /\ a \in Seq(T) BY <4>1, <4>3
      <4>5. a \o b \in Seq(T) /\ Range(a \o b) = Range(a) \cup Range(b) BY <4>4, ConcatRange
      <4>6. \A x \in Range(a), y \in Range(b) : <<x, y>> \in R
        <5> TAKE x \in Range(a), y \in Range(b)
        <5>1. PICK m \in 1 .. k : x \in Range(seqs[m]) BY <4>3
        <5>2. m \in 1 .. n /\ k + 1 \in 1 .. n /\ m < k + 1 BY <4>1
        <5> QED BY <5>1, <5>2
      <4>7. \A i, j \in DOMAIN a : i < j => <<a[i], a[j]>> \in R BY <4>3
      <4>8. \A i, j \in DOMAIN b : i < j => <<b[i], b[j]>> \in R BY <4>1
      <4>9. Range(a) \cup Range(b) \subseteq UNION {Range(seqs[m]) : m \in 1 .. k + 1}
        <5>1. Range(a) \subseteq UNION {Range(seqs[m]) : m \in 1 .. k} BY <4>3
        <5>2. 1 .. k \subseteq 1 .. k + 1 /\ k + 1 \in 1 .. k + 1 OBVIOUS
        <5> HIDE DEF a
        <5> QED BY <5>1, <5>2
      <4>10. \A i, j \in DOMAIN (a \o b) : i < j => <<(a \o b)[i], (a \o b)[j]>> \in R
        <5> HIDE DEF a, b
        <5>1. /\ DOMAIN (a \o b) = 1 .. Len(a) + Len(b) /\ DOMAIN a = 1 .. Len(a) /\ DOMAIN b = 1 .. Len(b)
              /\ Len(a) \in Nat /\ Len(b) \in Nat
              /\ \A i \in 1 .. Len(a) : (a \o b)[i] = a[i] /\ a[i] \in Range(a)
              /\ \A i \in Len(a) + 1 .. Len(a) + Len(b) :
                    (a \o b)[i] = b[i - Len(a)] /\ i - Len(a) \in DOMAIN b /\ b[i - Len(a)] \in Range(b)
          BY <4>4 DEF Range
        <5> TAKE i, j \in DOMAIN (a \o b)
        <5>2. CASE i \in 1 .. Len(a) /\ j \in 1 .. Len(a) BY <4>7, <5>1, <5>2
        <5>3. CASE i \in 1 .. Len(a) /\ j \in Len(a) + 1 .. Len(a) + Len(b) BY <4>6, <5>1, <5>3
        <5>4. CASE i \in Len(a) + 1 .. Len(a) + Len(b) /\ j \in Len(a) + 1 .. Len(a) + Len(b)
          <6>1. i - Len(a) < j - Len(a) <=> i < j BY <5>1, <5>4
          <6> QED BY <4>8, <5>1, <5>4, <6>1
        <5>5. CASE i \in Len(a) + 1 .. Len(a) + Len(b) /\ j \in 1 .. Len(a) BY <5>1, <5>5
        <5>6. \A p \in DOMAIN (a \o b) : p \in 1 .. Len(a) \/ p \in Len(a) + 1 .. Len(a) + Len(b)
          BY <5>1
        <5> QED BY <5>2, <5>3, <5>4, <5>5, <5>6
      <4> HIDE DEF a, b
      <4>11. Good(k + 1) BY <4>2, <4>5, <4>9, <4>10
      <4> HIDE DEF Good
      <4> QED BY <4>11
    <3>3. CASE k + 1 \notin 1 .. n
      <4> HIDE DEF Good
      <4> QED BY <3>3
    <3> QED BY <3>1, <3>2, <3>3
  <2>6. Nat \subseteq F
    <3>1. 0 \in F OBVIOUS
    <3> HIDE DEF F
    <3> QED BY <2>5, <3>1, NatSetInduction
  <2>8. n \in F BY <2>6, <2>n
  <2>9. Good(n)
    <3> HIDE DEF Good
    <3> QED BY <2>8, <2>n
  <2> QED BY <2>1, <2>9
<1> QED BY <1>1, <1>2

\* SetToSeq lists each element of a finite set once, and nothing else.
LEMMA SetToSeqElements ==
    ASSUME NEW S, IsFiniteSet(S)
    PROVE  /\ SetToSeq(S) \in Seq(S) /\ Len(SetToSeq(S)) = Cardinality(S)
           /\ Range(SetToSeq(S)) = S
           /\ \A i, j \in 1 .. Cardinality(S) : SetToSeq(S)[i] = SetToSeq(S)[j] => i = j
<1> DEFINE n == Cardinality(S)
<1>1. n \in Nat /\ ExistsBijection(1 .. n, S) BY FS_CardinalityType
<1>2. PICK b \in Bijection(1 .. n, S) : TRUE BY <1>1 DEF ExistsBijection
<1>3. b \in [1 .. n -> S] /\ IsInjective(b)
  BY <1>2 DEF Bijection, Injection, IsInjective
<1>4. SetToSeq(S) \in [1 .. n -> S] /\ IsInjective(SetToSeq(S))
  BY <1>3 DEF SetToSeq
<1>5. SetToSeq(S) \in Injection(1 .. n, S) BY <1>4 DEF IsInjective, Injection
<1>6. IsFiniteSet(1 .. n) /\ Cardinality(1 .. n) = n BY <1>1, FS_Interval
<1>7. SetToSeq(S) \in Surjection(1 .. n, S) BY <1>5, <1>6, FS_Injection
<1>8. \A x \in S : \E i \in 1 .. n : SetToSeq(S)[i] = x BY <1>7 DEF Surjection
<1>9. Range(SetToSeq(S)) = S BY <1>4, <1>8 DEF Range
<1>10. \A i, j \in 1 .. n : SetToSeq(S)[i] = SetToSeq(S)[j] => i = j BY <1>4 DEF IsInjective
<1> QED BY <1>1, <1>4, <1>9, <1>10

-----------------------------------------------------------------------------
(* The splitter.                                                           *)

\* A set of natural numbers has a least one.
LEMMA LeastOf ==
    ASSUME NEW S, S \subseteq Nat, S # {}
    PROVE  Min(S) \in S /\ \A y \in S : Min(S) <= y
<1>1. \E x \in S : \A y \in S : x <= y
  <2>1. SUFFICES ASSUME \A x \in S : \E y \in S : ~(x <= y) PROVE FALSE OBVIOUS
  <2> DEFINE B == {n \in Nat : \A m \in 0 .. n : m \notin S}
  <2>2. 0 \in B
    <3>1. 0 \notin S BY <2>1
    <3> QED BY <3>1
  <2>3. ASSUME NEW n \in Nat, n \in B PROVE n + 1 \in B
    <3>1. \A m \in 0 .. n : m \notin S BY <2>3
    <3>2. n + 1 \notin S BY <2>1, <3>1
    <3> QED BY <3>1, <3>2
  <2>4. Nat \subseteq B
    <3> HIDE DEF B
    <3> QED BY <2>2, <2>3, NatSetInduction
  <2> HIDE DEF B
  <2>5. \A x \in S : x \in B BY <2>4
  <2>6. \A x \in S : x \notin S BY <2>5 DEF B
  <2> QED BY <2>6
<1> QED BY <1>1 DEF Min

\* The texts are sequences of characters.
Chars == UNION {Range(p) : p \in Pieces}

\* A text is its pieces, one after the other.
LEMMA TextsAreSequences == Texts \subseteq Seq(Chars)
<1>1. Pieces \subseteq Seq(Chars)
  <2>1. \A p \in Pieces : Range(p) \subseteq Chars BY DEF Chars
  <2>2. \A p \in Pieces : p \in Seq(Range(p))
    <3>1. ASSUME NEW a PROVE <<a>> \in Seq(Range(<<a>>)) BY DEF Range
    <3>2. ASSUME NEW a, NEW b PROVE <<a, b>> \in Seq(Range(<<a, b>>)) BY DEF Range
    <3>3. ASSUME NEW a, NEW b, NEW c PROVE <<a, b, c>> \in Seq(Range(<<a, b, c>>)) BY DEF Range
    <3> QED BY <3>1, <3>2, <3>3 DEF Pieces
  <2>3. \A p \in Pieces : Seq(Range(p)) \subseteq Seq(Chars)
    <3> HIDE DEF Chars
    <3> QED BY <2>1, SeqWidens
  <2> QED BY <2>2, <2>3
<1>2. BoundedSeq(Pieces, MaxPieces) \subseteq Seq(Seq(Chars))
  <2>1. BoundedSeq(Pieces, MaxPieces) \subseteq Seq(Pieces)
        BY SplitAssumption DEF BoundedSeq, SeqOf
  <2>2. Seq(Pieces) \subseteq Seq(Seq(Chars)) BY <1>1, SeqWidens
  <2> QED BY <2>1, <2>2
<1> QED BY <1>2, FlattenSeqElements DEF Texts

\* A text that begins with a word of two characters.
LEMMA BeginsWith ==
    ASSUME NEW t \in Seq(Chars), NEW i \in 1 .. Len(t), NEW a, NEW b, Begins(t, i, <<a, b>>)
    PROVE  i + 1 <= Len(t) /\ t[i] = a /\ t[i + 1] = b
<1>1. i + 1 <= Len(t) /\ SubSeq(t, i, i + 1) = <<a, b>> BY DEF Begins
<1> DEFINE s == SubSeq(t, i, i + 1)
<1>2. s[1] = t[i] /\ s[2] = t[i + 1]
  <2>1. \A k \in 1 .. i + 1 - i + 1 : s[k] = t[i + k - 1] BY <1>1, SubSeqProperties
  <2>2. i + 1 - i + 1 = 2 /\ i + 1 - 1 = i /\ i + 2 - 1 = i + 1 OBVIOUS
  <2> HIDE DEF s
  <2> QED BY <2>1, <2>2
<1>3. s = <<a, b>> BY <1>1
<1> HIDE DEF s
<1> QED BY <1>1, <1>2, <1>3

SplitInv == SplitTypeOK /\ text \in Seq(Chars) /\ (mode = "dollar" => tag \in Seq(Chars))

\* A dollar quote that opens has a tag, which ends within the text.
LEMMA TagThere ==
    ASSUME NEW t \in Seq(Chars), NEW i \in 1 .. Len(t), DollarQuoteTag(t, i) # <<>>
    PROVE  /\ DollarQuoteTag(t, i) \in Seq(Chars)
           /\ Len(DollarQuoteTag(t, i)) \in 1 .. Len(t) + 1 - i
<1> DEFINE ends == {j \in i + 1 .. Len(t) : t[j] = "$" /\ \A k \in i + 1 .. j - 1 : Identifier(t[k])}
           m == Min(ends)
<1>1. ends # {} /\ DollarQuoteTag(t, i) = SubSeq(t, i, m) BY DEF DollarQuoteTag
<1>2. m \in ends
  <2>1. ends \subseteq Nat OBVIOUS
  <2> HIDE DEF ends
  <2> QED BY <1>1, <2>1, LeastOf
<1>3. m \in i + 1 .. Len(t) BY <1>2
<1> HIDE DEF m
<1> QED BY <1>1, <1>3

\* Every step of the splitter takes at least one character and none past the
\* end.
LEMMA SplitStep == ASSUME SplitInv, [SplitNext]_splitVars PROVE SplitInv'
<1> USE DEF SplitInv, SplitTypeOK
<1>1. CASE InNormal
  <2>1. /\ mode = "normal" /\ at <= Len(text) /\ text' = text
        /\ at' = at + Opens(at).n /\ mode' = Opens(at).mode
        /\ tag' = IF Opens(at).mode = "dollar" THEN DollarQuoteTag(text, at) ELSE tag BY <1>1 DEF InNormal, Take
  <2>2. at \in 1 .. Len(text) BY <2>1
  <2>3. /\ Opens(at).mode \in {"single", "double", "line", "block", "dollar", "normal"}
        /\ Opens(at).n \in 1 .. Len(text) + 1 - at
        /\ Opens(at).mode = "dollar" => DollarQuoteTag(text, at) # <<>>
    <3>1. Begins(text, at, <<"-", "-">>) => at + 1 <= Len(text) /\ text[at] = "-" BY <2>2, BeginsWith
    <3>2. Begins(text, at, <<"/", "*">>) => at + 1 <= Len(text) /\ text[at] = "/" BY <2>2, BeginsWith
    <3> DEFINE d == DollarQuoteTag(text, at)
    <3>3. d # <<>> => Len(d) \in 1 .. Len(text) + 1 - at BY <2>2, TagThere
    <3>5. d # <<>> => text[at] = "$" BY <2>2 DEF DollarQuoteTag, At
    <3> HIDE DEF d
    <3>4. \/ Opens(at) = [mode |-> "single", n |-> 1] \/ Opens(at) = [mode |-> "double", n |-> 1]
          \/ Opens(at) = [mode |-> "line", n |-> 2] /\ Begins(text, at, <<"-", "-">>)
          \/ Opens(at) = [mode |-> "block", n |-> 2] /\ Begins(text, at, <<"/", "*">>)
          \/ Opens(at) = [mode |-> "dollar", n |-> Len(d)] /\ d # <<>>
          \/ Opens(at) = [mode |-> "normal", n |-> 1]
          BY <3>1, <3>2, <3>5 DEF Opens, d
    <3> QED BY <2>2, <3>1, <3>2, <3>3, <3>4 DEF d
  <2>4. DollarQuoteTag(text, at) # <<>> => DollarQuoteTag(text, at) \in Seq(Chars) BY <2>2, TagThere
  <2>5. at' \in 1 .. Len(text') + 1 BY <2>1, <2>2, <2>3
  <2>6. mode' = "dollar" => tag' # <<>> /\ tag' \in Seq(Chars) BY <2>1, <2>3, <2>4
  <2>7. mode' \in {"normal", "single", "double", "line", "block", "dollar", "done"} BY <2>1, <2>3
  <2>8. text' \in Seq(Chars) BY <2>1
  <2> QED BY <2>5, <2>6, <2>7, <2>8
<1>2. CASE AtSemicolon
  <2>1. mode = "normal" /\ at <= Len(text) /\ at' = at + 1 /\ text' = text /\ mode' = mode /\ tag' = tag
        BY <1>2 DEF AtSemicolon
  <2> QED BY <2>1
<1>3. CASE Inside
  <2>1. /\ mode \notin {"normal", "done"} /\ at <= Len(text) /\ tag' = tag /\ text' = text
        /\ IF Begins(text, at, Closer) THEN at' = at + Len(Closer) /\ mode' = "normal" ELSE at' = at + 1 /\ mode' = mode
        BY <1>3 DEF Inside, Take
  <2>2. Len(Closer) \in Nat /\ Len(Closer) >= 1
    <3>1. CASE mode = "dollar"
      <4>1. Closer = tag BY <3>1 DEF Closer
      <4> QED BY <3>1, <4>1
    <3>2. CASE mode \in {"single", "double", "line"}
      <4>1. \E c : Closer = <<c>> BY <3>2 DEF Closer
      <4> QED BY <4>1
    <3>3. CASE mode = "block"
      <4>1. Closer = <<"*", "/">> BY <3>3 DEF Closer
      <4> QED BY <4>1
    <3> QED BY <2>1, <3>1, <3>2, <3>3
  <2>3. Begins(text, at, Closer) => at + Len(Closer) <= Len(text) + 1 BY <2>2 DEF Begins
  <2> QED BY <2>1, <2>2, <2>3
<1>4. CASE AtEnd BY <1>4 DEF AtEnd
<1>5. CASE UNCHANGED splitVars BY <1>5 DEF splitVars
<1> QED BY <1>1, <1>2, <1>3, <1>4, <1>5 DEF SplitNext

\* It starts before the first character.
LEMMA SplitStart == ASSUME NEW T, T \subseteq Seq(Chars), SplitInit(T) PROVE SplitInv
BY DEF SplitInit, SplitInv, SplitTypeOK

\* Every text of the splitter is one of the type.
THEOREM SplitTypeCorrect == SplitSpec => []SplitTypeOK
<1>1. SplitInit(Texts) => SplitInv BY SplitStart, TextsAreSequences
<1>2. SplitInv /\ [SplitNext]_splitVars => SplitInv' BY SplitStep
<1>3. SplitInv => SplitTypeOK BY DEF SplitInv
<1> QED BY <1>1, <1>2, <1>3, PTL DEF SplitSpec

-----------------------------------------------------------------------------
(* The positions of a text reached from one of them, step by step.         *)

\* e takes each of 1 .. n further, at most to n + 1.
Steps(e, n) == n \in Nat /\ e \in [1 .. n -> 1 .. n + 1] /\ \A i \in 1 .. n : e[i] > i
Closed(e, n, S) == \A k \in S : k \in 1 .. n => e[k] \in S
Onward(e, n, i) == {j \in 1 .. n + 1 : \A S \in SUBSET (1 .. n + 1) : i \in S /\ Closed(e, n, S) => j \in S}

\* The positions reached from i are i and those reached from the next.
LEMMA OnwardIs ==
    ASSUME NEW e, NEW n, Steps(e, n), NEW i \in 1 .. n + 1
    PROVE  /\ Onward(e, n, i) \subseteq i .. n + 1 /\ Closed(e, n, Onward(e, n, i)) /\ i \in Onward(e, n, i)
           /\ i \in 1 .. n => Onward(e, n, i) = {i} \cup Onward(e, n, e[i])
           /\ i = n + 1 => Onward(e, n, i) = {i}
<1> USE DEF Steps
<1>1. \A j \in 1 .. n + 1 : j \in Onward(e, n, j) /\ Closed(e, n, Onward(e, n, j)) BY DEF Onward, Closed
<1>2. ASSUME NEW S \in SUBSET (1 .. n + 1), i \in S, Closed(e, n, S) PROVE Onward(e, n, i) \subseteq S
      BY <1>2 DEF Onward
<1>3. Onward(e, n, i) \subseteq i .. n + 1
  <2>1. Closed(e, n, i .. n + 1) BY DEF Closed
  <2>2. (i .. n + 1) \in SUBSET (1 .. n + 1) /\ i \in i .. n + 1 OBVIOUS
  <2> QED BY <2>1, <2>2, <1>2
<1>4. CASE i \in 1 .. n
  <2> DEFINE T == {i} \cup Onward(e, n, e[i])
  <2>0. e[i] \in 1 .. n + 1 BY <1>4
  <2>1. Closed(e, n, T) BY <1>1, <2>0 DEF Closed
  <2>2. T \in SUBSET (1 .. n + 1) /\ i \in T BY DEF Onward
  <2>3. Onward(e, n, i) \subseteq T
    <3> HIDE DEF T
    <3> QED BY <2>1, <2>2, <1>2
  <2>4. e[i] \in Onward(e, n, i) BY <1>1, <1>4 DEF Closed
  <2>5. Onward(e, n, e[i]) \subseteq Onward(e, n, i)
    <3>1. Onward(e, n, i) \in SUBSET (1 .. n + 1) BY DEF Onward
    <3>2. Closed(e, n, Onward(e, n, i)) BY <1>1
    <3> QED BY <2>4, <3>1, <3>2 DEF Onward
  <2> QED BY <2>3, <2>5, <1>1, <1>3, <1>4
<1>5. CASE i = n + 1
  <2>1. Onward(e, n, i) \subseteq {n + 1} BY <1>3, <1>5
  <2> QED BY <1>1, <1>3, <1>5, <2>1
<1> QED BY <1>4, <1>5

\* None of them is passed over by a step.
LEMMA OnwardSpans ==
    ASSUME NEW e, NEW n, Steps(e, n), NEW i \in 1 .. n + 1, NEW j \in Onward(e, n, i), j \in 1 .. n,
           NEW k \in Onward(e, n, i)
    PROVE  k <= j \/ k >= e[j]
<1>s. n \in Nat /\ e \in [1 .. n -> 1 .. n + 1] /\ \A x \in 1 .. n : e[x] > x BY DEF Steps
<1> DEFINE T == {x \in Onward(e, n, i) : \A y \in Onward(e, n, i) : y < x \/ y \in Onward(e, n, x)}
<1>0. Onward(e, n, i) \in SUBSET (1 .. n + 1) BY DEF Onward
<1>1. \A x \in Onward(e, n, i) : /\ Onward(e, n, x) \subseteq x .. n + 1
                                 /\ x \in 1 .. n => Onward(e, n, x) = {x} \cup Onward(e, n, e[x])
                                 /\ x \in 1 .. n => e[x] \in Onward(e, n, i)
  <2> TAKE x \in Onward(e, n, i)
  <2>1. x \in 1 .. n + 1 BY <1>0
  <2>2. x \in 1 .. n => e[x] \in Onward(e, n, i) BY OnwardIs, <1>s DEF Closed
  <2>3. /\ Onward(e, n, x) \subseteq x .. n + 1
        /\ x \in 1 .. n => Onward(e, n, x) = {x} \cup Onward(e, n, e[x]) BY <2>1, OnwardIs
  <2> QED BY <2>2, <2>3
<1>2. i \in T BY OnwardIs
<1>3. Closed(e, n, T)
  <2>1. SUFFICES ASSUME NEW x \in T, x \in 1 .. n, NEW y \in Onward(e, n, i)
                 PROVE  e[x] \in Onward(e, n, i) /\ (y < e[x] \/ y \in Onward(e, n, e[x])) BY DEF Closed
  <2>2. e[x] \in Onward(e, n, i) /\ x < e[x] BY <2>1, <1>1, <1>s
  <2>3. y < x \/ y = x \/ y \in Onward(e, n, e[x]) BY <2>1, <1>1, <1>s
  <2>4. y \in 1 .. n + 1 /\ e[x] \in 1 .. n + 1 BY <2>1, <1>0, <1>s
  <2>5. y < x \/ y = x => y < e[x] BY <2>1, <2>2, <2>4, <1>s
  <2> QED BY <2>2, <2>3, <2>5, <1>s
<1>4. Onward(e, n, i) \subseteq T
  <2>1. T \in SUBSET (1 .. n + 1) BY <1>0
  <2> HIDE DEF T
  <2> QED BY <2>1, <1>2, <1>3 DEF Onward
<1>5. k < j \/ k \in {j} \cup Onward(e, n, e[j]) BY <1>1, <1>4
<1>6. e[j] \in Onward(e, n, i) BY <1>1
<1>7. Onward(e, n, e[j]) \subseteq e[j] .. n + 1 BY <1>1, <1>6
<1>8. k \in 1 .. n + 1 BY <1>0
<1> QED BY <1>5, <1>7, <1>8, <1>s
-----------------------------------------------------------------------------
(* How the server reads a text.                                            *)

\* The first character of what begins in some way.
LEMMA FirstOf ==
    ASSUME NEW t \in Seq(Chars), NEW i \in 1 .. Len(t)
    PROVE  /\ Begins(t, i, <<"-", "-">>) => t[i] = "-" /\ i + 1 <= Len(t)
           /\ Begins(t, i, <<"/", "*">>) => t[i] = "/" /\ i + 1 <= Len(t)
           /\ DollarQuoteTag(t, i) # <<>> => t[i] = "$" /\ Len(DollarQuoteTag(t, i)) \in 1 .. Len(t) + 1 - i
           /\ Identifier(t[i]) => t[i] = "x"
<1>1. Begins(t, i, <<"-", "-">>) => t[i] = "-" /\ i + 1 <= Len(t) BY BeginsWith
<1>2. Begins(t, i, <<"/", "*">>) => t[i] = "/" /\ i + 1 <= Len(t) BY BeginsWith
<1>3. DollarQuoteTag(t, i) # <<>> => t[i] = "$" BY DEF DollarQuoteTag, At
<1> QED BY <1>1, <1>2, <1>3, TagThere DEF Identifier

\* The end of what is closed by a word.
LEMMA PastIs ==
    ASSUME NEW t \in Seq(Chars), NEW from \in 1 .. Len(t) + 1, NEW close, Len(close) \in Nat \ {0}
    PROVE  /\ Past(t, from, close) \in from .. Len(t) + 1
           /\ \A j \in from .. Len(t) :
                Begins(t, j, close) /\ (\A k \in from .. j - 1 : ~Begins(t, k, close)) => Past(t, from, close) = j + Len(close)
           /\ (\A j \in from .. Len(t) : ~Begins(t, j, close)) => Past(t, from, close) = Len(t) + 1
<1> DEFINE ends == {j \in from .. Len(t) : Begins(t, j, close)}
<1>1. CASE ends = {}
  <2>1. Past(t, from, close) = Len(t) + 1 BY <1>1 DEF Past
  <2> QED BY <1>1, <2>1
<1>2. CASE ends # {}
  <2>1. Past(t, from, close) = Min(ends) + Len(close) BY <1>2 DEF Past
  <2>2. Min(ends) \in ends /\ \A y \in ends : Min(ends) <= y
    <3>1. ends \subseteq Nat OBVIOUS
    <3> HIDE DEF ends
    <3> QED BY <3>1, <1>2, LeastOf
  <2> DEFINE m == Min(ends)
  <2>3. m \in from .. Len(t) /\ Begins(t, m, close) BY <2>2
  <2>4. m + Len(close) <= Len(t) + 1
    <3> HIDE DEF m
    <3>1. m + Len(close) - 1 <= Len(t) BY <2>3 DEF Begins
    <3> QED BY <2>3, <3>1
  <2>5. \A j \in from .. Len(t) : Begins(t, j, close) /\ (\A k \in from .. j - 1 : ~Begins(t, k, close)) => m = j
    <3> TAKE j \in from .. Len(t)
    <3> HAVE Begins(t, j, close) /\ (\A k \in from .. j - 1 : ~Begins(t, k, close))
    <3>1. j \in ends OBVIOUS
    <3>2. m <= j BY <3>1, <2>2
    <3>3. ~(m < j) BY <2>3
    <3> HIDE DEF m
    <3> QED BY <3>2, <3>3, <2>3
  <2> HIDE DEF m
  <2>6. Past(t, from, close) = m + Len(close) BY <2>1 DEF m
  <2>7. \E j \in from .. Len(t) : Begins(t, j, close) BY <2>3
  <2> QED BY <2>3, <2>4, <2>5, <2>6, <2>7
<1> QED BY <1>1, <1>2

\* The end of a lexeme, by what it begins with.
LEMMA LexemeEndIs ==
    ASSUME NEW t \in Seq(Chars), NEW i \in 1 .. Len(t)
    PROVE  /\ t[i] \in {"'", "\""} => LexemeEnd(t, i) = Past(t, i + 1, <<t[i]>>)
           /\ Begins(t, i, <<"-", "-">>) => LexemeEnd(t, i) = Past(t, i + 2, <<NL>>)
           /\ Begins(t, i, <<"/", "*">>) => LexemeEnd(t, i) = Past(t, i + 2, <<"*", "/">>)
           /\ DollarQuoteTag(t, i) # <<>> =>
                LexemeEnd(t, i) = Past(t, i + Len(DollarQuoteTag(t, i)), DollarQuoteTag(t, i))
           /\ Identifier(t[i]) =>
                LexemeEnd(t, i) = Min({j \in i + 1 .. Len(t) : ~Identifier(t[j]) /\ t[j] # "$"} \cup {Len(t) + 1})
           /\ ~(\/ t[i] \in {"'", "\""} \/ Begins(t, i, <<"-", "-">>) \/ Begins(t, i, <<"/", "*">>)
                \/ DollarQuoteTag(t, i) # <<>> \/ Identifier(t[i])) => LexemeEnd(t, i) = i + 1
<1> DEFINE quote == DollarQuoteTag(t, i)
           A == Past(t, i + 1, <<t[i]>>)
           B == Past(t, i + 2, <<NL>>)
           C == Past(t, i + 2, <<"*", "/">>)
           D == Past(t, i + Len(quote), quote)
           E == Min({j \in i + 1 .. Len(t) : ~Identifier(t[j]) /\ t[j] # "$"} \cup {Len(t) + 1})
           c == t[i]
           b == Begins(t, i, <<"-", "-">>)
           k == Begins(t, i, <<"/", "*">>)
           q == quote # <<>>
           n == Identifier(t[i])
<1>1. LexemeEnd(t, i) = CASE c \in {"'", "\""} -> A [] b -> B [] k -> C [] q -> D [] n -> E [] OTHER -> i + 1
      BY DEF LexemeEnd
<1>2. (b => c = "-") /\ (k => c = "/") /\ (q => c = "$") /\ (n => c = "x") BY FirstOf
<1> HIDE DEF A, B, C, D, E, c, b, k, q, n
<1>3. /\ c \in {"'", "\""} => LexemeEnd(t, i) = A
      /\ b => LexemeEnd(t, i) = B
      /\ k => LexemeEnd(t, i) = C
      /\ q => LexemeEnd(t, i) = D
      /\ n => LexemeEnd(t, i) = E
      /\ ~(c \in {"'", "\""} \/ b \/ k \/ q \/ n) => LexemeEnd(t, i) = i + 1 BY <1>1, <1>2
<1> QED BY <1>3 DEF A, B, C, D, E, c, b, k, q, n

\* A lexeme has a character at least, and ends within the text.
LEMMA LexemeEndType ==
    ASSUME NEW t \in Seq(Chars), NEW i \in 1 .. Len(t) PROVE LexemeEnd(t, i) \in i + 1 .. Len(t) + 1
<1> DEFINE quote == DollarQuoteTag(t, i)
<1>0. ASSUME NEW f \in i + 1 .. Len(t) + 1, NEW w, Len(w) \in Nat \ {0}, LexemeEnd(t, i) = Past(t, f, w)
      PROVE  LexemeEnd(t, i) \in i + 1 .. Len(t) + 1
  <2>1. f \in 1 .. Len(t) + 1 OBVIOUS
  <2>2. Past(t, f, w) \in f .. Len(t) + 1 BY <2>1, <1>0, PastIs
  <2> QED BY <2>2, <1>0
<1>1. CASE t[i] \in {"'", "\""}
  <2> DEFINE w == <<t[i]>>
  <2>1. i + 1 \in i + 1 .. Len(t) + 1 /\ Len(w) \in Nat \ {0} OBVIOUS
  <2>2. LexemeEnd(t, i) = Past(t, i + 1, w) BY <1>1, LexemeEndIs
  <2> HIDE DEF w
  <2> QED BY <2>1, <2>2, <1>0
<1>2. CASE Begins(t, i, <<"-", "-">>)
  <2> DEFINE w == <<NL>>
  <2>1. i + 1 <= Len(t) BY <1>2, FirstOf
  <2>2. i + 2 \in i + 1 .. Len(t) + 1 /\ Len(w) \in Nat \ {0} BY <2>1
  <2>3. LexemeEnd(t, i) = Past(t, i + 2, w) BY <1>2, LexemeEndIs
  <2> HIDE DEF w
  <2> QED BY <2>2, <2>3, <1>0
<1>3. CASE Begins(t, i, <<"/", "*">>)
  <2> DEFINE w == <<"*", "/">>
  <2>1. i + 1 <= Len(t) BY <1>3, FirstOf
  <2>2. i + 2 \in i + 1 .. Len(t) + 1 /\ Len(w) \in Nat \ {0} BY <2>1
  <2>3. LexemeEnd(t, i) = Past(t, i + 2, w) BY <1>3, LexemeEndIs
  <2> HIDE DEF w
  <2> QED BY <2>2, <2>3, <1>0
<1>4. CASE quote # <<>>
  <2>1. Len(quote) \in 1 .. Len(t) + 1 - i BY <1>4, FirstOf
  <2>3. LexemeEnd(t, i) = Past(t, i + Len(quote), quote) BY <1>4, LexemeEndIs
  <2> HIDE DEF quote
  <2>4. i + Len(quote) \in i + 1 .. Len(t) + 1 /\ Len(quote) \in Nat \ {0} BY <2>1
  <2> QED BY <2>3, <2>4, <1>0
<1>5. CASE Identifier(t[i])
  <2> DEFINE ends == {j \in i + 1 .. Len(t) : ~Identifier(t[j]) /\ t[j] # "$"} \cup {Len(t) + 1}
  <2>1. ends \subseteq Nat /\ ends # {} /\ ends \subseteq i + 1 .. Len(t) + 1 OBVIOUS
  <2>2. LexemeEnd(t, i) = Min(ends) BY <1>5, LexemeEndIs
  <2> HIDE DEF ends
  <2>3. Min(ends) \in ends BY <2>1, LeastOf
  <2> QED BY <2>1, <2>2, <2>3
<1>6. CASE ~(\/ t[i] \in {"'", "\""} \/ Begins(t, i, <<"-", "-">>) \/ Begins(t, i, <<"/", "*">>)
             \/ quote # <<>> \/ Identifier(t[i]))
  <2>1. LexemeEnd(t, i) = i + 1 BY <1>6, LexemeEndIs
  <2> QED BY <2>1
<1> QED BY <1>1, <1>2, <1>3, <1>4, <1>5, <1>6

\* The lexemes of a text: they begin at the boundaries B, each where the one
\* before it ends.
Boundaries(t, B) ==
    /\ B \subseteq 1 .. Len(t) + 1 /\ 1 \in B
    /\ \A i \in B : i <= Len(t) => LexemeEnd(t, i) \in B /\ \A k \in B : k <= i \/ k >= LexemeEnd(t, i)
    /\ Lexemes(t) = {<<i, LexemeEnd(t, i) - 1>> : i \in B \ {Len(t) + 1}}

\* Every text falls into pieces in some way.
LEMMA BoundariesExist == ASSUME NEW t \in Seq(Chars) PROVE \E B : Boundaries(t, B)
<1> DEFINE n == Len(t)
           e == [i \in 1 .. n |-> LexemeEnd(t, i)]
           B == Onward(e, n, 1)
           Rest(F, i) == IF i > Len(t) THEN {} ELSE {<<i, LexemeEnd(t, i) - 1>>} \cup F[LexemeEnd(t, i)]
           From == CHOOSE F : F = [i \in 1 .. Len(t) + 1 |-> Rest(F, i)]
           Of(S) == {<<i, e[i] - 1>> : i \in S \ {n + 1}}
           G == [i \in 1 .. n + 1 |-> Of(Onward(e, n, i))]
<1>1. Lexemes(t) = From[1] BY DEF Lexemes
<1>2. n \in Nat OBVIOUS
<1>3. Steps(e, n)
  <2>1. \A i \in 1 .. n : LexemeEnd(t, i) \in i + 1 .. n + 1 BY LexemeEndType
  <2>2. \A i \in 1 .. n : e[i] \in 1 .. n + 1 /\ e[i] > i BY <1>2, <2>1
  <2>3. e \in [1 .. n -> 1 .. n + 1] BY <2>2
  <2> HIDE DEF e, n
  <2> QED BY <1>2, <2>2, <2>3 DEF Steps
<1>4. \A i \in 1 .. n : e[i] = LexemeEnd(t, i) /\ e[i] \in i + 1 .. n + 1
  <2> HIDE DEF n, B, From, Of, G
  <2>1. \A i \in 1 .. n : e[i] = LexemeEnd(t, i) OBVIOUS
  <2> USE DEF n
  <2> HIDE DEF e
  <2> QED BY <2>1, LexemeEndType
<1>5. \A i \in 1 .. n : G[i] = {<<i, e[i] - 1>>} \cup G[e[i]]
  <2> TAKE i \in 1 .. n
  <2>0. i \in 1 .. n + 1 BY <1>2
  <2>1. Onward(e, n, i) = {i} \cup Onward(e, n, e[i])
    <3> HIDE DEF e, n
    <3> QED BY <2>0, <1>3, OnwardIs
  <2>2. i # n + 1 /\ i \in 1 .. n + 1 /\ e[i] \in 1 .. n + 1 BY <1>2, <1>4
  <2>3. Of({i} \cup Onward(e, n, e[i])) = {<<i, e[i] - 1>>} \cup Of(Onward(e, n, e[i]))
    <3> HIDE DEF e, n
    <3> QED BY <2>2
  <2> HIDE DEF e, n, Of
  <2> QED BY <2>1, <2>2, <2>3
<1>6. G[n + 1] = {}
  <2>2. n + 1 \in 1 .. n + 1 BY <1>2
  <2>1. Onward(e, n, n + 1) = {n + 1}
    <3> HIDE DEF e, n
    <3> QED BY <2>2, <1>3, OnwardIs
  <2> HIDE DEF e, n
  <2> QED BY <2>1, <2>2
<1> HIDE DEF e, B, G, Of
<1>7. G = [i \in 1 .. Len(t) + 1 |-> Rest(G, i)]
  <2>1. ASSUME NEW i \in 1 .. n + 1 PROVE G[i] = Rest(G, i)
    <3>1. CASE i \in 1 .. n
      <4>1. ~(i > Len(t)) BY <3>1, <1>2
      <4>2. Rest(G, i) = {<<i, LexemeEnd(t, i) - 1>>} \cup G[LexemeEnd(t, i)] BY <4>1
      <4>3. e[i] = LexemeEnd(t, i) /\ G[i] = {<<i, e[i] - 1>>} \cup G[e[i]] BY <3>1, <1>4, <1>5
      <4> HIDE DEF Rest
      <4> QED BY <4>2, <4>3
    <3>2. CASE i = n + 1 BY <3>2, <1>2, <1>6
    <3> QED BY <3>1, <3>2
  <2>2. G = [i \in 1 .. n + 1 |-> G[i]] BY DEF G
  <2> HIDE DEF Rest
  <2> QED BY <2>1, <2>2
<1>8. From = [i \in 1 .. Len(t) + 1 |-> Rest(From, i)]
  <2> HIDE DEF Rest
  <2> QED BY <1>7
<1>9. \A i \in 1 .. n + 1 : From[i] = G[i]
  <2> HIDE DEF From
  <2>0. \A i \in 1 .. n + 1 : From[i] = Rest(From, i) /\ G[i] = Rest(G, i)
    <3> HIDE DEF Rest
    <3> QED BY <1>7, <1>8
  <2> DEFINE S == {k \in Nat : \A i \in 1 .. n + 1 : i >= n + 1 - k => From[i] = G[i]}
  <2>1. 0 \in S
    <3>1. \A i \in 1 .. n + 1 : i >= n + 1 - 0 => i = n + 1 /\ i > Len(t) BY <1>2
    <3>2. \A i \in 1 .. n + 1 : i > Len(t) => Rest(From, i) = {} /\ Rest(G, i) = {} OBVIOUS
    <3>3. \A i \in 1 .. n + 1 : i >= n + 1 - 0 => From[i] = G[i]
      <4> HIDE DEF Rest
      <4> QED BY <2>0, <3>1, <3>2
    <3> QED BY <3>3
  <2>2. ASSUME NEW k \in Nat, k \in S PROVE k + 1 \in S
    <3>1. ASSUME NEW i \in 1 .. n + 1, i >= n + 1 - (k + 1) PROVE From[i] = G[i]
      <4>1. CASE i >= n + 1 - k BY <4>1, <2>2, <1>2
      <4>2. CASE i = n - k /\ i \in 1 .. n
        <5>1. LexemeEnd(t, i) \in 1 .. n + 1 /\ LexemeEnd(t, i) >= n + 1 - k
          <6> DEFINE x == LexemeEnd(t, i)
          <6>1. x \in i + 1 .. n + 1 BY <4>2, <1>4
          <6> HIDE DEF x, n, S
          <6>2. x \in Nat /\ x >= i + 1 /\ x <= n + 1 BY <6>1, <4>2, <1>2
          <6>3. x \in 1 .. n + 1 /\ x >= n + 1 - k BY <6>2, <4>2, <1>2
          <6> QED BY <6>3 DEF x
        <5>2. From[LexemeEnd(t, i)] = G[LexemeEnd(t, i)] BY <5>1, <2>2
        <5> QED BY <5>2, <2>0, <4>2
      <4> QED BY <3>1, <4>1, <4>2
    <3> QED BY <3>1
  <2>3. Nat \subseteq S
    <3> HIDE DEF S
    <3> QED BY <2>1, <2>2, NatSetInduction
  <2>4. n \in S BY <1>2, <2>3
  <2> QED BY <2>4
<1>10. Lexemes(t) = Of(B) BY <1>1, <1>2, <1>9 DEF G, B
<1>11. B \subseteq 1 .. n + 1 /\ 1 \in B /\ Closed(e, n, B) BY <1>2, <1>3, OnwardIs DEF B
<1>12. ASSUME NEW i \in B, i <= n PROVE e[i] = LexemeEnd(t, i) /\ e[i] \in B /\ \A k \in B : k <= i \/ k >= e[i]
  <2>1. i \in 1 .. n BY <1>11, <1>12, <1>2
  <2>2. e[i] = LexemeEnd(t, i) /\ e[i] \in B BY <2>1, <1>4, <1>11 DEF Closed
  <2>3. \A k \in B : k <= i \/ k >= e[i] BY <2>1, <1>2, <1>3, OnwardSpans DEF B
  <2> QED BY <2>2, <2>3
<1>13. Of(B) = {<<i, LexemeEnd(t, i) - 1>> : i \in B \ {n + 1}}
  <2>1. \A i \in B \ {n + 1} : e[i] = LexemeEnd(t, i) BY <1>2, <1>4, <1>11
  <2> HIDE DEF n
  <2> QED BY <2>1 DEF Of
<1> QED BY <1>10, <1>11, <1>12, <1>13 DEF Boundaries
-----------------------------------------------------------------------------
(* The cuts of a text.                                                     *)

Ascending(c) == \A i, j \in 1 .. Len(c) : i < j => c[i] < c[j]
Cuts(t) == {i \in DOMAIN t : t[i] = ";" /\ <<i, i>> \in Lexemes(t)}

\* As many elements as places.
LEMMA AscendingCount ==
    ASSUME NEW c \in Seq(Nat), Ascending(c), NEW k \in 0 .. Len(c)
    PROVE  IsFiniteSet({c[i] : i \in 1 .. k}) /\ Cardinality({c[i] : i \in 1 .. k}) = k
<1> DEFINE A(m) == {c[i] : i \in 1 .. m}
           S == {m \in Nat : m <= Len(c) => IsFiniteSet(A(m)) /\ Cardinality(A(m)) = m}
<1>1. 0 \in S
  <2>1. A(0) = {} OBVIOUS
  <2> HIDE DEF A
  <2> QED BY <2>1, FS_EmptySet
<1>2. ASSUME NEW m \in Nat, m \in S PROVE m + 1 \in S
  <2>1. SUFFICES ASSUME m + 1 <= Len(c) PROVE IsFiniteSet(A(m + 1)) /\ Cardinality(A(m + 1)) = m + 1 OBVIOUS
  <2>2. IsFiniteSet(A(m)) /\ Cardinality(A(m)) = m BY <2>1, <1>2
  <2>3. A(m + 1) = A(m) \cup {c[m + 1]}
    <3>1. 1 .. m + 1 = (1 .. m) \cup {m + 1} OBVIOUS
    <3> QED BY <3>1
  <2>4. c[m + 1] \notin A(m)
    <3>1. \A i \in 1 .. m : c[i] < c[m + 1] /\ c[i] \in Nat BY <2>1 DEF Ascending
    <3> QED BY <3>1
  <2> HIDE DEF A
  <2>5. IsFiniteSet(A(m) \cup {c[m + 1]}) /\ Cardinality(A(m) \cup {c[m + 1]}) = Cardinality(A(m)) + 1
        BY <2>2, <2>4, FS_AddElement
  <2> QED BY <2>2, <2>3, <2>5
<1>3. Nat \subseteq S
  <2> HIDE DEF S
  <2> QED BY <1>1, <1>2, NatSetInduction
<1>4. k \in S /\ k <= Len(c)
  <2>1. k \in Nat /\ k <= Len(c) OBVIOUS
  <2> HIDE DEF S
  <2> QED BY <2>1, <1>3
<1>5. IsFiniteSet(A(k)) /\ Cardinality(A(k)) = k
  <2> HIDE DEF A
  <2> QED BY <1>4
<1> QED BY <1>5

\* The stretches between the cuts.
LEMMA StretchesAre ==
    ASSUME NEW t \in Seq(Chars), NEW c \in Seq(Nat), Ascending(c), Range(c) = {0, Len(t) + 1} \cup Cuts(t)
    PROVE  Stretches(t) = [k \in 1 .. Len(c) - 1 |-> SubSeq(t, c[k] + 1, c[k + 1] - 1)]
<1> DEFINE cuts == {0, Len(t) + 1} \cup Cuts(t)
           n == Len(c)
           Nth(k) == CHOOSE x \in cuts : Cardinality({d \in cuts : d < x}) = k - 1
<1>1. Stretches(t) = [k \in 1 .. Cardinality(cuts) - 1 |->
                        SubSeq(t, Nth(k) + 1, Min({x \in cuts : x > Nth(k)}) - 1)] BY DEF Stretches, Cuts
<1>2. n \in Nat /\ cuts = {c[i] : i \in 1 .. n} /\ \A i \in 1 .. n : c[i] \in Nat /\ c[i] \in cuts
  <2>1. cuts = Range(c) OBVIOUS
  <2>2. Range(c) = {c[i] : i \in 1 .. n} BY DEF Range
  <2>3. n \in Nat /\ \A i \in 1 .. n : c[i] \in Nat OBVIOUS
  <2> HIDE DEF cuts, n
  <2> QED BY <2>1, <2>2, <2>3
<1>3. Cardinality(cuts) = n
  <2>1. n \in 0 .. Len(c) BY <1>2
  <2> HIDE DEF cuts, n
  <2> QED BY <1>2, <2>1, AscendingCount
<1>4. ASSUME NEW k \in 1 .. n PROVE {d \in cuts : d < c[k]} = {c[i] : i \in 1 .. k - 1}
  <2>1. \A i \in 1 .. n : c[i] < c[k] <=> i \in 1 .. k - 1
    <3> TAKE i \in 1 .. n
    <3>1. CASE i < k BY <3>1, <1>4 DEF Ascending
    <3>2. CASE i = k BY <3>2, <1>2, <1>4
    <3>3. CASE i > k
      <4>1. c[k] < c[i] BY <3>3, <1>4 DEF Ascending
      <4> QED BY <4>1, <3>3, <1>2, <1>4
    <3> QED BY <3>1, <3>2, <3>3, <1>4
  <2>2. \A i \in 1 .. k - 1 : i \in 1 .. n BY <1>4
  <2> HIDE DEF cuts
  <2> QED BY <2>1, <2>2, <1>2
<1>5. ASSUME NEW k \in 1 .. n PROVE Cardinality({d \in cuts : d < c[k]}) = k - 1
  <2>1. k - 1 \in 0 .. n BY <1>5
  <2> HIDE DEF cuts
  <2> QED BY <2>1, <1>4, AscendingCount
<1> HIDE DEF cuts, n
<1>6. ASSUME NEW k \in 1 .. n - 1 PROVE Nth(k) = c[k] /\ Min({x \in cuts : x > Nth(k)}) = c[k + 1]
  <2>1. k \in 1 .. n /\ k + 1 \in 1 .. n BY <1>2
  <2>2. c[k] \in cuts /\ Cardinality({d \in cuts : d < c[k]}) = k - 1 BY <1>2, <1>5, <2>1
  <2>3. Nth(k) \in cuts /\ Cardinality({d \in cuts : d < Nth(k)}) = k - 1
    <3> DEFINE At1(x) == Cardinality({d \in cuts : d < x}) = k - 1
    <3>1. \E x \in cuts : At1(x)
      <4>1. At1(c[k]) BY <2>2
      <4> HIDE DEF At1
      <4> QED BY <4>1, <2>2
    <3>2. Nth(k) = CHOOSE x \in cuts : At1(x) OBVIOUS
    <3>3. Nth(k) \in cuts /\ At1(Nth(k))
      <4> HIDE DEF At1, Nth
      <4> QED BY <3>1, <3>2
    <3> HIDE DEF Nth
    <3> QED BY <3>3
  <2> HIDE DEF Nth
  <2>4. PICK m \in 1 .. n : Nth(k) = c[m] BY <2>3, <1>2
  <2>5. m - 1 = k - 1 BY <2>3, <2>4, <1>5
  <2>6. Nth(k) = c[k]
    <3>1. m = k BY <2>1, <2>5, <1>2
    <3> QED BY <2>4, <3>1
  <2> DEFINE above == {x \in cuts : x > c[k]}
  <2>7. c[k + 1] \in above /\ \A x \in above : c[k + 1] <= x
    <3>1. c[k + 1] > c[k]
      <4>1. k < k + 1 /\ n = Len(c) BY <1>2, <2>1 DEF n
      <4>2. c[k] < c[k + 1] BY <2>1, <4>1 DEF Ascending
      <4> QED BY <2>1, <1>2, <4>2
    <3>2. ASSUME NEW i \in 1 .. n, c[i] > c[k] PROVE c[k + 1] <= c[i]
      <4>0. Len(c) = n /\ c[i] \in Nat /\ c[k] \in Nat BY <1>2, <2>1 DEF n
      <4>1. ~(i <= k)
        <5>1. ASSUME i < k PROVE FALSE
          <6>1. c[i] < c[k] BY <5>1, <4>0, <2>1 DEF Ascending
          <6> QED BY <6>1, <3>2, <4>0
        <5>2. i # k BY <3>2, <4>0
        <5> QED BY <5>1, <5>2, <2>1, <1>2
      <4>2. CASE i = k + 1 BY <4>2, <1>2
      <4>3. CASE i > k + 1
        <5>1. c[k + 1] < c[i] BY <4>3, <4>0, <2>1 DEF Ascending
        <5> QED BY <5>1, <1>2, <2>1
      <4> QED BY <4>1, <4>2, <4>3, <1>2, <2>1
    <3> QED BY <3>1, <3>2, <1>2, <2>1
  <2>8. Min(above) = c[k + 1]
    <3>1. above \subseteq Nat /\ above # {} BY <2>7, <1>2
    <3>2. c[k + 1] \in Nat BY <1>2, <2>1
    <3> HIDE DEF above
    <3>3. Min(above) \in above /\ Min(above) <= c[k + 1] BY <3>1, <2>7, LeastOf
    <3>4. c[k + 1] <= Min(above) /\ Min(above) \in Nat BY <3>1, <3>3, <2>7
    <3> QED BY <3>2, <3>3, <3>4
  <2> QED BY <2>6, <2>8
<1> HIDE DEF Nth
<1>7. \A k \in 1 .. n - 1 : SubSeq(t, Nth(k) + 1, Min({x \in cuts : x > Nth(k)}) - 1) = SubSeq(t, c[k] + 1, c[k + 1] - 1)
      BY <1>6
<1> QED BY <1>1, <1>3, <1>7 DEF n

\* A cut is a semicolon at a boundary.
LEMMA CutsAt ==
    ASSUME NEW t \in Seq(Chars), NEW B, Boundaries(t, B), NEW i \in 1 .. Len(t)
    PROVE  i \in Cuts(t) <=> i \in B /\ t[i] = ";"
<1>1. Lexemes(t) = {<<j, LexemeEnd(t, j) - 1>> : j \in B \ {Len(t) + 1}} BY DEF Boundaries
<1>2. i \in Cuts(t) => i \in B /\ t[i] = ";" BY <1>1 DEF Cuts
<1>3. ASSUME i \in B, t[i] = ";" PROVE i \in Cuts(t)
  <2>1. LexemeEnd(t, i) = i + 1 BY <1>3, FirstOf, LexemeEndIs
  <2>0. i # Len(t) + 1 OBVIOUS
  <2>2. i \in B \ {Len(t) + 1} BY <1>3, <2>0
  <2>3. <<i, LexemeEnd(t, i) - 1>> \in Lexemes(t) BY <1>1, <2>2
  <2>4. LexemeEnd(t, i) - 1 = i BY <2>1
  <2>5. <<i, i>> \in Lexemes(t) BY <2>3, <2>4
  <2>6. i \in DOMAIN t OBVIOUS
  <2> QED BY <2>5, <2>6, <1>3 DEF Cuts
<1> QED BY <1>2, <1>3
-----------------------------------------------------------------------------
(* What TrimSpace and StripLeadingComments leave of a text.                *)

\* A set of numbers up to n has a greatest one.
LEMMA GreatestOf ==
    ASSUME NEW n \in Nat, NEW S, S \subseteq 1 .. n, S # {}
    PROVE  Max(S) \in S /\ \A y \in S : y <= Max(S)
<1> DEFINE D == {k \in Nat : n - k \in S}
<1>1. D # {}
  <2>1. PICK y \in S : TRUE OBVIOUS
  <2>2. n - y \in Nat /\ n - (n - y) = y BY <2>1
  <2> QED BY <2>1, <2>2
<1>2. Min(D) \in D /\ \A k \in D : Min(D) <= k
  <2>1. D \subseteq Nat OBVIOUS
  <2> HIDE DEF D
  <2> QED BY <1>1, <2>1, LeastOf
<1> DEFINE m == n - Min(D)
<1>3. m \in S /\ Min(D) \in Nat BY <1>2
<1>4. ASSUME NEW y \in S PROVE y <= m
  <2>1. n - y \in Nat /\ n - (n - y) = y OBVIOUS
  <2>2. n - y \in D BY <2>1
  <2>3. Min(D) <= n - y BY <1>2, <2>2
  <2> HIDE DEF D
  <2> QED BY <2>3, <1>3
<1> HIDE DEF m
<1>5. \E x \in S : \A y \in S : x >= y BY <1>3, <1>4
<1> QED BY <1>5 DEF Max

\* A stretch of a text.
LEMMA StretchIs ==
    ASSUME NEW t \in Seq(Chars), NEW l \in 1 .. Len(t) + 1, NEW r \in l - 1 .. Len(t)
    PROVE  /\ SubSeq(t, l, r) \in Seq(Chars) /\ Len(SubSeq(t, l, r)) = r - l + 1
           /\ \A i \in 1 .. r - l + 1 : SubSeq(t, l, r)[i] = t[l + i - 1]
<1>1. r - l + 1 \in Nat /\ \A i \in l .. r : i \in 1 .. Len(t) OBVIOUS
<1>2. /\ Len(SubSeq(t, l, r)) = IF l <= r THEN r - l + 1 ELSE 0
      /\ \A i \in 1 .. r - l + 1 : SubSeq(t, l, r)[i] = t[l + i - 1] BY SubSeqProperties
<1>3. SubSeq(t, l, r) \in Seq(Chars) BY SubSeqProperties
<1> QED BY <1>1, <1>2, <1>3

\* TrimSpace takes the blanks off both ends.
LEMMA TrimIs ==
    ASSUME NEW t \in Seq(Chars)
    PROVE  /\ (\A i \in 1 .. Len(t) : t[i] \in Blanks) => TrimSpace(t) = <<>>
           /\ \A l, r \in 1 .. Len(t) :
                /\ t[l] \notin Blanks /\ t[r] \notin Blanks
                /\ \A i \in 1 .. Len(t) : i < l \/ i > r => t[i] \in Blanks
                => TrimSpace(t) = SubSeq(t, l, r)
<1> DEFINE solid == {i \in DOMAIN t : t[i] \notin Blanks}
<1>1. TrimSpace(t) = IF solid = {} THEN <<>> ELSE SubSeq(t, Min(solid), Max(solid)) BY DEF TrimSpace
<1>2. (\A i \in 1 .. Len(t) : t[i] \in Blanks) => solid = {} OBVIOUS
<1>3. ASSUME NEW l \in 1 .. Len(t), NEW r \in 1 .. Len(t), t[l] \notin Blanks, t[r] \notin Blanks,
             \A i \in 1 .. Len(t) : i < l \/ i > r => t[i] \in Blanks
      PROVE  TrimSpace(t) = SubSeq(t, l, r)
  <2>1. /\ l \in solid /\ r \in solid /\ solid \subseteq 1 .. Len(t) /\ solid \subseteq Nat
        /\ \A y \in solid : l <= y /\ y <= r BY <1>3
  <2> HIDE DEF solid
  <2>2. Min(solid) \in solid /\ \A y \in solid : Min(solid) <= y BY <2>1, LeastOf
  <2>3. Max(solid) \in solid /\ \A y \in solid : y <= Max(solid)
    <3>1. Len(t) \in Nat OBVIOUS
    <3> QED BY <2>1, <3>1, GreatestOf
  <2>4. Min(solid) <= l /\ l <= Min(solid) /\ Max(solid) <= r /\ r <= Max(solid) BY <2>1, <2>2, <2>3
  <2> DEFINE a == Min(solid)
             b == Max(solid)
  <2>5. a \in Nat /\ b \in Nat /\ l \in Nat /\ r \in Nat BY <2>1, <2>2, <2>3
  <2>6. a = l /\ b = r
    <3>1. a <= l /\ l <= a /\ b <= r /\ r <= b BY <2>4
    <3> HIDE DEF a, b
    <3> QED BY <3>1, <2>5
  <2> QED BY <1>1, <2>1, <2>6
<1> QED BY <1>1, <1>2, <1>3

\* What has been trimmed.
Trimmed(u) == u # <<>> => u[1] \notin Blanks /\ u[Len(u)] \notin Blanks

\* TrimSpace leaves a text with no blank at either end, and a trimmed text as
\* it is.
LEMMA TrimTrimmed ==
    ASSUME NEW t \in Seq(Chars)
    PROVE  TrimSpace(t) \in Seq(Chars) /\ Trimmed(TrimSpace(t)) /\ (Trimmed(t) => TrimSpace(t) = t)
<1> DEFINE n == Len(t)
<1>1. CASE \A i \in 1 .. n : t[i] \in Blanks
  <2>1. TrimSpace(t) = <<>> BY <1>1, TrimIs
  <2>2. Trimmed(t) => t = <<>>
    <3>1. t # <<>> => 1 \in 1 .. n OBVIOUS
    <3> QED BY <1>1, <3>1 DEF Trimmed
  <2> QED BY <2>1, <2>2 DEF Trimmed
<1>2. CASE \E i \in 1 .. n : t[i] \notin Blanks
  <2> DEFINE solid == {i \in DOMAIN t : t[i] \notin Blanks}
             l == Min(solid)
             r == Max(solid)
  <2>1. solid # {} /\ solid \subseteq 1 .. n /\ solid \subseteq Nat /\ n \in Nat BY <1>2
  <2>2. l \in solid /\ (\A y \in solid : l <= y) /\ r \in solid /\ \A y \in solid : y <= r
    <3> HIDE DEF solid, n
    <3> QED BY <2>1, LeastOf, GreatestOf
  <2>3. l \in 1 .. n /\ r \in 1 .. n /\ t[l] \notin Blanks /\ t[r] \notin Blanks /\ l <= r BY <2>2
  <2> HIDE DEF l, r
  <2>4. \A i \in 1 .. n : i < l \/ i > r => t[i] \in Blanks
    <3>1. SUFFICES ASSUME NEW i \in 1 .. n, t[i] \notin Blanks PROVE ~(i < l) /\ ~(i > r) OBVIOUS
    <3>2. i \in solid BY <3>1
    <3> HIDE DEF solid
    <3> QED BY <3>2, <2>2, <2>3
  <2> DEFINE u == SubSeq(t, l, r)
  <2>5. TrimSpace(t) = u BY <2>3, <2>4, TrimIs
  <2>6. u \in Seq(Chars) /\ Len(u) = r - l + 1 /\ \A i \in 1 .. r - l + 1 : u[i] = t[l + i - 1]
    <3>1. l \in 1 .. Len(t) + 1 /\ r \in l - 1 .. Len(t) BY <2>3
    <3> QED BY <3>1, StretchIs
  <2>7. 1 \in 1 .. r - l + 1 /\ r - l + 1 \in 1 .. r - l + 1 /\ l + 1 - 1 = l /\ l + (r - l + 1) - 1 = r BY <2>3
  <2>8. Trimmed(u)
    <3> HIDE DEF u
    <3> QED BY <2>3, <2>6, <2>7 DEF Trimmed
  <2>9. ASSUME Trimmed(t) PROVE TrimSpace(t) = t
    <3>1. t # <<>> /\ 1 \in 1 .. n /\ n \in 1 .. n BY <2>3
    <3>2. t[1] \notin Blanks /\ t[n] \notin Blanks BY <2>9, <3>1 DEF Trimmed
    <3>3. TrimSpace(t) = SubSeq(t, 1, n) BY <3>1, <3>2, TrimIs
    <3>4. SubSeq(t, 1, n) = t OBVIOUS
    <3> QED BY <3>3, <3>4
  <2> HIDE DEF u
  <2> QED BY <2>5, <2>6, <2>8, <2>9
<1> QED BY <1>1, <1>2

\* The first solid character from position i on, or the end.
Solid(t, i) == Min({j \in i .. Len(t) : t[j] \notin Blanks} \cup {Len(t) + 1})

\* Solid is the first position from i on that is no blank, or the one past the
\* end.
LEMMA SolidIs ==
    ASSUME NEW t \in Seq(Chars), NEW i \in 1 .. Len(t) + 1
    PROVE  /\ Solid(t, i) \in i .. Len(t) + 1
           /\ \A j \in i .. Solid(t, i) - 1 : j \in 1 .. Len(t) /\ t[j] \in Blanks
           /\ Solid(t, i) # Len(t) + 1 => t[Solid(t, i)] \notin Blanks
<1> DEFINE S == {j \in i .. Len(t) : t[j] \notin Blanks} \cup {Len(t) + 1}
<1>1. S \subseteq i .. Len(t) + 1 /\ S \subseteq Nat /\ S # {} OBVIOUS
<1>2. Min(S) \in S /\ \A y \in S : Min(S) <= y
  <2> HIDE DEF S
  <2> QED BY <1>1, LeastOf
<1> DEFINE m == Min(S)
<1>3. m # Len(t) + 1 => t[m] \notin Blanks BY <1>2
<1>4. ASSUME NEW j \in i .. m - 1 PROVE j \in 1 .. Len(t) /\ t[j] \in Blanks
  <2>0. m \in i .. Len(t) + 1 BY <1>1, <1>2
  <2> HIDE DEF m
  <2>1. j \in i .. Len(t) /\ j \in 1 .. Len(t) /\ j < m BY <2>0, <1>4
  <2>2. t[j] \notin Blanks => j \in S BY <2>1
  <2>3. j \in S => m <= j BY <1>2 DEF m
  <2> HIDE DEF S
  <2>4. m <= j => FALSE BY <2>0, <2>1
  <2> QED BY <2>1, <2>2, <2>3, <2>4
<1>5. Solid(t, i) = m BY DEF Solid
<1> HIDE DEF m
<1> QED BY <1>1, <1>2, <1>3, <1>4, <1>5 DEF m

\* The end of a trimmed text, trimmed.
LEMMA TrimEnd ==
    ASSUME NEW t \in Seq(Chars), Trimmed(t), NEW i \in 1 .. Len(t) + 1
    PROVE  TrimSpace(SubSeq(t, i, Len(t))) = SubSeq(t, Solid(t, i), Len(t))
<1> DEFINE n == Len(t)
           u == SubSeq(t, i, n)
           m == Solid(t, i)
<1>n. n \in Nat OBVIOUS
<1>1. u \in Seq(Chars) /\ Len(u) = n - i + 1 /\ \A k \in 1 .. n - i + 1 : u[k] = t[i + k - 1]
  <2>1. n \in i - 1 .. Len(t) BY <1>n
  <2> QED BY <2>1, StretchIs
<1>2. /\ m \in i .. n + 1 /\ \A j \in i .. m - 1 : j \in 1 .. n /\ t[j] \in Blanks
      /\ m # n + 1 => t[m] \notin Blanks BY SolidIs
<1>3. CASE m = n + 1
  <2>1. \A k \in 1 .. Len(u) : u[k] \in Blanks
    <3> TAKE k \in 1 .. Len(u)
    <3>1. i + k - 1 \in i .. m - 1 /\ k \in 1 .. n - i + 1 BY <1>n, <1>1, <1>3
    <3> HIDE DEF u, m
    <3> QED BY <1>1, <1>2, <3>1
  <2>2. TrimSpace(u) = <<>>
    <3> HIDE DEF u
    <3> QED BY <2>1, <1>1, TrimIs
  <2>3. SubSeq(t, n + 1, n) = <<>> OBVIOUS
  <2> QED BY <2>2, <2>3, <1>3
<1>4. CASE m # n + 1
  <2>1. m \in i .. n /\ t # <<>> /\ t[n] \notin Blanks
    <3>1. m \in i .. n BY <1>4, <1>2, <1>n
    <3>2. t # <<>> BY <3>1
    <3> QED BY <3>1, <3>2 DEF Trimmed
  <2> DEFINE l == m - i + 1
             r == n - i + 1
  <2> HIDE DEF m
  <2>2. l \in 1 .. Len(u) /\ r \in 1 .. Len(u) /\ i + l - 1 = m /\ i + r - 1 = n BY <2>1, <1>1, <1>n
  <2>3. u[l] = t[m] /\ u[r] = t[n]
    <3>1. l \in 1 .. n - i + 1 /\ r \in 1 .. n - i + 1 BY <2>2, <1>1
    <3> HIDE DEF u, l, r
    <3> QED BY <3>1, <2>2, <1>1
  <2>4. \A k \in 1 .. Len(u) : k < l \/ k > r => u[k] \in Blanks
    <3> TAKE k \in 1 .. Len(u)
    <3>1. ~(k > r) /\ k \in 1 .. n - i + 1 BY <1>1
    <3>2. k < l => i + k - 1 \in i .. m - 1 BY <2>1, <1>n
    <3> HIDE DEF u, l, r
    <3> QED BY <3>1, <3>2, <1>1, <1>2
  <2>5. TrimSpace(u) = SubSeq(u, l, r)
    <3>1. u[l] \notin Blanks /\ u[r] \notin Blanks BY <2>1, <2>3, <1>2, <1>4
    <3> HIDE DEF u, l, r
    <3> QED BY <3>1, <2>2, <2>4, <1>1, TrimIs
  <2>6. SubSeq(u, l, r) = SubSeq(t, m, n)
    <3>1. /\ SubSeq(u, l, r) \in Seq(Chars) /\ Len(SubSeq(u, l, r)) = r - l + 1
          /\ \A k \in 1 .. r - l + 1 : SubSeq(u, l, r)[k] = u[l + k - 1]
      <4>1. l \in 1 .. Len(u) + 1 /\ r \in l - 1 .. Len(u) BY <2>1, <2>2, <1>n
      <4> HIDE DEF u, l, r
      <4> QED BY <4>1, <1>1, StretchIs
    <3>2. /\ SubSeq(t, m, n) \in Seq(Chars) /\ Len(SubSeq(t, m, n)) = n - m + 1
          /\ \A k \in 1 .. n - m + 1 : SubSeq(t, m, n)[k] = t[m + k - 1]
      <4>1. m \in 1 .. Len(t) + 1 /\ n \in m - 1 .. Len(t) BY <2>1, <1>n
      <4> QED BY <4>1, StretchIs
    <3>3. r - l + 1 = n - m + 1 BY <2>1, <1>n
    <3>4. ASSUME NEW k \in 1 .. n - m + 1 PROVE u[l + k - 1] = t[m + k - 1]
      <4>1. l + k - 1 \in 1 .. n - i + 1 /\ i + (l + k - 1) - 1 = m + k - 1 BY <2>1, <1>n
      <4> HIDE DEF u, l
      <4> QED BY <4>1, <1>1
    <3> DEFINE a == SubSeq(u, l, r)
               b == SubSeq(t, m, n)
    <3>5. a \in Seq(Chars) /\ b \in Seq(Chars) /\ Len(a) = Len(b) /\ \A k \in 1 .. Len(a) : a[k] = b[k]
      <4>1. Len(a) = n - m + 1 /\ Len(b) = n - m + 1 BY <3>1, <3>2, <3>3
      <4>2. \A k \in 1 .. n - m + 1 : a[k] = b[k] BY <3>1, <3>2, <3>3, <3>4
      <4> HIDE DEF a, b
      <4> QED BY <3>1, <3>2, <4>1, <4>2 DEF a, b
    <3> HIDE DEF a, b
    <3>6. a = b BY <3>5
    <3> QED BY <3>6 DEF a, b
  <2> QED BY <2>5, <2>6 DEF m
<1> QED BY <1>3, <1>4
\* Two characters that stand one after the other.
LEMMA BeginsIs ==
    ASSUME NEW t \in Seq(Chars), NEW i \in 1 .. Len(t) + 1, NEW a, NEW b
    PROVE  Begins(t, i, <<a, b>>) <=> i + 1 <= Len(t) /\ t[i] = a /\ t[i + 1] = b
<1> DEFINE s == SubSeq(t, i, i + 1)
<1>1. Begins(t, i, <<a, b>>) <=> i + 1 <= Len(t) /\ s = <<a, b>>
  <2>1. Len(<<a, b>>) = 2 /\ i + 2 - 1 = i + 1 OBVIOUS
  <2> QED BY <2>1 DEF Begins
<1>2. ASSUME i + 1 <= Len(t) PROVE s \in Seq(Chars) /\ Len(s) = 2 /\ s[1] = t[i] /\ s[2] = t[i + 1]
  <2>1. i + 1 \in i - 1 .. Len(t) BY <1>2
  <2>2. s \in Seq(Chars) /\ Len(s) = i + 1 - i + 1 /\ \A k \in 1 .. i + 1 - i + 1 : s[k] = t[i + k - 1]
        BY <2>1, StretchIs
  <2>3. i + 1 - i + 1 = 2 /\ i + 1 - 1 = i /\ i + 2 - 1 = i + 1 OBVIOUS
  <2> HIDE DEF s
  <2>4. 1 \in 1 .. i + 1 - i + 1 /\ 2 \in 1 .. i + 1 - i + 1 BY <2>3
  <2>5. s[1] = t[i + 1 - 1] /\ s[2] = t[i + 2 - 1] BY <2>2, <2>4
  <2> QED BY <2>2, <2>3, <2>5
<1>3. ASSUME i + 1 <= Len(t) PROVE s = <<a, b>> <=> t[i] = a /\ t[i + 1] = b
  <2> HIDE DEF s
  <2> QED BY <1>2, <1>3
<1> HIDE DEF s
<1> QED BY <1>1, <1>3

\* Where StripLeadingComments goes on from a comment at position i.
NextLine(t, i) ==
    LET nl == {j \in i .. Len(t) : t[j] = NL} IN IF nl = {} THEN Len(t) + 1 ELSE Solid(t, Min(nl) + 1)
Lines(t) == [i \in 1 .. Len(t) |-> NextLine(t, i)]

\* NextLine is where the text goes on after the line end that follows i.
LEMMA NextLineIs ==
    ASSUME NEW t \in Seq(Chars), NEW i \in 1 .. Len(t)
    PROVE  \/ NextLine(t, i) = Len(t) + 1 /\ \A j \in i .. Len(t) : t[j] # NL
           \/ \E m \in i .. Len(t) : /\ t[m] = NL /\ (\A j \in i .. m - 1 : t[j] # NL)
                                     /\ NextLine(t, i) = Solid(t, m + 1) /\ m + 1 \in 1 .. Len(t) + 1
<1> DEFINE nl == {j \in i .. Len(t) : t[j] = NL}
<1>1. CASE nl = {}
  <2>1. NextLine(t, i) = Len(t) + 1 BY <1>1 DEF NextLine
  <2> QED BY <1>1, <2>1
<1>2. CASE nl # {}
  <2> DEFINE m == Min(nl)
  <2>1. m \in nl /\ \A y \in nl : m <= y
    <3>1. nl \subseteq Nat OBVIOUS
    <3> HIDE DEF nl
    <3> QED BY <1>2, <3>1, LeastOf
  <2>2. NextLine(t, i) = Solid(t, m + 1) BY <1>2 DEF NextLine
  <2>3. m \in i .. Len(t) /\ t[m] = NL BY <2>1
  <2>4. ASSUME NEW j \in i .. m - 1 PROVE t[j] # NL
    <3> HIDE DEF m
    <3>1. j \in i .. Len(t) /\ ~(m <= j) BY <2>3, <2>4
    <3> QED BY <3>1, <2>1
  <2> HIDE DEF m
  <2>5. m + 1 \in 1 .. Len(t) + 1 BY <2>3
  <2> QED BY <2>2, <2>3, <2>4, <2>5
<1> QED BY <1>1, <1>2

\* The lines of a text follow each other to its end.
LEMMA LinesStep == ASSUME NEW t \in Seq(Chars) PROVE Steps(Lines(t), Len(t))
<1>1. ASSUME NEW i \in 1 .. Len(t) PROVE NextLine(t, i) \in 1 .. Len(t) + 1 /\ NextLine(t, i) > i
  <2>1. CASE NextLine(t, i) = Len(t) + 1 BY <2>1
  <2>2. CASE \E m \in i .. Len(t) : NextLine(t, i) = Solid(t, m + 1)
    <3>1. PICK m \in i .. Len(t) : NextLine(t, i) = Solid(t, m + 1) BY <2>2
    <3>2. m + 1 \in 1 .. Len(t) + 1 OBVIOUS
    <3>3. Solid(t, m + 1) \in m + 1 .. Len(t) + 1 BY <3>2, SolidIs
    <3> QED BY <3>1, <3>3
  <2> QED BY <2>1, <2>2, NextLineIs
<1> QED BY <1>1 DEF Steps, Lines

\* What is left of a trimmed text when its comments are off: nothing, if each
\* line reached is one.
LEMMA StripIs ==
    ASSUME NEW t \in Seq(Chars), Trimmed(t)
    PROVE  StripLeadingComments(t) = <<>>
             <=> \A j \in Onward(Lines(t), Len(t), 1) : j # Len(t) + 1 => Begins(t, j, <<"-", "-">>)
<1> DEFINE n == Len(t)
           e == Lines(t)
           Open(j) == Begins(t, j, <<"-", "-">>)
           From(i) == SubSeq(t, i, n)
           Suf == {SubSeq(t, i, Len(t)) : i \in 1 .. Len(t) + 1}
           Lf(u) == {j \in DOMAIN u : u[j] = NL}
           Rest(F, u) == IF ~Begins(u, 1, <<"-", "-">>) THEN u
                         ELSE IF Lf(u) = {} THEN <<>> ELSE F[TrimSpace(SubSeq(u, Min(Lf(u)) + 1, Len(u)))]
           Strip == CHOOSE F : F = [u \in Suf |-> Rest(F, u)]
           Stop(i) == {j \in Onward(e, n, i) : ~Open(j)}
           g(i) == Min(Stop(i))
<1>n. n \in Nat OBVIOUS
<1>1. StripLeadingComments(t) = Strip[t] BY DEF StripLeadingComments
<1>2. Steps(e, n) BY LinesStep
<1>3. \A i \in 1 .. n : e[i] = NextLine(t, i) /\ e[i] \in i + 1 .. n + 1
  <2>1. \A i \in 1 .. n : e[i] = NextLine(t, i) BY DEF Lines
  <2> HIDE DEF e, n
  <2> QED BY <2>1, <1>2, <1>n DEF Steps
<1>4. ~Open(n + 1) /\ \A j \in 1 .. n + 1 : Open(j) => j \in 1 .. n
  <2>1. \A j \in 1 .. n + 1 : Open(j) => j + 1 <= n
    <3> TAKE j \in 1 .. n + 1
    <3> QED BY BeginsIs
  <2>2. n + 1 \in 1 .. n + 1 /\ ~(n + 1 + 1 <= n) BY <1>n
  <2> HIDE DEF Open, n
  <2> QED BY <2>1, <2>2, <1>n
<1> HIDE DEF e
<1>5. ASSUME NEW i \in 1 .. n + 1
      PROVE  /\ Onward(e, n, i) \subseteq i .. n + 1 /\ n + 1 \in Onward(e, n, i)
             /\ g(i) \in Stop(i) /\ \A y \in Stop(i) : g(i) <= y
  <2> HIDE DEF Open
  <2>1. Onward(e, n, i) \subseteq i .. n + 1 /\ i \in Onward(e, n, i) /\ Closed(e, n, Onward(e, n, i))
    <3> HIDE DEF n
    <3> QED BY <1>2, <1>n, OnwardIs
  <2>2. n + 1 \in Onward(e, n, i)
    <3> DEFINE S == Onward(e, n, i)
    <3>1. S \subseteq 1 .. n + 1 /\ S # {} /\ n + 1 \in Nat BY <1>n, <2>1
    <3> HIDE DEF S
    <3>2. Max(S) \in S /\ \A y \in S : y <= Max(S) BY <3>1, GreatestOf
    <3>3. Max(S) \in 1 .. n => e[Max(S)] \in S /\ e[Max(S)] > Max(S)
      <4>1. Max(S) \in 1 .. n => e[Max(S)] \in S BY <2>1, <3>2 DEF S, Closed
      <4>2. Max(S) \in 1 .. n => e[Max(S)] \in Max(S) + 1 .. n + 1 BY <1>3
      <4> DEFINE x == Max(S)
                 y == e[x]
      <4>3. (x \in 1 .. n => y \in x + 1 .. n + 1) /\ (x \in 1 .. n => y \in S) BY <4>1, <4>2
      <4> HIDE DEF x, y
      <4>4. x \in 1 .. n => y \in S /\ y > x BY <4>3, <1>n
      <4> QED BY <4>4 DEF x, y
    <3>4. Max(S) \notin 1 .. n
      <4> SUFFICES ASSUME Max(S) \in 1 .. n PROVE FALSE OBVIOUS
      <4> DEFINE x == Max(S)
                 y == e[x]
      <4>0. y \in S /\ y > x /\ x \in 1 .. n BY <3>3
      <4> HIDE DEF x, y
      <4>1. y <= x /\ y \in Nat BY <3>1, <3>2, <4>0 DEF x
      <4> QED BY <4>0, <4>1, <1>n
    <3>5. Max(S) = n + 1
      <4> DEFINE x == Max(S)
      <4>1. x \in 1 .. n + 1 /\ x \notin 1 .. n BY <3>1, <3>2, <3>4
      <4> HIDE DEF x, n
      <4>2. x = n + 1 BY <4>1, <1>n
      <4> QED BY <4>2 DEF x
    <3> QED BY <3>2, <3>5 DEF S
  <2>3. Stop(i) \subseteq Nat /\ Stop(i) # {} BY <2>1, <2>2, <1>4, <1>n
  <2>4. Min(Stop(i)) \in Stop(i) /\ \A y \in Stop(i) : Min(Stop(i)) <= y
    <3> HIDE DEF Stop
    <3> QED BY <2>3, LeastOf
  <2> QED BY <2>1, <2>2, <2>4
<1>6. \A i \in 1 .. n + 1 : ~Open(i) => g(i) = i
  <2> SUFFICES ASSUME NEW i \in 1 .. n + 1, ~Open(i) PROVE g(i) = i OBVIOUS
  <2>1. i \in Onward(e, n, i)
    <3> HIDE DEF n
    <3> QED BY <1>2, <1>n, OnwardIs
  <2>2. i \in Stop(i) /\ g(i) \in i .. n + 1 BY <2>1, <1>5
  <2>3. g(i) <= i BY <2>2, <1>5
  <2> HIDE DEF g
  <2> QED BY <2>2, <2>3, <1>n
<1>7. \A i \in 1 .. n + 1 : Open(i) => i \in 1 .. n /\ g(i) = g(e[i])
  <2> SUFFICES ASSUME NEW i \in 1 .. n + 1, Open(i) PROVE i \in 1 .. n /\ g(i) = g(e[i]) OBVIOUS
  <2>1. i \in 1 .. n BY <1>4
  <2>2. Onward(e, n, i) = {i} \cup Onward(e, n, e[i])
    <3> HIDE DEF n
    <3> QED BY <2>1, <1>2, <1>n, OnwardIs
  <2>3. Stop(i) = Stop(e[i])
    <3> HIDE DEF n
    <3> QED BY <2>2
  <2> HIDE DEF Stop
  <2> QED BY <2>1, <2>3
<1>8. ASSUME NEW i \in 1 .. n + 1
      PROVE  From(i) \in Seq(Chars) /\ Len(From(i)) = n - i + 1 /\ \A k \in 1 .. n - i + 1 : From(i)[k] = t[i + k - 1]
  <2>1. n \in i - 1 .. Len(t) BY <1>n
  <2> QED BY <2>1, StretchIs
<1>9. ASSUME NEW i \in 1 .. n + 1, NEW F
      PROVE  /\ ~Open(i) => Rest(F, From(i)) = From(i)
             /\ Open(i) => \/ e[i] = n + 1 /\ Rest(F, From(i)) = <<>>
                           \/ Rest(F, From(i)) = F[From(e[i])]
  <2> DEFINE u == From(i)
  <2>1. u \in Seq(Chars) /\ Len(u) = n - i + 1 /\ \A k \in 1 .. n - i + 1 : u[k] = t[i + k - 1] BY <1>8
  <2>2. Begins(u, 1, <<"-", "-">>) <=> Open(i)
    <3>1. Begins(u, 1, <<"-", "-">>) <=> 1 + 1 <= Len(u) /\ u[1] = "-" /\ u[1 + 1] = "-"
      <4>1. 1 \in 1 .. Len(u) + 1 BY <2>1
      <4> HIDE DEF u
      <4> QED BY <4>1, <2>1, BeginsIs
    <3>2. Open(i) <=> i + 1 <= n /\ t[i] = "-" /\ t[i + 1] = "-" BY BeginsIs
    <3> HIDE DEF Open, u
    <3>3. 1 + 1 <= Len(u) <=> i + 1 <= n BY <2>1, <1>n
    <3>4. i + 1 <= n => u[1] = t[i] /\ u[1 + 1] = t[i + 1]
      <4> SUFFICES ASSUME i + 1 <= n PROVE u[1] = t[i] /\ u[1 + 1] = t[i + 1] OBVIOUS
      <4>1. 1 \in 1 .. n - i + 1 /\ 2 \in 1 .. n - i + 1 /\ i + 1 - 1 = i /\ i + 2 - 1 = i + 1 /\ 1 + 1 = 2 BY <1>n
      <4> HIDE DEF n
      <4> QED BY <4>1, <2>1
    <3> QED BY <3>1, <3>2, <3>3, <3>4
  <2>3. ASSUME ~Open(i) PROVE Rest(F, u) = u
    <3> HIDE DEF u, Open
    <3> QED BY <2>2, <2>3
  <2>4. ASSUME Open(i), e[i] = n + 1, \A j \in i .. n : t[j] # NL PROVE Rest(F, u) = <<>>
    <3>1. Lf(u) = {}
      <4>1. \A k \in 1 .. Len(u) : i + k - 1 \in i .. n /\ k \in 1 .. n - i + 1 BY <2>1, <1>n
      <4> HIDE DEF u
      <4>2. ASSUME NEW k \in 1 .. Len(u) PROVE u[k] # NL
        <5>1. u[k] = t[i + k - 1] BY <4>1, <2>1
        <5> HIDE DEF n
        <5> QED BY <5>1, <4>1, <2>4
      <4> QED BY <4>2, <2>1
    <3> HIDE DEF u, Open, Lf
    <3> QED BY <2>2, <2>4, <3>1
  <2>5. ASSUME Open(i), NEW m \in i .. n, t[m] = NL, \A j \in i .. m - 1 : t[j] # NL,
               e[i] = Solid(t, m + 1), m + 1 \in 1 .. n + 1
        PROVE  Rest(F, u) = F[From(e[i])]
    <3> DEFINE k0 == m - i + 1
    <3>1. k0 \in 1 .. Len(u) /\ k0 \in 1 .. n - i + 1 /\ i + k0 - 1 = m BY <2>1, <1>n
    <3>2. k0 \in Lf(u)
      <4>1. u[k0] = t[m] BY <3>1, <2>1
      <4> HIDE DEF u, k0
      <4> QED BY <4>1, <3>1, <2>1, <2>5
    <3>3. \A y \in Lf(u) : k0 <= y
      <4>00. Lf(u) = {y \in 1 .. Len(u) : u[y] = NL}
        <5> HIDE DEF u
        <5> QED BY <2>1
      <4>0. SUFFICES ASSUME NEW y \in 1 .. Len(u), u[y] = NL PROVE k0 <= y
        <5> HIDE DEF u, k0, Lf
        <5> QED BY <4>00
      <4>1. y \in 1 .. n - i + 1 /\ (y < k0 => i + y - 1 \in i .. m - 1) BY <2>1, <1>n
      <4> HIDE DEF u
      <4>2. t[i + y - 1] = NL BY <4>0, <4>1, <2>1
      <4>3. ~(y < k0) BY <4>1, <4>2, <2>5
      <4> QED BY <4>3, <3>1
    <3>4. Lf(u) \subseteq Nat /\ Lf(u) # {}
      <4>1. Lf(u) \subseteq 1 .. Len(u) BY <2>1
      <4> HIDE DEF Lf, u
      <4> QED BY <3>2, <4>1, <2>1
    <3> HIDE DEF Lf
    <3>5. Min(Lf(u)) = k0
      <4>1. Min(Lf(u)) \in Lf(u) /\ Min(Lf(u)) <= k0 BY <3>2, <3>4, LeastOf
      <4>2. k0 <= Min(Lf(u)) /\ Min(Lf(u)) \in Nat BY <4>1, <3>3, <3>4
      <4> DEFINE x == Min(Lf(u))
      <4> HIDE DEF x
      <4>3. x <= k0 /\ k0 <= x /\ x \in Nat BY <4>1, <4>2 DEF x
      <4>4. x = k0 BY <4>3, <3>1
      <4> QED BY <4>4 DEF x
    <3>6. SubSeq(u, k0 + 1, Len(u)) = From(m + 1)
      <4> DEFINE a == SubSeq(u, k0 + 1, Len(u))
                 b == From(m + 1)
      <4>1. a \in Seq(Chars) /\ Len(a) = Len(u) - (k0 + 1) + 1
            /\ \A k \in 1 .. Len(u) - (k0 + 1) + 1 : a[k] = u[k0 + 1 + k - 1]
        <5>1. k0 + 1 \in 1 .. Len(u) + 1 /\ Len(u) \in k0 + 1 - 1 .. Len(u) BY <3>1, <2>1
        <5> HIDE DEF u, k0
        <5> QED BY <5>1, <2>1, StretchIs, SMTT(30)
      <4>2. b \in Seq(Chars) /\ Len(b) = n - (m + 1) + 1 /\ \A k \in 1 .. n - (m + 1) + 1 : b[k] = t[m + 1 + k - 1]
            BY <1>8, <2>5
      <4>3. Len(u) - (k0 + 1) + 1 = n - (m + 1) + 1 BY <2>1, <1>n
      <4>4. ASSUME NEW k \in 1 .. n - (m + 1) + 1 PROVE u[k0 + 1 + k - 1] = t[m + 1 + k - 1]
        <5> DEFINE x == k0 + 1 + k - 1
        <5>1. x \in 1 .. n - i + 1 /\ i + x - 1 = m + 1 + k - 1 BY <1>n
        <5> HIDE DEF u, k0, x
        <5>2. u[x] = t[i + x - 1] BY <5>1, <2>1
        <5> QED BY <5>1, <5>2 DEF x
      <4> DEFINE q == n - (m + 1) + 1
      <4> HIDE DEF a, b, u, k0
      <4>q. Len(a) = q /\ Len(b) = q BY <4>1, <4>2, <4>3
      <4>r. \A k \in 1 .. q : a[k] = b[k]
        <5> TAKE k \in 1 .. q
        <5>1. a[k] = u[k0 + 1 + k - 1] BY <4>1, <4>3
        <5>2. b[k] = t[m + 1 + k - 1] BY <4>2
        <5> QED BY <5>1, <5>2, <4>4
      <4> HIDE DEF q
      <4>5. Len(a) = Len(b) /\ \A k \in 1 .. Len(a) : a[k] = b[k] BY <4>q, <4>r
      <4>s. a \in Seq(Chars) /\ b \in Seq(Chars) BY <4>1, <4>2
      <4>6. a = b BY <4>s, <4>5
      <4> QED BY <4>6 DEF a, b
    <3>7. TrimSpace(From(m + 1)) = From(e[i]) BY <2>5, TrimEnd
    <3>8. Rest(F, u) = F[TrimSpace(SubSeq(u, Min(Lf(u)) + 1, Len(u)))]
      <4> HIDE DEF u, Open
      <4> QED BY <2>2, <2>5, <3>4
    <3> HIDE DEF u, k0, Rest, From
    <3> QED BY <3>5, <3>6, <3>7, <3>8
  <2>6. ASSUME Open(i) PROVE (e[i] = n + 1 /\ Rest(F, u) = <<>>) \/ Rest(F, u) = F[From(e[i])]
    <3>1. i \in 1 .. n BY <1>4, <2>6
    <3>2. \/ NextLine(t, i) = Len(t) + 1 /\ \A j \in i .. Len(t) : t[j] # NL
          \/ \E m \in i .. Len(t) : /\ t[m] = NL /\ (\A j \in i .. m - 1 : t[j] # NL)
                                    /\ NextLine(t, i) = Solid(t, m + 1) /\ m + 1 \in 1 .. Len(t) + 1
          BY <3>1, NextLineIs
    <3>3. e[i] = NextLine(t, i) BY <3>1, <1>3
    <3> HIDE DEF u, Rest, From, Open
    <3> QED BY <3>2, <3>3, <2>4, <2>5, <2>6
  <2> HIDE DEF Rest, From, Open
  <2> QED BY <2>3, <2>6 DEF u
<1> DEFINE G == [u \in Suf |-> From(g(n - Len(u) + 1))]
<1>10. \A i \in 1 .. n + 1 : From(i) \in Suf /\ n - Len(From(i)) + 1 = i /\ G[From(i)] = From(g(i))
  <2> TAKE i \in 1 .. n + 1
  <2>1. From(i) \in Suf OBVIOUS
  <2>2. n - Len(From(i)) + 1 = i BY <1>8, <1>n
  <2> HIDE DEF From, Suf, g
  <2> QED BY <2>1, <2>2
<1>11. \A u \in Suf : \E i \in 1 .. n + 1 : u = From(i) OBVIOUS
<1>12. \A i \in 1 .. n + 1 : i \in 1 .. n => e[i] \in 1 .. n + 1 /\ e[i] > i BY <1>3, <1>n
<1>13. From(n + 1) = <<>> OBVIOUS
<1>14. g(n + 1) = n + 1
  <2>1. n + 1 \in 1 .. n + 1 BY <1>n
  <2> HIDE DEF g, Open
  <2> QED BY <2>1, <1>4, <1>6
<1>15. \A u \in Suf : Rest(G, u) = G[u]
  <2>1. SUFFICES ASSUME NEW i \in 1 .. n + 1 PROVE Rest(G, From(i)) = From(g(i))
    <3> HIDE DEF Rest, From, Suf, g, G
    <3> QED BY <1>10, <1>11
  <2> HIDE DEF Rest, From, Suf, g, Open, G
  <2>2. CASE ~Open(i) BY <2>2, <1>6, <1>9
  <2>3. CASE Open(i)
    <3>1. i \in 1 .. n /\ g(i) = g(e[i]) /\ e[i] \in 1 .. n + 1 BY <2>3, <1>7, <1>12
    <3>2. CASE e[i] = n + 1 /\ Rest(G, From(i)) = <<>> BY <3>1, <3>2, <1>13, <1>14
    <3>3. CASE Rest(G, From(i)) = G[From(e[i])] BY <3>1, <3>3, <1>10
    <3> QED BY <2>3, <3>2, <3>3, <1>9
  <2> QED BY <2>2, <2>3
<1>16. G = [u \in Suf |-> Rest(G, u)]
  <2>1. G = [u \in Suf |-> G[u]] OBVIOUS
  <2> HIDE DEF Rest, From, Suf, g, Open, G
  <2> QED BY <2>1, <1>15
<1> HIDE DEF G
<1>17. Strip = [u \in Suf |-> Rest(Strip, u)]
  <2> HIDE DEF Rest, From, Suf, g, Open
  <2> QED BY <1>16
<1> HIDE DEF Strip
<1>18. \A i \in 1 .. n + 1 : Strip[From(i)] = Rest(Strip, From(i))
  <2> HIDE DEF Rest, From, Suf, g, Open
  <2> QED BY <1>17, <1>10
<1> DEFINE S == {k \in Nat : \A i \in 1 .. n + 1 : i >= n + 1 - k => Strip[From(i)] = From(g(i))}
<1>19. ASSUME NEW i \in 1 .. n + 1, \A j \in 1 .. n + 1 : j > i => Strip[From(j)] = From(g(j))
       PROVE  Strip[From(i)] = From(g(i))
  <2> HIDE DEF Rest, From, Suf, g, Open
  <2>2. CASE ~Open(i) BY <2>2, <1>6, <1>9, <1>18
  <2>3. CASE Open(i)
    <3>1. i \in 1 .. n /\ g(i) = g(e[i]) /\ e[i] \in 1 .. n + 1 /\ e[i] > i BY <2>3, <1>7, <1>12
    <3>2. CASE e[i] = n + 1 /\ Rest(Strip, From(i)) = <<>> BY <3>1, <3>2, <1>13, <1>14, <1>18
    <3>3. CASE Rest(Strip, From(i)) = Strip[From(e[i])] BY <3>1, <3>3, <1>18, <1>19
    <3> QED BY <2>3, <3>2, <3>3, <1>9
  <2> QED BY <2>2, <2>3
<1>20. Nat \subseteq S
  <2> HIDE DEF Rest, From, Suf, g, Open, n
  <2>1. 0 \in S
    <3>1. ASSUME NEW i \in 1 .. n + 1, i >= n + 1 - 0 PROVE Strip[From(i)] = From(g(i))
      <4>1. \A j \in 1 .. n + 1 : ~(j > i) BY <3>1, <1>n
      <4> QED BY <4>1, <1>19
    <3> QED BY <3>1
  <2>2. ASSUME NEW k \in Nat, k \in S PROVE k + 1 \in S
    <3>1. ASSUME NEW i \in 1 .. n + 1, i >= n + 1 - (k + 1) PROVE Strip[From(i)] = From(g(i))
      <4>1. \A j \in 1 .. n + 1 : j > i => j >= n + 1 - k BY <3>1, <1>n
      <4> QED BY <4>1, <2>2, <1>19
    <3> QED BY <3>1
  <2> HIDE DEF S
  <2> QED BY <2>1, <2>2, NatSetInduction
<1>21. Strip[From(1)] = From(g(1))
  <2>1. n \in S BY <1>n, <1>20
  <2>2. 1 \in 1 .. n + 1 /\ 1 >= n + 1 - n BY <1>n
  <2> HIDE DEF Rest, From, Suf, g, Open, n
  <2> QED BY <2>1, <2>2
<1>22. From(1) = t OBVIOUS
<1>23. 1 \in 1 .. n + 1 BY <1>n
<1>24. g(1) \in 1 .. n + 1 /\ Len(From(g(1))) = n - g(1) + 1
  <2>1. g(1) \in Stop(1) /\ Onward(e, n, 1) \subseteq 1 .. n + 1 BY <1>5, <1>23
  <2>2. g(1) \in 1 .. n + 1
    <3> HIDE DEF g, Open
    <3> QED BY <2>1
  <2> HIDE DEF g, From, n
  <2> QED BY <2>2, <1>8
<1>25. StripLeadingComments(t) = <<>> <=> g(1) = n + 1
  <2>1. StripLeadingComments(t) = From(g(1)) BY <1>1, <1>21, <1>22
  <2>2. From(g(1)) = <<>> <=> Len(From(g(1))) = 0
    <3>1. From(g(1)) \in Seq(Chars) BY <1>24, <1>8
    <3> HIDE DEF From, g
    <3> QED BY <3>1
  <2>3. n - g(1) + 1 = 0 <=> g(1) = n + 1
    <3> HIDE DEF g
    <3> QED BY <1>24, <1>n
  <2> HIDE DEF From, g
  <2> QED BY <2>1, <2>2, <2>3, <1>24
<1>26. g(1) = n + 1 <=> \A j \in Onward(e, n, 1) : j # n + 1 => Open(j)
  <2> HIDE DEF Open
  <2>1. /\ Onward(e, n, 1) \subseteq 1 .. n + 1 /\ n + 1 \in Onward(e, n, 1)
        /\ g(1) \in Stop(1) /\ \A y \in Stop(1) : g(1) <= y BY <1>5, <1>23
  <2>2. Stop(1) = {j \in Onward(e, n, 1) : ~Open(j)} OBVIOUS
  <2> HIDE DEF g, Stop
  <2>3. ASSUME g(1) = n + 1, NEW j \in Onward(e, n, 1), j # n + 1 PROVE Open(j)
    <3>1. j \in 1 .. n + 1 /\ ~(n + 1 <= j) BY <2>1, <2>3, <1>n
    <3> QED BY <3>1, <2>1, <2>2, <2>3
  <2>4. ASSUME \A j \in Onward(e, n, 1) : j # n + 1 => Open(j) PROVE g(1) = n + 1 BY <2>1, <2>2, <2>4
  <2> QED BY <2>3, <2>4
<1> QED BY <1>25, <1>26 DEF e
\* A blank is a lexeme of its own.
LEMMA BlankEnds == ASSUME NEW t \in Seq(Chars), NEW i \in 1 .. Len(t), t[i] \in Blanks PROVE LexemeEnd(t, i) = i + 1
<1>1. t[i] \notin {"'", "\""} /\ t[i] # "-" /\ t[i] # "/" /\ t[i] # "$" /\ t[i] # "x" BY DEF Blanks, NL
<1> QED BY <1>1, FirstOf, LexemeEndIs

\* From a line comment on to the next line that is not blank: boundaries all.
LEMMA LineEnds ==
    ASSUME NEW t \in Seq(Chars), NEW B, Boundaries(t, B), NEW j \in B, j <= Len(t), Begins(t, j, <<"-", "-">>)
    PROVE  /\ NextLine(t, j) \in B /\ (NextLine(t, j) <= Len(t) => t[NextLine(t, j)] \notin Blanks)
           /\ \A b \in LexemeEnd(t, j) .. NextLine(t, j) - 1 : b \in 1 .. Len(t) /\ t[b] \in Blanks
<1> DEFINE n == Len(t)
           e == NextLine(t, j)
<1>n. n \in Nat OBVIOUS
<1>b. /\ B \subseteq 1 .. n + 1
      /\ \A i \in B : i <= n => LexemeEnd(t, i) \in B /\ \A k \in B : k <= i \/ k >= LexemeEnd(t, i) BY DEF Boundaries
<1>j. j \in 1 .. n /\ LexemeEnd(t, j) \in B BY <1>b, <1>n
<1>1. t[j] = "-" /\ j + 1 <= n /\ t[j + 1] = "-"
  <2>1. j \in 1 .. Len(t) + 1 BY <1>j
  <2> QED BY <2>1, BeginsIs
<1>2. LexemeEnd(t, j) = Past(t, j + 2, <<NL>>) BY <1>j, LexemeEndIs
<1>3. /\ \A m \in j + 2 .. n : Begins(t, m, <<NL>>) /\ (\A k \in j + 2 .. m - 1 : ~Begins(t, k, <<NL>>)) =>
           Past(t, j + 2, <<NL>>) = m + 1
      /\ (\A m \in j + 2 .. n : ~Begins(t, m, <<NL>>)) => Past(t, j + 2, <<NL>>) = n + 1
  <2> DEFINE w == <<NL>>
  <2>1. Len(w) = 1 /\ j + 2 \in 1 .. Len(t) + 1 BY <1>j, <1>1
  <2> HIDE DEF w
  <2>2. Len(w) \in Nat \ {0} BY <2>1
  <2> QED BY <2>1, <2>2, PastIs, ZenonT(60)
<1>4. \A m \in 1 .. n : Begins(t, m, <<NL>>) <=> t[m] = NL
  <2> TAKE m \in 1 .. n
  <2>1. m \in 1 .. Len(t) + 1 /\ m \in m - 1 .. Len(t) OBVIOUS
  <2> DEFINE s == SubSeq(t, m, m)
  <2>2. s \in Seq(Chars) /\ Len(s) = m - m + 1 /\ \A k \in 1 .. m - m + 1 : s[k] = t[m + k - 1] BY <2>1, StretchIs
  <2>3. m - m + 1 = 1 /\ m + 1 - 1 = m OBVIOUS
  <2>4. Begins(t, m, <<NL>>) <=> s = <<NL>>
    <3>1. Len(<<NL>>) = 1 /\ m + 1 - 1 = m /\ m <= Len(t) OBVIOUS
    <3> QED BY <3>1 DEF Begins
  <2> HIDE DEF s
  <2>5. Len(s) = 1 /\ s[1] = t[m] BY <2>2, <2>3
  <2>6. s = <<NL>> <=> t[m] = NL BY <2>2, <2>5
  <2> QED BY <2>4, <2>6
<1>5. CASE NextLine(t, j) = Len(t) + 1 /\ \A i \in j .. Len(t) : t[i] # NL
  <2>1. \A m \in j + 2 .. n : m \in 1 .. n /\ m \in j .. Len(t) BY <1>j
  <2>2. LexemeEnd(t, j) = n + 1 BY <1>2, <1>3, <1>4, <1>5, <2>1
  <2>3. e \in B /\ ~(e <= n) BY <1>5, <2>2, <1>j, <1>n
  <2>4. \A b \in LexemeEnd(t, j) .. e - 1 : FALSE BY <1>5, <2>2, <1>n
  <2> QED BY <2>3, <2>4
<1>6. CASE \E m \in j .. Len(t) : /\ t[m] = NL /\ (\A i \in j .. m - 1 : t[i] # NL)
                                  /\ NextLine(t, j) = Solid(t, m + 1) /\ m + 1 \in 1 .. Len(t) + 1
  <2>1. PICK m \in j .. Len(t) : /\ t[m] = NL /\ (\A i \in j .. m - 1 : t[i] # NL)
                                 /\ NextLine(t, j) = Solid(t, m + 1) /\ m + 1 \in 1 .. Len(t) + 1 BY <1>6
  <2>2. m \in j + 2 .. n /\ m \in 1 .. n
    <3>1. m # j /\ m # j + 1 BY <2>1, <1>1 DEF NL
    <3> QED BY <3>1, <1>j
  <2>3. \A k \in j + 2 .. m - 1 : k \in 1 .. n /\ k \in j .. m - 1 BY <1>j, <2>2
  <2>4. LexemeEnd(t, j) = m + 1
    <3>1. Begins(t, m, <<NL>>) /\ \A k \in j + 2 .. m - 1 : ~Begins(t, k, <<NL>>) BY <2>1, <2>2, <2>3, <1>4
    <3> QED BY <3>1, <2>2, <1>2, <1>3
  <2>5. /\ e \in m + 1 .. n + 1 /\ \A i \in m + 1 .. e - 1 : i \in 1 .. n /\ t[i] \in Blanks
        /\ e # n + 1 => t[e] \notin Blanks
    <3>1. e = Solid(t, m + 1) BY <2>1
    <3> HIDE DEF e
    <3> QED BY <2>1, <3>1, SolidIs
  <2> HIDE DEF e
  <2> DEFINE S == {k \in Nat : m + 1 + k <= e => m + 1 + k \in B}
  <2>6. 0 \in S BY <1>j, <2>4, <2>2
  <2>7. ASSUME NEW k \in Nat, k \in S PROVE k + 1 \in S
    <3>1. SUFFICES ASSUME m + 1 + (k + 1) <= e PROVE m + 1 + (k + 1) \in B OBVIOUS
    <3>2. m + 1 + k \in m + 1 .. e - 1 BY <3>1, <2>5, <2>2
    <3>3. m + 1 + k \in B BY <2>7, <3>2, <2>2, <2>5
    <3>4. m + 1 + k \in 1 .. n /\ t[m + 1 + k] \in Blanks BY <3>2, <2>5
    <3>5. LexemeEnd(t, m + 1 + k) = m + 1 + k + 1 BY <3>4, BlankEnds
    <3>6. LexemeEnd(t, m + 1 + k) \in B BY <3>3, <3>4, <1>b
    <3>7. m + 1 + k + 1 = m + 1 + (k + 1) BY <2>2
    <3> QED BY <3>5, <3>6, <3>7
  <2>8. Nat \subseteq S
    <3> HIDE DEF S
    <3> QED BY <2>6, <2>7, NatSetInduction
  <2>9. e \in B
    <3>1. e - (m + 1) \in Nat /\ m + 1 + (e - (m + 1)) = e BY <2>2, <2>5
    <3>2. e - (m + 1) \in S BY <3>1, <2>8
    <3>3. m + 1 + (e - (m + 1)) \in B BY <3>1, <3>2, <2>2, <2>5
    <3> QED BY <3>1, <3>3
  <2>10. e <= n => t[e] \notin Blanks BY <2>5, <1>n
  <2> QED BY <2>4, <2>5, <2>9, <2>10 DEF e
<1> QED BY <1>j, <1>5, <1>6, NextLineIs

\* A trimmed text is nothing but line comments when nothing of it is left.
LEMMA StripLeavesNothing ==
    ASSUME NEW t \in Seq(Chars), Trimmed(t) PROVE StripLeadingComments(t) = <<>> <=> OnlyLineComments(t)
<1> DEFINE n == Len(t)
           e == Lines(t)
           O == Onward(e, n, 1)
           Open(j) == Begins(t, j, <<"-", "-">>)
<1>n. n \in Nat /\ 1 \in 1 .. n + 1 OBVIOUS
<1>0. PICK B : Boundaries(t, B) BY BoundariesExist
<1>b. /\ B \subseteq 1 .. n + 1 /\ 1 \in B
      /\ \A i \in B : i <= n => LexemeEnd(t, i) \in B /\ \A k \in B : k <= i \/ k >= LexemeEnd(t, i)
      BY <1>0 DEF Boundaries
<1>1. OnlyLineComments(t) <=> \A b \in B : b <= n => t[b] \in Blanks \/ Open(b)
  <2>1. Lexemes(t) = {<<i, LexemeEnd(t, i) - 1>> : i \in B \ {n + 1}} BY <1>0 DEF Boundaries
  <2>2. OnlyLineComments(t) <=> \A i \in B \ {n + 1} : t[i] \in Blanks \/ Open(i)
    <3> HIDE DEF n
    <3>1. ASSUME OnlyLineComments(t), NEW i \in B \ {n + 1} PROVE t[i] \in Blanks \/ Open(i)
      <4>1. <<i, LexemeEnd(t, i) - 1>> \in Lexemes(t) BY <2>1
      <4>2. <<i, LexemeEnd(t, i) - 1>>[1] = i OBVIOUS
      <4> QED BY <4>1, <4>2, <3>1 DEF OnlyLineComments
    <3>2. ASSUME \A i \in B \ {n + 1} : t[i] \in Blanks \/ Open(i) PROVE OnlyLineComments(t)
      <4>1. SUFFICES ASSUME NEW l \in Lexemes(t) PROVE t[l[1]] \in Blanks \/ Open(l[1]) BY DEF OnlyLineComments
      <4>2. PICK i \in B \ {n + 1} : l = <<i, LexemeEnd(t, i) - 1>> BY <2>1
      <4>3. l[1] = i BY <4>2
      <4> QED BY <4>3, <3>2
    <3> HIDE DEF Open
    <3> QED BY <3>1, <3>2
  <2>3. \A i \in B : i <= n <=> i # n + 1 BY <1>b, <1>n
  <2> HIDE DEF Open, n
  <2> QED BY <2>2, <2>3
<1>2. StripLeadingComments(t) = <<>> <=> \A j \in O : j # n + 1 => Open(j) BY StripIs
<1>3. Steps(e, n) BY LinesStep
<1>4. \A i \in 1 .. n : e[i] = NextLine(t, i) BY DEF Lines
<1> HIDE DEF e
<1>5. \A i \in 1 .. n : e[i] \in 1 .. n + 1 /\ e[i] > i
  <2> HIDE DEF n
  <2> QED BY <1>3, <1>n DEF Steps
<1>6. 1 \in O /\ Closed(e, n, O) /\ O \subseteq 1 .. n + 1 BY <1>3, <1>n, OnwardIs
<1> HIDE DEF Open
<1> DEFINE T == {j \in O : j \in B /\ (j <= n => t[j] \notin Blanks)}
<1>7. ASSUME \A j \in T : j <= n => Open(j) PROVE O \subseteq T
  <2>1. 1 \in T
    <3>1. 1 <= n => t # <<>> OBVIOUS
    <3>2. 1 <= n => t[1] \notin Blanks BY <3>1 DEF Trimmed
    <3> QED BY <3>2, <1>b, <1>6
  <2>2. Closed(e, n, T)
    <3>1. SUFFICES ASSUME NEW j \in T, j \in 1 .. n PROVE e[j] \in T BY DEF Closed
    <3>2. j \in B /\ j <= n /\ Open(j) /\ e[j] = NextLine(t, j) BY <3>1, <1>7, <1>4, <1>n
    <3>3. e[j] \in B /\ (e[j] <= n => t[e[j]] \notin Blanks)
      <4>1. Begins(t, j, <<"-", "-">>) BY <3>2 DEF Open
      <4> QED BY <4>1, <3>2, <1>0, LineEnds
    <3>4. e[j] \in O BY <3>1, <1>6 DEF Closed
    <3> QED BY <3>3, <3>4
  <2>3. T \in SUBSET (1 .. n + 1) BY <1>6
  <2> HIDE DEF T, n
  <2> QED BY <2>1, <2>2, <2>3 DEF Onward
<1>8. ASSUME \A b \in B : b <= n => t[b] \in Blanks \/ Open(b) PROVE \A j \in O : j # n + 1 => Open(j)
  <2>1. O \subseteq T BY <1>7, <1>8
  <2>2. \A j \in O : j # n + 1 => j <= n BY <1>6, <1>n
  <2> HIDE DEF O
  <2> QED BY <2>1, <2>2, <1>8
<1>9. ASSUME \A j \in O : j # n + 1 => Open(j), NEW b \in B, b <= n PROVE t[b] \in Blanks \/ Open(b)
  <2>1. \A j \in O : j <= n => Open(j) BY <1>9, <1>n, <1>6
  <2>2. O \subseteq T BY <1>7, <2>1
  <2> DEFINE S == {j \in O : j <= b}
  <2>3. 1 \in S /\ S \subseteq 1 .. n + 1 /\ n + 1 \in Nat BY <1>b, <1>6, <1>n, <1>9
  <2>4. Max(S) \in S /\ \A y \in S : y <= Max(S)
    <3> HIDE DEF S
    <3> QED BY <2>3, GreatestOf
  <2> DEFINE j == Max(S)
  <2>5. j \in O /\ j <= b /\ j \in 1 .. n /\ b \in 1 .. n BY <2>4, <1>b, <1>6, <1>9, <1>n
  <2>6. j \in B /\ Open(j) /\ e[j] = NextLine(t, j) /\ e[j] \in O /\ e[j] \in 1 .. n + 1 /\ e[j] > j
    <3> HIDE DEF j, O
    <3>1. j <= n BY <2>5, <1>n
    <3>2. e[j] \in O BY <2>5, <1>6 DEF Closed
    <3> QED BY <2>1, <2>2, <2>5, <1>4, <1>5, <3>1, <3>2
  <2>7. b < e[j]
    <3>1. e[j] <= b => e[j] \in S BY <2>6
    <3>2. e[j] <= b => e[j] <= j BY <3>1, <2>4
    <3> HIDE DEF j
    <3> QED BY <3>2, <2>5, <2>6, <1>n
  <2> HIDE DEF j
  <2>8. CASE b = j BY <2>8, <2>6
  <2>9. CASE b # j
    <3>1. b >= LexemeEnd(t, j)
      <4>1. b <= j \/ b >= LexemeEnd(t, j) BY <1>b, <2>5, <2>6, <1>n
      <4> QED BY <4>1, <2>5, <2>9
    <3>2. \A i \in LexemeEnd(t, j) .. NextLine(t, j) - 1 : i \in 1 .. Len(t) /\ t[i] \in Blanks
      <4>1. Begins(t, j, <<"-", "-">>) /\ j <= Len(t) BY <2>5, <2>6 DEF Open
      <4> QED BY <4>1, <2>6, <1>0, LineEnds
    <3>3. LexemeEnd(t, j) \in 1 .. n + 1
      <4>1. j <= n BY <2>5, <1>n
      <4>2. LexemeEnd(t, j) \in B BY <4>1, <2>6, <1>b
      <4> QED BY <4>2, <1>b
    <3>4. b \in LexemeEnd(t, j) .. NextLine(t, j) - 1 BY <3>1, <3>3, <2>5, <2>6, <2>7, <1>n
    <3> QED BY <3>2, <3>4
  <2> QED BY <2>8, <2>9
<1> HIDE DEF O, n
<1> QED BY <1>1, <1>2, <1>8, <1>9
-----------------------------------------------------------------------------
(* What the loop does with a lexeme.                                       *)

\* One more sequence at the end is joined at the end.
LEMMA FlattenAppend ==
    ASSUME NEW T, NEW q \in Seq(Seq(T)), NEW x \in Seq(T)
    PROVE  FlattenSeq(Append(q, x)) = FlattenSeq(q) \o x
<1> DEFINE r == Append(q, x)
           n == Len(q)
           U == Seq(T)
<1>1. /\ r \in Seq(U) /\ r # <<>> /\ Len(r) = n + 1 /\ n \in Nat /\ r[n + 1] = x
      /\ \A i \in 1 .. n : r[i] = q[i]
  <2>1. q \in Seq(U) /\ x \in U OBVIOUS
  <2> HIDE DEF U
  <2> QED BY <2>1, AppendProperties
<1>2. PICK f : /\ f[1] = r[1] /\ \A i \in 2 .. Len(r) : f[i] = f[i - 1] \o r[i]
               /\ FlattenSeq(r) = f[Len(r)]
  <2> HIDE DEF r, U, n
  <2> QED BY <1>1, FlattenSeqSteps
<1>3. CASE q = <<>>
  <2>1. n = 0 /\ FlattenSeq(q) = <<>> BY <1>3 DEF FlattenSeq
  <2>2. FlattenSeq(r) = x
    <3> HIDE DEF r
    <3>1. Len(r) = 1 /\ r[1] = x BY <1>1, <2>1
    <3> QED BY <1>2, <3>1
  <2> QED BY <2>1, <2>2
<1>4. CASE q # <<>>
  <2>1. PICK g : /\ g[1] = q[1] /\ \A i \in 2 .. Len(q) : g[i] = g[i - 1] \o q[i]
                 /\ FlattenSeq(q) = g[Len(q)] BY <1>4, FlattenSeqSteps
  <2>2. n >= 1 BY <1>4
  <2>1a. /\ g[1] = q[1] /\ FlattenSeq(q) = g[n]
         /\ \A i \in 2 .. n : g[i] = g[i - 1] \o q[i] BY <2>1
  <2>1b. /\ f[1] = r[1] /\ FlattenSeq(r) = f[n + 1]
         /\ \A i \in 2 .. n + 1 : f[i] = f[i - 1] \o r[i] BY <1>1, <1>2
  <2> HIDE DEF r, n
  <2> DEFINE S == {k \in Nat : k \in 1 .. n => f[k] = g[k]}
  <2>3. 0 \in S OBVIOUS
  <2>4. ASSUME NEW k \in Nat, k \in S PROVE k + 1 \in S
    <3>1. CASE k = 0
      <4>1. f[1] = g[1] BY <1>1, <2>1a, <2>1b, <2>2
      <4> QED BY <3>1, <4>1
    <3>2. CASE k # 0 /\ k + 1 \in 1 .. n
      <4>1. k + 1 \in 2 .. n /\ k + 1 \in 2 .. n + 1 /\ k + 1 - 1 = k /\ k \in 1 .. n BY <3>2, <1>1
      <4>2. f[k + 1] = f[k] \o r[k + 1] /\ g[k + 1] = g[k] \o q[k + 1]
        <5> DEFINE m == k + 1
        <5>1. m \in 2 .. n /\ m \in 2 .. n + 1 /\ m - 1 = k BY <4>1
        <5> HIDE DEF m
        <5>2. f[m] = f[m - 1] \o r[m] BY <5>1, <2>1b
        <5>3. g[m] = g[m - 1] \o q[m] BY <5>1, <2>1a
        <5>4. f[m] = f[k] \o r[m] /\ g[m] = g[k] \o q[m] BY <5>1, <5>2, <5>3
        <5> QED BY <5>4 DEF m
      <4>3. f[k] = g[k] /\ r[k + 1] = q[k + 1] BY <2>4, <4>1, <3>2, <1>1
      <4>4. f[k + 1] = g[k + 1] BY <4>2, <4>3
      <4> QED BY <4>4
    <3>3. CASE k + 1 \notin 1 .. n BY <3>3
    <3> QED BY <3>1, <3>2, <3>3
  <2>5. Nat \subseteq S
    <3> HIDE DEF S
    <3> QED BY <2>3, <2>4, NatSetInduction
  <2>6. f[n] = g[n]
    <3>1. n \in S BY <2>5, <1>1
    <3> QED BY <3>1, <2>2, <1>1
  <2>7. n + 1 \in 2 .. n + 1 /\ n + 1 - 1 = n /\ r[n + 1] = x BY <1>1, <2>2
  <2>9. f[n + 1] = f[n] \o x
    <3> DEFINE m == n + 1
    <3>1. m \in 2 .. n + 1 /\ m - 1 = n /\ r[m] = x BY <2>7, <1>1
    <3> HIDE DEF m
    <3>2. f[m] = f[m - 1] \o r[m] BY <3>1, <2>1b
    <3>3. f[m] = f[n] \o x BY <3>1, <3>2
    <3> QED BY <3>3 DEF m
  <2>10. FlattenSeq(r) = f[n + 1] /\ FlattenSeq(q) = g[n] BY <2>1a, <2>1b
  <2> QED BY <2>6, <2>9, <2>10 DEF r
<1> QED BY <1>3, <1>4

\* What is closed by a word ends with the first one, or with the text.
LEMMA PastEnds ==
    ASSUME NEW t \in Seq(Chars), NEW from \in 1 .. Len(t) + 1, NEW w, Len(w) \in Nat \ {0}
    PROVE  \/ Past(t, from, w) = Len(t) + 1 /\ \A j \in from .. Len(t) : ~Begins(t, j, w)
           \/ \E m \in from .. Len(t) : /\ Begins(t, m, w) /\ (\A k \in from .. m - 1 : ~Begins(t, k, w))
                                        /\ Past(t, from, w) = m + Len(w)
<1> DEFINE ends == {j \in from .. Len(t) : Begins(t, j, w)}
<1>1. CASE ends = {}
  <2>1. Past(t, from, w) = Len(t) + 1 BY <1>1 DEF Past
  <2> QED BY <1>1, <2>1
<1>2. CASE ends # {}
  <2> DEFINE m == Min(ends)
  <2>1. m \in ends /\ \A y \in ends : m <= y
    <3>1. ends \subseteq Nat OBVIOUS
    <3> HIDE DEF ends
    <3> QED BY <1>2, <3>1, LeastOf
  <2>2. Past(t, from, w) = m + Len(w) BY <1>2 DEF Past
  <2>3. m \in from .. Len(t) /\ Begins(t, m, w) BY <2>1
  <2>4. ASSUME NEW k \in from .. m - 1 PROVE ~Begins(t, k, w)
    <3>1. k \in from .. Len(t) /\ ~(m <= k)
      <4> HIDE DEF m
      <4> QED BY <2>3, <2>4
    <3>2. k \notin ends BY <3>1, <2>1
    <3> QED BY <3>1, <3>2
  <2> HIDE DEF m
  <2> QED BY <2>2, <2>3, <2>4
<1> QED BY <1>1, <1>2

\* It is looked for one position after the other.
LEMMA PastStep ==
    ASSUME NEW t \in Seq(Chars), NEW from \in 1 .. Len(t), NEW w, Len(w) \in Nat \ {0}
    PROVE  Past(t, from, w) = IF Begins(t, from, w) THEN from + Len(w) ELSE Past(t, from + 1, w)
<1>1. from \in 1 .. Len(t) + 1 /\ from + 1 \in 1 .. Len(t) + 1 /\ from \in from .. Len(t) OBVIOUS
<1>2. CASE Begins(t, from, w)
  <2>1. \A k \in from .. from - 1 : ~Begins(t, k, w) OBVIOUS
  <2> QED BY <1>1, <1>2, <2>1, PastIs
<1>3. CASE ~Begins(t, from, w)
  <2>1. CASE Past(t, from, w) = Len(t) + 1 /\ \A j \in from .. Len(t) : ~Begins(t, j, w)
    <3>1. \A j \in from + 1 .. Len(t) : ~Begins(t, j, w)
      <4>1. \A j \in from + 1 .. Len(t) : j \in from .. Len(t) OBVIOUS
      <4> QED BY <2>1, <4>1
    <3>2. Past(t, from + 1, w) = Len(t) + 1 BY <1>1, <3>1, PastIs
    <3> QED BY <1>3, <2>1, <3>2
  <2>2. CASE \E m \in from .. Len(t) : /\ Begins(t, m, w) /\ (\A k \in from .. m - 1 : ~Begins(t, k, w))
                                       /\ Past(t, from, w) = m + Len(w)
    <3>1. PICK m \in from .. Len(t) : /\ Begins(t, m, w) /\ (\A k \in from .. m - 1 : ~Begins(t, k, w))
                                      /\ Past(t, from, w) = m + Len(w) BY <2>2
    <3>2. m # from BY <3>1, <1>3
    <3>3. m \in from + 1 .. Len(t) /\ \A k \in from + 1 .. m - 1 : k \in from .. m - 1 BY <3>2
    <3>4. \A k \in from + 1 .. m - 1 : ~Begins(t, k, w) BY <3>1, <3>3
    <3>5. Past(t, from + 1, w) = m + Len(w) BY <1>1, <3>1, <3>3, <3>4, PastIs
    <3> QED BY <1>3, <3>1, <3>5
  <2> QED BY <1>1, <2>1, <2>2, PastEnds
<1> QED BY <1>2, <1>3

\* What closes is the last of it.
LEMMA PastLast ==
    ASSUME NEW t \in Seq(Chars), NEW from \in 1 .. Len(t) + 1, NEW w, Len(w) \in Nat \ {0},
           Past(t, from, w) <= Len(t)
    PROVE  t[Past(t, from, w) - 1] = w[Len(w)]
<1>1. PICK m \in from .. Len(t) : Begins(t, m, w) /\ Past(t, from, w) = m + Len(w)
  <2>1. ~(Len(t) + 1 <= Len(t)) OBVIOUS
  <2> QED BY <2>1, PastEnds
<1> DEFINE r == m + Len(w) - 1
           s == SubSeq(t, m, r)
<1>2. r <= Len(t) /\ s = w BY <1>1 DEF Begins
<1>3. m \in 1 .. Len(t) + 1 /\ r \in m - 1 .. Len(t) BY <1>1, <1>2
<1>4. \A i \in 1 .. r - m + 1 : s[i] = t[m + i - 1]
  <2> HIDE DEF r
  <2> QED BY <1>3, StretchIs
<1>5. Len(w) \in 1 .. r - m + 1 /\ m + Len(w) - 1 = r /\ Past(t, from, w) - 1 = r BY <1>1
<1> HIDE DEF s, r
<1>6. s[Len(w)] = t[m + Len(w) - 1] BY <1>4, <1>5
<1> QED BY <1>2, <1>5, <1>6

\* The delimiter of a dollar quote ends in a dollar.
LEMMA TagLast ==
    ASSUME NEW t \in Seq(Chars), NEW i \in 1 .. Len(t), DollarQuoteTag(t, i) # <<>>
    PROVE  DollarQuoteTag(t, i)[Len(DollarQuoteTag(t, i))] = "$"
<1> DEFINE ends == {j \in i + 1 .. Len(t) : t[j] = "$" /\ \A k \in i + 1 .. j - 1 : Identifier(t[k])}
           m == Min(ends)
           d == SubSeq(t, i, m)
<1>1. ends # {} /\ DollarQuoteTag(t, i) = d BY DEF DollarQuoteTag
<1>2. m \in ends
  <2>1. ends \subseteq Nat OBVIOUS
  <2> HIDE DEF ends
  <2> QED BY <1>1, <2>1, LeastOf
<1>3. m \in i + 1 .. Len(t) /\ t[m] = "$" BY <1>2
<1> HIDE DEF m
<1>4. i \in 1 .. Len(t) + 1 /\ m \in i - 1 .. Len(t) BY <1>3
<1>5. Len(d) = m - i + 1 /\ \A k \in 1 .. m - i + 1 : d[k] = t[i + k - 1] BY <1>4, StretchIs
<1>6. m - i + 1 \in 1 .. m - i + 1 /\ i + (m - i + 1) - 1 = m BY <1>3
<1> HIDE DEF d
<1> QED BY <1>1, <1>3, <1>5, <1>6

\* A dollar that comes right after a lexeme does not follow a name's character.
LEMMA AfterLexeme ==
    ASSUME NEW t \in Seq(Chars), NEW i \in 1 .. Len(t), LexemeEnd(t, i) <= Len(t), t[LexemeEnd(t, i)] = "$"
    PROVE  ~Identifier(t[LexemeEnd(t, i) - 1])
<1> DEFINE e == LexemeEnd(t, i)
           quote == DollarQuoteTag(t, i)
<1>0. ASSUME NEW f \in 1 .. Len(t) + 1, NEW w, Len(w) \in Nat \ {0}, e = Past(t, f, w), w[Len(w)] # "x"
      PROVE  ~Identifier(t[e - 1])
  <2>1. Past(t, f, w) <= Len(t) BY <1>0
  <2>2. t[Past(t, f, w) - 1] = w[Len(w)] BY <2>1, <1>0, PastLast
  <2> HIDE DEF e
  <2> QED BY <2>2, <1>0 DEF Identifier
<1>1. CASE t[i] \in {"'", "\""}
  <2> DEFINE w == <<t[i]>>
  <2>0. w[1] = t[i] OBVIOUS
  <2>1. i + 1 \in 1 .. Len(t) + 1 /\ Len(w) = 1 /\ Len(w) \in Nat \ {0} OBVIOUS
  <2>3. w[1] # "x" BY <1>1, <2>0
  <2>2. e = Past(t, i + 1, w) BY <1>1, LexemeEndIs
  <2> HIDE DEF w
  <2> QED BY <2>1, <2>2, <2>3, <1>0
<1>2. CASE Begins(t, i, <<"-", "-">>)
  <2> DEFINE w == <<NL>>
  <2>0. i + 1 <= Len(t) BY <1>2, FirstOf
  <2>1. i + 2 \in 1 .. Len(t) + 1 /\ Len(w) = 1 /\ Len(w) \in Nat \ {0} /\ w[1] # "x" BY <2>0 DEF NL
  <2>2. e = Past(t, i + 2, w) BY <1>2, LexemeEndIs
  <2> HIDE DEF w
  <2> QED BY <2>1, <2>2, <1>0
<1>3. CASE Begins(t, i, <<"/", "*">>)
  <2> DEFINE w == <<"*", "/">>
  <2>0. i + 1 <= Len(t) BY <1>3, FirstOf
  <2>1. i + 2 \in 1 .. Len(t) + 1 /\ Len(w) = 2 /\ Len(w) \in Nat \ {0} /\ w[2] # "x" BY <2>0
  <2>2. e = Past(t, i + 2, w) BY <1>3, LexemeEndIs
  <2> HIDE DEF w
  <2> QED BY <2>1, <2>2, <1>0
<1>4. CASE quote # <<>>
  <2>1. Len(quote) \in 1 .. Len(t) + 1 - i BY <1>4, FirstOf
  <2>2. quote[Len(quote)] = "$" BY <1>4, TagLast
  <2>3. e = Past(t, i + Len(quote), quote) BY <1>4, LexemeEndIs
  <2> HIDE DEF quote
  <2>4. i + Len(quote) \in 1 .. Len(t) + 1 /\ Len(quote) \in Nat \ {0} BY <2>1
  <2> QED BY <2>2, <2>3, <2>4, <1>0
<1>5. CASE Identifier(t[i])
  <2> DEFINE ends == {j \in i + 1 .. Len(t) : ~Identifier(t[j]) /\ t[j] # "$"} \cup {Len(t) + 1}
  <2>1. ends \subseteq Nat /\ ends # {} OBVIOUS
  <2>2. e = Min(ends) BY <1>5, LexemeEndIs
  <2>3. Min(ends) \in ends
    <3> HIDE DEF ends
    <3> QED BY <2>1, LeastOf
  <2>4. e \in ends BY <2>2, <2>3
  <2> QED BY <2>4
<1>6. CASE ~(\/ t[i] \in {"'", "\""} \/ Begins(t, i, <<"-", "-">>) \/ Begins(t, i, <<"/", "*">>)
             \/ quote # <<>> \/ Identifier(t[i]))
  <2>1. e = i + 1 BY <1>6, LexemeEndIs
  <2>2. i + 1 - 1 = i OBVIOUS
  <2>3. ~Identifier(t[i]) BY <1>6
  <2> QED BY <2>1, <2>2, <2>3
<1> QED BY <1>1, <1>2, <1>3, <1>4, <1>5, <1>6

\* A name is of identifier characters and dollars, of these no two together.
LEMMA NameIs ==
    ASSUME NEW t \in Seq(Chars), ~Odd(t), NEW B, Boundaries(t, B), NEW s \in B, s \in 1 .. Len(t), Identifier(t[s]),
           NEW i, i \in s + 1 .. LexemeEnd(t, s) - 1
    PROVE  i \in 1 .. Len(t) /\ (Identifier(t[i]) \/ (t[i] = "$" /\ Identifier(t[i - 1])))
<1> DEFINE e == LexemeEnd(t, s)
           ends == {j \in s + 1 .. Len(t) : ~Identifier(t[j]) /\ t[j] # "$"} \cup {Len(t) + 1}
<1>0. e \in s + 1 .. Len(t) + 1 BY LexemeEndType
<1>1. e = Min(ends) BY LexemeEndIs
<1>2. \A y \in ends : e <= y
  <2>1. ends \subseteq Nat /\ ends # {} OBVIOUS
  <2> HIDE DEF ends, e
  <2> QED BY <1>1, <2>1, LeastOf
<1> HIDE DEF e
<1>3. \A j \in s + 1 .. e - 1 : j \in 1 .. Len(t) /\ (Identifier(t[j]) \/ t[j] = "$")
  <2> TAKE j \in s + 1 .. e - 1
  <2>1. j \in s + 1 .. Len(t) /\ ~(e <= j) BY <1>0
  <2>2. j \notin ends BY <2>1, <1>2
  <2> QED BY <2>1, <2>2
<1>4. i \in s + 1 .. e - 1 /\ i \in 1 .. Len(t) BY <1>3 DEF e
<1>5. ASSUME t[i] = "$" PROVE Identifier(t[i - 1])
  <2>1. CASE i - 1 = s BY <2>1
  <2>2. CASE i - 1 # s
    <3>1. i - 1 \in s + 1 .. e - 1 /\ i - 1 \in s + 1 .. e - 1 - 1 BY <2>2, <1>4, <1>0
    <3>2. SUFFICES ASSUME t[i - 1] = "$" PROVE FALSE BY <3>1, <1>3
    <3>3. Begins(t, i - 1, <<"$", "$">>)
      <4>1. i - 1 \in 1 .. Len(t) + 1 /\ i - 1 + 1 = i /\ i <= Len(t) BY <1>4, <3>1
      <4> QED BY <4>1, <3>2, <1>5, BeginsIs
    <3> DEFINE l == <<s, e - 1>>
    <3>4. l \in Lexemes(t)
      <4>1. s # Len(t) + 1 OBVIOUS
      <4> QED BY <4>1 DEF Boundaries, e
    <3>5. l[1] = s /\ l[2] = e - 1 OBVIOUS
    <3> HIDE DEF l
    <3>6. Identifier(t[l[1]]) /\ i - 1 \in l[1] + 1 .. l[2] - 1 BY <3>1, <3>5
    <3> DEFINE j == i - 1
    <3>7. Identifier(t[l[1]]) /\ j \in l[1] + 1 .. l[2] - 1 /\ Begins(t, j, <<"$", "$">>) BY <3>3, <3>6
    <3> HIDE DEF j
    <3>8. \E y \in l[1] + 1 .. l[2] - 1 : Identifier(t[l[1]]) /\ Begins(t, y, <<"$", "$">>) BY <3>7
    <3>9. ~\E x \in Lexemes(t) : \E y \in x[1] + 1 .. x[2] - 1 :
             Identifier(t[x[1]]) /\ Begins(t, y, <<"$", "$">>)
      <4> DEFINE D == <<"$", "$">>
                 C == <<"/", "*">>
      <4> HIDE DEF D, C
      <4>1. ~\E x \in Lexemes(t) : \E y \in x[1] + 1 .. x[2] - 1 : Identifier(t[x[1]]) /\ Begins(t, y, D) BY DEF Odd, D
      <4> QED BY <4>1 DEF D
    <3> QED BY <3>4, <3>8, <3>9
  <2> QED BY <2>1, <2>2
<1>6. Identifier(t[i]) \/ t[i] = "$" BY <1>3, <1>4
<1> QED BY <1>4, <1>5, <1>6
-----------------------------------------------------------------------------
(* The loop reads a text as the server does.                               *)

\* Where it is, at position p of the text in mode m, looking for w: before a
\* lexeme, within a name, or within a lexeme that ends where w does.
Place(t, B, p, m, w) ==
    IF m = "normal"
    THEN \/ p \in B /\ (p <= Len(t) /\ t[p] = "$" => ~Identifier(At(t, p - 1)))
         \/ \E s \in B : s < p /\ p < LexemeEnd(t, s) /\ s <= Len(t) /\ Identifier(t[s])
    ELSE \E s \in B : s < p /\ s <= Len(t) /\ LexemeEnd(t, s) = Past(t, p, w)

\* The end of a lexeme is such a place.
LEMMA PlaceAfter ==
    ASSUME NEW t \in Seq(Chars), NEW B, Boundaries(t, B), NEW s \in B, s <= Len(t), NEW w
    PROVE  Place(t, B, LexemeEnd(t, s), "normal", w)
<1> DEFINE e == LexemeEnd(t, s)
<1>1. s \in 1 .. Len(t) /\ e \in B /\ e \in s + 1 .. Len(t) + 1
  <2>1. B \subseteq 1 .. Len(t) + 1 BY DEF Boundaries
  <2>2. s \in 1 .. Len(t) BY <2>1
  <2> QED BY <2>2, LexemeEndType DEF Boundaries
<1>2. ASSUME e <= Len(t), t[e] = "$" PROVE ~Identifier(At(t, e - 1))
  <2>1. ~Identifier(t[e - 1]) BY <1>1, <1>2, AfterLexeme
  <2> HIDE DEF e
  <2>2. e - 1 \in DOMAIN t BY <1>1
  <2> QED BY <2>1, <2>2 DEF At
<1> HIDE DEF e
<1>3. Place(t, B, e, "normal", w) BY <1>1, <1>2 DEF Place
<1> QED BY <1>3 DEF e

\* What the loop opens at a character.
LEMMA OpensIs ==
    ASSUME text \in Seq(Chars), NEW i \in 1 .. Len(text)
    PROVE  /\ text[i] = "'" => Opens(i) = [mode |-> "single", n |-> 1]
           /\ text[i] = "\"" => Opens(i) = [mode |-> "double", n |-> 1]
           /\ Begins(text, i, <<"-", "-">>) => Opens(i) = [mode |-> "line", n |-> 2]
           /\ Begins(text, i, <<"/", "*">>) => Opens(i) = [mode |-> "block", n |-> 2]
           /\ ~Identifier(At(text, i - 1)) /\ DollarQuoteTag(text, i) # <<>> =>
                Opens(i) = [mode |-> "dollar", n |-> Len(DollarQuoteTag(text, i))]
           /\ ~(\/ text[i] \in {"'", "\""} \/ Begins(text, i, <<"-", "-">>) \/ Begins(text, i, <<"/", "*">>)
                \/ (~Identifier(At(text, i - 1)) /\ DollarQuoteTag(text, i) # <<>>)) =>
                Opens(i) = [mode |-> "normal", n |-> 1]
<1> DEFINE c == text[i]
           b == Begins(text, i, <<"-", "-">>)
           k == Begins(text, i, <<"/", "*">>)
           q == ~Identifier(At(text, i - 1)) /\ DollarQuoteTag(text, i) # <<>>
           d == [mode |-> "dollar", n |-> Len(DollarQuoteTag(text, i))]
           x1 == [mode |-> "single", n |-> 1]
           x2 == [mode |-> "double", n |-> 1]
           x3 == [mode |-> "line", n |-> 2]
           x4 == [mode |-> "block", n |-> 2]
           x5 == [mode |-> "normal", n |-> 1]
<1>1. Opens(i) = CASE c = "'" -> x1 [] c = "\"" -> x2 [] b -> x3 [] k -> x4 [] q -> d [] OTHER -> x5 BY DEF Opens
<1>2. (b => c = "-") /\ (k => c = "/") /\ (q => c = "$") BY FirstOf
<1> HIDE DEF c, b, k, q, d, x1, x2, x3, x4, x5
<1>3. /\ c = "'" => Opens(i) = x1
      /\ c = "\"" => Opens(i) = x2
      /\ b => Opens(i) = x3
      /\ k => Opens(i) = x4
      /\ q => Opens(i) = d
      /\ ~(c \in {"'", "\""} \/ b \/ k \/ q) => Opens(i) = x5 BY <1>1, <1>2
<1> QED BY <1>3 DEF c, b, k, q, d, x1, x2, x3, x4, x5

\* What a step takes of the text, and that no cut is passed over.
Advances(B) ==
    /\ text' = text /\ stmts' = stmts /\ at' \in at + 1 .. Len(text) + 1 /\ mode' # "done"
    /\ cur' = cur \o SubSeq(text, at, at' - 1) /\ Place(text, B, at', mode', Closer')
    /\ \A k \in at .. at' - 1 : ~(k \in B /\ text[k] = ";")

\* A character in normal mode, or what opens there.
LEMMA NormalMoves ==
    ASSUME SplitInv, ~Odd(text), NEW B, Boundaries(text, B), Place(text, B, at, mode, Closer), InNormal
    PROVE  Advances(B)
<1>1. /\ mode = "normal" /\ at <= Len(text) /\ text[at] # ";" /\ text' = text /\ stmts' = stmts
      /\ cur' = cur \o SubSeq(text, at, at + Opens(at).n - 1)
      /\ at' = at + Opens(at).n /\ mode' = Opens(at).mode
      /\ tag' = IF Opens(at).mode = "dollar" THEN DollarQuoteTag(text, at) ELSE tag BY DEF InNormal, Take
<1>2. text \in Seq(Chars) /\ at \in 1 .. Len(text)
  <2>1. text \in Seq(Chars) /\ at \in 1 .. Len(text) + 1 /\ at <= Len(text) BY <1>1 DEF SplitInv, SplitTypeOK
  <2> QED BY <2>1
<1>i. at \in Nat /\ at >= 1 /\ Len(text) \in Nat BY <1>2
<1>b. /\ B \subseteq 1 .. Len(text) + 1
      /\ \A i \in B : i <= Len(text) => LexemeEnd(text, i) \in B /\ \A k \in B : k <= i \/ k >= LexemeEnd(text, i)
      BY DEF Boundaries
<1> DEFINE Goes(n, m) == /\ text' = text /\ stmts' = stmts /\ at' = at + n /\ mode' = m
                         /\ cur' = cur \o SubSeq(text, at, at + n - 1)
<1>g. ASSUME NEW n, NEW m, Opens(at) = [mode |-> m, n |-> n] PROVE Goes(n, m)
  <2> DEFINE o == Opens(at)
  <2>1. o.n = n /\ o.mode = m BY <1>g
  <2> HIDE DEF o
  <2>2. /\ cur' = cur \o SubSeq(text, at, at + o.n - 1) /\ at' = at + o.n /\ mode' = o.mode
        /\ text' = text /\ stmts' = stmts BY <1>1 DEF o
  <2> QED BY <2>1, <2>2
<1>3. ASSUME NEW n \in Nat \ {0}, NEW m, Goes(n, m), m # "done", at + n <= Len(text) + 1,
             Place(text, B, at + n, m, Closer'), \A k \in at .. at + n - 1 : ~(k \in B /\ text[k] = ";")
      PROVE  Advances(B)
  <2>0. at' = at + n /\ mode' = m BY <1>3
  <2>1. at' - 1 = at + n - 1 BY <2>0, <1>i
  <2>2. at' \in at + 1 .. Len(text) + 1
    <3> DEFINE x == at + n
               y == Len(text)
    <3>1. x \in at + 1 .. y + 1
      <4>1. at + n <= y + 1 BY <1>3
      <4> HIDE DEF y, Goes
      <4> QED BY <4>1, <1>i DEF y
    <3> HIDE DEF Goes
    <3> QED BY <3>1, <2>0
  <2> QED BY <1>3, <2>0, <2>1, <2>2 DEF Advances
<1>4. CASE \E s \in B : s < at /\ at < LexemeEnd(text, s) /\ s <= Len(text) /\ Identifier(text[s])
  <2>1. PICK s \in B : s < at /\ at < LexemeEnd(text, s) /\ s <= Len(text) /\ Identifier(text[s]) BY <1>4
  <2> DEFINE e == LexemeEnd(text, s)
  <2>2. s \in 1 .. Len(text) /\ e \in s + 1 .. Len(text) + 1
    <3>1. s \in 1 .. Len(text) BY <2>1, <1>b
    <3> QED BY <3>1, <1>2, LexemeEndType
  <2>3. at \in s + 1 .. e - 1 BY <1>2, <2>1, <2>2
  <2>4. Identifier(text[at]) \/ (text[at] = "$" /\ Identifier(text[at - 1]))
    <3>1. at \in s + 1 .. LexemeEnd(text, s) - 1 BY <2>3
    <3> QED BY <3>1, <1>2, <2>1, <2>2, NameIs
  <2>5. text[at] = "$" => Identifier(At(text, at - 1))
    <3>1. at - 1 \in DOMAIN text BY <2>3, <2>2, <1>2
    <3>2. text[at] = "$" => Identifier(text[at - 1]) BY <2>4 DEF Identifier
    <3> QED BY <3>1, <3>2 DEF At
  <2>6. Opens(at) = [mode |-> "normal", n |-> 1]
    <3>1. text[at] \in {"x", "$"} BY <2>4 DEF Identifier
    <3>2. ~(\/ text[at] \in {"'", "\""} \/ Begins(text, at, <<"-", "-">>) \/ Begins(text, at, <<"/", "*">>)
            \/ (~Identifier(At(text, at - 1)) /\ DollarQuoteTag(text, at) # <<>>))
      <4>1. Begins(text, at, <<"-", "-">>) => text[at] = "-" BY <1>2, FirstOf
      <4>2. Begins(text, at, <<"/", "*">>) => text[at] = "/" BY <1>2, FirstOf
      <4>3. DollarQuoteTag(text, at) # <<>> => text[at] = "$" BY <1>2, FirstOf
      <4> QED BY <3>1, <2>5, <4>1, <4>2, <4>3
    <3> QED BY <3>2, <1>2, OpensIs
  <2>7. Goes(1, "normal") BY <1>g, <2>6
  <2>8. Place(text, B, at + 1, "normal", Closer')
    <3>1. CASE at + 1 = e
      <4>1. Place(text, B, LexemeEnd(text, s), "normal", Closer') BY <1>2, <2>1, PlaceAfter
      <4> QED BY <3>1, <4>1
    <3>2. CASE at + 1 # e
      <4>1. s < at + 1 /\ at + 1 < e BY <3>2, <2>2, <2>3, <1>2
      <4> QED BY <4>1, <2>1 DEF Place
    <3> QED BY <3>1, <3>2
  <2>9. \A k \in at .. at + 1 - 1 : ~(k \in B /\ text[k] = ";")
    <3>1. \A k \in at .. at + 1 - 1 : k = at BY <1>2
    <3> QED BY <3>1, <1>1
  <2>10. at + 1 <= Len(text) + 1 /\ 1 \in Nat \ {0} BY <1>2
  <2> HIDE DEF Goes
  <2> QED BY <2>7, <2>8, <2>9, <2>10, <1>3
<1>5. CASE at \in B /\ (at <= Len(text) /\ text[at] = "$" => ~Identifier(At(text, at - 1)))
  <2> DEFINE e == LexemeEnd(text, at)
             quote == DollarQuoteTag(text, at)
  <2>1. e \in at + 1 .. Len(text) + 1 BY <1>2, LexemeEndType
  <2>2. \A k \in B : k <= at \/ k >= e BY <1>5, <1>1, <1>b
  <2>3. ASSUME NEW n \in Nat \ {0}, NEW m, Goes(n, m), m # "done", at + n <= e, Place(text, B, at + n, m, Closer')
        PROVE  Advances(B)
    <3> HIDE DEF e
    <3>0. at + n <= e BY <2>3
    <3>1. at + n <= Len(text) + 1
      <4> HIDE DEF Goes
      <4> QED BY <2>1, <3>0, <1>i
    <3>2. ASSUME NEW k \in at .. at + n - 1, k \in B, text[k] = ";" PROVE FALSE
      <4>1. k # at BY <3>2, <1>1
      <4>2. k <= at \/ k >= e BY <3>2, <2>2
      <4> HIDE DEF Goes
      <4>3. k \in Nat /\ e \in Nat /\ k > at /\ k < at + n BY <4>1, <1>i, <2>1
      <4> QED BY <4>2, <4>3, <3>0, <1>i
    <3> HIDE DEF Goes
    <3> QED BY <3>1, <3>2, <2>3, <1>3
  <2>4. ASSUME NEW n \in Nat \ {0}, NEW m, m \notin {"normal", "done"}, Goes(n, m), NEW w, Closer' = w,
               Len(w) \in Nat \ {0}, at + n <= Len(text) + 1, e = Past(text, at + n, w)
        PROVE  Advances(B)
    <3>1. at + n \in 1 .. Len(text) + 1 BY <2>4, <1>2
    <3>2. Past(text, at + n, w) \in at + n .. Len(text) + 1 BY <3>1, <2>4, <1>2, PastIs
    <3>3. at + n <= e BY <3>1, <3>2, <2>4
    <3>4. Place(text, B, at + n, m, Closer')
      <4>1. at < at + n /\ at <= Len(text) /\ at \in B BY <1>2, <1>5, <2>4
      <4> QED BY <4>1, <2>4 DEF Place
    <3> HIDE DEF Goes, e
    <3> QED BY <2>3, <2>4, <3>3, <3>4
  <2>5. CASE text[at] = "'"
    <3>1. Opens(at) = [mode |-> "single", n |-> 1] BY <2>5, <1>2, OpensIs
    <3>2. Goes(1, "single") BY <1>g, <3>1
    <3> DEFINE w == <<text[at]>>
    <3>3. e = Past(text, at + 1, w) BY <2>5, <1>2, LexemeEndIs
    <3>4. Closer' = w
      <4>1. mode' = "single" BY <3>2
      <4> QED BY <4>1, <2>5 DEF Closer
    <3>5. Len(w) = 1 /\ Len(w) \in Nat \ {0} /\ at + 1 <= Len(text) + 1 /\ 1 \in Nat \ {0} BY <1>2
    <3> HIDE DEF Goes, e, w
    <3> QED BY <3>2, <3>3, <3>4, <3>5, <2>4
  <2>6. CASE text[at] = "\""
    <3>1. Opens(at) = [mode |-> "double", n |-> 1] BY <2>6, <1>2, OpensIs
    <3>2. Goes(1, "double") BY <1>g, <3>1
    <3> DEFINE w == <<text[at]>>
    <3>3. e = Past(text, at + 1, w) BY <2>6, <1>2, LexemeEndIs
    <3>4. Closer' = w
      <4>1. mode' = "double" BY <3>2
      <4> QED BY <4>1, <2>6 DEF Closer
    <3>5. Len(w) = 1 /\ Len(w) \in Nat \ {0} /\ at + 1 <= Len(text) + 1 /\ 1 \in Nat \ {0} BY <1>2
    <3> HIDE DEF Goes, e, w
    <3> QED BY <3>2, <3>3, <3>4, <3>5, <2>4
  <2>7. CASE Begins(text, at, <<"-", "-">>)
    <3>1. Opens(at) = [mode |-> "line", n |-> 2] BY <2>7, <1>2, OpensIs
    <3>2. Goes(2, "line") BY <1>g, <3>1
    <3> DEFINE w == <<NL>>
    <3>3. e = Past(text, at + 2, w) BY <2>7, <1>2, LexemeEndIs
    <3>4. Closer' = w
      <4>1. mode' = "line" BY <3>2
      <4> QED BY <4>1 DEF Closer
    <3>5. at + 1 <= Len(text) BY <2>7, <1>2, FirstOf
    <3>6. Len(w) = 1 /\ Len(w) \in Nat \ {0} /\ at + 2 <= Len(text) + 1 /\ 2 \in Nat \ {0} BY <3>5, <1>2
    <3> HIDE DEF Goes, e, w
    <3> QED BY <3>2, <3>3, <3>4, <3>6, <2>4
  <2>8. CASE Begins(text, at, <<"/", "*">>)
    <3>1. Opens(at) = [mode |-> "block", n |-> 2] BY <2>8, <1>2, OpensIs
    <3>2. Goes(2, "block") BY <1>g, <3>1
    <3> DEFINE w == <<"*", "/">>
    <3>3. e = Past(text, at + 2, w) BY <2>8, <1>2, LexemeEndIs
    <3>4. Closer' = w
      <4>1. mode' = "block" BY <3>2
      <4> QED BY <4>1 DEF Closer
    <3>5. at + 1 <= Len(text) BY <2>8, <1>2, FirstOf
    <3>6. Len(w) = 2 /\ Len(w) \in Nat \ {0} /\ at + 2 <= Len(text) + 1 /\ 2 \in Nat \ {0} BY <3>5, <1>2
    <3> HIDE DEF Goes, e, w
    <3> QED BY <3>2, <3>3, <3>4, <3>6, <2>4
  <2>9. CASE quote # <<>>
    <3>0. text[at] = "$" /\ Len(quote) \in 1 .. Len(text) + 1 - at BY <2>9, <1>2, FirstOf
    <3>1. Opens(at) = [mode |-> "dollar", n |-> Len(quote)]
      <4>1. ~Identifier(At(text, at - 1)) BY <3>0, <1>5, <1>1
      <4> QED BY <4>1, <2>9, <1>2, OpensIs
    <3>2. e = Past(text, at + Len(quote), quote) BY <2>9, <1>2, LexemeEndIs
    <3>3. mode' = "dollar" /\ tag' = quote
      <4>1. mode' = "dollar" BY <3>1, <1>g
      <4>2. Opens(at).mode = "dollar" BY <4>1, <1>1
      <4> QED BY <4>1, <4>2, <1>1
    <3>4. Closer' = quote
      <4> HIDE DEF quote
      <4> QED BY <3>3 DEF Closer
    <3> HIDE DEF quote
    <3>5. Goes(Len(quote), "dollar") BY <1>g, <3>1
    <3>6. Len(quote) \in Nat \ {0} /\ at + Len(quote) <= Len(text) + 1 BY <3>0, <1>2
    <3> HIDE DEF Goes, e
    <3> QED BY <3>2, <3>4, <3>5, <3>6, <2>4
  <2>10. CASE ~(\/ text[at] \in {"'", "\""} \/ Begins(text, at, <<"-", "-">>) \/ Begins(text, at, <<"/", "*">>)
                \/ quote # <<>>)
    <3>1. Opens(at) = [mode |-> "normal", n |-> 1] BY <2>10, <1>2, OpensIs
    <3>2. Goes(1, "normal") BY <1>g, <3>1
    <3>3. Place(text, B, at + 1, "normal", Closer')
      <4>1. Place(text, B, LexemeEnd(text, at), "normal", Closer') BY <1>1, <1>2, <1>5, PlaceAfter
      <4>2. CASE at + 1 = e BY <4>1, <4>2
      <4>3. CASE at + 1 # e
        <5>1. Identifier(text[at])
          <6>1. ~Identifier(text[at]) => LexemeEnd(text, at) = at + 1 BY <2>10, <1>2, LexemeEndIs
          <6> QED BY <6>1, <4>3
        <5>2. at < at + 1 /\ at + 1 < e /\ at <= Len(text)
          <6> HIDE DEF e
          <6> QED BY <2>1, <4>3, <1>2
        <5> QED BY <5>1, <5>2, <1>5 DEF Place
      <4> QED BY <4>2, <4>3
    <3>4. at + 1 <= e /\ 1 \in Nat \ {0}
      <4> HIDE DEF e
      <4> QED BY <2>1, <1>2
    <3> HIDE DEF Goes, e
    <3> QED BY <3>2, <3>3, <3>4, <2>3
  <2> QED BY <2>5, <2>6, <2>7, <2>8, <2>9, <2>10
<1>6. \/ at \in B /\ (at <= Len(text) /\ text[at] = "$" => ~Identifier(At(text, at - 1)))
      \/ \E s \in B : s < at /\ at < LexemeEnd(text, s) /\ s <= Len(text) /\ Identifier(text[s]) BY <1>1 DEF Place
<1> QED BY <1>4, <1>5, <1>6

\* A character inside of a lexeme, or what closes it.
LEMMA InsideMoves ==
    ASSUME SplitInv, NEW B, Boundaries(text, B), Place(text, B, at, mode, Closer), Inside
    PROVE  Advances(B)
<1> DEFINE w == Closer
<1>1. /\ mode \notin {"normal", "done"} /\ at <= Len(text) /\ tag' = tag /\ text' = text /\ stmts' = stmts
      /\ \/ /\ Begins(text, at, w) /\ at' = at + Len(w) /\ mode' = "normal"
            /\ cur' = cur \o SubSeq(text, at, at + Len(w) - 1)
         \/ ~Begins(text, at, w) /\ at' = at + 1 /\ mode' = mode /\ cur' = cur \o SubSeq(text, at, at + 1 - 1)
      BY DEF Inside, Take
<1>2. text \in Seq(Chars) /\ at \in 1 .. Len(text)
  <2>1. text \in Seq(Chars) /\ at \in 1 .. Len(text) + 1 /\ at <= Len(text) BY <1>1 DEF SplitInv, SplitTypeOK
  <2> QED BY <2>1
<1>i. at \in Nat /\ at >= 1 /\ Len(text) \in Nat BY <1>2
<1>3. Len(w) \in Nat \ {0}
  <2>1. CASE mode = "dollar"
    <3>1. w = tag /\ tag \in Seq(Chars) /\ tag # <<>> BY <2>1 DEF Closer, SplitInv, SplitTypeOK
    <3> HIDE DEF w
    <3> QED BY <3>1
  <2>2. CASE mode \in {"single", "double", "line"}
    <3>1. \E c : w = <<c>> BY <2>2 DEF Closer
    <3> HIDE DEF w
    <3> QED BY <3>1
  <2>3. CASE mode = "block"
    <3>1. w = <<"*", "/">> BY <2>3 DEF Closer
    <3> HIDE DEF w
    <3> QED BY <3>1
  <2> QED BY <1>1, <2>1, <2>2, <2>3 DEF SplitInv, SplitTypeOK
<1>4. PICK s \in B : s < at /\ s <= Len(text) /\ LexemeEnd(text, s) = Past(text, at, w) BY <1>1 DEF Place
<1> DEFINE e == LexemeEnd(text, s)
<1>5. mode' = mode => Closer' = w BY <1>1 DEF Closer
<1> HIDE DEF w
<1>6. e = IF Begins(text, at, w) THEN at + Len(w) ELSE Past(text, at + 1, w) BY <1>2, <1>3, <1>4, PastStep
<1>7. e \in at .. Len(text) + 1
  <2>1. at \in 1 .. Len(text) + 1 BY <1>2
  <2> QED BY <2>1, <1>2, <1>3, <1>4, PastIs
<1>8. at' \in at + 1 .. e /\ Place(text, B, at', mode', Closer')
      /\ cur' = cur \o SubSeq(text, at, at' - 1) /\ mode' # "done"
  <2>1. CASE Begins(text, at, w)
    <3>1. at' = at + Len(w) /\ mode' = "normal" /\ cur' = cur \o SubSeq(text, at, at + Len(w) - 1) BY <1>1, <2>1
    <3>2. at' = e BY <3>1, <2>1, <1>6
    <3>3. Place(text, B, LexemeEnd(text, s), "normal", Closer') BY <1>2, <1>4, PlaceAfter
    <3>4. at' \in at + 1 .. e
      <4> HIDE DEF e
      <4>1. e = at + Len(w) BY <3>1, <3>2
      <4>2. e \in at + 1 .. e BY <4>1, <1>i, <1>3
      <4> QED BY <4>2, <3>2
    <3>5. at' - 1 = at + Len(w) - 1 BY <3>1, <1>i, <1>3
    <3>6. Place(text, B, at', mode', Closer') BY <3>1, <3>2, <3>3
    <3>7. cur' = cur \o SubSeq(text, at, at' - 1) BY <3>1, <3>5
    <3> HIDE DEF e
    <3> QED BY <3>1, <3>4, <3>6, <3>7
  <2>2. CASE ~Begins(text, at, w)
    <3>1. at' = at + 1 /\ mode' = mode /\ cur' = cur \o SubSeq(text, at, at + 1 - 1) BY <1>1, <2>2
    <3>2. e = Past(text, at + 1, w) BY <2>2, <1>6
    <3>3. e \in at + 1 .. Len(text) + 1
      <4>1. at + 1 \in 1 .. Len(text) + 1 BY <1>2
      <4> QED BY <4>1, <3>2, <1>2, <1>3, PastIs
    <3>4. Place(text, B, at + 1, mode, w)
      <4>1. s < at + 1
        <5>1. s \in 1 .. Len(text) + 1 BY DEF Boundaries
        <5> QED BY <5>1, <1>2, <1>4
      <4> QED BY <4>1, <3>2, <1>1, <1>4 DEF Place
    <3>5. at' \in at + 1 .. e
      <4> HIDE DEF e
      <4>1. at + 1 \in at + 1 .. e BY <3>3, <1>i
      <4> QED BY <3>1, <4>1
    <3>6. at' - 1 = at + 1 - 1 BY <3>1, <1>i
    <3>7. cur' = cur \o SubSeq(text, at, at' - 1) BY <3>1, <3>6
    <3>8. Place(text, B, at', mode', Closer') BY <3>1, <3>4, <1>5
    <3>9. mode' # "done" BY <3>1, <1>1
    <3> HIDE DEF e
    <3> QED BY <3>5, <3>7, <3>8, <3>9
  <2> QED BY <2>1, <2>2
<1>9. ASSUME NEW k \in at .. at' - 1, k \in B PROVE FALSE
  <2>1. k <= s \/ k >= e BY <1>4, <1>9 DEF Boundaries
  <2>2. s \in 1 .. Len(text) + 1 BY DEF Boundaries
  <2> HIDE DEF e
  <2>3. s \in Nat /\ s < at /\ e \in Nat /\ at' \in Nat /\ at' <= e BY <2>2, <1>i, <1>4, <1>7, <1>8
  <2> DEFINE a == at'
  <2> HIDE DEF a
  <2>4. k \in at .. a - 1 /\ a \in Nat /\ a <= e BY <1>9, <2>3 DEF a
  <2>5. k \in Nat /\ k >= at /\ k < a BY <2>4, <1>i
  <2> QED BY <2>1, <2>3, <2>4, <2>5, <1>i
<1>10. at' \in at + 1 .. Len(text) + 1
  <2> HIDE DEF e
  <2> QED BY <1>2, <1>7, <1>8
<1> QED BY <1>1, <1>8, <1>9, <1>10 DEF Advances
-----------------------------------------------------------------------------
(* What it has run and collected.                                          *)

\* Two sequences that agree, but for one element more at the end.
LEMMA AppendIs ==
    ASSUME NEW S, NEW b \in Seq(S), NEW y \in S, NEW a \in Seq(S), Len(a) = Len(b) + 1, a[Len(b) + 1] = y,
           \A i \in 1 .. Len(b) : a[i] = b[i]
    PROVE  a = Append(b, y)
<1> DEFINE d == Append(b, y)
<1>1. d \in Seq(S) /\ Len(d) = Len(b) + 1 /\ d[Len(b) + 1] = y /\ \A i \in 1 .. Len(b) : d[i] = b[i]
      BY AppendProperties
<1> HIDE DEF d
<1>2. \A i \in 1 .. Len(a) : i = Len(b) + 1 \/ i \in 1 .. Len(b) OBVIOUS
<1>3. \A i \in 1 .. Len(a) : a[i] = d[i] BY <1>1, <1>2
<1>4. a = d BY <1>1, <1>3
<1> QED BY <1>4 DEF d

\* What is run of a stretch is a statement or nothing.
LEMMA KeptType == ASSUME NEW u \in Seq(Chars) PROVE Kept(u) \in Seq(Seq(Chars))
<1> DEFINE x == TrimSpace(u)
           U == Seq(Chars)
<1>1. x \in U BY TrimTrimmed
<1>2. Kept(u) = <<>> \/ Kept(u) = <<x>> BY DEF Kept
<1> HIDE DEF x, U
<1>3. <<>> \in Seq(U) /\ <<x>> \in Seq(U) BY <1>1
<1>4. Kept(u) \in Seq(U) BY <1>2, <1>3
<1> QED BY <1>4 DEF U

\* A stretch that ends is a statement more, unless it is blank; of it is run
\* what the server reads in it.
LEMMA FlushIs ==
    ASSUME stmts \in Seq(Seq(Chars)), NEW u \in Seq(Chars)
    PROVE  /\ Flush(u) \in Seq(Seq(Chars))
           /\ ScriptStatements(Flush(u)) = ScriptStatements(stmts) \o Kept(u)
<1> DEFINE U == Seq(Chars)
           x == TrimSpace(u)
           Run(y) == IF StripLeadingComments(TrimSpace(y)) = <<>> THEN <<>> ELSE <<y>>
           All(s) == [k \in DOMAIN s |-> Run(s[k])]
<1>1. x \in U /\ Trimmed(x) /\ TrimSpace(x) = x BY TrimTrimmed
<1>2. \A s : ScriptStatements(s) = FlattenSeq(All(s)) BY DEF ScriptStatements
<1>3. \A y \in U : Run(y) \in Seq(U)
  <2> HIDE DEF U
  <2> QED OBVIOUS
<1>4. Run(x) = Kept(u) \/ x = <<>>
  <2>1. StripLeadingComments(x) = <<>> <=> OnlyLineComments(x) BY <1>1, StripLeavesNothing
  <2>2. Run(x) = IF OnlyLineComments(x) THEN <<>> ELSE <<x>> BY <1>1, <2>1
  <2>3. x # <<>> => Kept(u) = IF OnlyLineComments(x) THEN <<>> ELSE <<x>> BY DEF Kept
  <2> QED BY <2>2, <2>3
<1>5. \A s \in Seq(U) : All(s) \in Seq(Seq(U)) /\ Len(All(s)) = Len(s) /\ \A k \in 1 .. Len(s) : All(s)[k] = Run(s[k])
  <2> TAKE s \in Seq(U)
  <2> HIDE DEF U, Run
  <2>1. DOMAIN s = 1 .. Len(s) /\ Len(s) \in Nat OBVIOUS
  <2>2. \A k \in 1 .. Len(s) : s[k] \in U OBVIOUS
  <2>3. \A k \in 1 .. Len(s) : Run(s[k]) \in Seq(U) BY <2>2, <1>3
  <2> QED BY <2>1, <2>3
<1>6. CASE x = <<>>
  <2>1. Flush(u) = stmts /\ Kept(u) = <<>> BY <1>6 DEF Flush, Kept
  <2>2. ScriptStatements(stmts) \in Seq(U)
    <3>1. stmts \in Seq(U) OBVIOUS
    <3> HIDE DEF U, All
    <3>2. All(stmts) \in Seq(Seq(U)) BY <3>1, <1>5
    <3>3. FlattenSeq(All(stmts)) \in Seq(U) BY <3>2, FlattenSeqElements
    <3> QED BY <3>3, <1>2
  <2>3. ScriptStatements(stmts) \o <<>> = ScriptStatements(stmts)
    <3> HIDE DEF U
    <3> QED BY <2>2
  <2> QED BY <2>1, <2>3
<1>7. CASE x # <<>>
  <2> DEFINE s == Append(stmts, x)
  <2>1. Flush(u) = s /\ Kept(u) = Run(x) BY <1>4, <1>7 DEF Flush
  <2>2. /\ stmts \in Seq(U) /\ s \in Seq(U) /\ Len(s) = Len(stmts) + 1 /\ s[Len(stmts) + 1] = x
        /\ \A i \in 1 .. Len(stmts) : s[i] = stmts[i] /\ Len(stmts) \in Nat
    <3>1. stmts \in Seq(U) OBVIOUS
    <3> HIDE DEF U, x
    <3> QED BY <3>1, <1>1, AppendProperties
  <2> HIDE DEF s, U, x
  <2>3. All(s) = Append(All(stmts), Run(x))
    <3> DEFINE a == All(s)
               b == All(stmts)
               y == Run(x)
    <3>1. a \in Seq(Seq(U)) /\ Len(a) = Len(s) /\ \A k \in 1 .. Len(s) : a[k] = Run(s[k]) BY <1>5, <2>2
    <3>2. b \in Seq(Seq(U)) /\ Len(b) = Len(stmts) /\ \A k \in 1 .. Len(stmts) : b[k] = Run(stmts[k]) BY <1>5, <2>2
    <3>3. y \in Seq(U) BY <1>1, <1>3
    <3> HIDE DEF a, b, y, Run
    <3>n. Len(stmts) \in Nat BY <2>2
    <3>4. Len(a) = Len(b) + 1 BY <3>1, <3>2, <2>2
    <3>5. a[Len(b) + 1] = y
      <4>1. Len(b) + 1 \in 1 .. Len(s) /\ s[Len(b) + 1] = x BY <3>n, <3>2, <2>2
      <4> QED BY <4>1, <3>1 DEF y
    <3>6. \A i \in 1 .. Len(b) : a[i] = b[i]
      <4> TAKE i \in 1 .. Len(b)
      <4>1. i \in 1 .. Len(s) /\ i \in 1 .. Len(stmts) BY <3>n, <3>2, <2>2
      <4>2. s[i] = stmts[i] BY <4>1, <2>2
      <4> QED BY <4>1, <4>2, <3>1, <3>2
    <3> DEFINE W == Seq(U)
    <3>7. a \in Seq(W) /\ b \in Seq(W) /\ y \in W BY <3>1, <3>2, <3>3
    <3> HIDE DEF W
    <3>8. a = Append(b, y) BY <3>4, <3>5, <3>6, <3>7, AppendIs
    <3> QED BY <3>8 DEF a, b, y
  <2>4. FlattenSeq(Append(All(stmts), Run(x))) = FlattenSeq(All(stmts)) \o Run(x)
    <3>1. All(stmts) \in Seq(Seq(U)) /\ Run(x) \in Seq(U) BY <1>1, <1>3, <1>5, <2>2
    <3> HIDE DEF All, Run
    <3> QED BY <3>1, FlattenAppend
  <2>5. ScriptStatements(s) = FlattenSeq(All(s)) /\ ScriptStatements(stmts) = FlattenSeq(All(stmts)) BY <1>2
  <2> HIDE DEF All, Run
  <2>6. ScriptStatements(s) = ScriptStatements(stmts) \o Kept(u) BY <2>1, <2>3, <2>4, <2>5
  <2> QED BY <2>1, <2>2, <2>6 DEF U
<1> QED BY <1>6, <1>7

\* What is run of the stretches between c.
RunOf(t, c) == FlattenSeq([k \in 1 .. Len(c) - 1 |-> Kept(SubSeq(t, c[k] + 1, c[k + 1] - 1))])

\* The loop has cut where the server does up to position p; u is what came
\* after the last cut, out what is run of the stretches before it.
Cutting(t, p, u, out) ==
    \E c \in Seq(Nat) :
       /\ c # <<>> /\ Ascending(c) /\ Range(c) = {0} \cup {i \in Cuts(t) : i < p}
       /\ u = SubSeq(t, c[Len(c)] + 1, p - 1) /\ out = RunOf(t, c)

\* One more cut, and what is run of one more stretch.
LEMMA CutHere ==
    ASSUME NEW t \in Seq(Chars), NEW p \in 1 .. Len(t) + 1, NEW c \in Seq(Nat), c # <<>>, Ascending(c),
           Range(c) \subseteq 0 .. p - 1
    PROVE  /\ Append(c, p) \in Seq(Nat) /\ Append(c, p) # <<>> /\ Ascending(Append(c, p))
           /\ Range(Append(c, p)) = Range(c) \cup {p}
           /\ Append(c, p)[Len(Append(c, p))] = p
           /\ SubSeq(t, c[Len(c)] + 1, p - 1) \in Seq(Chars)
           /\ RunOf(t, Append(c, p)) = RunOf(t, c) \o Kept(SubSeq(t, c[Len(c)] + 1, p - 1))
<1> DEFINE d == Append(c, p)
           m == Len(c)
           U == Seq(Chars)
           K(x, y) == Kept(SubSeq(t, x + 1, y - 1))
<1>1. /\ d \in Seq(Nat) /\ d # <<>> /\ Len(d) = m + 1 /\ d[m + 1] = p /\ \A i \in 1 .. m : d[i] = c[i]
      /\ m \in Nat /\ m >= 1
  <2> DEFINE S == Nat
  <2>1. p \in S /\ c \in Seq(S) /\ m \in Nat /\ m >= 1 /\ m = Len(c) OBVIOUS
  <2> HIDE DEF S, m
  <2>2. /\ Append(c, p) \in Seq(S) /\ Append(c, p) # <<>> /\ Len(Append(c, p)) = Len(c) + 1
        /\ Append(c, p)[Len(c) + 1] = p /\ \A i \in 1 .. Len(c) : Append(c, p)[i] = c[i]
        BY <2>1, AppendProperties
  <2>3. /\ d \in Seq(S) /\ d # <<>> /\ Len(d) = Len(c) + 1 /\ d[Len(c) + 1] = p
        /\ \A i \in 1 .. Len(c) : d[i] = c[i] BY <2>2
  <2> HIDE DEF d
  <2>4. d \in Seq(Nat) BY <2>3 DEF S
  <2> QED BY <2>1, <2>3, <2>4
<1>2. \A i \in 1 .. m : c[i] \in 0 .. p - 1
  <2>1. \A i \in 1 .. m : c[i] \in Range(c) BY DEF Range
  <2> QED BY <2>1
<1> HIDE DEF d
<1>3. Ascending(d)
  <2>1. SUFFICES ASSUME NEW i \in 1 .. m + 1, NEW j \in 1 .. m + 1, i < j PROVE d[i] < d[j] BY <1>1 DEF Ascending
  <2>2. i \in 1 .. m /\ d[i] = c[i] BY <2>1, <1>1
  <2>3. CASE j = m + 1 BY <2>2, <2>3, <1>1, <1>2
  <2>4. CASE j # m + 1
    <3>1. j \in 1 .. m /\ d[j] = c[j] BY <2>4, <1>1, SMTT(30)
    <3>2. c[i] < c[j] BY <2>1, <2>2, <3>1 DEF Ascending
    <3> QED BY <2>2, <3>1, <3>2
  <2> QED BY <2>3, <2>4
<1>4. Range(d) = Range(c) \cup {p}
  <2>1. DOMAIN d = 1 .. m + 1 /\ DOMAIN c = 1 .. m BY <1>1
  <2>2. Range(d) = {d[i] : i \in 1 .. m + 1} /\ Range(c) = {c[i] : i \in 1 .. m} BY <2>1 DEF Range
  <2>3. 1 .. m + 1 = (1 .. m) \cup {m + 1} BY <1>1
  <2> HIDE DEF m
  <2>4. {d[i] : i \in 1 .. m + 1} = {d[i] : i \in 1 .. m} \cup {d[m + 1]} BY <2>3
  <2>5. {d[i] : i \in 1 .. m} = {c[i] : i \in 1 .. m} BY <1>1
  <2> QED BY <2>2, <2>4, <2>5, <1>1
<1>5. \A x \in 0 .. Len(t), y \in 1 .. Len(t) + 1 : x < y => SubSeq(t, x + 1, y - 1) \in U /\ K(x, y) \in Seq(U)
  <2> TAKE x \in 0 .. Len(t), y \in 1 .. Len(t) + 1
  <2> HAVE x < y
  <2>1. x + 1 \in 1 .. Len(t) + 1 /\ y - 1 \in x + 1 - 1 .. Len(t) OBVIOUS
  <2>2. SubSeq(t, x + 1, y - 1) \in U BY <2>1, StretchIs
  <2> QED BY <2>2, KeptType
<1>6. m \in 1 .. m /\ c[m] \in 0 .. Len(t) /\ c[m] < p
  <2>1. m \in 1 .. m BY <1>1
  <2>2. c[m] \in 0 .. p - 1 BY <2>1, <1>2
  <2> QED BY <2>1, <2>2
<1>7. SubSeq(t, c[m] + 1, p - 1) \in U /\ K(c[m], p) \in Seq(U) BY <1>5, <1>6
<1> DEFINE a == [k \in 1 .. Len(d) - 1 |-> K(d[k], d[k + 1])]
           b == [k \in 1 .. m - 1 |-> K(c[k], c[k + 1])]
           y == K(c[m], p)
<1>8. a = [k \in 1 .. m |-> K(d[k], d[k + 1])]
  <2>1. Len(d) - 1 = m BY <1>1
  <2> HIDE DEF K
  <2> QED BY <2>1
<1>9. \A k \in 1 .. m - 1 : /\ k \in 1 .. m /\ k + 1 \in 1 .. m /\ d[k] = c[k] /\ d[k + 1] = c[k + 1]
                            /\ K(c[k], c[k + 1]) \in Seq(U)
  <2> TAKE k \in 1 .. m - 1
  <2>1. k \in 1 .. m /\ k + 1 \in 1 .. m /\ k < k + 1 BY <1>1
  <2>2. c[k] < c[k + 1] BY <2>1 DEF Ascending
  <2>3. c[k] \in 0 .. Len(t) /\ c[k + 1] \in 1 .. Len(t) + 1
    <3>1. c[k] \in 0 .. p - 1 /\ c[k + 1] \in 0 .. p - 1 BY <2>1, <1>2
    <3> QED BY <3>1, <2>2, SMTT(30)
  <2>4. K(c[k], c[k + 1]) \in Seq(U) BY <2>2, <2>3, <1>5
  <2> QED BY <2>1, <2>4, <1>1
<1> HIDE DEF K, U, m
<1> DEFINE W == Seq(U)
<1>10. b \in Seq(W) /\ Len(b) = m - 1 /\ \A k \in 1 .. m - 1 : b[k] = K(c[k], c[k + 1])
  <2>1. m - 1 \in Nat BY <1>1
  <2> HIDE DEF W
  <2>2. \A k \in 1 .. m - 1 : K(c[k], c[k + 1]) \in W BY <1>9 DEF W
  <2> QED BY <2>1, <2>2
<1>11. \A k \in 1 .. m : a[k] = K(d[k], d[k + 1]) BY <1>8
<1>12. \A k \in 1 .. m - 1 : a[k] = b[k] BY <1>9, <1>10, <1>11
<1>13. a[m] = y BY <1>1, <1>6, <1>11
<1>14. a \in Seq(W) /\ Len(a) = m
  <2>1. \A k \in 1 .. m : k = m \/ k \in 1 .. m - 1 BY <1>1
  <2> HIDE DEF W, a, b, y
  <2>2. \A k \in 1 .. m : a[k] \in W
    <3>1. y \in W BY <1>7 DEF W, y
    <3>2. \A k \in 1 .. m - 1 : b[k] \in W BY <1>9, <1>10 DEF W
    <3> QED BY <2>1, <3>1, <3>2, <1>12, <1>13
  <2>3. a = [k \in 1 .. m |-> a[k]] BY <1>8
  <2>4. m \in Nat /\ a \in [1 .. m -> W] BY <2>2, <2>3, <1>1
  <2>5. a \in Seq(W) /\ DOMAIN a = 1 .. m BY <2>4
  <2> QED BY <2>4, <2>5
<1>15. a = Append(b, y)
  <2>1. y \in W BY <1>7
  <2> HIDE DEF a, b, y, W
  <2>2. m - 1 + 1 = m /\ Len(a) = Len(b) + 1 /\ a[Len(b) + 1] = y
    <3>1. m - 1 + 1 = m BY <1>1
    <3> QED BY <3>1, <1>10, <1>13, <1>14
  <2>3. \A i \in 1 .. Len(b) : a[i] = b[i] BY <1>10, <1>12
  <2> QED BY <2>1, <2>2, <2>3, <1>10, <1>14, AppendIs
<1>16. FlattenSeq(a) = FlattenSeq(b) \o y
  <2>1. b \in Seq(Seq(U)) /\ y \in Seq(U) BY <1>7, <1>10
  <2> HIDE DEF a, b, y
  <2> QED BY <2>1, <1>15, FlattenAppend
<1>17. RunOf(t, d) = FlattenSeq(a) /\ RunOf(t, c) = FlattenSeq(b) BY DEF RunOf, K, m
<1>18. RunOf(t, d) = RunOf(t, c) \o Kept(SubSeq(t, c[m] + 1, p - 1)) BY <1>16, <1>17 DEF K
<1>19. d[Len(d)] = p BY <1>1
<1>20. SubSeq(t, c[m] + 1, p - 1) \in Seq(Chars) BY <1>7 DEF U
<1> HIDE DEF a, b, y, W
<1> QED BY <1>1, <1>3, <1>4, <1>18, <1>19, <1>20 DEF d, m

\* Two stretches, one after the other.
LEMMA StretchesJoin ==
    ASSUME NEW t \in Seq(Chars), NEW l \in 1 .. Len(t) + 1, NEW p \in l .. Len(t) + 1, NEW q \in p .. Len(t) + 1
    PROVE  SubSeq(t, l, p - 1) \o SubSeq(t, p, q - 1) = SubSeq(t, l, q - 1)
<1> DEFINE a == SubSeq(t, l, p - 1)
           b == SubSeq(t, p, q - 1)
           d == SubSeq(t, l, q - 1)
<1>1. a \in Seq(Chars) /\ Len(a) = p - l /\ \A i \in 1 .. p - l : a[i] = t[l + i - 1]
  <2>1. p - 1 \in l - 1 .. Len(t) /\ p - 1 - l + 1 = p - l OBVIOUS
  <2>2. a \in Seq(Chars) /\ Len(a) = p - 1 - l + 1 /\ \A i \in 1 .. p - 1 - l + 1 : a[i] = t[l + i - 1]
        BY <2>1, StretchIs
  <2> HIDE DEF a
  <2> QED BY <2>1, <2>2
<1>2. b \in Seq(Chars) /\ Len(b) = q - p /\ \A i \in 1 .. q - p : b[i] = t[p + i - 1]
  <2>1. p \in 1 .. Len(t) + 1 /\ q - 1 \in p - 1 .. Len(t) /\ q - 1 - p + 1 = q - p OBVIOUS
  <2>2. b \in Seq(Chars) /\ Len(b) = q - 1 - p + 1 /\ \A i \in 1 .. q - 1 - p + 1 : b[i] = t[p + i - 1]
        BY <2>1, StretchIs
  <2> HIDE DEF b
  <2> QED BY <2>1, <2>2
<1>3. d \in Seq(Chars) /\ Len(d) = q - l /\ \A i \in 1 .. q - l : d[i] = t[l + i - 1]
  <2>1. q - 1 \in l - 1 .. Len(t) /\ q - 1 - l + 1 = q - l OBVIOUS
  <2>2. d \in Seq(Chars) /\ Len(d) = q - 1 - l + 1 /\ \A i \in 1 .. q - 1 - l + 1 : d[i] = t[l + i - 1]
        BY <2>1, StretchIs
  <2> HIDE DEF d
  <2> QED BY <2>1, <2>2
<1> HIDE DEF a, b, d
<1> DEFINE f == a \o b
<1>4. /\ f \in Seq(Chars) /\ Len(f) = Len(a) + Len(b)
      /\ \A i \in 1 .. Len(f) : f[i] = IF i <= Len(a) THEN a[i] ELSE b[i - Len(a)]
  <2> DEFINE S == Chars
  <2>1. a \in Seq(S) /\ b \in Seq(S) BY <1>1, <1>2
  <2> HIDE DEF S
  <2>2. a \o b \in Seq(S) BY <2>1, ConcatProperties
  <2>3. Len(a \o b) = Len(a) + Len(b) BY <2>1, ConcatProperties
  <2>4. \A i \in 1 .. Len(a) + Len(b) : (a \o b)[i] = IF i <= Len(a) THEN a[i] ELSE b[i - Len(a)]
        BY <2>1, ConcatProperties
  <2>5. f = a \o b OBVIOUS
  <2> HIDE DEF f
  <2>6. f \in Seq(S) /\ Len(f) = Len(a) + Len(b)
        /\ \A i \in 1 .. Len(a) + Len(b) : f[i] = IF i <= Len(a) THEN a[i] ELSE b[i - Len(a)]
        BY <2>2, <2>3, <2>4, <2>5
  <2> QED BY <2>6 DEF S
<1>5. Len(f) = Len(d)
  <2> HIDE DEF f
  <2> QED BY <1>1, <1>2, <1>3, <1>4
<1>6. ASSUME NEW i \in 1 .. q - l PROVE f[i] = d[i]
  <2> HIDE DEF f
  <2>0. i \in 1 .. Len(f) BY <1>3, <1>5
  <2>1. CASE i <= p - l
    <3>1. i \in 1 .. p - l /\ i <= Len(a) BY <2>1, <1>1
    <3> QED BY <2>0, <3>1, <1>1, <1>3, <1>4
  <2>2. CASE ~(i <= p - l)
    <3> DEFINE k == i - (p - l)
    <3>1. k \in 1 .. q - p /\ p + k - 1 = l + i - 1 BY <2>2
    <3>2. ~(i <= Len(a)) /\ i - Len(a) = k BY <2>2, <1>1
    <3> HIDE DEF k
    <3>3. f[i] = b[k] BY <2>0, <3>2, <1>4
    <3>4. b[k] = t[p + k - 1] BY <3>1, <1>2
    <3> QED BY <3>1, <3>3, <3>4, <1>3
  <2> QED BY <2>1, <2>2
<1> HIDE DEF f
<1>7. \A i \in 1 .. Len(f) : f[i] = d[i] BY <1>3, <1>5, <1>6
<1>8. f = d BY <1>3, <1>4, <1>5, <1>7
<1> QED BY <1>8 DEF f, a, b, d
\* The last cut before a position.
LEMMA LastCut ==
    ASSUME NEW t, NEW p \in Nat, p >= 1, NEW c \in Seq(Nat), c # <<>>, Range(c) = {0} \cup {i \in Cuts(t) : i < p}
    PROVE  c[Len(c)] + 1 \in 1 .. p /\ Range(c) \subseteq 0 .. p - 1
<1>1. Len(c) \in 1 .. Len(c) OBVIOUS
<1>2. \A i \in 1 .. Len(c) : c[i] \in Range(c) /\ c[i] \in Nat BY DEF Range
<1>3. \A x \in Range(c) : \E i \in 1 .. Len(c) : x = c[i] BY DEF Range
<1>4. \A x \in Range(c) : x < p BY 0 < p
<1>5. \A x \in Range(c) : x \in 0 .. p - 1 BY <1>2, <1>3, <1>4
<1>6. c[Len(c)] \in 0 .. p - 1 BY <1>1, <1>2, <1>5
<1>7. c[Len(c)] + 1 \in 1 .. p BY <1>6
<1> QED BY <1>5, <1>7

\* Cuts are characters.
LEMMA CutsIn == ASSUME NEW t \in Seq(Chars) PROVE \A i \in Cuts(t) : i \in 1 .. Len(t)
<1>1. DOMAIN t = 1 .. Len(t) OBVIOUS
<1>2. \A i \in Cuts(t) : i \in DOMAIN t BY DEF Cuts
<1> QED BY <1>1, <1>2

\* Before the first character nothing is cut.
LEMMA CutStart == ASSUME NEW t \in Seq(Chars) PROVE Cutting(t, 1, <<>>, <<>>)
<1> DEFINE c == <<0>>
<1>1. c \in Seq(Nat) /\ c # <<>> /\ Len(c) = 1 /\ c[1] = 0 OBVIOUS
<1>2. Ascending(c) BY DEF Ascending
<1>3. {i \in Cuts(t) : i < 1} = {}
  <2>1. \A i \in Cuts(t) : i \in 1 .. Len(t) BY CutsIn
  <2>2. \A i \in Cuts(t) : ~(i < 1) BY <2>1
  <2> QED BY <2>2
<1>4. Range(c) = {0} BY DEF Range
<1>5. SubSeq(t, 1, 0) = <<>> OBVIOUS
<1>6. RunOf(t, c) = <<>>
  <2>1. RunOf(t, c) = FlattenSeq([k \in 1 .. Len(c) - 1 |-> Kept(SubSeq(t, c[k] + 1, c[k + 1] - 1))]) BY DEF RunOf
  <2>2. [k \in 1 .. Len(c) - 1 |-> Kept(SubSeq(t, c[k] + 1, c[k + 1] - 1))] = <<>> OBVIOUS
  <2>3. FlattenSeq(<<>>) = <<>> BY DEF FlattenSeq
  <2> QED BY <2>1, <2>2, <2>3
<1>7. SubSeq(t, c[Len(c)] + 1, 1 - 1) = <<>> BY <1>1, <1>5
<1> HIDE DEF c
<1>8. /\ c # <<>> /\ Ascending(c) /\ Range(c) = {0} \cup {i \in Cuts(t) : i < 1}
      /\ <<>> = SubSeq(t, c[Len(c)] + 1, 1 - 1) /\ <<>> = RunOf(t, c) BY <1>1, <1>2, <1>3, <1>4, <1>6, <1>7
<1> QED BY <1>1, <1>8 DEF Cutting

\* Characters that are no cut are collected.
LEMMA CutNone ==
    ASSUME NEW t \in Seq(Chars), NEW p \in 1 .. Len(t) + 1, NEW q \in p .. Len(t) + 1, NEW u, NEW out,
           Cutting(t, p, u, out), \A k \in p .. q - 1 : k \notin Cuts(t)
    PROVE  Cutting(t, q, u \o SubSeq(t, p, q - 1), out)
<1>1. PICK c \in Seq(Nat) :
        /\ c # <<>> /\ Ascending(c) /\ Range(c) = {0} \cup {i \in Cuts(t) : i < p}
        /\ u = SubSeq(t, c[Len(c)] + 1, p - 1) /\ out = RunOf(t, c) BY DEF Cutting
<1> DEFINE l == c[Len(c)] + 1
<1>2. l \in 1 .. p
  <2>1. p \in Nat /\ p >= 1 OBVIOUS
  <2> QED BY <1>1, <2>1, LastCut
<1>3. u \o SubSeq(t, p, q - 1) = SubSeq(t, l, q - 1)
  <2> HIDE DEF l
  <2>1. l \in 1 .. Len(t) + 1 /\ p \in l .. Len(t) + 1 BY <1>2
  <2>2. u = SubSeq(t, l, p - 1) BY <1>1 DEF l
  <2> QED BY <2>1, <2>2, StretchesJoin
<1>4. {i \in Cuts(t) : i < p} = {i \in Cuts(t) : i < q}
  <2>1. \A i \in Cuts(t) : i \in 1 .. Len(t) BY CutsIn
  <2>2. \A i \in Cuts(t) : i < q => i < p
    <3> TAKE i \in Cuts(t)
    <3> HAVE i < q
    <3>1. i \in 1 .. Len(t) /\ i \notin p .. q - 1 BY <2>1
    <3> QED BY <3>1
  <2>3. \A i \in Cuts(t) : i < p => i < q BY <2>1
  <2> QED BY <2>2, <2>3
<1>5. Range(c) = {0} \cup {i \in Cuts(t) : i < q} BY <1>1, <1>4
<1>6. u \o SubSeq(t, p, q - 1) = SubSeq(t, c[Len(c)] + 1, q - 1) BY <1>3
<1> QED BY <1>1, <1>5, <1>6 DEF Cutting

\* A cut ends a stretch.
LEMMA CutOne ==
    ASSUME NEW t \in Seq(Chars), NEW p \in 1 .. Len(t), p \in Cuts(t), NEW u, NEW out, Cutting(t, p, u, out)
    PROVE  u \in Seq(Chars) /\ Cutting(t, p + 1, <<>>, out \o Kept(u))
<1>1. PICK c \in Seq(Nat) :
        /\ c # <<>> /\ Ascending(c) /\ Range(c) = {0} \cup {i \in Cuts(t) : i < p}
        /\ u = SubSeq(t, c[Len(c)] + 1, p - 1) /\ out = RunOf(t, c) BY DEF Cutting
<1>2. Range(c) \subseteq 0 .. p - 1
  <2>1. p \in Nat /\ p >= 1 OBVIOUS
  <2> QED BY <1>1, <2>1, LastCut
<1> DEFINE d == Append(c, p)
<1>3. /\ d \in Seq(Nat) /\ d # <<>> /\ Ascending(d) /\ Range(d) = Range(c) \cup {p} /\ d[Len(d)] = p
      /\ SubSeq(t, c[Len(c)] + 1, p - 1) \in Seq(Chars)
      /\ RunOf(t, d) = RunOf(t, c) \o Kept(SubSeq(t, c[Len(c)] + 1, p - 1))
  <2>1. p \in 1 .. Len(t) + 1 OBVIOUS
  <2> QED BY <2>1, <1>1, <1>2, CutHere
<1> HIDE DEF d
<1>4. {i \in Cuts(t) : i < p + 1} = {i \in Cuts(t) : i < p} \cup {p}
  <2>1. \A i \in Cuts(t) : i \in 1 .. Len(t) BY CutsIn
  <2>2. \A i \in Cuts(t) : i < p + 1 <=> i < p \/ i = p BY <2>1
  <2>3. p < p + 1 OBVIOUS
  <2> QED BY <2>2, <2>3
<1>5. Range(d) = {0} \cup {i \in Cuts(t) : i < p + 1} BY <1>1, <1>3, <1>4
<1>6. SubSeq(t, d[Len(d)] + 1, p + 1 - 1) = <<>>
  <2>1. p + 1 - 1 = p /\ d[Len(d)] + 1 = p + 1 BY <1>3
  <2>2. SubSeq(t, p + 1, p) = <<>> OBVIOUS
  <2> QED BY <2>1, <2>2
<1>7. RunOf(t, d) = out \o Kept(u) BY <1>1, <1>3
<1>8. /\ d \in Seq(Nat) /\ d # <<>> /\ Ascending(d) /\ Range(d) = {0} \cup {i \in Cuts(t) : i < p + 1}
      /\ <<>> = SubSeq(t, d[Len(d)] + 1, p + 1 - 1) /\ out \o Kept(u) = RunOf(t, d) BY <1>3, <1>5, <1>6, <1>7
<1>9. Cutting(t, p + 1, <<>>, out \o Kept(u))
  <2> DEFINE o == out \o Kept(u)
             m == p + 1
  <2>1. /\ d \in Seq(Nat) /\ d # <<>> /\ Ascending(d) /\ Range(d) = {0} \cup {i \in Cuts(t) : i < m}
        /\ <<>> = SubSeq(t, d[Len(d)] + 1, m - 1) /\ o = RunOf(t, d) BY <1>8
  <2> HIDE DEF o, m
  <2>2. Cutting(t, m, <<>>, o) BY <2>1 DEF Cutting
  <2> QED BY <2>2 DEF o, m
<1> QED BY <1>1, <1>3, <1>9

\* At the end of the text the last stretch ends.
LEMMA CutLast ==
    ASSUME NEW t \in Seq(Chars), NEW u, NEW out, Cutting(t, Len(t) + 1, u, out)
    PROVE  /\ u \in Seq(Chars)
           /\ out \o Kept(u) = FlattenSeq([k \in DOMAIN Stretches(t) |-> Kept(Stretches(t)[k])])
<1> DEFINE p == Len(t) + 1
<1>1. PICK c \in Seq(Nat) :
        /\ c # <<>> /\ Ascending(c) /\ Range(c) = {0} \cup {i \in Cuts(t) : i < p}
        /\ u = SubSeq(t, c[Len(c)] + 1, p - 1) /\ out = RunOf(t, c) BY DEF Cutting
<1>0. p \in Nat /\ p >= 1 /\ p \in 1 .. Len(t) + 1 OBVIOUS
<1>a. p = Len(t) + 1 OBVIOUS
<1> HIDE DEF p
<1>2. Range(c) \subseteq 0 .. p - 1 BY <1>0, <1>1, LastCut
<1> DEFINE d == Append(c, p)
<1>3. /\ d \in Seq(Nat) /\ d # <<>> /\ Ascending(d) /\ Range(d) = Range(c) \cup {p} /\ d[Len(d)] = p
      /\ SubSeq(t, c[Len(c)] + 1, p - 1) \in Seq(Chars)
      /\ RunOf(t, d) = RunOf(t, c) \o Kept(SubSeq(t, c[Len(c)] + 1, p - 1))
      BY <1>0, <1>1, <1>2, CutHere
<1> HIDE DEF d
<1>4. Range(d) = {0, Len(t) + 1} \cup Cuts(t)
  <2>1. \A i \in Cuts(t) : i \in 1 .. Len(t) BY CutsIn
  <2>2. \A i \in Cuts(t) : i < p BY <2>1, <1>a
  <2>3. {i \in Cuts(t) : i < p} = Cuts(t) BY <2>2
  <2> QED BY <2>3, <1>1, <1>3, <1>a
<1> DEFINE K(k) == SubSeq(t, d[k] + 1, d[k + 1] - 1)
           n == Len(d) - 1
<1>5. Stretches(t) = [k \in 1 .. n |-> K(k)] BY <1>3, <1>4, StretchesAre
<1> HIDE DEF K, n
<1>6. DOMAIN Stretches(t) = 1 .. n /\ \A k \in 1 .. n : Stretches(t)[k] = K(k) BY <1>5
<1> DEFINE R == [k \in DOMAIN Stretches(t) |-> Kept(Stretches(t)[k])]
<1>7. R = [k \in 1 .. n |-> Kept(K(k))] BY <1>6
<1> HIDE DEF R
<1>8. RunOf(t, d) = FlattenSeq(R) BY <1>7 DEF RunOf, K, n
<1>9. FlattenSeq(R) = out \o Kept(u) BY <1>1, <1>3, <1>8
<1> QED BY <1>1, <1>3, <1>9 DEF R

-----------------------------------------------------------------------------
(* Scripts are cut as the server reads them.                               *)

\* Where the lexemes of a text start.
Bounds(t) == CHOOSE B : Boundaries(t, B)

\* Up to where it is, the loop has read the text as the server does and cut
\* it where the server does; at the end it has run what the server reads.
ReadsAsServer ==
    ~Odd(text) =>
      /\ stmts \in Seq(Seq(Chars))
      /\ mode # "done" => /\ Place(text, Bounds(text), at, mode, Closer)
                          /\ Cutting(text, at, cur, ScriptStatements(stmts))
      /\ mode = "done" => SplitAsServer

\* The bounds the splitter finds divide the text as the server does.
LEMMA BoundsAre == ASSUME NEW t \in Seq(Chars) PROVE Boundaries(t, Bounds(t))
BY BoundariesExist DEF Bounds

\* A step that takes characters.
LEMMA ReadsMoves ==
    ASSUME SplitInv, ReadsAsServer, ~Odd(text), mode # "done", Advances(Bounds(text))
    PROVE  ReadsAsServer'
<1> DEFINE B == Bounds(text)
           out == ScriptStatements(stmts)
           q == at'
<1>1. text \in Seq(Chars) /\ at \in 1 .. Len(text) + 1 BY DEF SplitInv, SplitTypeOK
<1>2. Boundaries(text, B) BY <1>1, BoundsAre
<1>3. /\ text' = text /\ stmts' = stmts /\ q \in at + 1 .. Len(text) + 1 /\ mode' # "done"
      /\ cur' = cur \o SubSeq(text, at, q - 1) /\ Place(text, B, q, mode', Closer')
      /\ \A k \in at .. q - 1 : ~(k \in B /\ text[k] = ";") BY DEF Advances
<1>4. stmts \in Seq(Seq(Chars)) /\ Cutting(text, at, cur, out) BY DEF ReadsAsServer
<1>q. q = at' OBVIOUS
<1> HIDE DEF q
<1>5. q \in at .. Len(text) + 1
  <2>1. at \in Nat /\ Len(text) \in Nat BY <1>1
  <2>2. q \in at + 1 .. Len(text) + 1 BY <1>3
  <2> QED BY <2>1, <2>2
<1>6. \A k \in at .. q - 1 : k \notin Cuts(text)
  <2> TAKE k \in at .. q - 1
  <2>1. k \in 1 .. Len(text) BY <1>1, <1>5
  <2> HIDE DEF B
  <2> QED BY <2>1, <1>1, <1>2, <1>3, CutsAt
<1> HIDE DEF out
<1>7. Cutting(text, q, cur \o SubSeq(text, at, q - 1), out) BY <1>1, <1>4, <1>5, <1>6, CutNone
<1>8. B' = B /\ out' = out BY <1>3 DEF out
<1>9. Place(text', Bounds(text'), at', mode', Closer') BY <1>3 DEF q
<1>10. Cutting(text', at', cur', ScriptStatements(stmts')) BY <1>3, <1>7, <1>8 DEF q, out
<1> QED BY <1>3, <1>4, <1>9, <1>10 DEF ReadsAsServer

\* A semicolon that the loop takes for one is one.
LEMMA ReadsSemicolon ==
    ASSUME SplitInv, ReadsAsServer, ~Odd(text), AtSemicolon
    PROVE  ReadsAsServer'
<1> DEFINE B == Bounds(text)
           out == ScriptStatements(stmts)
<1>1. /\ mode = "normal" /\ at <= Len(text) /\ text[at] = ";" /\ stmts' = Flush(cur) /\ cur' = <<>>
      /\ at' = at + 1 /\ text' = text /\ mode' = mode /\ tag' = tag BY DEF AtSemicolon
<1>2. text \in Seq(Chars) /\ at \in 1 .. Len(text)
  <2>1. text \in Seq(Chars) /\ at \in 1 .. Len(text) + 1 /\ at <= Len(text) BY <1>1 DEF SplitInv, SplitTypeOK
  <2> QED BY <2>1
<1>3. Boundaries(text, B) BY <1>2, BoundsAre
<1>4. stmts \in Seq(Seq(Chars)) /\ Cutting(text, at, cur, out) /\ Place(text, B, at, "normal", Closer)
      BY <1>1 DEF ReadsAsServer
<1> HIDE DEF B, out
<1>5. at \in B
  <2>1. SUFFICES ASSUME NEW s \in B, s < at, at < LexemeEnd(text, s), s <= Len(text), Identifier(text[s]) PROVE FALSE
        BY <1>4 DEF Place
  <2>2. s \in 1 .. Len(text)
    <3>1. s \in 1 .. Len(text) + 1 BY <1>3 DEF Boundaries
    <3> QED BY <3>1, <2>1
  <2>3. LexemeEnd(text, s) \in s + 1 .. Len(text) + 1 BY <2>2, <1>2, LexemeEndType
  <2>4. at \in s + 1 .. LexemeEnd(text, s) - 1 BY <2>1, <2>2, <2>3, <1>2
  <2>5. Identifier(text[at]) \/ text[at] = "$" BY <2>1, <2>2, <2>4, <1>2, <1>3, NameIs
  <2> QED BY <2>5, <1>1 DEF Identifier
<1>6. at \in Cuts(text) BY <1>1, <1>2, <1>3, <1>5, CutsAt
<1>7. LexemeEnd(text, at) = at + 1
  <2>1. /\ ~(text[at] \in {"'", "\""}) /\ ~Begins(text, at, <<"-", "-">>) /\ ~Begins(text, at, <<"/", "*">>)
        /\ DollarQuoteTag(text, at) = <<>> /\ ~Identifier(text[at])
        BY <1>1, <1>2, FirstOf DEF Identifier
  <2> QED BY <2>1, <1>2, LexemeEndIs
<1>8. Place(text, B, at + 1, "normal", Closer') BY <1>1, <1>2, <1>3, <1>5, <1>7, PlaceAfter
<1>9. cur \in Seq(Chars) /\ Cutting(text, at + 1, <<>>, out \o Kept(cur)) BY <1>2, <1>4, <1>6, CutOne
<1>10. Flush(cur) \in Seq(Seq(Chars)) /\ ScriptStatements(Flush(cur)) = out \o Kept(cur)
       BY <1>4, <1>9, FlushIs DEF out
<1>11. Place(text', Bounds(text'), at', mode', Closer') BY <1>1, <1>8 DEF B
<1>12. Cutting(text', at', cur', ScriptStatements(stmts')) BY <1>1, <1>9, <1>10
<1>13. stmts' \in Seq(Seq(Chars)) /\ mode' # "done" BY <1>1, <1>10
<1> QED BY <1>11, <1>12, <1>13 DEF ReadsAsServer

\* The end of the text ends what is being collected.
LEMMA ReadsEnd ==
    ASSUME SplitInv, ReadsAsServer, ~Odd(text), AtEnd
    PROVE  ReadsAsServer'
<1> DEFINE out == ScriptStatements(stmts)
<1>1. mode # "done" /\ at > Len(text) /\ stmts' = Flush(cur) /\ mode' = "done" /\ text' = text BY DEF AtEnd
<1>2. text \in Seq(Chars) /\ at = Len(text) + 1
  <2>1. text \in Seq(Chars) /\ at \in 1 .. Len(text) + 1 BY DEF SplitInv, SplitTypeOK
  <2> QED BY <1>1, <2>1
<1>3. stmts \in Seq(Seq(Chars)) /\ Cutting(text, Len(text) + 1, cur, out) BY <1>1, <1>2 DEF ReadsAsServer
<1> DEFINE R == FlattenSeq([k \in DOMAIN Stretches(text) |-> Kept(Stretches(text)[k])])
<1> HIDE DEF out
<1>4. cur \in Seq(Chars) /\ out \o Kept(cur) = R BY <1>2, <1>3, CutLast
<1> HIDE DEF R
<1>5. Flush(cur) \in Seq(Seq(Chars)) /\ ScriptStatements(Flush(cur)) = out \o Kept(cur)
      BY <1>3, <1>4, FlushIs DEF out
<1>6. ScriptStatements(stmts') = R BY <1>1, <1>4, <1>5
<1>7. R' = R BY <1>1 DEF R
<1>8. SplitAsServer' BY <1>6, <1>7 DEF SplitAsServer, R
<1> QED BY <1>1, <1>5, <1>8 DEF ReadsAsServer

\* Every step of the loop reads on as the server would.
LEMMA ReadsStep == ASSUME SplitInv, ReadsAsServer, [SplitNext]_splitVars PROVE ReadsAsServer'
<1>1. text' = text BY DEF SplitNext, InNormal, AtSemicolon, Inside, AtEnd, Take, splitVars
<1>2. SUFFICES ASSUME ~Odd(text) PROVE ReadsAsServer' BY <1>1 DEF ReadsAsServer
<1> DEFINE B == Bounds(text)
<1>3. text \in Seq(Chars) BY DEF SplitInv
<1>4. Boundaries(text, B) BY <1>3, BoundsAre
<1>5. mode # "done" => Place(text, B, at, mode, Closer) BY <1>2 DEF ReadsAsServer
<1> HIDE DEF B
<1>6. CASE InNormal
  <2>1. mode # "done" BY <1>6 DEF InNormal
  <2>2. Advances(B) BY <2>1, <1>2, <1>4, <1>5, <1>6, NormalMoves
  <2> QED BY <2>1, <2>2, <1>2, ReadsMoves DEF B
<1>7. CASE AtSemicolon BY <1>2, <1>7, ReadsSemicolon
<1>8. CASE Inside
  <2>1. mode # "done" BY <1>8 DEF Inside
  <2>2. Advances(B) BY <2>1, <1>4, <1>5, <1>8, InsideMoves
  <2> QED BY <2>1, <2>2, <1>2, ReadsMoves DEF B
<1>9. CASE AtEnd BY <1>2, <1>9, ReadsEnd
<1>10. CASE UNCHANGED splitVars
  <2>1. text' = text /\ at' = at /\ mode' = mode /\ tag' = tag /\ cur' = cur /\ stmts' = stmts BY <1>10 DEF splitVars
  <2>2. Closer' = Closer /\ (SplitAsServer' <=> SplitAsServer) BY <2>1 DEF Closer, SplitAsServer
  <2> QED BY <2>1, <2>2, <1>2 DEF ReadsAsServer
<1> QED BY <1>6, <1>7, <1>8, <1>9, <1>10 DEF SplitNext

\* At the start nothing has been read.
LEMMA ReadsStart == ASSUME NEW T, T \subseteq Seq(Chars), SplitInit(T) PROVE ReadsAsServer
<1>1. text \in Seq(Chars) /\ at = 1 /\ mode = "normal" /\ tag = <<>> /\ cur = <<>> /\ stmts = <<>> BY DEF SplitInit
<1> DEFINE B == Bounds(text)
<1>2. 1 \in B BY <1>1, BoundsAre DEF Boundaries
<1>3. Place(text, B, 1, "normal", Closer)
  <2>0. 1 - 1 \notin DOMAIN text BY <1>1
  <2>1. At(text, 1 - 1) = "" BY <2>0 DEF At
  <2>2. ~Identifier(At(text, 1 - 1)) BY <2>1 DEF Identifier
  <2> HIDE DEF B
  <2> QED BY <1>2, <2>2 DEF Place
<1>4. ScriptStatements(stmts) = <<>>
  <2> DEFINE Run(y) == IF StripLeadingComments(TrimSpace(y)) = <<>> THEN <<>> ELSE <<y>>
  <2>1. ScriptStatements(stmts) = FlattenSeq([k \in DOMAIN stmts |-> Run(stmts[k])]) BY DEF ScriptStatements
  <2> HIDE DEF Run
  <2>2. [k \in DOMAIN stmts |-> Run(stmts[k])] = <<>> BY <1>1
  <2>3. FlattenSeq(<<>>) = <<>> BY DEF FlattenSeq
  <2> QED BY <2>1, <2>2, <2>3
<1>5. Cutting(text, 1, <<>>, <<>>) BY <1>1, CutStart
<1>6. stmts \in Seq(Seq(Chars)) /\ mode # "done" BY <1>1
<1>7. Cutting(text, at, cur, ScriptStatements(stmts)) BY <1>1, <1>4, <1>5
<1>8. Place(text, Bounds(text), at, mode, Closer) BY <1>1, <1>3
<1> QED BY <1>6, <1>7, <1>8 DEF ReadsAsServer

\* A splitter that read the whole text as the server does has cut it as the
\* server does.
LEMMA ReadsSplit == ASSUME ReadsAsServer PROVE SplitAsServer
BY DEF ReadsAsServer, SplitAsServer

(* What is run of a script of any length are the statements the server      *)
(* reads in it, but those of nothing but line comments (splitStatements,    *)
(* scriptStatements).                                                       *)
THEOREM SplitAsServerAlways == SplitSpec => []SplitAsServer
<1>1. SplitInit(Texts) => SplitInv /\ ReadsAsServer BY SplitStart, ReadsStart, TextsAreSequences
<1>2. (SplitInv /\ ReadsAsServer) /\ [SplitNext]_splitVars => (SplitInv /\ ReadsAsServer)' BY SplitStep, ReadsStep
<1>3. SplitInv /\ ReadsAsServer => SplitAsServer BY ReadsSplit
<1> QED BY <1>1, <1>2, <1>3, PTL DEF SplitSpec
=============================================================================

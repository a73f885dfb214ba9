--------------------------- MODULE SequenceLemmas ---------------------------
(***************************************************************************)
(* What the operators on sequences do to the set of a sequence's elements  *)
(* and to its freedom from repetition.  The pools, queues and free lists   *)
(* of the code are sequences in the modules, and the invariants about them *)
(* speak of sets.  The last lemmas are what the proofs have for induction. *)
(***************************************************************************)
EXTENDS SequencesExt, SequenceTheorems, FiniteSetTheorems, WellFoundedInduction,
        NaturalsInduction, TLAPS

\* Taking the last element: what vector::pop_back leaves, and what it took.
LEMMA FrontLast ==
  ASSUME NEW S, NEW s \in Seq(S), s # <<>>
  PROVE  /\ Front(s) \in Seq(S)
         /\ Len(Front(s)) = Len(s) - 1
         /\ \A i \in 1..(Len(s) - 1) : Front(s)[i] = s[i]
         /\ Last(s) \in S
         /\ ToSet(s) = ToSet(Front(s)) \cup {Last(s)}
<1>1. Len(s) \in Nat /\ Len(s) > 0 /\ DOMAIN s = 1..Len(s)
  BY EmptySeq, LenProperties
<1>2. /\ Front(s) \in Seq(S)
      /\ Len(Front(s)) = Len(s) - 1
      /\ \A i \in 1..(Len(s) - 1) : Front(s)[i] = s[i]
  BY <1>1, SubSeqProperties, ElementOfSeq DEF Front
<1>3. DOMAIN Front(s) = 1..(Len(s) - 1)
  BY <1>1, <1>2, LenProperties
<1>4. Last(s) = s[Len(s)] /\ Last(s) \in S
  BY <1>1, ElementOfSeq DEF Last
<1>5. 1..Len(s) = 1..(Len(s) - 1) \cup {Len(s)}
  BY <1>1
<1>6. ToSet(s) = ToSet(Front(s)) \cup {Last(s)}
  BY <1>1, <1>2, <1>3, <1>4, <1>5 DEF ToSet
<1> QED BY <1>2, <1>4, <1>6

\* Without repetition, the element taken is not among those that stay.
LEMMA FrontInjective ==
  ASSUME NEW S, NEW s \in Seq(S), s # <<>>, IsInjective(s)
  PROVE  IsInjective(Front(s)) /\ Last(s) \notin ToSet(Front(s))
<1>1. Len(s) \in Nat /\ Len(s) > 0 /\ DOMAIN s = 1..Len(s) /\ Last(s) = s[Len(s)]
  BY EmptySeq, LenProperties DEF Last
<1>2. DOMAIN Front(s) = 1..(Len(s) - 1)
  BY <1>1, FrontLast, LenProperties
<1>3. \A i \in 1..(Len(s) - 1) : i # Len(s) /\ i \in DOMAIN s
  <2>1. \A n \in Nat : \A i \in 1..(n - 1) : i # n /\ i \in 1..n
    OBVIOUS
  <2> QED BY <1>1, <2>1, Zenon
<1>4. \A i \in 1..(Len(s) - 1) : Front(s)[i] = s[i]
  BY FrontLast
<1>5. Len(s) \in DOMAIN s
  BY <1>1
<1>6. IsInjective(Front(s))
  BY <1>2, <1>3, <1>4 DEF IsInjective
<1>7. \A i \in 1..(Len(s) - 1) : Front(s)[i] # Last(s)
  BY <1>1, <1>3, <1>4, <1>5 DEF IsInjective
<1> QED BY <1>2, <1>6, <1>7 DEF ToSet

LEMMA AppendSet ==
  ASSUME NEW S, NEW s \in Seq(S), NEW e \in S
  PROVE  /\ ToSet(Append(s, e)) = ToSet(s) \cup {e}
         /\ IsInjective(s) /\ e \notin ToSet(s) => IsInjective(Append(s, e))
<1>1. Len(s) \in Nat /\ DOMAIN s = 1..Len(s) /\ DOMAIN Append(s, e) = 1..(Len(s) + 1)
  BY AppendProperties, LenProperties
<1>2. 1..(Len(s) + 1) = 1..Len(s) \cup {Len(s) + 1}
  BY <1>1
<1>3. (\A i \in 1..Len(s) : Append(s, e)[i] = s[i]) /\ Append(s, e)[Len(s) + 1] = e
  BY AppendProperties
<1> QED BY <1>1, <1>2, <1>3 DEF ToSet, IsInjective

LEMMA ConcatSet ==
  ASSUME NEW S, NEW s \in Seq(S), NEW t \in Seq(S)
  PROVE  /\ ToSet(s \o t) = ToSet(s) \cup ToSet(t)
         /\ IsInjective(s) /\ IsInjective(t) /\ ToSet(s) \cap ToSet(t) = {}
              => IsInjective(s \o t)
<1>1. /\ Len(s) \in Nat /\ Len(t) \in Nat
      /\ DOMAIN s = 1..Len(s) /\ DOMAIN t = 1..Len(t)
      /\ DOMAIN (s \o t) = 1..(Len(s) + Len(t))
  BY ConcatProperties, LenProperties
<1>2. \A i \in 1..Len(s) : i \in 1..(Len(s) + Len(t)) /\ (s \o t)[i] = s[i]
  BY <1>1, ConcatProperties
<1>3. \A i \in 1..Len(t) : i + Len(s) \in 1..(Len(s) + Len(t)) /\ (s \o t)[i + Len(s)] = t[i]
  BY <1>1, ConcatProperties
<1>4. \A i \in 1..(Len(s) + Len(t)) :
        \/ i \in 1..Len(s) /\ (s \o t)[i] = s[i]
        \/ i - Len(s) \in 1..Len(t) /\ (s \o t)[i] = t[i - Len(s)]
  BY <1>1, ConcatProperties
<1>5. ToSet(s \o t) = ToSet(s) \cup ToSet(t)
  <2>1. ASSUME NEW x \in ToSet(s \o t) PROVE x \in ToSet(s) \cup ToSet(t)
    BY <1>1, <1>4 DEF ToSet
  <2>2. ASSUME NEW x \in ToSet(s) PROVE x \in ToSet(s \o t)
    BY <1>1, <1>2 DEF ToSet
  <2>3. ASSUME NEW x \in ToSet(t) PROVE x \in ToSet(s \o t)
    BY <1>1, <1>3 DEF ToSet
  <2> QED BY <2>1, <2>2, <2>3
<1>6. ASSUME IsInjective(s), IsInjective(t), ToSet(s) \cap ToSet(t) = {},
             NEW i \in 1..(Len(s) + Len(t)), NEW j \in 1..(Len(s) + Len(t)),
             (s \o t)[i] = (s \o t)[j]
      PROVE  i = j
  <2>1. CASE i \in 1..Len(s) /\ j \in 1..Len(s)
    BY <1>1, <1>2, <1>6, <2>1 DEF IsInjective
  <2>2. CASE i \notin 1..Len(s) /\ j \notin 1..Len(s)
    <3>1. i - Len(s) = j - Len(s)
      BY <1>1, <1>4, <1>6, <2>2 DEF IsInjective
    <3> QED BY <1>1, <3>1
  <2>3. CASE i \in 1..Len(s) /\ j \notin 1..Len(s)
    BY <1>1, <1>2, <1>4, <1>6, <2>3 DEF ToSet
  <2>4. CASE i \notin 1..Len(s) /\ j \in 1..Len(s)
    BY <1>1, <1>2, <1>4, <1>6, <2>4 DEF ToSet
  <2> QED BY <2>1, <2>2, <2>3, <2>4
<1> QED BY <1>1, <1>5, <1>6 DEF IsInjective

LEMMA TailSet ==
  ASSUME NEW S, NEW s \in Seq(S), s # <<>>
  PROVE  /\ Tail(s) \in Seq(S)
         /\ Head(s) \in S
         /\ ToSet(s) = {Head(s)} \cup ToSet(Tail(s))
<1>1. /\ Len(s) \in Nat /\ Len(s) > 0 /\ DOMAIN s = 1..Len(s)
      /\ Tail(s) \in Seq(S) /\ DOMAIN Tail(s) = 1..(Len(s) - 1)
  BY EmptySeq, LenProperties, HeadTailProperties
<1>2. \A i \in 1..(Len(s) - 1) : Tail(s)[i] = s[i + 1] /\ i + 1 \in 1..Len(s)
  BY <1>1, HeadTailProperties
<1>3. \A i \in 1..Len(s) : i # 1 => i - 1 \in 1..(Len(s) - 1) /\ Tail(s)[i - 1] = s[i]
  BY <1>1, <1>2
<1>4. Head(s) = s[1] /\ Head(s) \in S
  BY <1>1, ElementOfSeq
<1>5. ASSUME NEW x \in ToSet(s) PROVE x \in {Head(s)} \cup ToSet(Tail(s))
  BY <1>1, <1>3, <1>4 DEF ToSet
<1>6. ASSUME NEW x \in ToSet(Tail(s)) PROVE x \in ToSet(s)
  BY <1>1, <1>2 DEF ToSet
<1>7. Head(s) \in ToSet(s)
  BY <1>1, <1>4 DEF ToSet
<1> QED BY <1>1, <1>4, <1>5, <1>6, <1>7

\* The form in which TLC checks that a sequence repeats nothing.
LEMMA InjectiveCardinality ==
  ASSUME NEW S, NEW s \in Seq(S), IsInjective(s)
  PROVE  Cardinality(ToSet(s)) = Len(s)
<1>1. Len(s) \in Nat /\ DOMAIN s = 1..Len(s)
  BY LenProperties
<1>2. s \in Bijection(1..Len(s), ToSet(s))
  BY <1>1, LenProperties DEF Bijection, Injection, Surjection, IsInjective, ToSet
<1>3. ExistsBijection(1..Len(s), ToSet(s))
  BY <1>2 DEF ExistsBijection
<1> QED BY <1>1, <1>3, FS_CountingElements

\* Every set of numbers has a least: what the proofs use in place of induction,
\* by the least counterexample.
LEMMA Least ==
  ASSUME NEW T \in SUBSET Nat, T # {}
  PROVE  \E x \in T : \A y \in T : x <= y
<1> DEFINE R == {ss \in Nat \X Nat : ss[1] < ss[2]}
<1>1. IsWellFoundedOn(R, Nat)
  BY NatLessThanWellFounded DEF OpToRel
<1>2. PICK x \in T : \A y \in T : ~ (<<y, x>> \in R)
  BY <1>1, WFMin
<1>3. \A y \in T : x <= y
  <2>1. ASSUME NEW y \in T PROVE x <= y
    <3>1. <<y, x>> \in Nat \X Nat /\ ~ (y < x)
      BY <1>2
    <3> QED BY <3>1
  <2> QED BY <2>1
<1> QED BY <1>3

\* A sequence of sequences over a set becomes a sequence over it.
LEMMA FlattenType ==
  ASSUME NEW S, NEW s \in Seq(Seq(S))
  PROVE  FlattenSeq(s) \in Seq(S)
<1> DEFINE n == Len(s)
           Step(m, g) == g = [i \in 1..m |-> IF i = 1 THEN s[i] ELSE g[i - 1] \o s[i]]
           flatten == CHOOSE g : Step(n, g)
<1>1. n \in Nat /\ \A i \in 1..n : s[i] \in Seq(S)
  BY LenProperties, ElementOfSeq
<1>2. CASE n = 0
  <2>1. s = <<>>
    BY <1>2, EmptySeq
  <2>2. <<>> \in Seq(S)
    BY EmptySeq
  <2> QED BY <2>1, <2>2, <1>2 DEF FlattenSeq
<1>3. CASE n # 0
  <2> HIDE DEF n
  <2>1. ASSUME NEW m \in 1..n, NEW g, Step(m, g) PROVE \A i \in 1..m : g[i] \in Seq(S)
    <3> DEFINE Bad == {i \in 1..m : g[i] \notin Seq(S)}
    <3>1. CASE Bad # {}
      <4>1. Bad \in SUBSET Nat
        BY <1>1
      <4>2. PICK i \in Bad : \A j \in Bad : i <= j
        BY <3>1, <4>1, Least
      <4>3. i \in 1..m /\ i \in 1..n
        BY <1>1
      <4>4. CASE i = 1
        BY <1>1, <2>1, <4>2, <4>3, <4>4
      <4>5. CASE i # 1
        <5>1. i - 1 \in 1..m /\ ~ (i <= i - 1)
          BY <1>1, <4>3, <4>5
        <5>2. g[i - 1] \in Seq(S)
          BY <4>2, <5>1
        <5>3. g[i] = g[i - 1] \o s[i]
          BY <2>1, <4>3, <4>5
        <5>5. g[i] \in Seq(S)
          BY <1>1, <4>3, <5>2, <5>3, ConcatProperties
        <5> QED BY <4>2, <5>5
      <4> QED BY <4>4, <4>5
    <3> QED BY <3>1
  <2>2. ASSUME NEW m \in 1..n PROVE \E g : Step(m, g)
    <3> DEFINE Bad == {i \in 1..n : ~ \E g : Step(i, g)}
    <3>1. CASE Bad # {}
      <4>1. Bad \in SUBSET Nat
        <5>1. 1..n \subseteq Nat
          OBVIOUS
        <5> QED BY <5>1, Zenon
      <4>2. PICK i \in Bad : \A j \in Bad : i <= j
        BY <3>1, <4>1, Least
      <4>3. CASE i = 1
        <5> DEFINE g == [j \in 1..1 |-> s[j]]
        <5>1. g = [j \in 1..i |-> IF j = 1 THEN s[j] ELSE g[j - 1] \o s[j]]
          BY <4>3
        <5> QED BY <4>2, <5>1
      <4>4. CASE i # 1
        <5>1. i - 1 \in 1..n /\ ~ (i <= i - 1)
          BY <1>1, <4>4
        <5>2. PICK h : Step(i - 1, h)
          BY <4>2, <5>1
        <5> DEFINE g == [j \in 1..i |-> IF j = i THEN h[i - 1] \o s[i] ELSE h[j]]
        <5>3. \A j \in 1..i : g[j] = IF j = 1 THEN s[j] ELSE g[j - 1] \o s[j]
          <6>1. ASSUME NEW j \in 1..i, j # i PROVE j \in 1..(i - 1) /\ (j # 1 => j - 1 \in 1..i /\ j - 1 # i)
            BY <1>1, <6>1
          <6>2. \A j \in 1..i : j # i => h[j] = IF j = 1 THEN s[j] ELSE h[j - 1] \o s[j]
            BY <5>2, <6>1
          <6>3. i - 1 \in 1..i /\ i - 1 # i
            BY <1>1, <5>1
          <6> QED BY <4>4, <6>1, <6>2, <6>3
        <5>4. Step(i, g)
          BY <5>3
        <5> QED BY <4>2, <5>4
      <4> QED BY <4>3, <4>4
    <3> QED BY <3>1
  <2>3. n \in 1..n
    BY <1>1, <1>3
  <2>4. Step(n, flatten)
    BY <2>2, <2>3
  <2>5. flatten[n] \in Seq(S)
    BY <2>1, <2>3, <2>4
  <2>6. FlattenSeq(s) = flatten[n]
    BY <1>3 DEF FlattenSeq, n
  <2> QED BY <2>5, <2>6
<1> QED BY <1>2, <1>3
=============================================================================

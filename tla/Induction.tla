----------------------------- MODULE Induction -----------------------------
(***************************************************************************)
(* Induction over numbers and sequences, in the form the proofs use it:    *)
(* the set of those that have a property is closed under the step.         *)
(***************************************************************************)
EXTENDS Naturals, Sequences, WellFoundedInduction, SequenceTheorems, TLAPS

\* A set of numbers that is not empty has a least one.
LEMMA LeastExists ==
  ASSUME NEW S, S \subseteq Nat, S # {}
  PROVE  \E x \in S : \A y \in S : x <= y
  <1> DEFINE R == OpToRel(<, Nat)
  <1>1. IsWellFoundedOn(R, Nat)
    BY NatLessThanWellFounded DEF OpToRel
  <1>2. \A i, j \in Nat : i < j => <<i, j>> \in R
    BY DEF OpToRel
  <1> HIDE DEF R
  <1>3. PICK x \in S : \A y \in S : ~ (<<y, x>> \in R)
    BY <1>1, WFMin
  <1>4. ASSUME NEW y \in S  PROVE x <= y
    <2>1. x \in Nat /\ y \in Nat /\ ~(y < x)
      BY <1>2, <1>3
    <2> QED  BY <2>1
  <1> QED  BY <1>4

\* A set that has 0 and, with a number, the next one, has them all.
LEMMA SetInduction ==
  ASSUME NEW S, 0 \in S, \A n \in Nat : n \in S => n + 1 \in S
  PROVE  Nat \subseteq S
  <1> DEFINE T == Nat \ S
             R == OpToRel(<, Nat)
  <1>1. IsWellFoundedOn(R, Nat)
    BY NatLessThanWellFounded DEF OpToRel
  <1>2. \A i, j \in Nat : i < j => <<i, j>> \in R
    BY DEF OpToRel
  <1> SUFFICES ASSUME T # {} PROVE FALSE
    OBVIOUS
  <1>3. T \subseteq Nat
    OBVIOUS
  <1> HIDE DEF R
  <1> HIDE DEF T
  <1>4. PICK x \in T : \A y \in T : ~ (<<y, x>> \in R)
    BY <1>1, <1>3, WFMin
  <1> USE DEF T
  <1>5. x # 0 /\ x \in Nat
    OBVIOUS
  <1>6. x - 1 \in Nat /\ x - 1 < x /\ (x - 1) + 1 = x
    BY <1>5
  <1>7. x - 1 \in T
    BY <1>6
  <1>8. <<x-1, x>> \in R
    BY <1>2, <1>5, <1>6
  <1> QED BY <1>4, <1>7, <1>8

\* A set that has <<>> and, with a sequence, the sequences one longer, has them all.
LEMMA SeqInduction ==
  ASSUME NEW X, NEW S, <<>> \in S, \A s \in Seq(X), e \in X : s \in S => Append(s, e) \in S
  PROVE  Seq(X) \subseteq S
  <1> DEFINE N == {n \in Nat : \A s \in Seq(X) : Len(s) = n => s \in S}
  <1>1. 0 \in N
    BY EmptySeq
  <1>2. ASSUME NEW n \in Nat, n \in N  PROVE n + 1 \in N
    <2> SUFFICES ASSUME NEW s \in Seq(X), Len(s) = n + 1  PROVE s \in S
      OBVIOUS
    <2> DEFINE f == SubSeq(s, 1, n)
    <2>1. f \in Seq(X) /\ Len(f) = n /\ s[n + 1] \in X
      OBVIOUS
    <2>2. s = Append(f, s[n + 1])
      OBVIOUS
    <2> QED  BY <1>2, <2>1, <2>2
  <1> HIDE DEF N
  <1>3. Nat \subseteq N
    BY <1>1, <1>2, SetInduction
  <1> QED  BY <1>3 DEF N

\* Among finitely many numbered values there is a greatest one.
LEMMA GreatestExists ==
  ASSUME NEW n \in Nat, NEW N \in SUBSET (1 .. n), NEW g \in [N -> Nat], N # {}
  PROVE  \E i \in N : \A k \in N : g[k] <= g[i]
  <1> DEFINE Has(M) == \E i \in M : \A k \in M : g[k] <= g[i]
             S == {m \in Nat : \A M \in SUBSET N : M # {} /\ M \subseteq 1 .. m => Has(M)}
  <1>1. 0 \in S
    <2>1. 1 .. 0 = {}
      OBVIOUS
    <2> QED  BY <2>1
  <1>2. ASSUME NEW m \in Nat, m \in S  PROVE m + 1 \in S
    <2> SUFFICES ASSUME NEW M \in SUBSET N, M # {}, M \subseteq 1 .. m + 1  PROVE Has(M)
      OBVIOUS
    <2> DEFINE L == M \ {m + 1}
    <2>1. L \subseteq 1 .. m /\ L \in SUBSET N
      OBVIOUS
    <2>2. CASE L = {}
      <3>1. M = {m + 1}
        BY <2>2
      <3>2. g[m + 1] \in Nat
        BY <3>1
      <3> QED  BY <3>1, <3>2
    <2>3. CASE L # {}
      <3>1. PICK i \in L : \A k \in L : g[k] <= g[i]
        BY <1>2, <2>1, <2>3
      <3>2. \A k \in M : g[k] \in Nat
        OBVIOUS
      <3>3. \A k \in M : k \in L \/ k = m + 1
        OBVIOUS
      <3>4. CASE m + 1 \in M /\ g[m + 1] > g[i]
        BY <3>1, <3>2, <3>3, <3>4
      <3>5. CASE ~(m + 1 \in M /\ g[m + 1] > g[i])
        BY <3>1, <3>2, <3>3, <3>5
      <3> QED  BY <3>4, <3>5
    <2> QED  BY <2>2, <2>3
  <1> HIDE DEF S
  <1>3. Nat \subseteq S
    BY <1>1, <1>2, SetInduction
  <1>4. n \in S
    BY <1>3
  <1>5. \A M \in SUBSET N : M # {} /\ M \subseteq 1 .. n => Has(M)
    BY <1>4 DEF S
  <1> HIDE DEF Has
  <1>6. Has(N)
    BY <1>5
  <1> QED  BY <1>6 DEF Has
=============================================================================

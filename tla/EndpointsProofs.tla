-------------------------- MODULE EndpointsProofs --------------------------
(***************************************************************************)
(* Proofs about DependencyGuard and ApiEndpoints, for any calls, texts,    *)
(* queues, requests, levels, slots and dependencies.                       *)
(*                                                                         *)
(* The guard: each invariant is inductive; the probe needs that a call     *)
(* enters as a probe only if none is out, which is what probe_active says, *)
(* and that only the probe itself takes the flag back.  What the streams   *)
(* do to the guard are steps of it, so that its theorems hold of them.     *)
(*                                                                         *)
(* The task stream: a reader that goes on from the frames given, over the  *)
(* buffer, would end where one that reads the whole text ends (Faithful).  *)
(*                                                                         *)
(* The reflexion stream: an event before the last ones always finds room   *)
(* (Backlog), hence a producer or a generator that is waited for is never  *)
(* gone, and every step leaves less to do.                                 *)
(*                                                                         *)
(* The gathered calls leave nothing behind, and decide as they should; and *)
(* a readiness of 200 is true.                                             *)
(***************************************************************************)
EXTENDS ApiEndpoints, FiniteSetTheorems, Induction

-----------------------------------------------------------------------------
(* The guard *)

\* The initial state and every step of the guard keep the types.
THEOREM GuardTypes == Spec => []TypeOK
  <1>1. Init => TypeOK
    <2> SUFFICES ASSUME Init  PROVE TypeOK
      OBVIOUS
    <2>1. failures \in 0 .. failure_threshold /\ faults \in 0 .. failure_threshold
      BY GuardAssumption DEF Init
    <2>2. call \in [Call -> {"idle", "active", "probe"}] /\ probe_active \in BOOLEAN
      BY DEF Init
    <2> QED  BY <2>1, <2>2 DEF Init, TypeOK
  <1>2. TypeOK /\ [Next]_vars => TypeOK'
    <2> SUFFICES ASSUME TypeOK, [Next]_vars  PROVE TypeOK'
      OBVIOUS
    <2> USE GuardAssumption DEF TypeOK
    <2>1. ASSUME NEW c \in Call, Enter(c)  PROVE TypeOK'
      BY <2>1 DEF Enter
    <2>2. ASSUME NEW c \in Call, NEW o \in Outcome, Leave(c, o)  PROVE TypeOK'
      BY <2>2 DEF Leave, CountUp, ProbeAfter
    <2>3. CASE Lapse
      BY <2>3 DEF Lapse
    <2>4. CASE UNCHANGED vars
      BY <2>4 DEF vars
    <2> QED  BY <2>1, <2>2, <2>3, <2>4 DEF Next
  <1> QED  BY <1>1, <1>2, PTL DEF Spec

\* At most one recovery probe is out, and probe_active says whether one is.
THEOREM OneProbe == Spec => []SingleProbe
  <1>1. Init => SingleProbe
    BY DEF Init, SingleProbe, Probes
  <1>2. TypeOK /\ SingleProbe /\ [Next]_vars => SingleProbe'
    <2> SUFFICES ASSUME TypeOK, SingleProbe, [Next]_vars  PROVE SingleProbe'
      OBVIOUS
    <2> USE DEF TypeOK, SingleProbe, Probes
    <2>1. ASSUME NEW c \in Call, Enter(c)  PROVE SingleProbe'
      BY <2>1 DEF Enter, Rejects
    <2>2. ASSUME NEW c \in Call, NEW o \in Outcome, Leave(c, o)  PROVE SingleProbe'
      BY <2>2 DEF Leave, ProbeAfter
    <2>3. CASE Lapse
      BY <2>3 DEF Lapse
    <2>4. CASE UNCHANGED vars
      BY <2>4 DEF vars
    <2> QED  BY <2>1, <2>2, <2>3, <2>4 DEF Next
  <1> QED  BY <1>1, <1>2, GuardTypes, PTL DEF Spec

\* The circuit is closed exactly while the count of failures is below the threshold.
THEOREM CircuitAndFailures == Spec => []CircuitMatchesFailures
  <1>1. Init => CircuitMatchesFailures
    BY GuardAssumption DEF Init, CircuitMatchesFailures
  <1>2. TypeOK /\ CircuitMatchesFailures /\ [Next]_vars => CircuitMatchesFailures'
    <2> SUFFICES ASSUME TypeOK, CircuitMatchesFailures, [Next]_vars  PROVE CircuitMatchesFailures'
      OBVIOUS
    <2> USE GuardAssumption DEF TypeOK, CircuitMatchesFailures
    <2>1. ASSUME NEW c \in Call, Enter(c)  PROVE CircuitMatchesFailures'
      BY <2>1 DEF Enter
    <2>2. ASSUME NEW c \in Call, NEW o \in Outcome, Leave(c, o)  PROVE CircuitMatchesFailures'
      <3>1. CASE ~Failed(c, o)
        BY <2>2, <3>1 DEF Leave
      <3>2. CASE Failed(c, o)
        BY <2>2, <3>2 DEF Leave, CountUp, Trips
      <3> QED  BY <3>1, <3>2
    <2>3. CASE Lapse
      BY <2>3 DEF Lapse
    <2>4. CASE UNCHANGED vars
      BY <2>4 DEF vars
    <2> QED  BY <2>1, <2>2, <2>3, <2>4 DEF Next
  <1> QED  BY <1>1, <1>2, GuardTypes, PTL DEF Spec

\* The bulkhead's counter is the number of calls in progress, and stays in its limit.
THEOREM BulkheadExact == Spec => []BulkheadIsExact
  <1>1. Init => BulkheadIsExact
    <2> SUFFICES ASSUME Init  PROVE BulkheadIsExact
      OBVIOUS
    <2>1. Busy = {}
      BY DEF Init, Busy
    <2> QED  BY <2>1, FS_EmptySet, GuardAssumption DEF Init, BulkheadIsExact
  <1>2. TypeOK /\ BulkheadIsExact /\ [Next]_vars => BulkheadIsExact'
    <2> SUFFICES ASSUME TypeOK, BulkheadIsExact, [Next]_vars  PROVE BulkheadIsExact'
      OBVIOUS
    <2>0. IsFiniteSet(Busy)
      BY FS_Subset, GuardAssumption DEF Busy
    <2>1. ASSUME NEW c \in Call, Enter(c)  PROVE BulkheadIsExact'
      <3>1. Busy' = Busy \cup {c} /\ c \notin Busy
        BY <2>1 DEF Enter, Busy, TypeOK
      <3>2. Cardinality(Busy') = Cardinality(Busy) + 1
        BY <2>0, <3>1, FS_AddElement
      <3>3. inflight < max_concurrent /\ inflight' = inflight + 1
        BY <2>1, GuardAssumption DEF Enter, Rejects, TypeOK
      <3> QED  BY <3>2, <3>3, GuardAssumption DEF BulkheadIsExact, TypeOK
    <2>2. ASSUME NEW c \in Call, NEW o \in Outcome, Leave(c, o)  PROVE BulkheadIsExact'
      <3>1. Busy' = Busy \ {c} /\ c \in Busy
        BY <2>2 DEF Leave, Busy, TypeOK
      <3>2. Cardinality(Busy') = Cardinality(Busy) - 1
        BY <2>0, <3>1, FS_RemoveElement
      <3>3. Cardinality(Busy) # 0
        BY <2>0, <3>1, FS_EmptySet
      <3>4. inflight > 0 /\ inflight' = inflight - 1
        BY <2>2, <3>3 DEF Leave, BulkheadIsExact, TypeOK
      <3> QED  BY <3>2, <3>4, GuardAssumption DEF BulkheadIsExact, TypeOK
    <2>3. CASE Lapse
      BY <2>3 DEF Lapse, BulkheadIsExact, Busy
    <2>4. CASE UNCHANGED vars
      BY <2>4 DEF vars, BulkheadIsExact, Busy
    <2> QED  BY <2>1, <2>2, <2>3, <2>4 DEF Next
  <1> QED  BY <1>1, <1>2, GuardTypes, PTL DEF Spec

\* The streams of the task endpoint enter and leave the guard as lease() allows, in
\* whatever way they end.
THEOREM StreamsAreGuarded == EndpointsSpec => Spec
  <1>1. EndpointsInit => Init
    BY DEF EndpointsInit, StreamInit
  <1>2. [EndpointsNext]_allVars => [Next]_vars
    <2> SUFFICES ASSUME [EndpointsNext]_allVars  PROVE [Next]_vars
      OBVIOUS
    <2>1. CASE StreamNext
      <3>0. \A c \in Stream : c \in Call
        BY GuardAssumption DEF GuardAssumption
      <3>1. CASE PlainStep
        BY <3>1 DEF PlainStep, Next
      <3>2. ASSUME NEW c \in Stream, StreamStep(c)  PROVE Next \/ UNCHANGED vars
        <4>1. Enter(c) \/ (\E o \in Outcome : Leave(c, o)) \/ UNCHANGED vars
          BY <3>2 DEF StreamStep, OpenStream, Receive, ProjectFrame, EndOfStream, StreamBreaks,
                      Disconnect, Outcome
        <4> QED  BY <4>1, <3>0 DEF Next
      <3> QED  BY <2>1, <3>1, <3>2 DEF StreamNext
    <2>2. CASE UNCHANGED vars
      BY <2>2
    <2> QED  BY <2>1, <2>2 DEF EndpointsNext, allVars
  <1> QED  BY <1>1, <1>2, PTL DEF EndpointsSpec, Spec

\* The bulkhead's count, the single probe and the circuit are right under the streams.
THEOREM GuardOfStreams ==
  EndpointsSpec => [](BulkheadIsExact /\ SingleProbe /\ CircuitMatchesFailures)
  BY StreamsAreGuarded, BulkheadExact, OneProbe, CircuitAndFailures, PTL

-----------------------------------------------------------------------------
(* The task stream *)

\* The function that ScanFrom is a value of.
IsReading(f, acc, s, n) ==
  f = [i \in 0 .. n |-> IF i = 0 THEN acc ELSE Scan(f[i - 1], s[i])]

\* There is such a function, for every text.
LEMMA ReadingExists ==
  ASSUME NEW acc, NEW s, NEW n \in Nat
  PROVE  \E f : IsReading(f, acc, s, n)
  <1> DEFINE N == {k \in Nat : \E f : IsReading(f, acc, s, k)}
  <1>1. 0 \in N
    <2> DEFINE f == [i \in 0 .. 0 |-> acc]
    <2>1. IsReading(f, acc, s, 0)
      BY DEF IsReading
    <2> QED  BY <2>1
  <1>2. ASSUME NEW k \in Nat, k \in N  PROVE k + 1 \in N
    <2>1. PICK f : IsReading(f, acc, s, k)
      BY <1>2
    <2> DEFINE g == [i \in 0 .. k + 1 |-> IF i \in 0 .. k THEN f[i] ELSE Scan(f[k], s[k + 1])]
               h == [i \in 0 .. k + 1 |-> IF i = 0 THEN acc ELSE Scan(g[i - 1], s[i])]
    <2>2. ASSUME NEW i \in 0 .. k + 1  PROVE g[i] = h[i]
      <3>1. CASE i = 0
        BY <3>1, <2>1 DEF IsReading
      <3>2. CASE i \in 1 .. k
        <4>1. i \in 0 .. k /\ i # 0 /\ i - 1 \in 0 .. k /\ i - 1 \in 0 .. k + 1
          BY <3>2
        <4>2. f[i] = Scan(f[i - 1], s[i])
          BY <4>1, <2>1 DEF IsReading
        <4> QED  BY <4>1, <4>2
      <3>3. CASE i = k + 1
        <4>1. i \notin 0 .. k /\ i # 0 /\ i - 1 = k /\ k \in 0 .. k /\ k \in 0 .. k + 1
          BY <3>3
        <4> QED  BY <4>1, <3>3
      <3> QED  BY <3>1, <3>2, <3>3
    <2>3. IsReading(g, acc, s, k + 1)
      <3>1. g = h
        BY <2>2
      <3> QED  BY <3>1 DEF IsReading
    <2> QED  BY <2>3
  <1> HIDE DEF N
  <1>3. Nat \subseteq N
    BY <1>1, <1>2, SetInduction
  <1> QED  BY <1>3 DEF N

\* ScanFrom is its last value.
LEMMA ReadingIs ==
  ASSUME NEW acc, NEW s \in Seq(Char)
  PROVE  \E f : IsReading(f, acc, s, Len(s)) /\ ScanFrom(acc, s) = f[Len(s)]
  <1> DEFINE g == CHOOSE f : IsReading(f, acc, s, Len(s))
  <1>1. IsReading(g, acc, s, Len(s))
    BY ReadingExists
  <1>2. ScanFrom(acc, s) = g[Len(s)]
    BY DEF ScanFrom, IsReading
  <1> QED  BY <1>1, <1>2

\* A reader of nothing stays where it is.
LEMMA ScanEmpty == \A acc : ScanFrom(acc, <<>>) = acc
  <1> TAKE acc
  <1>1. <<>> \in Seq(Char) /\ Len(<<>>) = 0
    OBVIOUS
  <1>2. PICK f : IsReading(f, acc, <<>>, 0) /\ ScanFrom(acc, <<>>) = f[0]
    BY <1>1, ReadingIs
  <1> QED  BY <1>2 DEF IsReading

\* Reading one character more is one more step.
LEMMA ScanAppend ==
  ASSUME NEW acc, NEW s \in Seq(Char), NEW e \in Char
  PROVE  ScanFrom(acc, Append(s, e)) = Scan(ScanFrom(acc, s), e)
  <1> DEFINE t == Append(s, e)
             n == Len(s)
  <1>1. t \in Seq(Char) /\ Len(t) = n + 1 /\ n \in Nat /\ t[n + 1] = e /\ \A i \in 1 .. n : t[i] = s[i]
    OBVIOUS
  <1> HIDE DEF t
  <1>2. PICK f : IsReading(f, acc, s, n) /\ ScanFrom(acc, s) = f[n]
    BY ReadingIs
  <1>3. PICK g : IsReading(g, acc, t, n + 1) /\ ScanFrom(acc, t) = g[n + 1]
    BY <1>1, ReadingIs
  <1> HIDE DEF n
  <1> DEFINE N == {k \in Nat : k <= n => f[k] = g[k]}
  <1>4. 0 \in N
    BY <1>1, <1>2, <1>3 DEF IsReading
  <1>5. ASSUME NEW k \in Nat, k \in N  PROVE k + 1 \in N
    <2> SUFFICES ASSUME k + 1 <= n  PROVE f[k + 1] = g[k + 1]
      OBVIOUS
    <2>1. k + 1 \in 0 .. n /\ k + 1 \in 0 .. n + 1 /\ k + 1 # 0 /\ (k + 1) - 1 = k /\ k + 1 \in 1 .. n
      BY <1>1
    <2>2. f[k + 1] = Scan(f[k], s[k + 1])
      BY <2>1, <1>2 DEF IsReading
    <2>3. g[k + 1] = Scan(g[k], t[k + 1])
      BY <2>1, <1>3 DEF IsReading
    <2>4. f[k] = g[k]
      BY <1>5, <2>1, <1>1
    <2> QED  BY <2>1, <2>2, <2>3, <2>4, <1>1
  <1> HIDE DEF N
  <1>6. Nat \subseteq N
    BY <1>4, <1>5, SetInduction
  <1>7. f[n] = g[n]
    BY <1>1, <1>6 DEF N
  <1>8. g[n + 1] = Scan(g[n], t[n + 1])
    <2>1. n + 1 \in 0 .. n + 1 /\ n + 1 # 0 /\ (n + 1) - 1 = n
      BY <1>1
    <2> QED  BY <2>1, <1>3 DEF IsReading
  <1> QED  BY <1>1, <1>2, <1>3, <1>7, <1>8 DEF t

RNRN == <<"r", "n", "r", "n">>
NN == <<"n", "n">>
RR == <<"r", "r">>

\* The markers of _frame_boundary.
LEMMA MarkerIs == Marker = {RNRN, NN, RR}
  <1>1. DOMAIN Markers = {1, 2, 3} /\ Markers[1] = RNRN /\ Markers[2] = NN /\ Markers[3] = RR
    BY DEF Markers, RNRN, NN, RR
  <1>2. Marker = {Markers[i] : i \in DOMAIN Markers}
    BY DEF Marker, ToSet
  <1> QED  BY <1>1, <1>2

\* What it is for a text to end with a marker, character by character.
LEMMA SuffixIs ==
  ASSUME NEW s \in Seq(Char)
  PROVE  LET n == Len(s) IN
         /\ IsSuffix(NN, s) <=> n >= 2 /\ s[n - 1] = "n" /\ s[n] = "n"
         /\ IsSuffix(RR, s) <=> n >= 2 /\ s[n - 1] = "r" /\ s[n] = "r"
         /\ IsSuffix(RNRN, s) <=> n >= 4 /\ s[n - 3] = "r" /\ s[n - 2] = "n" /\ s[n - 1] = "r" /\ s[n] = "n"
  <1> DEFINE n == Len(s)
             r == Reverse(s)
  <1>1. n \in Nat /\ r \in Seq(Char) /\ Len(r) = n /\ \A i \in 1 .. n : r[i] = s[(n - i) + 1]
    BY DEF Reverse
  <1>2. /\ Reverse(NN) = NN /\ Reverse(RR) = RR /\ Reverse(RNRN) = <<"n", "r", "n", "r">>
    <2>1. Reverse(NN) = NN
      BY DEF Reverse, NN
    <2>2. Reverse(RR) = RR
      BY DEF Reverse, RR
    <2>3. Reverse(RNRN) = <<"n", "r", "n", "r">>
      BY DEF Reverse, RNRN
    <2> QED  BY <2>1, <2>2, <2>3
  <1>3. ASSUME NEW m \in Seq(Char)
        PROVE IsPrefix(m, r) <=> Len(m) <= n /\ \A i \in 1 .. Len(m) : m[i] = s[(n - i) + 1]
    <2> HIDE DEF r, n
    <2>1. ASSUME Len(m) <= n
          PROVE SubSeq(m, 1, Len(m)) = SubSeq(r, 1, Len(m)) <=> \A i \in 1 .. Len(m) : m[i] = r[i]
      <3>1. SubSeq(m, 1, Len(m)) = m
        OBVIOUS
      <3>2. SubSeq(r, 1, Len(m)) \in Seq(Char) /\ Len(SubSeq(r, 1, Len(m))) = Len(m) /\ \A i \in 1 .. Len(m) : SubSeq(r, 1, Len(m))[i] = r[i]
        BY <1>1, <2>1
      <3> QED  BY <3>1, <3>2, SeqEqual
    <2>2. IsPrefix(m, r) <=> Len(m) <= Len(r) /\ SubSeq(m, 1, Len(m)) = SubSeq(r, 1, Len(m))
      BY DEF IsPrefix
    <2>3. ASSUME Len(m) <= n
          PROVE (\A i \in 1 .. Len(m) : m[i] = r[i]) <=> \A i \in 1 .. Len(m) : m[i] = s[(n - i) + 1]
      <3>1. \A i \in 1 .. Len(m) : r[i] = s[(n - i) + 1]
        BY <1>1, <2>3
      <3> QED  BY <3>1
    <2>4. Len(r) = n
      BY <1>1
    <2> QED  BY <2>1, <2>2, <2>3, <2>4
  <1>4. /\ NN \in Seq(Char) /\ Len(NN) = 2 /\ NN[1] = "n" /\ NN[2] = "n" /\ 1 .. 2 = {1, 2}
        /\ RR \in Seq(Char) /\ Len(RR) = 2 /\ RR[1] = "r" /\ RR[2] = "r"
        /\ <<"n", "r", "n", "r">> \in Seq(Char) /\ Len(<<"n", "r", "n", "r">>) = 4 /\ 1 .. 4 = {1, 2, 3, 4}
    BY DEF NN, RR, Char
  <1> HIDE DEF r, n
  <1>5. IsSuffix(NN, s) <=> n >= 2 /\ s[n - 1] = "n" /\ s[n] = "n"
    <2>0. IsPrefix(NN, r) <=> Len(NN) <= n /\ \A i \in 1 .. Len(NN) : NN[i] = s[(n - i) + 1]
      <3>1. NN \in Seq(Char)
        BY <1>4
      <3> QED  BY <3>1, <1>3
    <2>1. IsPrefix(NN, r) <=> 2 <= n /\ \A i \in {1, 2} : NN[i] = s[(n - i) + 1]
      BY <1>4, <2>0
    <2>2. (\A i \in {1, 2} : NN[i] = s[(n - i) + 1]) <=> NN[1] = s[(n - 1) + 1] /\ NN[2] = s[(n - 2) + 1]
      OBVIOUS
    <2>3. (n - 1) + 1 = n /\ (n - 2) + 1 = n - 1
      BY <1>1
    <2> QED  BY <1>2, <1>4, <1>1, <2>1, <2>2, <2>3 DEF IsSuffix, r
  <1>6. IsSuffix(RR, s) <=> n >= 2 /\ s[n - 1] = "r" /\ s[n] = "r"
    <2>0. IsPrefix(RR, r) <=> Len(RR) <= n /\ \A i \in 1 .. Len(RR) : RR[i] = s[(n - i) + 1]
      <3>1. RR \in Seq(Char)
        BY <1>4
      <3> QED  BY <3>1, <1>3
    <2>1. IsPrefix(RR, r) <=> 2 <= n /\ \A i \in {1, 2} : RR[i] = s[(n - i) + 1]
      BY <1>4, <2>0
    <2>2. (\A i \in {1, 2} : RR[i] = s[(n - i) + 1]) <=> RR[1] = s[(n - 1) + 1] /\ RR[2] = s[(n - 2) + 1]
      OBVIOUS
    <2>3. (n - 1) + 1 = n /\ (n - 2) + 1 = n - 1
      BY <1>1
    <2> QED  BY <1>2, <1>4, <1>1, <2>1, <2>2, <2>3 DEF IsSuffix, r
  <1>7. IsSuffix(RNRN, s) <=> n >= 4 /\ s[n - 3] = "r" /\ s[n - 2] = "n" /\ s[n - 1] = "r" /\ s[n] = "n"
    <2> DEFINE q == <<"n", "r", "n", "r">>
    <2>0. q[1] = "n" /\ q[2] = "r" /\ q[3] = "n" /\ q[4] = "r" /\ q \in Seq(Char) /\ Len(q) = 4
      BY <1>4
    <2> HIDE DEF q
    <2>a. IsPrefix(q, r) <=> Len(q) <= n /\ \A i \in 1 .. Len(q) : q[i] = s[(n - i) + 1]
      <3>1. q \in Seq(Char)
        BY <2>0
      <3> QED  BY <3>1, <1>3
    <2>b. Len(q) = 4 /\ 1 .. 4 = {1, 2, 3, 4}
      BY <1>4, <2>0
    <2>1. IsPrefix(q, r) <=> 4 <= n /\ \A i \in {1, 2, 3, 4} : q[i] = s[(n - i) + 1]
      BY <2>a, <2>b
    <2>2. (\A i \in {1, 2, 3, 4} : q[i] = s[(n - i) + 1])
          <=> q[1] = s[(n - 1) + 1] /\ q[2] = s[(n - 2) + 1] /\ q[3] = s[(n - 3) + 1] /\ q[4] = s[(n - 4) + 1]
      OBVIOUS
    <2>3. (n - 1) + 1 = n /\ (n - 2) + 1 = n - 1 /\ (n - 3) + 1 = n - 2 /\ (n - 4) + 1 = n - 3
      BY <1>1
    <2> QED  BY <1>2, <1>1, <2>0, <2>1, <2>2, <2>3 DEF IsSuffix, r, q
  <1> QED  BY <1>5, <1>6, <1>7 DEF n

\* What it is for a marker to be at a place, character by character.
LEMMA FoundIs ==
  ASSUME NEW s \in Seq(Char), NEW i \in Nat
  PROVE  /\ i \in Found(s, NN) <=> i >= 1 /\ i + 1 <= Len(s) /\ s[i] = "n" /\ s[i + 1] = "n"
         /\ i \in Found(s, RR) <=> i >= 1 /\ i + 1 <= Len(s) /\ s[i] = "r" /\ s[i + 1] = "r"
         /\ i \in Found(s, RNRN) <=>
              i >= 1 /\ i + 3 <= Len(s) /\ s[i] = "r" /\ s[i + 1] = "n" /\ s[i + 2] = "r" /\ s[i + 3] = "n"
  <1>1. /\ NN \in Seq(Char) /\ Len(NN) = 2 /\ NN[1] = "n" /\ NN[2] = "n" /\ 1 .. 2 = {1, 2}
        /\ RR \in Seq(Char) /\ Len(RR) = 2 /\ RR[1] = "r" /\ RR[2] = "r"
        /\ RNRN \in Seq(Char) /\ Len(RNRN) = 4 /\ 1 .. 4 = {1, 2, 3, 4}
        /\ RNRN[1] = "r" /\ RNRN[2] = "n" /\ RNRN[3] = "r" /\ RNRN[4] = "n"
    BY DEF NN, RR, RNRN, Char
  <1>2. ASSUME NEW m \in Seq(Char), Len(m) > 0
        PROVE i \in Found(s, m) <=> i >= 1 /\ (i + Len(m)) - 1 <= Len(s) /\ \A j \in 1 .. Len(m) : s[(i + j) - 1] = m[j]
    <2>1. i \in 1 .. (Len(s) + 1) - Len(m) <=> i >= 1 /\ (i + Len(m)) - 1 <= Len(s)
      OBVIOUS
    <2>2. ASSUME i >= 1, (i + Len(m)) - 1 <= Len(s)
          PROVE SubSeq(s, i, (i + Len(m)) - 1) = m <=> \A j \in 1 .. Len(m) : s[(i + j) - 1] = m[j]
      <3> DEFINE u == SubSeq(s, i, (i + Len(m)) - 1)
      <3>1. u \in Seq(Char) /\ Len(u) = Len(m) /\ \A j \in 1 .. Len(m) : u[j] = s[(i + j) - 1]
        <4>1. u \in Seq(Char)
          BY <2>2, <1>2
        <4>2. Len(u) = Len(m)
          BY <2>2, <1>2
        <4>3. ASSUME NEW j \in 1 .. Len(m)  PROVE u[j] = s[(i + j) - 1]
          BY <2>2, <1>2
        <4> QED  BY <4>1, <4>2, <4>3
      <3> HIDE DEF u
      <3>2. u = m <=> \A j \in 1 .. Len(m) : u[j] = m[j]
        BY <3>1, SeqEqual
      <3> QED  BY <3>1, <3>2 DEF u
    <2> QED  BY <2>1, <2>2 DEF Found
  <1>3. i \in Found(s, NN) <=> i >= 1 /\ i + 1 <= Len(s) /\ s[i] = "n" /\ s[i + 1] = "n"
    <2>0. i \in Found(s, NN) <=>
            i >= 1 /\ (i + Len(NN)) - 1 <= Len(s) /\ \A j \in 1 .. Len(NN) : s[(i + j) - 1] = NN[j]
      <3>1. Len(NN) > 0 /\ NN \in Seq(Char)
        BY <1>1
      <3> QED  BY <3>1, <1>2
    <2>1. i \in Found(s, NN) <=> i >= 1 /\ (i + 2) - 1 <= Len(s) /\ \A j \in {1, 2} : s[(i + j) - 1] = NN[j]
      BY <1>1, <2>0
    <2>2. (\A j \in {1, 2} : s[(i + j) - 1] = NN[j]) <=> s[(i + 1) - 1] = NN[1] /\ s[(i + 2) - 1] = NN[2]
      OBVIOUS
    <2>3. (i + 1) - 1 = i /\ (i + 2) - 1 = i + 1
      OBVIOUS
    <2> QED  BY <1>1, <2>1, <2>2, <2>3
  <1>4. i \in Found(s, RR) <=> i >= 1 /\ i + 1 <= Len(s) /\ s[i] = "r" /\ s[i + 1] = "r"
    <2>0. i \in Found(s, RR) <=>
            i >= 1 /\ (i + Len(RR)) - 1 <= Len(s) /\ \A j \in 1 .. Len(RR) : s[(i + j) - 1] = RR[j]
      <3>1. Len(RR) > 0 /\ RR \in Seq(Char)
        BY <1>1
      <3> QED  BY <3>1, <1>2
    <2>1. i \in Found(s, RR) <=> i >= 1 /\ (i + 2) - 1 <= Len(s) /\ \A j \in {1, 2} : s[(i + j) - 1] = RR[j]
      BY <1>1, <2>0
    <2>2. (\A j \in {1, 2} : s[(i + j) - 1] = RR[j]) <=> s[(i + 1) - 1] = RR[1] /\ s[(i + 2) - 1] = RR[2]
      OBVIOUS
    <2>3. (i + 1) - 1 = i /\ (i + 2) - 1 = i + 1
      OBVIOUS
    <2> QED  BY <1>1, <2>1, <2>2, <2>3
  <1>5. i \in Found(s, RNRN) <=>
              i >= 1 /\ i + 3 <= Len(s) /\ s[i] = "r" /\ s[i + 1] = "n" /\ s[i + 2] = "r" /\ s[i + 3] = "n"
    <2>0. i \in Found(s, RNRN) <=>
            i >= 1 /\ (i + Len(RNRN)) - 1 <= Len(s) /\ \A j \in 1 .. Len(RNRN) : s[(i + j) - 1] = RNRN[j]
      <3>1. Len(RNRN) > 0 /\ RNRN \in Seq(Char)
        BY <1>1
      <3> QED  BY <3>1, <1>2
    <2>1. i \in Found(s, RNRN) <=> i >= 1 /\ (i + 4) - 1 <= Len(s) /\ \A j \in {1, 2, 3, 4} : s[(i + j) - 1] = RNRN[j]
      BY <1>1, <2>0
    <2>2. (\A j \in {1, 2, 3, 4} : s[(i + j) - 1] = RNRN[j]) <=> s[(i + 1) - 1] = RNRN[1] /\ s[(i + 2) - 1] = RNRN[2] /\ s[(i + 3) - 1] = RNRN[3] /\ s[(i + 4) - 1] = RNRN[4]
      OBVIOUS
    <2>3. (i + 1) - 1 = i /\ (i + 2) - 1 = i + 1 /\ (i + 3) - 1 = i + 2 /\ (i + 4) - 1 = i + 3
      OBVIOUS
    <2> QED  BY <1>1, <2>1, <2>2, <2>3
  <1> QED  BY <1>3, <1>4, <1>5

\* A beginning has the same elements.
LEMMA PrefixIs ==
  ASSUME NEW X, NEW s \in Seq(X), NEW t \in Seq(X)
  PROVE  IsPrefix(s, t) <=> Len(s) <= Len(t) /\ \A i \in 1 .. Len(s) : s[i] = t[i]
  <1>1. ASSUME Len(s) <= Len(t)
        PROVE  SubSeq(s, 1, Len(s)) = SubSeq(t, 1, Len(s)) <=> \A i \in 1 .. Len(s) : s[i] = t[i]
    <2> DEFINE u == SubSeq(t, 1, Len(s))
    <2>1. SubSeq(s, 1, Len(s)) = s
      OBVIOUS
    <2>2. u \in Seq(X) /\ Len(u) = Len(s) /\ \A i \in 1 .. Len(s) : u[i] = t[i]
      BY <1>1
    <2> HIDE DEF u
    <2>3. s = u <=> \A i \in 1 .. Len(s) : s[i] = u[i]
      BY <2>2, SeqEqual
    <2> QED  BY <2>1, <2>2, <2>3 DEF u
  <1> QED  BY <1>1 DEF IsPrefix

Frame == Seq(Char)
Acc == [frames : Seq(Frame), rest : Seq(Char)]

\* The markers that s ends with.
Ending(s) == {m \in Marker : IsSuffix(m, s)}

\* A text ends with at most one marker.
LEMMA OneEnding ==
  ASSUME NEW s \in Seq(Char), NEW m \in Ending(s)
  PROVE  Ending(s) = {m} /\ Len(m) \in Nat /\ Len(m) <= Len(s)
  <1>1. Len(NN) = 2 /\ Len(RR) = 2 /\ Len(RNRN) = 4
    BY DEF NN, RR, RNRN
  <1>2. NN \in Ending(s) => RR \notin Ending(s) /\ RNRN \notin Ending(s) /\ Len(s) >= 2
    <2> SUFFICES ASSUME IsSuffix(NN, s)  PROVE ~IsSuffix(RR, s) /\ ~IsSuffix(RNRN, s) /\ Len(s) >= 2
      BY DEF Ending
    <2> QED  BY SuffixIs
  <1>3. RR \in Ending(s) => RNRN \notin Ending(s) /\ Len(s) >= 2
    <2> SUFFICES ASSUME IsSuffix(RR, s)  PROVE ~IsSuffix(RNRN, s) /\ Len(s) >= 2
      BY DEF Ending
    <2> QED  BY SuffixIs
  <1>4. RNRN \in Ending(s) => Len(s) >= 4
    BY SuffixIs DEF Ending
  <1>5. \A k \in Ending(s) : k = NN \/ k = RR \/ k = RNRN
    BY MarkerIs DEF Ending
  <1>6. Len(m) \in Nat /\ Len(m) <= Len(s)
    <2>1. CASE m = NN
      BY <2>1, <1>1, <1>2
    <2>2. CASE m = RR
      BY <2>2, <1>1, <1>3
    <2>3. CASE m = RNRN
      BY <2>3, <1>1, <1>4
    <2> QED  BY <1>5, <2>1, <2>2, <2>3
  <1>7. Ending(s) = {m}
    BY <1>2, <1>3, <1>5
  <1> QED  BY <1>6, <1>7

\* A frame is added after those given before, or is skipped.
LEMMA GivenIs ==
  ASSUME NEW f \in Seq(Frame), NEW g \in Frame
  PROVE  Given(f, g) \in Seq(Frame) /\ IsPrefix(f, Given(f, g))
  <1>1. Given(f, g) = f \/ Given(f, g) = Append(f, g)
    BY DEF Given
  <1>2. CASE Given(f, g) = f
    BY <1>2, PrefixIs
  <1>3. CASE Given(f, g) = Append(f, g)
    <2> DEFINE t == Append(f, g)
    <2>1. t \in Seq(Frame) /\ Len(f) <= Len(t) /\ \A i \in 1 .. Len(f) : f[i] = t[i]
      OBVIOUS
    <2> HIDE DEF t
    <2>2. IsPrefix(f, t)
      BY <2>1, PrefixIs
    <2> QED  BY <1>3, <2>1, <2>2 DEF t
  <1> QED  BY <1>1, <1>2, <1>3

\* What a step of the reader does, without the choice of a marker.
LEMMA ScanStep ==
  ASSUME NEW acc \in Acc, NEW e \in Char
  PROVE  LET seen == Append(acc.rest, e) IN
         /\ Ending(seen) = {} => Scan(acc, e) = [frames |-> acc.frames, rest |-> seen]
         /\ \A m \in Ending(seen) :
              Scan(acc, e) = [frames |-> Given(acc.frames, SubSeq(seen, 1, Len(seen) - Len(m))), rest |-> <<>>]
         /\ Scan(acc, e) \in Acc
         /\ IsPrefix(acc.frames, Scan(acc, e).frames)
  <1> DEFINE seen == Append(acc.rest, e)
             cut(m) == SubSeq(seen, 1, Len(seen) - Len(m))
  <1>1. acc.frames \in Seq(Frame) /\ acc.rest \in Seq(Char) /\ seen \in Seq(Char)
    BY DEF Acc
  <1> HIDE DEF seen
  <1>2. Ending(seen) = {} => Scan(acc, e) = [frames |-> acc.frames, rest |-> seen]
    BY DEF Scan, Ending, seen
  <1>3. ASSUME NEW m \in Ending(seen)
        PROVE  /\ Scan(acc, e) = [frames |-> Given(acc.frames, cut(m)), rest |-> <<>>]
               /\ cut(m) \in Frame
    <2>1. Ending(seen) = {m} /\ Len(m) \in Nat /\ Len(m) <= Len(seen)
      BY <1>1, OneEnding
    <2>2. (CHOOSE k \in {m} : TRUE) = m
      OBVIOUS
    <2>3. Scan(acc, e) = [frames |-> Given(acc.frames, cut(m)), rest |-> <<>>]
      BY <2>1, <2>2 DEF Scan, Ending, seen
    <2>4. cut(m) \in Frame
      BY <1>1, <2>1 DEF Frame
    <2> QED  BY <2>3, <2>4
  <1>4. CASE Ending(seen) = {}
    <2>1. IsPrefix(acc.frames, acc.frames)
      BY <1>1, PrefixIs
    <2>2. Scan(acc, e) \in Acc /\ Scan(acc, e).frames = acc.frames
      BY <1>1, <1>2, <1>4 DEF Acc
    <2> QED  BY <1>2, <1>4, <2>1, <2>2 DEF seen
  <1>5. CASE Ending(seen) # {}
    <2>1. PICK m \in Ending(seen) : TRUE
      BY <1>5
    <2> DEFINE given == Given(acc.frames, cut(m))
    <2>2. given \in Seq(Frame) /\ IsPrefix(acc.frames, given)
      BY <1>1, <1>3, GivenIs
    <2> HIDE DEF given
    <2>3. Scan(acc, e) = [frames |-> given, rest |-> <<>>]
      BY <1>3 DEF given
    <2>4. Scan(acc, e) \in Acc /\ IsPrefix(acc.frames, Scan(acc, e).frames)
      BY <2>2, <2>3 DEF Acc
    <2> QED  BY <1>3, <1>5, <2>4 DEF seen
  <1> QED  BY <1>4, <1>5

\* The reader takes back no frame.
LEMMA ScanType ==
  ASSUME NEW acc \in Acc, NEW s \in Seq(Char)
  PROVE  ScanFrom(acc, s) \in Acc /\ IsPrefix(acc.frames, ScanFrom(acc, s).frames)
  <1> DEFINE S == {t \in Seq(Char) : ScanFrom(acc, t) \in Acc /\ IsPrefix(acc.frames, ScanFrom(acc, t).frames)}
  <1>0. acc.frames \in Seq(Frame)
    BY DEF Acc
  <1>1. <<>> \in S
    <2>1. ScanFrom(acc, <<>>) = acc
      BY ScanEmpty
    <2>2. IsPrefix(acc.frames, acc.frames)
      BY <1>0, PrefixIs
    <2> QED  BY <2>1, <2>2
  <1>2. ASSUME NEW t \in Seq(Char), NEW e \in Char, t \in S  PROVE Append(t, e) \in S
    <2> DEFINE a == ScanFrom(acc, t)
               b == Scan(a, e)
    <2>1. a \in Acc /\ IsPrefix(acc.frames, a.frames) /\ a.frames \in Seq(Frame)
      BY <1>2 DEF Acc
    <2>2. ScanFrom(acc, Append(t, e)) = b
      BY ScanAppend
    <2> HIDE DEF a
    <2>3. b \in Acc /\ IsPrefix(a.frames, b.frames)
      BY <2>1, ScanStep
    <2> HIDE DEF b
    <2>4. b.frames \in Seq(Frame)
      BY <2>3 DEF Acc
    <2>5. Len(acc.frames) <= Len(a.frames) /\ \A i \in 1 .. Len(acc.frames) : acc.frames[i] = a.frames[i]
      BY <1>0, <2>1, PrefixIs
    <2>6. Len(a.frames) <= Len(b.frames) /\ \A i \in 1 .. Len(a.frames) : a.frames[i] = b.frames[i]
      BY <2>1, <2>3, <2>4, PrefixIs
    <2>7. Len(acc.frames) <= Len(b.frames) /\ \A i \in 1 .. Len(acc.frames) : acc.frames[i] = b.frames[i]
      <3>1. Len(acc.frames) \in Nat /\ Len(a.frames) \in Nat /\ Len(b.frames) \in Nat
        BY <1>0, <2>1, <2>4
      <3> QED  BY <3>1, <2>5, <2>6
    <2>8. IsPrefix(acc.frames, b.frames)
      BY <1>0, <2>4, <2>7, PrefixIs
    <2>9. Append(t, e) \in Seq(Char)
      OBVIOUS
    <2> QED  BY <2>2, <2>3, <2>8, <2>9
  <1> HIDE DEF S
  <1>3. Seq(Char) \subseteq S
    BY <1>1, <1>2, SeqInduction
  <1> QED  BY <1>3 DEF S

\* Reading one text after another is reading both.
LEMMA ScanConcat ==
  ASSUME NEW acc, NEW s \in Seq(Char), NEW t \in Seq(Char)
  PROVE  ScanFrom(acc, s \o t) = ScanFrom(ScanFrom(acc, s), t)
  <1> DEFINE S == {u \in Seq(Char) : ScanFrom(acc, s \o u) = ScanFrom(ScanFrom(acc, s), u)}
  <1>1. <<>> \in S
    <2>1. s \o <<>> = s
      OBVIOUS
    <2>2. ScanFrom(ScanFrom(acc, s), <<>>) = ScanFrom(acc, s)
      BY ScanEmpty
    <2> QED  BY <2>1, <2>2
  <1>2. ASSUME NEW u \in Seq(Char), NEW e \in Char, u \in S  PROVE Append(u, e) \in S
    <2>1. s \o Append(u, e) = Append(s \o u, e) /\ s \o u \in Seq(Char) /\ Append(u, e) \in Seq(Char)
      OBVIOUS
    <2>2. ScanFrom(acc, Append(s \o u, e)) = Scan(ScanFrom(acc, s \o u), e)
      BY <2>1, ScanAppend
    <2>3. ScanFrom(ScanFrom(acc, s), Append(u, e)) = Scan(ScanFrom(ScanFrom(acc, s), u), e)
      BY ScanAppend
    <2> QED  BY <1>2, <2>1, <2>2, <2>3
  <1> HIDE DEF S
  <1>3. Seq(Char) \subseteq S
    BY <1>1, <1>2, SeqInduction
  <1> QED  BY <1>3 DEF S

\* A marker that ends at place k is found where it starts.
LEMMA EndingFound ==
  ASSUME NEW b \in Seq(Char), NEW k \in 0 .. Len(b), NEW m \in Marker
  PROVE  m \in Ending(SubSeq(b, 1, k)) <=> (k + 1) - Len(m) \in Found(b, m)
  <1> DEFINE s == SubSeq(b, 1, k)
             i == (k + 1) - Len(m)
  <1>1. s \in Seq(Char) /\ Len(s) = k /\ k \in Nat /\ \A j \in 1 .. k : s[j] = b[j]
    OBVIOUS
  <1>2. Len(NN) = 2 /\ Len(RR) = 2 /\ Len(RNRN) = 4
    BY DEF NN, RR, RNRN
  <1>3. m = NN \/ m = RR \/ m = RNRN
    BY MarkerIs
  <1>4. Len(m) \in Nat /\ i \in Int
    BY <1>1, <1>2, <1>3
  <1>5. i \in Found(b, m) => i >= 1
    BY DEF Found
  <1>6. m \in Ending(s) <=> IsSuffix(m, s)
    BY DEF Ending
  <1> HIDE DEF s
  <1>7. CASE m = NN
    <2>0. Len(m) = 2
      BY <1>2, <1>7
    <2>1. i = k - 1
      BY <1>1, <2>0
    <2>2. IsSuffix(NN, s) <=> k >= 2 /\ s[k - 1] = "n" /\ s[k] = "n"
      BY <1>1, SuffixIs
    <2>3. k >= 2 => k - 1 \in 1 .. k /\ k \in 1 .. k
      BY <1>1
    <2>4. IsSuffix(NN, s) <=> k >= 2 /\ b[k - 1] = "n" /\ b[k] = "n"
      BY <1>1, <2>2, <2>3
    <2>5. ASSUME k >= 2  PROVE k - 1 \in Found(b, NN) <=> b[k - 1] = "n" /\ b[k] = "n"
      <3>1. k - 1 \in Nat /\ (k - 1) + 1 = k /\ k - 1 >= 1 /\ k <= Len(b)
        BY <1>1, <2>5
      <3> QED  BY <3>1, FoundIs
    <2> HIDE DEF i
    <2> QED  BY <1>1, <1>5, <1>6, <1>7, <2>1, <2>4, <2>5 DEF s, i
  <1>8. CASE m = RR
    <2>0. Len(m) = 2
      BY <1>2, <1>8
    <2>1. i = k - 1
      BY <1>1, <2>0
    <2>2. IsSuffix(RR, s) <=> k >= 2 /\ s[k - 1] = "r" /\ s[k] = "r"
      BY <1>1, SuffixIs
    <2>3. k >= 2 => k - 1 \in 1 .. k /\ k \in 1 .. k
      BY <1>1
    <2>4. IsSuffix(RR, s) <=> k >= 2 /\ b[k - 1] = "r" /\ b[k] = "r"
      BY <1>1, <2>2, <2>3
    <2>5. ASSUME k >= 2  PROVE k - 1 \in Found(b, RR) <=> b[k - 1] = "r" /\ b[k] = "r"
      <3>1. k - 1 \in Nat /\ (k - 1) + 1 = k /\ k - 1 >= 1 /\ k <= Len(b)
        BY <1>1, <2>5
      <3> QED  BY <3>1, FoundIs
    <2> HIDE DEF i
    <2> QED  BY <1>1, <1>5, <1>6, <1>8, <2>1, <2>4, <2>5 DEF s, i
  <1>9. CASE m = RNRN
    <2>0. Len(m) = 4
      BY <1>2, <1>9
    <2>1. i = k - 3
      BY <1>1, <2>0
    <2>2. IsSuffix(RNRN, s) <=> k >= 4 /\ s[k - 3] = "r" /\ s[k - 2] = "n" /\ s[k - 1] = "r" /\ s[k] = "n"
      BY <1>1, SuffixIs
    <2>3. k >= 4 => k - 3 \in 1 .. k /\ k - 2 \in 1 .. k /\ k - 1 \in 1 .. k /\ k \in 1 .. k
      BY <1>1
    <2>4. IsSuffix(RNRN, s) <=> k >= 4 /\ b[k - 3] = "r" /\ b[k - 2] = "n" /\ b[k - 1] = "r" /\ b[k] = "n"
      BY <1>1, <2>2, <2>3
    <2>5. ASSUME k >= 4  PROVE k - 3 \in Found(b, RNRN) <=> b[k - 3] = "r" /\ b[k - 2] = "n" /\ b[k - 1] = "r" /\ b[k] = "n"
      <3>1. k - 3 \in Nat /\ (k - 3) + 1 = k - 2 /\ (k - 3) + 2 = k - 1 /\ (k - 3) + 3 = k /\ k - 3 >= 1 /\ k <= Len(b)
        BY <1>1, <2>5
      <3> QED  BY <3>1, FoundIs
    <2> HIDE DEF i
    <2> QED  BY <1>1, <1>5, <1>6, <1>9, <2>1, <2>4, <2>5 DEF s, i
  <1> QED  BY <1>3, <1>7, <1>8, <1>9

\* A reader that meets the end of no marker keeps everything.
LEMMA ReadQuietly ==
  ASSUME NEW f \in Seq(Frame), NEW b \in Seq(Char), NEW k \in 0 .. Len(b),
         \A j \in 1 .. k : Ending(SubSeq(b, 1, j)) = {}
  PROVE  ScanFrom([frames |-> f, rest |-> <<>>], SubSeq(b, 1, k)) = [frames |-> f, rest |-> SubSeq(b, 1, k)]
  <1> DEFINE acc == [frames |-> f, rest |-> <<>>]
             N == {j \in Nat : j <= k => ScanFrom(acc, SubSeq(b, 1, j)) = [frames |-> f, rest |-> SubSeq(b, 1, j)]}
  <1>1. 0 \in N
    <2>1. SubSeq(b, 1, 0) = <<>>
      OBVIOUS
    <2> QED  BY <2>1, ScanEmpty
  <1>2. ASSUME NEW j \in Nat, j \in N  PROVE j + 1 \in N
    <2> SUFFICES ASSUME j + 1 <= k
                 PROVE ScanFrom(acc, SubSeq(b, 1, j + 1)) = [frames |-> f, rest |-> SubSeq(b, 1, j + 1)]
      OBVIOUS
    <2> DEFINE s == SubSeq(b, 1, j)
               e == b[j + 1]
               now == [frames |-> f, rest |-> s]
    <2>1. j <= k /\ k <= Len(b) /\ j + 1 \in 1 .. k /\ k \in Nat
      OBVIOUS
    <2>2. s \in Seq(Char) /\ e \in Char /\ Append(s, e) = SubSeq(b, 1, j + 1)
      BY <2>1
    <2>3. ScanFrom(acc, s) = now
      BY <1>2, <2>1
    <2> HIDE DEF s, e
    <2>4. now \in Acc /\ now.rest = s /\ now.frames = f
      BY <2>2 DEF Acc
    <2> HIDE DEF now, acc
    <2>5. ScanFrom(acc, Append(s, e)) = Scan(now, e)
      BY <2>2, <2>3, ScanAppend
    <2>6. Ending(Append(s, e)) = {}
      BY <2>1, <2>2
    <2>7. Scan(now, e) = [frames |-> f, rest |-> Append(s, e)]
      BY <2>2, <2>4, <2>6, ScanStep
    <2> QED  BY <2>2, <2>5, <2>7
  <1> HIDE DEF N
  <1>3. Nat \subseteq N
    BY <1>1, <1>2, SetInduction
  <1> QED  BY <1>3 DEF N

\* Where value.find finds no marker, the reader meets the end of none.
LEMMA NoFrameYet ==
  ASSUME NEW f \in Seq(Frame), NEW b \in Seq(Char), Matches(b) = {}
  PROVE  ScanFrom([frames |-> f, rest |-> <<>>], b) = [frames |-> f, rest |-> b]
  <1>1. ASSUME NEW j \in 1 .. Len(b)  PROVE Ending(SubSeq(b, 1, j)) = {}
    <2>1. \A m \in Marker : Found(b, m) = {}
      BY DEF Matches
    <2>2. ASSUME NEW m \in Marker  PROVE m \notin Ending(SubSeq(b, 1, j))
      <3>1. j \in 0 .. Len(b)
        OBVIOUS
      <3> QED  BY <2>1, <3>1, EndingFound
    <2> QED  BY <2>2 DEF Ending
  <1>2. Len(b) \in 0 .. Len(b) /\ SubSeq(b, 1, Len(b)) = b
    OBVIOUS
  <1> QED  BY <1>1, <1>2, ReadQuietly

\* _frame_boundary returns a marker, and the leftmost of all.
LEMMA BoundaryIs ==
  ASSUME NEW b \in Seq(Char), Matches(b) # {}
  PROVE  \E m \in Marker :
           /\ FrameBoundary(b).at \in Found(b, m) /\ FrameBoundary(b).width = Len(m)
           /\ \A o \in Marker : \A i \in Found(b, o) : FrameBoundary(b).at <= i
  <1>1. ASSUME NEW m \in Marker, Found(b, m) # {}
        PROVE  Find(b, m).at \in Found(b, m) /\ \A i \in Found(b, m) : Find(b, m).at <= i
    <2>1. Found(b, m) \subseteq Nat
      BY DEF Found
    <2>2. \E x \in Found(b, m) : \A y \in Found(b, m) : x <= y
      BY <1>1, <2>1, LeastExists
    <2> QED  BY <2>2 DEF Find, Min
  <1> DEFINE A == UNION {Found(b, m) : m \in Marker}
  <1>2. A \subseteq Nat
    BY DEF Found
  <1>3. A # {}
    BY DEF Matches
  <1> HIDE DEF A
  <1>4. PICK x \in A : \A y \in A : x <= y
    BY <1>2, <1>3, LeastExists
  <1>5. PICK m \in Marker : x \in Found(b, m)
    BY DEF A
  <1>6. Find(b, m) \in Matches(b)
    BY <1>5 DEF Matches
  <1>7. ASSUME NEW o \in Matches(b)
        PROVE  \E k \in Marker : o = Find(b, k) /\ o.at \in Found(b, k) /\ o.at \in A
    <2>1. PICK k \in Marker : Found(b, k) # {} /\ o = Find(b, k)
      BY DEF Matches
    <2> QED  BY <1>1, <2>1 DEF A
  <1>8. Find(b, m).at = x
    <2>1. Find(b, m).at <= x /\ Find(b, m).at \in A
      BY <1>1, <1>5 DEF A
    <2>2. x <= Find(b, m).at
      BY <2>1, <1>4
    <2>3. x \in Nat /\ Find(b, m).at \in Nat
      BY <1>2, <2>1
    <2> QED  BY <2>1, <2>2, <2>3
  <1>9. \A o \in Matches(b) : Find(b, m).at <= o.at
    BY <1>4, <1>7, <1>8
  <1> DEFINE x0 == FrameBoundary(b)
  <1>10. x0 \in Matches(b) /\ \A o \in Matches(b) : x0.at <= o.at
    BY <1>6, <1>9 DEF FrameBoundary
  <1> HIDE DEF x0
  <1>11. PICK k \in Marker : x0 = Find(b, k) /\ x0.at \in Found(b, k) /\ x0.at \in A
    BY <1>7, <1>10
  <1>12. x0.width = Len(k)
    BY <1>11 DEF Find
  <1>13. x0.at = x
    <2>1. x0.at <= x
      BY <1>6, <1>8, <1>10
    <2>2. x <= x0.at
      BY <1>4, <1>11
    <2>3. x \in Nat /\ x0.at \in Nat
      BY <1>2, <1>11
    <2> QED  BY <2>1, <2>2, <2>3
  <1>14. \A o \in Marker : \A i \in Found(b, o) : x0.at <= i
    BY <1>4, <1>13 DEF A
  <1> QED  BY <1>11, <1>12, <1>14 DEF x0

\* The markers and their widths.
LEMMA MarkerWidths ==
  \A o \in Marker : (o = NN /\ Len(o) = 2) \/ (o = RR /\ Len(o) = 2) \/ (o = RNRN /\ Len(o) = 4)
  <1>1. Len(NN) = 2 /\ Len(RR) = 2 /\ Len(RNRN) = 4
    BY DEF NN, RR, RNRN
  <1> QED  BY <1>1, MarkerIs

\* No marker ends before the leftmost one does.
LEMMA LeftmostEndsFirst ==
  ASSUME NEW b \in Seq(Char), NEW m \in Marker, NEW at \in Found(b, m),
         \A o \in Marker : \A i \in Found(b, o) : at <= i,
         NEW j \in 1 .. (at + Len(m)) - 2
  PROVE  Ending(SubSeq(b, 1, j)) = {} /\ j \in 0 .. Len(b)
  <1>2. \A o \in Marker : (o = NN /\ Len(o) = 2) \/ (o = RR /\ Len(o) = 2) \/ (o = RNRN /\ Len(o) = 4)
    BY MarkerWidths
  <1>3. at \in Nat /\ at >= 1 /\ (at + Len(m)) - 1 <= Len(b) /\ Len(m) \in Nat
    <2>1. at \in 1 .. (Len(b) + 1) - Len(m) /\ Len(m) \in Nat
      BY <1>2 DEF Found
    <2> QED  BY <2>1
  <1>4. j \in 0 .. Len(b)
    BY <1>3
  <1>5. ASSUME NEW o \in Ending(SubSeq(b, 1, j))  PROVE FALSE
    <2> DEFINE i == (j + 1) - Len(o)
    <2>1. o \in Marker
      BY DEF Ending
    <2>2. i \in Found(b, o)
      BY <1>4, <2>1, EndingFound
    <2>3. at <= i /\ Len(o) \in Nat /\ j + 1 <= (at + Len(m)) - 1 /\ j \in Nat
      BY <1>2, <1>3, <2>1, <2>2
    <2>4. Len(o) < Len(m)
      BY <1>3, <2>3
    <2>5. Len(o) = 2 /\ Len(m) = 4 /\ m = RNRN /\ (o = NN \/ o = RR)
      <3>1. (o = NN /\ Len(o) = 2) \/ (o = RR /\ Len(o) = 2) \/ (o = RNRN /\ Len(o) = 4)
        BY <1>2, <2>1
      <3>2. (m = NN /\ Len(m) = 2) \/ (m = RR /\ Len(m) = 2) \/ (m = RNRN /\ Len(m) = 4)
        BY <1>2
      <3>3. Len(o) = 2 /\ Len(m) = 4
        <4>1. CASE Len(o) = 4 /\ Len(m) = 2
          BY <4>1, <2>4
        <4>2. CASE Len(o) = Len(m)
          BY <4>2, <2>3, <2>4
        <4> QED  BY <3>1, <3>2, <4>1, <4>2
      <3> QED  BY <3>1, <3>2, <3>3
    <2>6. i = j - 1
      BY <2>3, <2>5
    <2>7. i = at \/ i = at + 1
      BY <1>3, <2>3, <2>5, <2>6
    <2>8. b[at] = "r" /\ b[at + 1] = "n" /\ b[at + 2] = "r" /\ b[at + 3] = "n"
      BY <1>3, <2>5, FoundIs
    <2>9. i \in Nat /\ (at + 1) + 1 = at + 2
      BY <1>3, <2>7
    <2> HIDE DEF i
    <2>10. b[i] = b[i + 1]
      BY <2>2, <2>5, <2>9, FoundIs
    <2> QED  BY <2>7, <2>8, <2>9, <2>10
  <1> QED  BY <1>4, <1>5

\* Cutting a frame off the buffer is what the reader does when it meets the end of the marker.
LEMMA FrameRead ==
  ASSUME NEW f \in Seq(Frame), NEW b \in Seq(Char), Matches(b) # {}
  PROVE  LET x == FrameBoundary(b)
             frame == SubSeq(b, 1, x.at - 1)
             left == SubSeq(b, x.at + x.width, Len(b))
         IN /\ frame \in Frame /\ left \in Seq(Char)
            /\ ScanFrom([frames |-> f, rest |-> <<>>], b)
                 = ScanFrom([frames |-> Given(f, frame), rest |-> <<>>], left)
  <1> DEFINE x == FrameBoundary(b)
             at == x.at
             frame == SubSeq(b, 1, at - 1)
             left == SubSeq(b, at + x.width, Len(b))
  <1>1. PICK m \in Marker : /\ at \in Found(b, m) /\ x.width = Len(m)
                            /\ \A o \in Marker : \A i \in Found(b, o) : at <= i
    BY BoundaryIs
  <1>2. Len(m) \in Nat /\ Len(m) >= 2
    <2>1. Len(m) = 2 \/ Len(m) = 4
      BY MarkerWidths
    <2>2. CASE Len(m) = 2
      BY <2>2
    <2>3. CASE Len(m) = 4
      BY <2>3
    <2> QED  BY <2>1, <2>2, <2>3
  <1> HIDE DEF x
  <1> DEFINE end == (at + Len(m)) - 1
  <1> HIDE DEF at
  <1>3. at \in Nat /\ at >= 1 /\ end <= Len(b) /\ end \in Nat /\ end >= 1 /\ Len(b) \in Nat
    <2>1. at \in 1 .. (Len(b) + 1) - Len(m)
      BY <1>1 DEF Found
    <2> QED  BY <1>2, <2>1
  <1>4. \A j \in 1 .. end - 1 : Ending(SubSeq(b, 1, j)) = {}
    <2> SUFFICES ASSUME NEW j \in 1 .. end - 1  PROVE Ending(SubSeq(b, 1, j)) = {}
      OBVIOUS
    <2>1. j \in 1 .. (at + Len(m)) - 2
      BY <1>2, <1>3
    <2> QED  BY <1>1, <2>1, LeftmostEndsFirst
  <1>5. m \in Ending(SubSeq(b, 1, end))
    <2>1. end \in 0 .. Len(b) /\ (end + 1) - Len(m) = at
      BY <1>2, <1>3
    <2> HIDE DEF end
    <2> QED  BY <1>1, <2>1, EndingFound
  <1> DEFINE acc == [frames |-> f, rest |-> <<>>]
             s == SubSeq(b, 1, end - 1)
             e == b[end]
             now == [frames |-> f, rest |-> s]
             next == [frames |-> Given(f, frame), rest |-> <<>>]
  <1>6. x.width = Len(m) /\ at + x.width = end + 1
    BY <1>1, <1>2, <1>3
  <1>7. end - Len(m) = at - 1
    BY <1>2, <1>3
  <1> HIDE DEF end
  <1>8. s \in Seq(Char) /\ e \in Char /\ Append(s, e) \in Seq(Char) /\ Append(s, e) = SubSeq(b, 1, end) /\ Len(Append(s, e)) = end
    BY <1>3
  <1>9. ScanFrom(acc, s) = now
    <2>1. end - 1 \in 0 .. Len(b)
      BY <1>3
    <2> QED  BY <1>4, <2>1, ReadQuietly
  <1>10. SubSeq(Append(s, e), 1, end - Len(m)) = frame /\ frame \in Frame
    <2>1. SubSeq(SubSeq(b, 1, end), 1, at - 1) = SubSeq(b, 1, at - 1)
      BY <1>2, <1>3, <1>7
    <2>2. frame \in Frame
      BY <1>3, <1>2, <1>7 DEF Frame
    <2> QED  BY <1>7, <1>8, <2>1, <2>2
  <1>11. left = SubSeq(b, end + 1, Len(b)) /\ left \in Seq(Char) /\ b = SubSeq(b, 1, end) \o left
    <2>1. left = SubSeq(b, end + 1, Len(b))
      BY <1>6
    <2>2. SubSeq(b, end + 1, Len(b)) \in Seq(Char) /\ b = SubSeq(b, 1, end) \o SubSeq(b, end + 1, Len(b))
      BY <1>3
    <2> QED  BY <2>1, <2>2
  <1> HIDE DEF s, e, frame, left
  <1>12. now \in Acc /\ now.rest = s /\ now.frames = f
    BY <1>8 DEF Acc
  <1> HIDE DEF now
  <1>13. Scan(now, e) = [frames |-> Given(f, SubSeq(Append(s, e), 1, end - Len(m))), rest |-> <<>>]
    <2>1. m \in Ending(Append(s, e))
      BY <1>5, <1>8
    <2>2. Scan(now, e) = [frames |-> Given(f, SubSeq(Append(s, e), 1, Len(Append(s, e)) - Len(m))), rest |-> <<>>]
      BY <1>8, <1>12, <2>1, ScanStep
    <2> QED  BY <1>8, <2>2
  <1>14. Scan(now, e) = next
    BY <1>10, <1>13
  <1> HIDE DEF acc, next
  <1>15. ScanFrom(acc, Append(s, e)) = next
    BY <1>8, <1>9, <1>14, ScanAppend
  <1>16. Append(s, e) \in Seq(Char) /\ b = Append(s, e) \o left
    <2>1. Append(s, e) \in Seq(Char)
      BY <1>8, Zenon
    <2>2. b = SubSeq(b, 1, end) \o left
      BY <1>11
    <2>3. Append(s, e) = SubSeq(b, 1, end)
      BY <1>8
    <2> QED  BY <2>1, <2>2, <2>3
  <1>17. ScanFrom(acc, Append(s, e) \o left) = ScanFrom(ScanFrom(acc, Append(s, e)), left)
    BY <1>11, <1>16, ScanConcat
  <1>18. ScanFrom(acc, b) = ScanFrom(next, left)
    BY <1>15, <1>16, <1>17
  <1> QED  BY <1>10, <1>11, <1>18 DEF acc, next, frame, left, at, x

\* No frame of o has data that does not parse.
NoInvalid(o) == \A i \in DOMAIN o : ~IsInvalid(o[i])

\* What a client that sees v was given (o) of a text (t), with b still in the buffer.
Faithful(v, t, b, o) ==
  /\ v = "open" => ScanFrom([frames |-> o, rest |-> <<>>], b) = Scanned(t)
  /\ v = "done" => o = Given(Scanned(t).frames, Scanned(t).rest)
  /\ v \in {"error", "gone"} => IsPrefix(o, Scanned(t).frames)
  /\ NoInvalid(o)

StreamsInv ==
  /\ TaskStreamTypeOK
  /\ \A c \in Stream : Faithful(view[c], text[c], buffer[c], out[c])

\* Only valid frames are given.
LEMMA GivenValid ==
  ASSUME NEW o \in Seq(Frame), NEW g \in Frame, NoInvalid(o), ~IsInvalid(g)
  PROVE  NoInvalid(Given(o, g))
  <1>1. CASE Given(o, g) = o
    BY <1>1
  <1>2. CASE Given(o, g) = Append(o, g)
    <2> DEFINE p == Append(o, g)
    <2>1. ASSUME NEW i \in DOMAIN p  PROVE ~IsInvalid(p[i])
      <3>1. CASE i \in DOMAIN o
        <4>1. p[i] = o[i]
          BY <3>1
        <4> QED  BY <3>1, <4>1 DEF NoInvalid
      <3>2. CASE i = Len(o) + 1
        <4>1. p[i] = g
          BY <3>2
        <4> QED  BY <4>1
      <3>3. i \in DOMAIN o \/ i = Len(o) + 1
        <4>1. DOMAIN o = 1 .. Len(o) /\ DOMAIN p = 1 .. Len(o) + 1 /\ Len(o) \in Nat
          OBVIOUS
        <4> HIDE DEF p
        <4> QED  BY <4>1
      <3> QED  BY <3>1, <3>2, <3>3
    <2> QED  BY <1>2, <2>1 DEF NoInvalid
  <1> QED  BY <1>1, <1>2 DEF Given

\* A stream that was just opened, or refused.
LEMMA StreamOpened == \A v \in {"idle", "open", "error"} : Faithful(v, <<>>, <<>>, <<>>)
  <1>1. ScanFrom([frames |-> <<>>, rest |-> <<>>], <<>>) = [frames |-> <<>>, rest |-> <<>>]
    BY ScanEmpty
  <1>2. IsPrefix(<<>>, <<>>)
    BY DEF IsPrefix
  <1>3. NoInvalid(<<>>)
    BY DEF NoInvalid
  <1>4. Scanned(<<>>) = [frames |-> <<>>, rest |-> <<>>]
    BY <1>1 DEF Scanned
  <1>5. Scanned(<<>>).frames = <<>>
    BY <1>4
  <1> QED  BY <1>1, <1>2, <1>3, <1>4, <1>5 DEF Faithful

\* A chunk, wherever it was cut, keeps the reader of the buffer and the one of the text together.
LEMMA ChunkReceived ==
  ASSUME NEW t \in Seq(Char), NEW b \in Seq(Char), NEW o \in Seq(Frame), NEW chunk \in Seq(Char),
         Faithful("open", t, b, o)
  PROVE  Faithful("open", t \o chunk, b \o chunk, o)
  <1> DEFINE acc == [frames |-> o, rest |-> <<>>]
             none == [frames |-> <<>>, rest |-> <<>>]
  <1>1. ScanFrom(acc, b) = ScanFrom(none, t) /\ NoInvalid(o)
    BY DEF Faithful, Scanned
  <1> HIDE DEF acc, none
  <1>2. ScanFrom(acc, b \o chunk) = ScanFrom(ScanFrom(acc, b), chunk)
    BY ScanConcat
  <1>3. ScanFrom(none, t \o chunk) = ScanFrom(ScanFrom(none, t), chunk)
    BY ScanConcat
  <1>4. ScanFrom(acc, b \o chunk) = ScanFrom(none, t \o chunk)
    BY <1>1, <1>2, <1>3
  <1> QED  BY <1>1, <1>4 DEF Faithful, Scanned, acc, none

\* A stream that ends early has given a beginning of the frames.
LEMMA StreamCut ==
  ASSUME NEW t \in Seq(Char), NEW b \in Seq(Char), NEW o \in Seq(Frame),
         Faithful("open", t, b, o), NEW v \in {"error", "gone"}, NEW d
  PROVE  Faithful(v, t, d, o)
  <1> DEFINE acc == [frames |-> o, rest |-> <<>>]
  <1>1. acc \in Acc /\ acc.frames = o
    BY DEF Acc
  <1>2. ScanFrom(acc, b) = Scanned(t) /\ NoInvalid(o)
    BY DEF Faithful
  <1> HIDE DEF acc
  <1>3. IsPrefix(o, Scanned(t).frames)
    BY <1>1, <1>2, ScanType
  <1> QED  BY <1>2, <1>3 DEF Faithful

\* A frame that is projected keeps the readers together.
LEMMA FrameProjected ==
  ASSUME NEW t \in Seq(Char), NEW b \in Seq(Char), NEW o \in Seq(Frame),
         Faithful("open", t, b, o), Matches(b) # {}
  PROVE  LET x == FrameBoundary(b)
             frame == SubSeq(b, 1, x.at - 1)
             left == SubSeq(b, x.at + x.width, Len(b))
         IN /\ left \in Seq(Char) /\ Given(o, frame) \in Seq(Frame)
            /\ ~IsInvalid(frame) => Faithful("open", t, left, Given(o, frame))
  <1> DEFINE x == FrameBoundary(b)
             frame == SubSeq(b, 1, x.at - 1)
             left == SubSeq(b, x.at + x.width, Len(b))
  <1>1. /\ frame \in Frame /\ left \in Seq(Char)
        /\ ScanFrom([frames |-> o, rest |-> <<>>], b) = ScanFrom([frames |-> Given(o, frame), rest |-> <<>>], left)
    BY FrameRead
  <1>2. ScanFrom([frames |-> o, rest |-> <<>>], b) = Scanned(t) /\ NoInvalid(o)
    BY DEF Faithful
  <1> HIDE DEF frame, left
  <1>3. Given(o, frame) \in Seq(Frame)
    BY <1>1, GivenIs
  <1>4. ~IsInvalid(frame) => NoInvalid(Given(o, frame))
    BY <1>1, <1>2, GivenValid
  <1>5. ~IsInvalid(frame) => Faithful("open", t, left, Given(o, frame))
    BY <1>1, <1>2, <1>4 DEF Faithful
  <1> QED  BY <1>1, <1>3, <1>5 DEF frame, left

\* Where the buffer has no marker, the client has all complete frames.
LEMMA TextIsRead ==
  ASSUME NEW t \in Seq(Char), NEW b \in Seq(Char), NEW o \in Seq(Frame),
         Faithful("open", t, b, o), Matches(b) = {}
  PROVE  Scanned(t).frames = o /\ Scanned(t).rest = b
  <1>1. ScanFrom([frames |-> o, rest |-> <<>>], b) = [frames |-> o, rest |-> b]
    BY NoFrameYet
  <1>2. Scanned(t) = [frames |-> o, rest |-> b]
    BY <1>1 DEF Faithful
  <1> QED  BY <1>2

\* A stream that ends well has given the rest of the buffer, too.
LEMMA StreamEnded ==
  ASSUME NEW t \in Seq(Char), NEW b \in Seq(Char), NEW o \in Seq(Frame),
         Faithful("open", t, b, o), Matches(b) = {}
  PROVE  /\ Given(o, b) \in Seq(Frame)
         /\ ~IsInvalid(b) => Faithful("done", t, <<>>, Given(o, b))
  <1>1. Scanned(t).frames = o /\ Scanned(t).rest = b
    BY TextIsRead
  <1>2. b \in Frame /\ NoInvalid(o)
    BY DEF Frame, Faithful
  <1>3. Given(o, b) \in Seq(Frame) /\ (~IsInvalid(b) => NoInvalid(Given(o, b)))
    BY <1>2, GivenIs, GivenValid
  <1> QED  BY <1>1, <1>3 DEF Faithful

\* A step gives c, and no other stream, values that are right.
StreamSet(c) ==
  \E v \in {"idle", "open", "done", "error", "gone"}, t \in Seq(Char), b \in Seq(Char), o \in Seq(Frame) :
    /\ view' = [view EXCEPT ![c] = v] /\ text' = [text EXCEPT ![c] = t]
    /\ buffer' = [buffer EXCEPT ![c] = b] /\ out' = [out EXCEPT ![c] = o]
    /\ Faithful(v, t, b, o)

\* The invariant holds at first and is kept by every step of the task endpoint.
LEMMA StreamSteps ==
  /\ StreamInit => StreamsInv
  /\ StreamsInv /\ (StreamNext \/ UNCHANGED streamVars) => StreamsInv'
  <1>1. ASSUME StreamInit  PROVE StreamsInv
    <2>1. TaskStreamTypeOK
      BY <1>1 DEF StreamInit, TaskStreamTypeOK
    <2>2. ASSUME NEW c \in Stream  PROVE Faithful(view[c], text[c], buffer[c], out[c])
      <3>1. view[c] = "idle" /\ text[c] = <<>> /\ buffer[c] = <<>> /\ out[c] = <<>>
        BY <1>1 DEF StreamInit
      <3> QED  BY <3>1, StreamOpened
    <2> QED  BY <2>1, <2>2 DEF StreamsInv
  <1>2. ASSUME StreamsInv, UNCHANGED streamVars  PROVE StreamsInv'
    BY <1>2 DEF StreamsInv, TaskStreamTypeOK, streamVars
  <1>3. ASSUME StreamsInv, NEW c \in Stream, StreamStep(c)  PROVE StreamsInv'
    <2>0. /\ TaskStreamTypeOK
          /\ \A s \in Stream : Faithful(view[s], text[s], buffer[s], out[s])
      BY <1>3 DEF StreamsInv
    <2>1. /\ text[c] \in Seq(Char) /\ buffer[c] \in Seq(Char) /\ out[c] \in Seq(Frame)
          /\ Faithful(view[c], text[c], buffer[c], out[c])
      BY <2>0 DEF TaskStreamTypeOK, Frame
    <2>2. SUFFICES StreamSet(c)
      <3>1. PICK v \in {"idle", "open", "done", "error", "gone"}, t \in Seq(Char),
                 b \in Seq(Char), o \in Seq(Frame) :
                     /\ view' = [view EXCEPT ![c] = v] /\ text' = [text EXCEPT ![c] = t]
                     /\ buffer' = [buffer EXCEPT ![c] = b] /\ out' = [out EXCEPT ![c] = o]
                     /\ Faithful(v, t, b, o)
        BY <2>2 DEF StreamSet
      <3>2. TaskStreamTypeOK'
        BY <2>0, <3>1 DEF TaskStreamTypeOK, Frame
      <3>3. ASSUME NEW s \in Stream  PROVE Faithful(view[s], text[s], buffer[s], out[s])'
        <4>1. CASE s = c
          <5>1. view'[s] = v /\ text'[s] = t /\ buffer'[s] = b /\ out'[s] = o
            BY <2>0, <3>1, <4>1 DEF TaskStreamTypeOK
          <5> QED  BY <3>1, <5>1
        <4>2. CASE s # c
          <5>1. view'[s] = view[s] /\ text'[s] = text[s] /\ buffer'[s] = buffer[s] /\ out'[s] = out[s]
            BY <2>0, <3>1, <4>2 DEF TaskStreamTypeOK
          <5> QED  BY <2>0, <5>1
        <4> QED  BY <4>1, <4>2
      <3> QED  BY <3>2, <3>3 DEF StreamsInv
    <2>3. /\ view = [view EXCEPT ![c] = view[c]] /\ text = [text EXCEPT ![c] = text[c]]
          /\ buffer = [buffer EXCEPT ![c] = buffer[c]] /\ out = [out EXCEPT ![c] = out[c]]
      BY <2>0 DEF TaskStreamTypeOK
    <2>4. CASE OpenStream(c)
      <3>1. \E v \in {"open", "error"} : view' = [view EXCEPT ![c] = v]
        BY <2>4 DEF OpenStream, Shows
      <3>2. /\ text' = [text EXCEPT ![c] = <<>>] /\ buffer' = [buffer EXCEPT ![c] = <<>>]
            /\ out' = [out EXCEPT ![c] = <<>>]
        BY <2>4 DEF OpenStream
      <3>3. <<>> \in Seq(Char) /\ <<>> \in Seq(Frame)
        OBVIOUS
      <3> QED  BY <3>1, <3>2, <3>3, StreamOpened DEF StreamSet
    <2>5. ASSUME NEW chunk \in Chunks(c), Receive(c, chunk)
          PROVE  StreamSet(c)
      <3>1. chunk \in Seq(Char)
        <4>1. PICK n \in 1 .. MaxText - Len(text[c]) : chunk \in [1 .. n -> Char]
          BY <2>5 DEF Chunks
        <4>2. n \in Nat
          BY <2>1, StreamAssumption DEF StreamAssumption
        <4> QED  BY <4>1, <4>2
      <3>2. view[c] = "open" /\ view' = view /\ out' = out
        BY <2>5 DEF Receive
      <3>3. /\ text' = [text EXCEPT ![c] = text[c] \o chunk]
            /\ buffer' = [buffer EXCEPT ![c] = buffer[c] \o chunk]
        BY <2>5 DEF Receive
      <3>4. Faithful("open", text[c] \o chunk, buffer[c] \o chunk, out[c])
        BY <2>1, <3>1, <3>2, ChunkReceived
      <3>5. text[c] \o chunk \in Seq(Char) /\ buffer[c] \o chunk \in Seq(Char)
        BY <2>1, <3>1
      <3>6. view' = [view EXCEPT ![c] = "open"] /\ out' = [out EXCEPT ![c] = out[c]]
        BY <2>3, <3>2
      <3> QED  BY <2>1, <3>3, <3>4, <3>5, <3>6 DEF StreamSet
    <2>6. CASE ProjectFrame(c)
      <3> DEFINE x == FrameBoundary(buffer[c])
                 frame == SubSeq(buffer[c], 1, x.at - 1)
                 left == SubSeq(buffer[c], x.at + x.width, Len(buffer[c]))
      <3>1. view[c] = "open" /\ Matches(buffer[c]) # {} /\ text' = text
        BY <2>6 DEF ProjectFrame
      <3>2. buffer' = [buffer EXCEPT ![c] = left]
        BY <2>6 DEF ProjectFrame
      <3>3. IF IsInvalid(frame) THEN view' = [view EXCEPT ![c] = "error"] /\ out' = out
                                ELSE out' = [out EXCEPT ![c] = Given(out[c], frame)] /\ view' = view
        BY <2>6 DEF ProjectFrame, Shows
      <3>4. /\ left \in Seq(Char) /\ Given(out[c], frame) \in Seq(Frame)
            /\ ~IsInvalid(frame) => Faithful("open", text[c], left, Given(out[c], frame))
        BY <2>1, <3>1, FrameProjected
      <3> HIDE DEF frame, left
      <3>5. CASE IsInvalid(frame)
        <4>1. Faithful("error", text[c], left, out[c])
          BY <2>1, <3>1, StreamCut
        <4> QED  BY <2>1, <2>3, <3>1, <3>2, <3>3, <3>4, <3>5, <4>1 DEF StreamSet
      <3>6. CASE ~IsInvalid(frame)
        <4>1. view' = [view EXCEPT ![c] = "open"] /\ text' = [text EXCEPT ![c] = text[c]]
          BY <2>3, <3>1, <3>3, <3>6
        <4> QED  BY <2>1, <3>2, <3>3, <3>4, <3>6, <4>1 DEF StreamSet
      <3> QED  BY <3>5, <3>6
    <2>7. CASE EndOfStream(c)
      <3>1. view[c] = "open" /\ Matches(buffer[c]) = {} /\ text' = text
        BY <2>7 DEF EndOfStream
      <3>2. buffer' = [buffer EXCEPT ![c] = <<>>]
        BY <2>7 DEF EndOfStream
      <3>3. IF IsInvalid(buffer[c])
              THEN view' = [view EXCEPT ![c] = "error"] /\ out' = out
              ELSE out' = [out EXCEPT ![c] = Given(out[c], buffer[c])] /\ view' = [view EXCEPT ![c] = "done"]
        BY <2>7 DEF EndOfStream, Shows
      <3>4. Given(out[c], buffer[c]) \in Seq(Frame)
            /\ (~IsInvalid(buffer[c]) => Faithful("done", text[c], <<>>, Given(out[c], buffer[c])))
        BY <2>1, <3>1, StreamEnded
      <3>5. <<>> \in Seq(Char) /\ text' = [text EXCEPT ![c] = text[c]]
        BY <2>3, <3>1
      <3>6. CASE IsInvalid(buffer[c])
        <4>1. Faithful("error", text[c], <<>>, out[c])
          BY <2>1, <3>1, StreamCut
        <4>2. out' = [out EXCEPT ![c] = out[c]]
          BY <2>3, <3>3, <3>6
        <4> QED  BY <2>1, <3>2, <3>3, <3>5, <3>6, <4>1, <4>2 DEF StreamSet
      <3>7. CASE ~IsInvalid(buffer[c])
        BY <2>1, <3>2, <3>3, <3>4, <3>5, <3>7 DEF StreamSet
      <3> QED  BY <3>6, <3>7
    <2>8. ASSUME NEW v \in {"error", "gone"}, view[c] = "open", Shows(c, v), UNCHANGED <<text, buffer, out>>
          PROVE  StreamSet(c)
      <3>1. Faithful(v, text[c], buffer[c], out[c])
        BY <2>1, <2>8, StreamCut
      <3>2. /\ view' = [view EXCEPT ![c] = v] /\ text' = [text EXCEPT ![c] = text[c]]
            /\ buffer' = [buffer EXCEPT ![c] = buffer[c]] /\ out' = [out EXCEPT ![c] = out[c]]
        BY <2>3, <2>8 DEF Shows
      <3> QED  BY <2>1, <3>1, <3>2 DEF StreamSet
    <2>9. ASSUME NEW o \in {"fault", "clientError"}, StreamBreaks(c, o)
          PROVE  view[c] = "open" /\ Shows(c, "error") /\ UNCHANGED <<text, buffer, out>>
      BY <2>9 DEF StreamBreaks
    <2>10. Disconnect(c) => view[c] = "open" /\ Shows(c, "gone") /\ UNCHANGED <<text, buffer, out>>
      BY DEF Disconnect
    <2>11. (\E o \in {"fault", "clientError"} : StreamBreaks(c, o)) \/ Disconnect(c)
             => \E v \in {"error", "gone"} : view[c] = "open" /\ Shows(c, v) /\ UNCHANGED <<text, buffer, out>>
      BY <2>9, <2>10
    <2> QED  BY <1>3, <2>4, <2>5, <2>6, <2>7, <2>8, <2>11 DEF StreamStep
  <1>4. ASSUME StreamsInv, StreamNext  PROVE StreamsInv'
    BY <1>2, <1>3, <1>4 DEF StreamNext, PlainStep
  <1> QED  BY <1>1, <1>2, <1>4

\* The invariant holds throughout.
LEMMA StreamsInvariant == EndpointsSpec => []StreamsInv
  <1>1. EndpointsInit => StreamsInv
    BY StreamSteps DEF EndpointsInit
  <1>2. StreamsInv /\ [EndpointsNext]_allVars => StreamsInv'
    <2>1. [EndpointsNext]_allVars => StreamNext \/ UNCHANGED streamVars
      BY DEF EndpointsNext, allVars
    <2> QED  BY <2>1, StreamSteps
  <1> QED  BY <1>1, <1>2, PTL DEF EndpointsSpec

\* The client of a task stream is given the frames of the service's text, whole and in order,
\* however the text was cut into chunks, for texts of any length and any number of streams.
THEOREM ChunksDoNotMatter == EndpointsSpec => []FramesIgnoreChunking
  <1>1. StreamsInv => FramesIgnoreChunking
    <2> SUFFICES ASSUME StreamsInv, NEW c \in Stream
                 PROVE  LET scan == Scanned(text[c])
                        IN /\ view[c] = "open" /\ Matches(buffer[c]) = {} => out[c] = scan.frames /\ buffer[c] = scan.rest
                           /\ view[c] = "done" => out[c] = Given(scan.frames, scan.rest)
                           /\ view[c] \in {"error", "gone"} => IsPrefix(out[c], scan.frames)
                           /\ \A i \in DOMAIN out[c] : ~IsInvalid(out[c][i])
      BY DEF FramesIgnoreChunking
    <2>1. /\ text[c] \in Seq(Char) /\ buffer[c] \in Seq(Char) /\ out[c] \in Seq(Frame)
          /\ Faithful(view[c], text[c], buffer[c], out[c])
      BY DEF StreamsInv, TaskStreamTypeOK, Frame
    <2>2. view[c] = "open" /\ Matches(buffer[c]) = {}
            => Scanned(text[c]).frames = out[c] /\ Scanned(text[c]).rest = buffer[c]
      BY <2>1, TextIsRead
    <2> QED  BY <2>1, <2>2 DEF Faithful, NoInvalid
  <1> QED  BY <1>1, StreamsInvariant, PTL

-----------------------------------------------------------------------------
(* The reflexion stream *)

\* How many events can be in the queue: all that were put, but for the first, which the
\* generator was waiting for.
Backlog ==
  /\ producer = "before" => attempt = 1
  /\ producer = "before" \/ (producer = "putting" /\ item = "attempt-start" /\ attempt = 1) =>
       queue = <<>> /\ (cancelled \/ generator = "waiting")
  /\ producer = "putting" /\ item = "attempt-start" /\ attempt > 1 => Len(queue) + 1 <= 3 * (attempt - 1)
  /\ producer = "generating" \/ (producer = "putting" /\ item = "answer") => Len(queue) <= 3 * (attempt - 1)
  /\ producer = "reviewing" \/ (producer = "putting" /\ item \in {"critique", "error"}) =>
       Len(queue) <= 3 * (attempt - 1) + 1

\* The sentinel is the last event, and the only one of an ended producer that is still read.
SentinelIsLast ==
  /\ \A i \in 1 .. Len(queue) : queue[i] = "None" => i = Len(queue) /\ producer = "ended"
  /\ producer = "ended" /\ generator \in {"waiting", "sending"} =>
       queue # <<>> /\ queue[Len(queue)] = "None"

\* Only the finally clause of the generator cancels the producer, and only a live one.
CancelIsForClosing ==
  /\ cancelled => generator = "closing" /\ producer # "ended"
  /\ generator \in {"closing", "closed"} => producer = "ended" \/ cancelled

\* A generator that waits has a producer, one that closes has cancelled its producer or
\* outlived it, a cancellation finds somebody to strike, and no sentinel is owed after one.
ReflexionCannotHang ==
  /\ generator = "waiting" /\ queue = <<>> => producer # "ended"
  /\ generator \in {"closing", "closed"} => producer = "ended" \/ cancelled
  /\ cancelled => producer # "ended"
  /\ ~SentinelFollows

ReflexionInv == ReflexionTypeOK /\ Backlog /\ SentinelIsLast /\ CancelIsForClosing

\* The invariant holds when a request starts, and where there is none.
LEMMA ReflexionStarts == ReflexionInit \/ NoReflexion => ReflexionInv
  <1> SUFFICES ASSUME ReflexionInit \/ NoReflexion  PROVE ReflexionInv
    OBVIOUS
  <1>1. queue = <<>> /\ attempt = 1 /\ cancelled = FALSE /\ last = "nothing"
        /\ ((producer = "before" /\ item = "attempt-start" /\ generator = "waiting")
             \/ (producer = "ended" /\ item = "None" /\ generator = "closed"))
    BY DEF ReflexionInit, NoReflexion
  <1>2. attempt \in Attempt /\ queue \in Seq(Event) /\ Len(queue) <= maxsize /\ Len(queue) = 0
    BY <1>1, ReflexionAssumption DEF ReflexionAssumption, Attempt
  <1>3. ReflexionTypeOK
    BY <1>1, <1>2 DEF ReflexionTypeOK, Event
  <1>4. Backlog
    BY <1>1 DEF Backlog
  <1>5. SentinelIsLast
    BY <1>1, <1>2 DEF SentinelIsLast
  <1>6. CancelIsForClosing
    BY <1>1 DEF CancelIsForClosing
  <1> QED  BY <1>3, <1>4, <1>5, <1>6 DEF ReflexionInv

\* Every event before done finds room.
LEMMA NoRoomIsRare == ReflexionInv => ReflexionCannotHang
  <1> SUFFICES ASSUME ReflexionInv  PROVE ReflexionCannotHang
    OBVIOUS
  <1>1. ReflexionTypeOK /\ Backlog /\ SentinelIsLast /\ CancelIsForClosing
    BY DEF ReflexionInv
  <1>2. ~SentinelFollows
    <2> SUFFICES ASSUME SentinelFollows  PROVE FALSE
      OBVIOUS
    <2>1. Len(queue) <= 3 * (attempt - 1) + 1 /\ Len(queue) = maxsize
      BY <1>1 DEF SentinelFollows, Backlog
    <2>2. attempt \in Nat /\ attempt <= max_improvements + 1 /\ max_improvements \in Nat
          /\ maxsize \in Nat /\ 3 * (max_improvements + 1) <= maxsize + 1
      BY <1>1, ReflexionAssumption DEF ReflexionAssumption, ReflexionTypeOK, Attempt
    <2> QED  BY <2>1, <2>2
  <1> QED  BY <1>1, <1>2 DEF ReflexionCannotHang, SentinelIsLast, CancelIsForClosing

\* What is put, and what comes next.
LEMMA PutThen ==
  ASSUME ReflexionTypeOK, NEW accepted \in BOOLEAN, Puts(accepted)
  PROVE  \/ item = "attempt-start" /\ producer' = "generating" /\ attempt' = attempt /\ item' = item
         \/ item = "answer" /\ producer' = "reviewing" /\ attempt' = attempt /\ item' = item
         \/ item = "critique" /\ producer' = "putting" /\ item' = "done" /\ attempt' = attempt
         \/ item = "critique" /\ producer' = "putting" /\ item' = "attempt-start" /\ attempt' = attempt + 1
               /\ attempt <= max_improvements
         \/ item \in {"done", "error"} /\ producer' = "putting" /\ item' = "None" /\ attempt' = attempt
         \/ item = "None" /\ producer' = "ended" /\ item' = "None" /\ attempt' = attempt
  <1>0. attempt \in Nat /\ max_improvements \in Nat
    BY ReflexionAssumption DEF ReflexionTypeOK, ReflexionAssumption, Attempt
  <1>1. item \in {"attempt-start", "answer", "critique", "done", "error", "None"}
    BY DEF ReflexionTypeOK, Event
  <1>2. /\ producer' = Following(item) /\ item' = NextItem(item, accepted)
        /\ attempt' = IF item = "critique" /\ item' = "attempt-start" THEN attempt + 1 ELSE attempt
    BY DEF Puts
  <1>3. CASE item = "critique"
    <2>1. producer' = "putting"
      BY <1>2, <1>3 DEF Following
    <2>2. item' = IF accepted \/ attempt > max_improvements THEN "done" ELSE "attempt-start"
      BY <1>2, <1>3 DEF NextItem
    <2>3. CASE accepted \/ attempt > max_improvements
      BY <1>2, <1>3, <2>1, <2>2, <2>3
    <2>4. CASE ~accepted /\ ~(attempt > max_improvements)
      <3>1. attempt <= max_improvements
        BY <1>0, <2>4
      <3> QED  BY <1>2, <1>3, <2>1, <2>2, <2>4, <3>1
    <2> QED  BY <2>3, <2>4
  <1>4. CASE item # "critique"
    BY <1>1, <1>2, <1>4 DEF Following, NextItem
  <1> QED  BY <1>3, <1>4

\* Every step of the producer, the generator and the client keeps the invariant.
LEMMA ReflexionSteps ==
  ReflexionInv /\ (ReflexionNext \/ UNCHANGED reflexionVars) => ReflexionInv'
  <1> SUFFICES ASSUME ReflexionInv, ReflexionNext \/ UNCHANGED reflexionVars  PROVE ReflexionInv'
    OBVIOUS
  <1>0. ReflexionTypeOK /\ Backlog /\ SentinelIsLast /\ CancelIsForClosing /\ ~SentinelFollows
    BY NoRoomIsRare DEF ReflexionInv, ReflexionCannotHang
  <1>a. queue \in Seq(Event) /\ Len(queue) \in Nat /\ Len(queue) <= maxsize /\ maxsize \in Nat
        /\ attempt \in Nat /\ attempt >= 1 /\ attempt <= max_improvements + 1 /\ max_improvements \in Nat
    BY <1>0, ReflexionAssumption DEF ReflexionTypeOK, ReflexionAssumption, Attempt
  <1>1. ASSUME NEW blank \in BOOLEAN, ProducerStarts(blank)  PROVE ReflexionInv'
    <2>1. /\ producer = "before" /\ ~cancelled /\ producer' = "putting" /\ item' \in {"error", "attempt-start"}
          /\ UNCHANGED <<queue, attempt, cancelled, generator, last>>
      BY <1>1 DEF ProducerStarts, Wants
    <2>2. ReflexionTypeOK'
      BY <1>0, <2>1 DEF ReflexionTypeOK, Event
    <2>3. queue = <<>> /\ attempt = 1 /\ generator = "waiting" /\ Len(queue) = 0
      BY <1>0, <2>1 DEF Backlog
    <2>4. Backlog'
      BY <2>1, <2>3 DEF Backlog
    <2>5. SentinelIsLast' /\ CancelIsForClosing'
      BY <2>1, <2>3 DEF SentinelIsLast, CancelIsForClosing
    <2> QED  BY <2>2, <2>4, <2>5 DEF ReflexionInv
  <1>2. ASSUME NEW accepted \in BOOLEAN, Puts(accepted)  PROVE ReflexionInv'
    <2>1. producer = "putting" /\ ~cancelled /\ cancelled' = cancelled /\ generator \in {"waiting", "sending"}
      BY <1>0, <1>2 DEF Puts, ReflexionTypeOK, CancelIsForClosing
    <2>3. \/ item = "attempt-start" /\ producer' = "generating" /\ attempt' = attempt /\ item' = item
          \/ item = "answer" /\ producer' = "reviewing" /\ attempt' = attempt /\ item' = item
          \/ item = "critique" /\ producer' = "putting" /\ item' = "done" /\ attempt' = attempt
          \/ item = "critique" /\ producer' = "putting" /\ item' = "attempt-start" /\ attempt' = attempt + 1
                /\ attempt <= max_improvements
          \/ item \in {"done", "error"} /\ producer' = "putting" /\ item' = "None" /\ attempt' = attempt
          \/ item = "None" /\ producer' = "ended" /\ item' = "None" /\ attempt' = attempt
      BY <1>0, <1>2, PutThen
    <2>4. attempt' \in Attempt
      BY <1>a, <2>3 DEF Attempt
    <2>5. CASE generator = "waiting" /\ queue = <<>>
      <3>1. queue' = queue /\ last' = item /\ generator' = IF item = "None" THEN "closing" ELSE "sending"
        BY <1>2, <2>5 DEF Puts
      <3>2. Len(queue') = 0 /\ Len(queue) = 0
        BY <2>5, <3>1
      <3>3. ReflexionTypeOK'
        BY <1>0, <2>1, <2>3, <2>4, <3>1 DEF ReflexionTypeOK, Event
      <3>4. Backlog'
        BY <1>a, <2>3, <3>2 DEF Backlog
      <3>5. SentinelIsLast'
        BY <2>3, <3>1, <3>2 DEF SentinelIsLast
      <3>6. CancelIsForClosing'
        BY <2>1, <2>3, <3>1 DEF CancelIsForClosing
      <3> QED  BY <3>3, <3>4, <3>5, <3>6 DEF ReflexionInv
    <2>6. CASE ~(generator = "waiting" /\ queue = <<>>)
      <3>1. Len(queue) < maxsize /\ queue' = Append(queue, item) /\ UNCHANGED <<generator, last>>
        BY <1>2, <2>6 DEF Puts
      <3>2. /\ queue' \in Seq(Event) /\ Len(queue') = Len(queue) + 1 /\ queue'[Len(queue) + 1] = item
            /\ \A i \in 1 .. Len(queue) : queue'[i] = queue[i]
        BY <1>0, <1>a, <3>1 DEF ReflexionTypeOK
      <3>3. ReflexionTypeOK'
        BY <1>0, <1>a, <2>1, <2>3, <2>4, <3>1, <3>2 DEF ReflexionTypeOK, Event
      <3>4. item = "attempt-start" => attempt > 1
        <4>1. ~(item = "attempt-start" /\ attempt = 1)
          BY <1>0, <2>1, <2>6 DEF Backlog
        <4> QED  BY <1>a, <4>1
      <3>5. Backlog'
        <4>1. CASE item = "attempt-start"
          <5>1. Len(queue) + 1 <= 3 * (attempt - 1) /\ producer' = "generating" /\ attempt' = attempt
            BY <1>0, <2>1, <2>3, <3>4, <4>1 DEF Backlog
          <5> QED  BY <1>a, <3>2, <5>1 DEF Backlog
        <4>2. CASE item = "answer"
          <5>1. Len(queue) <= 3 * (attempt - 1) /\ producer' = "reviewing" /\ attempt' = attempt
            BY <1>0, <2>1, <2>3, <4>2 DEF Backlog
          <5> QED  BY <1>a, <3>2, <5>1 DEF Backlog
        <4>3. CASE item = "critique" /\ item' = "attempt-start"
          <5>1. Len(queue) <= 3 * (attempt - 1) + 1 /\ producer' = "putting" /\ attempt' = attempt + 1
            BY <1>0, <2>1, <2>3, <4>3 DEF Backlog
          <5>2. Len(queue') + 1 <= 3 * (attempt' - 1) /\ attempt' # 1
            BY <1>a, <3>2, <5>1
          <5> QED  BY <4>3, <5>1, <5>2 DEF Backlog
        <4>4. CASE producer' = "ended" \/ (producer' = "putting" /\ item' \in {"done", "None"})
          BY <4>4 DEF Backlog
        <4> QED  BY <2>3, <4>1, <4>2, <4>3, <4>4
      <3>6. SentinelIsLast'
        <4>1. ASSUME NEW i \in 1 .. Len(queue'), queue'[i] = "None"
              PROVE  i = Len(queue') /\ producer' = "ended"
          <5>1. CASE i \in 1 .. Len(queue)
            BY <1>0, <2>1, <3>2, <4>1, <5>1 DEF SentinelIsLast
          <5>2. CASE i = Len(queue) + 1
            BY <2>3, <3>2, <4>1, <5>2
          <5> QED  BY <1>a, <3>2, <5>1, <5>2
        <4>2. producer' = "ended" => queue' # <<>> /\ queue'[Len(queue')] = "None"
          BY <1>a, <2>3, <3>2
        <4> QED  BY <4>1, <4>2 DEF SentinelIsLast
      <3>7. CancelIsForClosing'
        BY <2>1, <3>1 DEF CancelIsForClosing
      <3> QED  BY <3>3, <3>5, <3>6, <3>7 DEF ReflexionInv
    <2> QED  BY <2>5, <2>6
  <1>3. ASSUME NEW raised \in BOOLEAN, CallReturns(raised)  PROVE ReflexionInv'
    <2>1. /\ ~cancelled /\ producer' = "putting" /\ UNCHANGED <<queue, attempt, cancelled, generator, last>>
          /\ \/ producer = "generating" /\ item' \in {"error", "answer"}
             \/ producer = "reviewing" /\ item' \in {"error", "critique"}
      BY <1>3 DEF CallReturns, Wants
    <2>2. ReflexionTypeOK'
      BY <1>0, <2>1 DEF ReflexionTypeOK, Event
    <2>3. Len(queue) <= 3 * (attempt - 1) + 1 /\ (producer = "generating" => Len(queue) <= 3 * (attempt - 1))
      BY <1>0, <1>a, <2>1 DEF Backlog
    <2>4. Backlog'
      BY <2>1, <2>3 DEF Backlog
    <2>5. SentinelIsLast' /\ CancelIsForClosing'
      BY <1>0, <2>1 DEF SentinelIsLast, CancelIsForClosing
    <2> QED  BY <2>2, <2>4, <2>5 DEF ReflexionInv
  <1>4. CASE CancelStrikes
    <2>1. /\ cancelled /\ cancelled' = FALSE /\ producer' = "ended" /\ item' = "None"
          /\ generator = "closing" /\ UNCHANGED <<queue, attempt, generator, last>>
      BY <1>0, <1>4 DEF CancelStrikes, CancelIsForClosing
    <2>2. ReflexionTypeOK'
      BY <1>0, <2>1 DEF ReflexionTypeOK, Event
    <2>3. Backlog' /\ SentinelIsLast' /\ CancelIsForClosing'
      BY <1>0, <2>1 DEF Backlog, SentinelIsLast, CancelIsForClosing
    <2> QED  BY <2>2, <2>3 DEF ReflexionInv
  <1>5. CASE Takes
    <2>1. /\ generator = "waiting" /\ queue # <<>> /\ queue' = Tail(queue) /\ last' = Head(queue)
          /\ generator' = (IF Head(queue) = "None" THEN "closing" ELSE "sending")
          /\ UNCHANGED <<producer, attempt, item, cancelled>>
      BY <1>5 DEF Takes
    <2>2. /\ queue' \in Seq(Event) /\ Len(queue) = Len(queue') + 1 /\ Len(queue') \in Nat
          /\ Head(queue) = queue[1] /\ queue[1] \in Event
          /\ \A i \in 1 .. Len(queue') : queue'[i] = queue[i + 1]
      BY <1>a, <2>1
    <2>3. ReflexionTypeOK'
      BY <1>0, <1>a, <2>1, <2>2 DEF ReflexionTypeOK
    <2>4. Head(queue) = "None" => producer = "ended"
      BY <1>0, <2>2 DEF SentinelIsLast
    <2>5. ~cancelled
      BY <1>0, <2>1 DEF CancelIsForClosing
    <2>6. Backlog'
      BY <1>0, <1>a, <2>1, <2>2 DEF Backlog
    <2>7. SentinelIsLast'
      <3>1. ASSUME NEW i \in 1 .. Len(queue'), queue'[i] = "None"
            PROVE  i = Len(queue') /\ producer' = "ended"
        <4>1. i + 1 \in 1 .. Len(queue) /\ queue[i + 1] = "None"
          BY <2>2, <3>1
        <4>2. i + 1 = Len(queue) /\ producer = "ended"
          BY <1>0, <4>1 DEF SentinelIsLast
        <4>3. i \in Nat /\ i + 1 = Len(queue') + 1
          BY <2>2, <4>2
        <4>4. i = Len(queue')
          BY <2>2, <4>3
        <4> QED  BY <2>1, <4>2, <4>4
      <3>2. ASSUME producer' = "ended", generator' = "sending"
            PROVE  queue' # <<>> /\ queue'[Len(queue')] = "None"
        <4>1. queue[Len(queue)] = "None" /\ queue[1] # "None"
          BY <1>0, <2>1, <2>2, <3>2 DEF SentinelIsLast
        <4>2. Len(queue') >= 1
          BY <2>2, <4>1
        <4>3. Len(queue') \in 1 .. Len(queue') /\ queue' # <<>>
          BY <2>2, <4>2
        <4>4. queue'[Len(queue')] = queue[Len(queue') + 1]
          BY <2>2, <4>3
        <4> QED  BY <2>2, <4>1, <4>3, <4>4
      <3> QED  BY <2>1, <3>1, <3>2 DEF SentinelIsLast
    <2>8. CancelIsForClosing'
      BY <2>1, <2>4, <2>5 DEF CancelIsForClosing
    <2> QED  BY <2>3, <2>6, <2>7, <2>8 DEF ReflexionInv
  <1>6. CASE Sends
    <2>1. generator = "sending" /\ generator' = "waiting" /\ UNCHANGED <<queue, producer, attempt, item, cancelled, last>>
      BY <1>6 DEF Sends
    <2>2. ReflexionTypeOK'
      BY <1>0, <2>1 DEF ReflexionTypeOK
    <2>3. Backlog' /\ SentinelIsLast' /\ CancelIsForClosing'
      BY <1>0, <2>1 DEF Backlog, SentinelIsLast, CancelIsForClosing
    <2> QED  BY <2>2, <2>3 DEF ReflexionInv
  <1>7. CASE Leaves
    <2>1. /\ generator' = "closing" /\ cancelled' = (producer # "ended")
          /\ UNCHANGED <<queue, producer, attempt, item, last>>
      BY <1>7 DEF Leaves
    <2>2. ReflexionTypeOK'
      BY <1>0, <2>1 DEF ReflexionTypeOK
    <2>3. Backlog' /\ SentinelIsLast' /\ CancelIsForClosing'
      BY <1>0, <2>1 DEF Backlog, SentinelIsLast, CancelIsForClosing
    <2> QED  BY <2>2, <2>3 DEF ReflexionInv
  <1>8. CASE Closes
    <2>1. /\ generator = "closing" /\ producer = "ended" /\ generator' = "closed"
          /\ UNCHANGED <<queue, producer, attempt, item, cancelled, last>>
      BY <1>8 DEF Closes
    <2>2. ReflexionTypeOK'
      BY <1>0, <2>1 DEF ReflexionTypeOK
    <2>3. Backlog' /\ SentinelIsLast' /\ CancelIsForClosing'
      BY <1>0, <2>1 DEF Backlog, SentinelIsLast, CancelIsForClosing
    <2> QED  BY <2>2, <2>3 DEF ReflexionInv
  <1>9. CASE UNCHANGED reflexionVars
    <2>1. UNCHANGED <<queue, producer, attempt, item, cancelled, generator, last>>
      BY <1>9 DEF reflexionVars
    <2>2. ReflexionTypeOK'
      BY <1>0, <2>1 DEF ReflexionTypeOK
    <2>3. Backlog' /\ SentinelIsLast' /\ CancelIsForClosing'
      BY <1>0, <2>1 DEF Backlog, SentinelIsLast, CancelIsForClosing
    <2> QED  BY <2>2, <2>3 DEF ReflexionInv
  <1> QED  BY <1>1, <1>2, <1>3, <1>4, <1>5, <1>6, <1>7, <1>8, <1>9 DEF ReflexionNext

Producer == {"before", "generating", "reviewing", "putting", "ended"}

\* The steps of attempt a that a producer in state p, with event i to put, has before it.
Phase(p, i) ==
  CASE p = "before" -> 8
    [] p = "generating" -> 6
    [] p = "reviewing" -> 4
    [] p = "putting" /\ i = "attempt-start" -> 7
    [] p = "putting" /\ i = "answer" -> 5
    [] p = "putting" /\ i = "critique" -> 3
    [] OTHER -> 0

Remaining(p, i, a) ==
  CASE p = "ended" -> 0
    [] p = "putting" /\ i = "None" -> 1
    [] p = "putting" /\ i \in {"done", "error"} -> 2
    [] OTHER -> 5 * ((max_improvements + 1) - a) + Phase(p, i)

Reading(g) ==
  CASE g = "sending" -> 3 [] g = "waiting" -> 2 [] g = "closing" -> 1 [] OTHER -> 0

\* An event that is put has still to be taken and sent.
Work == 4 * Remaining(producer, item, attempt) + 2 * Len(queue) + Reading(generator)

\* The steps that remain in each state of the producer.
LEMMA RemainingIs ==
  ASSUME NEW p \in Producer, NEW i \in Event, NEW a \in Attempt
  PROVE  /\ Remaining(p, i, a) \in Nat
         /\ p = "ended" => Remaining(p, i, a) = 0
         /\ p # "ended" => Remaining(p, i, a) > 0
         /\ p = "putting" /\ i = "None" => Remaining(p, i, a) = 1
         /\ p = "putting" /\ i \in {"done", "error"} => Remaining(p, i, a) = 2
         /\ LET left == 5 * ((max_improvements + 1) - a) IN
            /\ left \in Nat
            /\ p = "before" => Remaining(p, i, a) = left + 8
            /\ p = "generating" => Remaining(p, i, a) = left + 6
            /\ p = "reviewing" => Remaining(p, i, a) = left + 4
            /\ p = "putting" /\ i = "attempt-start" => Remaining(p, i, a) = left + 7
            /\ p = "putting" /\ i = "answer" => Remaining(p, i, a) = left + 5
            /\ p = "putting" /\ i = "critique" => Remaining(p, i, a) = left + 3
  <1> DEFINE left == 5 * ((max_improvements + 1) - a)
             R == Remaining(p, i, a)
  <1>1. left \in Nat
    BY ReflexionAssumption DEF ReflexionAssumption, Attempt
  <1> HIDE DEF left, R
  <1>3. p = "ended" => R = 0
    BY DEF Remaining, R
  <1>4. p = "putting" /\ i = "None" => R = 1
    BY DEF Remaining, R
  <1>5. p = "putting" /\ i \in {"done", "error"} => R = 2
    BY DEF Remaining, R
  <1>6. p = "before" => R = left + 8
    BY DEF Remaining, Phase, left, R
  <1>7. p = "generating" => R = left + 6
    BY DEF Remaining, Phase, left, R
  <1>8. p = "reviewing" => R = left + 4
    BY DEF Remaining, Phase, left, R
  <1>9. p = "putting" /\ i = "attempt-start" => R = left + 7
    BY DEF Remaining, Phase, left, R
  <1>10. p = "putting" /\ i = "answer" => R = left + 5
    BY DEF Remaining, Phase, left, R
  <1>11. p = "putting" /\ i = "critique" => R = left + 3
    BY DEF Remaining, Phase, left, R
  <1>12. R \in Nat /\ (p # "ended" => R > 0)
    <2>1. CASE p = "ended"
      BY <1>3, <2>1
    <2>2. CASE p = "putting" /\ i \in {"done", "error", "None"}
      BY <1>4, <1>5, <2>2
    <2>3. CASE p # "ended" /\ ~(p = "putting" /\ i \in {"done", "error", "None"})
      <3>1. \E b \in {3, 4, 5, 6, 7, 8} : R = left + b
        BY <1>6, <1>7, <1>8, <1>9, <1>10, <1>11, <2>3 DEF Producer, Event
      <3> QED  BY <1>1, <3>1
    <2> QED  BY <2>1, <2>2, <2>3
  <1> QED  BY <1>1, <1>3, <1>4, <1>5, <1>6, <1>7, <1>8, <1>9, <1>10, <1>11, <1>12 DEF left, R

\* Every step leaves less to do.
LEMMA WorkShrinks ==
  ASSUME ReflexionInv, ReflexionInv', ReflexionNext
  PROVE  Work \in Nat /\ Work' \in Nat /\ Work' < Work
  <1> DEFINE R == Remaining(producer, item, attempt)
             S == Remaining(producer', item', attempt')
             G == Reading(generator)
             H == Reading(generator')
             left == 5 * ((max_improvements + 1) - attempt)
  <1>0. ReflexionTypeOK /\ ReflexionTypeOK' /\ CancelIsForClosing /\ ~SentinelFollows
    BY NoRoomIsRare DEF ReflexionInv, ReflexionCannotHang
  <1>a. producer \in Producer /\ item \in Event /\ attempt \in Attempt
        /\ producer' \in Producer /\ item' \in Event /\ attempt' \in Attempt
    BY <1>0 DEF ReflexionTypeOK, Producer
  <1>b. attempt \in Nat /\ attempt' \in Nat /\ max_improvements \in Nat /\ left \in Nat
    BY <1>a, ReflexionAssumption DEF ReflexionAssumption, Attempt
  <1>c. Len(queue) \in Nat /\ Len(queue') \in Nat /\ queue \in Seq(Event)
    BY <1>0 DEF ReflexionTypeOK
  <1>d. R \in Nat /\ S \in Nat /\ (producer # "ended" => R > 0)
    BY <1>a, RemainingIs
  <1>e. G \in Nat /\ H \in Nat
    BY DEF Reading
  <1>f. Work = 4 * R + 2 * Len(queue) + G /\ Work' = 4 * S + 2 * Len(queue') + H
    BY DEF Work
  <1> SUFFICES 4 * S + 2 * Len(queue') + H < 4 * R + 2 * Len(queue) + G
    <2> HIDE DEF R, S, G, H
    <2> QED  BY <1>c, <1>d, <1>e, <1>f
  <1>1. ASSUME NEW blank \in BOOLEAN, ProducerStarts(blank)
        PROVE 4 * S + 2 * Len(queue') + H < 4 * R + 2 * Len(queue) + G
    <2>1. producer = "before" /\ producer' = "putting" /\ item' \in {"error", "attempt-start"}
          /\ queue' = queue /\ attempt' = attempt /\ generator' = generator
      BY <1>1 DEF ProducerStarts, Wants
    <2>2. R = left + 8
      BY <1>a, <2>1, RemainingIs
    <2>3. S = 2 \/ S = left + 7
      BY <1>a, <2>1, RemainingIs
    <2> HIDE DEF R, S, left, G, H
    <2>4. S < R
      BY <1>b, <2>2, <2>3
    <2> QED  BY <1>c, <1>d, <1>e, <2>1, <2>4 DEF G, H
  <1>2. ASSUME NEW accepted \in BOOLEAN, Puts(accepted)
        PROVE 4 * S + 2 * Len(queue') + H < 4 * R + 2 * Len(queue) + G
    <2>1. producer = "putting"
      BY <1>2 DEF Puts
    <2>2. \/ item = "attempt-start" /\ producer' = "generating" /\ attempt' = attempt
          \/ item = "answer" /\ producer' = "reviewing" /\ attempt' = attempt
          \/ item = "critique" /\ producer' = "putting" /\ item' = "done" /\ attempt' = attempt
          \/ item = "critique" /\ producer' = "putting" /\ item' = "attempt-start" /\ attempt' = attempt + 1
          \/ item \in {"done", "error"} /\ producer' = "putting" /\ item' = "None"
          \/ item = "None" /\ producer' = "ended"
      BY <1>0, <1>2, PutThen
    <2>3. S < R
      <3>1. CASE item = "attempt-start" /\ producer' = "generating" /\ attempt' = attempt
        <4>1. R = left + 7 /\ S = left + 6
          BY <1>a, <2>1, <3>1, RemainingIs
        <4> QED  BY <1>b, <4>1
      <3>2. CASE item = "answer" /\ producer' = "reviewing" /\ attempt' = attempt
        <4>1. R = left + 5 /\ S = left + 4
          BY <1>a, <2>1, <3>2, RemainingIs
        <4> QED  BY <1>b, <4>1
      <3>3. CASE item = "critique" /\ producer' = "putting" /\ item' = "done" /\ attempt' = attempt
        <4>1. R = left + 3 /\ S = 2
          BY <1>a, <2>1, <3>3, RemainingIs
        <4> QED  BY <1>b, <4>1
      <3>4. CASE item = "critique" /\ producer' = "putting" /\ item' = "attempt-start" /\ attempt' = attempt + 1
        <4>1. R = left + 3
          BY <1>a, <2>1, <3>4, RemainingIs
        <4>2. S = 5 * ((max_improvements + 1) - attempt') + 7
          BY <1>a, <3>4, RemainingIs
        <4>3. S = 5 * ((max_improvements + 1) - (attempt + 1)) + 7
          BY <4>2, <3>4
        <4> HIDE DEF R, S
        <4> QED  BY <1>b, <4>1, <4>3
      <3>5. CASE item \in {"done", "error"} /\ producer' = "putting" /\ item' = "None"
        <4>1. R = 2 /\ S = 1
          BY <1>a, <2>1, <3>5, RemainingIs
        <4> QED  BY <4>1
      <3>6. CASE item = "None" /\ producer' = "ended"
        <4>1. R = 1 /\ S = 0
          BY <1>a, <2>1, <3>6, RemainingIs
        <4> QED  BY <4>1
      <3> QED  BY <2>2, <3>1, <3>2, <3>3, <3>4, <3>5, <3>6
    <2>4. CASE generator = "waiting" /\ queue = <<>>
      <3>1. queue' = queue /\ generator' \in {"closing", "sending"}
        BY <1>2, <2>4 DEF Puts
      <3>2. G = 2 /\ H <= 3
        BY <2>4, <3>1 DEF Reading
      <3> HIDE DEF R, S, G, H
      <3> QED  BY <1>c, <1>d, <1>e, <2>3, <3>1, <3>2
    <2>5. CASE ~(generator = "waiting" /\ queue = <<>>)
      <3>1. queue' = Append(queue, item) /\ generator' = generator
        BY <1>2, <2>5 DEF Puts
      <3>2. Len(queue') = Len(queue) + 1 /\ H = G
        BY <1>c, <1>a, <3>1
      <3> HIDE DEF R, S, G, H
      <3> QED  BY <1>c, <1>d, <1>e, <2>3, <3>2
    <2> QED  BY <2>4, <2>5
  <1>3. ASSUME NEW raised \in BOOLEAN, CallReturns(raised)
        PROVE 4 * S + 2 * Len(queue') + H < 4 * R + 2 * Len(queue) + G
    <2>1. /\ producer' = "putting" /\ queue' = queue /\ attempt' = attempt /\ generator' = generator
          /\ \/ producer = "generating" /\ item' \in {"error", "answer"}
             \/ producer = "reviewing" /\ item' \in {"error", "critique"}
      BY <1>3 DEF CallReturns, Wants
    <2>2. S < R
      <3>1. CASE producer = "generating" /\ item' \in {"error", "answer"}
        <4>1. R = left + 6 /\ (S = 2 \/ S = left + 5)
          BY <1>a, <2>1, <3>1, RemainingIs
        <4> HIDE DEF R, S, left
        <4> QED  BY <1>b, <4>1
      <3>2. CASE producer = "reviewing" /\ item' \in {"error", "critique"}
        <4>1. R = left + 4 /\ (S = 2 \/ S = left + 3)
          BY <1>a, <2>1, <3>2, RemainingIs
        <4> HIDE DEF R, S, left
        <4> QED  BY <1>b, <4>1
      <3> QED  BY <2>1, <3>1, <3>2
    <2> HIDE DEF R, S, G, H
    <2> QED  BY <1>c, <1>d, <1>e, <2>1, <2>2 DEF G, H
  <1>4. ASSUME CancelStrikes
        PROVE 4 * S + 2 * Len(queue') + H < 4 * R + 2 * Len(queue) + G
    <2>1. producer # "ended" /\ producer' = "ended" /\ queue' = queue /\ generator' = generator
      BY <1>0, <1>4 DEF CancelStrikes
    <2>2. S = 0 /\ R > 0
      BY <1>a, <2>1, RemainingIs
    <2> HIDE DEF R, S, G, H
    <2> QED  BY <1>c, <1>d, <1>e, <2>1, <2>2 DEF G, H
  <1>5. ASSUME Takes
        PROVE 4 * S + 2 * Len(queue') + H < 4 * R + 2 * Len(queue) + G
    <2>1. generator = "waiting" /\ generator' \in {"closing", "sending"} /\ S = R
          /\ queue # <<>> /\ queue' = Tail(queue)
      BY <1>5 DEF Takes
    <2>2. Len(queue) = Len(queue') + 1
      BY <1>c, <2>1
    <2>3. G = 2 /\ H <= 3
      BY <2>1 DEF Reading
    <2> HIDE DEF R, S, G, H
    <2> QED  BY <1>c, <1>d, <1>e, <2>1, <2>2, <2>3
  <1>6. ASSUME Sends \/ Leaves \/ Closes
        PROVE 4 * S + 2 * Len(queue') + H < 4 * R + 2 * Len(queue) + G
    <2>1. S = R /\ queue' = queue
      BY <1>6 DEF Sends, Leaves, Closes
    <2>2. \/ generator = "sending" /\ generator' = "waiting"
          \/ generator \in {"waiting", "sending"} /\ generator' = "closing"
          \/ generator = "closing" /\ generator' = "closed"
      BY <1>6 DEF Sends, Leaves, Closes
    <2>3. H < G
      BY <2>2 DEF Reading
    <2> HIDE DEF R, S, G, H
    <2> QED  BY <1>c, <1>d, <1>e, <2>1, <2>3
  <1> QED  BY <1>1, <1>2, <1>3, <1>4, <1>5, <1>6 DEF ReflexionNext

\* What a reflexion request may do next to its inputs: anything of its own, or nothing.
LEMMA ReflexionStepsOnly ==
  [EndpointsNext]_allVars => ReflexionNext \/ UNCHANGED reflexionVars
  BY DEF EndpointsNext, allVars

\* The invariant holds throughout.
LEMMA ReflexionInvariant == EndpointsSpec => []ReflexionInv
  <1>1. EndpointsInit => ReflexionInv
    BY ReflexionStarts DEF EndpointsInit
  <1>2. ReflexionInv /\ [EndpointsNext]_allVars => ReflexionInv'
    BY ReflexionStepsOnly, ReflexionSteps
  <1> QED  BY <1>1, <1>2, PTL DEF EndpointsSpec

\* A reflexion request is never stuck: a generator that waits for an event has a producer
\* that will put one, one that closes has a producer that ended or will be struck by its
\* cancellation, and no error event waits for room, so that no sentinel follows a
\* cancellation, for any number of improvements the queue was made for.
THEOREM ReflexionNeverHangs == EndpointsSpec => []ReflexionCannotHang
  BY ReflexionInvariant, NoRoomIsRare, PTL

\* A step of a reflexion request that leaves less to do.
LeavesLess == Work \in Nat /\ Work' \in Nat /\ Work' < Work

\* A reflexion request takes finitely many steps: each one leaves less work, a natural
\* number that its first state bounds.
THEOREM ReflexionIsBounded == EndpointsSpec => [][LeavesLess]_reflexionVars
  <1>1. ReflexionInv /\ ReflexionInv' /\ [EndpointsNext]_allVars
          => [LeavesLess]_reflexionVars
    BY ReflexionStepsOnly, WorkShrinks DEF LeavesLess
  <1> QED  BY <1>1, ReflexionInvariant, PTL DEF EndpointsSpec

-----------------------------------------------------------------------------
(* Readiness *)

\* From the start of the check on, history knows who is well: those that would answer so now,
\* and those whose probe found them so.
WellIsKnown ==
  /\ \A d \in Store : state[d] \in {"2xx", "5xx"}
  /\ \A d \in All : probe[d] = "UP" => d \in well
  /\ check # "idle" =>
       \A d \in All : probe[d] \in {"none", "out"} /\ IsWell(d, state[d]) => d \in well
  /\ check \in {"idle", "probing"} => probe["agentSessionStore"] = "none"
  /\ check = "idle" => answer = "none" /\ \A d \in All : probe[d] = "none"

ReadinessInv == ReadinessTypeOK /\ WellIsKnown /\ ReadyIsTrue

\* The invariant holds before a check and is kept by its steps.
LEMMA ReadinessSteps ==
  /\ ReadinessInit => ReadinessInv
  /\ ReadinessInv /\ (ReadinessNext \/ UNCHANGED readinessVars) => ReadinessInv'
  <1>1. ASSUME ReadinessInit  PROVE ReadinessInv
    <2>1. "agentSessionStore" \in All
      BY DEF Store, All
    <2> QED  BY <2>1, <1>1 DEF ReadinessInit, ReadinessInv, ReadinessTypeOK, WellIsKnown, ReadyIsTrue, All, Status
  <1>2. ASSUME ReadinessInv, ReadinessNext \/ UNCHANGED readinessVars  PROVE ReadinessInv'
    <2>0. /\ ReadinessTypeOK /\ WellIsKnown /\ ReadyIsTrue
      BY <1>2 DEF ReadinessInv
    <2>1. ASSUME NEW d \in All, NEW s \in Status, Changes(d, s)  PROVE ReadinessInv'
      BY <2>0, <2>1 DEF Changes, ReadinessInv, ReadinessTypeOK, WellIsKnown, ReadyIsTrue
    <2>2. CASE CheckStarts
      <3>1. "agentSessionStore" \in All /\ "agentSessionStore" \notin Probed
        BY ReadinessAssumption DEF ReadinessAssumption, Probed, Store, All
      <3> QED  BY <3>1, <2>0, <2>2 DEF CheckStarts, ReadinessInv, ReadinessTypeOK, WellIsKnown, ReadyIsTrue
    <2>3. ASSUME NEW d \in All, ProbeAnswered(d)  PROVE ReadinessInv'
      <3>1. Healthy(d, state[d]) => IsWell(d, state[d])
        BY <2>0 DEF WellIsKnown, Healthy, IsWell
      <3> QED  BY <3>1, <2>0, <2>3 DEF ProbeAnswered, ReadinessInv, ReadinessTypeOK, WellIsKnown, ReadyIsTrue
    <2>4. ASSUME NEW d \in All, ProbeTimesOut(d)  PROVE ReadinessInv'
      BY <2>0, <2>4 DEF ProbeTimesOut, ReadinessInv, ReadinessTypeOK, WellIsKnown, ReadyIsTrue
    <2>5. ASSUME NEW d \in All, ProbeRaises(d)  PROVE ReadinessInv'
      BY <2>0, <2>5 DEF ProbeRaises, ReadinessInv, ReadinessTypeOK, WellIsKnown, ReadyIsTrue
    <2>6. CASE SessionAsked
      <3>1. "agentSessionStore" \in All
        BY DEF Store, All
      <3> QED  BY <3>1, <2>0, <2>6 DEF SessionAsked, ReadinessInv, ReadinessTypeOK, WellIsKnown, ReadyIsTrue
    <2>7. CASE Respond
      <3>1. Needed \subseteq All /\ Required \cup {"agentSessionStore"} \subseteq Needed
            /\ (replay_required => "confirmationReplayStore" \in Needed)
        BY ReadinessAssumption DEF ReadinessAssumption, Needed, Probed, Store, All
      <3>2. Ready => agent_enabled /\ Needed \subseteq well
        BY <2>0, <3>1 DEF Ready, WellIsKnown
      <3> QED  BY <3>1, <3>2, <2>0, <2>7 DEF Respond, ReadinessInv, ReadinessTypeOK, WellIsKnown, ReadyIsTrue
    <2>8. CASE UNCHANGED readinessVars
      BY <2>0, <2>8 DEF readinessVars, ReadinessInv, ReadinessTypeOK, WellIsKnown, ReadyIsTrue
    <2> QED  BY <1>2, <2>1, <2>2, <2>3, <2>4, <2>5, <2>6, <2>7, <2>8 DEF ReadinessNext
  <1> QED  BY <1>1, <1>2

\* The invariant holds throughout.
LEMMA ReadinessInvariant == EndpointsSpec => []ReadinessInv
  <1>1. EndpointsInit => ReadinessInv
    BY ReadinessSteps DEF EndpointsInit, NoCheck
  <1>2. ReadinessInv /\ [EndpointsNext]_allVars => ReadinessInv'
    <2>1. [EndpointsNext]_allVars => ReadinessNext \/ UNCHANGED readinessVars
      BY DEF EndpointsNext, allVars
    <2> QED  BY <2>1, ReadinessSteps
  <1> QED  BY <1>1, <1>2, PTL DEF EndpointsSpec

\* GET /readiness answers 200 only if everything the configuration needs was well during
\* the check, however dependencies come and go and probes end meanwhile.
THEOREM ReadyMeansWell == EndpointsSpec => []ReadyIsTrue
  <1>1. ReadinessInv => ReadyIsTrue
    BY DEF ReadinessInv
  <1> QED  BY <1>1, ReadinessInvariant, PTL

-----------------------------------------------------------------------------
(* Gathered calls *)

Task == Request \X Member

Calling == {t \in Task : member[t[1]][t[2]] = "calling"}

SlotsAreUsed == IsFiniteSet(Calling) /\ freeSlots + Cardinality(Calling) = worker_slots

\* The levels of request q are apart, tasks exist only for those reached, and what is
\* behind the present one is answered.
LevelsAreOrdered(q) ==
  /\ stage[q] = "idle" => level[q] = 0
  /\ level[q] \in 0 .. Len(levels[q])
  /\ \A j, k \in DOMAIN levels[q] : j # k => levels[q][j] \cap levels[q][k] = {}
  /\ \A i \in Member : member[q][i] # "none" => \E k \in 1 .. level[q] : i \in levels[q][k]
  /\ \A k \in 1 .. level[q] :
       k < level[q] \/ stage[q] \in {"deciding", "replied"} => levels[q][k] \subseteq Of(q, {"answered"})

\* A request that has given up has cancelled whatever it still has.
OthersAreUnwanted(q) ==
  stage[q] \in {"unwinding", "deciding", "replied", "raised"} => Of(q, Alive) \subseteq unwanted[q]

GatherInv ==
  /\ GatherTypeOK
  /\ SlotsAreUsed
  /\ \A q \in Request : LevelsAreOrdered(q) /\ OthersAreUnwanted(q)

MemberState == {"none", "answered", "failed", "cancelled"} \cup Alive

\* Nothing about request q changes.
Same(q) ==
  /\ stage'[q] = stage[q] /\ levels'[q] = levels[q] /\ level'[q] = level[q]
  /\ member'[q] = member[q] /\ unwanted'[q] = unwanted[q]

\* Requests that a step does not touch keep their part of the invariant.
LEMMA SameKept ==
  ASSUME NEW q \in Request, LevelsAreOrdered(q) /\ OthersAreUnwanted(q), Same(q)
  PROVE  (LevelsAreOrdered(q) /\ OthersAreUnwanted(q))'
  BY DEF Same, LevelsAreOrdered, OthersAreUnwanted, Of

\* The invariant holds at the start.
LEMMA GatherStarts ==
  ASSUME GatherInit
  PROVE  GatherInv
  <1>1. worker_slots \in Nat
    BY GatherAssumption DEF GatherAssumption
  <1>2. /\ service \in {"vote", "dag"}
        /\ stage \in [Request -> {"idle", "gathering", "unwinding", "deciding", "replied", "raised"}]
        /\ levels \in [Request -> Seq(SUBSET Member)]
        /\ member \in [Request -> [Member -> MemberState]]
        /\ unwanted \in [Request -> SUBSET Member]
    BY DEF GatherInit, MemberState
  <1>3. level \in [Request -> Nat] /\ freeSlots \in 0 .. worker_slots
    BY <1>1 DEF GatherInit
  <1>4. Calling = {}
    BY DEF Calling, Task, GatherInit
  <1>5. SlotsAreUsed
    BY <1>1, <1>4, FS_EmptySet DEF SlotsAreUsed, GatherInit
  <1>6. ASSUME NEW q \in Request  PROVE LevelsAreOrdered(q)
    <2>1. level[q] = 0 /\ levels[q] = <<>> /\ \A i \in Member : member[q][i] = "none"
      BY DEF GatherInit
    <2>2. Len(levels[q]) = 0 /\ DOMAIN levels[q] = {} /\ 1 .. level[q] = {}
      BY <2>1
    <2>3. level[q] \in 0 .. Len(levels[q])
      BY <2>1, <2>2
    <2> QED  BY <2>1, <2>2, <2>3 DEF LevelsAreOrdered
  <1>7. \A q \in Request : OthersAreUnwanted(q)
    BY DEF OthersAreUnwanted, GatherInit
  <1> QED  BY <1>2, <1>3, <1>5, <1>6, <1>7 DEF GatherInv, GatherTypeOK, MemberState

\* A request that only changes its stage keeps the invariant, if it has cancelled its
\* tasks when it ends and has all answers when it decides.
LEMMA StageSet ==
  ASSUME GatherInv, NEW q \in Request,
         NEW x \in {"gathering", "unwinding", "deciding", "replied", "raised"},
         stage' = [stage EXCEPT ![q] = x],
         NEW U \in SUBSET Member, unwanted' = [unwanted EXCEPT ![q] = U],
         UNCHANGED <<service, levels, level, member, freeSlots>>,
         x # "gathering" => Of(q, Alive) \subseteq U,
         x \in {"deciding", "replied"} =>
           \A k \in 1 .. level[q] : levels[q][k] \subseteq Of(q, {"answered"})
  PROVE  GatherInv'
  <1>1. /\ stage \in [Request -> {"idle", "gathering", "unwinding", "deciding", "replied", "raised"}]
        /\ unwanted \in [Request -> SUBSET Member]
    BY DEF GatherInv, GatherTypeOK
  <1>2. GatherTypeOK'
    BY <1>1 DEF GatherInv, GatherTypeOK
  <1>3. SlotsAreUsed'
    BY DEF GatherInv, SlotsAreUsed, Calling
  <1>4. stage'[q] = x /\ unwanted'[q] = U
    BY <1>1
  <1>5. (LevelsAreOrdered(q) /\ OthersAreUnwanted(q))'
    <2>1. LevelsAreOrdered(q) /\ OthersAreUnwanted(q)
      BY DEF GatherInv
    <2>2. Of(q, Alive)' = Of(q, Alive) /\ Of(q, {"answered"})' = Of(q, {"answered"})
      BY DEF Of
    <2>3. LevelsAreOrdered(q)'
      BY <2>1, <2>2, <1>4 DEF LevelsAreOrdered
    <2>4. OthersAreUnwanted(q)'
      BY <2>1, <2>2, <1>4 DEF OthersAreUnwanted
    <2> QED  BY <2>3, <2>4
  <1>6. \A p \in Request \ {q} : Same(p)
    BY <1>1 DEF Same
  <1>7. \A p \in Request \ {q} : (LevelsAreOrdered(p) /\ OthersAreUnwanted(p))'
    BY <1>6, SameKept DEF GatherInv
  <1> QED  BY <1>2, <1>3, <1>5, <1>7 DEF GatherInv

\* A level is created: its tasks did not exist, so no slot is in use for them and no
\* answer is lost.
LEMMA LevelCreated ==
  ASSUME GatherInv, NEW q \in Request, NEW ls \in Seq(SUBSET Member), NEW n \in 1 .. Len(ls),
         \A j, k \in DOMAIN ls : j # k => ls[j] \cap ls[k] = {},
         \A i \in Member : member[q][i] # "none" => \E k \in 1 .. (n - 1) : i \in ls[k],
         \A k \in 1 .. (n - 1) : ls[k] \subseteq Of(q, {"answered"}),
         stage' = [stage EXCEPT ![q] = "gathering"],
         levels' = [levels EXCEPT ![q] = ls],
         level' = [level EXCEPT ![q] = n],
         member' = [member EXCEPT ![q] = Created(q, ls[n])],
         UNCHANGED <<service, unwanted, freeSlots>>
  PROVE  GatherInv'
  <1>t. /\ stage \in [Request -> {"idle", "gathering", "unwinding", "deciding", "replied", "raised"}]
        /\ levels \in [Request -> Seq(SUBSET Member)]
        /\ level \in [Request -> Nat]
        /\ member \in [Request -> [Member -> MemberState]]
    BY DEF GatherInv, GatherTypeOK, MemberState
  <1>0. n \in Nat /\ DOMAIN ls = 1 .. Len(ls) /\ Len(ls) \in Nat
    OBVIOUS
  <1> DEFINE new == Created(q, ls[n])
  <1>1. /\ new \in [Member -> MemberState]
        /\ \A i \in Member : new[i] = IF i \in ls[n] THEN "waiting" ELSE member[q][i]
    BY <1>t DEF Created, MemberState, Alive
  <1> HIDE DEF new
  <1>2. /\ stage'[q] = "gathering" /\ levels'[q] = ls /\ level'[q] = n /\ member'[q] = new
        /\ \A p \in Request \ {q} : Same(p)
    BY <1>t DEF Same, new
  <1>3. GatherTypeOK'
    <2>1. member' \in [Request -> [Member -> MemberState]]
      BY <1>t, <1>1 DEF new
    <2>2. level' \in [Request -> Nat]
      BY <1>t, <1>0
    <2>3. /\ stage' \in [Request -> {"idle", "gathering", "unwinding", "deciding", "replied", "raised"}]
          /\ levels' \in [Request -> Seq(SUBSET Member)]
      BY <1>t
    <2> QED  BY <2>1, <2>2, <2>3 DEF GatherInv, GatherTypeOK, MemberState
  \* No task of the level was there.
  <1>4. \A i \in ls[n] \cap Member : member[q][i] = "none"
    <2> SUFFICES ASSUME NEW i \in ls[n] \cap Member, NEW k \in 1 .. (n - 1), i \in ls[k]
                 PROVE  FALSE
      OBVIOUS
    <2>1. k # n /\ k \in DOMAIN ls /\ n \in DOMAIN ls
      BY <1>0
    <2> QED  BY <2>1
  <1>5. SlotsAreUsed'
    <2>1. \A p \in Request, i \in Member :
            member'[p][i] = "calling" <=> member[p][i] = "calling"
      BY <1>1, <1>2, <1>4 DEF Same
    <2>2. Calling' = Calling
      BY <2>1 DEF Calling, Task
    <2> QED  BY <2>2 DEF GatherInv, SlotsAreUsed
  <1>6. LevelsAreOrdered(q)'
    <2>1. \A i \in Member : new[i] # "none" => \E k \in 1 .. n : i \in ls[k]
      <3> SUFFICES ASSUME NEW i \in Member, new[i] # "none"
                   PROVE  \E k \in 1 .. n : i \in ls[k]
        OBVIOUS
      <3>1. CASE i \in ls[n]
        <4>1. n \in 1 .. n
          BY <1>0
        <4> QED  BY <3>1, <4>1
      <3>2. CASE i \notin ls[n]
        <4>1. member[q][i] # "none"
          BY <3>2, <1>1
        <4>2. PICK k \in 1 .. (n - 1) : i \in ls[k]
          BY <4>1
        <4>3. k \in 1 .. n
          BY <1>0
        <4> QED  BY <4>2, <4>3
      <3> QED  BY <3>1, <3>2
    <2>2. \A k \in 1 .. n : k < n => ls[k] \subseteq Of(q, {"answered"})'
      <3> SUFFICES ASSUME NEW k \in 1 .. n, k < n, NEW i \in ls[k]
                   PROVE  i \in Of(q, {"answered"})'
        OBVIOUS
      <3>1. k \in 1 .. (n - 1)
        BY <1>0
      <3>2. i \in Member /\ member[q][i] = "answered"
        BY <3>1 DEF Of
      <3>3. i \notin ls[n]
        BY <3>2, <1>4
      <3>4. new[i] = "answered"
        BY <3>2, <3>3, <1>1
      <3> QED  BY <3>2, <3>4, <1>2 DEF Of
    <2>3. n \in 0 .. Len(ls)
      BY <1>0
    <2> QED  BY <2>1, <2>2, <2>3, <1>2 DEF LevelsAreOrdered
  <1>7. OthersAreUnwanted(q)'
    BY <1>2 DEF OthersAreUnwanted
  <1>8. \A p \in Request \ {q} : (LevelsAreOrdered(p) /\ OthersAreUnwanted(p))'
    BY <1>2, SameKept DEF GatherInv
  <1> QED  BY <1>3, <1>5, <1>6, <1>7, <1>8 DEF GatherInv

\* A living task of request q gets state x; freeSlots follows.
LEMMA TaskSet ==
  ASSUME GatherInv, NEW q \in Request, NEW i \in Member,
         NEW x \in {"answered", "failed", "cancelled", "calling"},
         member[q][i] \in Alive,
         x = "calling" => member[q][i] = "waiting" /\ i \notin unwanted[q] /\ freeSlots > 0,
         member' = [member EXCEPT ![q][i] = x],
         freeSlots' = IF x = "calling" THEN freeSlots - 1
                      ELSE IF member[q][i] = "calling" THEN freeSlots + 1 ELSE freeSlots,
         UNCHANGED <<service, stage, levels, level, unwanted>>
  PROVE  GatherInv'
  <1>t. member \in [Request -> [Member -> MemberState]] /\ x \in MemberState
    BY DEF GatherInv, GatherTypeOK, MemberState, Alive
  <1>1. /\ member' \in [Request -> [Member -> MemberState]]
        /\ member'[q][i] = x
        /\ \A j \in Member \ {i} : member'[q][j] = member[q][j]
        /\ \A p \in Request \ {q} : Same(p)
    BY <1>t DEF Same
  <1>2. /\ Calling \subseteq Task /\ <<q, i>> \in Task
        /\ \A p \in Request, j \in Member : <<p, j>> \in Calling <=> member[p][j] = "calling"
        /\ \A p \in Request, j \in Member : <<p, j>> \in Calling' <=> member'[p][j] = "calling"
        /\ Calling' \subseteq Task
    BY DEF Calling, Task
  <1>3. \A t \in Task : \E p \in Request, j \in Member : t = <<p, j>>
    BY DEF Task
  <1>4. \A p \in Request, j \in Member :
          <<p, j>> # <<q, i>> => (<<p, j>> \in Calling' <=> <<p, j>> \in Calling)
    BY <1>1, <1>2 DEF Same
  <1>n. worker_slots \in Nat /\ freeSlots \in 0 .. worker_slots
        /\ IsFiniteSet(Calling) /\ freeSlots + Cardinality(Calling) = worker_slots
        /\ Cardinality(Calling) \in Nat
    BY GatherAssumption, FS_CardinalityType
       DEF GatherAssumption, GatherInv, GatherTypeOK, SlotsAreUsed
  <1>5. SlotsAreUsed' /\ freeSlots' \in 0 .. worker_slots
    <2>1. CASE x = "calling"
      <3>1. Calling' = Calling \cup {<<q, i>>} /\ <<q, i>> \notin Calling
        BY <2>1, <1>1, <1>2, <1>3, <1>4 DEF Alive
      <3>2. IsFiniteSet(Calling') /\ Cardinality(Calling') = Cardinality(Calling) + 1
        BY <3>1, <1>n, FS_AddElement
      <3>3. freeSlots' = freeSlots - 1 /\ freeSlots > 0
        BY <2>1
      <3> QED  BY <3>2, <3>3, <1>n DEF SlotsAreUsed
    <2>2. CASE x # "calling" /\ member[q][i] = "calling"
      <3>1. Calling' = Calling \ {<<q, i>>} /\ <<q, i>> \in Calling
        BY <2>2, <1>1, <1>2, <1>3, <1>4
      <3>2. IsFiniteSet(Calling') /\ Cardinality(Calling') = Cardinality(Calling) - 1
        BY <3>1, <1>n, FS_RemoveElement
      <3>3. Cardinality(Calling') \in Nat
        BY <3>2, FS_CardinalityType
      <3>4. freeSlots' = freeSlots + 1
        BY <2>2
      <3> QED  BY <3>2, <3>3, <3>4, <1>n DEF SlotsAreUsed
    <2>3. CASE x # "calling" /\ member[q][i] # "calling"
      <3>0. <<q, i>> \notin Calling /\ <<q, i>> \notin Calling'
        BY <2>3, <1>1, <1>2
      <3>a. \A t \in Task : t \in Calling' <=> t \in Calling
        BY <3>0, <1>3, <1>4
      <3>1. Calling' = Calling
        BY <3>a, <1>2
      <3> QED  BY <3>1, <2>3, <1>n DEF SlotsAreUsed
    <2> QED  BY <2>1, <2>2, <2>3
  <1>6. GatherTypeOK'
    BY <1>1, <1>5 DEF GatherInv, GatherTypeOK, MemberState
  <1>7. LevelsAreOrdered(q)'
    <2>1. LevelsAreOrdered(q)
      BY DEF GatherInv
    <2>2. Of(q, {"answered"}) \subseteq Of(q, {"answered"})'
      BY <1>1 DEF Of, Alive
    <2>3. \A j \in Member : member'[q][j] # "none" => member[q][j] # "none"
      BY <1>1 DEF Alive
    <2> QED  BY <2>1, <2>2, <2>3 DEF LevelsAreOrdered
  <1>8. OthersAreUnwanted(q)'
    <2>1. Of(q, Alive)' \subseteq Of(q, Alive)
      BY <1>1 DEF Of, Alive
    <2> QED  BY <2>1 DEF GatherInv, OthersAreUnwanted
  <1>9. \A p \in Request \ {q} : (LevelsAreOrdered(p) /\ OthersAreUnwanted(p))'
    BY <1>1, SameKept DEF GatherInv
  <1> QED  BY <1>5, <1>6, <1>7, <1>8, <1>9 DEF GatherInv

\* Every step of a request or a task keeps the invariant.
LEMMA GatherSteps ==
  ASSUME GatherInv, GatherNext
  PROVE  GatherInv'
  <1>t. /\ stage \in [Request -> {"idle", "gathering", "unwinding", "deciding", "replied", "raised"}]
        /\ levels \in [Request -> Seq(SUBSET Member)]
        /\ level \in [Request -> Nat]
        /\ member \in [Request -> [Member -> MemberState]]
        /\ unwanted \in [Request -> SUBSET Member]
    BY DEF GatherInv, GatherTypeOK, MemberState
  <1>i. \A q \in Request : LevelsAreOrdered(q) /\ OthersAreUnwanted(q)
    BY DEF GatherInv
  <1>e. \A q \in Request : Of(q, Alive) \subseteq Member /\ unwanted = [unwanted EXCEPT ![q] = unwanted[q]]
    BY <1>t DEF Of
  <1>n. \A q \in Request : stage[q] = "idle" => \A i \in Member : member[q][i] = "none"
    <2> SUFFICES ASSUME NEW q \in Request, stage[q] = "idle", NEW i \in Member, member[q][i] # "none"
                 PROVE  FALSE
      OBVIOUS
    <2>1. level[q] = 0 /\ \E k \in 1 .. level[q] : i \in levels[q][k]
      BY <1>i DEF LevelsAreOrdered
    <2> QED  BY <2>1
  <1>1. ASSUME NEW q \in Request, RequestRefused(q)  PROVE GatherInv'
    <2>1. Of(q, Alive) = {}
      BY <1>1, <1>n DEF RequestRefused, Of, Alive
    <2> QED  BY <2>1, <1>1, <1>t, <1>e, StageSet DEF RequestRefused
  \* The first level: nothing of the request exists.
  <1>s. ASSUME NEW q \in Request, stage[q] = "idle", NEW ls \in Seq(SUBSET Member) \ {<<>>},
               \A j, k \in DOMAIN ls : j # k => ls[j] \cap ls[k] = {}, Gathers(q, ls)
        PROVE  GatherInv'
    <2>1. 1 \in 1 .. Len(ls) /\ 1 .. (1 - 1) = {}
      BY <1>s
    <2>2. \A i \in Member : member[q][i] # "none" => \E k \in 1 .. (1 - 1) : i \in ls[k]
      BY <1>s, <1>n
    <2>3. \A k \in 1 .. (1 - 1) : ls[k] \subseteq Of(q, {"answered"})
      BY <2>1
    <2> QED  BY <2>1, <2>2, <2>3, <1>s, LevelCreated DEF Gathers
  <1>2. ASSUME NEW q \in Request, NEW n \in 1 .. max_candidates, VoteStarts(q, n)  PROVE GatherInv'
    <2>1. 1 .. n \subseteq Member
      BY GatherAssumption DEF GatherAssumption
    <2>2. <<1 .. n>> \in Seq(SUBSET Member) \ {<<>>} /\ DOMAIN <<1 .. n>> = {1}
      BY <2>1
    <2> QED  BY <2>2, <1>2, <1>s DEF VoteStarts
  <1>3. ASSUME NEW q \in Request, NEW ls \in LegacyLevels, LegacyStarts(q, ls)  PROVE GatherInv'
    BY <1>3, <1>s, GatherAssumption DEF LegacyStarts, GatherAssumption
  <1>4. ASSUME NEW q \in Request, LevelGathered(q)  PROVE GatherInv'
    <2> DEFINE ls == levels[q]
               n == level[q]
    <2>0. n \in Nat /\ ls \in Seq(SUBSET Member) /\ Len(ls) \in Nat
      BY <1>t
    <2>1. /\ \A j, k \in DOMAIN ls : j # k => ls[j] \cap ls[k] = {}
          /\ \A i \in Member : member[q][i] # "none" => \E k \in 1 .. n : i \in ls[k]
          /\ \A k \in 1 .. n : k < n => ls[k] \subseteq Of(q, {"answered"})
          /\ stage[q] = "gathering" /\ ls[n] \subseteq Of(q, {"answered"})
      BY <1>4, <1>i DEF LevelsAreOrdered, LevelGathered, AllAnswered
    <2>2. \A k \in 1 .. n : k < n \/ k = n
      BY <2>0
    <2>3. \A k \in 1 .. n : ls[k] \subseteq Of(q, {"answered"})
      BY <2>1, <2>2
    <2>4. CASE level[q] < Len(levels[q])
      <3>1. n + 1 \in 1 .. Len(ls) /\ (n + 1) - 1 = n
        BY <2>0, <2>4
      <3>2. /\ stage' = [stage EXCEPT ![q] = "gathering"] /\ levels' = [levels EXCEPT ![q] = ls]
            /\ level' = [level EXCEPT ![q] = n + 1]
            /\ member' = [member EXCEPT ![q] = Created(q, ls[n + 1])]
            /\ UNCHANGED <<service, unwanted, freeSlots>>
        BY <1>4, <2>1, <2>4, <1>t DEF LevelGathered
      <3> HIDE DEF ls, n
      <3> QED  BY <3>1, <3>2, <2>0, <2>1, <2>3, LevelCreated
    <2>5. CASE ~(level[q] < Len(levels[q]))
      <3>1. /\ stage' = [stage EXCEPT ![q] = "deciding"]
            /\ UNCHANGED <<service, levels, level, member, unwanted, freeSlots>>
        BY <1>4, <2>5 DEF LevelGathered
      <3>2. Of(q, Alive) = {}
        BY <2>1, <2>3 DEF Of, Alive
      <3>3. unwanted[q] \in SUBSET Member /\ unwanted' = [unwanted EXCEPT ![q] = unwanted[q]]
        BY <3>1, <1>t
      <3> QED  BY <3>1, <3>2, <3>3, <2>3, StageSet
    <2> QED  BY <2>4, <2>5
  <1>5. ASSUME NEW q \in Request, GatherRaises(q)  PROVE GatherInv'
    BY <1>5, <1>e, StageSet DEF GatherRaises, CancelledAll
  <1>6. ASSUME NEW q \in Request, GatherUnwound(q) \/ UnwindCancelled(q)  PROVE GatherInv'
    <2>1. Of(q, Alive) \subseteq unwanted[q]
      BY <1>6, <1>i DEF OthersAreUnwanted, GatherUnwound, UnwindCancelled
    <2>2. /\ stage' = [stage EXCEPT ![q] = "raised"]
          /\ UNCHANGED <<service, levels, level, member, unwanted, freeSlots>>
      BY <1>6 DEF GatherUnwound, UnwindCancelled
    <2>3. unwanted[q] \in SUBSET Member /\ unwanted' = [unwanted EXCEPT ![q] = unwanted[q]]
      BY <2>2, <1>t
    <2> QED  BY <2>1, <2>2, <2>3, StageSet
  <1>7. ASSUME NEW q \in Request, NEW ok \in BOOLEAN, Decided(q, ok)  PROVE GatherInv'
    <2>1. Of(q, Alive) \subseteq unwanted[q]
      BY <1>7, <1>i DEF OthersAreUnwanted, Decided
    <2>2. \A k \in 1 .. level[q] : levels[q][k] \subseteq Of(q, {"answered"})
      BY <1>7, <1>i DEF LevelsAreOrdered, Decided
    <2>3. PICK x \in {"replied", "raised"} : stage' = [stage EXCEPT ![q] = x]
      BY <1>7 DEF Decided
    <2>4. UNCHANGED <<service, levels, level, member, unwanted, freeSlots>>
      BY <1>7 DEF Decided
    <2> QED  BY <2>1, <2>2, <2>3, <2>4, <1>t, <1>e, StageSet
  <1>8. ASSUME NEW q \in Request, NEW i \in Member, TakesSlot(q, i)  PROVE GatherInv'
    BY <1>8, TaskSet DEF TakesSlot, Alive
  <1>9. ASSUME NEW q \in Request, NEW i \in Member,
               CallAnswered(q, i) \/ CallFailed(q, i) \/ TaskCancelled(q, i)
        PROVE  GatherInv'
    <2>1. member[q][i] \in Alive /\ \E x \in {"answered", "failed", "cancelled"} : TaskEnds(q, i, x)
      BY <1>9 DEF CallAnswered, CallFailed, TaskCancelled, Alive
    <2>2. PICK x \in {"answered", "failed", "cancelled"} : TaskEnds(q, i, x)
      BY <2>1
    <2> QED  BY <2>1, <2>2, TaskSet DEF TaskEnds
  <1> QED  BY <1>1, <1>2, <1>3, <1>4, <1>5, <1>6, <1>7, <1>8, <1>9 DEF GatherNext

\* The invariant holds throughout.
LEMMA GatherInvariant == EndpointsSpec => []GatherInv
  <1>1. EndpointsInit => GatherInv
    BY GatherStarts DEF EndpointsInit, NoVotes
  <1>2. GatherInv /\ [EndpointsNext]_allVars => GatherInv'
    <2> SUFFICES ASSUME GatherInv, [EndpointsNext]_allVars  PROVE GatherInv'
      OBVIOUS
    <2>1. GatherNext \/ UNCHANGED gatherVars
      BY DEF EndpointsNext, allVars
    <2>2. CASE UNCHANGED gatherVars
      BY <2>2 DEF gatherVars, GatherInv, GatherTypeOK, SlotsAreUsed, Calling, LevelsAreOrdered,
                  OthersAreUnwanted, Of
    <2> QED  BY <2>1, <2>2, GatherSteps
  <1> QED  BY <1>1, <1>2, PTL DEF EndpointsSpec

\* Votes and legacy DAG levels: slots are never lost, no task survives its request
\* unnoticed, and each level starts on all the results before it.
THEOREM GatheringIsClean == EndpointsSpec => []GatherIsClean
  <1>1. GatherInv => GatherIsClean
    BY DEF GatherInv, GatherIsClean, SlotsAreUsed, Calling, Task, LevelsAreOrdered, OthersAreUnwanted
  <1> QED  BY <1>1, GatherInvariant, PTL

\* Every variable of the four endpoints keeps its type, for any calls, texts, improvements,
\* requests and dependencies.
THEOREM EndpointTypes ==
  EndpointsSpec => [](/\ TypeOK /\ TaskStreamTypeOK /\ ReflexionTypeOK
                      /\ GatherTypeOK /\ ReadinessTypeOK)
  <1>1. /\ StreamsInv => TaskStreamTypeOK
        /\ ReflexionInv => ReflexionTypeOK
        /\ GatherInv => GatherTypeOK
        /\ ReadinessInv => ReadinessTypeOK
    BY DEF StreamsInv, ReflexionInv, GatherInv, ReadinessInv
  <1> QED  BY <1>1, StreamsAreGuarded, GuardTypes, StreamsInvariant, ReflexionInvariant,
              GatherInvariant, ReadinessInvariant, PTL

-----------------------------------------------------------------------------
(* Decisions *)

\* The votes of an answer are finitely many.
LEMMA VotesAreCounted ==
  ASSUME NEW votes \in Seq(Answer), NEW key
  PROVE  /\ Cardinality(VotesFor(votes, key)) \in 0 .. Len(votes)
         /\ VotesFor(votes, key) # {} => Cardinality(VotesFor(votes, key)) > 0
  <1> DEFINE V == VotesFor(votes, key)
  <1>1. Len(votes) \in Nat /\ DOMAIN votes = 1 .. Len(votes)
    OBVIOUS
  <1>2. IsFiniteSet(1 .. Len(votes)) /\ Cardinality(1 .. Len(votes)) = Len(votes)
    BY <1>1, FS_Interval
  <1>3. V \in SUBSET (1 .. Len(votes))
    BY <1>1 DEF VotesFor
  <1> HIDE DEF V
  <1>4. IsFiniteSet(V) /\ Cardinality(V) <= Cardinality(1 .. Len(votes))
    BY <1>2, <1>3, FS_Subset
  <1>5. Cardinality(V) \in Nat
    BY <1>4, FS_CardinalityType
  <1>6. V # {} => Cardinality(V) # 0
    BY <1>4, FS_EmptySet
  <1> QED  BY <1>1, <1>2, <1>4, <1>5, <1>6 DEF V

\* There is a vote whose answer has the most.
LEMMA MostExists ==
  ASSUME NEW votes \in Seq(Answer), votes # <<>>
  PROVE  \E i \in DOMAIN votes : \A j \in DOMAIN votes : Counted(votes, j) <= Counted(votes, i)
  <1> DEFINE n == Len(votes)
             Lack == {n - Counted(votes, i) : i \in DOMAIN votes}
  <1>1. n \in Nat /\ 1 \in DOMAIN votes
    OBVIOUS
  <1>2. \A i \in DOMAIN votes : Counted(votes, i) \in 0 .. n
    BY VotesAreCounted DEF Counted
  <1> HIDE DEF n
  <1>3. Lack \subseteq Nat /\ Lack # {}
    BY <1>1, <1>2
  <1> HIDE DEF Lack
  <1>4. PICK x \in Lack : \A y \in Lack : x <= y
    BY <1>3, LeastExists
  <1>5. PICK i \in DOMAIN votes : x = n - Counted(votes, i)
    BY <1>4 DEF Lack
  <1>6. ASSUME NEW j \in DOMAIN votes  PROVE Counted(votes, j) <= Counted(votes, i)
    <2>1. n - Counted(votes, i) <= n - Counted(votes, j)
      BY <1>4, <1>5 DEF Lack
    <2>2. Counted(votes, i) \in Nat /\ Counted(votes, j) \in Nat
      BY <1>1, <1>2
    <2> QED  BY <1>1, <2>1, <2>2
  <1> QED  BY <1>6

\* The voting service decides for the first text of an answer that has the most votes, and
\* among those of the one given first, for any votes: VotingService._majority.
THEOREM VerdictRight == \A votes \in Seq(Answer) \ {<<>>} : VerdictIsRight(votes)
  <1> SUFFICES ASSUME NEW votes \in Seq(Answer), votes # <<>>  PROVE VerdictIsRight(votes)
    OBVIOUS
  <1> DEFINE most == {i \in DOMAIN votes : \A j \in DOMAIN votes : Counted(votes, j) <= Counted(votes, i)}
             first == CHOOSE i \in most : \A j \in most : i <= j
             won == VotesFor(votes, casefold[votes[first]])
  <1>1. most \subseteq Nat /\ most # {} /\ most \subseteq DOMAIN votes
    BY MostExists
  <1>2. first \in most /\ \A j \in most : first <= j
    <2> HIDE DEF most
    <2>1. \E x \in most : \A y \in most : x <= y
      BY <1>1, LeastExists
    <2> QED  BY <2>1
  <1>3. majority(votes) = [decision |-> votes[first], count |-> Counted(votes, first)]
    BY DEF majority
  <1> HIDE DEF first
  <1>4. majority(votes).decision = votes[first] /\ majority(votes).count = Cardinality(won)
    BY <1>3 DEF Counted
  <1>5. first \in DOMAIN votes /\ first \in won /\ first \in Nat
    BY <1>1, <1>2 DEF VotesFor
  <1>6. \A i \in most : i \in Nat /\ first <= i
    BY <1>1, <1>2
  \* Whoever votes for the same answer as a vote in most is in most.
  <1>7. ASSUME NEW i \in won  PROVE i \in most
    <2>1. i \in DOMAIN votes /\ casefold[votes[i]] = casefold[votes[first]]
      BY DEF VotesFor
    <2>2. Counted(votes, i) = Counted(votes, first)
      BY <2>1 DEF Counted
    <2> QED  BY <1>2, <2>1, <2>2
  <1>8. \A j \in won : first <= j
    BY <1>2, <1>7
  <1>9. ASSUME NEW key \in Answer, VotesFor(votes, key) # won
        PROVE  \/ Cardinality(VotesFor(votes, key)) < Cardinality(won)
               \/ /\ Cardinality(VotesFor(votes, key)) = Cardinality(won)
                  /\ \A j \in VotesFor(votes, key) : first < j
    <2> DEFINE other == VotesFor(votes, key)
    <2>1. Cardinality(won) \in Nat /\ Cardinality(other) \in Nat /\ Cardinality(won) > 0
      BY <1>5, VotesAreCounted
    <2>2. CASE other = {}
      <3>1. Cardinality(other) = 0
        BY <2>2, FS_EmptySet
      <3> QED  BY <2>1, <3>1
    <2>3. CASE other # {}
      <3>1. \A j \in other : j \in DOMAIN votes /\ Counted(votes, j) = Cardinality(other)
        BY DEF VotesFor, Counted
      <3>2. Counted(votes, first) = Cardinality(won)
        BY DEF Counted
      <3> HIDE DEF other, won
      <3>3. Cardinality(other) <= Cardinality(won)
        BY <1>2, <2>3, <3>1, <3>2
      <3>4. CASE Cardinality(other) = Cardinality(won)
        <4>1. ASSUME NEW j \in other  PROVE first < j
          <5>1. j \in most
            BY <1>2, <3>1, <3>2, <3>4
          <5>2. first <= j /\ j \in Nat
            BY <1>6, <5>1
          <5>3. j # first
            BY <1>5, <1>9 DEF other, won, VotesFor
          <5> QED  BY <1>5, <5>2, <5>3
        <4> QED  BY <3>4, <4>1 DEF other
      <3> QED  BY <2>1, <3>3, <3>4 DEF other
    <2> QED  BY <2>2, <2>3
  <1>10. won = VotesFor(votes, casefold[majority(votes).decision])
    BY <1>4
  <1> HIDE DEF won, most
  <1> QED  BY <1>4, <1>5, <1>8, <1>9, <1>10 DEF VerdictIsRight

\* A prompt chain stops at the first gate that fails, or is completed, for any number of steps.
THEOREM ChainExact ==
  ASSUME NEW Step, NEW steps \in Seq(Step), NEW outputs
  PROVE  ReplyIsExact(steps, outputs)
  <1> DEFINE Passed(i) == check_gate(steps[i], outputs[i])
             gates == [i \in DOMAIN steps |-> Passed(i)]
             F == {i \in 1 .. Len(gates) : ~gates[i]}
             failing == IF F # {} THEN Min(F) ELSE 0
  <1>1. DOMAIN steps = 1 .. Len(steps) /\ Len(steps) \in Nat /\ Len(gates) = Len(steps)
    OBVIOUS
  <1>2. \A i : i \in F <=> i \in DOMAIN steps /\ ~Passed(i)
    BY <1>1
  <1>3. chain(steps, outputs) = [executed |-> IF failing = 0 THEN Len(steps) ELSE failing, completed |-> failing = 0]
    BY DEF chain, SelectInSeq
  <1> HIDE DEF Passed
  <1> HIDE DEF F
  <1>4. F # {} => failing \in F /\ \A i \in F : failing <= i
    <2> SUFFICES ASSUME F # {}  PROVE failing \in F /\ \A i \in F : failing <= i
      OBVIOUS
    <2>1. F \subseteq Nat
      BY <1>1, <1>2
    <2>2. \E x \in F : \A y \in F : x <= y
      BY <2>1, LeastExists
    <2> QED  BY <2>2 DEF Min
  <1>5. F = {} => failing = 0
    OBVIOUS
  <1> HIDE DEF failing
  <1>6. F # {} => failing # 0
    BY <1>1, <1>2, <1>4
  <1>7. /\ chain(steps, outputs).completed <=> F = {}
        /\ chain(steps, outputs).executed = IF F = {} THEN Len(steps) ELSE failing
    <2>1. /\ chain(steps, outputs).completed = (failing = 0)
          /\ chain(steps, outputs).executed = IF failing = 0 THEN Len(steps) ELSE failing
      BY <1>3
    <2>2. F = {} <=> failing = 0
      BY <1>5, <1>6
    <2> QED  BY <2>1, <2>2
  <1>8. ASSUME NEW i \in 1 .. chain(steps, outputs).executed - 1  PROVE i \in DOMAIN steps /\ Passed(i)
    <2>1. CASE F = {}
      BY <1>1, <1>2, <1>7, <2>1
    <2>2. CASE F # {}
      <3>1. failing \in DOMAIN steps /\ i \in 1 .. failing - 1
        BY <1>2, <1>4, <1>7, <2>2
      <3>2. i \in DOMAIN steps /\ ~(failing <= i)
        BY <1>1, <3>1
      <3> QED  BY <1>2, <1>4, <2>2, <3>2
    <2> QED  BY <2>1, <2>2
  <1> QED  BY <1>2, <1>4, <1>7, <1>8 DEF ReplyIsExact, Passed
=============================================================================

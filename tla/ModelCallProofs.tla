-------------------------- MODULE ModelCallProofs --------------------------
(***************************************************************************)
(* Proofs about ModelCall and DagDiagnostics, for any number of calls,     *)
(* slots, tokens, pieces of text and records.                              *)
(*                                                                         *)
(* Of a call alone: what the authority has charged, what the response      *)
(* says of its usage and which resources are open follow from where the    *)
(* call is (CallIsSound).  Of all calls: each conversation between its     *)
(* beginning and its end holds one slot (SlotsAreHeld), and the session    *)
(* has counted the calls the provider is done with (CountsAreRight), which *)
(* are all of them once the scope of the run is left.                      *)
(***************************************************************************)
EXTENDS DagDiagnostics, FiniteSetTheorems, Induction

-----------------------------------------------------------------------------
(* The inductive invariant *)

Text == Seq({"same", "other"})

Types ==
  /\ CallTypeOK
  /\ text \in [Call -> Text] /\ snapshot \in [Call -> Text]
  /\ scope \in {"none", "open", "joining", "reaped", "closed", "aborted"}
  /\ pending \in 0 .. MaxRecords /\ publishing \in BOOLEAN /\ cut \in BOOLEAN
  /\ dropped \in Nat /\ delivery_failures \in Nat /\ lost \in Nat
  /\ calls \in Nat /\ unknown \in Nat /\ tokens \in Nat

Streaming == {"parser", "response"}
Closing == {"closeParser", "closeResponse"}

\* What is charged for c, now that the provider works or has worked for it.
ChargeIsRight(c) ==
  /\ charge[<<c, 1>>] = 0
  /\ pc[c] \in {"idle", "reserve"} => used[c] = 0 /\ charge[<<c, 0>>] \in {0, Reserved}
  /\ pc[c] \in {"calling", "stream"} => used[c] > 0 /\ charge[<<c, 0>>] = Reserved
  /\ pc[c] \in {"settle"} \cup Closing => used[c] > 0
  /\ pc[c] \in {"idle", "reserve", "calling", "stream"} => report[c] = "none"
  /\ pc[c] = "settle" => report[c] = "known"
  /\ used[c] > 0 =>
       charge[<<c, 0>>] = Reserved \/ (report[c] = "known" /\ charge[<<c, 0>>] = used[c])

\* A call that ended well was settled if it could be, and its text is complete.
EndIsRight(c) ==
  result[c] = "done" =>
    /\ pc[c] \in {"over"} \cup Closing
    /\ report[c] = "known" => charge[<<c, 0>>] = used[c]
    /\ kind[c] = "conversation" => text[c] = snapshot[c]

\* Which closers are left.
ResourcesAreKnown(c) ==
  /\ pc[c] \in {"idle", "reserve", "calling", "over"} => resources[c] = {}
  /\ pc[c] \in {"stream", "closeParser"} => kind[c] = "conversation" /\ resources[c] = Streaming
  /\ pc[c] = "closeResponse" => kind[c] = "conversation" /\ resources[c] = {"response"}
  /\ pc[c] = "settle" => resources[c] = IF kind[c] = "conversation" THEN Streaming ELSE {}

CallIsSound(c) == ChargeIsRight(c) /\ EndIsRight(c) /\ ResourcesAreKnown(c)
CallsAreSound == \A c \in Call : CallIsSound(c)

\* The conversations that hold a slot.
Holding == {c \in Call : kind[c] = "conversation" /\ pc[c] \notin {"idle", "over"}}
SlotsAreHeld == slots + Cardinality(Holding) = MaxSlots

\* The calls of the run that the provider is done with.
Met == {c \in Role : used[c] > 0 /\ pc[c] # "calling"}
MetKnown == {c \in Met : report[c] = "known"}

CountsAreRight ==
  /\ calls = Cardinality(Met)
  /\ unknown = Cardinality(Met \ MetKnown)
  /\ IsFiniteSet(TokensOf(MetKnown)) /\ tokens = Cardinality(TokensOf(MetKnown))

\* No role goes on outside the scope, and the summary is what the session then has.
SummaryIsFinal ==
  /\ scope \in {"joining", "reaped", "closed", "aborted"} => RolesOver
  /\ summary # <<>> =>
       /\ scope = "closed"
       /\ summary.calls = calls /\ summary.unknown = unknown /\ summary.tokens = tokens
       /\ summary.dropped = dropped /\ summary.failures = delivery_failures

\* Nothing is lost that is not counted, but for a delivery the end of the scope cuts off.
GapsAreKnown ==
  /\ scope \in {"none", "open", "joining"} => ~cut
  /\ lost <= dropped + delivery_failures + (IF cut THEN 1 ELSE 0)

ModelInv ==
  /\ Types /\ CallsAreSound /\ SlotsAreHeld
  /\ CountsAreRight /\ SummaryIsFinal /\ GapsAreKnown

-----------------------------------------------------------------------------
(* What a step of a call does *)

\* A step of the call itself, without what the session makes of it.
CallAct(c) ==
  \/ CallSteps(c) \/ Refuse(c) \/ SettleSucceeds(c)
  \/ \E arrives \in BOOLEAN, a \in Answer : RpcFails(c, arrives, a)
  \/ \E r \in Reports : Respond(c, r)
  \/ \E r \in {"error", "cancelled"} : ProviderFails(c, r)

\* The types of what belongs to one call each.
CallTypes ==
  /\ kind \in [Call -> {"dag", "conversation"}]
  /\ pc \in [Call -> {"idle", "reserve", "calling", "stream", "settle", "closeParser",
                      "closeResponse", "over"}]
  /\ attempt \in [Call -> 0 .. 1]
  /\ charge \in [Operation -> {0, Reserved} \cup Usage]
  /\ used \in [Call -> {0} \cup Usage]
  /\ report \in [Call -> Reports \cup {"none"}]
  /\ resources \in [Call -> SUBSET {"parser", "response"}]
  /\ result \in [Call -> {"none", "done", "error", "cancelled"}]
  /\ text \in [Call -> Text] /\ snapshot \in [Call -> Text]

\* Nothing of another call changes.
OthersStay(c) ==
  /\ kind' = kind
  /\ \A d \in Call \ {c} :
       /\ pc'[d] = pc[d] /\ used'[d] = used[d] /\ report'[d] = report[d]
       /\ charge'[<<d, 0>>] = charge[<<d, 0>>] /\ charge'[<<d, 1>>] = charge[<<d, 1>>]
       /\ resources'[d] = resources[d] /\ result'[d] = result[d]
       /\ text'[d] = text[d] /\ snapshot'[d] = snapshot[d]

Holds(c) == kind[c] = "conversation" /\ pc[c] \notin {"idle", "over"}

\* The slot goes with the call.
SlotMoves(c) ==
  \/ slots' = slots /\ (Holds(c)' <=> Holds(c))
  \/ slots > 0 /\ slots' = slots - 1 /\ ~Holds(c) /\ Holds(c)'
  \/ slots' = slots + 1 /\ Holds(c) /\ ~Holds(c)'

CallGoal(c) == CallTypes' /\ CallIsSound(c)' /\ OthersStay(c) /\ SlotMoves(c)

\* What the provider uses up is a positive number, and so is a reservation.
LEMMA Positive == Reserved \in Nat /\ Reserved > 0 /\ \A u \in Usage : u \in Nat /\ u > 0
  BY ModelCallAssumption

\* A final chunk that begins with the text sent so far is sent to its end.
LEMMA RelayIsWhole ==
  ASSUME NEW s \in Text, NEW t \in Text, StartsWith(s, t)
  PROVE  t \o SubSeq(s, Len(t) + 1, Len(s)) = s
  <1>1. Len(s) \in Nat /\ Len(t) \in Nat /\ Len(t) <= Len(s) /\ t = SubSeq(s, 1, Len(t))
    BY DEF Text, StartsWith
  <1>2. s \in Seq({"same", "other"})
    BY DEF Text
  <1>3. SubSeq(s, 1, Len(s)) = s
    BY <1>2, SubSeqFull
  <1>4. SubSeq(s, 1, Len(t)) \o SubSeq(s, Len(t) + 1, Len(s)) = SubSeq(s, 1, Len(s))
    <2>1. 1 \in 1 .. Len(s) + 1 /\ Len(t) \in 1 - 1 .. Len(s) /\ Len(s) \in Len(t) .. Len(s)
      BY <1>1
    <2> QED  BY <1>2, <2>1, ConcatAdjacentSubSeq
  <1> QED  BY <1>1, <1>3, <1>4

\* An RPC touches the one operation of its call.
LEMMA AttemptStep ==
  ASSUME CallTypes, NEW c \in Call, CallIsSound(c), pc[c] \in {"reserve", "settle"},
         NEW arrives \in BOOLEAN, NEW a, Attempt(c, arrives, a)
  PROVE  /\ charge' \in [Operation -> {0, Reserved} \cup Usage]
         /\ \A o \in Operation : o # <<c, 0>> => charge'[o] = charge[o]
         /\ pc[c] = "reserve" =>
              charge'[<<c, 0>>] = IF arrives THEN Reserved ELSE charge[<<c, 0>>]
         /\ pc[c] = "settle" =>
              charge'[<<c, 0>>] = IF arrives THEN used[c] ELSE charge[<<c, 0>>]
  <1>1. <<c, 0>> \in Operation /\ <<c, 0>>[1] = c
    BY DEF Operation
  <1>2. used[c] \in {0} \cup Usage
    BY DEF CallTypes
  <1>3. pc[c] = "reserve" => charge[<<c, 0>>] \in {0, Reserved}
    BY DEF CallIsSound, ChargeIsRight
  <1>4. charge' = IF ~arrives THEN charge
                  ELSE IF pc[c] = "settle" THEN [charge EXCEPT ![<<c, 0>>] = used[c]]
                  ELSE IF charge[<<c, 0>>] = 0 THEN [charge EXCEPT ![<<c, 0>>] = Reserved]
                  ELSE charge
    BY DEF Attempt, Charged, OperationId
  <1> QED  BY <1>1, <1>2, <1>3, <1>4 DEF CallTypes

\* The end of a call, or its way through the closers.
LEMMA EndsStep ==
  ASSUME CallTypes, NEW c \in Call, NEW r \in {"none", "done", "error", "cancelled"},
         Ends(c, r), kind' = kind, pc[c] # "idle", pc[c] # "over"
  PROVE  /\ pc' \in [Call -> {"idle", "reserve", "calling", "stream", "settle", "closeParser",
                              "closeResponse", "over"}]
         /\ result' \in [Call -> {"none", "done", "error", "cancelled"}]
         /\ \A d \in Call \ {c} : pc'[d] = pc[d] /\ result'[d] = result[d]
         /\ pc'[c] = IF resources[c] = {} THEN "over" ELSE "closeParser"
         /\ result'[c] = r /\ SlotMoves(c)
  BY DEF CallTypes, Ends, SlotsAfter, SlotMoves, Holds

\* Each step of a call keeps what is known of it, and leaves the others alone.
LEMMA CallStepIsSound ==
  ASSUME CallTypes, NEW c \in Call, CallIsSound(c), CallAct(c)
  PROVE  CallGoal(c)
  <1> USE DEF CallGoal
  <1>0. /\ \A d \in Call : <<d, 0>> \in Operation /\ <<d, 1>> \in Operation
        /\ \A d \in Call \ {c} : <<d, 0>> # <<c, 0>> /\ <<d, 1>> # <<c, 0>>
        /\ <<c, 1>> # <<c, 0>>
    BY DEF Operation
  <1>1. CASE Begin(c)
    <2>1. /\ pc[c] = "idle" /\ pc' = [pc EXCEPT ![c] = "reserve"]
          /\ UNCHANGED <<kind, attempt, charge, used, report, resources, text, snapshot, result>>
          /\ IF kind[c] = "conversation" THEN slots > 0 /\ slots' = slots - 1 ELSE slots' = slots
      BY <1>1 DEF Begin
    <2>2. CallTypes' /\ OthersStay(c)
      BY <2>1 DEF CallTypes, OthersStay
    <2>3. SlotMoves(c)
      BY <2>1 DEF CallTypes, SlotMoves, Holds
    <2>4. CallIsSound(c)'
      BY <2>1 DEF CallTypes, CallIsSound, ChargeIsRight, EndIsRight, ResourcesAreKnown, Closing
    <2> QED  BY <2>2, <2>3, <2>4
  <1>2. CASE Refuse(c)
    <2>1. /\ pc[c] = "idle" /\ pc' = [pc EXCEPT ![c] = "over"]
          /\ result' = [result EXCEPT ![c] = "error"]
          /\ UNCHANGED <<kind, attempt, charge, used, report, resources, slots, text, snapshot>>
      BY <1>2 DEF Refuse
    <2>2. CallTypes' /\ OthersStay(c)
      BY <2>1 DEF CallTypes, OthersStay
    <2>3. SlotMoves(c)
      BY <2>1 DEF CallTypes, SlotMoves, Holds
    <2>4. CallIsSound(c)'
      BY <2>1 DEF CallTypes, CallIsSound, ChargeIsRight, EndIsRight, ResourcesAreKnown, Closing
    <2> QED  BY <2>2, <2>3, <2>4
  <1>3. ASSUME NEW arrives \in BOOLEAN, Retry(c, arrives)  PROVE CallGoal(c)
    <2>1. /\ pc[c] \in {"reserve", "settle"} /\ Attempt(c, arrives, "retry")
          /\ attempt' = [attempt EXCEPT ![c] = 1]
          /\ UNCHANGED <<kind, pc, used, report, resources, slots, text, snapshot, result>>
      BY <1>3 DEF Retry
    <2>2. /\ charge' \in [Operation -> {0, Reserved} \cup Usage]
          /\ \A o \in Operation : o # <<c, 0>> => charge'[o] = charge[o]
          /\ pc[c] = "reserve" =>
               charge'[<<c, 0>>] = IF arrives THEN Reserved ELSE charge[<<c, 0>>]
          /\ pc[c] = "settle" =>
               charge'[<<c, 0>>] = IF arrives THEN used[c] ELSE charge[<<c, 0>>]
      BY <2>1, AttemptStep
    <2>3. CallTypes' /\ OthersStay(c)
      BY <1>0, <2>1, <2>2 DEF CallTypes, OthersStay
    <2>4. SlotMoves(c)
      BY <2>1 DEF SlotMoves, Holds
    <2>5. CallIsSound(c)'
      BY <1>0, <2>1, <2>2
      DEF CallTypes, CallIsSound, ChargeIsRight, EndIsRight, ResourcesAreKnown, Closing
    <2> QED  BY <2>3, <2>4, <2>5
  <1>4. ASSUME NEW arrives \in BOOLEAN, NEW a \in Answer, RpcFails(c, arrives, a)
        PROVE  CallGoal(c)
    <2>1. PICK r \in {"error", "cancelled"} :
            /\ pc[c] \in {"reserve", "settle"} /\ Attempt(c, arrives, a) /\ Ends(c, r)
            /\ UNCHANGED <<kind, attempt, used, report, resources, text, snapshot>>
      BY <1>4 DEF RpcFails
    <2>2. /\ charge' \in [Operation -> {0, Reserved} \cup Usage]
          /\ \A o \in Operation : o # <<c, 0>> => charge'[o] = charge[o]
          /\ pc[c] = "reserve" =>
               charge'[<<c, 0>>] = IF arrives THEN Reserved ELSE charge[<<c, 0>>]
          /\ pc[c] = "settle" =>
               charge'[<<c, 0>>] = IF arrives THEN used[c] ELSE charge[<<c, 0>>]
      BY <2>1, AttemptStep
    <2>3. /\ pc' \in [Call -> {"idle", "reserve", "calling", "stream", "settle", "closeParser",
                              "closeResponse", "over"}]
          /\ result' \in [Call -> {"none", "done", "error", "cancelled"}]
          /\ \A d \in Call \ {c} : pc'[d] = pc[d] /\ result'[d] = result[d]
          /\ pc'[c] = IF resources[c] = {} THEN "over" ELSE "closeParser"
          /\ result'[c] = r /\ SlotMoves(c)
      BY <2>1, EndsStep
    <2>4. CallTypes' /\ OthersStay(c)
      BY <1>0, <2>1, <2>2, <2>3 DEF CallTypes, OthersStay
    <2>5. CallIsSound(c)'
      BY <1>0, <2>1, <2>2, <2>3
      DEF CallTypes, CallIsSound, ChargeIsRight, EndIsRight, ResourcesAreKnown, Closing, Streaming
    <2> QED  BY <2>3, <2>4, <2>5
  <1>5. ASSUME NEW u \in Usage, ReserveSucceeds(c, u)  PROVE CallGoal(c)
    <2>1. /\ pc[c] = "reserve" /\ Attempt(c, TRUE, "ok") /\ pc' = [pc EXCEPT ![c] = "calling"]
          /\ attempt' = [attempt EXCEPT ![c] = 0] /\ used' = [used EXCEPT ![c] = u]
          /\ UNCHANGED <<kind, report, resources, slots, text, snapshot, result>>
      BY <1>5 DEF ReserveSucceeds
    <2>2. /\ charge' \in [Operation -> {0, Reserved} \cup Usage]
          /\ \A o \in Operation : o # <<c, 0>> => charge'[o] = charge[o]
          /\ charge'[<<c, 0>>] = Reserved
      BY <2>1, AttemptStep
    <2>3. CallTypes' /\ OthersStay(c)
      BY <1>0, <2>1, <2>2 DEF CallTypes, OthersStay
    <2>4. SlotMoves(c)
      BY <2>1 DEF CallTypes, SlotMoves, Holds
    <2>5. CallIsSound(c)'
      BY <1>0, <2>1, <2>2, Positive
      DEF CallTypes, CallIsSound, ChargeIsRight, EndIsRight, ResourcesAreKnown, Closing
    <2> QED  BY <2>3, <2>4, <2>5
  <1>6. ASSUME NEW closer \in {"parser", "response"}, NEW raises \in BOOLEAN,
               Close(c, closer, raises)
        PROVE  CallGoal(c)
    <2>1. /\ pc[c] = IF closer = "parser" THEN "closeParser" ELSE "closeResponse"
          /\ pc' = [pc EXCEPT ![c] = IF closer = "parser" THEN "closeResponse" ELSE "over"]
          /\ resources' = [resources EXCEPT ![c] = @ \ {closer}]
          /\ result' = [result EXCEPT ![c] = IF raises /\ @ = "done" THEN "error" ELSE @]
          /\ slots' = IF closer = "response" /\ kind[c] = "conversation" THEN slots + 1 ELSE slots
          /\ UNCHANGED <<kind, attempt, charge, used, report, text, snapshot>>
      BY <1>6 DEF Close, AfterParser, SlotsAfter
    <2>2. CallTypes' /\ OthersStay(c)
      BY <2>1 DEF CallTypes, OthersStay
    <2>3. SlotMoves(c)
      BY <2>1 DEF CallTypes, SlotMoves, Holds
    <2>4. CallIsSound(c)'
      <3>1. ChargeIsRight(c)' /\ EndIsRight(c)'
        BY <2>1 DEF CallTypes, CallIsSound, ChargeIsRight, EndIsRight, Closing
      <3>2. resources[c] \ {closer} = IF closer = "parser" THEN {"response"} ELSE {}
        BY <2>1 DEF CallIsSound, ResourcesAreKnown, Streaming
      <3>3. ResourcesAreKnown(c)'
        BY <2>1, <3>2 DEF CallTypes, CallIsSound, ResourcesAreKnown, Streaming
      <3> QED  BY <3>1, <3>3 DEF CallIsSound
    <2> QED  BY <2>2, <2>3, <2>4
  <1>7. CASE StreamOpens(c) \/ Chunk(c)
    <2>1. /\ UNCHANGED <<kind, attempt, charge, used, report, slots, snapshot, result>>
          /\ \/ /\ pc[c] = "calling" /\ kind[c] = "conversation"
                /\ pc' = [pc EXCEPT ![c] = "stream"] /\ text' = text
                /\ resources' = [resources EXCEPT ![c] = Streaming]
             \/ /\ pc[c] = "stream" /\ pc' = pc /\ resources' = resources
                /\ text' = [text EXCEPT ![c] = Append(@, "same")]
      BY <1>7 DEF StreamOpens, Chunk, Streaming
    <2>2. Append(text[c], "same") \in Text /\ Streaming \in SUBSET {"parser", "response"}
      BY DEF CallTypes, Text, Streaming
    <2>3. CallTypes' /\ OthersStay(c)
      <3>1. CallTypes'
        <4>1. CASE /\ pc' = [pc EXCEPT ![c] = "stream"] /\ text' = text
                   /\ resources' = [resources EXCEPT ![c] = Streaming]
          BY <2>1, <2>2, <4>1 DEF CallTypes
        <4>2. CASE /\ pc' = pc /\ resources' = resources
                   /\ text' = [text EXCEPT ![c] = Append(@, "same")]
          <5>1. text' \in [Call -> Text]
            BY <2>2, <4>2 DEF CallTypes
          <5> QED  BY <2>1, <4>2, <5>1 DEF CallTypes
        <4> QED  BY <2>1, <4>1, <4>2
      <3>2. OthersStay(c)
        BY <2>1 DEF CallTypes, OthersStay
      <3> QED  BY <3>1, <3>2
    <2>4. SlotMoves(c)
      BY <2>1 DEF CallTypes, SlotMoves, Holds
    <2>5. CallIsSound(c)'
      BY <2>1 DEF CallTypes, CallIsSound, ChargeIsRight, EndIsRight, ResourcesAreKnown, Closing
    <2> QED  BY <2>3, <2>4, <2>5
  <1>8. ASSUME NEW r \in Reports, Respond(c, r)  PROVE CallGoal(c)
    <2>1. /\ pc[c] = "calling" /\ kind[c] = "dag" /\ report' = [report EXCEPT ![c] = r]
          /\ UNCHANGED <<kind, attempt, charge, used, resources, text, snapshot>>
      BY <1>8 DEF Respond
    <2>2. CASE r = "known"
      <3>1. pc' = [pc EXCEPT ![c] = "settle"] /\ UNCHANGED <<slots, result>>
        BY <1>8, <2>2 DEF Respond, Settles
      <3>2. CallTypes' /\ OthersStay(c)
        BY <2>1, <3>1 DEF CallTypes, OthersStay
      <3>3. SlotMoves(c)
        BY <2>1, <3>1 DEF CallTypes, SlotMoves, Holds
      <3>4. CallIsSound(c)'
        BY <2>1, <2>2, <3>1
        DEF CallTypes, CallIsSound, ChargeIsRight, EndIsRight, ResourcesAreKnown, Closing
      <3> QED  BY <3>2, <3>3, <3>4
    <2>3. CASE r # "known"
      <3>1. PICK x \in {"done", "error", "cancelled"} : Ends(c, x)
        BY <1>8, <2>3 DEF Respond, Settles, RoleResult
      <3>2. /\ pc' \in [Call -> {"idle", "reserve", "calling", "stream", "settle", "closeParser",
                                "closeResponse", "over"}]
            /\ result' \in [Call -> {"none", "done", "error", "cancelled"}]
            /\ \A d \in Call \ {c} : pc'[d] = pc[d] /\ result'[d] = result[d]
            /\ pc'[c] = IF resources[c] = {} THEN "over" ELSE "closeParser"
            /\ result'[c] = x /\ SlotMoves(c)
        BY <2>1, <3>1, EndsStep
      <3>3. CallTypes' /\ OthersStay(c)
        BY <2>1, <3>2 DEF CallTypes, OthersStay
      <3>4. CallIsSound(c)'
        BY <2>1, <2>3, <3>2
        DEF CallTypes, CallIsSound, ChargeIsRight, EndIsRight, ResourcesAreKnown, Closing
      <3> QED  BY <3>2, <3>3, <3>4
    <2> QED  BY <2>2, <2>3
  <1>9. ASSUME NEW r \in {"error", "cancelled"}, ProviderFails(c, r)  PROVE CallGoal(c)
    <2>1. /\ pc[c] \in {"calling", "stream"} /\ Ends(c, r)
          /\ UNCHANGED <<kind, attempt, charge, used, report, resources, text, snapshot>>
      BY <1>9 DEF ProviderFails
    <2>2. /\ pc' \in [Call -> {"idle", "reserve", "calling", "stream", "settle", "closeParser",
                              "closeResponse", "over"}]
          /\ result' \in [Call -> {"none", "done", "error", "cancelled"}]
          /\ \A d \in Call \ {c} : pc'[d] = pc[d] /\ result'[d] = result[d]
          /\ pc'[c] = IF resources[c] = {} THEN "over" ELSE "closeParser"
          /\ result'[c] = r /\ SlotMoves(c)
      BY <2>1, EndsStep
    <2>3. CallTypes' /\ OthersStay(c)
      BY <2>1, <2>2 DEF CallTypes, OthersStay
    <2>4. CallIsSound(c)'
      BY <2>1, <2>2
      DEF CallTypes, CallIsSound, ChargeIsRight, EndIsRight, ResourcesAreKnown, Closing, Streaming
    <2> QED  BY <2>2, <2>3, <2>4
  <1>10. ASSUME NEW s \in Text, NEW r \in Reports, Complete(c, s, r),
                pc[c] \in {"stream", "settle"}, kind[c] = "conversation",
                snapshot' = [snapshot EXCEPT ![c] = s], report' = [report EXCEPT ![c] = r],
                kind' = kind, attempt' = attempt, used' = used, resources' = resources,
                charge' \in [Operation -> {0, Reserved} \cup Usage],
                \A o \in Operation : o # <<c, 0>> => charge'[o] = charge[o],
                used[c] > 0, IF r = "known" THEN charge'[<<c, 0>>] = used[c]
                                            ELSE charge'[<<c, 0>>] = Reserved
         PROVE  CallGoal(c)
    <2>1. PICK x \in {"done", "error"} :
            Ends(c, x) /\ (text' = [text EXCEPT ![c] = s] \/ (x = "error" /\ text' = text))
      <3>1. CASE r # "interrupted" /\ StartsWith(s, text[c])
        <4>1. Relay(c, s) = s
          BY <3>1, RelayIsWhole DEF CallTypes, Relay
        <4> QED  BY <1>10, <3>1, <4>1 DEF Complete
      <3>2. CASE ~(r # "interrupted" /\ StartsWith(s, text[c]))
        BY <1>10, <3>2 DEF Complete
      <3> QED  BY <3>1, <3>2
    <2>2. /\ pc' \in [Call -> {"idle", "reserve", "calling", "stream", "settle", "closeParser",
                              "closeResponse", "over"}]
          /\ result' \in [Call -> {"none", "done", "error", "cancelled"}]
          /\ \A d \in Call \ {c} : pc'[d] = pc[d] /\ result'[d] = result[d]
          /\ pc'[c] = IF resources[c] = {} THEN "over" ELSE "closeParser"
          /\ result'[c] = x /\ SlotMoves(c)
      BY <1>10, <2>1, EndsStep
    <2>3. CallTypes' /\ OthersStay(c)
      <3>1. text' \in [Call -> Text] /\ \A d \in Call \ {c} : text'[d] = text[d]
        BY <1>10, <2>1 DEF CallTypes
      <3>2. snapshot' \in [Call -> Text] /\ report' \in [Call -> Reports \cup {"none"}]
        BY <1>10 DEF CallTypes
      <3>3. CallTypes'
        BY <1>10, <2>2, <3>1, <3>2 DEF CallTypes
      <3>4. OthersStay(c)
        BY <1>0, <1>10, <2>2, <3>1 DEF CallTypes, OthersStay
      <3> QED  BY <3>3, <3>4
    <2>4. resources[c] = Streaming /\ Streaming # {}
      BY <1>10 DEF CallIsSound, ResourcesAreKnown, Streaming
    <2>5. CallIsSound(c)'
      <3>1. /\ pc'[c] = "closeParser" /\ report'[c] = r /\ snapshot'[c] = s
            /\ charge'[<<c, 1>>] = 0 /\ used'[c] = used[c] /\ resources'[c] = Streaming
            /\ kind'[c] = "conversation" /\ (x = "done" => text'[c] = s) /\ result'[c] = x
        BY <1>0, <1>10, <2>1, <2>2, <2>4 DEF CallTypes, CallIsSound, ChargeIsRight
      <3>2. ChargeIsRight(c)'
        BY <1>10, <3>1 DEF ChargeIsRight, Closing
      <3>3. EndIsRight(c)'
        BY <1>10, <3>1 DEF EndIsRight, Closing
      <3>4. ResourcesAreKnown(c)'
        BY <3>1 DEF ResourcesAreKnown
      <3> QED  BY <3>2, <3>3, <3>4 DEF CallIsSound
    <2> QED  BY <2>2, <2>3, <2>5
  <1>11. ASSUME NEW s \in UNION {[1 .. n -> {"same", "other"}] : n \in 0 .. MaxText},
                NEW r \in Reports, FinalChunk(c, s, r)
         PROVE  CallGoal(c)
    <2>1. s \in Text
      <3>1. PICK n \in 0 .. MaxText : s \in [1 .. n -> {"same", "other"}]
        OBVIOUS
      <3> QED  BY <3>1, ModelCallAssumption DEF Text
    <2>2. /\ pc[c] = "stream" /\ report' = [report EXCEPT ![c] = r]
          /\ snapshot' = [snapshot EXCEPT ![c] = s]
          /\ UNCHANGED <<kind, attempt, charge, used, resources>>
      BY <1>11 DEF FinalChunk
    <2>3. kind[c] = "conversation" /\ used[c] > 0 /\ charge[<<c, 0>>] = Reserved
      BY <2>2 DEF CallIsSound, ChargeIsRight, ResourcesAreKnown
    <2>4. CASE r = "known"
      <3>1. pc' = [pc EXCEPT ![c] = "settle"] /\ UNCHANGED <<slots, text, result>>
        BY <1>11, <2>4 DEF FinalChunk, Settles
      <3>2. CallTypes' /\ OthersStay(c)
        BY <2>1, <2>2, <3>1 DEF CallTypes, OthersStay
      <3>3. SlotMoves(c)
        BY <2>2, <3>1 DEF CallTypes, SlotMoves, Holds
      <3>4. CallIsSound(c)'
        BY <2>2, <2>3, <2>4, <3>1
        DEF CallTypes, CallIsSound, ChargeIsRight, EndIsRight, ResourcesAreKnown, Closing
      <3> QED  BY <3>2, <3>3, <3>4
    <2>5. CASE r = "invalid"
      <3>1. Ends(c, "error") /\ text' = text
        BY <1>11, <2>5 DEF FinalChunk, Settles
      <3>2. /\ pc' \in [Call -> {"idle", "reserve", "calling", "stream", "settle", "closeParser",
                                "closeResponse", "over"}]
            /\ result' \in [Call -> {"none", "done", "error", "cancelled"}]
            /\ \A d \in Call \ {c} : pc'[d] = pc[d] /\ result'[d] = result[d]
            /\ pc'[c] = IF resources[c] = {} THEN "over" ELSE "closeParser"
            /\ result'[c] = "error" /\ SlotMoves(c)
        BY <2>2, <3>1, EndsStep
      <3>3. CallTypes' /\ OthersStay(c)
        BY <2>1, <2>2, <3>1, <3>2 DEF CallTypes, OthersStay
      <3>4. CallIsSound(c)'
        BY <2>2, <2>3, <2>5, <3>2 DEF CallTypes, CallIsSound, ChargeIsRight, EndIsRight,
           ResourcesAreKnown, Closing, Streaming
      <3> QED  BY <3>2, <3>3, <3>4
    <2>6. CASE r \notin {"known", "invalid"}
      <3>1. Complete(c, s, r)
        BY <1>11, <2>6 DEF FinalChunk, Settles
      <3> QED  BY <1>10, <2>1, <2>2, <2>3, <2>6, <3>1 DEF CallTypes
    <2> QED  BY <2>4, <2>5, <2>6
  <1>12. CASE SettleSucceeds(c)
    <2>1. /\ pc[c] = "settle" /\ Attempt(c, TRUE, "ok")
          /\ UNCHANGED <<kind, attempt, used, report, resources, snapshot>>
      BY <1>12 DEF SettleSucceeds
    <2>2. /\ charge' \in [Operation -> {0, Reserved} \cup Usage]
          /\ \A o \in Operation : o # <<c, 0>> => charge'[o] = charge[o]
          /\ charge'[<<c, 0>>] = used[c]
      BY <2>1, AttemptStep
    <2>3. report[c] = "known" /\ used[c] > 0
      BY <2>1 DEF CallIsSound, ChargeIsRight
    <2>4. CASE kind[c] = "conversation"
      <3>1. Complete(c, snapshot[c], "known")
        BY <1>12, <2>3, <2>4 DEF SettleSucceeds
      <3>2. /\ snapshot' = [snapshot EXCEPT ![c] = snapshot[c]] /\ snapshot[c] \in Text
            /\ report' = [report EXCEPT ![c] = "known"]
        BY <2>1, <2>3 DEF CallTypes
      <3> QED  BY <1>10, <2>1, <2>2, <2>3, <2>4, <3>1, <3>2 DEF Reports
    <2>5. CASE kind[c] # "conversation"
      <3>1. Ends(c, "done") /\ text' = text
        BY <1>12, <2>3, <2>5 DEF SettleSucceeds, RoleResult
      <3>2. /\ pc' \in [Call -> {"idle", "reserve", "calling", "stream", "settle", "closeParser",
                                "closeResponse", "over"}]
            /\ result' \in [Call -> {"none", "done", "error", "cancelled"}]
            /\ \A d \in Call \ {c} : pc'[d] = pc[d] /\ result'[d] = result[d]
            /\ pc'[c] = IF resources[c] = {} THEN "over" ELSE "closeParser"
            /\ result'[c] = "done" /\ SlotMoves(c)
        BY <2>1, <3>1, EndsStep
      <3>3. CallTypes' /\ OthersStay(c)
        BY <1>0, <2>1, <2>2, <3>1, <3>2 DEF CallTypes, OthersStay
      <3>4. CallIsSound(c)'
        BY <1>0, <2>1, <2>2, <2>3, <2>5, <3>2 DEF CallTypes, CallIsSound, ChargeIsRight,
           EndIsRight, ResourcesAreKnown, Closing
      <3> QED  BY <3>2, <3>3, <3>4
    <2> QED  BY <2>4, <2>5
  <1> QED  BY <1>1, <1>2, <1>3, <1>4, <1>5, <1>6, <1>7, <1>8, <1>9, <1>11, <1>12
           DEF CallAct, CallSteps

\* Each conversation that begins takes a slot, and each that ends gives one back.
LEMMA SlotsStep ==
  ASSUME Types, SlotsAreHeld, NEW c \in Call, OthersStay(c), SlotMoves(c)
  PROVE  SlotsAreHeld' /\ slots' \in 0 .. MaxSlots
  <1>1. IsFiniteSet(Holding) /\ Cardinality(Holding) \in Nat /\ slots \in Nat /\ MaxSlots \in Nat
    <2>1. Holding \in SUBSET Call
      BY DEF Holding
    <2>2. IsFiniteSet(Holding)
      BY <2>1, FS_Subset, ModelCallAssumption
    <2>3. slots \in Nat /\ MaxSlots \in Nat
      BY ModelCallAssumption DEF Types, CallTypeOK
    <2> QED  BY <2>2, <2>3, FS_CardinalityType
  <1>2. /\ Holding = {d \in Call : Holds(d)} /\ Holding' = {d \in Call : Holds(d)'}
        /\ \A d \in Call \ {c} : Holds(d)' <=> Holds(d)
    BY DEF Holding, Holds, OthersStay
  <1>3. CASE slots' = slots /\ (Holds(c)' <=> Holds(c))
    <2>1. Holding' = Holding
      BY <1>2, <1>3
    <2> QED  BY <1>1, <1>3, <2>1 DEF SlotsAreHeld
  <1>4. CASE slots > 0 /\ slots' = slots - 1 /\ ~Holds(c) /\ Holds(c)'
    <2>1. Holding' = Holding \cup {c} /\ c \notin Holding
      BY <1>2, <1>4
    <2>2. Cardinality(Holding') = Cardinality(Holding) + 1
      BY <1>1, <2>1, FS_AddElement
    <2> QED  BY <1>1, <1>4, <2>2 DEF SlotsAreHeld
  <1>5. CASE slots' = slots + 1 /\ Holds(c) /\ ~Holds(c)'
    <2>1. Holding' = Holding \ {c} /\ c \in Holding
      BY <1>2, <1>5
    <2>2. Cardinality(Holding') = Cardinality(Holding) - 1 /\ Cardinality(Holding) # 0
      BY <1>1, <2>1, FS_RemoveElement, FS_EmptySet
    <2> QED  BY <1>1, <1>5, <2>2 DEF SlotsAreHeld
  <1> QED  BY <1>3, <1>4, <1>5 DEF SlotMoves

-----------------------------------------------------------------------------
(* What the session makes of a step *)

InMet(c) == used[c] > 0 /\ pc[c] # "calling"

\* The provider is not done with c in this step, or has been before.
MetStays(c) ==
  c \in Role => /\ InMet(c)' <=> InMet(c)
                /\ InMet(c) => report'[c] = report[c] /\ used'[c] = used[c]

\* It is, and the session counts it.
MetCounted(c) ==
  /\ scope = "open" /\ c \in Role /\ ~InMet(c) /\ InMet(c)' /\ used'[c] = used[c]
  /\ calls' = calls + 1
  /\ unknown' = unknown + (IF report'[c] # "known" THEN 1 ELSE 0)
  /\ tokens' = tokens + (IF report'[c] = "known" THEN used[c] ELSE 0)

\* Records that find no room are dropped and counted.
Queued ==
  /\ pending' \in 0 .. MaxRecords
  /\ \E k \in Nat : dropped' = dropped + k /\ lost' = lost + k

SessionSees(c) ==
  /\ c \in Role => scope = "open"
  /\ UNCHANGED <<scope, publishing, delivery_failures, cut, summary>>
  /\ UNCHANGED <<pending, dropped, lost>> \/ (scope = "open" /\ Queued)
  /\ (UNCHANGED <<calls, unknown, tokens>> /\ MetStays(c)) \/ MetCounted(c)

\* Enqueueing keeps the bound of the queue.
LEMMA EnqueueStep ==
  ASSUME Types, NEW n \in 0 .. 2, Enqueue(n)
  PROVE  Queued
  <1> DEFINE kept == IF n <= MaxRecords - pending THEN n ELSE MaxRecords - pending
  <1>1. MaxRecords \in Nat /\ pending \in Nat /\ pending <= MaxRecords
    BY DiagnosticsAssumption DEF Types
  <1>2. kept \in Nat /\ kept <= n /\ pending + kept <= MaxRecords
    BY <1>1
  <1>3. pending' = pending + kept /\ dropped' = dropped + (n - kept) /\ lost' = lost + (n - kept)
    BY DEF Enqueue
  <1> HIDE DEF kept
  <1>4. n - kept \in Nat /\ pending + kept \in 0 .. MaxRecords
    BY <1>1, <1>2
  <1> QED  BY <1>3, <1>4 DEF Queued

\* The session's side of every step of a call.
LEMMA SessionStep ==
  ASSUME Types, CallTypes, NEW c \in Call, CallIsSound(c), CallStep(c)
  PROVE  CallAct(c) /\ SessionSees(c)
  <1>1. /\ c \in Role => scope = "open"
        /\ c \in Role <=> kind[c] = "dag"
    BY DEF CallStep, Role
  <1>2. CASE CallSteps(c) /\ UNCHANGED sessionVars
    <2>1. MetStays(c)
      <3>1. CASE Begin(c) \/ \E arrives \in BOOLEAN : Retry(c, arrives)
        BY <3>1 DEF Begin, Retry, MetStays, InMet, CallTypes, CallIsSound, ChargeIsRight
      <3>2. CASE \E u \in Usage : ReserveSucceeds(c, u)
        BY <3>2 DEF ReserveSucceeds, MetStays, InMet, CallTypes, CallIsSound, ChargeIsRight
      <3>3. CASE \E closer \in {"parser", "response"}, raises \in BOOLEAN : Close(c, closer, raises)
        BY <3>3 DEF Close, AfterParser, MetStays, InMet, CallTypes
      <3>4. CASE \/ StreamOpens(c) \/ Chunk(c)
                 \/ \E s \in UNION {[1 .. n -> {"same", "other"}] : n \in 0 .. MaxText},
                       r \in Reports : FinalChunk(c, s, r)
        <4>1. kind[c] = "conversation"
          BY <3>4 DEF StreamOpens, Chunk, FinalChunk, CallIsSound, ResourcesAreKnown
        <4> QED  BY <1>1, <4>1 DEF MetStays
      <3> QED  BY <1>2, <3>1, <3>2, <3>3, <3>4 DEF CallSteps
    <2>2. SessionSees(c)
      BY <1>1, <1>2, <2>1 DEF sessionVars, SessionSees
    <2> QED  BY <1>2, <2>2 DEF CallAct
  <1>3. ASSUME Unrecorded(c), MetStays(c)  PROVE SessionSees(c)
    <2>1. UNCHANGED <<pending, dropped, lost>> \/ (c \in Role /\ Enqueue(1))
      BY <1>3 DEF Unrecorded
    <2>2. UNCHANGED <<pending, dropped, lost>> \/ (scope = "open" /\ Queued)
      BY <1>1, <2>1, EnqueueStep
    <2> QED  BY <1>1, <1>3, <2>2 DEF Unrecorded, UnobservedSession, SessionSees
  <1>4. CASE Refuse(c) /\ Unrecorded(c)
    <2>1. MetStays(c)
      BY <1>4 DEF Refuse, MetStays, InMet, CallTypes, CallIsSound, ChargeIsRight
    <2> QED  BY <1>3, <1>4, <2>1 DEF CallAct
  <1>5. CASE (\E arrives \in BOOLEAN, a \in Answer : RpcFails(c, arrives, a) /\ Unrecorded(c))
             \/ (SettleSucceeds(c) /\ Unrecorded(c))
    <2>1. MetStays(c)
      <3>1. /\ pc[c] \in {"reserve", "settle"} /\ pc'[c] \in {"over", "closeParser"}
            /\ UNCHANGED <<used, report>>
        BY <1>5 DEF RpcFails, SettleSucceeds, Complete, Ends, CallTypes
      <3> QED  BY <3>1 DEF MetStays, InMet
    <2> QED  BY <1>3, <1>5, <2>1 DEF CallAct
  <1>6. ASSUME NEW r, Recorded(c, r), c \in Role, pc[c] = "calling", pc'[c] # "calling",
               used' = used, report'[c] = r
        PROVE  SessionSees(c)
    <2>1. used[c] > 0
      BY <1>6 DEF CallIsSound, ChargeIsRight
    <2>2. MetCounted(c)
      BY <1>1, <1>6, <2>1 DEF Recorded, Observed, IsUnknown, MetCounted, InMet
    <2>3. Queued
      BY <1>6, EnqueueStep DEF Recorded
    <2> QED  BY <1>1, <1>6, <2>2, <2>3 DEF Recorded, UnobservedSession, SessionSees
  <1>7. ASSUME NEW r \in Reports, Respond(c, r), Recorded(c, r)  PROVE CallAct(c) /\ SessionSees(c)
    <2>1. /\ pc[c] = "calling" /\ kind[c] = "dag" /\ used' = used /\ report'[c] = r
          /\ pc'[c] \in {"settle", "over", "closeParser"}
      BY <1>7 DEF Respond, Ends, CallTypes
    <2> QED  BY <1>1, <1>6, <1>7, <2>1 DEF CallAct
  <1>8. ASSUME NEW r \in {"error", "cancelled"}, ProviderFails(c, r),
               IF c \in Role THEN Recorded(c, "none") ELSE UNCHANGED sessionVars
        PROVE  CallAct(c) /\ SessionSees(c)
    <2>1. /\ pc[c] \in {"calling", "stream"} /\ used' = used /\ report' = report
          /\ pc'[c] \in {"over", "closeParser"}
      BY <1>8 DEF ProviderFails, Ends, CallTypes
    <2>2. CASE c \in Role
      <3>1. pc[c] = "calling" /\ report[c] = "none"
        BY <1>1, <2>1, <2>2 DEF CallIsSound, ChargeIsRight, ResourcesAreKnown
      <3> QED  BY <1>6, <1>8, <2>1, <2>2, <3>1 DEF CallAct
    <2>3. CASE c \notin Role
      BY <1>8, <2>3 DEF CallAct, SessionSees, MetStays, sessionVars
    <2> QED  BY <2>2, <2>3
  <1> QED  BY <1>2, <1>3, <1>4, <1>5, <1>7, <1>8 DEF CallStep

\* The tokens of a set of calls are those of the others and those of one of them.
LEMMA TokensAdd ==
  ASSUME NEW S, NEW c, c \notin S, used[c] \in Nat, IsFiniteSet(TokensOf(S))
  PROVE  /\ IsFiniteSet(TokensOf(S \cup {c}))
         /\ Cardinality(TokensOf(S \cup {c})) = Cardinality(TokensOf(S)) + used[c]
  <1> DEFINE New == {c} \X (1 .. used[c])
  <1>1. IsFiniteSet(1 .. used[c]) /\ Cardinality(1 .. used[c]) = used[c]
    <2> DEFINE b == used[c]
    <2>1. b \in Nat /\ b \in Int /\ 1 \in Int
      OBVIOUS
    <2> HIDE DEF b
    <2>2. /\ IsFiniteSet(1 .. b)
          /\ Cardinality(1 .. b) = IF 1 > b THEN 0 ELSE (b - 1) + 1
      BY <2>1, FS_Interval
    <2> QED  BY <2>1, <2>2 DEF b
  <1>2. IsFiniteSet({c}) /\ Cardinality({c}) = 1
    BY FS_Singleton
  <1>3. IsFiniteSet(New) /\ Cardinality(New) = used[c]
    <2>1. IsFiniteSet(New) /\ Cardinality(New) = Cardinality({c}) * Cardinality(1 .. used[c])
      BY <1>1, <1>2, FS_Product
    <2> QED  BY <1>1, <1>2, <2>1
  <1>4. TokensOf(S \cup {c}) = TokensOf(S) \cup New
    BY DEF TokensOf
  <1>5. TokensOf(S) \cap New = {}
    BY DEF TokensOf
  <1>6. Cardinality(TokensOf(S)) \in Nat
    BY FS_CardinalityType
  <1> HIDE DEF New
  <1>7. /\ IsFiniteSet(TokensOf(S) \cup New)
        /\ Cardinality(TokensOf(S) \cup New) =
             Cardinality(TokensOf(S)) + Cardinality(New) - Cardinality(TokensOf(S) \cap New)
    BY <1>3, FS_Union
  <1>8. Cardinality(TokensOf(S) \cap New) = 0
    BY <1>5, FS_EmptySet
  <1>9. Cardinality(TokensOf(S) \cup New) = Cardinality(TokensOf(S)) + used[c]
    BY <1>3, <1>6, <1>7, <1>8
  <1> QED  BY <1>4, <1>7, <1>9

\* The session counts each call once.
LEMMA CountsStep ==
  ASSUME Types, CallTypes, CountsAreRight, NEW c \in Call, OthersStay(c), SessionSees(c)
  PROVE  CountsAreRight' /\ calls' \in Nat /\ unknown' \in Nat /\ tokens' \in Nat
  <1>1. IsFiniteSet(Met) /\ IsFiniteSet(Met \ MetKnown) /\ Cardinality(Met) \in Nat
        /\ Cardinality(Met \ MetKnown) \in Nat
    <2>1. Met \in SUBSET Call /\ Met \ MetKnown \in SUBSET Call
      BY DEF Met, Role
    <2>2. IsFiniteSet(Met) /\ IsFiniteSet(Met \ MetKnown)
      BY <2>1, FS_Subset, ModelCallAssumption
    <2> QED  BY <2>2, FS_CardinalityType
  <1>2. /\ Role' = Role /\ Role \subseteq Call
        /\ Met = {d \in Role : InMet(d)} /\ Met' = {d \in Role : InMet(d)'}
        /\ MetKnown = {d \in Met : report[d] = "known"}
        /\ MetKnown' = {d \in Met' : report'[d] = "known"}
    BY DEF Role, OthersStay, Met, MetKnown, InMet
  <1>3. \A d \in Call \ {c} : /\ InMet(d)' <=> InMet(d)
                              /\ report'[d] = report[d] /\ used'[d] = used[d]
    BY DEF OthersStay, InMet
  <1>4. CASE UNCHANGED <<calls, unknown, tokens>> /\ MetStays(c)
    <2>1. Met' = Met /\ \A d \in Met : report'[d] = report[d] /\ used'[d] = used[d]
      BY <1>2, <1>3, <1>4 DEF MetStays
    <2>2. MetKnown' = MetKnown
      BY <1>2, <2>1
    <2>3. TokensOf(MetKnown)' = TokensOf(MetKnown)
      BY <1>2, <2>1, <2>2 DEF TokensOf
    <2> QED  BY <1>4, <2>1, <2>2, <2>3 DEF CountsAreRight, Types
  <1>5. CASE MetCounted(c)
    <2>1. Met' = Met \cup {c} /\ c \notin Met /\ c \notin MetKnown
      BY <1>2, <1>3, <1>5 DEF MetCounted
    <2>2. \A d \in Met : report'[d] = report[d] /\ used'[d] = used[d]
      BY <1>2, <1>3, <2>1
    <2>3. Cardinality(Met') = Cardinality(Met) + 1
      BY <1>1, <2>1, FS_AddElement
    <2>4. used[c] \in Nat /\ used'[c] = used[c]
      BY <1>5, Positive DEF MetCounted, CallTypes
    <2>5. CASE report'[c] = "known"
      <3>1. MetKnown' = MetKnown \cup {c} /\ Met' \ MetKnown' = Met \ MetKnown
        BY <1>2, <2>1, <2>2, <2>5
      <3>2. TokensOf(MetKnown)' = TokensOf(MetKnown \cup {c})
        BY <1>2, <2>2, <2>4, <3>1 DEF TokensOf
      <3>3. /\ IsFiniteSet(TokensOf(MetKnown \cup {c}))
            /\ Cardinality(TokensOf(MetKnown \cup {c})) = Cardinality(TokensOf(MetKnown)) + used[c]
        BY <2>1, <2>4, TokensAdd DEF CountsAreRight
      <3>4. calls' = calls + 1 /\ unknown' = unknown /\ tokens' = tokens + used[c]
        BY <1>5, <2>5 DEF MetCounted, Types
      <3>5. calls' = Cardinality(Met')
        BY <2>3, <3>4 DEF CountsAreRight
      <3>6. tokens' = Cardinality(TokensOf(MetKnown)')
        BY <3>2, <3>3, <3>4 DEF CountsAreRight
      <3>7. unknown' = Cardinality(Met' \ MetKnown')
        BY <3>1, <3>4 DEF CountsAreRight
      <3>8. IsFiniteSet(TokensOf(MetKnown)')
        BY <3>2, <3>3
      <3>9. calls' \in Nat /\ unknown' \in Nat /\ tokens' \in Nat
        BY <2>4, <3>4 DEF Types
      <3> QED  BY <3>5, <3>6, <3>7, <3>8, <3>9 DEF CountsAreRight
    <2>6. CASE report'[c] # "known"
      <3>1. MetKnown' = MetKnown /\ Met' \ MetKnown' = (Met \ MetKnown) \cup {c}
        BY <1>2, <2>1, <2>2, <2>6
      <3>2. TokensOf(MetKnown)' = TokensOf(MetKnown)
        BY <1>2, <2>2, <3>1 DEF TokensOf
      <3>3. Cardinality(Met' \ MetKnown') = Cardinality(Met \ MetKnown) + 1
        BY <1>1, <2>1, <3>1, FS_AddElement
      <3>4. calls' = calls + 1 /\ unknown' = unknown + 1 /\ tokens' = tokens
        BY <1>5, <2>6 DEF MetCounted, Types
      <3>5. calls' = Cardinality(Met') /\ unknown' = Cardinality(Met' \ MetKnown')
        BY <2>3, <3>3, <3>4 DEF CountsAreRight
      <3>6. IsFiniteSet(TokensOf(MetKnown)') /\ tokens' = Cardinality(TokensOf(MetKnown)')
        BY <3>2, <3>4 DEF CountsAreRight
      <3>7. calls' \in Nat /\ unknown' \in Nat /\ tokens' \in Nat
        BY <3>4 DEF Types
      <3> QED  BY <3>5, <3>6, <3>7 DEF CountsAreRight
    <2> QED  BY <2>5, <2>6
  <1> QED  BY <1>4, <1>5 DEF SessionSees

-----------------------------------------------------------------------------
(* Every step keeps the invariant *)

\* A step of a call, with what the session makes of it.
LEMMA CallKeeps ==
  ASSUME ModelInv, NEW c \in Call, CallStep(c)
  PROVE  ModelInv'
  <1>1. Types /\ CallTypes /\ CallsAreSound /\ CallIsSound(c) /\ SlotsAreHeld /\ CountsAreRight
        /\ SummaryIsFinal /\ GapsAreKnown
    BY DEF ModelInv, Types, CallTypeOK, CallTypes, CallsAreSound
  <1>2. CallAct(c) /\ SessionSees(c)
    BY <1>1, SessionStep
  <1>3. CallTypes' /\ CallIsSound(c)' /\ OthersStay(c) /\ SlotMoves(c)
    BY <1>1, <1>2, CallStepIsSound DEF CallGoal
  <1>4. SlotsAreHeld' /\ slots' \in 0 .. MaxSlots
    BY <1>1, <1>3, SlotsStep
  <1>5. CountsAreRight' /\ calls' \in Nat /\ unknown' \in Nat /\ tokens' \in Nat
    BY <1>1, <1>2, <1>3, CountsStep
  <1>6. CallsAreSound'
    <2>1. ASSUME NEW d \in Call \ {c}  PROVE CallIsSound(d)'
      BY <1>1, <1>3 DEF CallsAreSound, OthersStay, CallIsSound, ChargeIsRight, EndIsRight,
         ResourcesAreKnown
    <2> QED  BY <1>3, <2>1 DEF CallsAreSound
  <1>7. dropped' \in Nat /\ lost' \in Nat /\ pending' \in 0 .. MaxRecords
        /\ lost' <= dropped' + delivery_failures' + (IF cut' THEN 1 ELSE 0)
    <2>1. delivery_failures' = delivery_failures /\ cut' = cut
      BY <1>2 DEF SessionSees
    <2>2. CASE UNCHANGED <<pending, dropped, lost>>
      BY <1>1, <2>1, <2>2 DEF Types, GapsAreKnown
    <2>3. CASE Queued
      BY <1>1, <2>1, <2>3 DEF Types, GapsAreKnown, Queued
    <2> QED  BY <1>2, <2>2, <2>3 DEF SessionSees
  <1>8. Types'
    BY <1>1, <1>2, <1>3, <1>4, <1>5, <1>7 DEF Types, CallTypes, CallTypeOK, SessionSees
  <1>9. GapsAreKnown'
    BY <1>1, <1>2, <1>7 DEF GapsAreKnown, SessionSees
  <1>10. SummaryIsFinal'
    <2>1. CASE scope = "open"
      BY <1>1, <1>2, <2>1 DEF SummaryIsFinal, SessionSees
    <2>2. CASE scope # "open"
      <3>1. /\ c \notin Role
            /\ UNCHANGED <<scope, calls, unknown, tokens, dropped, delivery_failures, summary>>
        BY <1>2, <2>2 DEF SessionSees, MetCounted
      <3>2. RolesOver => RolesOver'
        BY <1>3, <3>1 DEF RolesOver, Role, OthersStay
      <3> QED  BY <1>1, <3>1, <3>2 DEF SummaryIsFinal
    <2> QED  BY <2>1, <2>2
  <1> QED  BY <1>4, <1>5, <1>6, <1>8, <1>9, <1>10 DEF ModelInv

\* A step of the session alone keeps what the calls and the counters have to do with
\* each other.
LEMMA CallsUntouched ==
  ASSUME ModelInv, UNCHANGED callVars, UNCHANGED <<calls, unknown, tokens>>
  PROVE  /\ CallsAreSound' /\ SlotsAreHeld' /\ CountsAreRight' /\ CallTypeOK'
         /\ text' \in [Call -> Text] /\ snapshot' \in [Call -> Text]
         /\ calls' \in Nat /\ unknown' \in Nat /\ tokens' \in Nat
         /\ RolesOver' = RolesOver
  <1>1. UNCHANGED <<kind, pc, attempt, charge, used, report, resources, slots, text, snapshot,
                    result>>
    BY DEF callVars
  <1>2. CallsAreSound'
    BY <1>1 DEF ModelInv, CallsAreSound, CallIsSound, ChargeIsRight, EndIsRight, ResourcesAreKnown
  <1>3. SlotsAreHeld'
    BY <1>1 DEF ModelInv, SlotsAreHeld, Holding
  <1>4. Met' = Met /\ MetKnown' = MetKnown
    BY <1>1 DEF Met, MetKnown, Role
  <1>5. TokensOf(MetKnown)' = TokensOf(MetKnown)
    BY <1>1, <1>4 DEF TokensOf
  <1>6. CountsAreRight'
    BY <1>4, <1>5 DEF ModelInv, CountsAreRight
  <1>7. CallTypeOK' /\ text' \in [Call -> Text] /\ snapshot' \in [Call -> Text]
    BY <1>1 DEF ModelInv, Types, CallTypeOK
  <1>8. RolesOver' = RolesOver
    BY <1>1 DEF RolesOver, Role
  <1> QED  BY <1>2, <1>3, <1>6, <1>7, <1>8 DEF ModelInv, Types

\* The publisher, the clock and the end of the scope.
LEMMA SessionKeeps ==
  ASSUME ModelInv, ~ \E c \in Call : CallStep(c), Next
  PROVE  ModelInv'
  <1>0. Types /\ SummaryIsFinal /\ GapsAreKnown /\ MaxRecords \in Nat
    BY DiagnosticsAssumption DEF ModelInv
  <1> USE DEF Publishes
  <1>1. ASSUME UNCHANGED callVars, UNCHANGED <<calls, unknown, tokens>>,
               scope' \in {"none", "open", "joining", "reaped", "closed", "aborted"},
               pending' \in 0 .. MaxRecords, publishing' \in BOOLEAN, cut' \in BOOLEAN,
               dropped' \in Nat, delivery_failures' \in Nat, lost' \in Nat,
               SummaryIsFinal', GapsAreKnown'
        PROVE  ModelInv'
    BY <1>1, CallsUntouched DEF ModelInv, Types
  <1>2. ASSUME UNCHANGED callVars, UNCHANGED <<calls, unknown, tokens>>
        PROVE  RolesOver' = RolesOver
    BY <1>2, CallsUntouched
  <1>3. CASE Take
    <2>1. /\ scope \in {"open", "joining"} /\ pending > 0 /\ pending' = pending - 1
          /\ UNCHANGED <<callVars, scope, dropped, cut, calls, unknown, tokens, summary>>
          /\ \/ delivery_failures' = delivery_failures + 1 /\ lost' = lost + 1 /\ publishing' = publishing
             \/ publishing' = TRUE /\ UNCHANGED <<delivery_failures, lost>>
      BY <1>3 DEF Take
    <2>2. SummaryIsFinal' /\ GapsAreKnown'
      BY <1>0, <1>2, <2>1 DEF SummaryIsFinal, GapsAreKnown, Types
    <2>3. pending' \in 0 .. MaxRecords /\ dropped' \in Nat /\ delivery_failures' \in Nat
          /\ lost' \in Nat
      BY <1>0, <2>1 DEF Types
    <2>4. publishing' \in BOOLEAN /\ cut' \in BOOLEAN
      BY <1>0, <2>1 DEF Types
    <2>5. scope' \in {"none", "open", "joining", "reaped", "closed", "aborted"}
      BY <1>0, <2>1 DEF Types
    <2> QED  BY <1>1, <2>1, <2>2, <2>3, <2>4, <2>5
  <1>4. ASSUME NEW succeeds \in BOOLEAN, Deliver(succeeds)  PROVE ModelInv'
    <2>1. /\ scope \in {"open", "joining"} /\ publishing' = FALSE
          /\ UNCHANGED <<callVars, scope, pending, dropped, cut, calls, unknown, tokens, summary>>
          /\ \E k \in 0 .. 1 : delivery_failures' = delivery_failures + k /\ lost' = lost + k
      BY <1>4 DEF Deliver
    <2>2. SummaryIsFinal' /\ GapsAreKnown'
      BY <1>0, <1>2, <2>1 DEF SummaryIsFinal, GapsAreKnown, Types
    <2>3. pending' \in 0 .. MaxRecords /\ dropped' \in Nat /\ delivery_failures' \in Nat
          /\ lost' \in Nat
      BY <1>0, <2>1 DEF Types
    <2>4. publishing' \in BOOLEAN /\ cut' \in BOOLEAN
      BY <1>0, <2>1 DEF Types
    <2>5. scope' \in {"none", "open", "joining", "reaped", "closed", "aborted"}
      BY <1>0, <2>1 DEF Types
    <2> QED  BY <1>1, <2>1, <2>2, <2>3, <2>4, <2>5
  <1>5. CASE Cancel \/ Expire
    <2>1. UNCHANGED <<callVars, scope, pending, publishing, dropped, delivery_failures, lost, cut,
                      calls, unknown, tokens, summary>>
      BY <1>5 DEF Cancel, Expire
    <2>2. SummaryIsFinal' /\ GapsAreKnown'
      BY <1>0, <1>2, <2>1 DEF SummaryIsFinal, GapsAreKnown
    <2> QED  BY <1>0, <1>1, <2>1, <2>2 DEF Types
  <1>6. ASSUME NEW ending \in Ending, JoinStarts(ending)  PROVE ModelInv'
    <2>1. /\ scope = "open" /\ scope' = "joining" /\ RolesOver
          /\ UNCHANGED <<callVars, pending, publishing, dropped, delivery_failures, lost, cut,
                         calls, unknown, tokens, summary>>
      BY <1>6 DEF JoinStarts
    <2>2. SummaryIsFinal' /\ GapsAreKnown'
      BY <1>0, <1>2, <2>1 DEF SummaryIsFinal, GapsAreKnown
    <2> QED  BY <1>0, <1>1, <2>1, <2>2 DEF Types
  <1>7. ASSUME NEW where \in {"reaped", "aborted"}, NEW failures \in 0 .. 1, Reap(where, failures),
               scope \in {"open", "joining"}, RolesOver
        PROVE  ModelInv'
    <2>1. /\ scope' = where /\ dropped' = dropped + pending
          /\ delivery_failures' = delivery_failures + failures
          /\ lost' = lost + pending + (IF publishing THEN 1 ELSE 0) /\ cut' = publishing
          /\ pending' = 0 /\ publishing' = FALSE
          /\ UNCHANGED <<callVars, calls, unknown, tokens, summary>>
      BY <1>7 DEF Reap, LeftInQueue
    <2>2. ~cut /\ lost <= dropped + delivery_failures
      BY <1>0, <1>7 DEF GapsAreKnown, Types
    <2>3. GapsAreKnown'
      BY <1>0, <1>7, <2>1, <2>2 DEF GapsAreKnown, Types
    <2>4. SummaryIsFinal'
      BY <1>0, <1>2, <1>7, <2>1 DEF SummaryIsFinal
    <2>5. pending' \in 0 .. MaxRecords /\ dropped' \in Nat /\ delivery_failures' \in Nat
          /\ lost' \in Nat
      BY <1>0, <1>7, <2>1 DEF Types
    <2>6. publishing' \in BOOLEAN /\ cut' \in BOOLEAN
      BY <1>0, <2>1 DEF Types
    <2>7. scope' \in {"none", "open", "joining", "reaped", "closed", "aborted"}
      BY <1>7, <2>1
    <2> QED  BY <1>1, <2>1, <2>3, <2>4, <2>5, <2>6, <2>7
  <1>8. CASE Joined \/ JoinTimesOut \/ JoinCancelled
             \/ \E ending \in Ending : LeavesAtOnce(ending)
    <2>1. scope \in {"open", "joining"} /\ RolesOver
      BY <1>0, <1>8 DEF Joined, JoinTimesOut, JoinCancelled, LeavesAtOnce, SummaryIsFinal
    <2>2. \E where \in {"reaped", "aborted"}, failures \in 0 .. 1 : Reap(where, failures)
      BY <1>8 DEF Joined, JoinTimesOut, JoinCancelled, LeavesAtOnce
    <2> QED  BY <1>7, <2>1, <2>2
  <1>9. CASE Summarise
    <2>1. /\ scope = "reaped" /\ scope' = "closed"
          /\ summary' = [status |-> status, calls |-> calls, unknown |-> unknown, tokens |-> tokens,
                         dropped |-> dropped, failures |-> delivery_failures]
          /\ UNCHANGED <<callVars, pending, publishing, dropped, delivery_failures, lost, cut,
                         calls, unknown, tokens>>
      BY <1>9 DEF Summarise
    <2>2. SummaryIsFinal' /\ GapsAreKnown'
      BY <1>0, <1>2, <2>1 DEF SummaryIsFinal, GapsAreKnown
    <2> QED  BY <1>0, <1>1, <2>1, <2>2 DEF Types
  <1> QED  BY <1>3, <1>4, <1>5, <1>6, <1>8, <1>9 DEF Next

\* A step that changes nothing.
LEMMA StutterKeeps ==
  ASSUME ModelInv, UNCHANGED vars
  PROVE  ModelInv'
  <1>1. /\ UNCHANGED callVars
        /\ UNCHANGED <<scope, pending, publishing, dropped, delivery_failures, lost, cut, calls,
                       unknown, tokens, summary>>
    BY DEF vars, sessionVars
  <1>2. CallsAreSound' /\ SlotsAreHeld' /\ CountsAreRight' /\ CallTypeOK' /\ RolesOver' = RolesOver
        /\ text' \in [Call -> Text] /\ snapshot' \in [Call -> Text]
    BY <1>1, CallsUntouched
  <1>3. Types'
    BY <1>1, <1>2 DEF ModelInv, Types
  <1>4. SummaryIsFinal' /\ GapsAreKnown'
    BY <1>1, <1>2 DEF ModelInv, SummaryIsFinal, GapsAreKnown
  <1> QED  BY <1>2, <1>3, <1>4 DEF ModelInv

\* No call is made, and nothing is counted, at first.
LEMMA Initially ==
  ASSUME Init
  PROVE  ModelInv
  <1>1. PICK k \in {"dag", "conversation"} : kind = [c \in Call |-> k]
    BY DEF Init, CallInit
  <1>2. CallTypeOK
    BY <1>1, ModelCallAssumption DEF Init, CallInit, CallTypeOK
  <1>3. Types
    <2>1. <<>> \in Text
      BY DEF Text
    <2>2. text \in [Call -> Text] /\ snapshot \in [Call -> Text]
      BY <2>1 DEF Init, CallInit
    <2>3. scope \in {"none", "open", "joining", "reaped", "closed", "aborted"}
      BY DEF Init
    <2>4. publishing \in BOOLEAN /\ cut \in BOOLEAN
      BY DEF Init
    <2>5. /\ pending \in 0 .. MaxRecords /\ dropped \in Nat /\ delivery_failures \in Nat
          /\ lost \in Nat /\ calls \in Nat /\ unknown \in Nat /\ tokens \in Nat
      BY DiagnosticsAssumption DEF Init
    <2> QED  BY <1>2, <2>2, <2>3, <2>4, <2>5 DEF Types
  <1>4. CallsAreSound
    BY ModelCallAssumption DEF Init, CallInit, Operation, CallsAreSound, CallIsSound, ChargeIsRight,
       EndIsRight, ResourcesAreKnown, Closing
  <1>5. SlotsAreHeld
    <2>1. Holding = {}
      BY DEF Init, CallInit, Holding
    <2> QED  BY <2>1, FS_EmptySet, ModelCallAssumption DEF Init, CallInit, SlotsAreHeld
  <1>6. CountsAreRight
    <2>1. Met = {} /\ MetKnown = {}
      BY DEF Init, CallInit, Met, MetKnown, Role
    <2>2. TokensOf(MetKnown) = {}
      BY <2>1 DEF TokensOf
    <2> QED  BY <2>1, <2>2, FS_EmptySet DEF Init, CountsAreRight
  <1>7. SummaryIsFinal /\ GapsAreKnown
    BY DEF Init, SummaryIsFinal, GapsAreKnown
  <1> QED  BY <1>3, <1>4, <1>5, <1>6, <1>7 DEF ModelInv

-----------------------------------------------------------------------------
(* The theorems *)

\* ModelInv is an invariant of the model calls and the session that observes them.
THEOREM ModelInvariant == Spec => []ModelInv
  <1>1. Init => ModelInv
    BY Initially
  <1>2. ModelInv /\ [Next]_vars => ModelInv'
    BY CallKeeps, SessionKeeps, StutterKeeps DEF Next
  <1> QED  BY <1>1, <1>2, PTL DEF Spec

\* The tenant is charged once for each call that reached the provider, for any number of
\* retried and lost RPCs: what was used if the response was settled, else the reservation.
THEOREM ChargedOnce == Spec => []ChargesAreRight
  <1>1. ModelInv => ChargesAreRight
    <2> SUFFICES ASSUME ModelInv, NEW c \in Call
                 PROVE  /\ used[c] > 0 => \/ Total(c) = Reserved
                                          \/ report[c] = "known" /\ Total(c) = used[c]
                        /\ result[c] = "done" /\ report[c] = "known" => Total(c) = used[c]
      BY DEF ChargesAreRight
    <2>1. ChargeIsRight(c) /\ EndIsRight(c)
      BY DEF ModelInv, CallsAreSound, CallIsSound
    <2>2. charge[<<c, 0>>] \in Nat /\ Total(c) = charge[<<c, 0>>]
      <3>1. <<c, 0>> \in Operation
        BY DEF Operation
      <3>2. charge[<<c, 0>>] \in Nat
        BY <3>1, Positive DEF ModelInv, Types, CallTypeOK
      <3> QED  BY <2>1, <3>2 DEF ChargeIsRight, Total
    <2> QED  BY <2>1, <2>2 DEF ChargeIsRight, EndIsRight
  <1> QED  BY <1>1, ModelInvariant, PTL

\* Every closer of a stream has run when its call is over, and no more streams are open
\* than there are slots.
THEOREM StreamsClose == Spec => []StreamsAreClosed
  <1>1. ModelInv => StreamsAreClosed
    <2> SUFFICES ASSUME ModelInv  PROVE StreamsAreClosed
      OBVIOUS
    <2> DEFINE Open == {c \in Call : resources[c] # {}}
    <2>1. \A c \in Call : pc[c] = "over" => resources[c] = {}
      BY DEF ModelInv, CallsAreSound, CallIsSound, ResourcesAreKnown
    <2>2. Open \in SUBSET Holding
      BY DEF ModelInv, CallsAreSound, CallIsSound, ResourcesAreKnown, Holding, Types, CallTypeOK
    <2>3. IsFiniteSet(Holding)
      <3>1. Holding \in SUBSET Call
        BY DEF Holding
      <3> QED  BY <3>1, FS_Subset, ModelCallAssumption
    <2>4. Cardinality(Open) <= Cardinality(Holding) /\ IsFiniteSet(Open)
      BY <2>2, <2>3, FS_Subset
    <2>5. Cardinality(Open) \in Nat /\ Cardinality(Holding) \in Nat
      BY <2>3, <2>4, FS_CardinalityType
    <2>6. slots \in Nat /\ MaxSlots \in Nat /\ slots + Cardinality(Holding) = MaxSlots
      BY ModelCallAssumption DEF ModelInv, Types, CallTypeOK, SlotsAreHeld
    <2>7. Cardinality(Open) <= MaxSlots - slots
      BY <2>4, <2>5, <2>6
    <2> QED  BY <2>1, <2>7 DEF StreamsAreClosed
  <1> QED  BY <1>1, ModelInvariant, PTL

\* A conversation that ends well has sent its client the provider's text, whole and once,
\* for texts of any length.
THEOREM ConversationsAreWhole == Spec => []ConversationIsWhole
  <1>1. ModelInv => ConversationIsWhole
    BY DEF ModelInv, CallsAreSound, CallIsSound, EndIsRight, ConversationIsWhole
  <1> QED  BY <1>1, ModelInvariant, PTL

\* The summary of a DAG run counts every call that reached the provider, adds up the
\* usage that is certain and says of how many calls it is not.
THEOREM SummariesAreHonest == Spec => []SummaryIsHonest
  <1>1. ModelInv => SummaryIsHonest
    <2> SUFFICES ASSUME ModelInv, summary # <<>>
                 PROVE  /\ summary.calls = Cardinality(Called)
                        /\ summary.tokens = Cardinality(TokensOf(Known))
                        /\ summary.unknown = Cardinality(Called \ Known)
      BY DEF SummaryIsHonest
    <2>1. RolesOver /\ summary.calls = calls /\ summary.unknown = unknown /\ summary.tokens = tokens
      BY DEF ModelInv, SummaryIsFinal
    <2>2. Met = Called /\ MetKnown = Known
      BY <2>1 DEF RolesOver, Met, MetKnown, Called, Known
    <2> QED  BY <2>1, <2>2 DEF ModelInv, CountsAreRight
  <1> QED  BY <1>1, ModelInvariant, PTL

\* No record is missing in the event stream that the summary does not count, for queues
\* of any length, but for one delivery that was cut off.
THEOREM GapsAreReported == Spec => []GapsAreCounted
  <1>1. ModelInv => GapsAreCounted
    BY DEF ModelInv, SummaryIsFinal, GapsAreKnown, GapsAreCounted
  <1> QED  BY <1>1, ModelInvariant, PTL

-----------------------------------------------------------------------------
(* The critical path *)

IsSum(f, p, ms, n) == f = [i \in 0 .. n |-> IF i = 0 THEN 0 ELSE f[i - 1] + ms[p[i]]]

\* There is such a function, for every path.
LEMMA SumExists ==
  ASSUME NEW p, NEW ms, NEW n \in Nat
  PROVE  \E f : IsSum(f, p, ms, n)
  <1> DEFINE N == {k \in Nat : \E f : IsSum(f, p, ms, k)}
  <1>1. 0 \in N
    <2> DEFINE f == [i \in 0 .. 0 |-> 0]
    <2>1. IsSum(f, p, ms, 0)
      BY DEF IsSum
    <2> QED  BY <2>1
  <1>2. ASSUME NEW k \in Nat, k \in N  PROVE k + 1 \in N
    <2>1. PICK f : IsSum(f, p, ms, k)
      BY <1>2
    <2> DEFINE g == [i \in 0 .. k + 1 |-> IF i \in 0 .. k THEN f[i] ELSE f[k] + ms[p[k + 1]]]
               h == [i \in 0 .. k + 1 |-> IF i = 0 THEN 0 ELSE g[i - 1] + ms[p[i]]]
    <2>2. ASSUME NEW i \in 0 .. k + 1  PROVE g[i] = h[i]
      <3>1. CASE i = 0
        BY <3>1, <2>1 DEF IsSum
      <3>2. CASE i \in 1 .. k
        <4>1. i \in 0 .. k /\ i # 0 /\ i - 1 \in 0 .. k /\ i - 1 \in 0 .. k + 1
          BY <3>2
        <4>2. f[i] = f[i - 1] + ms[p[i]]
          BY <4>1, <2>1 DEF IsSum
        <4> QED  BY <4>1, <4>2
      <3>3. CASE i = k + 1
        <4>1. i \notin 0 .. k /\ i # 0 /\ i - 1 = k /\ k \in 0 .. k /\ k \in 0 .. k + 1
          BY <3>3
        <4> QED  BY <4>1, <3>3
      <3> QED  BY <3>1, <3>2, <3>3
    <2>3. IsSum(g, p, ms, k + 1)
      <3>1. g = h
        BY <2>2
      <3> QED  BY <3>1 DEF IsSum
    <2> QED  BY <2>3
  <1> HIDE DEF N
  <1>3. Nat \subseteq N
    BY <1>1, <1>2, SetInduction
  <1> QED  BY <1>3 DEF N

\* Duration is its last value.
LEMMA DurationIsSum ==
  ASSUME NEW X, NEW ms, NEW p \in Seq(X)
  PROVE  \E f : IsSum(f, p, ms, Len(p)) /\ Duration(p, ms) = f[Len(p)]
  <1> DEFINE g == CHOOSE f : IsSum(f, p, ms, Len(p))
  <1>1. IsSum(g, p, ms, Len(p))
    <2>1. Len(p) \in Nat
      OBVIOUS
    <2>2. \E f : IsSum(f, p, ms, Len(p))
      BY <2>1, SumExists
    <2> QED  BY <2>2
  <1>2. Duration(p, ms) = g[Len(p)]
    BY DEF Duration, IsSum
  <1> QED  BY <1>1, <1>2

\* An empty path takes no time.
LEMMA DurationOfNone == \A ms : Duration(<<>>, ms) = 0
  <1> TAKE ms
  <1>1. <<>> \in Seq({}) /\ Len(<<>>) = 0
    OBVIOUS
  <1>2. PICK f : IsSum(f, <<>>, ms, 0) /\ Duration(<<>>, ms) = f[0]
    BY <1>1, DurationIsSum
  <1> QED  BY <1>2 DEF IsSum

\* One node more takes its own time more.
LEMMA DurationOfAppend ==
  ASSUME NEW X, NEW ms, NEW p \in Seq(X), NEW e \in X
  PROVE  Duration(Append(p, e), ms) = Duration(p, ms) + ms[e]
  <1> DEFINE t == Append(p, e)
             n == Len(p)
  <1>1. t \in Seq(X) /\ Len(t) = n + 1 /\ n \in Nat /\ t[n + 1] = e /\ \A i \in 1 .. n : t[i] = p[i]
    OBVIOUS
  <1> HIDE DEF t
  <1>2. PICK f : IsSum(f, p, ms, n) /\ Duration(p, ms) = f[n]
    BY DurationIsSum
  <1>3. PICK g : IsSum(g, t, ms, n + 1) /\ Duration(t, ms) = g[n + 1]
    BY <1>1, DurationIsSum
  <1> HIDE DEF n
  <1> DEFINE N == {k \in Nat : k <= n => f[k] = g[k]}
  <1>4. 0 \in N
    BY <1>1, <1>2, <1>3 DEF IsSum
  <1>5. ASSUME NEW k \in Nat, k \in N  PROVE k + 1 \in N
    <2> SUFFICES ASSUME k + 1 <= n  PROVE f[k + 1] = g[k + 1]
      OBVIOUS
    <2>1. k + 1 \in 0 .. n /\ k + 1 \in 0 .. n + 1 /\ k + 1 # 0 /\ (k + 1) - 1 = k /\ k + 1 \in 1 .. n
      BY <1>1
    <2>2. f[k + 1] = f[k] + ms[p[k + 1]]
      BY <2>1, <1>2 DEF IsSum
    <2>3. g[k + 1] = g[k] + ms[t[k + 1]]
      BY <2>1, <1>3 DEF IsSum
    <2>4. f[k] = g[k]
      BY <1>5, <2>1, <1>1
    <2> QED  BY <2>1, <2>2, <2>3, <2>4, <1>1
  <1> HIDE DEF N
  <1>6. Nat \subseteq N
    BY <1>4, <1>5, SetInduction
  <1>7. f[n] = g[n]
    BY <1>1, <1>6 DEF N
  <1>8. g[n + 1] = g[n] + ms[t[n + 1]]
    <2>1. n + 1 \in 0 .. n + 1 /\ n + 1 # 0 /\ (n + 1) - 1 = n
      BY <1>1
    <2> QED  BY <2>1, <1>3 DEF IsSum
  <1> QED  BY <1>1, <1>2, <1>3, <1>7, <1>8 DEF t

\* A graph whose nodes are numbered in a topological order.
Graph(n) ==
  {d \in [1 .. n -> SUBSET (1 .. n)] : \A k \in 1 .. n : d[k] \subseteq 1 .. k - 1}

Found == [ms : Nat, nodes : Seq(Nat)]

\* The step of the recursion in critical_path.
PathTo(f, k, ms, dependencies) ==
  LET base == Longest([j \in 1 .. k - 1 |-> f[j]], dependencies[k])
  IN [ms |-> base.ms + ms[k], nodes |-> Append(base.nodes, k)]

ArePaths(f, ms, dependencies, n) == f = [k \in 1 .. n |-> PathTo(f, k, ms, dependencies)]

\* The recursion of critical_path has a result, for every number of nodes.
LEMMA PathsExist ==
  ASSUME NEW ms, NEW dependencies, NEW n \in Nat
  PROVE  \E f : ArePaths(f, ms, dependencies, n)
  <1> DEFINE N == {m \in Nat : \E f : ArePaths(f, ms, dependencies, m)}
  <1>1. 0 \in N
    <2> DEFINE f == [k \in 1 .. 0 |-> 0]
    <2>1. 1 .. 0 = {}
      OBVIOUS
    <2>2. ArePaths(f, ms, dependencies, 0)
      BY <2>1 DEF ArePaths
    <2> QED  BY <2>2
  <1>2. ASSUME NEW m \in Nat, m \in N  PROVE m + 1 \in N
    <2>1. PICK f : ArePaths(f, ms, dependencies, m)
      BY <1>2
    <2> DEFINE g == [k \in 1 .. m + 1 |-> IF k \in 1 .. m THEN f[k] ELSE PathTo(f, m + 1, ms, dependencies)]
               h == [k \in 1 .. m + 1 |-> PathTo(g, k, ms, dependencies)]
    <2>2. ASSUME NEW k \in 1 .. m + 1  PROVE PathTo(g, k, ms, dependencies) = PathTo(f, k, ms, dependencies)
      <3>1. \A j \in 1 .. k - 1 : g[j] = f[j]
        OBVIOUS
      <3>2. [j \in 1 .. k - 1 |-> g[j]] = [j \in 1 .. k - 1 |-> f[j]]
        BY <3>1
      <3> HIDE DEF g
      <3> QED  BY <3>2 DEF PathTo
    <2>3. ASSUME NEW k \in 1 .. m + 1  PROVE g[k] = h[k]
      <3>1. CASE k \in 1 .. m
        <4>1. f[k] = PathTo(f, k, ms, dependencies)
          BY <2>1, <3>1 DEF ArePaths
        <4>2. g[k] = f[k]
          BY <3>1
        <4>3. h[k] = PathTo(g, k, ms, dependencies)
          OBVIOUS
        <4> QED  BY <2>2, <4>1, <4>2, <4>3
      <3>2. CASE k = m + 1
        <4>1. g[k] = PathTo(f, k, ms, dependencies)
          BY <3>2
        <4>2. h[k] = PathTo(g, k, ms, dependencies)
          OBVIOUS
        <4> QED  BY <2>2, <4>1, <4>2
      <3> QED  BY <3>1, <3>2
    <2>4. ArePaths(g, ms, dependencies, m + 1)
      <3>1. g = h
        BY <2>3
      <3> QED  BY <3>1 DEF ArePaths
    <2> QED  BY <2>4
  <1> HIDE DEF N
  <1>3. Nat \subseteq N
    BY <1>1, <1>2, SetInduction
  <1> QED  BY <1>3 DEF N

\* Longest returns one of the paths, and none is longer.
LEMMA LongestIs ==
  ASSUME NEW n \in Nat, NEW f \in [1 .. n -> Found], NEW N \in SUBSET (1 .. n)
  PROVE  /\ N = {} => Longest(f, N) = [ms |-> 0, nodes |-> <<>>]
         /\ N # {} => \E i \in N : Longest(f, N) = f[i] /\ \A k \in N : f[k].ms <= f[i].ms
  <1>1. N = {} => Longest(f, N) = [ms |-> 0, nodes |-> <<>>]
    BY DEF Longest
  <1>2. ASSUME N # {}  PROVE \E i \in N : Longest(f, N) = f[i] /\ \A k \in N : f[k].ms <= f[i].ms
    <2> DEFINE g == [k \in N |-> f[k].ms]
               Best(i) == /\ \A k \in N : f[k].ms <= f[i].ms
                          /\ \A k \in N : f[k].ms = f[i].ms => i <= k
               most == {i \in N : \A k \in N : f[k].ms <= f[i].ms}
    <2>1. \A k \in N : f[k].ms \in Nat
      BY DEF Found
    <2>2. g \in [N -> Nat] /\ \A k \in N : g[k] = f[k].ms
      BY <2>1
    <2> HIDE DEF g
    <2>3. \E i \in N : \A k \in N : g[k] <= g[i]
      <3>1. N # {} /\ N \in SUBSET (1 .. n) /\ g \in [N -> Nat]
        BY <1>2, <2>2
      <3> QED  BY <3>1, GreatestExists
    <2>4. most # {} /\ most \subseteq Nat
      <3>1. \E i \in N : \A k \in N : f[k].ms <= f[i].ms
        BY <2>2, <2>3
      <3>2. N \subseteq Nat
        OBVIOUS
      <3> QED  BY <3>1, <3>2
    <2> HIDE DEF most
    <2>5. PICK i \in most : \A j \in most : i <= j
      BY <2>4, LeastExists
    <2>6. i \in N /\ Best(i)
      <3>1. ASSUME NEW k \in N, f[k].ms = f[i].ms  PROVE i <= k
        <4>1. k \in most
          BY <2>5, <3>1 DEF most
        <4> QED  BY <2>5, <4>1
      <3> QED  BY <2>5, <3>1 DEF most
    <2> DEFINE best == CHOOSE b \in N : Best(b)
    <2>7. best \in N /\ Best(best)
      BY <2>6
    <2>8. Longest(f, N) = f[best]
      BY <1>2 DEF Longest
    <2> HIDE DEF best
    <2> QED  BY <2>7, <2>8
  <1> QED  BY <1>1, <1>2

\* A path is extended by a node that needs its last one.
LEMMA PathAppend ==
  ASSUME NEW d, NEW p, IsPath(p, d), NEW k \in DOMAIN d, p # <<>> => p[Len(p)] \in d[k]
  PROVE  IsPath(Append(p, k), d)
  <1> DEFINE t == Append(p, k)
  <1>1. p \in Seq(DOMAIN d) /\ \A i \in 2 .. Len(p) : p[i - 1] \in d[p[i]]
    BY DEF IsPath
  <1>2. t \in Seq(DOMAIN d) /\ Len(t) = Len(p) + 1 /\ Len(p) \in Nat /\ t[Len(p) + 1] = k
        /\ \A i \in 1 .. Len(p) : t[i] = p[i]
    BY <1>1
  <1> HIDE DEF t
  <1>3. ASSUME NEW i \in 2 .. Len(t)  PROVE t[i - 1] \in d[t[i]]
    <2>1. CASE i \in 2 .. Len(p)
      <3>1. i \in 1 .. Len(p) /\ i - 1 \in 1 .. Len(p)
        BY <1>2, <2>1
      <3> QED  BY <1>1, <1>2, <2>1, <3>1
    <2>2. CASE i = Len(p) + 1
      <3>1. i - 1 = Len(p) /\ Len(p) \in 1 .. Len(p)
        BY <1>2, <2>2
      <3>2. p # <<>>
        BY <3>1
      <3> QED  BY <1>2, <2>2, <3>1, <3>2
    <2> QED  BY <1>2, <2>1, <2>2
  <1> QED  BY <1>2, <1>3 DEF IsPath, t

\* A path without its last node is a path to a dependency of it.
LEMMA PathFront ==
  ASSUME NEW d, NEW p, IsPath(p, d), p # <<>>
  PROVE  LET q == SubSeq(p, 1, Len(p) - 1)
             k == p[Len(p)]
         IN /\ IsPath(q, d) /\ k \in DOMAIN d /\ p = Append(q, k)
            /\ q # <<>> => q[Len(q)] \in d[k]
  <1> DEFINE q == SubSeq(p, 1, Len(p) - 1)
             k == p[Len(p)]
             m == Len(p) - 1
  <1>1. p \in Seq(DOMAIN d) /\ \A i \in 2 .. Len(p) : p[i - 1] \in d[p[i]]
    BY DEF IsPath
  <1>2. m \in Nat /\ Len(p) = m + 1 /\ k \in DOMAIN d
    BY <1>1
  <1>3. q \in Seq(DOMAIN d) /\ Len(q) = m /\ \A i \in 1 .. m : q[i] = p[i]
    BY <1>1, <1>2
  <1>4. p = Append(q, k)
    BY <1>1, <1>2
  <1> HIDE DEF q, m
  <1>5. ASSUME NEW i \in 2 .. Len(q)  PROVE q[i - 1] \in d[q[i]]
    <2>1. i \in 1 .. m /\ i - 1 \in 1 .. m /\ i \in 2 .. Len(p)
      BY <1>2, <1>3
    <2> QED  BY <1>1, <1>3, <2>1
  <1>6. ASSUME q # <<>>  PROVE q[Len(q)] \in d[k]
    <2>1. m >= 1 /\ Len(p) - 1 = m
      BY <1>2, <1>3, <1>6
    <2>2. m \in 1 .. m /\ Len(p) \in 2 .. Len(p)
      BY <1>2, <2>1
    <2>3. p[m] \in d[k]
      BY <1>1, <2>1, <2>2
    <2> QED  BY <1>3, <2>2, <2>3
  <1>7. IsPath(q, d)
    BY <1>3, <1>5 DEF IsPath
  <1> QED  BY <1>2, <1>4, <1>6, <1>7 DEF q

\* The last element of a sequence that was appended to.
LEMMA LastOfAppend ==
  ASSUME NEW X, NEW s \in Seq(X), NEW e \in X
  PROVE  Append(s, e) \in Seq(X) /\ Append(s, e) # <<>> /\ Append(s, e)[Len(Append(s, e))] = e
  <1>1. Append(s, e) \in Seq(X) /\ Len(Append(s, e)) = Len(s) + 1 /\ Append(s, e)[Len(s) + 1] = e
    OBVIOUS
  <1>2. Append(s, e) # <<>>
    BY AppendProperties
  <1> QED  BY <1>1, <1>2

\* A path takes a natural number of milliseconds.
LEMMA DurationIsNat ==
  ASSUME NEW X, NEW ms, \A x \in X : ms[x] \in Nat, NEW p \in Seq(X)
  PROVE  Duration(p, ms) \in Nat
  <1> DEFINE S == {q \in Seq(X) : Duration(q, ms) \in Nat}
  <1>1. <<>> \in S
    BY DurationOfNone
  <1>2. ASSUME NEW q \in Seq(X), NEW e \in X, q \in S  PROVE Append(q, e) \in S
    <2>1. Duration(Append(q, e), ms) = Duration(q, ms) + ms[e]
      BY DurationOfAppend
    <2>2. Append(q, e) \in Seq(X) /\ Duration(q, ms) \in Nat /\ ms[e] \in Nat
      BY <1>2
    <2> QED  BY <2>1, <2>2
  <1> HIDE DEF S
  <1>3. Seq(X) \subseteq S
    BY <1>1, <1>2, SeqInduction
  <1> QED  BY <1>3 DEF S

\* r is a longest one of the paths that end in k.
IsLongestTo(r, k, ms, d) ==
  /\ r \in Found
  /\ IsPath(r.nodes, d) /\ r.nodes # <<>> /\ r.nodes[Len(r.nodes)] = k /\ r.ms = Duration(r.nodes, ms)
  /\ \A p : IsPath(p, d) /\ p # <<>> /\ p[Len(p)] = k => Duration(p, ms) <= r.ms

\* With the longest paths to the nodes before k, a step of the recursion finds one to k.
LEMMA NextIsLongest ==
  ASSUME NEW n \in Nat, NEW ms \in [1 .. n -> Nat], NEW d \in Graph(n), NEW f,
         NEW k \in 1 .. n, \A j \in 1 .. k - 1 : IsLongestTo(f[j], j, ms, d)
  PROVE  IsLongestTo(PathTo(f, k, ms, d), k, ms, d)
  <1> DEFINE g == [j \in 1 .. k - 1 |-> f[j]]
             base == Longest(g, d[k])
             r == PathTo(f, k, ms, d)
  <1>1. DOMAIN d = 1 .. n /\ d[k] \in SUBSET (1 .. k - 1) /\ k - 1 \in Nat /\ ms[k] \in Nat /\ k \in Nat
    BY DEF Graph
  <1>2. g \in [1 .. k - 1 -> Found] /\ \A j \in 1 .. k - 1 : g[j] = f[j]
    BY DEF IsLongestTo
  <1> HIDE DEF g
  <1>3. /\ d[k] = {} => base = [ms |-> 0, nodes |-> <<>>]
        /\ d[k] # {} => \E i \in d[k] : base = g[i] /\ \A j \in d[k] : g[j].ms <= g[i].ms
    BY <1>1, <1>2, LongestIs
  <1> HIDE DEF base
  <1>4. r = [ms |-> base.ms + ms[k], nodes |-> Append(base.nodes, k)]
    BY DEF PathTo, base, g
  \* The base is a path to a dependency of k, or empty, with its duration.
  <1>5. /\ base.ms \in Nat /\ base.nodes \in Seq(Nat) /\ IsPath(base.nodes, d)
        /\ base.ms = Duration(base.nodes, ms)
        /\ base.nodes # <<>> => base.nodes[Len(base.nodes)] \in d[k]
        /\ \A j \in d[k] : f[j].ms <= base.ms
    <2>1. CASE d[k] = {}
      <3>1. base.ms = 0 /\ base.nodes = <<>>
        BY <1>3, <2>1
      <3>2. IsPath(<<>>, d) /\ <<>> \in Seq(Nat)
        BY DEF IsPath
      <3>3. Duration(<<>>, ms) = 0
        BY DurationOfNone
      <3> QED  BY <2>1, <3>1, <3>2, <3>3
    <2>2. CASE d[k] # {}
      <3>1. PICK i \in d[k] : base = f[i] /\ \A j \in d[k] : f[j].ms <= f[i].ms
        BY <1>1, <1>2, <1>3, <2>2
      <3>2. IsLongestTo(f[i], i, ms, d)
        BY <1>1
      <3> QED  BY <3>1, <3>2 DEF IsLongestTo, Found
    <2> QED  BY <2>1, <2>2
  <1> HIDE DEF r
  <1>6. r.ms = base.ms + ms[k] /\ r.nodes = Append(base.nodes, k)
    BY <1>4
  <1>7. r \in Found /\ r.nodes # <<>> /\ r.nodes[Len(r.nodes)] = k
    <2>1. base.ms + ms[k] \in Nat
      BY <1>1, <1>5
    <2>2. /\ Append(base.nodes, k) \in Seq(Nat) /\ Append(base.nodes, k) # <<>>
          /\ Append(base.nodes, k)[Len(Append(base.nodes, k))] = k
      <3>1. k \in Nat /\ base.nodes \in Seq(Nat)
        BY <1>1, <1>5
      <3> QED  BY <3>1, LastOfAppend
    <2>3. r \in Found
      BY <1>4, <2>1, <2>2 DEF Found
    <2> QED  BY <1>6, <2>2, <2>3
  <1>8. IsPath(r.nodes, d)
    BY <1>1, <1>5, <1>6, PathAppend
  <1>9. r.ms = Duration(r.nodes, ms)
    <2>1. Duration(Append(base.nodes, k), ms) = Duration(base.nodes, ms) + ms[k]
      BY <1>1, <1>5, DurationOfAppend
    <2> QED  BY <1>5, <1>6, <2>1
  <1>10. ASSUME NEW p, IsPath(p, d), p # <<>>, p[Len(p)] = k  PROVE Duration(p, ms) <= r.ms
    <2> DEFINE q == SubSeq(p, 1, Len(p) - 1)
    <2>1. IsPath(q, d) /\ p = Append(q, k) /\ (q # <<>> => q[Len(q)] \in d[k])
      BY <1>10, PathFront
    <2> HIDE DEF q
    <2>2. q \in Seq(DOMAIN d) /\ k \in DOMAIN d
      BY <1>1, <2>1 DEF IsPath
    <2>3. Duration(p, ms) = Duration(q, ms) + ms[k]
      BY <2>1, <2>2, DurationOfAppend
    <2>4. CASE q = <<>>
      <3>1. Duration(q, ms) = 0
        BY <2>4, DurationOfNone
      <3> QED  BY <1>1, <1>5, <1>6, <2>3, <3>1
    <2>5. CASE q # <<>>
      <3> DEFINE j == q[Len(q)]
      <3>1. j \in d[k] /\ j \in 1 .. k - 1
        BY <1>1, <2>1, <2>5
      <3>2. IsLongestTo(f[j], j, ms, d)
        BY <3>1
      <3>3. Duration(q, ms) <= f[j].ms /\ f[j].ms \in Nat
        BY <2>1, <2>5, <3>2 DEF IsLongestTo, Found
      <3>4. f[j].ms <= base.ms
        BY <1>5, <3>1
      <3>5. Duration(q, ms) \in Nat
        <4>1. \A x \in DOMAIN d : ms[x] \in Nat
          BY <1>1
        <4> QED  BY <2>2, <4>1, DurationIsNat
      <3> HIDE DEF j
      <3> QED  BY <1>1, <1>5, <1>6, <2>3, <3>3, <3>4, <3>5
    <2> QED  BY <2>4, <2>5
  <1> QED  BY <1>7, <1>8, <1>9, <1>10 DEF IsLongestTo, r

\* critical_paths reports a dependency path with its duration, and none takes longer, for
\* graphs of any size and any execution times.
THEOREM CriticalPathLongest ==
  ASSUME NEW n \in Nat, NEW ms \in [1 .. n -> Nat], NEW d \in Graph(n)
  PROVE  CriticalPathIsPath(ms, d) /\ \A p : IsPath(p, d) => CriticalPathCovers(ms, d, p)
  <1> DEFINE f == CHOOSE g : ArePaths(g, ms, d, n)
             found == Longest(f, 1 .. n)
  <1>1. ArePaths(f, ms, d, n)
    BY PathsExist
  <1>2. DOMAIN ms = 1 .. n /\ DOMAIN d = 1 .. n
    BY DEF Graph
  <1>3. critical_path(ms, d) = found
    BY <1>2 DEF critical_path, ArePaths, PathTo
  <1> HIDE DEF f
  <1> DEFINE S == {m \in Nat : \A k \in 1 .. n : k <= m => IsLongestTo(f[k], k, ms, d)}
  <1>4. 0 \in S
    OBVIOUS
  <1>5. ASSUME NEW m \in Nat, m \in S  PROVE m + 1 \in S
    <2> SUFFICES ASSUME NEW k \in 1 .. n, k <= m + 1  PROVE IsLongestTo(f[k], k, ms, d)
      OBVIOUS
    <2>1. \A j \in 1 .. k - 1 : IsLongestTo(f[j], j, ms, d)
      BY <1>5
    <2>2. f[k] = PathTo(f, k, ms, d)
      BY <1>1 DEF ArePaths
    <2>3. IsLongestTo(PathTo(f, k, ms, d), k, ms, d)
      BY <2>1, NextIsLongest
    <2> QED  BY <2>2, <2>3
  <1> HIDE DEF S
  <1>6. Nat \subseteq S
    BY <1>4, <1>5, SetInduction
  <1>7. \A k \in 1 .. n : IsLongestTo(f[k], k, ms, d)
    BY <1>6 DEF S
  <1>8. f \in [1 .. n -> Found]
    <2>1. f = [k \in 1 .. n |-> f[k]]
      BY <1>1 DEF ArePaths
    <2>2. \A k \in 1 .. n : f[k] \in Found
      BY <1>7 DEF IsLongestTo
    <2> QED  BY <2>1, <2>2
  <1>9. /\ 1 .. n = {} => found = [ms |-> 0, nodes |-> <<>>]
        /\ 1 .. n # {} => \E i \in 1 .. n : found = f[i] /\ \A k \in 1 .. n : f[k].ms <= f[i].ms
    BY <1>8, LongestIs
  <1> HIDE DEF found
  <1>10. ASSUME NEW p, IsPath(p, d), p # <<>>
         PROVE  \E k \in 1 .. n : Duration(p, ms) <= f[k].ms /\ f[k].ms \in Nat /\ Duration(p, ms) \in Nat
    <2>1. p[Len(p)] \in 1 .. n /\ p \in Seq(1 .. n)
      BY <1>2, <1>10, PathFront DEF IsPath
    <2>2. Duration(p, ms) \in Nat
      BY <2>1, DurationIsNat
    <2>3. Duration(p, ms) <= f[p[Len(p)]].ms /\ f[p[Len(p)]].ms \in Nat
      BY <1>7, <1>10, <2>1 DEF IsLongestTo, Found
    <2> QED  BY <2>1, <2>2, <2>3
  <1>11. Duration(<<>>, ms) = 0
    BY DurationOfNone
  <1>12. CASE 1 .. n = {}
    <2>1. found.ms = 0 /\ found.nodes = <<>>
      BY <1>9, <1>12
    <2>2. IsPath(<<>>, d)
      BY DEF IsPath
    <2>3. \A p : IsPath(p, d) => p = <<>>
      BY <1>10, <1>12
    <2>4. CriticalPathIsPath(ms, d)
      BY <1>3, <1>11, <2>1, <2>2 DEF CriticalPathIsPath
    <2>5. ASSUME NEW p, IsPath(p, d)  PROVE CriticalPathCovers(ms, d, p)
      <3>1. Duration(p, ms) = 0 /\ critical_path(ms, d).ms = 0
        BY <1>3, <1>11, <2>1, <2>3, <2>5
      <3> QED  BY <3>1 DEF CriticalPathCovers
    <2> QED  BY <2>4, <2>5
  <1>13. CASE 1 .. n # {}
    <2>1. PICK i \in 1 .. n : found = f[i] /\ \A k \in 1 .. n : f[k].ms <= f[i].ms
      BY <1>9, <1>13
    <2>2. IsLongestTo(f[i], i, ms, d) /\ f[i].ms \in Nat
      BY <1>7 DEF IsLongestTo, Found
    <2>3. CriticalPathIsPath(ms, d)
      BY <1>3, <2>1, <2>2 DEF CriticalPathIsPath, IsLongestTo
    <2>4. ASSUME NEW p, IsPath(p, d)  PROVE Duration(p, ms) <= f[i].ms
      <3>1. CASE p = <<>>
        BY <1>11, <2>2, <3>1
      <3>2. CASE p # <<>>
        <4>1. PICK k \in 1 .. n : Duration(p, ms) <= f[k].ms /\ f[k].ms \in Nat /\ Duration(p, ms) \in Nat
          BY <1>10, <2>4, <3>2
        <4>2. f[k].ms <= f[i].ms
          BY <2>1
        <4> QED  BY <2>2, <4>1, <4>2
      <3> QED  BY <3>1, <3>2
    <2> QED  BY <1>3, <2>1, <2>3, <2>4 DEF CriticalPathCovers
  <1> QED  BY <1>12, <1>13
=============================================================================

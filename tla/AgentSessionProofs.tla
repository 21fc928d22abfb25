------------------------- MODULE AgentSessionProofs -------------------------
(***************************************************************************)
(* Proofs about AgentSession and ToolConfirmation, for any requests, keys, *)
(* grants, incarnations and tool calls.                                    *)
(*                                                                         *)
(* Confirmation: what a grant has bought is counted while the replay store *)
(* has it, and the store has it until the grant lapses; writes are told    *)
(* apart by their number, so one that was refused is not seen again.       *)
(*                                                                         *)
(* Sessions: the invariant relates what a request has read to what is      *)
(* stored.  As long as the revisions agree nothing but the lease has       *)
(* changed, so the decision that the request took when it read still       *)
(* holds when its compare_and_set succeeds (FencesHold).                   *)
(***************************************************************************)
EXTENDS AgentSession, TLAPS

-----------------------------------------------------------------------------
(* The inductive invariant of confirmation *)

\* A call that waits has a grant, and its number if it has sent its write.
CallsHaveGrants ==
  \A r \in Request :
    /\ call[r] \in {"consume", "posted", "receipt"} => grant[r] \in Grant
    /\ call[r] \in {"posted", "receipt"} => nth[r] <= posted[grant[r]]

\* A valid grant that has bought a write is in the replay store.
GrantsAreSpent ==
  \A g \in Grant : g \in lapsed \/ posted[g] = 0 \/ (posted[g] = 1 /\ g \in used)

\* No write is numbered that has not been sent, and one on its way has made no instance.
WritesAreCounted ==
  /\ \A w \in wire : w[3] <= posted[w[2]] /\ instance[KeyOf[w[2]]] # w
  /\ \A k \in IKey : instance[k] # NoInstance => instance[k][3] <= posted[instance[k][2]]
  /\ \A a \in answered : a[1][3] <= posted[a[1][2]]

ConfirmationInv ==
  /\ ConfirmationTypeOK /\ CallsHaveGrants /\ GrantsAreSpent /\ WritesAreCounted
  /\ RefundAnswersAreTrue

\* A step of confirmation, as the sessions make it.
ConfirmationNext ==
  \/ UNCHANGED confirmationVars
  \/ \E r \in Request, key \in IKey \cup {NoKey}, G \in SUBSET Grant, op \in Op :
       CallDenied(r, key, G, op) \/ CallAllowed(r, key, G, op)
  \/ \E r \in Request : CallGone(r) \/ CallSteps(r)
  \/ Outside

-----------------------------------------------------------------------------
\* What a write is made of.
LEMMA WriteParts ==
  ASSUME NEW w \in Write
  PROVE  w[1] \in Request /\ w[2] \in Grant /\ w[3] \in Nat /\ w = <<w[1], w[2], w[3]>>
  BY DEF Write

\* Every step of confirmation keeps the types.
LEMMA ConfirmationTypeStep ==
  ASSUME ConfirmationTypeOK, CallsHaveGrants, ConfirmationNext
  PROVE  ConfirmationTypeOK'
  <1> USE DEF ConfirmationTypeOK
  <1>1. CASE UNCHANGED confirmationVars
    BY <1>1 DEF confirmationVars
  <1>2. ASSUME NEW r \in Request, NEW key, NEW G \in SUBSET Grant, NEW op,
               CallDenied(r, key, G, op) \/ CallAllowed(r, key, G, op)
        PROVE  ConfirmationTypeOK'
    BY <1>2 DEF CallDenied, CallAllowed, confirmation_for, Result
  <1>3. ASSUME NEW r \in Request, CallGone(r)  PROVE ConfirmationTypeOK'
    BY <1>3 DEF CallGone
  <1>4. ASSUME NEW r \in Request, ConsumeSucceeds(r)  PROVE ConfirmationTypeOK'
    <2>1. grant[r] \in Grant /\ posted[grant[r]] + 1 \in Nat
      BY <1>4 DEF ConsumeSucceeds, CallsHaveGrants
    <2> QED  BY <1>4, <2>1 DEF ConsumeSucceeds, Write
  <1>5. ASSUME NEW r \in Request, ConsumeFails(r) \/ PostUnknown(r)  PROVE ConfirmationTypeOK'
    BY <1>5 DEF ConsumeFails, PostUnknown, Result, CallsHaveGrants
  <1>6. ASSUME NEW r \in Request, ReceiptRead(r)  PROVE ConfirmationTypeOK'
    <2>1. WriteOf(r) \in Write
      BY <1>6 DEF ReceiptRead, CallsHaveGrants, WriteOf, Write
    <2> QED  BY <1>6, <2>1 DEF ReceiptRead, Answer, Result
  <1>7. ASSUME NEW w \in wire, NEW x \in Result, Reply(w, x)
        PROVE  /\ call' \in [Request -> {"none", "consume", "posted", "receipt"} \cup Result]
               /\ answered' \subseteq Write \X Result
    <2>1. w[1] \in Request /\ w \in Write
      BY WriteParts
    <2> QED  BY <1>7, <2>1 DEF Reply, Answer
  <1>8. ASSUME NEW w \in wire, PostArrives(w)  PROVE ConfirmationTypeOK'
    <2>1. w \in Write /\ KeyOf[w[2]] \in IKey
      BY WriteParts, ConfirmationAssumption
    <2>2. \E x \in Result : Reply(w, x)
      BY <1>8 DEF PostArrives, Result
    <2> QED  BY <1>7, <1>8, <2>1, <2>2 DEF PostArrives
  <1>9. ASSUME NEW w \in wire, PostRefused(w) \/ PostLost(w)  PROVE ConfirmationTypeOK'
    BY <1>7, <1>9 DEF PostRefused, PostLost, Result
  <1>10. ASSUME NEW g \in Grant, GrantLapses(g) \/ ReplayEntryExpires(g)
         PROVE  ConfirmationTypeOK'
    BY <1>10 DEF GrantLapses, ReplayEntryExpires
  <1> QED
    BY <1>1, <1>2, <1>3, <1>4, <1>5, <1>6, <1>8, <1>9, <1>10
    DEF ConfirmationNext, CallSteps, Outside

\* What the sending of a write changes.
LEMMA SentStep ==
  ASSUME ConfirmationInv, ConfirmationTypeOK', NEW r \in Request, ConsumeSucceeds(r)
  PROVE  CallsHaveGrants' /\ GrantsAreSpent' /\ WritesAreCounted' /\ RefundAnswersAreTrue'
  <1> DEFINE g == grant[r]
             w == <<r, g, posted[g] + 1>>
  <1>1. /\ g \in Grant /\ g \notin used /\ posted[g] \in Nat /\ call[r] = "consume"
        /\ used' = used \cup {g} /\ wire' = wire \cup {w} /\ posted' = [posted EXCEPT ![g] = @ + 1]
        /\ nth' = [nth EXCEPT ![r] = posted[g] + 1] /\ call' = [call EXCEPT ![r] = "posted"]
        /\ UNCHANGED <<lapsed, grant, instance, answered>>
    BY DEF ConsumeSucceeds, Consumes, ConfirmationInv, ConfirmationTypeOK, CallsHaveGrants
  <1>2. \A h \in Grant : /\ posted[h] \in Nat /\ posted'[h] \in Nat /\ posted[h] <= posted'[h]
                         /\ posted'[h] = IF h = g THEN posted[h] + 1 ELSE posted[h]
    BY <1>1 DEF ConfirmationInv, ConfirmationTypeOK
  <1>3. CallsHaveGrants'
    <2> SUFFICES ASSUME NEW t \in Request
                 PROVE  /\ call'[t] \in {"consume", "posted", "receipt"} => grant'[t] \in Grant
                        /\ call'[t] \in {"posted", "receipt"} => nth'[t] <= posted'[grant'[t]]
      BY DEF CallsHaveGrants
    <2>1. CASE t = r
      BY <1>1, <1>2, <2>1 DEF ConfirmationInv, ConfirmationTypeOK
    <2>2. CASE t # r
      <3>1. call'[t] = call[t] /\ nth'[t] = nth[t] /\ nth[t] \in Nat /\ grant'[t] = grant[t]
        BY <1>1, <2>2 DEF ConfirmationInv, ConfirmationTypeOK
      <3>2. call[t] \in {"consume", "posted", "receipt"} => grant[t] \in Grant
        BY DEF ConfirmationInv, CallsHaveGrants
      <3>3. call[t] \in {"posted", "receipt"} => nth[t] <= posted[grant[t]]
        BY DEF ConfirmationInv, CallsHaveGrants
      <3> QED  BY <1>2, <3>1, <3>2, <3>3
    <2> QED  BY <2>1, <2>2
  <1>4. GrantsAreSpent'
    BY <1>1, <1>2 DEF ConfirmationInv, GrantsAreSpent
  <1>5. \A v \in Write : v[3] <= posted[v[2]] => v # w /\ v[3] <= posted'[v[2]]
    BY <1>1, <1>2, WriteParts
  <1>6. wire \subseteq Write /\ w \in Write /\ KeyOf[g] \in IKey
    BY <1>1, ConfirmationAssumption DEF ConfirmationInv, ConfirmationTypeOK, Write
  <1>7. w[2] = g /\ w[3] = posted[g] + 1
    OBVIOUS
  <1> HIDE DEF w
  <1>8. \A k \in IKey : instance[k] # NoInstance => instance[k] \in Write /\ instance[k] # w
                                                    /\ instance[k][3] <= posted'[instance[k][2]]
    BY <1>5 DEF ConfirmationInv, ConfirmationTypeOK, WritesAreCounted
  <1>9. \A a \in answered : a[1] # w /\ a[1][3] <= posted'[a[1][2]]
    <2>1. \A a \in answered : a[1] \in Write
      BY DEF ConfirmationInv, ConfirmationTypeOK
    <2> QED  BY <1>5, <2>1 DEF ConfirmationInv, WritesAreCounted
  <1>10. NoInstance # w
    BY <1>6, ConfirmationAssumption DEF Write
  <1>11. WritesAreCounted'
    <2>1. \A v \in wire : v[3] <= posted'[v[2]] /\ instance[KeyOf[v[2]]] # v
      BY <1>5, <1>6 DEF ConfirmationInv, WritesAreCounted
    <2>2. w[3] <= posted'[w[2]] /\ instance[KeyOf[w[2]]] # w
      BY <1>1, <1>2, <1>6, <1>7, <1>8, <1>10
    <2> QED  BY <1>1, <1>8, <1>9, <2>1, <2>2 DEF WritesAreCounted
  <1>12. RefundAnswersAreTrue'
    BY <1>1, <1>9 DEF ConfirmationInv, RefundAnswersAreTrue
  <1> QED  BY <1>3, <1>4, <1>11, <1>12

\* What an answer to the agent changes: x is true of the write v of r.
LEMMA AnsweredStep ==
  ASSUME ConfirmationInv, ConfirmationTypeOK', NEW r \in Request, NEW x \in Result,
         call[r] \in {"posted", "receipt"}, Answer(r, x),
         UNCHANGED <<lapsed, used, grant, nth, posted>>,
         wire' \subseteq wire,
         \A k \in IKey : \/ instance'[k] = instance[k]
                         \/ instance[k] = NoInstance /\ instance'[k] \in wire \ wire',
         x = "started" => /\ instance'[KeyOf[grant[r]]] # NoInstance
                          /\ OpOf[instance'[KeyOf[grant[r]]][2]] = OpOf[grant[r]],
         x = "refused" => WriteOf(r) \notin wire' /\ instance'[KeyOf[grant[r]]] # WriteOf(r)
  PROVE  CallsHaveGrants' /\ GrantsAreSpent' /\ RefundAnswersAreTrue'
         /\ \A a \in answered' : a[1][3] <= posted'[a[1][2]]
  <1>1. grant[r] \in Grant /\ nth[r] <= posted[grant[r]]
    BY DEF ConfirmationInv, CallsHaveGrants
  <1>2. WriteOf(r) \in Write /\ WriteOf(r)[2] = grant[r] /\ WriteOf(r)[3] = nth[r]
    BY <1>1 DEF WriteOf, Write, ConfirmationInv, ConfirmationTypeOK
  <1>3. CallsHaveGrants'
    BY DEF Answer, ConfirmationInv, ConfirmationTypeOK, CallsHaveGrants, Result
  <1>4. GrantsAreSpent'
    BY DEF ConfirmationInv, GrantsAreSpent
  <1>5. answered' = answered \cup {<<WriteOf(r), x>>}
    BY DEF Answer
  <1>6. \A a \in answered' : a[1][3] <= posted'[a[1][2]]
    BY <1>1, <1>2, <1>5 DEF ConfirmationInv, WritesAreCounted
  <1>7. ASSUME NEW a \in answered
        PROVE  LET k == KeyOf[a[1][2]] IN
               /\ a[2] = "started" => instance'[k] # NoInstance /\ OpOf[instance'[k][2]] = OpOf[a[1][2]]
               /\ a[2] = "refused" => a[1] \notin wire' /\ instance'[k] # a[1]
    <2>1. a[1] \in Write /\ a[1][2] \in Grant /\ KeyOf[a[1][2]] \in IKey
      BY WriteParts, ConfirmationAssumption DEF ConfirmationInv, ConfirmationTypeOK
    <2> QED  BY <2>1 DEF ConfirmationInv, RefundAnswersAreTrue
  <1>8. RefundAnswersAreTrue'
    BY <1>2, <1>5, <1>7 DEF RefundAnswersAreTrue
  <1> QED  BY <1>3, <1>4, <1>6, <1>8

\* What a write that arrives, is refused or is lost changes, its reply included.
LEMMA ArrivedStep ==
  ASSUME ConfirmationInv, ConfirmationTypeOK', NEW w \in wire,
         PostArrives(w) \/ PostRefused(w) \/ PostLost(w)
  PROVE  CallsHaveGrants' /\ GrantsAreSpent' /\ WritesAreCounted' /\ RefundAnswersAreTrue'
  <1> DEFINE k == KeyOf[w[2]]
  <1>1. /\ w \in Write /\ w[1] \in Request /\ w[2] \in Grant /\ k \in IKey
        /\ w[3] <= posted[w[2]] /\ instance[k] # w /\ w # NoInstance
    BY WriteParts, ConfirmationAssumption
    DEF ConfirmationInv, ConfirmationTypeOK, WritesAreCounted, Write
  <1>2. wire' = wire \ {w} /\ UNCHANGED <<lapsed, used, grant, nth, posted>>
    BY DEF PostArrives, PostRefused, PostLost
  <1>3. /\ \A j \in IKey \ {k} : instance'[j] = instance[j]
        /\ instance'[k] = instance[k] \/ (instance[k] = NoInstance /\ instance'[k] = w)
    BY <1>1 DEF PostArrives, PostRefused, PostLost, ConfirmationInv, ConfirmationTypeOK
  <1>4. \/ UNCHANGED <<call, answered>>
        \/ \E x \in Result :
             /\ call[w[1]] = "posted" /\ WriteOf(w[1]) = w /\ Answer(w[1], x)
             /\ x = "started" => instance'[k] # NoInstance /\ OpOf[instance'[k][2]] = OpOf[w[2]]
             /\ x = "refused" => instance'[k] # w
    <2>1. CASE PostArrives(w)
      <3> DEFINE i == IF instance[k] = NoInstance THEN w ELSE instance[k]
                 x == IF OpOf[i[2]] = OpOf[w[2]] THEN "started" ELSE "refused"
      <3>1. instance'[k] = i /\ Reply(w, x)
        BY <1>1, <2>1 DEF PostArrives, ConfirmationInv, ConfirmationTypeOK
      <3>2. x \in Result /\ i # NoInstance /\ (x = "started" => OpOf[i[2]] = OpOf[w[2]])
            /\ (x = "refused" => i # w)
        BY <1>1 DEF Result
      <3> HIDE DEF i, x
      <3> QED  BY <3>1, <3>2 DEF Reply
    <2>2. CASE PostRefused(w)
      BY <1>1, <2>2 DEF PostRefused, Reply, Result
    <2>3. CASE PostLost(w)
      BY <2>3 DEF PostLost
    <2> QED  BY <2>1, <2>2, <2>3
  <1>5. /\ \A v \in wire' : v[3] <= posted'[v[2]] /\ instance'[KeyOf[v[2]]] # v
        /\ \A j \in IKey : instance'[j] # NoInstance => instance'[j][3] <= posted'[instance'[j][2]]
    <2>1. ASSUME NEW v \in wire'  PROVE v[3] <= posted'[v[2]] /\ instance'[KeyOf[v[2]]] # v
      <3>1. v \in wire /\ v # w /\ KeyOf[v[2]] \in IKey
        BY <1>2, WriteParts, ConfirmationAssumption DEF ConfirmationInv, ConfirmationTypeOK
      <3> QED  BY <1>2, <1>3, <3>1 DEF ConfirmationInv, WritesAreCounted
    <2>2. ASSUME NEW j \in IKey, instance'[j] # NoInstance
          PROVE  instance'[j][3] <= posted'[instance'[j][2]]
      BY <1>1, <1>2, <1>3, <2>2 DEF ConfirmationInv, WritesAreCounted
    <2> QED  BY <2>1, <2>2
  <1>6. CASE UNCHANGED <<call, answered>>
    <2>1. CallsHaveGrants' /\ GrantsAreSpent'
      BY <1>2, <1>6 DEF ConfirmationInv, CallsHaveGrants, GrantsAreSpent
    <2>2. WritesAreCounted'
      BY <1>2, <1>5, <1>6 DEF ConfirmationInv, WritesAreCounted
    <2>3. ASSUME NEW a \in answered
          PROVE  LET i == instance'[KeyOf[a[1][2]]] IN
                 /\ a[2] = "started" => i # NoInstance /\ OpOf[i[2]] = OpOf[a[1][2]]
                 /\ a[2] = "refused" => a[1] \notin wire' /\ i # a[1]
      <3>1. a[1] \in Write /\ a[1][2] \in Grant /\ KeyOf[a[1][2]] \in IKey
        BY WriteParts, ConfirmationAssumption DEF ConfirmationInv, ConfirmationTypeOK
      <3>2. a[2] = "refused" => a[1] # w
        BY DEF ConfirmationInv, RefundAnswersAreTrue
      <3> QED  BY <1>2, <1>3, <3>1, <3>2 DEF ConfirmationInv, RefundAnswersAreTrue
    <2>4. RefundAnswersAreTrue'
      BY <1>6, <2>3 DEF RefundAnswersAreTrue
    <2> QED  BY <2>1, <2>2, <2>4
  <1>7. ASSUME NEW x \in Result,
               call[w[1]] = "posted", WriteOf(w[1]) = w, Answer(w[1], x),
               x = "started" => instance'[k] # NoInstance /\ OpOf[instance'[k][2]] = OpOf[w[2]],
               x = "refused" => instance'[k] # w
        PROVE  CallsHaveGrants' /\ GrantsAreSpent' /\ WritesAreCounted' /\ RefundAnswersAreTrue'
    <2>1. grant[w[1]] = w[2]
      BY <1>7 DEF WriteOf
    <2>2. \A j \in IKey : \/ instance'[j] = instance[j]
                          \/ instance[j] = NoInstance /\ instance'[j] \in wire \ wire'
      BY <1>2, <1>3
    <2>3. CallsHaveGrants' /\ GrantsAreSpent' /\ RefundAnswersAreTrue'
          /\ \A a \in answered' : a[1][3] <= posted'[a[1][2]]
      BY <1>1, <1>2, <1>7, <2>1, <2>2, AnsweredStep
    <2> QED  BY <1>5, <2>3 DEF WritesAreCounted
  <1> QED  BY <1>4, <1>6, <1>7

\* Every step of confirmation keeps its invariant.
LEMMA ConfirmationStep ==
  ASSUME ConfirmationInv, ConfirmationNext
  PROVE  ConfirmationInv'
  <1> DEFINE Rest == CallsHaveGrants /\ GrantsAreSpent /\ WritesAreCounted /\ RefundAnswersAreTrue
  <1>0. ConfirmationTypeOK'
    BY ConfirmationTypeStep DEF ConfirmationInv
  <1>1. ASSUME UNCHANGED <<lapsed, wire, instance, posted, answered>>, used \subseteq used',
               CallsHaveGrants'
        PROVE  Rest'
    BY <1>1 DEF ConfirmationInv, GrantsAreSpent, WritesAreCounted, RefundAnswersAreTrue
  <1>2. ASSUME UNCHANGED confirmationVars  PROVE Rest'
    <2>1. CallsHaveGrants'
      BY <1>2 DEF confirmationVars, ConfirmationInv, CallsHaveGrants
    <2> QED  BY <1>1, <1>2, <2>1 DEF confirmationVars
  <1>3. ASSUME NEW r \in Request, NEW key, NEW G \in SUBSET Grant, NEW op,
               CallDenied(r, key, G, op) \/ CallAllowed(r, key, G, op)
        PROVE  Rest'
    <2>1. CallsHaveGrants'
      BY <1>3 DEF CallDenied, CallAllowed, confirmation_for, ConfirmationInv, ConfirmationTypeOK,
         CallsHaveGrants
    <2> QED  BY <1>1, <1>3, <2>1 DEF CallDenied, CallAllowed
  <1>4. ASSUME NEW r \in Request, CallGone(r) \/ ConsumeFails(r) \/ PostUnknown(r)
        PROVE  Rest'
    <2>1. CallsHaveGrants'
      BY <1>4 DEF CallGone, ConsumeFails, PostUnknown, ConfirmationInv, ConfirmationTypeOK,
         CallsHaveGrants
    <2> QED  BY <1>1, <1>4, <2>1 DEF CallGone, ConsumeFails, PostUnknown
  <1>5. ASSUME NEW r \in Request, ConsumeSucceeds(r)  PROVE Rest'
    BY <1>0, <1>5, SentStep
  <1>6. ASSUME NEW r \in Request, ReceiptRead(r)  PROVE Rest'
    <2>1. PICK x \in Result :
            /\ Answer(r, x) /\ x # "refused"
            /\ x = "started" => /\ instance[KeyOf[grant[r]]] # NoInstance
                                /\ OpOf[instance[KeyOf[grant[r]]][2]] = OpOf[grant[r]]
      BY <1>6 DEF ReceiptRead, Result
    <2>2. call[r] = "receipt" /\ UNCHANGED <<lapsed, used, grant, nth, wire, instance, posted>>
      BY <1>6 DEF ReceiptRead
    <2>3. CallsHaveGrants' /\ GrantsAreSpent' /\ RefundAnswersAreTrue'
          /\ \A a \in answered' : a[1][3] <= posted'[a[1][2]]
      BY <1>0, <2>1, <2>2, AnsweredStep
    <2> QED  BY <2>2, <2>3 DEF ConfirmationInv, WritesAreCounted
  <1>7. ASSUME NEW w \in wire, PostArrives(w) \/ PostRefused(w) \/ PostLost(w)  PROVE Rest'
    BY <1>0, <1>7, ArrivedStep
  <1>8. ASSUME NEW g \in Grant, GrantLapses(g) \/ ReplayEntryExpires(g)  PROVE Rest'
    <2>1. UNCHANGED <<call, grant, nth, wire, instance, posted, answered>>
      BY <1>8 DEF GrantLapses, ReplayEntryExpires
    <2>2. GrantsAreSpent'
      BY <1>8 DEF GrantLapses, ReplayEntryExpires, ConfirmationInv, GrantsAreSpent
    <2> QED  BY <2>1, <2>2
             DEF ConfirmationInv, CallsHaveGrants, WritesAreCounted, RefundAnswersAreTrue
  <1>9. Rest'
    BY <1>2, <1>3, <1>4, <1>5, <1>6, <1>7, <1>8 DEF ConfirmationNext, CallSteps, Outside
  <1> QED  BY <1>0, <1>9 DEF ConfirmationInv

-----------------------------------------------------------------------------
(* The inductive invariant of sessions *)

\* The stored checkpoint is of this incarnation, and can be read again.
StoreIsReadable ==
  store # NoSession => store.gen = gen /\ (store.side_effect => store.key # NoKey)

\* c is d but for the lease.
SameRun(c, d) ==
  /\ c.status = d.status /\ c.side_effect = d.side_effect
  /\ c.key = d.key /\ c.who = d.who /\ c.by = d.by

\* What a request decided from the checkpoint it has, and what that is to the stored one.
Fence(r) ==
  /\ pc[r] \in Active => ctx[r] # NoContext
  /\ pc[r] = "create" => current[r] = NoSession
  /\ pc[r] = "take" =>
       /\ current[r] # NoSession
       /\ current[r].status = "PAUSED" \/ (current[r].status = "RUNNING" /\ current[r].lapsed)
       /\ current[r].who = ctx[r].who
       /\ current[r].side_effect => current[r].key = ctx[r].key
  /\ pc[r] \in Running =>
       current[r] # NoSession /\ current[r].status = "RUNNING" /\ current[r].by = r
  /\ pc[r] \in Running \cup {"take"} =>
       /\ store # NoSession /\ current[r].gen = gen /\ current[r].revision <= store.revision
       /\ current[r].revision = store.revision =>
            /\ SameRun(current[r], store)
            /\ pc[r] = "take" => current[r].lapsed = store.lapsed

FencesHold == \A r \in Request : Fence(r)

Succeeded(c) == c # NoSession /\ c.status = "SUCCEEDED"

\* Whoever was told of success was told the same, now what is stored.
AnswersAgree ==
  \A r \in Request : Succeeded(reply[r]) =>
    /\ reply[r].gen <= gen
    /\ reply[r].gen = gen => store = reply[r]
    /\ \A q \in Request :
         Succeeded(reply[q]) /\ reply[q].gen = reply[r].gen => reply[q] = reply[r]

\* A call is sent to the replay store with a key.
CallsHaveKeys == \A r \in Request : pc[r] = "tool" /\ call[r] = "consume" => ctx[r].key # NoKey

SessionInv ==
  /\ SessionTypeOK /\ ConfirmationInv
  /\ StoreIsReadable /\ FencesHold /\ AnswersAgree /\ CallsHaveKeys

-----------------------------------------------------------------------------
(* What a step of a request does *)

\* Its compare_and_set can succeed with c.
MayWrite(r, c) ==
  /\ Matches(r)
  /\ \/ pc[r] \in {"create", "take"} /\ c = Started(r)
     \/ pc[r] = "progress" /\ ~NeedsKey(r) /\ c = Progressed(r)
     \/ pc[r] \in {"finish", "pause"} /\ c = Completed(r)

\* What may be written follows on what is stored.
Follows(r, c) ==
  /\ c \in Checkpoint /\ c.gen = gen /\ c.by = r /\ (c.side_effect => c.key # NoKey)
  /\ pc[r] \notin {"finish", "pause"} => c.status = "RUNNING"
  /\ store # NoSession =>
       /\ c.revision = store.revision + 1 /\ store.status # "SUCCEEDED"
       /\ store.by # r =>
            /\ store.status = "RUNNING" => store.lapsed
            /\ ctx[r].who = store.who
            /\ store.side_effect => ctx[r].key = store.key

\* A request's decision still holds when its write succeeds.
LEMMA WriteFollows ==
  ASSUME SessionTypeOK, StoreIsReadable, NEW r \in Request, Fence(r), NEW c, MayWrite(r, c)
  PROVE  Follows(r, c)
  <1>1. CASE pc[r] = "create"
    <2>1. current[r] = NoSession /\ store = NoSession /\ ctx[r] \in Asked
      BY <1>1 DEF Fence, MayWrite, Matches, SessionTypeOK, Context, Active
    <2>2. c = [gen |-> gen, revision |-> 0, status |-> "RUNNING", lapsed |-> FALSE,
               side_effect |-> FALSE, acts |-> FALSE, key |-> ctx[r].key, who |-> ctx[r].who,
               by |-> r]
      BY <1>1, <2>1 DEF MayWrite, Started
    <2>3. gen \in Nat /\ ctx[r].key \in IKey \cup {NoKey} /\ ctx[r].who \in Owner
      BY <2>1 DEF SessionTypeOK, Asked
    <2> QED  BY <2>1, <2>2, <2>3 DEF Follows, Checkpoint
  <1>2. CASE pc[r] \in Running \cup {"take"}
    <2>1. /\ current[r] # NoSession /\ current[r] \in Checkpoint
          /\ store # NoSession /\ store \in Checkpoint
      BY <1>2 DEF Fence, SessionTypeOK
    <2>2. store.revision = current[r].revision
      BY <2>1 DEF MayWrite, Matches
    <2>3. /\ SameRun(current[r], store) /\ current[r].gen = gen
          /\ pc[r] = "take" => current[r].lapsed = store.lapsed
      BY <1>2, <2>2 DEF Fence
    <2>4. store.side_effect => store.key # NoKey
      BY <2>1 DEF StoreIsReadable
    <2>5. seen[r] \in BOOLEAN
      BY DEF SessionTypeOK
    <2>6. CASE pc[r] = "take"
      <3>1. c = [current[r] EXCEPT !.revision = @ + 1, !.status = "RUNNING", !.lapsed = FALSE, !.by = r]
        BY <2>1, <2>6 DEF MayWrite, Started, Running
      <3>0. c = [gen |-> current[r].gen, revision |-> current[r].revision + 1, status |-> "RUNNING",
                   lapsed |-> FALSE, side_effect |-> current[r].side_effect, acts |-> current[r].acts,
                   key |-> current[r].key, who |-> current[r].who, by |-> r]
        BY <2>1, <3>1 DEF Checkpoint
      <3>2. /\ c \in Checkpoint /\ c.gen = gen /\ c.by = r /\ c.status = "RUNNING"
            /\ c.revision = current[r].revision + 1
            /\ c.side_effect = current[r].side_effect /\ c.key = current[r].key
        BY <2>1, <2>3, <3>0 DEF Checkpoint
      <3>3. /\ current[r].status = "PAUSED" \/ (current[r].status = "RUNNING" /\ current[r].lapsed)
            /\ current[r].who = ctx[r].who /\ (current[r].side_effect => current[r].key = ctx[r].key)
        BY <2>6 DEF Fence
      <3> QED  BY <2>2, <2>3, <2>4, <2>6, <3>2, <3>3 DEF Follows, SameRun
    <2>7. CASE pc[r] \in Running
      <3>1. current[r].status = "RUNNING" /\ current[r].by = r
        BY <2>7 DEF Fence
      <3>2. CASE pc[r] = "progress"
        <4>1. c = Progressed(r) /\ ~NeedsKey(r)
          BY <3>2 DEF MayWrite
        <4>0. c = [gen |-> current[r].gen, revision |-> current[r].revision + 1, status |-> "RUNNING",
                     lapsed |-> FALSE, side_effect |-> (current[r].side_effect \/ seen[r]), acts |-> seen[r],
                     key |-> current[r].key, who |-> current[r].who, by |-> r]
          BY <2>1, <3>1, <4>1 DEF Checkpoint, Progressed
        <4>2. /\ c \in Checkpoint /\ c.gen = gen /\ c.by = r /\ c.status = "RUNNING"
              /\ c.revision = current[r].revision + 1 /\ c.key = current[r].key
          BY <2>1, <2>3, <2>5, <4>0 DEF Checkpoint
        <4>3. c.side_effect => c.key # NoKey
          BY <4>1, <4>2 DEF NeedsKey
        <4> QED  BY <2>1, <2>2, <2>3, <3>1, <3>2, <4>2, <4>3 DEF Follows, SameRun
      <3>3. CASE pc[r] # "progress"
        <4>1. c = Completed(r) /\ pc[r] \in {"finish", "pause"}
          BY <2>7, <3>3 DEF MayWrite, Running
        <4>0. c = [gen |-> current[r].gen, revision |-> current[r].revision + 1,
                     status |-> (IF pc[r] = "finish" THEN "SUCCEEDED" ELSE "PAUSED"),
                     lapsed |-> FALSE, side_effect |-> current[r].side_effect, acts |-> seen[r],
                     key |-> current[r].key, who |-> current[r].who, by |-> r]
          BY <2>1, <3>1, <4>1 DEF Checkpoint, Completed
        <4>2. /\ c \in Checkpoint /\ c.gen = gen /\ c.by = r /\ c.key = current[r].key
              /\ c.revision = current[r].revision + 1 /\ c.side_effect = current[r].side_effect
          BY <2>1, <2>3, <2>5, <4>0 DEF Checkpoint
        <4> QED  BY <2>1, <2>2, <2>3, <2>4, <3>1, <4>1, <4>2 DEF Follows, SameRun
      <3> QED  BY <3>2, <3>3
    <2> QED  BY <1>2, <2>6, <2>7
  <1> QED  BY <1>1, <1>2 DEF MayWrite, Running

\* Other requests do not notice.
OthersStay(r) ==
  \A t \in Request \ {r} :
    pc'[t] = pc[t] /\ ctx'[t] = ctx[t] /\ current'[t] = current[t] /\ reply'[t] = reply[t]

\* A request leaves, perhaps with the answer of a session that has succeeded.
Goes(r) ==
  /\ store' = store /\ pc'[r] \notin Active
  /\ reply'[r] = reply[r] \/ (Succeeded(store) /\ reply'[r] = store)

\* It reads the checkpoint and decides to run the session.
Reads(r) ==
  /\ store' = store /\ reply'[r] = reply[r] /\ current'[r] = store /\ ctx'[r] \in Asked
  /\ \/ store = NoSession /\ pc'[r] = "create"
     \/ /\ store # NoSession /\ pc'[r] = "take"
        /\ store.status = "PAUSED" \/ (store.status = "RUNNING" /\ store.lapsed)
        /\ store.who = ctx'[r].who
        /\ store.side_effect => store.key = ctx'[r].key

\* It runs on.
RunsOn(r) ==
  /\ store' = store /\ reply'[r] = reply[r]
  /\ pc[r] \in Running /\ pc'[r] \in Running
  /\ current'[r] = current[r] /\ ctx'[r] = ctx[r]

\* It writes c and runs on, knowingly or not, or leaves.
Saves(r, c) ==
  /\ MayWrite(r, c) /\ store' = c
  /\ \/ /\ pc'[r] = "run" /\ current'[r] = c /\ ctx'[r] = ctx[r] /\ reply'[r] = reply[r]
        /\ pc[r] \notin {"finish", "pause"}
     \/ /\ pc[r] = "progress" /\ pc'[r] = "pause" /\ current'[r] = current[r]
        /\ ctx'[r] = ctx[r] /\ reply'[r] = reply[r]
     \/ pc'[r] \notin Active /\ (reply'[r] = reply[r] \/ reply'[r] = c)

\* Every step of a request is one of these.
LEMMA ServeEffects ==
  ASSUME SessionTypeOK, NEW r \in Request, Serve(r)
  PROVE  /\ gen' = gen /\ OthersStay(r)
         /\ Goes(r) \/ Reads(r) \/ RunsOn(r) \/ \E c : Saves(r, c)
  <1> DEFINE Effect == Goes(r) \/ Reads(r) \/ RunsOn(r) \/ \E c : Saves(r, c)
  <1> USE DEF SessionTypeOK
  <1>1. CASE Arrive(r)
    <2>1. gen' = gen /\ OthersStay(r) /\ store' = store
      BY <1>1 DEF Arrive, Leaves, OthersStay
    <2>2. PICK who \in Owner, key \in IKey \cup {NoKey}, G \in SUBSET Grant :
            \/ /\ store # NoSession /\ ~_validate_resume(who, key, G)
               /\ Leaves(r, "rejected") /\ UNCHANGED reply
            \/ /\ store # NoSession /\ _validate_resume(who, key, G) /\ Terminal(store)
               /\ Leaves(r, "done") /\ reply' = [reply EXCEPT ![r] = store]
            \/ /\ store # NoSession => _validate_resume(who, key, G) /\ ~Terminal(store)
               /\ pc' = [pc EXCEPT ![r] = IF store = NoSession THEN "create" ELSE "take"]
               /\ ctx' = [ctx EXCEPT ![r] = [who |-> who, key |-> key, grants |-> G]]
               /\ current' = [current EXCEPT ![r] = store]
               /\ UNCHANGED <<seen, calls, reply>>
      BY <1>1 DEF Arrive
    <2>3. CASE Leaves(r, "rejected") /\ UNCHANGED reply
      <3>1. Goes(r)
        BY <2>1, <2>3 DEF Goes, Leaves, Active, Running
      <3> QED  BY <2>1, <3>1
    <2>4. CASE store # NoSession /\ Terminal(store) /\ Leaves(r, "done")
               /\ reply' = [reply EXCEPT ![r] = store]
      <3>1. Goes(r)
        BY <2>1, <2>4 DEF Goes, Leaves, Active, Running, Succeeded, Terminal
      <3> QED  BY <2>1, <3>1
    <2>5. CASE /\ store # NoSession => _validate_resume(who, key, G) /\ ~Terminal(store)
               /\ pc' = [pc EXCEPT ![r] = IF store = NoSession THEN "create" ELSE "take"]
               /\ ctx' = [ctx EXCEPT ![r] = [who |-> who, key |-> key, grants |-> G]]
               /\ current' = [current EXCEPT ![r] = store]
               /\ UNCHANGED <<seen, calls, reply>>
      <3>1. /\ current'[r] = store /\ reply'[r] = reply[r]
            /\ ctx'[r] = [who |-> who, key |-> key, grants |-> G]
            /\ pc'[r] = IF store = NoSession THEN "create" ELSE "take"
        BY <2>5
      <3>2. ctx'[r] \in Asked /\ ctx'[r].who = who /\ ctx'[r].key = key
        BY <3>1 DEF Asked
      <3>3. store # NoSession => store.status \in {"RUNNING", "PAUSED", "SUCCEEDED"}
        BY DEF Checkpoint
      <3>4. Reads(r)
        BY <2>1, <2>5, <3>1, <3>2, <3>3 DEF Reads, _validate_resume, Terminal
      <3> QED  BY <2>1, <3>4
    <2> QED  BY <2>2, <2>3, <2>4, <2>5
  <1>2. CASE RunStarts(r)
    <2>1. gen' = gen /\ OthersStay(r)
      BY <1>2 DEF RunStarts, Written, OthersStay
    <2>2. Saves(r, Started(r))
      BY <1>2 DEF RunStarts, Written, AfterWrite, Saves, MayWrite
    <2> QED  BY <2>1, <2>2
  <1>3. CASE StartFails(r)
    <2>1. gen' = gen /\ OthersStay(r) /\ pc'[r] \notin Active /\ reply' = reply
      BY <1>3 DEF StartFails, Leaves, OthersStay, Active, Running
    <2>2. Goes(r) \/ Saves(r, Started(r))
      BY <1>3, <2>1 DEF StartFails, NotWritten, Saves, MayWrite, Goes
    <2> QED  BY <2>1, <2>2
  <1>4. CASE ReadOnlyTool(r) \/ GovernedTool(r) \/ ToolSteps(r) \/ ToolReturns(r) \/ RunEnds(r)
             \/ RunTimesOut(r)
    <2>1. gen' = gen /\ OthersStay(r)
      BY <1>4 DEF ReadOnlyTool, GovernedTool, ToolSteps, ToolReturns, RunEnds, RunTimesOut, OthersStay
    <2>2. RunsOn(r)
      BY <1>4 DEF ReadOnlyTool, GovernedTool, ToolSteps, ToolReturns, RunEnds, RunTimesOut, RunsOn,
         Running
    <2> QED  BY <2>1, <2>2
  <1>5. CASE ProgressSaved(r)
    <2>1. gen' = gen /\ OthersStay(r)
      BY <1>5 DEF ProgressSaved, Written, OthersStay
    <2>2. Saves(r, Progressed(r))
      BY <1>5 DEF ProgressSaved, Written, AfterWrite, Saves, MayWrite
    <2> QED  BY <2>1, <2>2
  <1>6. CASE ProgressFails(r)
    <2>1. gen' = gen /\ OthersStay(r)
      BY <1>6 DEF ProgressFails, OthersStay
    <2>2. /\ pc[r] = "progress" /\ pc'[r] = "pause"
          /\ current'[r] = current[r] /\ ctx'[r] = ctx[r] /\ reply'[r] = reply[r]
      BY <1>6 DEF ProgressFails
    <2>3. store' = store \/ (~NeedsKey(r) /\ Matches(r) /\ store' = Progressed(r))
      BY <1>6 DEF ProgressFails, NotWritten
    <2>4. RunsOn(r) \/ Saves(r, Progressed(r))
      BY <2>2, <2>3 DEF Saves, MayWrite, RunsOn, Running
    <2> QED  BY <2>1, <2>4
  <1>7. CASE RunCompletes(r)
    <2>1. gen' = gen /\ OthersStay(r) /\ pc'[r] \notin Active /\ reply'[r] = Completed(r)
      BY <1>7 DEF RunCompletes, Leaves, OthersStay, Active, Running
    <2>2. Saves(r, Completed(r))
      BY <1>7, <2>1 DEF RunCompletes, Saves, MayWrite
    <2> QED  BY <2>1, <2>2
  <1>8. CASE CompletionFails(r)
    <2>1. gen' = gen /\ OthersStay(r) /\ pc'[r] \notin Active /\ reply' = reply
      BY <1>8 DEF CompletionFails, Leaves, OthersStay, Active, Running
    <2>2. Goes(r) \/ Saves(r, Completed(r))
      BY <1>8, <2>1 DEF CompletionFails, NotWritten, Saves, MayWrite, Goes
    <2> QED  BY <2>1, <2>2
  <1>9. CASE Crash(r)
    <2>1. gen' = gen /\ OthersStay(r)
      BY <1>9 DEF Crash, Leaves, OthersStay
    <2>2. Goes(r)
      BY <1>9 DEF Crash, Leaves, Goes, Active, Running
    <2> QED  BY <2>1, <2>2
  <1> QED  BY <1>1, <1>2, <1>3, <1>4, <1>5, <1>6, <1>7, <1>8, <1>9 DEF Serve

-----------------------------------------------------------------------------
(* The parts of the invariant *)

\* Fences hold after a step of a request.
LEMMA FenceServed ==
  ASSUME SessionTypeOK, StoreIsReadable, FencesHold, NEW r \in Request, Serve(r)
  PROVE  FencesHold' /\ StoreIsReadable'
  <1>1. gen' = gen /\ OthersStay(r)
    BY ServeEffects
  <1>2. ASSUME store' = store, NEW t \in Request \ {r}  PROVE Fence(t)'
    <2>1. /\ pc'[t] = pc[t] /\ ctx'[t] = ctx[t] /\ current'[t] = current[t] /\ Fence(t)
      BY <1>1 DEF OthersStay, FencesHold
    <2> QED  BY <1>1, <1>2, <2>1 DEF Fence, SameRun
  <1>3. ASSUME Fence(r)', store' = store  PROVE FencesHold' /\ StoreIsReadable'
    BY <1>1, <1>2, <1>3 DEF FencesHold, StoreIsReadable
  <1>4. CASE Goes(r)
    BY <1>3, <1>4 DEF Goes, Fence, Active, Running
  <1>5. CASE Reads(r)
    <2>1. store # NoSession => store.gen = gen /\ store.revision \in Nat
      BY DEF StoreIsReadable, SessionTypeOK, Checkpoint
    <2>2. ctx'[r] # NoContext
      BY <1>5, NoSessionAssumption DEF Reads
    <2>3. Fence(r)'
      BY <1>1, <1>5, <2>1, <2>2 DEF Reads, Fence, Active, Running, SameRun
    <2> QED  BY <1>3, <1>5, <2>3 DEF Reads
  <1>6. CASE RunsOn(r)
    <2>1. Fence(r)'
      BY <1>1, <1>6 DEF RunsOn, FencesHold, Fence, Active, Running, SameRun
    <2> QED  BY <1>3, <1>6, <2>1 DEF RunsOn
  <1>7. ASSUME NEW c, Saves(r, c)  PROVE FencesHold' /\ StoreIsReadable'
    <2>1. Follows(r, c) /\ store' = c /\ c # NoSession
      BY <1>7, WriteFollows, NoSessionAssumption DEF Saves, FencesHold, Follows
    <2>2. c.revision \in Nat /\ (store # NoSession => store.revision \in Nat)
      BY <2>1 DEF Follows, Checkpoint, SessionTypeOK
    <2>3. StoreIsReadable'
      BY <1>1, <2>1 DEF StoreIsReadable, Follows
    <2>4. ASSUME NEW t \in Request, pc[t] \in Running \cup {"take"}
          PROVE  current[t].revision < c.revision /\ current[t].gen = gen
      <3>1. /\ store # NoSession /\ current[t].revision <= store.revision
            /\ current[t].gen = gen /\ current[t] # NoSession
        BY <2>4 DEF FencesHold, Fence
      <3>2. current[t].revision \in Nat
        BY <3>1 DEF SessionTypeOK, Checkpoint
      <3> QED  BY <2>1, <2>2, <3>1, <3>2 DEF Follows
    <2>5. ASSUME NEW t \in Request \ {r}  PROVE Fence(t)'
      <3>1. /\ pc'[t] = pc[t] /\ ctx'[t] = ctx[t] /\ current'[t] = current[t] /\ Fence(t)
        BY <1>1 DEF OthersStay, FencesHold
      <3>2. pc[t] \in Running \cup {"take"} => current[t].revision \in Nat
        BY DEF FencesHold, Fence, SessionTypeOK, Checkpoint
      <3> QED  BY <1>1, <2>1, <2>2, <2>4, <3>1, <3>2 DEF Fence
    <2>6. Fence(r)'
      <3>1. CASE /\ pc'[r] = "run" /\ current'[r] = c /\ ctx'[r] = ctx[r]
                 /\ pc[r] \notin {"finish", "pause"}
        <4>1. ctx[r] # NoContext
          BY <1>7 DEF FencesHold, Fence, Saves, MayWrite, Active, Running
        <4> QED  BY <1>1, <2>1, <2>2, <3>1, <4>1 DEF Fence, Follows, Active, Running, SameRun
      <3>2. CASE /\ pc[r] = "progress" /\ pc'[r] = "pause" /\ current'[r] = current[r]
                 /\ ctx'[r] = ctx[r]
        <4>1. /\ ctx[r] # NoContext /\ current[r] # NoSession /\ current[r].status = "RUNNING"
              /\ current[r].by = r
          BY <3>2 DEF FencesHold, Fence, Active, Running
        <4>2. current[r].revision < c.revision /\ current[r].gen = gen
          BY <2>4, <3>2 DEF Running
        <4>3. current[r].revision \in Nat
          BY <4>1 DEF SessionTypeOK, Checkpoint
        <4> QED  BY <1>1, <2>1, <2>2, <3>2, <4>1, <4>2, <4>3 DEF Fence, Active, Running
      <3>3. CASE pc'[r] \notin Active
        BY <3>3 DEF Fence, Active, Running
      <3> QED  BY <1>7, <3>1, <3>2, <3>3 DEF Saves
    <2> QED  BY <2>3, <2>5, <2>6 DEF FencesHold
  <1> QED  BY <1>4, <1>5, <1>6, <1>7, ServeEffects

\* Whoever is told of success is told what the others are.
LEMMA AnswersServed ==
  ASSUME SessionTypeOK, StoreIsReadable, FencesHold, AnswersAgree, NEW r \in Request, Serve(r)
  PROVE  AnswersAgree'
  <1>1. gen' = gen /\ OthersStay(r)
    BY ServeEffects
  <1>2. \A t \in Request \ {r} : reply'[t] = reply[t]
    BY <1>1 DEF OthersStay
  <1>3. CASE store' = store /\ reply'[r] = reply[r]
    BY <1>1, <1>2, <1>3 DEF AnswersAgree
  <1>4. CASE store' = store /\ Succeeded(store) /\ reply'[r] = store
    <2>1. store.gen = gen /\ gen \in Nat
      BY <1>4 DEF StoreIsReadable, Succeeded, SessionTypeOK
    <2> QED  BY <1>1, <1>2, <1>4, <2>1 DEF AnswersAgree
  <1>5. ASSUME NEW c, Saves(r, c)  PROVE AnswersAgree'
    <2>1. Follows(r, c) /\ store' = c /\ (reply'[r] = reply[r] \/ reply'[r] = c)
      BY <1>5, WriteFollows DEF Saves, FencesHold
    <2>2. ASSUME NEW t \in Request, Succeeded(reply[t])
          PROVE  reply[t].gen # gen /\ reply[t].gen <= gen
      BY <2>1, <2>2 DEF AnswersAgree, Succeeded, Follows
    <2>3. c.gen = gen /\ gen \in Nat
      BY <2>1 DEF Follows, SessionTypeOK
    <2> QED  BY <1>1, <1>2, <2>1, <2>2, <2>3 DEF AnswersAgree
  <1> QED  BY <1>3, <1>4, <1>5, ServeEffects DEF Goes, Reads, RunsOn

\* A step of a session is a step of confirmation.
LEMMA ServeConfirms ==
  ASSUME SessionTypeOK, FencesHold, NEW r \in Request, Serve(r)
  PROVE  ConfirmationNext
  <1>1. CASE GovernedTool(r)
    <2>1. ctx[r] \in Asked
      BY <1>1 DEF GovernedTool, FencesHold, Fence, Active, Running, SessionTypeOK, Context
    <2>2. ctx[r].key \in IKey \cup {NoKey} /\ ctx[r].grants \in SUBSET Grant
      BY <2>1 DEF Asked
    <2> QED  BY <1>1, <2>2 DEF GovernedTool, ConfirmationNext
  <1>2. CASE ToolSteps(r) \/ ToolReturns(r) \/ RunTimesOut(r) \/ Crash(r)
    BY <1>2 DEF ToolSteps, ToolReturns, RunTimesOut, Crash, ConfirmationNext
  <1>3. CASE Arrive(r) \/ RunStarts(r) \/ StartFails(r) \/ ReadOnlyTool(r) \/ ProgressSaved(r)
             \/ ProgressFails(r) \/ RunEnds(r) \/ RunCompletes(r) \/ CompletionFails(r)
    BY <1>3 DEF Arrive, RunStarts, StartFails, ReadOnlyTool, ProgressSaved, ProgressFails, RunEnds,
       RunCompletes, CompletionFails, ConfirmationNext
  <1> QED  BY <1>1, <1>2, <1>3 DEF Serve

\* A call keeps its key.
LEMMA KeysServed ==
  ASSUME SessionTypeOK, CallsHaveKeys, NEW r \in Request, Serve(r)
  PROVE  CallsHaveKeys'
  <1> USE DEF SessionTypeOK, ConfirmationTypeOK, CallsHaveKeys
  <1>1. \A t \in Request \ {r} : pc'[t] = pc[t] /\ ctx'[t] = ctx[t]
    BY ServeEffects DEF OthersStay
  <1>2. CASE GovernedTool(r)
    BY <1>1, <1>2 DEF GovernedTool, CallDenied, CallAllowed
  <1>3. CASE ToolSteps(r)
    BY <1>1, <1>3 DEF ToolSteps, CallSteps, ConsumeSucceeds, ConsumeFails, PostUnknown, ReceiptRead,
       Answer
  <1>4. CASE ToolReturns(r) \/ RunTimesOut(r) \/ Crash(r)
    BY <1>1, <1>4 DEF ToolReturns, RunTimesOut, Crash, CallGone, Leaves
  <1>5. CASE Arrive(r) \/ RunStarts(r) \/ StartFails(r) \/ ReadOnlyTool(r) \/ ProgressSaved(r)
             \/ ProgressFails(r) \/ RunEnds(r) \/ RunCompletes(r) \/ CompletionFails(r)
    <2>1. call' = call /\ pc'[r] # "tool"
      BY <1>5 DEF Arrive, RunStarts, StartFails, ReadOnlyTool, ProgressSaved, ProgressFails, RunEnds,
         RunCompletes, CompletionFails, confirmationVars, Leaves
    <2> QED  BY <1>1, <2>1
  <1> QED  BY <1>2, <1>3, <1>4, <1>5 DEF Serve

\* Every step keeps the types.
LEMMA SessionTypeServed ==
  ASSUME SessionInv, NEW r \in Request, Serve(r), ConfirmationTypeOK', FencesHold'
  PROVE  SessionTypeOK'
  <1>1. gen' = gen /\ OthersStay(r)
    BY ServeEffects DEF SessionInv
  <1>2. store' \in Checkpoint \cup {NoSession}
        /\ \A c : Saves(r, c) => c \in Checkpoint
    BY ServeEffects, WriteFollows
    DEF SessionInv, SessionTypeOK, FencesHold, Goes, Reads, RunsOn, Saves, Follows
  <1>3. \A t \in Request : pc'[t] \in Running => current'[t] # NoSession /\ current'[t].by = t
    BY DEF FencesHold, Fence
  <1> DEFINE Part == /\ pc' \in [Request -> {"idle", "done", "rejected", "failed", "dead"} \cup Active]
                     /\ ctx' \in [Request -> Context]
                     /\ current' \in [Request -> Checkpoint \cup {NoSession}]
                     /\ seen' \in [Request -> BOOLEAN]
                     /\ calls' \in [Request -> 0 .. MaxCalls]
                     /\ reply' \in [Request -> Checkpoint \cup {NoSession}]
                     /\ acted' \subseteq Nat \X IKey
  <1> USE DEF SessionInv, SessionTypeOK
  <1>4. ASSUME NEW end \in {"done", "rejected", "failed", "dead"}, Leaves(r, end),
               reply' \in [Request -> Checkpoint \cup {NoSession}], acted' = acted
        PROVE  Part
    BY <1>4, SessionAssumption DEF Leaves, Context, Active
  <1>5. CASE Arrive(r)
    <2>1. acted' = acted
      BY <1>5 DEF Arrive
    <2>2. PICK who \in Owner, key \in IKey \cup {NoKey}, G \in SUBSET Grant :
            \/ Leaves(r, "rejected") /\ UNCHANGED reply
            \/ store # NoSession /\ Leaves(r, "done") /\ reply' = [reply EXCEPT ![r] = store]
            \/ /\ pc' = [pc EXCEPT ![r] = IF store = NoSession THEN "create" ELSE "take"]
               /\ ctx' = [ctx EXCEPT ![r] = [who |-> who, key |-> key, grants |-> G]]
               /\ current' = [current EXCEPT ![r] = store]
               /\ UNCHANGED <<seen, calls, reply>>
      BY <1>5 DEF Arrive
    <2>3. ASSUME Leaves(r, "rejected"), UNCHANGED reply  PROVE Part
      BY <1>4, <2>1, <2>3
    <2>4. ASSUME Leaves(r, "done"), reply' = [reply EXCEPT ![r] = store]  PROVE Part
      BY <1>4, <2>1, <2>4
    <2>5. ASSUME pc' = [pc EXCEPT ![r] = IF store = NoSession THEN "create" ELSE "take"],
                 ctx' = [ctx EXCEPT ![r] = [who |-> who, key |-> key, grants |-> G]],
                 current' = [current EXCEPT ![r] = store],
                 UNCHANGED <<seen, calls, reply>>
          PROVE  Part
      <3>1. [who |-> who, key |-> key, grants |-> G] \in Context
        BY DEF Context, Asked
      <3> QED  BY <2>1, <2>5, <3>1 DEF Active
    <2>6. Part
      BY <2>2, <2>3, <2>4, <2>5
    <2> QED  BY <1>1, <1>2, <1>3, <2>6
  <1>6. CASE RunStarts(r) \/ ProgressSaved(r)
    <2>1. store' \in Checkpoint /\ current' = [current EXCEPT ![r] = store']
      <3>1. store' = Started(r) \/ store' = Progressed(r)
        BY <1>6 DEF RunStarts, ProgressSaved, Written
      <3>2. Saves(r, store')
        BY <1>6 DEF RunStarts, ProgressSaved, Written, AfterWrite, Saves, MayWrite
      <3> QED  BY <1>2, <1>6, <3>2 DEF RunStarts, ProgressSaved, Written, AfterWrite
    <2>2. seen' \in [Request -> BOOLEAN]
      <3>1. CASE RunStarts(r)
        <4>1. Started(r).acts \in BOOLEAN
          BY <2>1, <3>1 DEF RunStarts, Written, Checkpoint
        <4> QED  BY <3>1, <4>1 DEF RunStarts
      <3> QED  BY <1>6, <3>1 DEF ProgressSaved
    <2>3. Part
      BY <1>6, <2>1, <2>2 DEF RunStarts, ProgressSaved, Active, Running
    <2> QED  BY <1>1, <1>2, <1>3, <2>3
  <1>7. CASE StartFails(r) \/ CompletionFails(r) \/ Crash(r)
    <2>1. Part
      BY <1>4, <1>7 DEF StartFails, CompletionFails, Crash
    <2> QED  BY <1>1, <1>2, <1>3, <2>1
  <1>8. CASE RunCompletes(r)
    <2>1. store' = Completed(r) /\ reply' = [reply EXCEPT ![r] = Completed(r)]
      BY <1>8 DEF RunCompletes
    <2>2. Completed(r) \in Checkpoint \cup {NoSession}
      BY <1>2, <2>1
    <2>3. Part
      BY <1>4, <1>8, <2>1, <2>2 DEF RunCompletes
    <2> QED  BY <1>1, <1>2, <1>3, <2>3
  <1>9. CASE ReadOnlyTool(r) \/ GovernedTool(r)
    <2>1. calls[r] + 1 \in 0 .. MaxCalls
      BY <1>9, SessionAssumption DEF ReadOnlyTool, GovernedTool
    <2>2. Part
      BY <1>9, <2>1 DEF ReadOnlyTool, GovernedTool, Active, Running
    <2> QED  BY <1>1, <1>2, <1>3, <2>2
  <1>10. CASE ToolSteps(r)
    <2>1. posted' # posted => call[r] = "consume"
      BY <1>10 DEF ToolSteps, CallSteps, ConsumeSucceeds, ConsumeFails, PostUnknown, ReceiptRead
    <2>2. current[r].gen \in Nat
      BY <1>10 DEF ToolSteps, Running, Checkpoint
    <2>3. ctx[r] \in Asked
      BY <1>10 DEF ToolSteps, FencesHold, Fence, Active, Running, Context
    <2>4. posted' # posted => ctx[r].key \in IKey
      BY <1>10, <2>1, <2>3 DEF ToolSteps, CallsHaveKeys, Asked
    <2>5. Part
      BY <1>10, <2>2, <2>4 DEF ToolSteps
    <2> QED  BY <1>1, <1>2, <1>3, <2>5
  <1>11. CASE ToolReturns(r) \/ RunEnds(r) \/ RunTimesOut(r) \/ ProgressFails(r)
    <2>1. CASE ToolReturns(r)
      <3>1. Part
        BY <2>1 DEF ToolReturns, Active, Running
      <3> QED  BY <1>1, <1>2, <1>3, <3>1
    <2>2. CASE RunEnds(r)
      <3>1. Part
        BY <2>2 DEF RunEnds, Active, Running
      <3> QED  BY <1>1, <1>2, <1>3, <3>1
    <2>3. CASE RunTimesOut(r)
      <3>1. Part
        BY <2>3 DEF RunTimesOut, Active, Running
      <3> QED  BY <1>1, <1>2, <1>3, <3>1
    <2>4. CASE ProgressFails(r)
      <3>1. Part
        BY <2>4 DEF ProgressFails, Active, Running
      <3> QED  BY <1>1, <1>2, <1>3, <3>1
    <2> QED  BY <1>11, <2>1, <2>2, <2>3, <2>4
  <1> QED  BY <1>5, <1>6, <1>7, <1>8, <1>9, <1>10, <1>11 DEF Serve

-----------------------------------------------------------------------------
(* The steps of the clock, and of what is outside the sessions *)

\* A lease that lapses takes nothing from the run that has it.
LEMMA LeaseStep ==
  ASSUME SessionInv, LeaseLapses
  PROVE  SessionInv'
  <1>1. /\ store # NoSession /\ store \in Checkpoint /\ store.status = "RUNNING" /\ ~store.lapsed
        /\ store' = [store EXCEPT !.lapsed = TRUE]
        /\ UNCHANGED <<confirmationVars, gen, pc, ctx, current, seen, calls, reply, acted>>
    BY DEF LeaseLapses, SessionInv, SessionTypeOK
  <1>2. store' = [gen |-> store.gen, revision |-> store.revision, status |-> "RUNNING",
                  lapsed |-> TRUE, side_effect |-> store.side_effect, acts |-> store.acts,
                  key |-> store.key, who |-> store.who, by |-> store.by]
    BY <1>1 DEF Checkpoint
  <1>3. /\ store' \in Checkpoint /\ store' # NoSession /\ SameRun(store', store)
        /\ store'.gen = store.gen /\ store'.revision = store.revision
        /\ store'.status = "RUNNING"
    <2>1. /\ store'.gen = store.gen /\ store'.revision = store.revision
          /\ store'.status = "RUNNING"
      BY <1>2
    <2>2. SameRun(store', store)
      BY <1>1, <1>2 DEF SameRun
    <2>3. store' \in Checkpoint
      BY <1>1, <1>2 DEF Checkpoint
    <2> QED  BY <2>1, <2>2, <2>3, NoSessionAssumption
  <1>4. ConfirmationInv'
    BY <1>1, ConfirmationStep DEF SessionInv, ConfirmationNext
  <1>5. SessionTypeOK'
    BY <1>1, <1>3, <1>4 DEF SessionInv, SessionTypeOK, ConfirmationInv
  <1>6. StoreIsReadable'
    BY <1>1, <1>3 DEF SessionInv, StoreIsReadable, SameRun
  <1>7. ASSUME NEW r \in Request  PROVE Fence(r)'
    <2>1. CASE pc[r] = "take"
      <3>1. current[r].lapsed # store.lapsed
            \/ current[r].revision # store.revision \/ current[r].status # store.status
        BY <1>1, <2>1 DEF SessionInv, FencesHold, Fence
      <3>2. current[r].revision # store.revision
        BY <2>1, <3>1 DEF SessionInv, FencesHold, Fence, SameRun
      <3> QED  BY <1>1, <1>3, <2>1, <3>2 DEF SessionInv, FencesHold, Fence, Running, Active
    <2>2. CASE pc[r] # "take"
      BY <1>1, <1>3, <2>2 DEF SessionInv, FencesHold, Fence, SameRun
    <2> QED  BY <2>1, <2>2
  <1>8. AnswersAgree'
    <2>1. \A r \in Request : Succeeded(reply[r]) => reply[r].gen # gen
      BY <1>1 DEF SessionInv, AnswersAgree, Succeeded
    <2> QED  BY <1>1, <2>1 DEF SessionInv, AnswersAgree
  <1>9. CallsHaveKeys'
    BY <1>1 DEF SessionInv, CallsHaveKeys, confirmationVars
  <1> QED  BY <1>4, <1>5, <1>6, <1>7, <1>8, <1>9 DEF SessionInv, FencesHold

\* A session expires when nobody runs it, and the next one is another incarnation.
LEMMA ExpiryStep ==
  ASSUME SessionInv, SessionExpires
  PROVE  SessionInv'
  <1>1. /\ store' = NoSession /\ gen' = gen + 1 /\ gen \in Nat
        /\ \A r \in Request : pc[r] \notin Active
        /\ UNCHANGED <<confirmationVars, pc, ctx, current, seen, calls, reply, acted>>
    BY DEF SessionExpires, SessionInv, SessionTypeOK
  <1>2. ConfirmationInv'
    BY <1>1, ConfirmationStep DEF SessionInv, ConfirmationNext
  <1>3. SessionTypeOK'
    BY <1>1, <1>2 DEF SessionInv, SessionTypeOK, ConfirmationInv
  <1>4. StoreIsReadable'
    BY <1>1 DEF StoreIsReadable
  <1>5. FencesHold'
    BY <1>1 DEF FencesHold, Fence, Active, Running
  <1>6. AnswersAgree'
    <2>1. \A r \in Request : Succeeded(reply[r]) => reply[r].gen \in Nat
      BY DEF SessionInv, SessionTypeOK, Checkpoint, Succeeded
    <2> QED  BY <1>1, <2>1 DEF SessionInv, AnswersAgree
  <1>7. CallsHaveKeys'
    BY <1>1 DEF SessionInv, CallsHaveKeys, confirmationVars
  <1> QED  BY <1>2, <1>3, <1>4, <1>5, <1>6, <1>7 DEF SessionInv

\* The workflow service, the network and the clock never send a call back to the
\* replay store.
LEMMA OutsideStep ==
  ASSUME SessionInv, Outside, UNCHANGED sessionVars
  PROVE  SessionInv'
  <1>1. ConfirmationInv'
    BY ConfirmationStep DEF SessionInv, ConfirmationNext
  <1>2. SessionTypeOK' /\ StoreIsReadable' /\ FencesHold' /\ AnswersAgree'
    <2>1. UNCHANGED <<gen, store, pc, ctx, current, seen, calls, reply, acted>>
      BY DEF sessionVars
    <2>2. SessionTypeOK'
      BY <1>1, <2>1 DEF SessionInv, SessionTypeOK, ConfirmationInv
    <2>3. StoreIsReadable' /\ AnswersAgree'
      BY <2>1 DEF SessionInv, StoreIsReadable, AnswersAgree
    <2>4. FencesHold'
      BY <2>1 DEF SessionInv, FencesHold, Fence, SameRun
    <2> QED  BY <2>2, <2>3, <2>4
  <1>3. \A r \in Request : call'[r] = "consume" => call[r] = "consume"
    <2>1. ASSUME NEW w \in wire, NEW x \in Result, Reply(w, x), NEW r \in Request,
                 call'[r] = "consume"
          PROVE  call[r] = "consume"
      <3>1. w[1] \in Request /\ x # "consume"
        BY WriteParts DEF SessionInv, SessionTypeOK, ConfirmationTypeOK, Result
      <3> QED  BY <2>1, <3>1 DEF SessionInv, SessionTypeOK, ConfirmationTypeOK, Reply, Answer
    <2>2. ASSUME NEW w \in wire, PostArrives(w)  PROVE \E x \in Result : Reply(w, x)
      BY <2>2 DEF PostArrives, Result
    <2>3. ASSUME NEW w \in wire, PostRefused(w)  PROVE \E x \in Result : Reply(w, x)
      BY <2>3 DEF PostRefused, Result
    <2>4. CASE \E w \in wire : PostArrives(w) \/ PostRefused(w)
      BY <2>1, <2>2, <2>3, <2>4
    <2>5. CASE UNCHANGED call
      BY <2>5
    <2> QED  BY <2>4, <2>5 DEF Outside, PostLost, GrantLapses, ReplayEntryExpires
  <1>4. CallsHaveKeys'
    BY <1>3 DEF SessionInv, CallsHaveKeys, sessionVars
  <1> QED  BY <1>1, <1>2, <1>4 DEF SessionInv

\* A step of a request keeps the invariant.
LEMMA ServedStep ==
  ASSUME SessionInv, NEW r \in Request, Serve(r)
  PROVE  SessionInv'
  <1>1. SessionTypeOK /\ ConfirmationInv /\ StoreIsReadable /\ FencesHold /\ AnswersAgree
        /\ CallsHaveKeys
    BY DEF SessionInv
  <1>2. ConfirmationInv' /\ ConfirmationTypeOK'
    BY <1>1, ServeConfirms, ConfirmationStep DEF ConfirmationInv
  <1>3. FencesHold' /\ StoreIsReadable'
    BY <1>1, FenceServed
  <1>4. AnswersAgree' /\ CallsHaveKeys'
    BY <1>1, AnswersServed, KeysServed
  <1>5. SessionTypeOK'
    BY <1>2, <1>3, SessionTypeServed
  <1> QED  BY <1>2, <1>3, <1>4, <1>5 DEF SessionInv

\* Every step keeps the invariant.
LEMMA SessionStep ==
  ASSUME SessionInv, [Next]_vars
  PROVE  SessionInv'
  <1>1. CASE UNCHANGED vars
    <2>1. UNCHANGED confirmationVars /\ UNCHANGED sessionVars
      BY <1>1 DEF vars
    <2>2. ConfirmationInv'
      BY <2>1, ConfirmationStep DEF SessionInv, ConfirmationNext
    <2>3. UNCHANGED <<call, gen, store, pc, ctx, current, seen, calls, reply, acted>>
      BY <2>1 DEF confirmationVars, sessionVars
    <2>4. SessionTypeOK'
      BY <2>2, <2>3 DEF SessionInv, SessionTypeOK, ConfirmationInv
    <2>5. StoreIsReadable' /\ AnswersAgree' /\ CallsHaveKeys'
      BY <2>3 DEF SessionInv, StoreIsReadable, AnswersAgree, CallsHaveKeys
    <2>6. FencesHold'
      BY <2>3 DEF SessionInv, FencesHold, Fence, SameRun
    <2> QED  BY <2>2, <2>4, <2>5, <2>6 DEF SessionInv
  <1> QED  BY <1>1, ServedStep, LeaseStep, ExpiryStep, OutsideStep DEF Next

\* Nothing has been asked, sent or stored at first.
LEMMA SessionInitially ==
  ASSUME Init
  PROVE  SessionInv
  <1>1. ConfirmationInv
    <2>1. ConfirmationTypeOK
      BY ConfirmationAssumption DEF Init, ConfirmationInit, ConfirmationTypeOK, Write
    <2>2. CallsHaveGrants /\ GrantsAreSpent
      BY DEF Init, ConfirmationInit, CallsHaveGrants, GrantsAreSpent
    <2>3. WritesAreCounted /\ RefundAnswersAreTrue
      BY DEF Init, ConfirmationInit, WritesAreCounted, RefundAnswersAreTrue
    <2> QED  BY <2>1, <2>2, <2>3 DEF ConfirmationInv
  <1>2. SessionTypeOK
    BY <1>1, SessionAssumption
    DEF Init, ConfirmationInv, SessionTypeOK, Context, Running, Active
  <1>3. StoreIsReadable /\ AnswersAgree /\ CallsHaveKeys
    BY DEF Init, StoreIsReadable, AnswersAgree, CallsHaveKeys, Succeeded
  <1>4. FencesHold
    BY DEF Init, FencesHold, Fence, Running, Active
  <1> QED  BY <1>1, <1>2, <1>3, <1>4 DEF SessionInv

-----------------------------------------------------------------------------
(* The theorems *)

\* SessionInv is an invariant: what a request read still describes the stored
\* checkpoint as long as the revisions agree.
THEOREM SessionInvariant == Spec => []SessionInv
  <1>1. Init => SessionInv
    BY SessionInitially
  <1>2. SessionInv /\ [Next]_vars => SessionInv'
    BY SessionStep
  <1> QED  BY <1>1, <1>2, PTL DEF Spec

\* Sessions, requests, grants and writes keep their types; a run always holds a
\* checkpoint that it wrote itself.
THEOREM SessionTypes == Spec => []SessionTypeOK
  <1>1. SessionInv => SessionTypeOK
    BY DEF SessionInv
  <1> QED  BY <1>1, SessionInvariant, PTL

\* All callers who are told that a session has succeeded are told of one and the same
\* run, however many processes serve them and whichever answers of the store are lost.
THEOREM SuccessIsToldOnce == Spec => []OneAnswer
  <1>1. SessionInv => OneAnswer
    <2> SUFFICES ASSUME SessionInv  PROVE OneAnswer
      OBVIOUS
    <2>1. store # NoSession => store.gen = gen
      BY DEF SessionInv, StoreIsReadable
    <2> QED  BY <2>1 DEF SessionInv, AnswersAgree, Succeeded, OneAnswer
  <1> QED  BY <1>1, SessionInvariant, PTL

\* A valid grant buys at most one refund, whatever the order in which calls that carry
\* it reach the replay store.
THEOREM GrantsAreUsedOnce == Spec => []GrantBuysOneWrite
  <1>1. SessionInv => GrantBuysOneWrite
    BY DEF SessionInv, ConfirmationInv, GrantsAreSpent, GrantBuysOneWrite
  <1> QED  BY <1>1, SessionInvariant, PTL

\* What refund_start has told the agent about a write stays true, also when the write
\* is late or its answer is lost.
THEOREM RefundAnswersStayTrue == Spec => []RefundAnswersAreTrue
  <1>1. SessionInv => RefundAnswersAreTrue
    BY DEF SessionInv, ConfirmationInv
  <1> QED  BY <1>1, SessionInvariant, PTL

\* A checkpoint is only ever replaced by its own run, or by one that may take over;
\* a run that was taken over writes nothing any more.
THEOREM RunsAreFenced == Spec => WritesAreFenced
  <1> DEFINE A == store # NoSession /\ store' # NoSession /\ store'.revision # store.revision =>
                    /\ store'.revision = store.revision + 1
                    /\ store.status # "SUCCEEDED"
                    /\ store'.by # store.by =>
                         /\ store.status = "RUNNING" => store.lapsed
                         /\ ctx[store'.by].who = store.who
                         /\ store.side_effect => ctx[store'.by].key = store.key
                    /\ store'.side_effect => store'.key # NoKey
  <1>1. SessionInv /\ [Next]_vars => [A]_vars
    <2> SUFFICES ASSUME SessionInv, Next  PROVE A
      OBVIOUS
    <2>1. ASSUME NEW r \in Request, Serve(r)  PROVE A
      <3>1. CASE store' = store
        BY <3>1
      <3>2. ASSUME NEW c, Saves(r, c)  PROVE A
        <4>1. Follows(r, c) /\ store' = c
          BY <3>2, WriteFollows DEF Saves, SessionInv, FencesHold
        <4> QED  BY <4>1 DEF Follows
      <3> QED  BY <2>1, <3>1, <3>2, ServeEffects DEF SessionInv, Goes, Reads, RunsOn
    <2>2. CASE LeaseLapses
      <3>1. store # NoSession => store \in Checkpoint
        BY DEF SessionInv, SessionTypeOK
      <3> QED  BY <2>2, <3>1 DEF LeaseLapses, Checkpoint
    <2>3. CASE SessionExpires
      BY <2>3 DEF SessionExpires
    <2>4. CASE UNCHANGED sessionVars
      BY <2>4 DEF sessionVars
    <2> QED  BY <2>1, <2>2, <2>3, <2>4 DEF Next
  <1> QED  BY <1>1, SessionInvariant, PTL DEF Spec, WritesAreFenced
=============================================================================

-------------------------- MODULE ToolConfirmation --------------------------
(***************************************************************************)
(* One-time confirmation grants (application/confirmation.py,              *)
(* security/tool_confirmation.py), the policy that asks for them           *)
(* (domain/tool.py, agentscope/tools.py) and the governed write they buy,  *)
(* refund_start (agentscope/governed_tools.py) with its receipt, against   *)
(* the workflow service.                                                   *)
(*                                                                         *)
(* A grant is a signed token: what it is bound to never changes, so the    *)
(* binding is a constant and issuing one changes no state.  A call of the  *)
(* tool by request r is call[r]:                                           *)
(*   none         no call, or a call that its run has abandoned            *)
(*   consume      awaits the replay store                                  *)
(*   posted       awaits the workflow service                              *)
(*   receipt      awaits the receipt of a write of unknown fate            *)
(*   denied, started, refused, unconfirmed    the result of the tool       *)
(***************************************************************************)
EXTENDS Naturals, FiniteSets

CONSTANTS
  Request,     \* requests to run a session, each of them sent once
  IKey,        \* idempotency keys
  NoKey,       \* a request without one
  Op,          \* what can be asked of the tool, its arguments
  Grant,       \* grants that were issued
  KeyOf,       \* the idempotency key a grant is bound to
  OpOf,        \* the arguments a grant is bound to
  NoGrant,     \* a request that makes no call
  NoInstance   \* an idempotency key with no workflow instance

ASSUME ConfirmationAssumption ==
  /\ NoKey \notin IKey
  /\ KeyOf \in [Grant -> IKey]
  /\ OpOf \in [Grant -> Op]
  /\ NoGrant \notin Grant
  /\ NoInstance \notin Request \X Grant \X Nat

VARIABLES
  lapsed,    \* the grants whose expires_at is over
  used,      \* the replay store
  call,      \* the call of a request in progress, or its result
  grant,     \* the grant of that call
  nth,       \* which of the writes of its grant the call has sent
  wire,      \* writes on their way to the workflow service
  instance,  \* the workflow instance of an idempotency key: the write that made it
  posted,    \* history: how many writes a grant has bought
  answered   \* history: what refund_start told the agent about a write

confirmationVars == <<lapsed, used, call, grant, nth, wire, instance, posted, answered>>

\* A write: who sent it, with which grant, and how many that one had bought with it.
Write == Request \X Grant \X Nat

Result == {"denied", "started", "refused", "unconfirmed"}

ConfirmationTypeOK ==
  /\ lapsed \subseteq Grant
  /\ used \subseteq Grant
  /\ call \in [Request -> {"none", "consume", "posted", "receipt"} \cup Result]
  /\ grant \in [Request -> Grant \cup {NoGrant}]
  /\ nth \in [Request -> Nat]
  /\ wire \subseteq Write
  /\ instance \in [IKey -> Write \cup {NoInstance}]
  /\ posted \in [Grant -> Nat]
  /\ answered \subseteq Write \X Result

ConfirmationInit ==
  /\ lapsed = {}
  /\ used = {}
  /\ call = [r \in Request |-> "none"]
  /\ grant = [r \in Request |-> NoGrant]
  /\ nth = [r \in Request |-> 0]
  /\ wire = {}
  /\ instance = [k \in IKey |-> NoInstance]
  /\ posted = [g \in Grant |-> 0]
  /\ answered = {}

-----------------------------------------------------------------------------
\* verify_tokens, when the request arrives: a grant of another key, or one that has
\* lapsed, fails the request.
verify_tokens(key, G) == \A g \in G : KeyOf[g] = key /\ g \notin lapsed

\* RunContext.confirmation_for, at the time of the call.
confirmation_for(key, G, op) == {g \in G : g \notin lapsed /\ KeyOf[g] = key /\ OpOf[g] = op}

\* ToolPolicy.evaluate for a write: without a key or a matching grant it is denied.
CallDenied(r, key, G, op) ==
  /\ call[r] = "none"
  /\ key = NoKey \/ confirmation_for(key, G, op) = {}
  /\ call' = [call EXCEPT ![r] = "denied"]
  /\ UNCHANGED <<lapsed, used, grant, nth, wire, instance, posted, answered>>

\* Otherwise its grant is sent to the replay store.
CallAllowed(r, key, G, op) ==
  /\ call[r] = "none"
  /\ key # NoKey
  /\ \E g \in confirmation_for(key, G, op) : grant' = [grant EXCEPT ![r] = g]
  /\ call' = [call EXCEPT ![r] = "consume"]
  /\ UNCHANGED <<lapsed, used, nth, wire, instance, posted, answered>>

\* The call is over, or its run abandons it.
CallGone(r) ==
  /\ call' = [call EXCEPT ![r] = "none"]
  /\ grant' = [grant EXCEPT ![r] = NoGrant]
  /\ nth' = [nth EXCEPT ![r] = 0]
  /\ UNCHANGED <<lapsed, used, wire, instance, posted, answered>>

\* Mutant: the store does not look whether the grant is there.
ConsumesAgain(g) == TRUE

\* SET ... NX, or the dictionary of the in-memory store.
Consumes(g) == g \notin used

\* The grant is consumed: the write is sent, once, and not retried.
ConsumeSucceeds(r) ==
  /\ call[r] = "consume" /\ Consumes(grant[r])
  /\ used' = used \cup {grant[r]}
  /\ posted' = [posted EXCEPT ![grant[r]] = @ + 1]
  /\ nth' = [nth EXCEPT ![r] = posted[grant[r]] + 1]
  /\ wire' = wire \cup {<<r, grant[r], posted[grant[r]] + 1>>}
  /\ call' = [call EXCEPT ![r] = "posted"]
  /\ UNCHANGED <<lapsed, grant, instance, answered>>

\* It was consumed before; or the store does not answer, consumed or not.
ConsumeFails(r) ==
  /\ call[r] = "consume"
  /\ \/ UNCHANGED used
     \/ Consumes(grant[r]) /\ used' = used \cup {grant[r]}
  /\ call' = [call EXCEPT ![r] = "denied"]
  /\ UNCHANGED <<lapsed, grant, nth, wire, instance, posted, answered>>

\* The write of a call.
WriteOf(r) == <<r, grant[r], nth[r]>>

\* The tool returns result x for the write of r.
Answer(r, x) ==
  /\ call' = [call EXCEPT ![r] = x]
  /\ answered' = answered \cup {<<WriteOf(r), x>>}

\* The answer of the service to write w reaches its caller, or does not.
Reply(w, x) ==
  IF call[w[1]] = "posted" /\ WriteOf(w[1]) = w
    THEN Answer(w[1], x) \/ UNCHANGED <<call, answered>>
    ELSE UNCHANGED <<call, answered>>

\* POST /workflow/refund/start arrives.  The service keeps one instance for a key:
\* the same arguments get it again, others are a conflict.
PostArrives(w) ==
  /\ w \in wire
  /\ wire' = wire \ {w}
  /\ LET k == KeyOf[w[2]]
         i == IF instance[k] = NoInstance THEN w ELSE instance[k]
     IN /\ instance' = [instance EXCEPT ![k] = i]
        /\ Reply(w, IF OpOf[i[2]] = OpOf[w[2]] THEN "started" ELSE "refused")
  /\ UNCHANGED <<lapsed, used, grant, nth, posted>>

\* It is refused with another 4xx.
PostRefused(w) ==
  /\ w \in wire
  /\ wire' = wire \ {w}
  /\ Reply(w, "refused")
  /\ UNCHANGED <<lapsed, used, grant, nth, instance, posted>>

\* Mutant: what is not known to have succeeded is reported as failed.
UnknownIsFailure(r) ==
  /\ call[r] = "posted"
  /\ Answer(r, "refused")
  /\ UNCHANGED <<lapsed, used, grant, nth, wire, instance, posted>>

\* A timeout, a 5xx, a bad body, a call the guard rejects: the receipt is read, the
\* write is not repeated.
PostUnknown(r) ==
  /\ call[r] = "posted"
  /\ call' = [call EXCEPT ![r] = "receipt"]
  /\ UNCHANGED <<lapsed, used, grant, nth, wire, instance, posted, answered>>

\* The receipt of the same key and arguments, or nothing.
ReceiptRead(r) ==
  /\ call[r] = "receipt"
  /\ \/ /\ instance[KeyOf[grant[r]]] # NoInstance
        /\ OpOf[instance[KeyOf[grant[r]]][2]] = OpOf[grant[r]]
        /\ Answer(r, "started")
     \/ Answer(r, "unconfirmed")
  /\ UNCHANGED <<lapsed, used, grant, nth, wire, instance, posted>>

\* A request or its connection is lost.
PostLost(w) ==
  /\ w \in wire
  /\ wire' = wire \ {w}
  /\ UNCHANGED <<lapsed, used, call, grant, nth, instance, posted, answered>>

\* The grant's time is over.
GrantLapses(g) ==
  /\ g \notin lapsed
  /\ lapsed' = lapsed \cup {g}
  /\ UNCHANGED <<used, call, grant, nth, wire, instance, posted, answered>>

\* Only then does the replay store forget it.
ReplayEntryExpires(g) ==
  /\ g \in used \cap lapsed
  /\ used' = used \ {g}
  /\ UNCHANGED <<lapsed, call, grant, nth, wire, instance, posted, answered>>

\* A step of a call that is in progress.
CallSteps(r) ==
  ConsumeSucceeds(r) \/ ConsumeFails(r) \/ PostUnknown(r) \/ ReceiptRead(r)

\* A step of the service, the network or the clock.
Outside ==
  \/ \E w \in wire : PostArrives(w) \/ PostRefused(w) \/ PostLost(w)
  \/ \E g \in Grant : GrantLapses(g) \/ ReplayEntryExpires(g)

-----------------------------------------------------------------------------
\* A grant buys one write as long as it is valid, however many requests carry it and
\* in whatever order their calls reach the replay store.
GrantBuysOneWrite == \A g \in Grant : posted[g] > 1 => g \in lapsed

\* What refund_start says of its write is and stays true: `started' means that there
\* is an instance with these arguments; `refused' that this write made none and never
\* will, also when answers are lost or the write is late.
RefundAnswersAreTrue ==
  \A a \in answered :
    LET g == a[1][2]
        i == instance[KeyOf[g]]
    IN /\ a[2] = "started" => i # NoInstance /\ OpOf[i[2]] = OpOf[g]
       /\ a[2] = "refused" => a[1] \notin wire /\ i # a[1]
=============================================================================

----------------------------- MODULE ModelCall -----------------------------
(***************************************************************************)
(* A call of the language model through the layers the platform wraps      *)
(* around it (infrastructure/agentscope): the budget of the DAG run        *)
(* (dag_budget_model), the tenant's token budget kept by the Java budget   *)
(* authority (budget_model), the owner of the HTTP resources of a stream   *)
(* (closing_model) and the observer of usage (diagnostic_model, whose      *)
(* records DagDiagnostics adds).                                           *)
(*                                                                         *)
(* Two kinds of callers exist: the roles of a DAG run (planner, worker,    *)
(* critic, ...) wait for one whole response; the conversation candidate    *)
(* (conversation_candidate, api/conversation_app) relays a stream to an    *)
(* HTTP client and holds one of a few slots meanwhile.  They are different *)
(* processes, so that the calls of a behaviour are all of one kind.        *)
(*                                                                         *)
(* Token counts are small numbers.  The reservation is an estimate:        *)
(* what the provider really uses may lie below or above it.                *)
(***************************************************************************)
EXTENDS Naturals, Sequences, FiniteSets

CONSTANTS
  Call,      \* model calls
  Reserved,  \* tokens a call reserves at the authority
  Usage,     \* token counts the provider may use up
  MaxSlots,  \* asyncio.Semaphore(4) of create_conversation_app
  MaxText    \* bound on the pieces of text of one stream

ASSUME ModelCallAssumption ==
  /\ IsFiniteSet(Call)
  /\ Reserved \in Nat \ {0}
  /\ Usage \subseteq Nat \ {0} /\ IsFiniteSet(Usage) /\ Usage # {}
  /\ MaxSlots \in Nat \ {0}
  /\ MaxText \in Nat

VARIABLES
  kind,       \* who makes the call: dag or conversation
  pc,         \* where the call is
  attempt,    \* attempts its present RPC to the authority has behind it
  charge,     \* the authority: tokens charged to each operation id, 0 if it knows none
  used,       \* tokens the provider used up, 0 before the call reaches it
  report,     \* what the final response says of its usage
  resources,  \* ClosingOpenAIChatModel: closers that have not run
  slots,      \* free conversation slots
  text,       \* text the client was sent
  snapshot,   \* the whole text as the final chunk repeats it
  result      \* what the caller gets

callVars == <<kind, pc, attempt, charge, used, report, resources, slots, text, snapshot,
              result>>

\* A completed response has its usage, none, or one below zero; another one was cut off.
Reports == {"known", "unknown", "invalid", "interrupted"}

\* Mutant: each attempt is an operation of its own.
PerAttempt(c, n) == <<c, n>>

\* The operation id of an RPC: drawn once, before the first attempt.
OperationId(c, n) == <<c, 0>>

Operation == {<<c, n>> : c \in Call, n \in 0 .. 1}

CallInit ==
  /\ \E k \in {"dag", "conversation"} : kind = [c \in Call |-> k]
  /\ pc = [c \in Call |-> "idle"]
  /\ attempt = [c \in Call |-> 0]
  /\ charge = [o \in Operation |-> 0]
  /\ used = [c \in Call |-> 0]
  /\ report = [c \in Call |-> "none"]
  /\ resources = [c \in Call |-> {}]
  /\ slots = MaxSlots
  /\ text = [c \in Call |-> <<>>]
  /\ snapshot = [c \in Call |-> <<>>]
  /\ result = [c \in Call |-> "none"]

CallTypeOK ==
  /\ kind \in [Call -> {"dag", "conversation"}]
  /\ pc \in [Call -> {"idle", "reserve", "calling", "stream", "settle", "closeParser",
                   "closeResponse", "over"}]
  /\ attempt \in [Call -> 0 .. 1]
  /\ charge \in [Operation -> {0, Reserved} \cup Usage]
  /\ used \in [Call -> {0} \cup Usage]
  /\ report \in [Call -> Reports \cup {"none"}]
  /\ resources \in [Call -> SUBSET {"parser", "response"}]
  /\ slots \in 0 .. MaxSlots
  /\ result \in [Call -> {"none", "done", "error", "cancelled"}]

-----------------------------------------------------------------------------
(* The budget authority *)

\* What an RPC that reaches the authority leaves behind: it knows every operation once.
Charged(o, rpc) ==
  IF rpc = "reserve"
    THEN IF charge[o] = 0 THEN [charge EXCEPT ![o] = Reserved] ELSE charge
    ELSE [charge EXCEPT ![o] = used[o[1]]]

\* How an attempt ends for the client: with a valid answer, with a 503 or a transport
\* error, with any other answer, or in a cancellation of the caller.
Answer == {"ok", "retry", "refused", "cancelled"}

\* One attempt of BudgetAuthorityClient._request.  A request without a valid answer may
\* or may not have been carried out.
Attempt(c, arrives, answer) ==
  /\ answer = "ok" => arrives
  /\ charge' = IF arrives THEN Charged(OperationId(c, attempt[c]), pc[c]) ELSE charge

-----------------------------------------------------------------------------
(* The end of a call *)

\* The caller has its slot for as long as anything of its call is left.
SlotsAfter(c, where) ==
  IF where = "over" /\ kind[c] = "conversation" THEN slots + 1 ELSE slots

\* The call goes to its end with result r, by way of the closers if a stream is open.
Ends(c, r) ==
  LET where == IF resources[c] = {} THEN "over" ELSE "closeParser"
  IN /\ result' = [result EXCEPT ![c] = r]
     /\ pc' = [pc EXCEPT ![c] = where]
     /\ slots' = SlotsAfter(c, where)

\* Mutant: a closer that raises ends the clean-up.
AfterParserIfClosed(raises) == IF raises THEN "over" ELSE "closeResponse"

\* close() runs the next closer in a finally clause.
AfterParser(raises) == "closeResponse"

\* One closer of the stack, the parser's before the HTTP response's.  One that raises
\* or is cancelled turns a complete stream into a failed one.
Close(c, closer, raises) ==
  LET where == IF closer = "parser" THEN AfterParser(raises) ELSE "over"
  IN /\ pc[c] = IF closer = "parser" THEN "closeParser" ELSE "closeResponse"
     /\ resources' = [resources EXCEPT ![c] = @ \ {closer}]
     /\ result' = [result EXCEPT ![c] = IF raises /\ @ = "done" THEN "error" ELSE @]
     /\ pc' = [pc EXCEPT ![c] = where]
     /\ slots' = SlotsAfter(c, where)
     /\ UNCHANGED <<kind, attempt, charge, used, report, text, snapshot>>

-----------------------------------------------------------------------------
(* From the caller to the provider *)

\* A DAG role makes its call; a conversation request has a slot.
Begin(c) ==
  /\ pc[c] = "idle"
  /\ kind[c] = "conversation" => slots > 0
  /\ slots' = IF kind[c] = "conversation" THEN slots - 1 ELSE slots
  /\ pc' = [pc EXCEPT ![c] = "reserve"]
  /\ UNCHANGED <<kind, attempt, charge, used, report, resources, text, snapshot, result>>

\* The call is refused before any RPC: the DAG's budget or its recovery, an input or
\* output limit of budgeted_call, invalid input (400) or no slot within 0.1 s (429).
Refuse(c) ==
  /\ pc[c] = "idle"
  /\ pc' = [pc EXCEPT ![c] = "over"]
  /\ result' = [result EXCEPT ![c] = "error"]
  /\ UNCHANGED <<kind, attempt, charge, used, report, resources, slots, text, snapshot>>

\* Reserve or settle is tried a second time, once.
Retry(c, arrives) ==
  /\ pc[c] \in {"reserve", "settle"} /\ attempt[c] = 0
  /\ Attempt(c, arrives, "retry")
  /\ attempt' = [attempt EXCEPT ![c] = 1]
  /\ UNCHANGED <<kind, pc, used, report, resources, slots, text, snapshot, result>>

\* An RPC fails for good, and with it the call: neither the provider is called without
\* a reservation nor a response handed out that could not be settled.
RpcFails(c, arrives, answer) ==
  /\ pc[c] \in {"reserve", "settle"}
  /\ answer \in {"retry", "refused", "cancelled"}
  /\ answer = "retry" => attempt[c] = 1
  /\ Attempt(c, arrives, answer)
  /\ Ends(c, IF answer = "cancelled" THEN "cancelled" ELSE "error")
  /\ UNCHANGED <<kind, attempt, used, report, resources, text, snapshot>>

\* The reservation stands and the provider starts to work; it will use up u tokens,
\* whether or not anybody waits for the response.
ReserveSucceeds(c, u) ==
  /\ pc[c] = "reserve"
  /\ Attempt(c, TRUE, "ok")
  /\ pc' = [pc EXCEPT ![c] = "calling"]
  /\ attempt' = [attempt EXCEPT ![c] = 0]
  /\ used' = [used EXCEPT ![c] = u]
  /\ UNCHANGED <<kind, report, resources, slots, text, snapshot, result>>

\* settle(): only a completed response with its usage is settled.
Settles(r) == r = "known"

\* The provider raises, or the caller is cancelled while it waits for the response or,
\* in a conversation, for the next chunk; a stream may also end without a final chunk.
ProviderFails(c, r) ==
  /\ pc[c] \in {"calling", "stream"}
  /\ r \in {"error", "cancelled"}
  /\ Ends(c, r)
  /\ UNCHANGED <<kind, attempt, charge, used, report, resources, text, snapshot>>

-----------------------------------------------------------------------------
(* A whole response, for a role of the DAG *)

\* The result of a response once it is settled or needs no settlement; an interrupted
\* one is a cancellation to the roles of the DAG.
RoleResult(r) ==
  CASE r = "invalid" -> "error"
    [] r = "interrupted" -> "cancelled"
    [] OTHER -> "done"

Respond(c, r) ==
  /\ pc[c] = "calling" /\ kind[c] = "dag"
  /\ report' = [report EXCEPT ![c] = r]
  /\ IF Settles(r)
       THEN pc' = [pc EXCEPT ![c] = "settle"] /\ UNCHANGED <<slots, result>>
       ELSE Ends(c, RoleResult(r))
  /\ UNCHANGED <<kind, attempt, charge, used, resources, text, snapshot>>

-----------------------------------------------------------------------------
(* A stream, for the conversation candidate *)

\* The SDK has the HTTP response and its parser: both have to be closed.
StreamOpens(c) ==
  /\ pc[c] = "calling" /\ kind[c] = "conversation"
  /\ pc' = [pc EXCEPT ![c] = "stream"]
  /\ resources' = [resources EXCEPT ![c] = {"parser", "response"}]
  /\ UNCHANGED <<kind, attempt, charge, used, report, slots, text, snapshot, result>>

\* A chunk with new text, relayed to the client.  Only whether the final chunk repeats
\* a piece matters: it is "same", and "other" in a final chunk that differs.
Chunk(c) ==
  /\ pc[c] = "stream" /\ Len(text[c]) < MaxText
  /\ text' = [text EXCEPT ![c] = Append(@, "same")]
  /\ UNCHANGED <<kind, pc, attempt, charge, used, report, resources, slots, snapshot,
                 result>>

StartsWith(s, t) == Len(t) <= Len(s) /\ SubSeq(s, 1, Len(t)) = t

\* Mutant: the final chunk is taken for one more delta.
RelayWhole(c, s) == text[c] \o s

\* The final chunk repeats the whole text; what is left of it goes to the client.
Relay(c, s) == text[c] \o SubSeq(s, Len(text[c]) + 1, Len(s))

\* ConversationCandidate.stream with the final chunk s.  It refuses a chunk that was
\* interrupted or does not continue what was sent, and a rest that exceeds
\* MAX_OUTPUT_CHARS: the pieces of a text may have any size.
Complete(c, s, r) ==
  \/ /\ r # "interrupted" /\ StartsWith(s, text[c])
     /\ text' = [text EXCEPT ![c] = Relay(c, s)]
     /\ Ends(c, IF s = <<>> THEN "error" ELSE "done")
  \/ /\ r = "interrupted" \/ s # text[c]
     /\ Ends(c, "error")
     /\ UNCHANGED text

\* The final chunk arrives: it is settled first, and relayed only then.
FinalChunk(c, s, r) ==
  /\ pc[c] = "stream"
  /\ report' = [report EXCEPT ![c] = r]
  /\ snapshot' = [snapshot EXCEPT ![c] = s]
  /\ CASE Settles(r) -> pc' = [pc EXCEPT ![c] = "settle"] /\ UNCHANGED <<slots, text, result>>
       [] r = "invalid" -> Ends(c, "error") /\ UNCHANGED text
       [] OTHER -> Complete(c, s, r)
  /\ UNCHANGED <<kind, attempt, charge, used, resources>>

\* The settlement is confirmed and the response handed out.
SettleSucceeds(c) ==
  /\ pc[c] = "settle"
  /\ Attempt(c, TRUE, "ok")
  /\ IF kind[c] = "conversation"
       THEN Complete(c, snapshot[c], report[c])
       ELSE Ends(c, RoleResult(report[c])) /\ UNCHANGED text
  /\ UNCHANGED <<kind, attempt, used, report, resources, snapshot>>

-----------------------------------------------------------------------------
\* Steps of a call that the observer of usage does not see.
CallSteps(c) ==
  \/ Begin(c)
  \/ \E arrives \in BOOLEAN : Retry(c, arrives)
  \/ \E u \in Usage : ReserveSucceeds(c, u)
  \/ \E closer \in {"parser", "response"}, raises \in BOOLEAN : Close(c, closer, raises)
  \/ StreamOpens(c)
  \/ Chunk(c)
  \/ \E s \in UNION {[1 .. n -> {"same", "other"}] : n \in 0 .. MaxText}, r \in Reports :
       FinalChunk(c, s, r)

-----------------------------------------------------------------------------
Total(c) == charge[<<c, 0>>] + charge[<<c, 1>>]

\* The tenant is charged once for a call that reached the provider, although RPCs are
\* retried after answers were lost: what it really used if the response was settled,
\* and what was reserved, never nothing, if its usage is not known for certain.  A
\* caller gets a response with known usage only when it is settled.
ChargesAreRight ==
  \A c \in Call :
    /\ used[c] > 0 => Total(c) = Reserved \/ (report[c] = "known" /\ Total(c) = used[c])
    /\ result[c] = "done" /\ report[c] = "known" => Total(c) = used[c]

\* A stream's connection is closed when its call is over, however it ended and even if
\* a closer raised; no more connections are open than there are slots.
StreamsAreClosed ==
  /\ \A c \in Call : pc[c] = "over" => resources[c] = {}
  /\ Cardinality({c \in Call : resources[c] # {}}) <= MaxSlots - slots

\* A conversation that is reported complete gave its client exactly the provider's
\* final text, once.
ConversationIsWhole ==
  \A c \in Call : kind[c] = "conversation" /\ result[c] = "done" => text[c] = snapshot[c]
=============================================================================

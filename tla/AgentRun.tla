------------------------------ MODULE AgentRun ------------------------------
(***************************************************************************)
(* Runs of the agent (AgentScopeRunner) with the trajectory they collect,  *)
(* the governed tools they call and the remote sandbox behind the tools.   *)
(*                                                                         *)
(* The runs belong to one request context: the workers of a level of a DAG *)
(* in legacy mode run at the same time with the same identity and key, and *)
(* so share one remote browser session.  The ReAct loop itself is          *)
(* AgentScope's; what is modelled of it is the stream of events the runner *)
(* consumes: tool calls asked for, the end of a model call, tool results.  *)
(*                                                                         *)
(* An action is a tool with its arguments, the signature loops are         *)
(* detected by.                                                            *)
(***************************************************************************)
EXTENDS Naturals, Sequences, FiniteSets

CONSTANTS
  Run,               \* runs of one context
  Reraises,          \* those inside an optimized DAG: context.allowed_tools is set
  Action,            \* tool calls the model may ask for
  Safe,              \* those that may run beside others: is_concurrency_safe
  Browser,           \* those that act on the remote browser session
  MaxCalls,          \* bound on the tool calls of each run
  agent_max_tokens,  \* in model calls: each counts one
  agent_max_repeats,
  agent_loop_window

ASSUME AgentRunAssumption ==
  /\ IsFiniteSet(Run) /\ Reraises \subseteq Run
  /\ Safe \subseteq Action /\ Browser \subseteq Action
  /\ MaxCalls \in [Run -> Nat]
  /\ agent_max_tokens \in Nat \ {0}
  /\ agent_max_repeats \in Nat \ {0}
  /\ agent_loop_window \in Nat \ {0}

VARIABLES
  phase,     \* idle, model, acting, closing or over
  calls,     \* TrajectoryCollector._pending in order, with what became of each call
  modelDone, \* the present model call has reported its end
  tokens,    \* TrajectoryCollector.total_tokens
  reply,     \* the stop reason, "raised" if the caller gets an exception
  session,   \* the remote browser session is open
  late,      \* requests nobody waits for any more that may still reach the sandbox
  leaked     \* history: the last DELETE failed on its way, or a late request came after it

vars == <<phase, calls, modelDone, tokens, reply, session, late, leaked>>

\* asked for, running, answered, failed, abandoned with the run, or ended by mark_loop
CallState == {"asked", "running", "answered", "failed", "abandoned", "looped"}

TypeOK ==
  /\ phase \in [Run -> {"idle", "model", "acting", "closing", "over"}]
  /\ calls \in [Run -> Seq([action : Action, state : CallState])]
  /\ modelDone \in [Run -> BOOLEAN]
  /\ tokens \in [Run -> 0 .. agent_max_tokens]
  /\ reply \in [Run -> {"none", "DONE", "ERROR", "TIMEOUT", "CANCELLED", "BUDGET", "LOOP",
                        "MAX_STEPS", "raised"}]
  /\ session \in BOOLEAN /\ leaked \in BOOLEAN
  /\ late \subseteq Run \X Nat

Init ==
  /\ phase = [r \in Run |-> "idle"]
  /\ calls = [r \in Run |-> <<>>]
  /\ modelDone = [r \in Run |-> FALSE]
  /\ tokens = [r \in Run |-> 0]
  /\ reply = [r \in Run |-> "none"]
  /\ session = FALSE
  /\ late = {}
  /\ leaked = FALSE

Start(r) ==
  /\ phase[r] = "idle"
  /\ phase' = [phase EXCEPT ![r] = "model"]
  /\ UNCHANGED <<calls, modelDone, tokens, reply, session, late, leaked>>

In(r, state) == {i \in DOMAIN calls[r] : calls[r][i].state = state}

\* The run's reply is settled and its finally clause begins.
Stops(r, reason) ==
  /\ phase' = [phase EXCEPT ![r] = "closing"]
  /\ reply' = [reply EXCEPT ![r] = reason]

-----------------------------------------------------------------------------
(* Events of a model call *)

\* repeated_action: how often the latest signature is among the last ones.
Repeated(s) ==
  Cardinality({i \in DOMAIN s : i + agent_loop_window > Len(s) /\ s[i] = s[Len(s)]})
    >= agent_max_repeats

\* The model asks for a tool call: it is pending, and its signature is looked at before
\* anything runs.  The events of one call (start, delta, end) come one after the other
\* from a model that does not stream, to one consumer.
Ask(r, a) ==
  LET signatures == Append([i \in DOMAIN calls[r] |-> calls[r][i].action], a)
  IN /\ phase[r] = "model" /\ Len(calls[r]) < MaxCalls[r]
     /\ IF Repeated(signatures)
          THEN /\ calls' = [calls EXCEPT ![r] = Append(@, [action |-> a, state |-> "looped"])]
               /\ Stops(r, "LOOP")
          ELSE /\ calls' = [calls EXCEPT ![r] = Append(@, [action |-> a, state |-> "asked"])]
               /\ UNCHANGED <<phase, reply>>
     /\ UNCHANGED <<modelDone, tokens, session, late, leaked>>

\* The tokens are counted, and looked at; validate_finite_agent_limit refuses a limit of
\* 0, which would be none.
ModelCallEnd(r) ==
  /\ phase[r] = "model" /\ ~modelDone[r]
  /\ modelDone' = [modelDone EXCEPT ![r] = TRUE]
  /\ tokens' = [tokens EXCEPT ![r] = @ + 1]
  /\ IF tokens'[r] >= agent_max_tokens
       THEN Stops(r, "BUDGET")
       ELSE UNCHANGED <<phase, reply>>
  /\ UNCHANGED <<calls, session, late, leaked>>

\* The model call is over and asked for tools.
Act(r) ==
  /\ phase[r] = "model" /\ modelDone[r] /\ In(r, "asked") # {}
  /\ phase' = [phase EXCEPT ![r] = "acting"]
  /\ UNCHANGED <<calls, modelDone, tokens, reply, session, late, leaked>>

\* Or it asked for none: the reply ends, with a final message or without (ERROR), or
\* with the reason AgentScope gives.
ReplyEnds(r, reason) ==
  /\ phase[r] = "model" /\ modelDone[r] /\ In(r, "asked") = {}
  /\ reason \in {"DONE", "ERROR", "CANCELLED", "MAX_STEPS"}
  /\ Stops(r, reason)
  /\ UNCHANGED <<calls, modelDone, tokens, session, late, leaked>>

-----------------------------------------------------------------------------
(* Tools *)

\* A tool that is not safe beside others runs alone, in the order asked for.
MayRun(r, i) ==
  LET others == {calls[r][j].action : j \in In(r, "running")}
      earlier == {j \in In(r, "asked") : j < i}
  IN /\ others \cup {calls[r][i].action} \subseteq Safe \/ others = {}
     /\ calls[r][i].action \notin Safe => earlier = {}
     /\ \A j \in earlier : calls[r][j].action \in Safe

RunTool(r, i) ==
  /\ phase[r] = "acting" /\ i \in In(r, "asked") /\ MayRun(r, i)
  /\ calls' = [calls EXCEPT ![r][i].state = "running"]
  /\ UNCHANGED <<phase, modelDone, tokens, reply, session, late, leaked>>

Answers(r, i) ==
  /\ phase[r] = "acting" /\ i \in In(r, "running")
  /\ calls' = [calls EXCEPT ![r][i].state = "answered"]
  /\ UNCHANGED <<phase, modelDone, tokens, reply, late, leaked>>

\* The tool answers without a request: refused by the permission policy, its own checks
\* of the arguments, the dependency guard or the missing credential.
ToolRefused(r, i) == Answers(r, i) /\ UNCHANGED session

\* A browser tool has its reply: the action was carried out, in a session that is
\* opened by the first one.
BrowserReturns(r, i) ==
  /\ i \in DOMAIN calls[r] /\ calls[r][i].action \in Browser
  /\ Answers(r, i)
  /\ session' = TRUE

\* An MCP tool or code_exec has its reply.  Neither keeps anything at the provider.
RemoteReturns(r, i) ==
  /\ i \in DOMAIN calls[r] /\ calls[r][i].action \notin Browser
  /\ Answers(r, i) /\ UNCHANGED session

\* The request times out or its connection breaks; it is not sent again, but it may
\* still be carried out.
ToolFails(r, i) ==
  /\ phase[r] = "acting" /\ i \in In(r, "running")
  /\ calls' = [calls EXCEPT ![r][i].state = "failed"]
  /\ late' = IF calls[r][i].action \in Browser THEN late \cup {<<r, i>>} ELSE late
  /\ UNCHANGED <<phase, modelDone, tokens, reply, session, leaked>>

\* All tools have results: the next model call, or the end at max_iters.
NextStep(r, exceeded) ==
  /\ phase[r] = "acting" /\ In(r, "asked") \cup In(r, "running") = {}
  /\ IF exceeded
       THEN Stops(r, "MAX_STEPS") /\ UNCHANGED modelDone
       ELSE /\ phase' = [phase EXCEPT ![r] = "model"]
            /\ modelDone' = [modelDone EXCEPT ![r] = FALSE]
            /\ UNCHANGED reply
  /\ UNCHANGED <<calls, tokens, session, late, leaked>>

-----------------------------------------------------------------------------
(* The end of a run *)

\* agent_timeout_seconds pass, the caller cancels the run, or an exception ends it: of
\* a DAG budget it is passed on (raised), any other is an ERROR.  Tools under way are
\* abandoned.
Interrupt(r, cause) ==
  /\ phase[r] \in {"model", "acting"}
  /\ Stops(r, IF cause = "CANCELLED" /\ r \in Reraises THEN "raised" ELSE cause)
  /\ calls' = [calls EXCEPT ![r] = [i \in DOMAIN @ |->
                 IF i \in In(r, "running") THEN [@[i] EXCEPT !.state = "abandoned"] ELSE @[i]]]
  /\ late' = late \cup {<<r, i>> : i \in {j \in In(r, "running") : calls[r][j].action \in Browser}}
  /\ UNCHANGED <<modelDone, tokens, session, leaked>>

\* Mutant: the run's deadline still binds the clean-up.
HasTimeUnlessTimedOut(r) == reply[r] # "TIMEOUT"

\* reset_deadline comes before close_browser.
HasTime(r) == TRUE

Over(r) == phase' = [phase EXCEPT ![r] = "over"]

\* close_browser: the DELETE is carried out.  Without time the guard would raise before
\* anything is sent, which is logged only: no DELETE has failed, none was made.
Closes(r) ==
  /\ phase[r] = "closing"
  /\ session' = (session /\ ~HasTime(r))
  /\ leaked' = (leaked /\ ~HasTime(r))
  /\ Over(r)
  /\ UNCHANGED <<calls, modelDone, tokens, reply, late>>

\* It fails, with or without effect: logged only.
CloseFails(r, arrives) ==
  /\ phase[r] = "closing"
  /\ session' = (session /\ ~arrives)
  /\ leaked' = (leaked \/ ~arrives)
  /\ Over(r)
  /\ UNCHANGED <<calls, modelDone, tokens, reply, late>>

\* A cancellation inside the clean-up escapes to the caller.
CloseCancelled(r, arrives) ==
  /\ phase[r] = "closing"
  /\ session' = (session /\ ~arrives)
  /\ leaked' = (leaked \/ ~arrives)
  /\ Over(r)
  /\ reply' = [reply EXCEPT ![r] = "raised"]
  /\ UNCHANGED <<calls, modelDone, tokens, late>>

\* A request nobody waits for reaches the sandbox.
LateArrival(m) ==
  /\ m \in late
  /\ late' = late \ {m}
  /\ session' = TRUE
  /\ leaked' = TRUE
  /\ UNCHANGED <<phase, calls, modelDone, tokens, reply>>

Next ==
  \/ \E r \in Run :
       \/ Start(r)
       \/ \E a \in Action : Ask(r, a)
       \/ ModelCallEnd(r)
       \/ Act(r)
       \/ \E reason \in {"DONE", "ERROR", "CANCELLED", "MAX_STEPS"} : ReplyEnds(r, reason)
       \/ \E i \in DOMAIN calls[r] :
            \/ RunTool(r, i)
            \/ ToolRefused(r, i) \/ BrowserReturns(r, i) \/ RemoteReturns(r, i)
            \/ ToolFails(r, i)
       \/ \E exceeded \in BOOLEAN : NextStep(r, exceeded)
       \/ \E cause \in {"TIMEOUT", "CANCELLED", "ERROR", "raised"} : Interrupt(r, cause)
       \/ Closes(r)
       \/ \E arrives \in BOOLEAN : CloseFails(r, arrives) \/ CloseCancelled(r, arrives)
  \/ \E m \in late : LateArrival(m)

Spec == Init /\ [][Next]_vars

-----------------------------------------------------------------------------
\* When the runs of a context are over, their browser session is closed, whichever of
\* them opened or closed it and whatever stopped them; unless the last DELETE failed
\* or a request that had been given up arrived behind it.
BrowserIsClosed == (\A r \in Run : phase[r] = "over") /\ session => leaked
=============================================================================

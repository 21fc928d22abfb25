---------------------------- MODULE AgentSession ----------------------------
(***************************************************************************)
(* AgentSessionService.run (application/session.py) over the session       *)
(* stores (persistence/agent_session.py), with the run of the agent it     *)
(* starts (AgentScopeRunner) and the governed tool calls of that run       *)
(* (ToolConfirmation).  All requests name one session id and may be        *)
(* handled by different processes.                                         *)
(*                                                                         *)
(* The checkpoint keeps, for the control: revision, status, whether its    *)
(* lease is over, side_effect_observed, whether its steps show a governed  *)
(* tool, the digest of the creator's idempotency key and the owner and     *)
(* goal.  gen and by are history: which incarnation of the session it is,  *)
(* and which request runs or ran it.                                       *)
(*                                                                         *)
(* pc[r]:                                                                  *)
(*   idle             not sent yet                                         *)
(*   create, take     awaits the compare_and_set that starts the run       *)
(*   run              the agent runs, between its tool calls               *)
(*   tool             awaits a governed tool                               *)
(*   progress         awaits persist_progress                              *)
(*   finish, pause    awaits the compare_and_set that completes the run    *)
(*   done, rejected, failed, dead     answered, refused, raised, crashed   *)
(***************************************************************************)
EXTENDS ToolConfirmation

CONSTANTS
  Owner,      \* who asks: tenant, user and goal
  NoSession,  \* no checkpoint
  NoContext,  \* a request that is not being handled
  MaxGen,     \* incarnations of the session: it may expire MaxGen - 1 times
  MaxCalls    \* tool calls of one run

ASSUME SessionAssumption == MaxGen \in Nat \ {0} /\ MaxCalls \in Nat

VARIABLES
  gen,       \* history: incarnations of the session that have expired
  store,     \* the stored checkpoint
  pc,
  ctx,       \* RunContext: the owner, idempotency_key and confirmation_grants
  current,   \* the checkpoint a request read, then the one it wrote last
  seen,      \* the steps collected so far show a governed tool
  calls,     \* tool calls of the run
  reply,     \* the checkpoint a request was answered with
  acted      \* history: <<incarnation, key>> of the writes sent for the session

sessionVars == <<gen, store, pc, ctx, current, seen, calls, reply, acted>>
vars == <<confirmationVars, sessionVars>>

Checkpoint == [gen : Nat, revision : Nat, status : {"RUNNING", "PAUSED", "SUCCEEDED"},
               lapsed : BOOLEAN, side_effect : BOOLEAN, acts : BOOLEAN,
               key : IKey \cup {NoKey}, who : Owner, by : Request]

Asked == [who : Owner, key : IKey \cup {NoKey}, grants : SUBSET Grant]
Context == Asked \cup {NoContext}

ASSUME NoSessionAssumption == NoSession \notin Checkpoint /\ NoContext \notin Asked

Running == {"run", "tool", "progress", "finish", "pause"}
Active == Running \cup {"create", "take"}

\* The last conjunct: a run writes its checkpoint over the one it wrote before.
SessionTypeOK ==
  /\ ConfirmationTypeOK
  /\ gen \in Nat
  /\ store \in Checkpoint \cup {NoSession}
  /\ pc \in [Request -> {"idle", "done", "rejected", "failed", "dead"} \cup Active]
  /\ ctx \in [Request -> Context]
  /\ current \in [Request -> Checkpoint \cup {NoSession}]
  /\ seen \in [Request -> BOOLEAN]
  /\ calls \in [Request -> 0 .. MaxCalls]
  /\ reply \in [Request -> Checkpoint \cup {NoSession}]
  /\ acted \subseteq Nat \X IKey
  /\ \A r \in Request : pc[r] \in Running => current[r] # NoSession /\ current[r].by = r

Init ==
  /\ ConfirmationInit
  /\ gen = 0
  /\ store = NoSession
  /\ pc = [r \in Request |-> "idle"]
  /\ ctx = [r \in Request |-> NoContext]
  /\ current = [r \in Request |-> NoSession]
  /\ seen = [r \in Request |-> FALSE]
  /\ calls = [r \in Request |-> 0]
  /\ reply = [r \in Request |-> NoSession]
  /\ acted = {}

\* The request is over: nothing is left of what it held.
Leaves(r, end) ==
  /\ pc' = [pc EXCEPT ![r] = end]
  /\ ctx' = [ctx EXCEPT ![r] = NoContext]
  /\ current' = [current EXCEPT ![r] = NoSession]
  /\ seen' = [seen EXCEPT ![r] = FALSE]
  /\ calls' = [calls EXCEPT ![r] = 0]

-----------------------------------------------------------------------------
(***************************************************************************)
(* compare_and_set.                                                        *)
(***************************************************************************)

\* Mutant: any checkpoint is overwritten.
MatchesAny(r) == current[r] = NoSession => store = NoSession

\* expected_revision None: there is no checkpoint; otherwise there is one of that revision.
Matches(r) ==
  IF current[r] = NoSession THEN store = NoSession
  ELSE store # NoSession /\ store.revision = current[r].revision

AfterWrite(r, c) == c

\* compare_and_set(c) succeeds, and the caller knows.
Written(r, c) ==
  /\ Matches(r)
  /\ store' = c
  /\ current' = [current EXCEPT ![r] = AfterWrite(r, c)]

\* It is refused, it fails, or it succeeds and the answer is lost.
NotWritten(r, c) == UNCHANGED store \/ (Matches(r) /\ store' = c)

-----------------------------------------------------------------------------
(***************************************************************************)
(* run(), up to the start of the agent.                                    *)
(***************************************************************************)

\* Mutant: a session that has succeeded is not terminal.
TerminalNever(c) == FALSE

\* AgentSessionStatus.terminal; FAILED and CANCELLED are never written.
Terminal(c) == c.status = "SUCCEEDED"

\* _validate_resume, with what the request carries.
_validate_resume(who, key, G) ==
  /\ store.who = who
  /\ ~(store.status = "RUNNING" /\ ~store.lapsed)
  /\ store.side_effect /\ ~Terminal(store) => key = store.key /\ G \ lapsed # {}

\* The request arrives with key and G and reads the checkpoint.
Arrive(r) ==
  /\ pc[r] = "idle"
  /\ \E who \in Owner, key \in IKey \cup {NoKey}, G \in SUBSET Grant :
       /\ verify_tokens(key, G)
       /\ \/ /\ store # NoSession /\ ~_validate_resume(who, key, G)
             /\ Leaves(r, "rejected")
             /\ UNCHANGED reply
          \/ /\ store # NoSession /\ _validate_resume(who, key, G) /\ Terminal(store)
             /\ Leaves(r, "done")
             /\ reply' = [reply EXCEPT ![r] = store]
          \/ /\ store # NoSession => _validate_resume(who, key, G) /\ ~Terminal(store)
             /\ pc' = [pc EXCEPT ![r] = IF store = NoSession THEN "create" ELSE "take"]
             /\ ctx' = [ctx EXCEPT ![r] = [who |-> who, key |-> key, grants |-> G]]
             /\ current' = [current EXCEPT ![r] = store]
             /\ UNCHANGED <<seen, calls, reply>>
  /\ UNCHANGED <<confirmationVars, gen, store, acted>>

\* The checkpoint that starts the run.
Started(r) ==
  IF current[r] = NoSession
    THEN [gen |-> gen, revision |-> 0, status |-> "RUNNING", lapsed |-> FALSE,
          side_effect |-> FALSE, acts |-> FALSE, key |-> ctx[r].key, who |-> ctx[r].who, by |-> r]
    ELSE [current[r] EXCEPT !.revision = @ + 1, !.status = "RUNNING", !.lapsed = FALSE, !.by = r]

RunStarts(r) ==
  /\ pc[r] \in {"create", "take"}
  /\ Written(r, Started(r))
  /\ seen' = [seen EXCEPT ![r] = Started(r).acts]
  /\ pc' = [pc EXCEPT ![r] = "run"]
  /\ UNCHANGED <<confirmationVars, gen, ctx, calls, reply, acted>>

\* AgentSessionConflictError, or an error of the store.
StartFails(r) ==
  /\ pc[r] \in {"create", "take"}
  /\ NotWritten(r, Started(r))
  /\ Leaves(r, "failed")
  /\ UNCHANGED <<confirmationVars, gen, reply, acted>>

-----------------------------------------------------------------------------
(***************************************************************************)
(* The agent's run and persist_progress.                                   *)
(***************************************************************************)

\* A read-only tool returns.
ReadOnlyTool(r) ==
  /\ pc[r] = "run" /\ calls[r] < MaxCalls
  /\ calls' = [calls EXCEPT ![r] = @ + 1]
  /\ pc' = [pc EXCEPT ![r] = "progress"]
  /\ UNCHANGED <<confirmationVars, gen, store, ctx, current, seen, reply, acted>>

GovernedTool(r) ==
  /\ pc[r] = "run" /\ calls[r] < MaxCalls
  /\ calls' = [calls EXCEPT ![r] = @ + 1]
  /\ pc' = [pc EXCEPT ![r] = "tool"]
  /\ \E op \in Op : CallDenied(r, ctx[r].key, ctx[r].grants, op)
                      \/ CallAllowed(r, ctx[r].key, ctx[r].grants, op)
  /\ UNCHANGED <<gen, store, ctx, current, seen, reply, acted>>

ToolSteps(r) ==
  /\ pc[r] = "tool"
  /\ CallSteps(r)
  /\ acted' = IF posted' # posted THEN acted \cup {<<current[r].gen, ctx[r].key>>} ELSE acted
  /\ UNCHANGED <<gen, store, pc, ctx, current, seen, calls, reply>>

\* ToolResultEndEvent, whether the tool was allowed or not.
ToolReturns(r) ==
  /\ pc[r] = "tool" /\ call[r] \in Result
  /\ CallGone(r)
  /\ seen' = [seen EXCEPT ![r] = TRUE]
  /\ pc' = [pc EXCEPT ![r] = "progress"]
  /\ UNCHANGED <<gen, store, ctx, current, calls, reply, acted>>

\* The checkpoint after a tool result; its lease is renewed.
Progressed(r) ==
  [current[r] EXCEPT !.revision = @ + 1, !.lapsed = FALSE, !.acts = seen[r],
                     !.side_effect = @ \/ seen[r]]

\* A checkpoint with a side effect needs a key, or it could not be read again.
NeedsKey(r) == Progressed(r).side_effect /\ current[r].key = NoKey

ProgressSaved(r) ==
  /\ pc[r] = "progress" /\ ~NeedsKey(r)
  /\ Written(r, Progressed(r))
  /\ pc' = [pc EXCEPT ![r] = "run"]
  /\ UNCHANGED <<confirmationVars, gen, ctx, seen, calls, reply, acted>>

\* persist_progress raises: AgentScopeRunner makes stop reason ERROR of it.
ProgressFails(r) ==
  /\ pc[r] = "progress"
  /\ IF NeedsKey(r) THEN UNCHANGED store ELSE NotWritten(r, Progressed(r))
  /\ pc' = [pc EXCEPT ![r] = "pause"]
  /\ UNCHANGED <<confirmationVars, gen, ctx, current, seen, calls, reply, acted>>

\* The agent ends, with stop reason DONE or another one.
RunEnds(r) ==
  /\ pc[r] = "run"
  /\ \E next \in {"finish", "pause"} : pc' = [pc EXCEPT ![r] = next]
  /\ UNCHANGED <<confirmationVars, gen, store, ctx, current, seen, calls, reply, acted>>

\* agent_timeout_seconds, or a cancellation: the tool call is abandoned.
RunTimesOut(r) ==
  /\ pc[r] \in {"run", "tool"}
  /\ pc' = [pc EXCEPT ![r] = "pause"]
  /\ CallGone(r)
  /\ UNCHANGED <<gen, store, ctx, current, seen, calls, reply, acted>>

-----------------------------------------------------------------------------
(***************************************************************************)
(* The end of run().                                                       *)
(***************************************************************************)

\* side_effect_observed stays what persist_progress last saved.
Completed(r) ==
  [current[r] EXCEPT !.revision = @ + 1, !.lapsed = FALSE, !.acts = seen[r],
                     !.status = IF pc[r] = "finish" THEN "SUCCEEDED" ELSE "PAUSED"]

RunCompletes(r) ==
  /\ pc[r] \in {"finish", "pause"}
  /\ Matches(r)
  /\ store' = Completed(r)
  /\ reply' = [reply EXCEPT ![r] = Completed(r)]
  /\ Leaves(r, "done")
  /\ UNCHANGED <<confirmationVars, gen, acted>>

CompletionFails(r) ==
  /\ pc[r] \in {"finish", "pause"}
  /\ NotWritten(r, Completed(r))
  /\ Leaves(r, "failed")
  /\ UNCHANGED <<confirmationVars, gen, reply, acted>>

\* The process dies.
Crash(r) ==
  /\ pc[r] \in Active
  /\ Leaves(r, "dead")
  /\ CallGone(r)
  /\ UNCHANGED <<gen, store, reply, acted>>

-----------------------------------------------------------------------------
\* lease_expires_at passes, whether or not the run goes on.
LeaseLapses ==
  /\ store # NoSession /\ store.status = "RUNNING" /\ ~store.lapsed
  /\ store' = [store EXCEPT !.lapsed = TRUE]
  /\ UNCHANGED <<confirmationVars, gen, pc, ctx, current, seen, calls, reply, acted>>

\* expires_at passes.  A run is over long before (agent_timeout_seconds).
SessionExpires ==
  /\ store # NoSession /\ gen + 1 < MaxGen
  /\ \A r \in Request : pc[r] \notin Active
  /\ store' = NoSession
  /\ gen' = gen + 1
  /\ UNCHANGED <<confirmationVars, pc, ctx, current, seen, calls, reply, acted>>

Serve(r) ==
  \/ Arrive(r) \/ RunStarts(r) \/ StartFails(r)
  \/ ReadOnlyTool(r) \/ GovernedTool(r) \/ ToolSteps(r) \/ ToolReturns(r)
  \/ ProgressSaved(r) \/ ProgressFails(r) \/ RunEnds(r) \/ RunTimesOut(r)
  \/ RunCompletes(r) \/ CompletionFails(r) \/ Crash(r)

Next ==
  \/ \E r \in Request : Serve(r)
  \/ LeaseLapses \/ SessionExpires
  \/ Outside /\ UNCHANGED sessionVars

Spec == Init /\ [][Next]_vars

-----------------------------------------------------------------------------
(***************************************************************************)
(* Properties.                                                             *)
(***************************************************************************)

\* Whoever changes the checkpoint is the request that runs the session, or takes over
\* from one that is paused or whose lease is over, with the owner, the goal and, after
\* a recorded side effect, the key of the session.  A run that was taken over changes
\* nothing, and no decision is based on a checkpoint that is no longer the stored one.
\* What is stored records no side effect without a key: model_copy does not validate,
\* and the next read of such a checkpoint would fail.
WritesAreFenced ==
  [][store # NoSession /\ store' # NoSession /\ store'.revision # store.revision =>
       /\ store'.revision = store.revision + 1
       /\ store.status # "SUCCEEDED"
       /\ store'.by # store.by =>
            /\ store.status = "RUNNING" => store.lapsed
            /\ ctx[store'.by].who = store.who
            /\ store.side_effect => ctx[store'.by].key = store.key
       /\ store'.side_effect => store'.key # NoKey]_vars

\* All callers who are told that a session has succeeded get the result of one and the
\* same run, which is the stored one as long as that incarnation is stored.
OneAnswer ==
  \A r \in Request : reply[r] # NoSession /\ reply[r].status = "SUCCEEDED" =>
    /\ \A q \in Request :
         /\ reply[q] # NoSession /\ reply[q].gen = reply[r].gen
         /\ reply[q].status = "SUCCEEDED"
         => reply[q] = reply[r]
    /\ store # NoSession /\ store.gen = reply[r].gen => store = reply[r]

\* A paused session for which a governed write was sent is resumed only with the key of
\* that write and a confirmation.
SideEffectResumeIsConfirmed ==
  [][store # NoSession /\ store' # NoSession /\ store'.by # store.by /\ store.status = "PAUSED" =>
       \A k \in IKey : <<store.gen, k>> \in acted =>
         ctx[store'.by].key = k /\ ctx[store'.by].grants # {}]_vars
=============================================================================

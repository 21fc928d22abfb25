---------------------------- MODULE DagExecution ----------------------------
(***************************************************************************)
(* AgentDagApplicationService in optimized mode (application/dag.py): the  *)
(* readiness scheduler run_ready and the worker capacity that all DAGs of  *)
(* a process share (dag_scheduler.py), the reuse of results between the    *)
(* rounds of the quality loop (dag_reuse.py) and the budget of a run       *)
(* (dag_budget.py), without a checkpoint (that is DagRecovery).            *)
(*                                                                         *)
(* Answers are abstract: a result is its stop reason, its version (the     *)
(* uuid of the execution), the description it was made for and the         *)
(* versions of the results it was made from.                               *)
(*                                                                         *)
(* pc[r][n], the coroutine of node n in the current round of run r:        *)
(*   none        not submitted                                             *)
(*   submitted   created by create_task                                    *)
(*   waitTenant  in acquire(), waits for the tenant's semaphore            *)
(*   waitGlobal  holds it, waits for the global one                        *)
(*   running     holds both, the agent runs                                *)
(*   finished    has a result that run_ready has not looked at             *)
(*   error       has raised                                                *)
(*   collected   its result is in results                                  *)
(***************************************************************************)
EXTENDS Naturals, FiniteSets

CONSTANTS
  Run,                  \* runs of DAGs in one process
  Node,                 \* ids of tasks
  Desc,                 \* descriptions of tasks
  Requested,            \* Requested[r]: the plans the request of r may come with
  Revised,              \* Revised[r]: the plans its replanner may return
  tenant,               \* tenant[r]: whose run it is
  Reviewed,             \* the runs of a service with review_policy.enabled
  max_tasks,
  max_replans,
  Score,                \* aggregated critiques, scaled to naturals
  threshold,            \* the score that accepts
  total,                \* slots of the process
  per_tenant,           \* slots of a tenant
  max_inflight,         \* workers that run or wait, of the process
  max_tenant_inflight,  \* and of a tenant
  max_model_calls,      \* max_model_calls[r]: of the DagRunLimits of its service
  NoResult

Tenant == {tenant[r] : r \in Run}
Plan == [tasks : SUBSET Node, deps : [Node -> SUBSET Node], desc : [Node -> Desc]]

ASSUME DagAssumption ==
  /\ Reviewed \subseteq Run
  /\ \A r \in Run : Requested[r] \subseteq Plan /\ Revised[r] \subseteq Plan
  /\ {max_tasks, total, per_tenant, max_inflight, max_tenant_inflight} \subseteq Nat \ {0}
  /\ per_tenant <= total
  /\ {max_replans, threshold} \subseteq Nat
  /\ max_model_calls \in [Run -> Nat]
  /\ Score \subseteq Nat /\ 0 \in Score

VARIABLES
  phase,      \* idle, execute, unwind, synthesize, critique, revise, replied, raised
  attempt,    \* the round of the quality loop
  plan,       \* the tasks of this round
  pc,
  result,     \* the results of this round
  cache,      \* DagResultReuse._entries
  versions,   \* how many executions a run has had: the next version
  synthesis,  \* stop reason of the last synthesis
  accepted,   \* acceptedByThreshold
  calls,      \* DagRunBudget.model_calls
  exhausted,  \* DagRunBudget.exhausted
  users,      \* _TenantSlots.users
  inflight,   \* DagWorkerCapacity._inflight
  free,       \* free slots of a tenant's semaphore
  freeGlobal  \* free slots of the global one

capacityVars == <<users, inflight, free, freeGlobal>>
budgetVars == <<calls, exhausted>>
roundVars == <<attempt, plan>>
nodeVars == <<pc, result, cache, versions>>
vars == <<phase, roundVars, nodeVars, synthesis, accepted, budgetVars, capacityVars>>

Result == [stop : {"DONE", "ERROR", "SKIPPED"}, version : Nat, desc : Desc,
           inputs : [Node -> Nat]]

ASSUME NoResultAssumption == NoResult \notin Result

Ended == {"replied", "raised"}
Waiting == {"waitTenant", "waitGlobal"}
Pending == {"submitted", "running"} \cup Waiting

DagTypeOK ==
  /\ phase \in [Run -> {"idle", "execute", "unwind", "synthesize", "critique", "revise"}
                         \cup Ended]
  /\ attempt \in [Run -> 0 .. max_replans + 1]
  /\ plan \in [Run -> Plan]
  /\ pc \in [Run -> [Node -> {"none", "finished", "error", "collected"} \cup Pending]]
  /\ result \in [Run -> [Node -> Result \cup {NoResult}]]
  /\ cache \in [Run -> [Node -> Result \cup {NoResult}]]
  /\ versions \in [Run -> Nat]
  /\ synthesis \in [Run -> {"none", "DONE", "PARTIAL"}]
  /\ accepted \in [Run -> BOOLEAN]
  /\ calls \in [Run -> Nat]
  /\ exhausted \in [Run -> BOOLEAN]
  /\ users \in [Tenant -> Nat]
  /\ inflight \in Nat
  /\ free \in [Tenant -> Nat]
  /\ freeGlobal \in Nat
  /\ \A r \in Run, n \in Node : pc[r][n] \in {"finished", "collected"} => result[r][n] # NoResult

NoNodes == [n \in Node |-> "none"]
NoResults == [n \in Node |-> NoResult]

Init ==
  /\ phase = [r \in Run |-> "idle"]
  /\ attempt = [r \in Run |-> 0]
  /\ plan \in [Run -> UNION {Requested[r] : r \in Run}]
  /\ \A r \in Run : plan[r] \in Requested[r]
  /\ pc = [r \in Run |-> NoNodes]
  /\ result = [r \in Run |-> NoResults]
  /\ cache = [r \in Run |-> NoResults]
  /\ versions = [r \in Run |-> 0]
  /\ synthesis = [r \in Run |-> "none"]
  /\ accepted = [r \in Run |-> FALSE]
  /\ calls = [r \in Run |-> 0]
  /\ exhausted = [r \in Run |-> FALSE]
  /\ users = [t \in Tenant |-> 0]
  /\ inflight = 0
  /\ free = [t \in Tenant |-> per_tenant]
  /\ freeGlobal = total

-----------------------------------------------------------------------------
(***************************************************************************)
(* The round: validation, submission, collection.                          *)
(***************************************************************************)

\* _topological_levels finds a next level until all tasks are processed: no set of
\* tasks is left in which each one waits for another.
HasLevels(p) ==
  \A S \in SUBSET p.tasks : S # {} => \E n \in S : p.deps[n] \cap S = {}

\* _validate_and_normalize
Valid(p) ==
  /\ p.tasks # {} /\ Cardinality(p.tasks) <= max_tasks
  /\ \A n \in p.tasks : p.deps[n] \subseteq p.tasks
  /\ HasLevels(p)

\* `upstream.issubset(results)', for the results that are collected.
Ready(p, rs, n) == n \in p.tasks /\ \A d \in p.deps[n] : rs[d] # NoResult

\* The nodes of a round after those of S have been collected.
Submitted(r, p, S) ==
  LET got == [n \in Node |-> IF n \in S THEN result[r][n] ELSE NoResult]
  IN [n \in Node |->
        IF n \in S THEN "collected"
        ELSE IF pc[r][n] = "none" /\ Ready(p, got, n) THEN "submitted" ELSE pc[r][n]]

\* The run starts; run_ready submits what depends on nothing.
Begin(r) ==
  /\ phase[r] = "idle"
  /\ IF Valid(plan[r])
       THEN /\ phase' = [phase EXCEPT ![r] = "execute"]
            /\ attempt' = [attempt EXCEPT ![r] = 1]
            /\ pc' = [pc EXCEPT ![r] = Submitted(r, plan[r], {})]
       ELSE /\ phase' = [phase EXCEPT ![r] = "raised"]
            /\ UNCHANGED <<attempt, pc>>
  /\ UNCHANGED <<plan, result, cache, versions, synthesis, accepted, budgetVars, capacityVars>>

Nodes(r, S) == {n \in Node : pc[r][n] \in S}

\* asyncio.wait returns what has finished, and none of it has raised.  As long as a
\* result is missing something is pending: a valid plan has no cycle to get stuck in, so
\* that `task graph cannot make progress' is never raised.
Collect(r) ==
  /\ phase[r] = "execute"
  /\ Nodes(r, {"finished"}) # {} /\ Nodes(r, {"error"}) = {}
  /\ LET got == Nodes(r, {"finished", "collected"})
     IN /\ pc' = [pc EXCEPT ![r] = Submitted(r, plan[r], got)]
        /\ phase' = [phase EXCEPT ![r] = IF got = plan[r].tasks THEN "synthesize" ELSE @]
  /\ UNCHANGED <<roundVars, result, cache, versions, synthesis, accepted, budgetVars, capacityVars>>

\* work.result() raises, or the run is cancelled: by its deadline, by its caller, or
\* because a progress event could not be emitted.
Unwind(r) ==
  /\ phase[r] = "execute"
  /\ phase' = [phase EXCEPT ![r] = "unwind"]
  /\ UNCHANGED <<roundVars, nodeVars, synthesis, accepted, budgetVars, capacityVars>>

\* gather(*pending, return_exceptions=True)
Converged(r) == Nodes(r, Pending) = {}

UnwindEnds(r) ==
  /\ phase[r] = "unwind" /\ Converged(r)
  /\ phase' = [phase EXCEPT ![r] = "raised"]
  /\ UNCHANGED <<roundVars, nodeVars, synthesis, accepted, budgetVars, capacityVars>>

-----------------------------------------------------------------------------
(***************************************************************************)
(* A node: execute_node and _run_one.                                      *)
(***************************************************************************)

Runnable(r) == phase[r] \in {"execute", "unwind"}

\* The part of DagResultReuse.fingerprint that is not the description.
InputVersions(r, n) ==
  [d \in Node |-> IF d \in plan[r].deps[n] THEN result[r][d].version ELSE 0]

\* Mutant: the fingerprint has the ids of the dependencies, not their versions.
SameInputsById(r, n) ==
  /\ cache[r][n] # NoResult
  /\ cache[r][n].desc = plan[r].desc[n]
  /\ {d \in Node : cache[r][n].inputs[d] # 0} = plan[r].deps[n]

\* What the fingerprint of a stored result says.
SameInputs(r, n) ==
  /\ cache[r][n] # NoResult
  /\ cache[r][n].desc = plan[r].desc[n]
  /\ cache[r][n].inputs = InputVersions(r, n)

UpstreamFailed(r, n) == \E d \in plan[r].deps[n] : result[r][d].stop # "DONE"

Enters(r, n) == phase[r] = "execute" /\ pc[r][n] = "submitted"

\* The result of an earlier round is taken, version included.
NodeReused(r, n) ==
  /\ Enters(r, n) /\ SameInputs(r, n)
  /\ pc' = [pc EXCEPT ![r][n] = "finished"]
  /\ result' = [result EXCEPT ![r][n] = cache[r][n]]
  /\ UNCHANGED <<phase, roundVars, cache, versions, synthesis, accepted, budgetVars, capacityVars>>

\* record(): a new version for whatever was executed; only the latest result is kept,
\* and only if it is reusable.
Record(r, n, stop, reusable) ==
  LET made == [stop |-> stop, version |-> versions[r] + 1, desc |-> plan[r].desc[n],
               inputs |-> InputVersions(r, n)]
  IN /\ versions' = [versions EXCEPT ![r] = @ + 1]
     /\ result' = [result EXCEPT ![r][n] = made]
     /\ cache' = [cache EXCEPT ![r][n] = IF stop = "DONE" /\ reusable THEN made ELSE NoResult]
     /\ pc' = [pc EXCEPT ![r][n] = "finished"]

\* A dependency did not end well: SKIPPED, without a slot and without a model call.
NodeSkipped(r, n) ==
  /\ Enters(r, n) /\ ~SameInputs(r, n) /\ UpstreamFailed(r, n)
  /\ Record(r, n, "SKIPPED", FALSE)
  /\ UNCHANGED <<phase, roundVars, synthesis, accepted, budgetVars, capacityVars>>

\* acquire(), up to the first semaphore.
Overloaded(t) == inflight >= max_inflight \/ users[t] >= max_tenant_inflight

NodeQueued(r, n) ==
  /\ Enters(r, n) /\ ~SameInputs(r, n) /\ ~UpstreamFailed(r, n)
  /\ ~Overloaded(tenant[r])
  /\ pc' = [pc EXCEPT ![r][n] = "waitTenant"]
  /\ users' = [users EXCEPT ![tenant[r]] = @ + 1]
  /\ inflight' = inflight + 1
  /\ UNCHANGED <<phase, roundVars, result, cache, versions, synthesis, accepted, budgetVars,
                 free, freeGlobal>>

\* DagCapacityExceeded, or evidence beyond its limit.
NodeRefused(r, n) ==
  /\ Enters(r, n) /\ ~SameInputs(r, n) /\ ~UpstreamFailed(r, n)
  /\ pc' = [pc EXCEPT ![r][n] = "error"]
  /\ UNCHANGED <<phase, roundVars, result, cache, versions, synthesis, accepted, budgetVars,
                 capacityVars>>

NodeTakesTenantSlot(r, n) ==
  /\ phase[r] = "execute" /\ pc[r][n] = "waitTenant" /\ free[tenant[r]] > 0
  /\ pc' = [pc EXCEPT ![r][n] = "waitGlobal"]
  /\ free' = [free EXCEPT ![tenant[r]] = @ - 1]
  /\ UNCHANGED <<phase, roundVars, result, cache, versions, synthesis, accepted, budgetVars,
                 users, inflight, freeGlobal>>

NodeTakesSlot(r, n) ==
  /\ phase[r] = "execute" /\ pc[r][n] = "waitGlobal" /\ freeGlobal > 0
  /\ pc' = [pc EXCEPT ![r][n] = "running"]
  /\ freeGlobal' = freeGlobal - 1
  /\ UNCHANGED <<phase, roundVars, result, cache, versions, synthesis, accepted, budgetVars,
                 users, inflight, free>>

\* Mutant: a worker that is done gives back the tenant's slot only.
LeavesCapacityWithGlobal(r, n) ==
  /\ users' = [users EXCEPT ![tenant[r]] = @ - 1]
  /\ inflight' = inflight - 1
  /\ free' = [free EXCEPT ![tenant[r]] = IF pc[r][n] = "waitTenant" THEN @ ELSE @ + 1]
  /\ UNCHANGED freeGlobal

\* Mutant: a worker that is cancelled while it waits stays counted.
LeavesCapacityLate(r, n) ==
  IF pc[r][n] = "running"
    THEN /\ users' = [users EXCEPT ![tenant[r]] = @ - 1]
         /\ inflight' = inflight - 1
         /\ free' = [free EXCEPT ![tenant[r]] = @ + 1]
         /\ freeGlobal' = freeGlobal + 1
    ELSE UNCHANGED capacityVars

\* The way out of acquire(), from wherever the worker is in it.  The tenant's semaphore
\* is dropped with its last user and made anew, with all its slots, for the next one.
LeavesCapacity(r, n) ==
  LET t == tenant[r]
  IN /\ users' = [users EXCEPT ![t] = @ - 1]
     /\ inflight' = inflight - 1
     /\ free' = [free EXCEPT ![t] = IF users[t] = 1 THEN per_tenant
                                    ELSE IF pc[r][n] = "waitTenant" THEN @ ELSE @ + 1]
     /\ freeGlobal' = IF pc[r][n] = "running" THEN freeGlobal + 1 ELSE freeGlobal

\* Mutant: nobody asks whether the budget is exhausted.
AvailableAlways(r) == TRUE

\* DagRunBudget.ensure_available
Available(r) == ~exhausted[r]

\* DagRunBudget.reserve.  Tokens are not counted: any call may be one too many for them.
Reserve(r) ==
  /\ Available(r) /\ calls[r] < max_model_calls[r]
  /\ calls' = [calls EXCEPT ![r] = @ + 1]
  /\ UNCHANGED exhausted
ReserveFails(r) ==
  /\ exhausted' = [exhausted EXCEPT ![r] = TRUE]
  /\ UNCHANGED calls

\* A model call of the agent.  When it is refused, the exception may end the agent
\* (NodeRaises) or be turned into a result on the way.
NodeCalls(r, n) ==
  /\ Runnable(r) /\ pc[r][n] = "running"
  /\ Reserve(r) \/ ReserveFails(r)
  /\ UNCHANGED <<phase, roundVars, nodeVars, synthesis, accepted, capacityVars>>

\* The agent returns and the budget is not exhausted.
NodeReturns(r, n) ==
  /\ Runnable(r) /\ pc[r][n] = "running" /\ Available(r)
  /\ \E stop \in {"DONE", "ERROR"}, reusable \in BOOLEAN : Record(r, n, stop, reusable)
  /\ LeavesCapacity(r, n)
  /\ UNCHANGED <<phase, roundVars, synthesis, accepted, budgetVars>>

\* It raises, or the budget is exhausted; or the worker is cancelled by run_ready.
NodeRaises(r, n) ==
  /\ \/ phase[r] = "execute" /\ pc[r][n] = "running"
     \/ phase[r] = "unwind" /\ pc[r][n] \in {"running"} \cup Waiting
  /\ pc' = [pc EXCEPT ![r][n] = "error"]
  /\ LeavesCapacity(r, n)
  /\ UNCHANGED <<phase, roundVars, result, cache, versions, synthesis, accepted, budgetVars>>

\* It is cancelled before its first step.
NodeDropped(r, n) ==
  /\ phase[r] = "unwind" /\ pc[r][n] = "submitted"
  /\ pc' = [pc EXCEPT ![r][n] = "error"]
  /\ UNCHANGED <<phase, roundVars, result, cache, versions, synthesis, accepted, budgetVars,
                 capacityVars>>

\* reuse_ttl_seconds pass.
EntryExpires(r, n) ==
  /\ cache[r][n] # NoResult /\ phase[r] \notin Ended
  /\ cache' = [cache EXCEPT ![r][n] = NoResult]
  /\ UNCHANGED <<phase, roundVars, pc, result, versions, synthesis, accepted, budgetVars,
                 capacityVars>>

-----------------------------------------------------------------------------
(***************************************************************************)
(* Synthesis, critique, replanning: one model call each.                   *)
(***************************************************************************)

AllDone(r) == \A n \in plan[r].tasks : result[r][n].stop = "DONE"

\* The run returns its reply if, at the end of dag_execution_scope, the budget is not
\* exhausted.
Replies(r, yes) ==
  /\ phase' = [phase EXCEPT ![r] = IF Available(r) THEN "replied" ELSE "raised"]
  /\ accepted' = [accepted EXCEPT ![r] = yes]

SynthesisStop(r) == IF AllDone(r) THEN "DONE" ELSE "PARTIAL"

Synthesize(r) ==
  /\ phase[r] = "synthesize"
  /\ Reserve(r)
  /\ synthesis' = [synthesis EXCEPT ![r] = SynthesisStop(r)]
  /\ IF r \in Reviewed
       THEN /\ phase' = [phase EXCEPT ![r] = "critique"]
            /\ UNCHANGED accepted
       ELSE Replies(r, SynthesisStop(r) = "DONE")
  /\ UNCHANGED <<roundVars, nodeVars, capacityVars>>

\* critique() or revise(): one model call with the plan, the answer and the evidence.
AsksReviewer(r) == Reserve(r)

\* The reviewer is not asked when a required task failed: the score is 0.
GateFails(r) == ~AllDone(r) \/ synthesis[r] # "DONE"

\* The loop goes on after attempt_number.
MayReplan(r) == attempt[r] <= max_replans

Passes(r, score) == score >= threshold /\ synthesis[r] = "DONE"

Critique(r) ==
  /\ phase[r] = "critique"
  /\ \E score \in Score :
       /\ IF GateFails(r) THEN score = 0 /\ UNCHANGED budgetVars ELSE AsksReviewer(r)
       /\ \/ /\ Passes(r, score)
             /\ Replies(r, TRUE)
          \/ /\ ~Passes(r, score) /\ ~MayReplan(r)
             /\ Replies(r, FALSE)
          \/ /\ ~Passes(r, score) /\ MayReplan(r)
             /\ phase' = [phase EXCEPT ![r] = "revise"]
             /\ UNCHANGED accepted
  /\ UNCHANGED <<roundVars, nodeVars, synthesis, capacityVars>>

\* The replanner answers; an empty, too large or cyclic plan raises.
Revise(r) ==
  /\ phase[r] = "revise"
  /\ AsksReviewer(r)
  /\ \E p \in Revised[r] :
       IF Valid(p)
         THEN /\ phase' = [phase EXCEPT ![r] = "execute"]
              /\ attempt' = [attempt EXCEPT ![r] = @ + 1]
              /\ plan' = [plan EXCEPT ![r] = p]
              /\ result' = [result EXCEPT ![r] = NoResults]
              /\ pc' = [pc EXCEPT ![r] = [n \in Node |->
                          IF n \in p.tasks /\ p.deps[n] = {} THEN "submitted" ELSE "none"]]
         ELSE /\ phase' = [phase EXCEPT ![r] = "raised"]
              /\ UNCHANGED <<attempt, plan, result, pc>>
  /\ UNCHANGED <<cache, versions, synthesis, accepted, capacityVars>>

\* The model call of a step is refused, fails or is cancelled, before or after it was
\* reserved.
StepFails(r) ==
  /\ Reserve(r) \/ ReserveFails(r) \/ UNCHANGED budgetVars
  /\ phase' = [phase EXCEPT ![r] = "raised"]
  /\ UNCHANGED <<roundVars, nodeVars, synthesis, accepted, capacityVars>>

SynthesisFails(r) == phase[r] = "synthesize" /\ StepFails(r)

\* _structured_call of the reviewer raises: on an input or an answer out of its limits,
\* an answer that is not of the schema, or a failed call.
ReviewFails(r) == phase[r] \in {"critique", "revise"} /\ StepFails(r)

-----------------------------------------------------------------------------
NodeSteps(r, n) ==
  \/ NodeReused(r, n) \/ NodeSkipped(r, n) \/ NodeQueued(r, n) \/ NodeRefused(r, n)
  \/ NodeTakesTenantSlot(r, n) \/ NodeTakesSlot(r, n) \/ NodeCalls(r, n)
  \/ NodeReturns(r, n) \/ NodeRaises(r, n) \/ NodeDropped(r, n)

RunSteps(r) ==
  \/ Begin(r) \/ Collect(r) \/ Unwind(r) \/ UnwindEnds(r)
  \/ Synthesize(r) \/ Critique(r) \/ Revise(r)
  \/ SynthesisFails(r) \/ ReviewFails(r)

Next ==
  \/ \E r \in Run : RunSteps(r)
  \/ \E r \in Run, n \in Node : NodeSteps(r, n) \/ EntryExpires(r, n)

Spec == Init /\ [][Next]_vars

(***************************************************************************)
(* The event loop schedules every coroutine that can go on, agents and     *)
(* model calls have timeouts: a run that can go on does, in one way or     *)
(* another.  No deadline and no cancellation is assumed to come: Unwind is *)
(* fair only once a coroutine has raised.                                  *)
(***************************************************************************)
Progress(r) ==
  \/ Collect(r)
  \/ Nodes(r, {"error"}) # {} /\ Unwind(r)
  \/ UnwindEnds(r)
  \/ Synthesize(r) \/ Critique(r) \/ Revise(r)
  \/ SynthesisFails(r) \/ ReviewFails(r)
  \/ \E n \in Node : NodeSteps(r, n)

FairSpec == Spec /\ \A r \in Run : WF_vars(Progress(r))

-----------------------------------------------------------------------------
(***************************************************************************)
(* Properties.                                                             *)
(***************************************************************************)

\* What is synthesized, reviewed and returned is one consistent set of results: each was
\* made for the task as this round describes it, from the very results of its
\* dependencies that stand beside it, reused or not; and a task was skipped exactly if
\* a dependency did not end well (_run_ready, DagResultReuse).  A reply is accepted
\* only if all of them ended well.
ResultsAreConsistent ==
  \A r \in Run :
    /\ phase[r] \in {"synthesize", "critique", "revise", "replied"} =>
         \A n \in plan[r].tasks :
           /\ result[r][n].desc = plan[r].desc[n]
           /\ \A d \in plan[r].deps[n] : result[r][n].inputs[d] = result[r][d].version
           /\ result[r][n].stop = "SKIPPED" <=> UpstreamFailed(r, n)
    /\ phase[r] = "replied" /\ accepted[r] => AllDone(r)

\* The counters and semaphores of DagWorkerCapacity say who runs and who waits, over
\* cancellations at any point and semaphores that are dropped and made anew; and no
\* coroutine of a run is left behind when run_ready has returned or raised.
CapacityIsExact ==
  LET In(t, S) == Cardinality({w \in Run \X Node : tenant[w[1]] = t /\ pc[w[1]][w[2]] \in S})
      All(S) == Cardinality({w \in Run \X Node : pc[w[1]][w[2]] \in S})
  IN /\ \A t \in Tenant :
          /\ users[t] = In(t, {"running"} \cup Waiting)
          /\ free[t] + In(t, {"running", "waitGlobal"}) = per_tenant
     /\ inflight = All({"running"} \cup Waiting)
     /\ freeGlobal + All({"running"}) = total
     /\ \A r \in Run : phase[r] \notin {"execute", "unwind"} => Nodes(r, Pending) = {}

\* The run stays within its calls and its rounds, and once a call was refused it fails,
\* even if the agent made a result of the refusal.
BudgetFailsClosed ==
  \A r \in Run :
    /\ calls[r] <= max_model_calls[r] /\ attempt[r] <= max_replans + 1
    /\ phase[r] = "replied" => ~exhausted[r]

\* Every run that was begun ends, also when others keep the slots busy, with nodes that
\* fail, are skipped or are refused.
RunsEnd == \A r \in Run : phase[r] # "idle" ~> phase[r] \in Ended
=============================================================================

---------------------------- MODULE DagPlanning ----------------------------
(***************************************************************************)
(* Plan-and-run (application/planning.py) under recovery: the plan is the  *)
(* first operation of the checkpoint, and the nodes that are run are the   *)
(* tasks of the plan that its entry holds.  Of a task's description the    *)
(* model keeps the kinds of markers that occur in it.                      *)
(***************************************************************************)
EXTENDS DagRecovery, FiniteSets

CONSTANTS
  PlanKey,               \* the key "plan"
  Node,                  \* the keys of nodes
  FirstNode,             \* the id t1 of the fallback's only task
  kind,                  \* DagPlanKind
  refund_start_allowed,  \* process plan, tool configured, confirmed and with a key
  MaxTasks               \* 4 in _resolve_plan

Marker == {"read", "refund", "write"}

ASSUME PlanningAssumption ==
  /\ PlanKey \in Synthesis /\ DependsOn[PlanKey] = {}
  /\ Node \subseteq Key \ Synthesis /\ FirstNode \in Node
  /\ \A n \in Node : PlanKey \in DependsOn[n]
  /\ kind \in {"GENERAL", "ANALYST", "PROCESS"}
  /\ refund_start_allowed \in BOOLEAN /\ (refund_start_allowed => kind = "PROCESS")
  /\ MaxTasks \in Nat

\* A plan gives the tasks it consists of, each with the markers in its description.
Plan == UNION {[tasks -> SUBSET Marker] : tasks \in SUBSET Node}

VARIABLE plan   \* the plan each session resolved, if it did

planningVars == <<vars, plan>>

PlanningTypeOK == RecoveryTypeOK /\ plan \in [Session -> Plan]

NoPlan == [n \in {} |-> {}]

PlanningInit == Init /\ plan = [s \in Session |-> NoPlan]

-----------------------------------------------------------------------------
allowed_markers == {"read"} \cup (IF refund_start_allowed THEN {"refund"} ELSE {})
forbidden_write_markers == {"refund", "write"} \ allowed_markers

\* Why a process plan is dropped.
Unsafe(p) ==
  /\ kind = "PROCESS"
  /\ \/ Cardinality(DOMAIN p) > MaxTasks
     \/ \E n \in DOMAIN p : p[n] \cap forbidden_write_markers # {}
     \/ \E n \in DOMAIN p : p[n] \cap allowed_markers = {}

\* The single task that takes the whole goal, worded for what is allowed.
Fallback ==
  [n \in {FirstNode} |-> IF kind = "PROCESS" THEN allowed_markers ELSE {}]

\* _resolve_plan: what the planner proposed, unless that is unsafe or nothing.
\* A DagPlanningError is a proposal of nothing.
Resolve(p) == IF Unsafe(p) \/ p = NoPlan THEN Fallback ELSE p

\* What the planner can propose; a task names its dependencies among the tasks.
Proposals == {p \in Plan : \A n \in DOMAIN p : DependsOn[n] \cap Node \subseteq DOMAIN p}

-----------------------------------------------------------------------------
\* The plan of the entry that the session has.
PlanOf(s) == plan[state[s].operations[PlanKey].version]

\* Only tasks of the plan are run, next to the steps of the run itself.
Scheduled(s, k) == k \in Node => pc[s][PlanKey] = "delivered" /\ k \in DOMAIN PlanOf(s)

\* invoke() of the step "plan" returns.
PlanResolved(s) ==
  /\ RunReturns(s, PlanKey) \/ RunReturnsInactive(s, PlanKey)
  /\ \E p \in Proposals : plan' = [plan EXCEPT ![s] = Resolve(p)]

\* Every other step of run(); a cancelled planner and a spent budget are raised by it.
RunStep(s, k) ==
  /\ \/ RunReuses(s, k) \/ RunRefused(s, k) \/ RunStarts(s, k) \/ Reserve(s, k)
     \/ k # PlanKey /\ (RunReturns(s, k) \/ RunReturnsInactive(s, k))
     \/ RunRaises(s, k) \/ Saved(s, k) \/ SaveFails(s, k)
  /\ Scheduled(s, k)
  /\ UNCHANGED plan

PlanningNext ==
  \/ (Takeover \/ \E s \in Session : Arrive(s) \/ Open(s)) /\ UNCHANGED plan
  \/ \E s \in Session : PlanResolved(s)
  \/ \E s \in Session, k \in Key : RunStep(s, k)

PlanningSpec == PlanningInit /\ [][PlanningNext]_planningVars

-----------------------------------------------------------------------------
\* The plan is chosen once.  Every execution that goes on to the nodes has the same one,
\* a fallback included, and whatever node has an entry in the checkpoint, started or
\* done by whichever execution, is a task of it (the docstring of _resolve_plan).
PlanIsFixed ==
  /\ \A s, t \in Session :
       pc[s][PlanKey] = "delivered" /\ pc[t][PlanKey] = "delivered" => PlanOf(s) = PlanOf(t)
  /\ checkpoint # NoState =>
       \A n \in Node : checkpoint.operations[n].status # "absent" =>
         /\ checkpoint.operations[PlanKey].status = "DONE"
         /\ n \in DOMAIN plan[checkpoint.operations[PlanKey].version]
=============================================================================

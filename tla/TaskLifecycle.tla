--------------------------- MODULE TaskLifecycle ---------------------------
(***************************************************************************)
(* What the platform promises the caller of an asynchronous task, with no  *)
(* processes, leases or messages: a task is accepted, is run one or more   *)
(* times, and gets one verdict, which is SUCCEEDED only on behalf of its   *)
(* latest run, and only after that run has produced a complete result.     *)
(***************************************************************************)
EXTENDS Naturals

CONSTANT Task

VARIABLES
  state,     \* what GET /agent/tasks/{id} shows
  run,       \* the number of the latest run of a task, 0 before the first
  completed  \* the runs that produced a complete result

lifecycleVars == <<state, run, completed>>

Open(t) == state[t] \in {"PENDING", "RUNNING"}

Init ==
  /\ state = [t \in Task |-> "absent"]
  /\ run = [t \in Task |-> 0]
  /\ completed = [t \in Task |-> {}]

Accept(t) ==
  /\ state[t] = "absent"
  /\ state' = [state EXCEPT ![t] = "PENDING"]
  /\ UNCHANGED <<run, completed>>

StartRun(t) ==
  /\ Open(t)
  /\ state' = [state EXCEPT ![t] = "RUNNING"]
  /\ run' = [run EXCEPT ![t] = run[t] + 1]
  /\ UNCHANGED completed

\* A run completes, be it the latest one or one that was taken over, and be the
\* verdict spoken already or not.
CompleteRun(t) ==
  /\ \E n \in 1 .. run[t] :
        completed' = [completed EXCEPT ![t] = completed[t] \cup {n}]
  /\ UNCHANGED <<state, run>>

Succeed(t) ==
  /\ Open(t)
  /\ run[t] \in completed[t]
  /\ state' = [state EXCEPT ![t] = "SUCCEEDED"]
  /\ UNCHANGED <<run, completed>>

Fail(t) ==
  /\ Open(t)
  /\ state' = [state EXCEPT ![t] = "FAILED"]
  /\ UNCHANGED <<run, completed>>

CancelTask(t) ==
  /\ Open(t)
  /\ state' = [state EXCEPT ![t] = "CANCELLED"]
  /\ UNCHANGED <<run, completed>>

Next ==
  \E t \in Task :
    Accept(t) \/ StartRun(t) \/ CompleteRun(t) \/ Succeed(t) \/ Fail(t) \/ CancelTask(t)

Spec == Init /\ [][Next]_lifecycleVars
=============================================================================

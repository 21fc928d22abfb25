---------------------------- MODULE CentralTasks ----------------------------
(***************************************************************************)
(* The central async-task-service, as the Python platform uses it: the     *)
(* authority on a task's status, its lease and its lease epoch.  The       *)
(* service is not part of this repository; what is written here is what    *)
(* HttpAsyncTaskClient asks of it, what the gateway fake of the tests      *)
(* answers, and what docs/async-orchestration.md says of the lease.        *)
(*                                                                         *)
(* Time is left out: a lease that nobody renews in time is a lease for     *)
(* which LeaseExpires has happened.  Every operator below is a fragment of *)
(* an action over the central variables only; the processes of             *)
(* AsyncTaskManager compose them with their own state.                     *)
(***************************************************************************)
EXTENDS Naturals, FiniteSets

CONSTANTS
  Inline,       \* processes with ASYNC_TASK_ROLE=inline (they run what they accept)
  Worker,       \* processes with ASYNC_TASK_ROLE=worker (they claim what others accepted)
  InlineTask,   \* ids of tasks submitted to an inline process
  DurableTask,  \* ids of agent.readonly.* tasks, queued for a worker
  None,         \* no lease owner
  MaxClaims     \* how often the service hands out one durable task

Proc == Inline \cup Worker
Task == InlineTask \cup DurableTask

ASSUME CentralAssumption ==
  /\ MaxClaims \in Nat \ {0}
  /\ None \notin Proc
  /\ Inline \cap Worker = {}
  /\ InlineTask \cap DurableTask = {}

VARIABLES
  status,   \* AsyncTaskStatus of a task, "absent" before create
  owner,    \* lease_owner_id
  epoch,    \* lease_epoch: grows by one with every lease that changes hands
  expired,  \* the lease's time has run out
  granted,  \* history: every <<process, task, epoch>> the service ever leased
  wrote     \* history: every status write the service accepted

centralVars == <<status, owner, epoch, expired, granted, wrote>>

Terminal == {"SUCCEEDED", "FAILED", "CANCELLED"}
Status == {"absent", "PENDING", "RUNNING"} \cup Terminal
Write == [proc : Proc, task : Task, epoch : Nat, status : {"SUCCEEDED", "FAILED"}]

CentralTypeOK ==
  /\ status \in [Task -> Status]
  /\ owner \in [Task -> Proc \cup {None}]
  /\ epoch \in [Task -> Nat]
  /\ expired \in [Task -> BOOLEAN]
  /\ granted \subseteq Proc \X Task \X Nat
  /\ wrote \subseteq Write

CentralInit ==
  /\ status = [t \in Task |-> "absent"]
  /\ owner = [t \in Task |-> None]
  /\ epoch = [t \in Task |-> 0]
  /\ expired = [t \in Task |-> FALSE]
  /\ granted = {}
  /\ wrote = {}

\* not AsyncTaskStatus.terminal
Live(t) == status[t] \in {"PENDING", "RUNNING"}

\* Mutant: the lease is compared by owner, not by epoch.
HoldsLeaseByOwner(p, t, e) == Live(t) /\ owner[t] = p

\* The lease names p at epoch e and the task is still live: what a renewal reply shows.
HoldsLease(p, t, e) == Live(t) /\ owner[t] = p /\ epoch[t] = e

-----------------------------------------------------------------------------
\* POST /async/tasks
CentralCreate(t) ==
  /\ status[t] = "absent"
  /\ status' = [status EXCEPT ![t] = "PENDING"]
  /\ UNCHANGED <<owner, epoch, expired, granted, wrote>>

\* Mutant: a takeover keeps the epoch of the lease it replaces.
NextEpochReused(t) == IF epoch[t] = 0 THEN 1 ELSE epoch[t]

NextEpoch(t) == epoch[t] + 1

\* A lease that changes hands: the epoch grows, the clock starts again.
Grant(p, t) ==
  /\ Live(t)
  /\ owner[t] = None \/ expired[t]
  /\ status' = [status EXCEPT ![t] = "RUNNING"]
  /\ owner' = [owner EXCEPT ![t] = p]
  /\ epoch' = [epoch EXCEPT ![t] = NextEpoch(t)]
  /\ expired' = [expired EXCEPT ![t] = FALSE]
  /\ granted' = granted \cup {<<p, t, NextEpoch(t)>>}
  /\ UNCHANGED wrote

\* POST /async/tasks/dispatch/claim: a durable task that is queued, or whose
\* worker stopped renewing, while the dispatch limit is not reached.
Claim(p, t) ==
  /\ t \in DurableTask
  /\ epoch[t] < MaxClaims
  /\ Grant(p, t)

\* The fencing condition of PATCH /async/tasks/{id}/status: writer and epoch
\* are the current lease.
Fenced(r) == HoldsLease(r.proc, r.task, r.epoch)

\* PATCH /async/tasks/{id}/status, accepted.
AcceptWrite(r) ==
  /\ Fenced(r)
  /\ status' = [status EXCEPT ![r.task] = r.status]
  /\ owner' = [owner EXCEPT ![r.task] = None]
  /\ expired' = [expired EXCEPT ![r.task] = FALSE]
  /\ wrote' = wrote \cup {r}
  /\ UNCHANGED <<epoch, granted>>

\* The same request, refused: another owner, an old epoch, a terminal task or
\* an expired lease (the service documents that a write needs an unexpired lease,
\* the tests' fake does not check it: both are allowed).
RefuseWrite(r) ==
  /\ ~Fenced(r) \/ expired[r.task]
  /\ UNCHANGED centralVars

\* DELETE /async/tasks/{id}
CentralCancel(t) ==
  /\ Live(t)
  /\ status' = [status EXCEPT ![t] = "CANCELLED"]
  /\ owner' = [owner EXCEPT ![t] = None]
  /\ expired' = [expired EXCEPT ![t] = FALSE]
  /\ UNCHANGED <<epoch, granted, wrote>>

\* The lease's deadline passes without a renewal.
LeaseExpires(t) ==
  /\ status[t] = "RUNNING"
  /\ owner[t] # None
  /\ ~expired[t]
  /\ expired' = [expired EXCEPT ![t] = TRUE]
  /\ UNCHANGED <<status, owner, epoch, granted, wrote>>

\* Mutant: only a task that once had a lease counts as orphaned.
OrphanedWithLease(t) ==
  IF t \in InlineTask THEN expired[t] ELSE expired[t] /\ epoch[t] >= MaxClaims

\* The orphan reaper looks for inline tasks nobody holds; dispatch for durable
\* tasks whose claims are used up.
Orphaned(t) ==
  IF t \in InlineTask THEN owner[t] = None \/ expired[t]
                      ELSE expired[t] /\ epoch[t] >= MaxClaims

Reap(t) ==
  /\ Live(t)
  /\ Orphaned(t)
  /\ status' = [status EXCEPT ![t] = "FAILED"]
  /\ owner' = [owner EXCEPT ![t] = None]
  /\ expired' = [expired EXCEPT ![t] = FALSE]
  /\ UNCHANGED <<epoch, granted, wrote>>
=============================================================================

-------------------------- MODULE AsyncTaskManager --------------------------
(***************************************************************************)
(* AsyncTaskManager (application/async_task.py), the poll loop of the      *)
(* read-only worker (infrastructure/async_worker.py, worker.py) and the    *)
(* way HttpAsyncTaskClient turns lost replies into answers, against the    *)
(* central service of CentralTasks.                                        *)
(*                                                                         *)
(* One asyncio process is one member of Proc: a restarted process has a    *)
(* new worker id (a random suffix), so it is another member.  A coroutine  *)
(* is a program counter that changes only at its awaits; a call to the     *)
(* service arrives, or not, in a step of its own, and its reply is used in *)
(* another one, unless what it says is stable and the two commute.         *)
(*                                                                         *)
(* work[p][t], the coroutine _run of the handle of t in p:                 *)
(*   none       no coroutine (never started, or finished and unregistered) *)
(*   new        created by create_task, not yet scheduled                  *)
(*   queued     waits for the semaphore                                    *)
(*   executing  in `await execute(sink)'                                   *)
(*   sendS      in _complete_once(SUCCEEDED), waits for the reply          *)
(*   sendF      in _complete_once(FAILED), waits for the reply             *)
(*   finally    in the finally clause, waits for the cancelled heartbeat   *)
(*   dead       finished without reaching the end of its finally clause    *)
(* hb[p][t], its heartbeat, is off or on: that a lease is lost is a stable *)
(* fact, so it does not matter when the reply that says so is read.        *)
(***************************************************************************)
EXTENDS CentralTasks

CONSTANTS
  Mortal,         \* processes that may crash or be told to stop
  Cancellable,    \* tasks whose user may cancel them
  MaxConcurrent,  \* settings.async_task_max_concurrent
  MaxInflight     \* settings.async_task_max_inflight

ASSUME ManagerAssumption ==
  /\ Mortal \subseteq Proc
  /\ Cancellable \subseteq Task
  /\ MaxConcurrent \in Nat \ {0}
  /\ MaxInflight \in Nat
  /\ MaxInflight >= MaxConcurrent

VARIABLES
  life,     \* up; draining and cancelling are the two halves of shutdown; down; crashed
  handles,  \* _handles: the registry of a process
  hepoch,   \* ExecutionHandle.lease_epoch (before registration: the lease reply)
  stop,     \* ExecutionHandle.stop
  late,     \* history: the hard deadline fired and execute() swallowed it
  work,     \* the coroutine _run
  hb,       \* the coroutine _heartbeat
  sub,      \* a submit() in progress: none, create, lease, leased, rollback
  uc,       \* a cancel() in progress: none, sent, yes, no
  poll,     \* poll_once(): idle, sent, got, failing
  offer,    \* the task and epoch of the claim that poll_once holds
  wire,     \* status writes on their way to the service
  finished  \* history: executions whose execute() returned a complete result

handleVars == <<handles, hepoch, stop, late, work, hb>>
callVars == <<sub, uc, poll, offer>>
vars == <<centralVars, life, handleVars, callVars, wire, finished>>

WorkPhase == {"none", "new", "queued", "executing", "sendS", "sendF", "finally", "dead"}

\* The phases in which _run still has a step to take.
Unfinished == WorkPhase \ {"none", "dead"}

NoOffer == [task |-> None, epoch |-> 0]

ManagerTypeOK ==
  /\ life \in [Proc -> {"up", "draining", "cancelling", "down", "crashed"}]
  /\ handles \in [Proc -> SUBSET Task]
  /\ hepoch \in [Proc -> [Task -> Nat]]
  /\ stop \in [Proc -> [Task -> BOOLEAN]]
  /\ late \in [Proc -> [Task -> BOOLEAN]]
  /\ work \in [Proc -> [Task -> WorkPhase]]
  /\ hb \in [Proc -> [Task -> {"off", "on"}]]
  /\ sub \in [Proc -> [Task -> {"none", "create", "lease", "leased", "rollback"}]]
  /\ uc \in [Proc -> [Task -> {"none", "sent", "yes", "no"}]]
  /\ poll \in [Proc -> {"idle", "sent", "got", "failing"}]
  /\ offer \in [Proc -> [task : Task \cup {None}, epoch : Nat]]
  /\ \A p \in Proc : poll[p] \in {"got", "failing"} => offer[p].task \in Task
  /\ wire \subseteq Write
  /\ finished \subseteq Proc \X Task \X Nat

TypeOK == CentralTypeOK /\ ManagerTypeOK

Init ==
  /\ CentralInit
  /\ life = [p \in Proc |-> "up"]
  /\ handles = [p \in Proc |-> {}]
  /\ hepoch = [p \in Proc |-> [t \in Task |-> 0]]
  /\ stop = [p \in Proc |-> [t \in Task |-> FALSE]]
  /\ late = [p \in Proc |-> [t \in Task |-> FALSE]]
  /\ work = [p \in Proc |-> [t \in Task |-> "none"]]
  /\ hb = [p \in Proc |-> [t \in Task |-> "off"]]
  /\ sub = [p \in Proc |-> [t \in Task |-> "none"]]
  /\ uc = [p \in Proc |-> [t \in Task |-> "none"]]
  /\ poll = [p \in Proc |-> "idle"]
  /\ offer = [p \in Proc |-> NoOffer]
  /\ wire = {}
  /\ finished = {}

Running(p) == life[p] \in {"up", "draining", "cancelling"}
_closing(p) == life[p] # "up"
Executing(p) == {t \in Task : work[p][t] = "executing"}

\* len(self._handles) against the two limits
HasInflightRoom(p) == Cardinality(handles[p]) < MaxInflight
free_slots(p) ==
  IF Cardinality(handles[p]) < MaxConcurrent THEN MaxConcurrent - Cardinality(handles[p]) ELSE 0

\* The handle's status write, as it goes on the wire.
StatusWrite(p, t, s) == [proc |-> p, task |-> t, epoch |-> hepoch[p][t], status |-> s]

\* What task.cancel() makes of _run.  A coroutine that has not started, or that
\* waits in its finally clause, ends there and then: its handle is not popped.
\* execute() may swallow the cancellation (AgentScopeRunner does) and run on.
AfterCancel(w) ==
  CASE w = "none" -> {"none"}
    [] w = "executing" -> {"finally", "executing"}
    [] w \in {"new", "finally", "dead"} -> {"dead"}
    [] OTHER -> {"finally"}

\* handle.stop.set(); handle.work.cancel().  Unless _run goes on, its finally
\* clause cancels the heartbeat, which otherwise is left in phase h.
StopWork(p, t, h) ==
  /\ stop' = [stop EXCEPT ![p][t] = TRUE]
  /\ \E w \in AfterCancel(work[p][t]) :
        /\ work' = [work EXCEPT ![p][t] = w]
        /\ hb' = [hb EXCEPT ![p][t] = IF w = "executing" THEN h ELSE "off"]
  /\ UNCHANGED <<handles, hepoch, late>>

\* Registration of a handle and creation of its coroutine, under the registry lock.
Register(p, t, e) ==
  /\ handles' = [handles EXCEPT ![p] = handles[p] \cup {t}]
  /\ hepoch' = [hepoch EXCEPT ![p][t] = e]
  /\ stop' = [stop EXCEPT ![p][t] = FALSE]
  /\ late' = [late EXCEPT ![p][t] = FALSE]
  /\ work' = [work EXCEPT ![p][t] = "new"]
  /\ hb' = [hb EXCEPT ![p][t] = "off"]

-----------------------------------------------------------------------------
(***************************************************************************)
(* submit(): inline role.                                                  *)
(***************************************************************************)

SubmitStarts(p, t) ==
  /\ p \in Inline /\ t \in InlineTask
  /\ ~_closing(p)
  /\ HasInflightRoom(p)
  /\ status[t] = "absent"
  /\ \A q \in Proc : sub[q][t] = "none"
  /\ sub' = [sub EXCEPT ![p][t] = "create"]
  /\ UNCHANGED <<centralVars, life, handleVars, uc, poll, offer, wire, finished>>

\* create arrives; its reply is seen (a lost reply is repaired by get) or the
\* caller gives up on a task that now exists.
SubmitCreated(p, t) ==
  /\ Running(p) /\ sub[p][t] = "create"
  /\ CentralCreate(t)
  /\ \E next \in {"lease", "none"} : sub' = [sub EXCEPT ![p][t] = next]
  /\ UNCHANGED <<life, handleVars, uc, poll, offer, wire, finished>>

\* create never arrives.
SubmitCreateFails(p, t) ==
  /\ sub[p][t] = "create"
  /\ sub' = [sub EXCEPT ![p][t] = "none"]
  /\ UNCHANGED <<centralVars, life, handleVars, uc, poll, offer, wire, finished>>

\* lease(epoch=None) arrives; if reply and get are both lost, submit rolls back.
SubmitLeased(p, t) ==
  /\ Running(p) /\ sub[p][t] = "lease"
  /\ Grant(p, t)
  /\ \/ /\ sub' = [sub EXCEPT ![p][t] = "leased"]
        /\ hepoch' = [hepoch EXCEPT ![p][t] = NextEpoch(t)]
     \/ /\ sub' = [sub EXCEPT ![p][t] = "rollback"]
        /\ UNCHANGED hepoch
  /\ UNCHANGED <<life, handles, stop, late, work, hb, uc, poll, offer, wire, finished>>

\* The lease call fails, or shows a task that is already terminal.
SubmitLeaseFails(p, t) ==
  /\ sub[p][t] = "lease"
  /\ sub' = [sub EXCEPT ![p][t] = "rollback"]
  /\ UNCHANGED <<centralVars, life, handleVars, uc, poll, offer, wire, finished>>

\* Mutant: the limit is not looked at again.
MayRegisterUnchecked(p) == ~_closing(p)

\* The second look at _closing and at the limit, under the registry lock.
MayRegister(p) == ~_closing(p) /\ HasInflightRoom(p)

SubmitRegisters(p, t) ==
  /\ sub[p][t] = "leased"
  /\ IF MayRegister(p)
       THEN /\ sub' = [sub EXCEPT ![p][t] = "none"]
            /\ Register(p, t, hepoch[p][t])
       ELSE /\ sub' = [sub EXCEPT ![p][t] = "rollback"]
            /\ UNCHANGED handleVars
  /\ UNCHANGED <<centralVars, life, uc, poll, offer, wire, finished>>

\* gateway.cancel after a refused submit, and the error to the caller.
SubmitRollsBack(p, t) ==
  /\ sub[p][t] = "rollback"
  /\ sub' = [sub EXCEPT ![p][t] = "none"]
  /\ CentralCancel(t) \/ UNCHANGED centralVars
  /\ UNCHANGED <<life, handleVars, uc, poll, offer, wire, finished>>

\* submit() in the api role: the task is created and left to the workers.
ApiSubmits(t) ==
  /\ t \in DurableTask
  /\ CentralCreate(t)
  /\ UNCHANGED <<life, handleVars, callVars, wire, finished>>

-----------------------------------------------------------------------------
(***************************************************************************)
(* poll_once() and adopt(): worker role.                                   *)
(***************************************************************************)

PollSends(p) ==
  /\ p \in Worker /\ ~_closing(p) /\ poll[p] = "idle"
  /\ free_slots(p) > 0
  /\ poll' = [poll EXCEPT ![p] = "sent"]
  /\ UNCHANGED <<centralVars, life, handleVars, sub, uc, offer, wire, finished>>

\* The claim is granted; its reply may be lost, and the lease with it.
PollClaims(p, t) ==
  /\ poll[p] = "sent"
  /\ Claim(p, t)
  /\ \/ /\ poll' = [poll EXCEPT ![p] = "got"]
        /\ offer' = [offer EXCEPT ![p] = [task |-> t, epoch |-> NextEpoch(t)]]
     \/ /\ poll' = [poll EXCEPT ![p] = "idle"]
        /\ UNCHANGED offer
  /\ UNCHANGED <<life, handleVars, sub, uc, wire, finished>>

\* Nothing to claim, or the call fails.
PollEmpty(p) ==
  /\ poll[p] = "sent"
  /\ poll' = [poll EXCEPT ![p] = "idle"]
  /\ UNCHANGED <<centralVars, life, handleVars, sub, uc, offer, wire, finished>>

Adopt(p) ==
  /\ poll[p] = "got" /\ ~_closing(p)
  /\ free_slots(p) > 0
  /\ offer[p].task \notin handles[p]
  /\ poll' = [poll EXCEPT ![p] = "idle"]
  /\ offer' = [offer EXCEPT ![p] = NoOffer]
  /\ Register(p, offer[p].task, offer[p].epoch)
  /\ UNCHANGED <<centralVars, life, sub, uc, wire, finished>>

\* The claim is dropped without a word to the service: the token lives too
\* briefly, the dispatch authority is invalid, or this very process still runs
\* the task under an older epoch.
AdoptRejected(p) ==
  /\ poll[p] = "got"
  /\ poll' = [poll EXCEPT ![p] = "idle"]
  /\ offer' = [offer EXCEPT ![p] = NoOffer]
  /\ UNCHANGED <<centralVars, life, handleVars, sub, uc, wire, finished>>

\* The task was queued by another revision, configuration or tool version.
VersionMismatch(p) ==
  /\ poll[p] = "got"
  /\ poll' = [poll EXCEPT ![p] = "failing"]
  /\ wire' = wire \cup {[proc |-> p, task |-> offer[p].task, epoch |-> offer[p].epoch,
                         status |-> "FAILED"]}
  /\ UNCHANGED <<centralVars, life, handleVars, sub, uc, offer, finished>>

\* The reply to that write, or its failure, ends poll_once().
VersionMismatchReturns(p) ==
  /\ poll[p] = "failing"
  /\ poll' = [poll EXCEPT ![p] = "idle"]
  /\ offer' = [offer EXCEPT ![p] = NoOffer]
  /\ UNCHANGED <<centralVars, life, handleVars, sub, uc, wire, finished>>

-----------------------------------------------------------------------------
(***************************************************************************)
(* _run(), one execution.                                                  *)
(***************************************************************************)

\* Mutant: the execution starts without a heartbeat.
WorkStartsUnwatched(p, t) ==
  /\ work[p][t] = "new"
  /\ work' = [work EXCEPT ![p][t] = "queued"]
  /\ UNCHANGED <<centralVars, life, handles, hepoch, stop, late, hb, callVars, wire, finished>>

\* The first step of the coroutine: the heartbeat and the deadline are armed.
WorkStarts(p, t) ==
  /\ work[p][t] = "new"
  /\ work' = [work EXCEPT ![p][t] = "queued"]
  /\ hb' = [hb EXCEPT ![p][t] = "on"]
  /\ UNCHANGED <<centralVars, life, handles, hepoch, stop, late, callVars, wire, finished>>

\* `async with self._semaphore'
WorkAdmitted(p, t) ==
  /\ work[p][t] = "queued"
  /\ Cardinality(Executing(p)) < MaxConcurrent
  /\ work' = [work EXCEPT ![p][t] = "executing"]
  /\ UNCHANGED <<centralVars, life, handles, hepoch, stop, late, hb, callVars, wire, finished>>

\* _run enters _complete_once(FAILED).
ReportFailure(p, t) ==
  /\ work' = [work EXCEPT ![p][t] = "sendF"]
  /\ wire' = wire \cup {StatusWrite(p, t, "FAILED")}
  /\ UNCHANGED hb

\* _run enters its finally clause: the heartbeat is cancelled.
EnterFinally(p, t) ==
  /\ work' = [work EXCEPT ![p][t] = "finally"]
  /\ hb' = [hb EXCEPT ![p][t] = "off"]
  /\ UNCHANGED wire

\* `if handle.stop.is_set(): return', and the same test in _complete_once.
MayReportSuccess(p, t) == ~stop[p][t]

\* execute() returns a complete result.  With the stop flag set it is dropped.
ExecSucceeds(p, t) ==
  /\ work[p][t] = "executing"
  /\ finished' = finished \cup {<<p, t, hepoch[p][t]>>}
  /\ IF MayReportSuccess(p, t)
       THEN /\ work' = [work EXCEPT ![p][t] = "sendS"]
            /\ wire' = wire \cup {StatusWrite(p, t, "SUCCEEDED")}
            /\ UNCHANGED hb
       ELSE EnterFinally(p, t)
  /\ UNCHANGED <<centralVars, life, handles, hepoch, stop, late, callVars>>

\* Mutant: a partial DAG reply is reported like a complete one.
ExecPartialSucceeds(p, t) ==
  /\ work[p][t] = "executing"
  /\ work' = [work EXCEPT ![p][t] = "sendS"]
  /\ wire' = wire \cup {StatusWrite(p, t, "SUCCEEDED")}
  /\ UNCHANGED <<centralVars, life, handles, hepoch, stop, late, hb, callVars, finished>>

\* A DAG reply whose synthesis is not DONE: _json_value raises.
ExecPartial(p, t) ==
  /\ work[p][t] = "executing"
  /\ IF stop[p][t] THEN EnterFinally(p, t) ELSE ReportFailure(p, t)
  /\ UNCHANGED <<centralVars, life, handles, hepoch, stop, late, callVars, finished>>

\* execute() raises (run_for_async does so for stopReason ERROR): FAILED is
\* reported whether or not the stop flag is set.
ExecRaises(p, t) ==
  /\ work[p][t] = "executing"
  /\ ReportFailure(p, t)
  /\ UNCHANGED <<centralVars, life, handles, hepoch, stop, late, callVars, finished>>

\* DagCheckpointUnavailable: an unknown commit is not turned into FAILED.
ExecCheckpointUnavailable(p, t) ==
  /\ work[p][t] = "executing"
  /\ t \in DurableTask
  /\ stop' = [stop EXCEPT ![p][t] = TRUE]
  /\ EnterFinally(p, t)
  /\ UNCHANGED <<centralVars, life, handles, hepoch, late, callVars, finished>>

\* asyncio.timeout(runtime_seconds) fires.  Unless execute() swallows the
\* cancellation, _run sees TimeoutError and reports the deadline.
DeadlineFires(p, t) ==
  /\ work[p][t] \in {"queued", "executing"}
  /\ ~late[p][t]
  /\ \/ /\ stop' = [stop EXCEPT ![p][t] = TRUE]
        /\ ReportFailure(p, t)
        /\ UNCHANGED late
     \/ /\ work[p][t] = "executing"
        /\ late' = [late EXCEPT ![p][t] = TRUE]
        /\ UNCHANGED <<stop, work, hb, wire>>
  /\ UNCHANGED <<centralVars, life, handles, hepoch, callVars, finished>>

\* A status write arrives at the service, or is lost on its way.
WriteArrives(r) ==
  /\ r \in wire
  /\ wire' = wire \ {r}
  /\ AcceptWrite(r) \/ RefuseWrite(r)
  /\ UNCHANGED <<life, handleVars, callVars, finished>>

WriteLost(r) ==
  /\ r \in wire
  /\ wire' = wire \ {r}
  /\ UNCHANGED <<centralVars, life, handleVars, callVars, finished>>

\* _complete_once(SUCCEEDED) returns: the reply shows a terminal status.
SuccessAcknowledged(p, t) ==
  /\ work[p][t] = "sendS"
  /\ StatusWrite(p, t, "SUCCEEDED") \notin wire
  /\ status[t] \in Terminal
  /\ EnterFinally(p, t)
  /\ UNCHANGED <<centralVars, life, handles, hepoch, stop, late, callVars, finished>>

\* It raises: the reply is lost or late (the write may arrive all the same), a
\* 409, or shows a task that is still live.  `except Exception' reports FAILED.
SuccessUnacknowledged(p, t) ==
  /\ work[p][t] = "sendS"
  /\ ReportFailure(p, t)
  /\ UNCHANGED <<centralVars, life, handles, hepoch, stop, late, callVars, finished>>

\* _complete_once(FAILED) returns or raises.
FailureReported(p, t) ==
  /\ work[p][t] = "sendF"
  /\ EnterFinally(p, t)
  /\ UNCHANGED <<centralVars, life, handles, hepoch, stop, late, callVars, finished>>

\* Mutant: the handle is not popped.
UnregisterLeaks(p, t) ==
  /\ work[p][t] = "finally"
  /\ work' = [work EXCEPT ![p][t] = "dead"]
  /\ UNCHANGED <<centralVars, life, handles, hepoch, stop, late, hb, callVars, wire, finished>>

\* The end of the finally clause: the handle leaves the registry.
Unregister(p, t) ==
  /\ work[p][t] = "finally"
  /\ handles' = [handles EXCEPT ![p] = handles[p] \ {t}]
  /\ hepoch' = [hepoch EXCEPT ![p][t] = 0]
  /\ stop' = [stop EXCEPT ![p][t] = FALSE]
  /\ late' = [late EXCEPT ![p][t] = FALSE]
  /\ work' = [work EXCEPT ![p][t] = "none"]
  /\ UNCHANGED <<centralVars, life, hb, callVars, wire, finished>>

-----------------------------------------------------------------------------
(***************************************************************************)
(* _heartbeat().  A renewal that finds the lease in place changes nothing  *)
(* here: it only keeps LeaseExpires from happening.                        *)
(***************************************************************************)

\* Mutant: only a terminal status ends the heartbeat.
ShowsLeaseLostIfTerminal(p, t) == ~Live(t)

\* The three tests on the reply to a renewal.
ShowsLeaseLost(p, t) == ~HoldsLease(p, t, hepoch[p][t])

\* `while not handle.stop.is_set()', after a renewal: the service, or the
\* client's get() after a failed call, shows this owner and epoch on a live task.
HeartbeatEnds(p, t) ==
  /\ hb[p][t] = "on"
  /\ ~ShowsLeaseLost(p, t)
  /\ stop[p][t]
  /\ hb' = [hb EXCEPT ![p][t] = "off"]
  /\ UNCHANGED <<centralVars, life, handles, hepoch, stop, late, work, callVars,
                 wire, finished>>

\* The lease is lost or the task terminal.
HeartbeatLosesLease(p, t) ==
  /\ hb[p][t] = "on"
  /\ ShowsLeaseLost(p, t)
  /\ StopWork(p, t, "off")
  /\ UNCHANGED <<centralVars, life, callVars, wire, finished>>

\* Mutant: a failed heartbeat is only counted.
HeartbeatFailsQuietly(p, t) ==
  /\ hb[p][t] = "on"
  /\ hb' = [hb EXCEPT ![p][t] = "off"]
  /\ UNCHANGED <<centralVars, life, handles, hepoch, stop, late, work, callVars, wire, finished>>

\* The renewal and the get() that should explain it both fail; that stops the
\* work unless the handle is stopped already.
HeartbeatFails(p, t) ==
  /\ hb[p][t] = "on"
  /\ IF stop[p][t]
       THEN /\ hb' = [hb EXCEPT ![p][t] = "off"]
            /\ UNCHANGED <<handles, hepoch, stop, late, work>>
       ELSE StopWork(p, t, "off")
  /\ UNCHANGED <<centralVars, life, callVars, wire, finished>>

-----------------------------------------------------------------------------
(***************************************************************************)
(* cancel(): DELETE /agent/tasks/{id}.                                     *)
(***************************************************************************)

\* get shows a live task; the central cancel is sent first.
CancelSends(p, t) ==
  /\ p \in Inline /\ Running(p) /\ uc[p][t] = "none"
  /\ t \in Cancellable /\ Live(t)
  /\ uc' = [uc EXCEPT ![p][t] = "sent"]
  /\ UNCHANGED <<centralVars, life, handleVars, sub, poll, offer, wire, finished>>

\* It arrives, and the reply says so or is lost; or it does nothing.
CancelArrives(p, t) ==
  /\ uc[p][t] = "sent"
  /\ \/ /\ CentralCancel(t)
        /\ \E reply \in {"yes", "no"} : uc' = [uc EXCEPT ![p][t] = reply]
     \/ /\ UNCHANGED centralVars
        /\ uc' = [uc EXCEPT ![p][t] = "no"]
  /\ UNCHANGED <<life, handleVars, sub, poll, offer, wire, finished>>

\* Mutant: any terminal status confirms the cancel.
CancelConfirmedIfTerminal(t) == status[t] \in Terminal

CancelConfirmed(t) == status[t] = "CANCELLED"

\* Not cancelled, or unknown: the task is read again before the answer is no.
CancelRereads(p, t) ==
  /\ uc[p][t] = "no"
  /\ \E reply \in {"none"} \cup (IF CancelConfirmed(t) THEN {"yes"} ELSE {}) :
        uc' = [uc EXCEPT ![p][t] = reply]
  /\ UNCHANGED <<centralVars, life, handleVars, sub, poll, offer, wire, finished>>

\* Only then is the local work stopped, if this process runs it.
CancelApplies(p, t) ==
  /\ uc[p][t] = "yes"
  /\ uc' = [uc EXCEPT ![p][t] = "none"]
  /\ IF t \in handles[p] THEN StopWork(p, t, hb[p][t]) ELSE UNCHANGED handleVars
  /\ UNCHANGED <<centralVars, life, sub, poll, offer, wire, finished>>

\* A cancel of a durable task, through an api process.
ApiCancels(t) ==
  /\ t \in DurableTask \cap Cancellable
  /\ CentralCancel(t)
  /\ UNCHANGED <<life, handleVars, callVars, wire, finished>>

-----------------------------------------------------------------------------
(***************************************************************************)
(* shutdown(), and the crash that comes instead.                           *)
(***************************************************************************)

\* No new work is accepted; the worker's poll loop has ended before.
ShutdownStarts(p) ==
  /\ p \in Mortal /\ life[p] = "up" /\ poll[p] = "idle"
  /\ life' = [life EXCEPT ![p] = "draining"]
  /\ UNCHANGED <<centralVars, handleVars, callVars, wire, finished>>

\* Mutant: shutdown waits for the registry to become empty.
PendingHandles(p) == handles[p]

Pending(p) == {t \in handles[p] : work[p][t] \in Unfinished}

\* async_task_drain_timeout_seconds: what still runs is stopped and cancelled;
\* the executions in S swallow the cancellation.
DrainTimesOut(p) ==
  /\ life[p] = "draining" /\ Pending(p) # {}
  /\ life' = [life EXCEPT ![p] = "cancelling"]
  /\ stop' = [stop EXCEPT ![p] = [t \in Task |-> stop[p][t] \/ t \in Pending(p)]]
  /\ \E S \in SUBSET Executing(p) :
        /\ work' = [work EXCEPT ![p] = [t \in Task |->
              IF t \notin Pending(p) \/ t \in S THEN work[p][t]
              ELSE IF work[p][t] \in {"new", "finally"} THEN "dead" ELSE "finally"]]
        /\ hb' = [hb EXCEPT ![p] = [t \in Task |-> IF t \in S THEN hb[p][t] ELSE "off"]]
  /\ UNCHANGED <<centralVars, handles, hepoch, late, callVars, wire, finished>>

\* Mutant: shutdown does not wait for the work it cancelled.
ShutdownEndsEarly(p) ==
  /\ life[p] \in {"draining", "cancelling"}
  /\ life' = [life EXCEPT ![p] = "down"]
  /\ handles' = [handles EXCEPT ![p] = {}]
  /\ UNCHANGED <<centralVars, hepoch, stop, late, work, hb, callVars, wire, finished>>

\* All work has ended; the registry is cleared and the gateway closed.
ShutdownEnds(p) ==
  /\ life[p] \in {"draining", "cancelling"} /\ Pending(p) = {}
  /\ life' = [life EXCEPT ![p] = "down"]
  /\ handles' = [handles EXCEPT ![p] = {}]
  /\ work' = [work EXCEPT ![p] = [t \in Task |-> "none"]]
  /\ UNCHANGED <<centralVars, hepoch, stop, late, hb, callVars, wire, finished>>

\* The process dies; what it sent stays on the wire.
Crash(p) ==
  /\ p \in Mortal /\ Running(p)
  /\ life' = [life EXCEPT ![p] = "crashed"]
  /\ handles' = [handles EXCEPT ![p] = {}]
  /\ hepoch' = [hepoch EXCEPT ![p] = [t \in Task |-> 0]]
  /\ stop' = [stop EXCEPT ![p] = [t \in Task |-> FALSE]]
  /\ late' = [late EXCEPT ![p] = [t \in Task |-> FALSE]]
  /\ work' = [work EXCEPT ![p] = [t \in Task |-> "none"]]
  /\ hb' = [hb EXCEPT ![p] = [t \in Task |-> "off"]]
  /\ sub' = [sub EXCEPT ![p] = [t \in Task |-> "none"]]
  /\ uc' = [uc EXCEPT ![p] = [t \in Task |-> "none"]]
  /\ poll' = [poll EXCEPT ![p] = "idle"]
  /\ offer' = [offer EXCEPT ![p] = NoOffer]
  /\ UNCHANGED <<centralVars, wire, finished>>

-----------------------------------------------------------------------------
Submit(p, t) ==
  \/ SubmitStarts(p, t) \/ SubmitCreated(p, t) \/ SubmitCreateFails(p, t)
  \/ SubmitLeased(p, t) \/ SubmitLeaseFails(p, t)
  \/ SubmitRegisters(p, t) \/ SubmitRollsBack(p, t)

Poll(p) ==
  \/ PollSends(p) \/ PollEmpty(p)
  \/ \E t \in DurableTask : PollClaims(p, t)
  \/ Adopt(p) \/ AdoptRejected(p) \/ VersionMismatch(p) \/ VersionMismatchReturns(p)

Return(p, t) ==
  \/ ExecSucceeds(p, t) \/ ExecPartial(p, t) \/ ExecRaises(p, t)
  \/ ExecCheckpointUnavailable(p, t)

Run(p, t) ==
  \/ WorkStarts(p, t) \/ WorkAdmitted(p, t) \/ Return(p, t) \/ DeadlineFires(p, t)
  \/ SuccessAcknowledged(p, t) \/ SuccessUnacknowledged(p, t)
  \/ FailureReported(p, t) \/ Unregister(p, t)

Heartbeat(p, t) ==
  HeartbeatEnds(p, t) \/ HeartbeatLosesLease(p, t) \/ HeartbeatFails(p, t)

Cancel(p, t) ==
  \/ CancelSends(p, t) \/ CancelArrives(p, t) \/ CancelRereads(p, t) \/ CancelApplies(p, t)

Shutdown(p) == ShutdownStarts(p) \/ DrainTimesOut(p) \/ ShutdownEnds(p)

Central(t) ==
  /\ LeaseExpires(t) \/ Reap(t)
  /\ UNCHANGED <<life, handleVars, callVars, wire, finished>>

Next ==
  \/ \E p \in Proc, t \in Task : Submit(p, t) \/ Run(p, t) \/ Heartbeat(p, t) \/ Cancel(p, t)
  \/ \E p \in Proc : Poll(p) \/ Shutdown(p) \/ Crash(p)
  \/ \E t \in Task : ApiSubmits(t) \/ ApiCancels(t) \/ Central(t)
  \/ \E r \in wire : WriteArrives(r) \/ WriteLost(r)

Spec == Init /\ [][Next]_vars

-----------------------------------------------------------------------------
(***************************************************************************)
(* Fairness.  Coroutines of a live process are scheduled and every call    *)
(* has a timeout, so each await ends; asyncio.Semaphore is first come,     *)
(* first served; the service's reaper and dispatch run for ever, and a     *)
(* lease that nobody renews runs out.  Nothing is assumed of users, of     *)
(* crashes, of the outcome of a run or of the fate of one message.  That   *)
(* execute() ends (the runner, the DAG and the whole run have deadlines)   *)
(* is assumed by the properties that need it, not by FairSpec.             *)
(***************************************************************************)

Renewed(t) == \E p \in Proc : hb[p][t] = "on" /\ HoldsLease(p, t, hepoch[p][t])

SubmitFair(p, t) ==
  /\ WF_vars(SubmitCreated(p, t) \/ SubmitCreateFails(p, t))
  /\ WF_vars(SubmitLeased(p, t) \/ SubmitLeaseFails(p, t))
  /\ WF_vars(SubmitRegisters(p, t))
  /\ WF_vars(SubmitRollsBack(p, t))

RunFair(p, t) ==
  /\ WF_vars(WorkStarts(p, t))
  /\ SF_vars(WorkAdmitted(p, t))
  /\ WF_vars(SuccessAcknowledged(p, t) \/ SuccessUnacknowledged(p, t))
  /\ WF_vars(FailureReported(p, t))
  /\ WF_vars(Unregister(p, t))
  /\ WF_vars(HeartbeatLosesLease(p, t))

PollFair(p) ==
  /\ WF_vars(PollSends(p))
  /\ WF_vars(Adopt(p) \/ AdoptRejected(p))
  /\ WF_vars(VersionMismatchReturns(p))
  /\ \A t \in DurableTask : SF_vars(PollClaims(p, t))

CentralFair(t) ==
  /\ WF_vars(~Renewed(t) /\ LeaseExpires(t) /\ UNCHANGED <<life, handleVars, callVars, wire, finished>>)
  /\ WF_vars(Reap(t) /\ UNCHANGED <<life, handleVars, callVars, wire, finished>>)

Fairness ==
  /\ \A p \in Inline, t \in InlineTask : SubmitFair(p, t)
  /\ \A p \in Proc, t \in Task : RunFair(p, t)
  /\ \A p \in Worker : PollFair(p)
  /\ \A p \in Mortal : WF_vars(ShutdownEnds(p))
  /\ \A t \in Task : CentralFair(t)

FairSpec == Spec /\ Fairness

ExecutionsEnd == \A p \in Proc, t \in Task : WF_vars(Return(p, t))

-----------------------------------------------------------------------------
(***************************************************************************)
(* Properties.                                                             *)
(***************************************************************************)

\* A SUCCEEDED that the service recorded was written by the holder of the lease
\* epoch that is still the latest one, for an execution of its own that returned
\* a complete result under that epoch (_run, _complete_once, _json_value).
SuccessIsEarned ==
  \A r \in wrote : r.status = "SUCCEEDED" =>
    /\ <<r.proc, r.task, r.epoch>> \in finished \cap granted
    /\ r.epoch = epoch[r.task]

\* Two processes may run the same durable task at once after a takeover, but
\* never under the same lease epoch: fencing by epoch tells them apart.
EpochsAreExclusive ==
  \A p, q \in Proc, t \in Task :
    p # q /\ hepoch[p][t] # 0 => hepoch[p][t] # hepoch[q][t]

\* Whatever still runs can be found: cancel() and shutdown() reach it through
\* the registry, and no work outlives the shutdown or the crash of its process.
RegistryTracksWork ==
  \A p \in Proc, t \in Task :
    work[p][t] \in Unfinished => t \in handles[p] /\ Running(p)

\* The registry and the semaphore keep their limits, although submit() awaits two
\* calls between its check of the limit and the registration, and the worker
\* awaits the claim between free_slots and adopt().
CapacityRespected ==
  \A p \in Proc :
    /\ Cardinality(handles[p]) <= IF p \in Worker THEN MaxConcurrent ELSE MaxInflight
    /\ Cardinality(Executing(p)) <= MaxConcurrent

\* When cancel() tells its caller that the task is cancelled, the service says
\* CANCELLED and has recorded no other verdict, whatever replies were lost.
CancelAnswerIsTrue ==
  \A p \in Proc, t \in Task : uc[p][t] = "yes" =>
    /\ status[t] = "CANCELLED"
    /\ \A r \in wrote : r.task # t

\* The phases in which _run has armed its heartbeat and not yet reached its end.
Watched == {"queued", "executing", "sendS", "sendF"}

\* An execution that may still report is watched or warned: its heartbeat renews the
\* lease, or it has been told to stop, also after the heartbeat itself failed.  And no
\* heartbeat outlives its execution: it would keep the lease of a task nobody runs from
\* running out (_run, _heartbeat, cancel and shutdown each end one of the two).
LeaseIsWatched ==
  \A p \in Proc, t \in Task :
    /\ work[p][t] \in Watched => hb[p][t] = "on" \/ stop[p][t]
    /\ hb[p][t] = "on" => work[p][t] \in Watched

\* Every accepted task gets a verdict, over crashes, lost calls, takeovers and
\* dropped claims, if executions end and one worker stays up for the durable tasks.
EventuallyTerminal ==
  ExecutionsEnd => \A t \in Task : Live(t) ~> status[t] \in Terminal

\* A process that was told to stop does stop, if the executions end that
\* swallow their cancellation (shutdown() waits for them without a limit).
ShutdownCompletes ==
  ExecutionsEnd => \A p \in Proc : life[p] = "draining" ~> life[p] \in {"down", "crashed"}

\* An executor whose lease was taken over, or whose task is decided, is told to
\* stop by its heartbeat, however long its execution would go on; also when the task
\* was cancelled between its lease and its registration, so that cancel() found no
\* handle to stop.
FencedExecutorStops ==
  \A p \in Proc, t \in Task :
    work[p][t] = "executing" /\ ~HoldsLease(p, t, hepoch[p][t])
      ~> stop[p][t] \/ work[p][t] # "executing"

\* An execution that ran into the task's hard deadline is not recorded as
\* SUCCEEDED (asyncio.timeout in _run, ASYNC_TASK_DEADLINE_EXCEEDED).
DeadlineIsNoSuccess ==
  \A r \in wrote : r.status = "SUCCEEDED" =>
    ~(late[r.proc][r.task] /\ hepoch[r.proc][r.task] = r.epoch)

\* The registry holds no handle whose coroutine has ended (the finally clause of
\* _run pops it).
RegistryReleased ==
  \A p \in Proc, t \in Task : t \in handles[p] => work[p][t] # "dead" \/ life[p] = "cancelling"

\* The parts of the fencing argument.  An epoch is granted once, to one process.
GrantsAreExclusive ==
  /\ \A g \in granted : g[3] # 0 /\ g[3] <= epoch[g[2]]
  /\ \A g, h \in granted : g[2] = h[2] /\ g[3] = h[3] => g[1] = h[1]

\* A handle, or a lease that submit() has just got, carries an epoch of its process.
HandlesAreGranted ==
  \A p \in Proc, t \in Task :
    /\ hepoch[p][t] # 0 => <<p, t, hepoch[p][t]>> \in granted
    /\ work[p][t] \in Unfinished \/ sub[p][t] = "leased" => hepoch[p][t] # 0

\* So does a claim that poll_once() holds.
OffersAreGranted ==
  \A p \in Proc : poll[p] \in {"got", "failing"} =>
    <<p, offer[p].task, offer[p].epoch>> \in granted

\* So does a write, on the wire or accepted; a success has a completed execution.
WritesAreGranted ==
  /\ finished \subseteq granted
  /\ \A r \in wire \cup wrote :
       /\ <<r.proc, r.task, r.epoch>> \in granted
       /\ r.status = "SUCCEEDED" => <<r.proc, r.task, r.epoch>> \in finished

\* A task that has not been created has no lease, and while submit() awaits its
\* calls for a task, its process runs nothing for it.
SubmitsAreFresh ==
  /\ \A t \in Task : status[t] = "absent" => epoch[t] = 0
  /\ \A p \in Proc : poll[p] # "idle" => p \in Worker
  /\ \A p \in Proc, t \in Task :
       sub[p][t] # "none" => p \in Inline /\ work[p][t] \notin Unfinished

\* An accepted write decided its task, under the epoch that was and stays the last.
WritesAreFinal ==
  \A r \in wrote : status[r.task] = r.status /\ r.epoch = epoch[r.task]

\* The strengthening that makes the fencing argument inductive: whatever carries
\* an epoch carries one that was granted to the process that uses it, and no epoch
\* is granted after a write was accepted.
LeaseInv ==
  /\ GrantsAreExclusive
  /\ HandlesAreGranted
  /\ OffersAreGranted
  /\ WritesAreGranted
  /\ WritesAreFinal
  /\ SubmitsAreFresh

\* The runs of a task that produced a complete result, in whichever process.
Completed ==
  [t \in Task |-> {e \in 1 .. epoch[t] : \E p \in Proc : <<p, t, e>> \in finished}]

\* The task the callers see behaves as TaskLifecycle says.
Lifecycle == INSTANCE TaskLifecycle WITH
  state <- status,
  run <- epoch,
  completed <- Completed

\* Every step of the processes, the network and the service is a step of the
\* lifecycle or invisible to it.
ImplementsLifecycle == Lifecycle!Spec
=============================================================================

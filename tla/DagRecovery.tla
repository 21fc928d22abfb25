---------------------------- MODULE DagRecovery ----------------------------
(***************************************************************************)
(* The recovery sessions of one durable DAG task                           *)
(* (application/dag_recovery.py), the way dag.py and the model adapter     *)
(* (dag_budget_model.py) drive them, and the central checkpoint they       *)
(* share.  Session s is the execution under lease epoch s: a session that  *)
(* lost its lease runs on until a call tells it, next to its successors.   *)
(*                                                                         *)
(* The operations of a session are its DAG nodes and the synthesis: run()  *)
(* is called for each key once per session and attempt, after the keys it  *)
(* depends on, and runs with other keys in parallel.  The version of an    *)
(* entry is the session that wrote it, for it is a fresh uuid per run();   *)
(* the fingerprint of an input is the versions of the results it is made   *)
(* of.  Tokens are left out next to calls: both are counted, capped and    *)
(* saved together.                                                         *)
(*                                                                         *)
(* pc[s][k], run() for key k in session s:                                 *)
(*   todo         not called yet                                           *)
(*   saveRunning  awaits the save of the RUNNING entry                     *)
(*   invoke       awaits invoke(), between its model calls                 *)
(*   saveCall     awaits the save of a reservation for a model call        *)
(*   saveDone     awaits the save of the result                            *)
(*   delivered    returned a result to the caller                          *)
(*   raised       raised                                                   *)
(***************************************************************************)
EXTENDS Naturals

CONSTANTS
  MaxEpoch,       \* how often the task is claimed
  Key,            \* operation keys
  DependsOn,      \* DependsOn[k]: the keys whose results are inputs of k
  max_calls,      \* DagRunLimits.max_model_calls
  MaxOperations,  \* 256 in run()
  Synthesis,      \* the keys run by checkpoint_step, with its default predicate
  None,           \* no holder of a session's lock
  NoState         \* `state: null' of a checkpoint

Session == 1 .. MaxEpoch

ASSUME RecoveryAssumption ==
  /\ MaxEpoch \in Nat \ {0}
  /\ DependsOn \in [Key -> SUBSET Key]
  /\ max_calls \in Nat
  /\ MaxOperations \in Nat
  /\ Synthesis \subseteq Key
  /\ None \notin Key

VARIABLES
  lease,       \* the lease epoch the service has granted last
  revision,    \* DagCheckpoint.revision, central
  checkpoint,  \* DagCheckpoint.state, central
  phase,       \* of a session: none, creating, open, closed
  rev,         \* DagRecovery.revision
  state,       \* DagRecovery.state
  failed,      \* DagRecovery.failed
  lock,        \* DagRecovery.lock: the key that holds it
  pc,          \* run() of a key in a session
  req,         \* the save of a session on its way to the service
  ack,         \* its answer: none, ok, refused
  called       \* history: model calls made by all sessions

central == <<lease, revision, checkpoint>>
vars == <<central, phase, rev, state, failed, lock, pc, req, ack, called>>

Version == 0 .. MaxEpoch
Entry == [version : Version, inputs : [Key -> Version],
          status : {"absent", "RUNNING", "DONE"}, reusable : BOOLEAN]
\* deadline names the session that fixed it.
State == [deadline : Session, model_calls : 0 .. max_calls, operations : [Key -> Entry]]

ASSUME NoStateAssumption == NoState \notin State

NoEntry == [version |-> 0, inputs |-> [k \in Key |-> 0], status |-> "absent", reusable |-> FALSE]
NewState(s) == [deadline |-> s, model_calls |-> 0, operations |-> [k \in Key |-> NoEntry]]
NoReq == [rev |-> 0, state |-> NoState]

RecoveryTypeOK ==
  /\ lease \in Session
  /\ revision \in Nat
  /\ checkpoint \in State \cup {NoState}
  /\ phase \in [Session -> {"none", "creating", "open", "closed"}]
  /\ rev \in [Session -> Nat]
  /\ state \in [Session -> State \cup {NoState}]
  /\ \A s \in Session : phase[s] = "open" => state[s] # NoState
  /\ failed \in [Session -> BOOLEAN]
  /\ lock \in [Session -> Key \cup {None}]
  /\ pc \in [Session -> [Key -> {"todo", "saveRunning", "invoke", "saveCall", "saveDone",
                                 "delivered", "raised"}]]
  /\ req \in [Session -> [rev : Nat, state : State \cup {NoState}]]
  /\ ack \in [Session -> {"none", "ok", "refused"}]
  /\ called \in Nat

Init ==
  /\ lease = 1
  /\ revision = 0
  /\ checkpoint = NoState
  /\ phase = [s \in Session |-> "none"]
  /\ rev = [s \in Session |-> 0]
  /\ state = [s \in Session |-> NoState]
  /\ failed = [s \in Session |-> FALSE]
  /\ lock = [s \in Session |-> None]
  /\ pc = [s \in Session |-> [k \in Key |-> "todo"]]
  /\ req = [s \in Session |-> NoReq]
  /\ ack = [s \in Session |-> "none"]
  /\ called = 0

-----------------------------------------------------------------------------
(***************************************************************************)
(* The service.                                                            *)
(***************************************************************************)

\* The lease expires and the task is claimed again.
Takeover ==
  /\ lease < MaxEpoch
  /\ lease' = lease + 1
  /\ UNCHANGED <<revision, checkpoint, phase, rev, state, failed, lock, pc, req, ack, called>>

\* POST /async/tasks/{id}/checkpoint needs the current lease and the current revision.
Accepts(s) == lease = s /\ req[s].rev = revision

\* A save arrives, be it that the session still waits for it or not.
Arrive(s) ==
  /\ req[s] # NoReq
  /\ req' = [req EXCEPT ![s] = NoReq]
  /\ IF Accepts(s)
       THEN /\ revision' = revision + 1
            /\ checkpoint' = req[s].state
            /\ ack' = [ack EXCEPT ![s] = "ok"]
       ELSE /\ UNCHANGED <<revision, checkpoint>>
            /\ ack' = [ack EXCEPT ![s] = "refused"]
  /\ UNCHANGED <<lease, phase, rev, state, failed, lock, pc, called>>

-----------------------------------------------------------------------------
(***************************************************************************)
(* DagRecovery.open()                                                      *)
(***************************************************************************)

\* read() is refused without the lease.
OpenRefused(s) ==
  /\ phase[s] = "none"
  /\ lease > s
  /\ phase' = [phase EXCEPT ![s] = "closed"]
  /\ UNCHANGED <<central, rev, state, failed, lock, pc, req, ack, called>>

\* Mutant: the session that resumes refreshes the deadline.
ResumedAfresh(s) == [checkpoint EXCEPT !.deadline = s]

\* What a session resumes with: the checkpoint, deadline and budget included.
Resumed(s) == checkpoint

\* There is a checkpoint: the session goes on from it.
OpenResumes(s) ==
  /\ phase[s] = "none" /\ lease = s
  /\ checkpoint # NoState
  /\ phase' = [phase EXCEPT ![s] = "open"]
  /\ rev' = [rev EXCEPT ![s] = revision]
  /\ state' = [state EXCEPT ![s] = Resumed(s)]
  /\ UNCHANGED <<central, failed, lock, pc, req, ack, called>>

\* There is none: one is saved first.
OpenCreates(s) ==
  /\ phase[s] = "none" /\ lease = s
  /\ checkpoint = NoState
  /\ phase' = [phase EXCEPT ![s] = "creating"]
  /\ req' = [req EXCEPT ![s] = [rev |-> 0, state |-> NewState(s)]]
  /\ UNCHANGED <<central, rev, state, failed, lock, pc, ack, called>>

\* The reply to that save is the session's state.
OpenCreated(s) ==
  /\ phase[s] = "creating" /\ ack[s] = "ok"
  /\ phase' = [phase EXCEPT ![s] = "open"]
  /\ rev' = [rev EXCEPT ![s] = 1]
  /\ state' = [state EXCEPT ![s] = NewState(s)]
  /\ ack' = [ack EXCEPT ![s] = "none"]
  /\ UNCHANGED <<central, failed, lock, pc, req, called>>

\* It is refused, or nobody knows: open() raises and there is no session.  A crash
\* of the process, or the end of the run, closes an open session.
Close(s) ==
  /\ phase[s] \in {"creating", "open"}
  /\ phase' = [phase EXCEPT ![s] = "closed"]
  /\ UNCHANGED <<central, rev, state, failed, lock, pc, req, ack, called>>

-----------------------------------------------------------------------------
(***************************************************************************)
(* run(), reserve() and _save().                                           *)
(***************************************************************************)

\* `async with self.lock' and ensure_active().
Enters(s) == phase[s] = "open" /\ lock[s] = None /\ ~failed[s]

\* _save sends a copy of the state, with the lock held until the answer.
Send(s, k, st) ==
  /\ state' = [state EXCEPT ![s] = st]
  /\ req' = [req EXCEPT ![s] = [rev |-> rev[s], state |-> st]]
  /\ lock' = [lock EXCEPT ![s] = k]

InputsReady(s, k) == \A d \in DependsOn[k] : pc[s][d] = "delivered"

\* The fingerprint of the inputs of k, by the versions of what they are made of.
fingerprint(s, k) ==
  [d \in Key |-> IF d \in DependsOn[k] THEN state[s].operations[d].version ELSE 0]

\* Mutant: an entry is reused whatever its inputs were.
ReusableAnyInput(s, k) ==
  LET old == state[s].operations[k] IN old.status = "DONE" /\ old.reusable

\* The stored result can stand for the run.
Reusable(s, k) ==
  LET old == state[s].operations[k]
  IN old.inputs = fingerprint(s, k) /\ old.status = "DONE" /\ old.reusable

Used(s) == {k \in Key : state[s].operations[k].status # "absent"}

\* `key not in operations and len(operations) >= 256'
AtCapacity(s, k) ==
  /\ k \notin Used(s)
  /\ \E f \in [1 .. MaxOperations -> Used(s)] : \A x, y \in 1 .. MaxOperations : f[x] = f[y] => x = y

\* run() returns the stored result.
RunReuses(s, k) ==
  /\ Enters(s) /\ pc[s][k] = "todo" /\ InputsReady(s, k)
  /\ Reusable(s, k)
  /\ pc' = [pc EXCEPT ![s][k] = "delivered"]
  /\ UNCHANGED <<central, phase, rev, state, failed, lock, req, ack, called>>

\* It raises: the checkpoint is full.
RunRefused(s, k) ==
  /\ Enters(s) /\ pc[s][k] = "todo" /\ InputsReady(s, k)
  /\ ~Reusable(s, k) /\ AtCapacity(s, k)
  /\ pc' = [pc EXCEPT ![s][k] = "raised"]
  /\ UNCHANGED <<central, phase, rev, state, failed, lock, req, ack, called>>

\* It writes a RUNNING entry over whatever was there.
RunStarts(s, k) ==
  /\ Enters(s) /\ pc[s][k] = "todo" /\ InputsReady(s, k)
  /\ ~Reusable(s, k) /\ ~AtCapacity(s, k)
  /\ pc' = [pc EXCEPT ![s][k] = "saveRunning"]
  /\ Send(s, k, [state[s] EXCEPT !.operations[k] =
       [version |-> s, inputs |-> fingerprint(s, k), status |-> "RUNNING", reusable |-> FALSE]])
  /\ UNCHANGED <<central, phase, rev, failed, ack, called>>

BudgetLeft(s) == state[s].model_calls < max_calls

\* A model call inside invoke(): reserve() counts and saves it first.  Without budget
\* it raises, which invoke() may turn into a result.
Reserve(s, k) ==
  /\ Enters(s) /\ pc[s][k] = "invoke"
  /\ BudgetLeft(s)
  /\ pc' = [pc EXCEPT ![s][k] = "saveCall"]
  /\ Send(s, k, [state[s] EXCEPT !.model_calls = @ + 1])
  /\ UNCHANGED <<central, phase, rev, failed, ack, called>>

\* Mutant: the default predicate is not to reuse.
MaybeReusableNodesOnly(s, k) ==
  {FALSE} \cup {k \notin Synthesis /\ \A d \in DependsOn[k] : state[s].operations[d].reusable}

\* What the predicate passed to run() says of a result.  A synthesis is always reusable; a
\* node only if it ended well, without a tool call, and all its inputs are reusable.
MaybeReusable(s, k) ==
  IF k \in Synthesis THEN {TRUE}
  ELSE {FALSE} \cup {\A d \in DependsOn[k] : state[s].operations[d].reusable}

\* The state with the result of k in it.
Done(s, k, yes) ==
  [state[s] EXCEPT !.operations[k].status = "DONE", !.operations[k].reusable = yes]

\* invoke() returns: the result is saved, then handed to the caller.
RunReturns(s, k) ==
  /\ Enters(s) /\ pc[s][k] = "invoke"
  /\ pc' = [pc EXCEPT ![s][k] = "saveDone"]
  /\ \E yes \in MaybeReusable(s, k) : Send(s, k, Done(s, k, yes))
  /\ UNCHANGED <<central, phase, rev, failed, ack, called>>

\* invoke() returns, but another save of the session failed meanwhile, or its deadline
\* is over: the entry is changed before ensure_active() raises, and not saved.
RunReturnsInactive(s, k) ==
  /\ phase[s] = "open" /\ lock[s] = None /\ pc[s][k] = "invoke"
  /\ pc' = [pc EXCEPT ![s][k] = "raised"]
  /\ \E yes \in MaybeReusable(s, k) : state' = [state EXCEPT ![s] = Done(s, k, yes)]
  /\ UNCHANGED <<central, phase, rev, failed, lock, req, ack, called>>

\* run() raises before it does anything (the session failed, or its deadline is over),
\* or its invoke() does.
RunRaises(s, k) ==
  /\ phase[s] = "open"
  /\ \/ pc[s][k] = "todo" /\ InputsReady(s, k) /\ lock[s] = None
     \/ pc[s][k] = "invoke"
  /\ pc' = [pc EXCEPT ![s][k] = "raised"]
  /\ UNCHANGED <<central, phase, rev, state, failed, lock, req, ack, called>>

Saving == {"saveRunning", "saveCall", "saveDone"}

\* Mutant: any reply acknowledges the save.
AcknowledgedByAny(s) == ack[s] # "none"

\* The reply shows the next revision and the state that was sent.
Acknowledged(s) == ack[s] = "ok"

AfterSave(w) ==
  CASE w = "saveRunning" -> "invoke" [] w = "saveCall" -> "invoke" [] w = "saveDone" -> "delivered"

\* _save returns.  What was reserved is now called.
Saved(s, k) ==
  /\ phase[s] = "open" /\ pc[s][k] \in Saving
  /\ Acknowledged(s)
  /\ ack' = [ack EXCEPT ![s] = "none"]
  /\ rev' = [rev EXCEPT ![s] = rev[s] + 1]
  /\ lock' = [lock EXCEPT ![s] = None]
  /\ pc' = [pc EXCEPT ![s][k] = AfterSave(pc[s][k])]
  /\ called' = IF pc[s][k] = "saveCall" THEN called + 1 ELSE called
  /\ UNCHANGED <<central, phase, state, failed, req>>

\* Mutant: a save of unknown fate leaves the session as it was.
FailedAfterUnchanged(s) == failed[s]

\* `except BaseException: self.failed = True'
FailedAfter(s) == TRUE

\* _save raises: refused, or no answer in time, or the caller is cancelled.  The
\* model adapter's exception may be caught inside invoke(), the others leave run().
SaveFails(s, k) ==
  /\ phase[s] = "open" /\ pc[s][k] \in Saving
  /\ failed' = [failed EXCEPT ![s] = FailedAfter(s)]
  /\ lock' = [lock EXCEPT ![s] = None]
  /\ pc' = [pc EXCEPT ![s][k] = IF pc[s][k] = "saveCall" THEN "invoke" ELSE "raised"]
  /\ UNCHANGED <<central, phase, rev, state, req, ack, called>>

-----------------------------------------------------------------------------
Open(s) ==
  OpenRefused(s) \/ OpenResumes(s) \/ OpenCreates(s) \/ OpenCreated(s) \/ Close(s)

Run(s, k) ==
  \/ RunReuses(s, k) \/ RunRefused(s, k) \/ RunStarts(s, k) \/ Reserve(s, k)
  \/ RunReturns(s, k) \/ RunReturnsInactive(s, k) \/ RunRaises(s, k) \/ Saved(s, k) \/ SaveFails(s, k)

Next ==
  \/ Takeover
  \/ \E s \in Session : Arrive(s) \/ Open(s)
  \/ \E s \in Session, k \in Key : Run(s, k)

Spec == Init /\ [][Next]_vars

-----------------------------------------------------------------------------
(***************************************************************************)
(* Properties.                                                             *)
(***************************************************************************)

\* Every model call of every session, old or new, is covered by a reservation in the
\* checkpoint, and their number stays within the limit over all takeovers (reserve()
\* saves before dag_budgeted_call calls the model, and nothing is refunded).
CallsAreReserved ==
  /\ called <= max_calls
  /\ called > 0 => checkpoint # NoState /\ called <= checkpoint.model_calls

\* What run() handed to the caller is in the checkpoint, as long as no other session
\* has the lease: a takeover at any moment finds it.
DeliveredIsCommitted ==
  \A s \in Session, k \in Key :
    lease = s /\ phase[s] = "open" /\ pc[s][k] = "delivered" =>
      checkpoint.operations[k] = state[s].operations[k] /\ checkpoint.operations[k].status = "DONE"

\* A result, computed or reused, was made of exactly the results of the upstream keys
\* that this session delivered: no node is combined with a stale predecessor.
InputsAreCurrent ==
  \A s \in Session, k \in Key : pc[s][k] = "delivered" =>
    \A d \in DependsOn[k] :
      pc[s][d] = "delivered" /\ state[s].operations[k].inputs[d] = state[s].operations[d].version

\* The checkpoint only grows: its budget is never refunded, its deadline is fixed by
\* the first save, and a late save of an old session changes nothing.
CheckpointIsMonotone ==
  [][checkpoint # NoState =>
       /\ checkpoint' # NoState
       /\ checkpoint'.deadline = checkpoint.deadline
       /\ checkpoint'.model_calls >= checkpoint.model_calls
       /\ \A k \in Key : checkpoint'.operations[k].version >= checkpoint.operations[k].version]_vars
=============================================================================

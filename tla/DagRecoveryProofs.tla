------------------------- MODULE DagRecoveryProofs -------------------------
(***************************************************************************)
(* Proofs about DagRecovery and DagPlanning, for any number of takeovers,  *)
(* any operations and any limits.                                          *)
(*                                                                         *)
(* The properties speak of the checkpoint and of what sessions have        *)
(* returned; they are not inductive, for they say nothing of a save on its *)
(* way.  RecoveryInv adds that: a session has one save out at a time and   *)
(* its lock while it waits (SavesAreSerial); before a session fails it is  *)
(* in step with the checkpoint, as long as it has the lease (InStep); and  *)
(* whatever it has out extends the checkpoint (SavesExtend).  A session    *)
(* without the lease is refused, so nothing is asked of it.                *)
(***************************************************************************)
EXTENDS DagPlanning, FiniteSetTheorems, TLAPS

-----------------------------------------------------------------------------
(* The inductive invariant *)

\* A session has the lock for a key exactly while the key's run() awaits a save; before
\* it is open nothing runs; and the answer it finds is that of its only save.
Serial(s) ==
  /\ s > lease => phase[s] = "none"
  /\ phase[s] \in {"none", "creating"} =>
       lock[s] = None /\ ~failed[s] /\ (\A k \in Key : pc[s][k] = "todo")
  /\ phase[s] = "none" => req[s] = NoReq
  /\ \A k \in Key : pc[s][k] \in Saving <=> lock[s] = k
  /\ req[s] # NoReq => ack[s] = "none" /\ req[s].state # NoState
  /\ phase[s] \in {"none", "open"} /\ ~failed[s] /\ lock[s] = None =>
       req[s] = NoReq /\ ack[s] = "none"
  /\ phase[s] = "creating" /\ req[s] # NoReq => req[s].state = NewState(s)
  /\ lock[s] # None /\ req[s] # NoReq => req[s].state = state[s]
  /\ lock[s] # None => state[s] # NoState

SavesAreSerial == \A s \in Session : Serial(s)

\* What a session that has the lease and has not failed knows of the checkpoint.
Current(s) ==
  /\ phase[s] = "open" \/ (phase[s] = "creating" /\ ack[s] = "ok") => checkpoint # NoState
  /\ lock[s] # None => checkpoint # NoState
  /\ lease = s /\ phase[s] = "creating" /\ ack[s] = "ok" => checkpoint = NewState(s)
  /\ lease = s /\ lock[s] # None /\ ack[s] = "ok" => checkpoint = state[s]
  /\ lease = s /\ phase[s] = "open" /\ ~failed[s] /\ lock[s] = None =>
       /\ checkpoint.deadline = state[s].deadline
       /\ checkpoint.model_calls = state[s].model_calls
       /\ \A k \in Key :
            /\ checkpoint.operations[k].version = state[s].operations[k].version
            /\ pc[s][k] # "raised" => checkpoint.operations[k] = state[s].operations[k]

InStep == \A s \in Session : Current(s)

\* st continues cp: same deadline, no smaller count, no older entry.
Continues(st, cp) ==
  /\ st.deadline = cp.deadline
  /\ st.model_calls >= cp.model_calls
  /\ \A k \in Key : st.operations[k].version >= cp.operations[k].version

\* The save of the session with the lease continues the checkpoint, with one call more
\* if it is a reservation.
Extending(s) ==
  lease = s /\ req[s] # NoReq /\ checkpoint # NoState =>
    /\ Continues(req[s].state, checkpoint)
    /\ \A k \in Key : pc[s][k] = "saveCall" => req[s].state.model_calls > checkpoint.model_calls

SavesExtend == \A s \in Session : Extending(s)

\* Nobody has an entry from a session after his own.
Old(s) ==
  /\ lease = s /\ checkpoint # NoState =>
       \A k \in Key : checkpoint.operations[k].version <= s
  /\ state[s] # NoState => \A k \in Key : state[s].operations[k].version <= s
  /\ req[s] # NoReq => \A k \in Key : req[s].state.operations[k].version <= s

VersionsAreOld == \A s \in Session : Old(s)

\* What a session has returned, or is about to, is done; as long as it has the lease it is
\* in the checkpoint and in its save.
Committed(s) ==
  \A k \in Key :
    /\ pc[s][k] \in {"saveDone", "delivered"} => state[s].operations[k].status = "DONE"
    /\ lease = s /\ phase[s] = "open" /\ pc[s][k] = "delivered" =>
         /\ checkpoint.operations[k] = state[s].operations[k]
         /\ req[s] # NoReq => req[s].state.operations[k] = state[s].operations[k]

ReturnsAreCommitted == \A s \in Session : Committed(s)

\* From its start to its return a run has the inputs that were delivered.
Kept(s) ==
  \A k \in Key : pc[s][k] \in {"saveRunning", "invoke", "saveCall", "saveDone", "delivered"} =>
    \A d \in DependsOn[k] :
      pc[s][d] = "delivered" /\ state[s].operations[k].inputs[d] = state[s].operations[d].version

InputsAreKept == \A s \in Session : Kept(s)

\* Reservations that were answered and not yet used for a call.
Granted == {s \in Session : ack[s] = "ok" /\ \E k \in Key : pc[s][k] = "saveCall"}

\* Calls and open reservations are covered by the checkpoint.
CallsAreCovered ==
  called + Cardinality(Granted) <= IF checkpoint = NoState THEN 0 ELSE checkpoint.model_calls

RecoveryInv ==
  /\ RecoveryTypeOK /\ SavesAreSerial /\ InStep /\ SavesExtend /\ VersionsAreOld
  /\ ReturnsAreCommitted /\ InputsAreKept /\ CallsAreCovered

-----------------------------------------------------------------------------
(* Operators *)

\* A checkpoint with one entry replaced.
LEMMA EntryReplaced ==
  ASSUME NEW st \in State, NEW k \in Key, NEW e \in Entry
  PROVE  LET new == [st EXCEPT !.operations[k] = e]
         IN /\ new \in State
            /\ new.deadline = st.deadline /\ new.model_calls = st.model_calls
            /\ new.operations = [st.operations EXCEPT ![k] = e]
  BY DEF State

\* A checkpoint with a result in one entry.
LEMMA EntryDone ==
  ASSUME NEW s \in Session, NEW k \in Key, NEW yes \in BOOLEAN, state[s] \in State
  PROVE  /\ Done(s, k, yes) \in State
         /\ Done(s, k, yes).deadline = state[s].deadline
         /\ Done(s, k, yes).model_calls = state[s].model_calls
         /\ \A d \in Key \ {k} : Done(s, k, yes).operations[d] = state[s].operations[d]
         /\ Done(s, k, yes).operations[k].version = state[s].operations[k].version
         /\ Done(s, k, yes).operations[k].inputs = state[s].operations[k].inputs
         /\ Done(s, k, yes).operations[k].status = "DONE"
         /\ Done(s, k, yes).operations[k].reusable = yes
  <1> DEFINE st == state[s]
             e == [st.operations[k] EXCEPT !.status = "DONE", !.reusable = yes]
             new == [st EXCEPT !.operations = [st.operations EXCEPT ![k] = e]]
  <1>1. st.operations \in [Key -> Entry] /\ st.operations[k] \in Entry
    BY DEF State
  <1>2. /\ e \in Entry /\ e.version = st.operations[k].version
        /\ e.inputs = st.operations[k].inputs /\ e.status = "DONE" /\ e.reusable = yes
    BY <1>1 DEF Entry
  <1>3. Done(s, k, yes) = new
    BY <1>1 DEF Done, State, Entry
  <1> HIDE DEF e
  <1>4. /\ new \in State /\ new.deadline = st.deadline /\ new.model_calls = st.model_calls
        /\ new.operations = [st.operations EXCEPT ![k] = e]
    BY <1>1, <1>2 DEF State
  <1> HIDE DEF new
  <1> QED  BY <1>1, <1>2, <1>3, <1>4

\* One more call.
LEMMA CallCounted ==
  ASSUME NEW st \in State, st.model_calls < max_calls
  PROVE  LET new == [st EXCEPT !.model_calls = @ + 1]
         IN /\ new \in State
            /\ new.deadline = st.deadline /\ new.model_calls = st.model_calls + 1
            /\ new.operations = st.operations
  BY RecoveryAssumption DEF State

\* The entry of a run that starts.
Started(s, k) ==
  [version |-> s, inputs |-> fingerprint(s, k), status |-> "RUNNING", reusable |-> FALSE]

\* It is an entry.
LEMMA StartedType ==
  ASSUME NEW s \in Session, NEW k \in Key, state[s] \in State
  PROVE  Started(s, k) \in Entry /\ fingerprint(s, k) \in [Key -> Version]
  BY RecoveryAssumption DEF State, Entry, Started, fingerprint, Session, Version

\* The first checkpoint is a state.
LEMMA NewStateType == \A s \in Session : NewState(s) \in State
  BY RecoveryAssumption DEF NewState, NoEntry, State, Entry, Version, Session

\* What the predicate says of a result; a synthesis is always reusable.
LEMMA MaybeReusableType ==
  ASSUME NEW s \in Session, NEW k \in Key
  PROVE  \A yes \in MaybeReusable(s, k) : yes \in BOOLEAN /\ (k \in Synthesis => yes)
  BY DEF MaybeReusable

\* Key k of session s begins a save of st and is at w until it ends: st continues the
\* session's own state, and differs from it in the entry of the key at most.
SaveOf(s, k, st, w) ==
  /\ phase[s] = "open" /\ lock[s] = None /\ ~failed[s]
  /\ pc[s][k] \in {"todo", "invoke"}
  /\ pc' = [pc EXCEPT ![s][k] = w]
  /\ Send(s, k, st)
  /\ UNCHANGED <<central, phase, rev, failed, ack, called>>
  /\ st.deadline = state[s].deadline
  /\ st.model_calls >= state[s].model_calls
  /\ w = "saveCall" => st.model_calls > state[s].model_calls
  /\ w = "saveDone" => st.operations[k].status = "DONE"
  /\ \A d \in Key \ {k} : st.operations[d] = state[s].operations[d]
  /\ pc[s][k] = "todo" =>
       /\ InputsReady(s, k) /\ k \notin DependsOn[k] /\ ~Reusable(s, k)
       /\ w = "saveRunning" /\ st.operations[k].status = "RUNNING"
       /\ st.operations[k].version = s
       /\ st.operations[k].inputs = fingerprint(s, k)
  /\ pc[s][k] = "invoke" =>
       /\ st.operations[k].version = state[s].operations[k].version
       /\ st.operations[k].inputs = state[s].operations[k].inputs
       /\ \/ w = "saveCall" /\ st.operations[k] = state[s].operations[k]
          \/ w = "saveDone" /\ (k \in Synthesis => st.operations[k].reusable)

\* The three steps that save do that.
LEMMA SendStep ==
  ASSUME RecoveryTypeOK, NEW s \in Session, NEW k \in Key,
         RunStarts(s, k) \/ Reserve(s, k) \/ RunReturns(s, k)
  PROVE  \E st \in State, w \in Saving : SaveOf(s, k, st, w)
  <1>0. phase[s] = "open" => state[s] \in State
    BY DEF RecoveryTypeOK
  <1>1. CASE RunStarts(s, k)
    <2>1. phase[s] = "open" /\ state[s] \in State /\ pc[s][k] = "todo" /\ InputsReady(s, k)
          /\ ~Reusable(s, k)
      BY <1>0, <1>1 DEF RunStarts, Enters
    <2> DEFINE st == [state[s] EXCEPT !.operations[k] = Started(s, k)]
    <2>2. st \in State /\ st.deadline = state[s].deadline
             /\ st.model_calls = state[s].model_calls
             /\ st.operations = [state[s].operations EXCEPT ![k] = Started(s, k)]
      BY <2>1, EntryReplaced, StartedType
    <2>3. \A d \in Key \ {k} : st.operations[d] = state[s].operations[d]
      BY <2>1, <2>2 DEF State
    <2>4. st.operations[k] = Started(s, k)
      BY <2>1, <2>2 DEF State
    <2>5. k \notin DependsOn[k]
      BY <2>1 DEF InputsReady
    <2>6. Send(s, k, st) /\ pc' = [pc EXCEPT ![s][k] = "saveRunning"]
          /\ UNCHANGED <<central, phase, rev, failed, ack, called>>
          /\ phase[s] = "open" /\ lock[s] = None /\ ~failed[s]
      BY <1>1 DEF RunStarts, Started, Enters
    <2>7. /\ st.operations[k].version = s /\ st.operations[k].inputs = fingerprint(s, k)
          /\ st.operations[k].status = "RUNNING"
      BY <2>4 DEF Started
    <2>8. state[s].model_calls \in Nat
      BY <2>1, RecoveryAssumption DEF State
    <2> HIDE DEF st
    <2>9. SaveOf(s, k, st, "saveRunning")
      BY <2>1, <2>2, <2>3, <2>5, <2>6, <2>7, <2>8 DEF SaveOf
    <2> QED  BY <2>2, <2>9 DEF Saving
  <1>2. CASE Reserve(s, k)
    <2>1. phase[s] = "open" /\ state[s] \in State /\ pc[s][k] = "invoke"
          /\ state[s].model_calls < max_calls
      BY <1>0, <1>2 DEF Reserve, Enters, BudgetLeft
    <2> DEFINE st == [state[s] EXCEPT !.model_calls = @ + 1]
    <2>2. st \in State /\ st.deadline = state[s].deadline
             /\ st.model_calls = state[s].model_calls + 1
             /\ st.operations = state[s].operations
      BY <2>1, CallCounted
    <2>3. Send(s, k, st) /\ pc' = [pc EXCEPT ![s][k] = "saveCall"]
          /\ UNCHANGED <<central, phase, rev, failed, ack, called>>
          /\ phase[s] = "open" /\ lock[s] = None /\ ~failed[s]
      BY <1>2 DEF Reserve, Enters
    <2>4. state[s].model_calls \in Nat
      BY <2>1, RecoveryAssumption DEF State
    <2> HIDE DEF st
    <2>5. SaveOf(s, k, st, "saveCall")
      BY <2>1, <2>2, <2>3, <2>4 DEF SaveOf
    <2> QED  BY <2>2, <2>5 DEF Saving
  <1>3. CASE RunReturns(s, k)
    <2>1. phase[s] = "open" /\ state[s] \in State /\ pc[s][k] = "invoke"
      BY <1>0, <1>3 DEF RunReturns, Enters
    <2>2. PICK yes \in MaybeReusable(s, k) : Send(s, k, Done(s, k, yes))
      BY <1>3 DEF RunReturns
    <2>3. pc' = [pc EXCEPT ![s][k] = "saveDone"]
          /\ UNCHANGED <<central, phase, rev, failed, ack, called>>
          /\ phase[s] = "open" /\ lock[s] = None /\ ~failed[s]
      BY <1>3 DEF RunReturns, Enters
    <2>4. /\ state[s].model_calls \in Nat
          /\ yes \in BOOLEAN /\ (k \in Synthesis => yes)
      BY <2>1, RecoveryAssumption, MaybeReusableType DEF State
    <2> DEFINE st == Done(s, k, yes)
    <2>5. /\ st \in State /\ st.deadline = state[s].deadline
          /\ st.model_calls = state[s].model_calls
          /\ \A d \in Key \ {k} : st.operations[d] = state[s].operations[d]
          /\ st.operations[k].version = state[s].operations[k].version
          /\ st.operations[k].inputs = state[s].operations[k].inputs
          /\ st.operations[k].status = "DONE"
          /\ k \in Synthesis => st.operations[k].reusable
      BY <2>1, <2>4, EntryDone
    <2>6. Send(s, k, st)
      BY <2>2
    <2> HIDE DEF st
    <2>7. SaveOf(s, k, st, "saveDone")
      BY <2>1, <2>3, <2>4, <2>5, <2>6 DEF SaveOf
    <2> QED  BY <2>5, <2>7 DEF Saving
  <1> QED  BY <1>1, <1>2, <1>3

-----------------------------------------------------------------------------
(* Type correctness *)

\* Every step keeps the types.
LEMMA RecoveryTypeStep == RecoveryTypeOK /\ [Next]_vars => RecoveryTypeOK'
  <1> SUFFICES ASSUME RecoveryTypeOK, [Next]_vars  PROVE RecoveryTypeOK'
    OBVIOUS
  <1> USE DEF RecoveryTypeOK, central
  <1>1. CASE Takeover
    BY <1>1, RecoveryAssumption DEF Takeover, Session
  <1>2. ASSUME NEW s \in Session, Arrive(s)  PROVE RecoveryTypeOK'
    <2>1. NoReq \in [rev : Nat, state : State \cup {NoState}]
      BY DEF NoReq
    <2>2. CASE Accepts(s)
      <3>1. req[s].state \in State \cup {NoState}
        OBVIOUS
      <3>2. revision + 1 \in Nat
        OBVIOUS
      <3> QED  BY <1>2, <2>1, <2>2, <3>1, <3>2 DEF Arrive
    <2>3. CASE ~Accepts(s)
      BY <1>2, <2>1, <2>3 DEF Arrive
    <2> QED  BY <2>2, <2>3
  <1>3. ASSUME NEW s \in Session, OpenRefused(s) \/ Close(s)  PROVE RecoveryTypeOK'
    BY <1>3 DEF OpenRefused, Close
  <1>4. ASSUME NEW s \in Session, OpenResumes(s)  PROVE RecoveryTypeOK'
    BY <1>4 DEF OpenResumes, Resumed
  <1>5. ASSUME NEW s \in Session, OpenCreates(s)  PROVE RecoveryTypeOK'
    BY <1>5, NewStateType DEF OpenCreates
  <1>6. ASSUME NEW s \in Session, OpenCreated(s)  PROVE RecoveryTypeOK'
    BY <1>6, NewStateType, NoStateAssumption DEF OpenCreated
  <1>7. ASSUME NEW s \in Session, NEW k \in Key,
               RunStarts(s, k) \/ Reserve(s, k) \/ RunReturns(s, k)
        PROVE  RecoveryTypeOK'
    <2>1. PICK st \in State, w \in Saving : SaveOf(s, k, st, w)
      BY <1>7, SendStep
    <2> QED  BY <2>1, NoStateAssumption DEF SaveOf, Send, Saving
  <1>8. ASSUME NEW s \in Session, NEW k \in Key,
               RunReuses(s, k) \/ RunRefused(s, k) \/ RunRaises(s, k)
        PROVE  RecoveryTypeOK'
    <2>1. CASE RunReuses(s, k)
      BY <2>1 DEF RunReuses
    <2>2. CASE RunRefused(s, k)
      BY <2>2 DEF RunRefused
    <2>3. CASE RunRaises(s, k)
      BY <2>3 DEF RunRaises
    <2> QED  BY <1>8, <2>1, <2>2, <2>3
  <1>9. ASSUME NEW s \in Session, NEW k \in Key, RunReturnsInactive(s, k)
        PROVE  RecoveryTypeOK'
    <2>1. PICK yes \in BOOLEAN : state' = [state EXCEPT ![s] = Done(s, k, yes)]
      BY <1>9, MaybeReusableType DEF RunReturnsInactive
    <2>2. Done(s, k, yes) \in State
      BY <1>9, EntryDone DEF RunReturnsInactive
    <2> QED  BY <1>9, <2>1, <2>2, NoStateAssumption DEF RunReturnsInactive
  <1>10. ASSUME NEW s \in Session, NEW k \in Key, Saved(s, k)  PROVE RecoveryTypeOK'
    <2>1. AfterSave(pc[s][k]) \in {"invoke", "delivered"}
      BY <1>10 DEF Saved, AfterSave, Saving
    <2> QED  BY <1>10, <2>1 DEF Saved
  <1>11. ASSUME NEW s \in Session, NEW k \in Key, SaveFails(s, k)  PROVE RecoveryTypeOK'
    BY <1>11 DEF SaveFails, FailedAfter
  <1>12. CASE UNCHANGED vars
    BY <1>12 DEF vars
  <1> QED
    BY <1>1, <1>2, <1>3, <1>4, <1>5, <1>6, <1>7, <1>8, <1>9, <1>10, <1>11, <1>12
    DEF Next, Open, Run

-----------------------------------------------------------------------------
(* The parts of the invariant *)

\* A step of session s.
StepOf(s) == Arrive(s) \/ Open(s) \/ \E k \in Key : Run(s, k)

\* What a step of another session leaves alone.
Untouched(t) ==
  /\ lease' = lease
  /\ phase'[t] = phase[t] /\ lock'[t] = lock[t] /\ failed'[t] = failed[t]
  /\ pc'[t] = pc[t] /\ req'[t] = req[t] /\ ack'[t] = ack[t] /\ state'[t] = state[t]

\* A step of one session leaves the other sessions alone.
LEMMA LocalStep ==
  ASSUME RecoveryTypeOK, NEW s \in Session, NEW t \in Session \ {s}, StepOf(s)
  PROVE  Untouched(t)
  <1> USE DEF RecoveryTypeOK, Untouched, central
  <1>1. CASE Arrive(s)
    BY <1>1 DEF Arrive
  <1>2. CASE Open(s)
    BY <1>2 DEF Open, OpenRefused, OpenResumes, OpenCreates, OpenCreated, Close
  <1>3. ASSUME NEW k \in Key, RunStarts(s, k) \/ Reserve(s, k) \/ RunReturns(s, k)
        PROVE  Untouched(t)
    BY <1>3, SendStep DEF SaveOf, Send
  <1>4. ASSUME NEW k \in Key, Run(s, k),
               ~(RunStarts(s, k) \/ Reserve(s, k) \/ RunReturns(s, k))
        PROVE  Untouched(t)
    BY <1>4 DEF Run, RunReuses, RunRefused, RunReturnsInactive, RunRaises, Saved, SaveFails
  <1> QED  BY <1>1, <1>2, <1>3, <1>4 DEF StepOf

-----------------------------------------------------------------------------
(* What a step of a session does to the session and to the checkpoint *)

\* Parts of the session, or the checkpoint, that a step leaves alone.
SameCentral == lease' = lease /\ checkpoint' = checkpoint
SameRuns(s) ==
  /\ lock'[s] = lock[s] /\ failed'[s] = failed[s] /\ pc'[s] = pc[s] /\ called' = called
SameCalls(s) == req'[s] = req[s] /\ ack'[s] = ack[s]
\* Only the run of k moves.
OneRun(s, k, w) == pc'[s][k] = w /\ \A d \in Key \ {k} : pc'[s][d] = pc[s][d]

\* Its save is stored, or refused.
SaveStored(s) ==
  /\ lease = s /\ lease' = lease
  /\ req[s] # NoReq /\ req'[s] = NoReq /\ ack'[s] = "ok" /\ checkpoint' = req[s].state
  /\ phase'[s] = phase[s] /\ state'[s] = state[s] /\ SameRuns(s)
SaveRefused(s) ==
  /\ SameCentral
  /\ req[s] # NoReq /\ req'[s] = NoReq /\ ack'[s] = "refused"
  /\ phase'[s] = phase[s] /\ state'[s] = state[s] /\ SameRuns(s)

\* It is closed; it resumes, asks for a first checkpoint, or has it.
Closes(s) ==
  /\ SameCentral /\ phase'[s] = "closed" /\ state'[s] = state[s] /\ SameRuns(s) /\ SameCalls(s)
  /\ phase[s] = "none" => lease > s
Resumes(s) ==
  /\ lease = s /\ checkpoint # NoState /\ phase[s] = "none"
  /\ SameCentral /\ phase'[s] = "open" /\ state'[s] = checkpoint /\ SameRuns(s) /\ SameCalls(s)
Creates(s) ==
  /\ lease = s /\ checkpoint = NoState /\ phase[s] = "none"
  /\ SameCentral /\ phase'[s] = "creating" /\ state'[s] = state[s] /\ SameRuns(s)
  /\ req'[s] = [rev |-> 0, state |-> NewState(s)] /\ ack'[s] = ack[s]
Created(s) ==
  /\ phase[s] = "creating" /\ ack[s] = "ok"
  /\ SameCentral /\ phase'[s] = "open" /\ state'[s] = NewState(s) /\ SameRuns(s)
  /\ req'[s] = req[s] /\ ack'[s] = "none"

\* A run begins to save st and is at w until the save ends.
Begins(s, k, st, w) ==
  /\ phase[s] = "open" /\ lock[s] = None /\ ~failed[s] /\ pc[s][k] \in {"todo", "invoke"}
  /\ SameCentral /\ phase'[s] = "open" /\ ~failed'[s] /\ called' = called
  /\ state'[s] = st /\ lock'[s] = k /\ OneRun(s, k, w) /\ ack'[s] = ack[s]
  /\ req'[s] # NoReq /\ req'[s].state = st
  /\ st.deadline = state[s].deadline
  /\ st.model_calls >= state[s].model_calls
  /\ w = "saveCall" => st.model_calls > state[s].model_calls
  /\ w = "saveDone" => st.operations[k].status = "DONE"
  /\ \A d \in Key \ {k} : st.operations[d] = state[s].operations[d]
  /\ pc[s][k] = "todo" =>
       /\ InputsReady(s, k) /\ k \notin DependsOn[k] /\ ~Reusable(s, k)
       /\ w = "saveRunning" /\ st.operations[k].status = "RUNNING"
       /\ st.operations[k].version = s
       /\ st.operations[k].inputs = fingerprint(s, k)
  /\ pc[s][k] = "invoke" =>
       /\ st.operations[k].version = state[s].operations[k].version
       /\ st.operations[k].inputs = state[s].operations[k].inputs
       /\ \/ w = "saveCall" /\ st.operations[k] = state[s].operations[k]
          \/ w = "saveDone" /\ (k \in Synthesis => st.operations[k].reusable)

\* A run ends without a save: v says how.
Ends(s, k, v) ==
  /\ phase[s] = "open" /\ pc[s][k] \in {"todo", "invoke"}
  /\ SameCentral /\ phase'[s] = "open" /\ called' = called
  /\ lock'[s] = lock[s] /\ failed'[s] = failed[s] /\ OneRun(s, k, v) /\ SameCalls(s)
  /\ \/ v = "delivered" /\ state'[s] = state[s] /\ lock[s] = None /\ ~failed[s]
          /\ pc[s][k] = "todo" /\ InputsReady(s, k) /\ Reusable(s, k)
     \/ v = "raised" /\ state'[s] = state[s]
     \/ /\ v = "raised" /\ lock[s] = None /\ pc[s][k] = "invoke"
        /\ state[s] \in State /\ state'[s] \in State
        /\ state'[s].deadline = state[s].deadline
        /\ state'[s].model_calls = state[s].model_calls
        /\ \A d \in Key \ {k} : state'[s].operations[d] = state[s].operations[d]
        /\ state'[s].operations[k].version = state[s].operations[k].version
        /\ state'[s].operations[k].inputs = state[s].operations[k].inputs
        /\ state'[s].operations[k].status = "DONE"
        /\ k \in Synthesis => state'[s].operations[k].reusable

\* The save of a run is acknowledged, or is given up.
Acked(s, k) ==
  /\ phase[s] = "open" /\ pc[s][k] \in Saving /\ ack[s] = "ok"
  /\ SameCentral /\ phase'[s] = "open" /\ state'[s] = state[s] /\ failed'[s] = failed[s]
  /\ lock'[s] = None /\ ack'[s] = "none" /\ req'[s] = req[s]
  /\ OneRun(s, k, IF pc[s][k] = "saveDone" THEN "delivered" ELSE "invoke")
  /\ called' = IF pc[s][k] = "saveCall" THEN called + 1 ELSE called
GivenUp(s, k) ==
  /\ phase[s] = "open" /\ pc[s][k] \in Saving
  /\ SameCentral /\ phase'[s] = "open" /\ state'[s] = state[s] /\ called' = called
  /\ failed'[s] /\ lock'[s] = None /\ SameCalls(s)
  /\ OneRun(s, k, IF pc[s][k] = "saveCall" THEN "invoke" ELSE "raised")

OpenEffect(s) ==
  SaveStored(s) \/ SaveRefused(s) \/ Closes(s) \/ Resumes(s) \/ Creates(s) \/ Created(s)
RunEffect(s, k) ==
  \/ \E st \in State, w \in Saving : Begins(s, k, st, w)
  \/ \E v \in {"delivered", "raised"} : Ends(s, k, v)
  \/ Acked(s, k) \/ GivenUp(s, k)

\* Every step of run() is one of these.
LEMMA RunEffects ==
  ASSUME RecoveryTypeOK, NEW s \in Session, NEW k \in Key, Run(s, k)
  PROVE  RunEffect(s, k)
  <1> USE DEF SameCentral, SameRuns, SameCalls, central
  <1>1. CASE RunStarts(s, k) \/ Reserve(s, k) \/ RunReturns(s, k)
    <2>1. PICK st \in State, w \in Saving : SaveOf(s, k, st, w)
      BY <1>1, SendStep
    <2>2. [rev |-> rev[s], state |-> st] # NoReq
      BY NoStateAssumption DEF NoReq
    <2>3. OneRun(s, k, w)
      BY <2>1 DEF SaveOf, OneRun, RecoveryTypeOK, Saving
    <2>4. state'[s] = st /\ lock'[s] = k /\ req'[s] = [rev |-> rev[s], state |-> st]
      BY <2>1 DEF SaveOf, Send, RecoveryTypeOK
    <2>5. Begins(s, k, st, w)
      BY <2>1, <2>2, <2>3, <2>4 DEF SaveOf, Begins
    <2> QED  BY <2>5 DEF RunEffect
  <1>2. CASE RunReuses(s, k)
    <2>1. Ends(s, k, "delivered")
      BY <1>2 DEF RunReuses, Enters, Ends, OneRun, RecoveryTypeOK
    <2> QED  BY <2>1 DEF RunEffect
  <1>3. CASE RunRefused(s, k) \/ RunRaises(s, k)
    <2>1. Ends(s, k, "raised")
      BY <1>3 DEF RunRefused, RunRaises, Enters, Ends, OneRun, RecoveryTypeOK
    <2> QED  BY <2>1 DEF RunEffect
  <1>4. CASE RunReturnsInactive(s, k)
    <2>1. PICK yes \in MaybeReusable(s, k) : state' = [state EXCEPT ![s] = Done(s, k, yes)]
      BY <1>4 DEF RunReturnsInactive
    <2>2. state[s] \in State
      BY <1>4 DEF RecoveryTypeOK, RunReturnsInactive
    <2>3. state'[s] = Done(s, k, yes)
      BY <2>1 DEF RecoveryTypeOK
    <2>4. /\ phase[s] = "open" /\ lock[s] = None /\ pc[s][k] = "invoke"
          /\ OneRun(s, k, "raised")
          /\ UNCHANGED <<central, phase, rev, failed, lock, req, ack, called>>
      BY <1>4 DEF RecoveryTypeOK, RunReturnsInactive, OneRun
    <2>5. yes \in BOOLEAN /\ (k \in Synthesis => yes)
      BY MaybeReusableType
    <2>6. Ends(s, k, "raised")
      BY <2>2, <2>3, <2>4, <2>5, EntryDone DEF Ends
    <2> QED  BY <2>6 DEF RunEffect
  <1>5. CASE Saved(s, k)
    <2>1. pc[s][k] \in Saving
      BY <1>5 DEF Saved
    <2>2. AfterSave(pc[s][k]) = IF pc[s][k] = "saveDone" THEN "delivered" ELSE "invoke"
      BY <2>1 DEF AfterSave, Saving
    <2>3. Acked(s, k)
      BY <1>5, <2>1, <2>2 DEF RecoveryTypeOK, Saved, Acknowledged, Acked, OneRun
    <2> QED  BY <2>3 DEF RunEffect
  <1>6. CASE SaveFails(s, k)
    <2>1. GivenUp(s, k)
      BY <1>6 DEF RecoveryTypeOK, SaveFails, FailedAfter, GivenUp, OneRun
    <2> QED  BY <2>1 DEF RunEffect
  <1> QED  BY <1>1, <1>2, <1>3, <1>4, <1>5, <1>6 DEF Run

\* So is every arrival of a save, and every step of open().
LEMMA OpenEffects ==
  ASSUME RecoveryTypeOK, NEW s \in Session, Arrive(s) \/ Open(s)
  PROVE  OpenEffect(s)
  <1> USE DEF SameCentral, SameRuns, SameCalls, central
  <1>1. CASE Arrive(s)
    <2>1. CASE Accepts(s)
      BY <1>1, <2>1 DEF Arrive, Accepts, SaveStored, OpenEffect, RecoveryTypeOK
    <2>2. CASE ~Accepts(s)
      BY <1>1, <2>2 DEF Arrive, SaveRefused, OpenEffect, RecoveryTypeOK
    <2> QED  BY <2>1, <2>2
  <1>2. CASE Open(s)
    <2>1. OpenRefused(s) \/ Close(s) => Closes(s)
      BY DEF OpenRefused, Close, Closes, RecoveryTypeOK
    <2>2. OpenResumes(s) => Resumes(s)
      BY DEF OpenResumes, Resumed, Resumes, RecoveryTypeOK
    <2>3. OpenCreates(s) => Creates(s)
      BY DEF OpenCreates, Creates, RecoveryTypeOK
    <2>4. OpenCreated(s) => Created(s)
      BY DEF OpenCreated, Created, RecoveryTypeOK
    <2> QED  BY <1>2, <2>1, <2>2, <2>3, <2>4 DEF Open, OpenEffect
  <1> QED  BY <1>1, <1>2

\* Every step of a session is one of these.
LEMMA Effects ==
  ASSUME RecoveryTypeOK, NEW s \in Session, StepOf(s)
  PROVE  OpenEffect(s) \/ \E k \in Key : RunEffect(s, k)
  BY OpenEffects, RunEffects DEF StepOf

-----------------------------------------------------------------------------
(* The parts of the invariant *)

\* A session that others leave alone keeps its lock and its save.
LEMMA SerialElsewhere ==
  ASSUME NEW t \in Session, Serial(t), Untouched(t)
  PROVE  Serial(t)'
  BY DEF Serial, Untouched

\* A session keeps one save at a time: by its own steps ...
LEMMA SerialOwn ==
  ASSUME NEW s \in Session, RecoveryTypeOK, Serial(s),
         OpenEffect(s) \/ \E k \in Key : RunEffect(s, k)
  PROVE  Serial(s)'
  <1> USE DEF Serial, Saving
  <1>0. s \in Nat /\ lease \in Nat
    BY RecoveryAssumption DEF RecoveryTypeOK, Session
  <1>1. CASE SaveStored(s)
    BY <1>1, <1>0, RecoveryAssumption, NoStateAssumption
    DEF SaveStored, SameCentral, SameRuns, SameCalls
  <1>2. CASE SaveRefused(s)
    BY <1>2, <1>0, RecoveryAssumption, NoStateAssumption
    DEF SaveRefused, SameCentral, SameRuns, SameCalls
  <1>3. CASE Closes(s)
    BY <1>3, <1>0, RecoveryAssumption, NoStateAssumption
    DEF Closes, SameCentral, SameRuns, SameCalls
  <1>4. CASE Resumes(s)
    BY <1>4, <1>0, RecoveryAssumption DEF Resumes, SameCentral, SameRuns, SameCalls
  <1>5. CASE Creates(s)
    <2>1. [rev |-> 0, state |-> NewState(s)] # NoReq /\ NewState(s) # NoState
      BY NewStateType, NoStateAssumption DEF NoReq
    <2> QED  BY <1>5, <2>1, <1>0 DEF Creates, SameCentral, SameRuns
  <1>6. CASE Created(s)
    BY <1>6, <1>0, RecoveryAssumption, NoStateAssumption
    DEF Created, SameCentral, SameRuns, SameCalls
  <1>7. ASSUME NEW k \in Key, NEW st \in State, NEW w \in Saving, Begins(s, k, st, w)
        PROVE  Serial(s)'
    BY <1>7, <1>0, RecoveryAssumption, NoStateAssumption
    DEF Begins, OneRun, SameCentral, SameRuns, SameCalls
  <1>8. ASSUME NEW k \in Key, NEW v \in {"delivered", "raised"}, Ends(s, k, v)
        PROVE  Serial(s)'
    BY <1>8, <1>0, RecoveryAssumption, NoStateAssumption
    DEF Ends, OneRun, SameCentral, SameRuns, SameCalls
  <1>9. ASSUME NEW k \in Key, Acked(s, k)  PROVE Serial(s)'
    BY <1>9, <1>0, RecoveryAssumption, NoStateAssumption
    DEF Acked, OneRun, SameCentral, SameRuns, SameCalls
  <1>10. ASSUME NEW k \in Key, GivenUp(s, k)  PROVE Serial(s)'
    BY <1>10, <1>0, RecoveryAssumption, NoStateAssumption
    DEF GivenUp, OneRun, SameCentral, SameRuns, SameCalls
  <1> QED  BY <1>1, <1>2, <1>3, <1>4, <1>5, <1>6, <1>7, <1>8, <1>9, <1>10
           DEF OpenEffect, RunEffect

\* ... and by every step.
LEMMA SerialStep ==
  ASSUME RecoveryTypeOK, SavesAreSerial, [Next]_vars
  PROVE  SavesAreSerial'
  <1>1. CASE Takeover
    BY <1>1 DEF Takeover, SavesAreSerial, Serial, RecoveryTypeOK, Session
  <1>2. CASE UNCHANGED vars
    BY <1>2 DEF vars, central, SavesAreSerial, Serial
  <1>3. ASSUME NEW s \in Session, StepOf(s)  PROVE SavesAreSerial'
    <2>1. Serial(s)
      BY DEF SavesAreSerial
    <2>2. \A t \in Session \ {s} : Serial(t)'
      BY <1>3, <2>1, LocalStep, SerialElsewhere DEF SavesAreSerial
    <2>3. Serial(s)'
      BY <1>3, <2>1, Effects, SerialOwn
    <2> QED  BY <2>2, <2>3 DEF SavesAreSerial
  <1> QED  BY <1>1, <1>2, <1>3 DEF Next, StepOf

\* The checkpoint changes only by the save of the session that has the lease.
Stored(s) ==
  \/ checkpoint' = checkpoint
  \/ lease = s /\ req[s] # NoReq /\ checkpoint' = req[s].state

\* Every step of a session obeys that.
LEMMA CheckpointWritten ==
  ASSUME NEW s \in Session, OpenEffect(s) \/ \E k \in Key : RunEffect(s, k)
  PROVE  Stored(s)
  <1>1. SaveStored(s) => Stored(s)
    BY DEF SaveStored, Stored
  <1>2. SameCentral => Stored(s)
    BY DEF SameCentral, Stored
  <1>3. SaveRefused(s) \/ Closes(s) \/ Resumes(s) \/ Creates(s) \/ Created(s) => SameCentral
    BY DEF SaveRefused, Closes, Resumes, Creates, Created
  <1>4. ASSUME NEW k \in Key, RunEffect(s, k)  PROVE SameCentral
    <2>1. \A st, w : Begins(s, k, st, w) => SameCentral
      BY DEF Begins
    <2>2. \A v : Ends(s, k, v) => SameCentral
      BY DEF Ends
    <2>3. Acked(s, k) \/ GivenUp(s, k) => SameCentral
      BY DEF Acked, GivenUp
    <2> QED  BY <1>4, <2>1, <2>2, <2>3 DEF RunEffect
  <1> QED  BY <1>1, <1>2, <1>3, <1>4 DEF OpenEffect

\* A session without a step stays in step.
LEMMA CurrentElsewhere ==
  ASSUME NEW s \in Session, NEW t \in Session \ {s}, Serial(s), Current(t),
         Untouched(t), Stored(s)
  PROVE  Current(t)'
  <1>1. CASE checkpoint' = checkpoint
    BY <1>1 DEF Current, Untouched
  <1>2. CASE lease = s /\ checkpoint' # NoState
    BY <1>2 DEF Current, Untouched
  <1> QED  BY <1>1, <1>2 DEF Stored, Serial

\* A session stays in step with the checkpoint: by its own steps ...
LEMMA CurrentOwn ==
  ASSUME NEW s \in Session, RecoveryTypeOK, Serial(s), Current(s),
         OpenEffect(s) \/ \E k \in Key : RunEffect(s, k)
  PROVE  Current(s)'
  <1> USE DEF Serial, Current, Saving
  <1>1. CASE SaveStored(s)
    BY <1>1, RecoveryAssumption, NoStateAssumption DEF SaveStored, SameCentral, SameRuns, SameCalls
  <1>2. CASE SaveRefused(s)
    BY <1>2, RecoveryAssumption, NoStateAssumption DEF SaveRefused, SameCentral, SameRuns, SameCalls
  <1>3. CASE Closes(s)
    BY <1>3, RecoveryAssumption, NoStateAssumption DEF Closes, SameCentral, SameRuns, SameCalls
  <1>4. CASE Resumes(s)
    BY <1>4, RecoveryAssumption, NoStateAssumption DEF Resumes, SameCentral, SameRuns, SameCalls
  <1>5. CASE Creates(s)
    BY <1>5, RecoveryAssumption, NoStateAssumption DEF Creates, SameCentral, SameRuns, SameCalls
  <1>6. CASE Created(s)
    BY <1>6, RecoveryAssumption, NoStateAssumption DEF Created, SameCentral, SameRuns, SameCalls
  <1>7. ASSUME NEW k \in Key, NEW st \in State, NEW w \in Saving, Begins(s, k, st, w)
        PROVE  Current(s)'
    BY <1>7, RecoveryAssumption, NoStateAssumption
    DEF Begins, OneRun, SameCentral, SameRuns, SameCalls
  <1>8. ASSUME NEW k \in Key, NEW v \in {"delivered", "raised"}, Ends(s, k, v)
        PROVE  Current(s)'
    BY <1>8, RecoveryAssumption, NoStateAssumption
    DEF Ends, OneRun, SameCentral, SameRuns, SameCalls
  <1>9. ASSUME NEW k \in Key, Acked(s, k)  PROVE Current(s)'
    BY <1>9, RecoveryAssumption, NoStateAssumption
    DEF Acked, OneRun, SameCentral, SameRuns, SameCalls
  <1>10. ASSUME NEW k \in Key, GivenUp(s, k)  PROVE Current(s)'
    BY <1>10, RecoveryAssumption, NoStateAssumption
    DEF GivenUp, OneRun, SameCentral, SameRuns, SameCalls
  <1> QED  BY <1>1, <1>2, <1>3, <1>4, <1>5, <1>6, <1>7, <1>8, <1>9, <1>10
           DEF OpenEffect, RunEffect

\* ... and by every step; after a takeover the new session is not open yet.
LEMMA CurrentStep ==
  ASSUME RecoveryTypeOK, SavesAreSerial, InStep, [Next]_vars
  PROVE  InStep'
  <1>1. CASE Takeover
    BY <1>1 DEF Takeover, SavesAreSerial, Serial, InStep, Current, RecoveryTypeOK, Session
  <1>2. CASE UNCHANGED vars
    BY <1>2 DEF vars, central, InStep, Current
  <1>3. ASSUME NEW s \in Session, StepOf(s)  PROVE InStep'
    <2>1. Serial(s) /\ Current(s)
      BY DEF InStep, SavesAreSerial
    <2>2. \A t \in Session \ {s} : Current(t)'
      BY <1>3, <2>1, LocalStep, Effects, CheckpointWritten, CurrentElsewhere DEF InStep
    <2>3. Current(s)'
      BY <1>3, <2>1, Effects, CurrentOwn
    <2> QED  BY <2>2, <2>3 DEF InStep
  <1> QED  BY <1>1, <1>2, <1>3 DEF Next, StepOf

\* A session without a step gets no later entries.
LEMMA OldElsewhere ==
  ASSUME NEW s \in Session, NEW t \in Session \ {s}, Old(t), Untouched(t), Stored(s)
  PROVE  Old(t)'
  BY DEF Old, Untouched, Stored

\* Entries are as old as their session: by its own steps ...
LEMMA OldOwn ==
  ASSUME NEW s \in Session, RecoveryTypeOK, Old(s),
         OpenEffect(s) \/ \E k \in Key : RunEffect(s, k)
  PROVE  Old(s)'
  <1> USE DEF Old
  <1>0. s \in Nat
    BY RecoveryAssumption DEF Session
  <1>1. CASE SaveStored(s)
    BY <1>1, <1>0 DEF SaveStored, SameCentral, SameRuns, SameCalls
  <1>2. CASE SaveRefused(s)
    BY <1>2, <1>0 DEF SaveRefused, SameCentral, SameRuns, SameCalls
  <1>3. CASE Closes(s)
    BY <1>3, <1>0 DEF Closes, SameCentral, SameRuns, SameCalls
  <1>4. CASE Resumes(s)
    BY <1>4, <1>0 DEF Resumes, SameCentral, SameRuns, SameCalls
  <1>5. CASE Creates(s)
    <2>1. \A k \in Key : NewState(s).operations[k].version <= s
      BY <1>0 DEF NewState, NoEntry
    <2> QED  BY <1>5, <2>1 DEF Creates, SameCentral, SameRuns
  <1>6. CASE Created(s)
    <2>1. \A k \in Key : NewState(s).operations[k].version <= s
      BY <1>0 DEF NewState, NoEntry
    <2> QED  BY <1>6, <2>1 DEF Created, SameCentral, SameRuns
  <1>7. ASSUME NEW k \in Key, NEW st \in State, NEW w \in Saving, Begins(s, k, st, w)
        PROVE  Old(s)'
    <2>1. state[s] # NoState
      BY <1>7 DEF Begins, RecoveryTypeOK
    <2>2. \A d \in Key : st.operations[d].version <= s
      BY <1>7, <1>0, <2>1 DEF Begins
    <2> QED  BY <1>7, <2>2 DEF Begins, SameCentral
  <1>8. ASSUME NEW k \in Key, NEW v \in {"delivered", "raised"}, Ends(s, k, v)
        PROVE  Old(s)'
    <2>1. state[s] # NoState
      BY <1>8 DEF Ends, RecoveryTypeOK
    <2>2. \A d \in Key : state'[s].operations[d].version <= s
      BY <1>8, <1>0, <2>1 DEF Ends
    <2> QED  BY <1>8, <2>2 DEF Ends, SameCentral, SameCalls
  <1>9. ASSUME NEW k \in Key, Acked(s, k)  PROVE Old(s)'
    BY <1>9, <1>0 DEF Acked, OneRun, SameCentral, SameRuns, SameCalls
  <1>10. ASSUME NEW k \in Key, GivenUp(s, k)  PROVE Old(s)'
    BY <1>10, <1>0 DEF GivenUp, OneRun, SameCentral, SameRuns, SameCalls
  <1> QED  BY <1>1, <1>2, <1>3, <1>4, <1>5, <1>6, <1>7, <1>8, <1>9, <1>10
           DEF OpenEffect, RunEffect

\* ... and by every step; a takeover makes them older.
LEMMA OldStep ==
  ASSUME RecoveryTypeOK, VersionsAreOld, [Next]_vars
  PROVE  VersionsAreOld'
  <1>1. CASE Takeover
    <2>1. lease' = lease + 1 /\ lease \in Session /\ UNCHANGED <<checkpoint, state, req>>
      BY <1>1 DEF Takeover, RecoveryTypeOK
    <2>2. checkpoint # NoState => \A k \in Key : checkpoint.operations[k].version <= lease + 1
      <3>1. checkpoint # NoState => \A k \in Key : checkpoint.operations[k].version \in Nat
        BY RecoveryAssumption DEF RecoveryTypeOK, State, Entry, Version
      <3> QED  BY <2>1, <3>1 DEF VersionsAreOld, Old, Session
    <2> QED  BY <2>1, <2>2 DEF VersionsAreOld, Old
  <1>2. CASE UNCHANGED vars
    BY <1>2 DEF vars, central, VersionsAreOld, Old
  <1>3. ASSUME NEW s \in Session, StepOf(s)  PROVE VersionsAreOld'
    <2>1. Old(s)
      BY DEF VersionsAreOld
    <2>2. \A t \in Session \ {s} : Old(t)'
      BY <1>3, <2>1, LocalStep, Effects, CheckpointWritten, OldElsewhere DEF VersionsAreOld
    <2>3. Old(s)'
      BY <1>3, <2>1, Effects, OldOwn
    <2> QED  BY <2>2, <2>3 DEF VersionsAreOld
  <1> QED  BY <1>1, <1>2, <1>3 DEF Next, StepOf

\* A save stays an extension while another session makes a step.
LEMMA ExtendingElsewhere ==
  ASSUME NEW s \in Session, NEW t \in Session \ {s}, Extending(t), Untouched(t), Stored(s)
  PROVE  Extending(t)'
  BY DEF Extending, Untouched, Stored

\* A save extends the checkpoint: by the steps of its session ...
LEMMA ExtendingOwn ==
  ASSUME NEW s \in Session, RecoveryTypeOK, Serial(s), Current(s), Old(s), Extending(s),
         OpenEffect(s) \/ \E k \in Key : RunEffect(s, k)
  PROVE  Extending(s)'
  <1> USE DEF Extending
  <1>0. s \in Nat
    BY RecoveryAssumption DEF Session
  <1>1. CASE SaveStored(s)
    BY <1>1 DEF SaveStored, SameCentral, SameRuns, SameCalls
  <1>2. CASE SaveRefused(s)
    BY <1>2 DEF SaveRefused, SameCentral, SameRuns, SameCalls
  <1>3. CASE Closes(s)
    BY <1>3 DEF Closes, SameCentral, SameRuns, SameCalls
  <1>4. CASE Resumes(s)
    BY <1>4 DEF Resumes, SameCentral, SameRuns, SameCalls
  <1>5. CASE Creates(s)
    BY <1>5 DEF Creates, SameCentral, SameRuns, SameCalls
  <1>6. CASE Created(s)
    BY <1>6 DEF Created, SameCentral, SameRuns, SameCalls
  <1>7. ASSUME NEW k \in Key, NEW st \in State, NEW w \in Saving, Begins(s, k, st, w)
        PROVE  Extending(s)'
    <2> SUFFICES ASSUME lease = s, checkpoint # NoState
                 PROVE  /\ Continues(st, checkpoint)
                        /\ \A d \in Key : pc'[s][d] = "saveCall" =>
                             st.model_calls > checkpoint.model_calls
      BY <1>7 DEF Begins, SameCentral
    <2>1. /\ checkpoint.deadline = state[s].deadline
          /\ checkpoint.model_calls = state[s].model_calls
          /\ \A d \in Key : checkpoint.operations[d].version = state[s].operations[d].version
      BY <1>7 DEF Begins, Current
    <2>2. \A d \in Key : checkpoint.operations[d].version <= s
      BY DEF Old
    <2>3. \A d \in Key : checkpoint.operations[d].version \in Nat
      BY RecoveryAssumption DEF RecoveryTypeOK, State, Entry, Version
    <2>4. \A d \in Key : st.operations[d].version >= checkpoint.operations[d].version
      BY <1>7, <2>1, <2>2, <2>3, <1>0 DEF Begins
    <2>5. Continues(st, checkpoint)
      BY <1>7, <2>1, <2>4 DEF Begins, Continues
    <2>6. ASSUME NEW d \in Key, pc'[s][d] = "saveCall"  PROVE d = k /\ w = "saveCall"
      BY <1>7, <2>6, RecoveryAssumption DEF Begins, OneRun, Serial, Saving
    <2> QED  BY <1>7, <2>1, <2>5, <2>6 DEF Begins
  <1>8. ASSUME NEW k \in Key, NEW v \in {"delivered", "raised"}, Ends(s, k, v)
        PROVE  Extending(s)'
    BY <1>8 DEF Ends, OneRun, SameCentral, SameRuns, SameCalls
  <1>9. ASSUME NEW k \in Key, Acked(s, k)  PROVE Extending(s)'
    BY <1>9 DEF Acked, OneRun, SameCentral, SameRuns, SameCalls
  <1>10. ASSUME NEW k \in Key, GivenUp(s, k)  PROVE Extending(s)'
    BY <1>10 DEF GivenUp, OneRun, SameCentral, SameRuns, SameCalls
  <1> QED  BY <1>1, <1>2, <1>3, <1>4, <1>5, <1>6, <1>7, <1>8, <1>9, <1>10
           DEF OpenEffect, RunEffect

\* ... and by every step; after a takeover the new session has none out.
LEMMA ExtendingStep ==
  ASSUME RecoveryTypeOK, SavesAreSerial, InStep, VersionsAreOld, SavesExtend, [Next]_vars
  PROVE  SavesExtend'
  <1>1. CASE Takeover
    BY <1>1 DEF Takeover, SavesAreSerial, Serial, SavesExtend, Extending, RecoveryTypeOK, Session
  <1>2. CASE UNCHANGED vars
    BY <1>2 DEF vars, central, SavesExtend, Extending
  <1>3. ASSUME NEW s \in Session, StepOf(s)  PROVE SavesExtend'
    <2>1. Serial(s) /\ Current(s) /\ Old(s) /\ Extending(s)
      BY DEF InStep, SavesAreSerial, SavesExtend, VersionsAreOld
    <2>2. \A t \in Session \ {s} : Extending(t)'
      BY <1>3, <2>1, LocalStep, Effects, CheckpointWritten, ExtendingElsewhere DEF SavesExtend
    <2>3. Extending(s)'
      BY <1>3, <2>1, Effects, ExtendingOwn
    <2> QED  BY <2>2, <2>3 DEF SavesExtend
  <1> QED  BY <1>1, <1>2, <1>3 DEF Next, StepOf

\* What a session returned stays committed while another makes a step.
LEMMA CommittedElsewhere ==
  ASSUME NEW s \in Session, NEW t \in Session \ {s}, Committed(t), Untouched(t), Stored(s)
  PROVE  Committed(t)'
  BY DEF Committed, Untouched, Stored

\* What a session returns is committed: by its own steps ...
LEMMA CommittedOwn ==
  ASSUME NEW s \in Session, RecoveryTypeOK, Serial(s), Current(s), Committed(s),
         OpenEffect(s) \/ \E k \in Key : RunEffect(s, k)
  PROVE  Committed(s)'
  <1> USE DEF Committed, Saving
  <1>1. CASE SaveStored(s)
    BY <1>1, RecoveryAssumption DEF SaveStored, SameCentral, SameRuns, SameCalls
  <1>2. CASE SaveRefused(s)
    BY <1>2, RecoveryAssumption DEF SaveRefused, SameCentral, SameRuns, SameCalls
  <1>3. CASE Closes(s)
    BY <1>3, RecoveryAssumption DEF Closes, SameCentral, SameRuns, SameCalls
  <1>4. CASE Resumes(s)
    BY <1>4 DEF Resumes, Serial, SameCentral, SameRuns
  <1>5. CASE Creates(s)
    BY <1>5, RecoveryAssumption DEF Creates, SameCentral, SameRuns, SameCalls
  <1>6. CASE Created(s)
    BY <1>6 DEF Created, Serial, SameCentral, SameRuns
  <1>7. ASSUME NEW k \in Key, NEW st \in State, NEW w \in Saving, Begins(s, k, st, w)
        PROVE  Committed(s)'
    <2>1. /\ phase[s] = "open" /\ lock[s] = None /\ ~failed[s] /\ SameCentral /\ phase'[s] = "open"
          /\ state'[s] = st /\ req'[s].state = st /\ pc[s][k] \in {"todo", "invoke"}
          /\ w = "saveDone" => st.operations[k].status = "DONE"
          /\ \A d \in Key \ {k} : st.operations[d] = state[s].operations[d]
          /\ OneRun(s, k, w) /\ w # "delivered"
      BY <1>7 DEF Begins
    <2>2. \A d \in Key : pc'[s][d] \in {"saveDone", "delivered"} => st.operations[d].status = "DONE"
      BY <2>1 DEF OneRun
    <2>3. ASSUME NEW d \in Key, lease = s, pc'[s][d] = "delivered"
          PROVE  d # k /\ checkpoint.operations[d] = st.operations[d]
      BY <2>1, <2>3 DEF OneRun
    <2> QED  BY <2>1, <2>2, <2>3 DEF SameCentral
  <1>8. ASSUME NEW k \in Key, NEW v \in {"delivered", "raised"}, Ends(s, k, v)
        PROVE  Committed(s)'
    <2>1. /\ phase[s] = "open" /\ SameCentral /\ SameCalls(s) /\ OneRun(s, k, v)
          /\ pc[s][k] \in {"todo", "invoke"}
          /\ \A d \in Key \ {k} : state'[s].operations[d] = state[s].operations[d]
      BY <1>8 DEF Ends
    <2>2. CASE v = "raised"
      BY <2>1, <2>2 DEF OneRun, SameCentral, SameCalls
    <2>3. CASE v = "delivered"
      <3>1. /\ state'[s] = state[s] /\ lock[s] = None /\ ~failed[s]
            /\ pc[s][k] = "todo" /\ state[s].operations[k].status = "DONE"
        BY <1>8, <2>3 DEF Ends, Reusable
      <3>2. req[s] = NoReq
        BY <2>1, <3>1 DEF Serial
      <3>3. lease = s => checkpoint.operations[k] = state[s].operations[k]
        BY <2>1, <3>1 DEF Current
      <3> QED  BY <2>1, <3>1, <3>2, <3>3 DEF OneRun, SameCentral, SameCalls
    <2> QED  BY <2>2, <2>3
  <1>9. ASSUME NEW k \in Key, Acked(s, k)  PROVE Committed(s)'
    <2>1. lock[s] = k /\ req[s] = NoReq
      BY <1>9, RecoveryAssumption DEF Acked, Serial
    <2>2. lease = s => checkpoint = state[s]
      BY <1>9, <2>1, RecoveryAssumption DEF Acked, Current
    <2>3. /\ SameCentral /\ phase'[s] = "open" /\ state'[s] = state[s] /\ req'[s] = req[s]
          /\ OneRun(s, k, IF pc[s][k] = "saveDone" THEN "delivered" ELSE "invoke")
      BY <1>9 DEF Acked
    <2>4. \A d \in Key : pc'[s][d] \in {"saveDone", "delivered"} =>
                          state[s].operations[d].status = "DONE"
      BY <2>3 DEF OneRun
    <2> QED  BY <2>1, <2>2, <2>3, <2>4 DEF SameCentral
  <1>10. ASSUME NEW k \in Key, GivenUp(s, k)  PROVE Committed(s)'
    BY <1>10, RecoveryAssumption DEF GivenUp, OneRun, SameCentral, SameRuns, SameCalls
  <1> QED  BY <1>1, <1>2, <1>3, <1>4, <1>5, <1>6, <1>7, <1>8, <1>9, <1>10
           DEF OpenEffect, RunEffect

\* ... and by every step; after a takeover nothing was returned yet.
LEMMA CommittedStep ==
  ASSUME RecoveryTypeOK, SavesAreSerial, InStep, ReturnsAreCommitted, [Next]_vars
  PROVE  ReturnsAreCommitted'
  <1>1. CASE Takeover
    BY <1>1 DEF Takeover, SavesAreSerial, Serial, ReturnsAreCommitted, Committed, RecoveryTypeOK,
       Session
  <1>2. CASE UNCHANGED vars
    BY <1>2 DEF vars, central, ReturnsAreCommitted, Committed
  <1>3. ASSUME NEW s \in Session, StepOf(s)  PROVE ReturnsAreCommitted'
    <2>1. Serial(s) /\ Current(s) /\ Committed(s)
      BY DEF InStep, ReturnsAreCommitted, SavesAreSerial
    <2>2. \A t \in Session \ {s} : Committed(t)'
      BY <1>3, <2>1, LocalStep, Effects, CheckpointWritten, CommittedElsewhere
      DEF ReturnsAreCommitted
    <2>3. Committed(s)'
      BY <1>3, <2>1, Effects, CommittedOwn
    <2> QED  BY <2>2, <2>3 DEF ReturnsAreCommitted
  <1> QED  BY <1>1, <1>2, <1>3 DEF Next, StepOf

\* Nor are the inputs of a run changed by another session.
LEMMA KeptElsewhere ==
  ASSUME NEW t \in Session, Kept(t), Untouched(t)
  PROVE  Kept(t)'
  BY DEF Kept, Untouched

\* A run keeps the inputs it was started with: by the steps of its session ...
LEMMA KeptOwn ==
  ASSUME NEW s \in Session, RecoveryTypeOK, Serial(s), Kept(s),
         OpenEffect(s) \/ \E k \in Key : RunEffect(s, k)
  PROVE  Kept(s)'
  <1> USE DEF Kept, Saving
  <1>1. CASE SaveStored(s)
    BY <1>1, RecoveryAssumption DEF SaveStored, SameCentral, SameRuns, SameCalls
  <1>2. CASE SaveRefused(s)
    BY <1>2, RecoveryAssumption DEF SaveRefused, SameCentral, SameRuns, SameCalls
  <1>3. CASE Closes(s)
    BY <1>3, RecoveryAssumption DEF Closes, SameCentral, SameRuns, SameCalls
  <1>4. CASE Resumes(s)
    BY <1>4 DEF Resumes, Serial, SameCentral, SameRuns
  <1>5. CASE Creates(s)
    BY <1>5, RecoveryAssumption DEF Creates, SameCentral, SameRuns, SameCalls
  <1>6. CASE Created(s)
    BY <1>6 DEF Created, Serial, SameCentral, SameRuns
  <1>7. ASSUME NEW k \in Key, NEW st \in State, NEW w \in Saving, Begins(s, k, st, w)
        PROVE  Kept(s)'
    <2>1. /\ state'[s] = st /\ pc[s][k] \in {"todo", "invoke"} /\ OneRun(s, k, w)
          /\ \A d \in Key \ {k} : st.operations[d] = state[s].operations[d]
      BY <1>7 DEF Begins
    <2>2. \A d \in Key : DependsOn[d] \subseteq Key
      BY RecoveryAssumption
    <2>3. ASSUME NEW d \in Key \ {k}, NEW e \in DependsOn[d],
                 pc'[s][d] \in {"saveRunning", "invoke", "saveCall", "saveDone", "delivered"}
          PROVE  pc'[s][e] = "delivered" /\ st.operations[d].inputs[e] = st.operations[e].version
      BY <2>1, <2>2, <2>3 DEF OneRun
    <2>4. ASSUME NEW e \in DependsOn[k]
          PROVE  pc'[s][e] = "delivered" /\ st.operations[k].inputs[e] = st.operations[e].version
      <3>1. CASE pc[s][k] = "todo"
        <4>1. /\ InputsReady(s, k) /\ k \notin DependsOn[k]
              /\ st.operations[k].inputs = fingerprint(s, k)
          BY <1>7, <3>1 DEF Begins
        <4> QED  BY <2>1, <2>2, <4>1 DEF OneRun, InputsReady, fingerprint
      <3>2. CASE pc[s][k] = "invoke"
        <4>1. /\ st.operations[k].version = state[s].operations[k].version
              /\ st.operations[k].inputs = state[s].operations[k].inputs
          BY <1>7, <3>2 DEF Begins
        <4> QED  BY <2>1, <2>2, <3>2, <4>1 DEF OneRun
      <3> QED  BY <2>1, <3>1, <3>2
    <2> QED  BY <2>1, <2>3, <2>4
  <1>8. ASSUME NEW k \in Key, NEW v \in {"delivered", "raised"}, Ends(s, k, v)
        PROVE  Kept(s)'
    <2>1. /\ pc[s][k] \in {"todo", "invoke"} /\ OneRun(s, k, v)
          /\ \A d \in Key \ {k} : state'[s].operations[d] = state[s].operations[d]
      BY <1>8 DEF Ends
    <2>2. \A d \in Key : DependsOn[d] \subseteq Key
      BY RecoveryAssumption
    <2>3. ASSUME NEW d \in Key \ {k}, NEW e \in DependsOn[d],
                 pc'[s][d] \in {"saveRunning", "invoke", "saveCall", "saveDone", "delivered"}
          PROVE  /\ pc'[s][e] = "delivered"
                 /\ state'[s].operations[d].inputs[e] = state'[s].operations[e].version
      BY <2>1, <2>2, <2>3 DEF OneRun
    <2>4. ASSUME NEW e \in DependsOn[k], v = "delivered"
          PROVE  /\ pc'[s][e] = "delivered"
                 /\ state'[s].operations[k].inputs[e] = state'[s].operations[e].version
      <3>1. /\ InputsReady(s, k) /\ state'[s] = state[s] /\ pc[s][k] = "todo"
            /\ state[s].operations[k].inputs = fingerprint(s, k)
        BY <1>8, <2>4 DEF Ends, Reusable
      <3> QED  BY <2>1, <2>2, <3>1 DEF OneRun, InputsReady, fingerprint
    <2> QED  BY <2>1, <2>3, <2>4 DEF OneRun
  <1>9. ASSUME NEW k \in Key, Acked(s, k)  PROVE Kept(s)'
    BY <1>9, RecoveryAssumption DEF Acked, OneRun, SameCentral, SameRuns, SameCalls
  <1>10. ASSUME NEW k \in Key, GivenUp(s, k)  PROVE Kept(s)'
    BY <1>10, RecoveryAssumption DEF GivenUp, OneRun, SameCentral, SameRuns, SameCalls
  <1> QED  BY <1>1, <1>2, <1>3, <1>4, <1>5, <1>6, <1>7, <1>8, <1>9, <1>10
           DEF OpenEffect, RunEffect

\* ... and by every step.
LEMMA KeptStep ==
  ASSUME RecoveryTypeOK, SavesAreSerial, InputsAreKept, [Next]_vars
  PROVE  InputsAreKept'
  <1>1. CASE Takeover
    BY <1>1 DEF Takeover, InputsAreKept, Kept
  <1>2. CASE UNCHANGED vars
    BY <1>2 DEF vars, central, InputsAreKept, Kept
  <1>3. ASSUME NEW s \in Session, StepOf(s)  PROVE InputsAreKept'
    <2>1. Serial(s) /\ Kept(s)
      BY DEF InputsAreKept, SavesAreSerial
    <2>2. \A t \in Session \ {s} : Kept(t)'
      BY <1>3, <2>1, LocalStep, KeptElsewhere DEF InputsAreKept
    <2>3. Kept(s)'
      BY <1>3, <2>1, Effects, KeptOwn
    <2> QED  BY <2>2, <2>3 DEF InputsAreKept
  <1> QED  BY <1>1, <1>2, <1>3 DEF Next, StepOf

-----------------------------------------------------------------------------
(* The budget *)

\* Session s has an answered reservation that it has not used.
Holds(s) == ack[s] = "ok" /\ \E k \in Key : pc[s][k] = "saveCall"

\* There are finitely many reservations.
LEMMA GrantedFinite == IsFiniteSet(Granted) /\ Cardinality(Granted) \in Nat
  <1>1. IsFiniteSet(Session)
    BY FS_Interval, RecoveryAssumption DEF Session
  <1>2. Granted \subseteq Session
    BY DEF Granted
  <1> QED  BY <1>1, <1>2, FS_Subset, FS_CardinalityType

\* How a step of one session changes their number.
LEMMA GrantedStep ==
  ASSUME RecoveryTypeOK, NEW s \in Session, StepOf(s)
  PROVE  /\ (Holds(s)' <=> Holds(s)) => Cardinality(Granted') = Cardinality(Granted)
         /\ Holds(s)' /\ ~Holds(s) => Cardinality(Granted') = Cardinality(Granted) + 1
         /\ Holds(s) /\ ~Holds(s)' => Cardinality(Granted') = Cardinality(Granted) - 1
  <1>1. \A t \in Session \ {s} : t \in Granted' <=> t \in Granted
    BY LocalStep DEF Granted, Untouched
  <1>2. (s \in Granted <=> Holds(s)) /\ (s \in Granted' <=> Holds(s)')
    BY DEF Granted, Holds
  <1>3. Granted \subseteq Session /\ Granted' \subseteq Session
    BY DEF Granted
  <1>4. CASE (Holds(s)' <=> Holds(s))
    <2>1. Granted' = Granted
      BY <1>1, <1>2, <1>3, <1>4
    <2> QED  BY <1>4, <2>1
  <1>5. CASE Holds(s)' /\ ~Holds(s)
    <2>1. Granted' = Granted \cup {s} /\ s \notin Granted
      BY <1>1, <1>2, <1>3, <1>5
    <2> QED  BY <1>5, <2>1, GrantedFinite, FS_AddElement
  <1>6. CASE Holds(s) /\ ~Holds(s)'
    <2>1. Granted' = Granted \ {s} /\ s \in Granted
      BY <1>1, <1>2, <1>3, <1>6
    <2> QED  BY <1>6, <2>1, GrantedFinite, FS_RemoveElement
  <1> QED  BY <1>4, <1>5, <1>6

\* The calls that the checkpoint accounts for.
Reserved == IF checkpoint = NoState THEN 0 ELSE checkpoint.model_calls

\* Every call and every reservation stays covered by the checkpoint.
LEMMA CallsStep ==
  ASSUME RecoveryTypeOK, RecoveryTypeOK', SavesAreSerial, InStep, SavesExtend, CallsAreCovered,
         [Next]_vars
  PROVE  CallsAreCovered'
  <1> DEFINE n == Cardinality(Granted)
  <1>0. called \in Nat /\ n \in Nat /\ Reserved \in Nat /\ Reserved' \in Nat /\ n' \in Nat
    <2>1. called \in Nat /\ Reserved \in Nat /\ Reserved' \in Nat
      BY RecoveryAssumption DEF RecoveryTypeOK, State, Reserved
    <2>2. n \in Nat
      BY GrantedFinite
    <2>3. n' \in Nat
      <3>1. IsFiniteSet(Session) /\ Granted' \subseteq Session
        BY FS_Interval, RecoveryAssumption DEF Session, Granted
      <3> QED  BY <3>1, FS_Subset, FS_CardinalityType
    <2> QED  BY <2>1, <2>2, <2>3
  <1>1. called + n <= Reserved
    BY DEF CallsAreCovered, Reserved
  <1> SUFFICES called' + n' <= Reserved'
    BY DEF CallsAreCovered, Reserved
  <1>2. CASE Takeover
    <2>1. Granted' = Granted /\ Reserved' = Reserved /\ called' = called
      BY <1>2 DEF Takeover, Granted, Reserved
    <2> QED  BY <1>1, <2>1
  <1>3. CASE UNCHANGED vars
    <2>1. Granted' = Granted /\ Reserved' = Reserved /\ called' = called
      BY <1>3 DEF vars, central, Granted, Reserved
    <2> QED  BY <1>1, <2>1
  <1>4. ASSUME NEW s \in Session, StepOf(s)  PROVE called' + n' <= Reserved'
    <2>0. Serial(s) /\ Current(s) /\ Extending(s)
      BY DEF SavesAreSerial, InStep, SavesExtend
    <2>1. /\ (Holds(s)' <=> Holds(s)) => n' = n
          /\ Holds(s)' /\ ~Holds(s) => n' = n + 1
          /\ Holds(s) /\ ~Holds(s)' => n' = n - 1
      BY <1>4, GrantedStep
    <2> HIDE DEF n
    <2>2. ASSUME Reserved' = Reserved, called' = called, Holds(s)' => Holds(s)
          PROVE  called' + n' <= Reserved'
      <3>1. n' = n \/ n' = n - 1
        BY <2>1, <2>2
      <3>2. Reserved' = Reserved /\ called' = called
        BY <2>2
      <3>3. n' <= n
        BY <1>0, <3>1
      <3>4. ASSUME NEW a \in Nat, NEW b \in Nat, NEW c \in Nat, NEW r \in Nat, a + b <= r, c <= b
            PROVE  a + c <= r
        BY <3>4
      <3>5. called + n' <= Reserved
        BY <1>0, <1>1, <3>3, <3>4
      <3> QED  BY <3>2, <3>5
    <2>3. CASE SaveStored(s)
      <3>1. ~Holds(s) /\ called' = called /\ pc'[s] = pc[s] /\ ack'[s] = "ok"
        BY <2>0, <2>3 DEF SaveStored, SameRuns, Holds, Serial
      <3>2. checkpoint' = req[s].state /\ checkpoint' # NoState
        BY <2>0, <2>3 DEF SaveStored, Serial
      <3>3. CASE checkpoint = NoState
        <4>1. ~Holds(s)'
          BY <2>0, <3>1, <3>3, RecoveryAssumption DEF Holds, Serial, Current, Saving
        <4> QED  BY <1>0, <1>1, <2>1, <3>1, <3>3, <4>1 DEF Reserved
      <3>4. CASE checkpoint # NoState
        <4>1. checkpoint'.model_calls >= checkpoint.model_calls
          BY <2>0, <2>3, <3>2, <3>4 DEF SaveStored, Extending, Continues
        <4>2. Holds(s)' => checkpoint'.model_calls > checkpoint.model_calls
          BY <2>0, <2>3, <3>1, <3>2, <3>4 DEF SaveStored, Extending, Holds
        <4> QED  BY <1>0, <1>1, <2>1, <3>1, <3>2, <3>4, <4>1, <4>2 DEF Reserved
      <3> QED  BY <3>3, <3>4
    <2>4. ASSUME NEW k \in Key, Acked(s, k)  PROVE called' + n' <= Reserved'
      <3>1. Reserved' = Reserved /\ ~Holds(s)'
        BY <2>4 DEF Acked, SameCentral, Reserved, Holds
      <3>2. CASE pc[s][k] = "saveCall"
        <4>1. Holds(s) /\ called' = called + 1
          BY <2>4, <3>2 DEF Acked, Holds
        <4> QED  BY <1>0, <1>1, <2>1, <3>1, <4>1
      <3>3. CASE pc[s][k] # "saveCall"
        BY <2>4, <2>2, <3>1, <3>3 DEF Acked
      <3> QED  BY <3>2, <3>3
    <2>5. ASSUME NEW k \in Key, NEW st \in State, NEW w \in Saving, Begins(s, k, st, w)
          PROVE  called' + n' <= Reserved'
      <3>1. Reserved' = Reserved /\ called' = called
        BY <2>5 DEF Begins, SameCentral, Reserved
      <3>2. ~Holds(s) /\ ~Holds(s)'
        BY <2>0, <2>5 DEF Begins, Holds, Serial
      <3> QED  BY <1>0, <1>1, <2>1, <3>1, <3>2
    <2>6. CASE SaveRefused(s) \/ Closes(s) \/ Resumes(s) \/ Creates(s) \/ Created(s)
      BY <2>2, <2>6 DEF SaveRefused, Closes, Resumes, Creates, Created, SameCentral, SameRuns,
         SameCalls, Holds, Reserved
    <2>7. ASSUME NEW k \in Key, NEW v \in {"delivered", "raised"}, Ends(s, k, v)
          PROVE  called' + n' <= Reserved'
      BY <2>2, <2>7 DEF Ends, OneRun, SameCentral, SameCalls, Holds, Reserved
    <2>8. ASSUME NEW k \in Key, GivenUp(s, k)  PROVE called' + n' <= Reserved'
      BY <2>2, <2>8 DEF GivenUp, OneRun, SameCentral, SameCalls, Holds, Reserved
    <2> QED  BY <1>4, <2>3, <2>4, <2>5, <2>6, <2>7, <2>8, Effects DEF OpenEffect, RunEffect
  <1> QED  BY <1>2, <1>3, <1>4 DEF Next, StepOf

-----------------------------------------------------------------------------
(* Theorems about recovery *)

\* The invariant holds initially.
LEMMA RecoveryStart == Init => RecoveryInv
  <1> SUFFICES ASSUME Init  PROVE RecoveryInv
    OBVIOUS
  <1>1. RecoveryTypeOK
    BY RecoveryAssumption DEF Init, RecoveryTypeOK, NoReq, Session
  <1>2. SavesAreSerial
    BY RecoveryAssumption DEF Init, SavesAreSerial, Serial, Saving
  <1>3. InStep /\ SavesExtend /\ VersionsAreOld /\ ReturnsAreCommitted /\ InputsAreKept
    BY DEF Init, InStep, Current, SavesExtend, Extending, VersionsAreOld, Old,
           ReturnsAreCommitted, Committed, InputsAreKept, Kept
  <1>4. Granted = {}
    BY DEF Init, Granted
  <1>5. CallsAreCovered
    BY <1>4, FS_EmptySet DEF Init, CallsAreCovered
  <1> QED  BY <1>1, <1>2, <1>3, <1>5 DEF RecoveryInv

\* Every step keeps it.
LEMMA RecoveryStep == RecoveryInv /\ [Next]_vars => RecoveryInv'
  <1> SUFFICES ASSUME RecoveryInv, [Next]_vars  PROVE RecoveryInv'
    OBVIOUS
  <1> USE DEF RecoveryInv
  <1>1. RecoveryTypeOK'
    BY RecoveryTypeStep
  <1>2. SavesAreSerial' /\ InStep' /\ VersionsAreOld' /\ InputsAreKept'
    BY SerialStep, CurrentStep, OldStep, KeptStep
  <1>3. SavesExtend' /\ ReturnsAreCommitted'
    BY ExtendingStep, CommittedStep
  <1>4. CallsAreCovered'
    BY <1>1, CallsStep
  <1> QED  BY <1>1, <1>2, <1>3, <1>4

\* The inductive invariant of the recovery sessions: at every moment of every execution
\* a save on its way extends the checkpoint or will be refused (DagRecovery._save).
THEOREM RecoveryInvariant == Spec => []RecoveryInv
  <1>1. Init => RecoveryInv
    BY RecoveryStart
  <1>2. RecoveryInv /\ [Next]_vars => RecoveryInv'
    BY RecoveryStep
  <1> QED  BY <1>1, <1>2, PTL DEF Spec

\* Every variable keeps its type; in particular an open session has a state.
THEOREM RecoveryTypes == Spec => []RecoveryTypeOK
  <1>1. RecoveryInv => RecoveryTypeOK
    BY DEF RecoveryInv
  <1> QED  BY <1>1, RecoveryInvariant, PTL

\* For any number of takeovers, all sessions together make at most max_calls model calls,
\* each of which a reservation in the checkpoint accounts for (reserve() saves first).
THEOREM BudgetSurvivesTakeovers == Spec => []CallsAreReserved
  <1>1. RecoveryInv => CallsAreReserved
    <2> SUFFICES ASSUME RecoveryInv  PROVE CallsAreReserved
      OBVIOUS
    <2>1. called \in Nat /\ Cardinality(Granted) \in Nat /\ max_calls \in Nat
      BY GrantedFinite, RecoveryAssumption DEF RecoveryInv, RecoveryTypeOK
    <2>2. checkpoint # NoState => checkpoint.model_calls \in 0 .. max_calls
      BY DEF RecoveryInv, RecoveryTypeOK, State
    <2> QED  BY <2>1, <2>2 DEF RecoveryInv, CallsAreCovered, CallsAreReserved
  <1> QED  BY <1>1, RecoveryInvariant, PTL

\* What run() has handed to its caller a takeover finds in the checkpoint.
THEOREM ReturnsSurviveTakeovers == Spec => []DeliveredIsCommitted
  <1>1. RecoveryInv => DeliveredIsCommitted
    BY DEF RecoveryInv, ReturnsAreCommitted, Committed, DeliveredIsCommitted
  <1> QED  BY <1>1, RecoveryInvariant, PTL

\* No result, computed or reused, combines results of different attempts.
THEOREM NoStalePredecessor == Spec => []InputsAreCurrent
  <1>1. RecoveryInv => InputsAreCurrent
    BY DEF RecoveryInv, InputsAreKept, Kept, InputsAreCurrent
  <1> QED  BY <1>1, RecoveryInvariant, PTL

\* The checkpoint only grows, whatever late saves arrive.
THEOREM CheckpointGrows == Spec => CheckpointIsMonotone
  <1> DEFINE Grows ==
        checkpoint # NoState =>
          /\ checkpoint' # NoState
          /\ checkpoint'.deadline = checkpoint.deadline
          /\ checkpoint'.model_calls >= checkpoint.model_calls
          /\ \A k \in Key : checkpoint'.operations[k].version >= checkpoint.operations[k].version
  <1>1. RecoveryInv /\ [Next]_vars => Grows
    <2> SUFFICES ASSUME RecoveryInv, [Next]_vars, checkpoint # NoState  PROVE Grows
      OBVIOUS
    <2>1. CASE checkpoint' = checkpoint
      <3>1. checkpoint.model_calls \in Nat /\ \A k \in Key : checkpoint.operations[k].version \in Nat
        BY RecoveryAssumption DEF RecoveryInv, RecoveryTypeOK, State, Entry, Version
      <3> QED  BY <2>1, <3>1
    <2>2. ASSUME NEW s \in Session, StepOf(s), checkpoint' # checkpoint  PROVE Grows
      <3>1. lease = s /\ req[s] # NoReq /\ checkpoint' = req[s].state
        BY <2>2, Effects, CheckpointWritten DEF RecoveryInv, Stored
      <3> QED  BY <3>1 DEF RecoveryInv, SavesAreSerial, Serial, SavesExtend, Extending, Continues
    <2> QED  BY <2>1, <2>2 DEF Next, StepOf, Takeover, vars, central
  <1>2. Grows => [Grows]_vars
    OBVIOUS
  <1> QED  BY <1>1, RecoveryInvariant, PTL DEF Spec, CheckpointIsMonotone

-----------------------------------------------------------------------------
(***************************************************************************)
(* Planning.  A plan entry that is done is never replaced, neither in the  *)
(* checkpoint nor in the state of a session that still has it to read, so  *)
(* every execution that reaches the nodes reads the same one.              *)
(***************************************************************************)

\* Session v has resolved its plan for good; p stands for pc.
Final(v, p) == v \in Session /\ p[v][PlanKey] \in {"saveDone", "delivered", "raised"}

\* Of any state, central, local or on its way: a plan that is done can be reused and will
\* not change, and nodes have entries only next to such a plan, of which they are tasks.
Whole(st, p, q) ==
  /\ st.operations[PlanKey].inputs = [d \in Key |-> 0]
  /\ st.operations[PlanKey].status = "DONE" =>
       st.operations[PlanKey].reusable /\ Final(st.operations[PlanKey].version, p)
  /\ \A n \in Node : st.operations[n].status # "absent" =>
       /\ st.operations[PlanKey].status = "DONE"
       /\ n \in DOMAIN q[st.operations[PlanKey].version]

WholeAt(s) ==
  /\ state[s] # NoState => Whole(state[s], pc, plan)
  /\ req[s] # NoReq => Whole(req[s].state, pc, plan)

StatesAreWhole ==
  /\ checkpoint # NoState => Whole(checkpoint, pc, plan)
  /\ \A s \in Session : WholeAt(s)

PlanEntry(st) == st.operations[PlanKey]

\* Of a session: its plan is not done before its invoke() returned; a plan it can read or
\* has saved is that of the checkpoint; and one in the checkpoint it does not replace.
Settled(s) ==
  /\ pc[s][PlanKey] # "todo" => state[s] # NoState
  /\ pc[s][PlanKey] \in {"saveRunning", "invoke", "saveCall"} =>
       PlanEntry(state[s]).status # "DONE" /\ PlanEntry(state[s]).version = s
  /\ /\ state[s] # NoState /\ PlanEntry(state[s]).status = "DONE"
     /\ pc[s][PlanKey] \in {"todo", "delivered"} \/ (pc[s][PlanKey] = "saveDone" /\ ack[s] = "ok")
     => checkpoint # NoState /\ PlanEntry(checkpoint) = PlanEntry(state[s])
  /\ phase[s] = "open" /\ req[s] # NoReq /\ PlanEntry(req[s].state).status = "DONE" =>
       PlanEntry(state[s]) = PlanEntry(req[s].state)
  /\ lease = s /\ checkpoint # NoState /\ PlanEntry(checkpoint).status = "DONE" =>
       /\ phase[s] = "open" => PlanEntry(state[s]) = PlanEntry(checkpoint)
       /\ req[s] # NoReq => PlanEntry(req[s].state) = PlanEntry(checkpoint)

PlansAreSettled == \A s \in Session : Settled(s)

PlanningInv == RecoveryInv /\ PlanningTypeOK /\ StatesAreWhole /\ PlansAreSettled

\* What the plan's key is.
LEMMA PlanKeyFacts ==
  /\ PlanKey \in Key /\ PlanKey \in Synthesis /\ DependsOn[PlanKey] = {}
  /\ Node \subseteq Key /\ PlanKey \notin Node
  BY PlanningAssumption, RecoveryAssumption

\* A whole state whose plan is done makes run() return it.
LEMMA PlanReused ==
  ASSUME NEW s \in Session, Whole(state[s], pc, plan), PlanEntry(state[s]).status = "DONE"
  PROVE  Reusable(s, PlanKey)
  BY PlanKeyFacts DEF Whole, PlanEntry, Reusable, fingerprint

\* Plans are plans: what the planner proposes or what is run in its place.
LEMMA ResolvedPlan == \A p \in Proposals : Resolve(p) \in Plan
  <1>1. Fallback \in [{FirstNode} -> SUBSET Marker]
    BY DEF Fallback, allowed_markers, Marker
  <1>2. {FirstNode} \in SUBSET Node
    BY PlanningAssumption
  <1> QED  BY <1>1, <1>2 DEF Plan, Proposals, Resolve

\* A step of planning, by what it does.
PlanningStep ==
  \/ Takeover /\ plan' = plan
  \/ \E s \in Session : StepOf(s) /\ OpenEffect(s) /\ plan' = plan
  \/ \E s \in Session, k \in Key :
       /\ StepOf(s) /\ RunEffect(s, k) /\ Scheduled(s, k)
       /\ \/ plan' = plan
          \/ /\ k = PlanKey /\ pc[s][PlanKey] = "invoke"
             /\ \E q \in Plan : plan' = [plan EXCEPT ![s] = q]

\* Every step of planning is one of these, and a step of recovery.
LEMMA PlanningSteps ==
  ASSUME RecoveryTypeOK, PlanningNext
  PROVE  PlanningStep /\ Next
  <1>1. CASE Takeover /\ UNCHANGED plan
    BY <1>1 DEF PlanningStep, Next
  <1>2. ASSUME NEW s \in Session, Arrive(s) \/ Open(s), UNCHANGED plan
        PROVE  PlanningStep /\ Next
    <2>1. OpenEffect(s)
      BY <1>2, OpenEffects
    <2> QED  BY <1>2, <2>1 DEF PlanningStep, Next, StepOf
  <1>3. ASSUME NEW s \in Session, PlanResolved(s)  PROVE PlanningStep /\ Next
    <2>1. Run(s, PlanKey) /\ pc[s][PlanKey] = "invoke"
      BY <1>3 DEF PlanResolved, Run, RunReturns, RunReturnsInactive
    <2>2. RunEffect(s, PlanKey) /\ StepOf(s) /\ Next
      BY <2>1, RunEffects, PlanKeyFacts DEF StepOf, Next
    <2>3. \E q \in Plan : plan' = [plan EXCEPT ![s] = q]
      BY <1>3, ResolvedPlan DEF PlanResolved
    <2>4. Scheduled(s, PlanKey)
      BY PlanKeyFacts DEF Scheduled
    <2> QED  BY <2>1, <2>2, <2>3, <2>4, PlanKeyFacts DEF PlanningStep
  <1>4. ASSUME NEW s \in Session, NEW k \in Key, RunStep(s, k)  PROVE PlanningStep /\ Next
    <2>1. Run(s, k) /\ Scheduled(s, k) /\ UNCHANGED plan
      BY <1>4 DEF RunStep, Run
    <2>2. RunEffect(s, k) /\ StepOf(s) /\ Next
      BY <2>1, RunEffects DEF StepOf, Next
    <2> QED  BY <2>1, <2>2 DEF PlanningStep
  <1> QED  BY <1>1, <1>2, <1>3, <1>4 DEF PlanningNext

\* A plan that is final stays, and stays what it is.
LEMMA FinalPlan ==
  ASSUME RecoveryTypeOK, PlanningTypeOK, PlanningStep, NEW v, Final(v, pc)
  PROVE  Final(v, pc') /\ plan'[v] = plan[v]
  <1> USE DEF Final
  <1>1. CASE Takeover /\ plan' = plan
    BY <1>1 DEF Takeover
  <1>2. ASSUME NEW s \in Session, StepOf(s), OpenEffect(s), plan' = plan
        PROVE  Final(v, pc') /\ plan'[v] = plan[v]
    <2>1. pc'[s] = pc[s]
      BY <1>2 DEF OpenEffect, SaveStored, SaveRefused, Closes, Resumes, Creates, Created, SameRuns
    <2> QED  BY <1>2, <2>1, LocalStep DEF Untouched
  <1>3. ASSUME NEW s \in Session, NEW k \in Key, StepOf(s), RunEffect(s, k)
        PROVE  Final(v, pc')
    <2>1. CASE v # s
      BY <1>3, <2>1, LocalStep DEF Untouched
    <2>2. CASE v = s
      <3>1. CASE k # PlanKey
        BY <1>3, <2>2, <3>1, PlanKeyFacts DEF RunEffect, Begins, Ends, Acked, GivenUp, OneRun
      <3>2. CASE k = PlanKey
        BY <1>3, <2>2, <3>2, PlanKeyFacts DEF RunEffect, Begins, Ends, Acked, GivenUp, OneRun,
           Saving
      <3> QED  BY <3>1, <3>2
    <2> QED  BY <2>1, <2>2
  <1>4. ASSUME NEW s \in Session, pc[s][PlanKey] = "invoke",
               NEW q \in Plan, plan' = [plan EXCEPT ![s] = q]
        PROVE  plan'[v] = plan[v]
    BY <1>4 DEF PlanningTypeOK
  <1> QED  BY <1>1, <1>2, <1>3, <1>4 DEF PlanningStep

\* So a whole state stays whole while it is not changed.
LEMMA WholeStays ==
  ASSUME RecoveryTypeOK, PlanningTypeOK, PlanningStep, NEW st, Whole(st, pc, plan)
  PROVE  Whole(st, pc', plan')
  <1>1. st.operations[PlanKey].status = "DONE" =>
          /\ Final(st.operations[PlanKey].version, pc')
          /\ plan'[st.operations[PlanKey].version] = plan[st.operations[PlanKey].version]
    BY FinalPlan DEF Whole
  <1> QED  BY <1>1 DEF Whole

\* The first checkpoint is whole.
LEMMA WholeNew ==
  ASSUME NEW s \in Session, NEW p, NEW q
  PROVE  Whole(NewState(s), p, q)
  BY PlanKeyFacts DEF Whole, NewState, NoEntry

\* A session without a step stays settled: the plan of the checkpoint is not replaced.
LEMMA SettledElsewhere ==
  ASSUME NEW s \in Session, NEW t \in Session \ {s}, Serial(s), Settled(s), Settled(t),
         Untouched(t), Stored(s)
  PROVE  Settled(t)'
  <1>1. CASE checkpoint' = checkpoint
    BY <1>1 DEF Settled, Untouched, PlanEntry
  <1>2. CASE lease = s /\ req[s] # NoReq /\ checkpoint' = req[s].state
    <2>1. checkpoint' # NoState
      BY <1>2 DEF Serial
    <2>2. checkpoint # NoState /\ PlanEntry(checkpoint).status = "DONE" =>
            PlanEntry(req[s].state) = PlanEntry(checkpoint)
      BY <1>2 DEF Settled
    <2> QED  BY <1>2, <2>1, <2>2 DEF Settled, Untouched, PlanEntry
  <1> QED  BY <1>1, <1>2 DEF Stored

\* A session settles on one plan: by its own steps ...
LEMMA SettledOwn ==
  ASSUME NEW s \in Session, RecoveryTypeOK, Serial(s), Current(s), Committed(s),
         WholeAt(s), Settled(s),
         OpenEffect(s) \/ \E k \in Key : RunEffect(s, k)
  PROVE  Settled(s)'
  <1> USE DEF Saving
  <1>0. PlanKey \in Key
    BY PlanKeyFacts
  <1>1. CASE SaveStored(s)
    <2>1. /\ lease = s /\ req[s] # NoReq /\ req'[s] = NoReq /\ checkpoint' = req[s].state
          /\ phase'[s] = phase[s] /\ state'[s] = state[s] /\ pc'[s] = pc[s] /\ lease' = lease
      BY <1>1 DEF SaveStored, SameRuns
    <2>2. checkpoint' # NoState
      BY <2>1 DEF Serial
    <2>3. CASE pc[s][PlanKey] = "saveDone"
      <3>1. req[s].state = state[s]
        BY <2>1, <2>3, <1>0, RecoveryAssumption DEF Serial
      <3> QED  BY <2>1, <2>2, <2>3, <3>1 DEF Settled, PlanEntry
    <2>4. CASE pc[s][PlanKey] # "saveDone"
      BY <2>1, <2>2, <2>4 DEF Settled, PlanEntry
    <2> QED  BY <2>3, <2>4
  <1>2. CASE SaveRefused(s)
    BY <1>2 DEF SaveRefused, SameCentral, SameRuns, Settled, PlanEntry
  <1>3. CASE Closes(s)
    BY <1>3 DEF Closes, SameCentral, SameRuns, SameCalls, Settled, PlanEntry
  <1>4. CASE Resumes(s)
    <2>1. pc[s][PlanKey] = "todo" /\ req[s] = NoReq
      BY <1>4, <1>0 DEF Resumes, Serial
    <2> QED  BY <1>4, <2>1 DEF Resumes, SameCentral, SameRuns, SameCalls, Settled, PlanEntry
  <1>5. CASE Creates(s)
    <2>1. pc[s][PlanKey] = "todo"
      BY <1>5, <1>0 DEF Creates, Serial
    <2> QED  BY <1>5, <2>1 DEF Creates, SameCentral, SameRuns, Settled, PlanEntry
  <1>6. CASE Created(s)
    <2>1. pc[s][PlanKey] = "todo" /\ req[s] = NoReq
      BY <1>6, <1>0 DEF Created, Serial
    <2>2. lease = s => checkpoint = NewState(s)
      BY <1>6 DEF Created, Current
    <2>3. PlanEntry(NewState(s)).status # "DONE"
      BY <1>0 DEF NewState, NoEntry, PlanEntry
    <2> QED  BY <1>6, <2>1, <2>2, <2>3 DEF Created, SameCentral, SameRuns, Settled, PlanEntry
  <1>7. ASSUME NEW k \in Key, NEW st \in State, NEW w \in Saving, Begins(s, k, st, w)
        PROVE  Settled(s)'
    <2>1. /\ phase[s] = "open" /\ lock[s] = None /\ ~failed[s] /\ pc[s][k] \in {"todo", "invoke"}
          /\ SameCentral /\ phase'[s] = "open" /\ state'[s] = st /\ req'[s].state = st
          /\ OneRun(s, k, w) /\ ack'[s] = ack[s]
          /\ \A d \in Key \ {k} : st.operations[d] = state[s].operations[d]
      BY <1>7 DEF Begins
    <2>2. st # NoState /\ state[s] # NoState /\ ack[s] = "none"
      BY <2>1, NoStateAssumption DEF RecoveryTypeOK, Serial
    <2>3. CASE k # PlanKey
      BY <1>0, <2>1, <2>2, <2>3 DEF OneRun, SameCentral, Settled, PlanEntry
    <2>4. CASE k = PlanKey
      <3>1. PlanEntry(state[s]).status # "DONE"
        <4>1. CASE pc[s][k] = "todo"
          BY <1>7, <2>2, <2>4, <4>1, PlanReused DEF Begins, WholeAt
        <4>2. CASE pc[s][k] = "invoke"
          BY <2>4, <4>2 DEF Settled
        <4> QED  BY <2>1, <4>1, <4>2
      <3>2. ~(lease = s /\ checkpoint # NoState /\ PlanEntry(checkpoint).status = "DONE")
        BY <2>1, <3>1 DEF Settled
      <3>3. w # "saveDone" => PlanEntry(st).status # "DONE" /\ PlanEntry(st).version = s
        <4>1. CASE pc[s][k] = "todo"
          BY <1>7, <2>4, <4>1 DEF Begins, PlanEntry
        <4>2. CASE pc[s][k] = "invoke"
          <5>1. PlanEntry(state[s]).version = s
            BY <2>4, <4>2 DEF Settled
          <5> QED  BY <1>7, <2>4, <3>1, <4>2, <5>1 DEF Begins, PlanEntry
        <4> QED  BY <2>1, <4>1, <4>2
      <3> QED  BY <2>1, <2>2, <2>4, <3>2, <3>3 DEF OneRun, SameCentral, Settled, PlanEntry
    <2> QED  BY <2>3, <2>4
  <1>8. ASSUME NEW k \in Key, NEW v \in {"delivered", "raised"}, Ends(s, k, v)
        PROVE  Settled(s)'
    <2>1. /\ phase[s] = "open" /\ pc[s][k] \in {"todo", "invoke"}
          /\ SameCentral /\ phase'[s] = "open" /\ SameCalls(s) /\ OneRun(s, k, v)
          /\ \A d \in Key \ {k} : state'[s].operations[d] = state[s].operations[d]
      BY <1>8 DEF Ends
    <2>2. state[s] # NoState /\ state'[s] # NoState
      BY <1>8, NoStateAssumption DEF Ends, RecoveryTypeOK
    <2>3. CASE k # PlanKey
      BY <1>0, <2>1, <2>2, <2>3 DEF OneRun, SameCentral, SameCalls, Settled, PlanEntry
    <2>4. CASE k = PlanKey /\ state'[s] = state[s]
      <3>1. v = "delivered" => pc[s][PlanKey] = "todo"
        BY <1>8, <2>4 DEF Ends
      <3> QED  BY <2>1, <2>2, <2>4, <3>1 DEF OneRun, SameCentral, SameCalls, Settled, PlanEntry
    <2>5. CASE k = PlanKey /\ state'[s] # state[s]
      <3>1. pc[s][PlanKey] = "invoke" /\ v = "raised"
        BY <1>8, <2>5 DEF Ends
      <3>2. PlanEntry(state[s]).status # "DONE"
        BY <3>1 DEF Settled
      <3>3. /\ ~(lease = s /\ checkpoint # NoState /\ PlanEntry(checkpoint).status = "DONE")
            /\ ~(req[s] # NoReq /\ PlanEntry(req[s].state).status = "DONE")
        BY <2>1, <3>2 DEF Settled
      <3> QED  BY <2>1, <2>2, <2>5, <3>1, <3>3 DEF OneRun, SameCentral, SameCalls, Settled,
                  PlanEntry
    <2> QED  BY <2>3, <2>4, <2>5
  <1>9. ASSUME NEW k \in Key, Acked(s, k)  PROVE Settled(s)'
    <2>1. /\ phase[s] = "open" /\ pc[s][k] \in Saving /\ ack[s] = "ok" /\ SameCentral
          /\ phase'[s] = "open" /\ state'[s] = state[s] /\ req'[s] = req[s] /\ ack'[s] = "none"
          /\ OneRun(s, k, IF pc[s][k] = "saveDone" THEN "delivered" ELSE "invoke")
      BY <1>9 DEF Acked
    <2>2. CASE k # PlanKey
      BY <1>0, <2>1, <2>2 DEF OneRun, SameCentral, Settled, PlanEntry
    <2>3. CASE k = PlanKey
      BY <2>1, <2>3 DEF OneRun, SameCentral, Settled, PlanEntry
    <2> QED  BY <2>2, <2>3
  <1>10. ASSUME NEW k \in Key, GivenUp(s, k)  PROVE Settled(s)'
    <2>1. /\ phase[s] = "open" /\ pc[s][k] \in Saving /\ SameCentral
          /\ phase'[s] = "open" /\ state'[s] = state[s] /\ SameCalls(s)
          /\ OneRun(s, k, IF pc[s][k] = "saveCall" THEN "invoke" ELSE "raised")
      BY <1>10 DEF GivenUp
    <2>2. CASE k # PlanKey
      BY <1>0, <2>1, <2>2 DEF OneRun, SameCentral, SameCalls, Settled, PlanEntry
    <2>3. CASE k = PlanKey
      BY <2>1, <2>3 DEF OneRun, SameCentral, SameCalls, Settled, PlanEntry
    <2> QED  BY <2>2, <2>3
  <1> QED  BY <1>1, <1>2, <1>3, <1>4, <1>5, <1>6, <1>7, <1>8, <1>9, <1>10
           DEF OpenEffect, RunEffect

\* ... and by every step.
LEMMA SettledStep ==
  ASSUME RecoveryInv, StatesAreWhole, PlansAreSettled, [Next]_vars
  PROVE  PlansAreSettled'
  <1>1. CASE Takeover
    BY <1>1, PlanKeyFacts
    DEF Takeover, RecoveryInv, SavesAreSerial, Serial, PlansAreSettled, Settled,
       RecoveryTypeOK, Session, PlanEntry
  <1>2. CASE UNCHANGED vars
    BY <1>2 DEF vars, central, PlansAreSettled, Settled, PlanEntry
  <1>3. ASSUME NEW s \in Session, StepOf(s)  PROVE PlansAreSettled'
    <2>1. /\ RecoveryTypeOK /\ Serial(s) /\ Current(s) /\ Committed(s)
          /\ WholeAt(s) /\ Settled(s)
      BY DEF RecoveryInv, SavesAreSerial, InStep, ReturnsAreCommitted, StatesAreWhole,
         PlansAreSettled
    <2>2. \A t \in Session \ {s} : Settled(t)'
      BY <1>3, <2>1, LocalStep, Effects, CheckpointWritten, SettledElsewhere DEF PlansAreSettled
    <2>3. Settled(s)'
      BY <1>3, <2>1, Effects, SettledOwn
    <2> QED  BY <2>2, <2>3 DEF PlansAreSettled
  <1> QED  BY <1>1, <1>2, <1>3 DEF Next, StepOf

\* What a session saves, or keeps, is whole if its state was.
LEMMA WholeRun ==
  ASSUME RecoveryInv, PlanningTypeOK, StatesAreWhole, PlansAreSettled, PlanningStep,
         NEW s \in Session, NEW k \in Key, RunEffect(s, k), Scheduled(s, k)
  PROVE  Whole(state'[s], pc', plan') /\ (req'[s] # NoReq => Whole(req'[s].state, pc', plan'))
  <1>1. RecoveryTypeOK /\ phase[s] = "open" /\ state[s] # NoState
    BY DEF RecoveryInv, RunEffect, Begins, Ends, Acked, GivenUp, RecoveryTypeOK
  <1>2. WholeAt(s) /\ Settled(s) /\ Committed(s)
    BY DEF StatesAreWhole, PlansAreSettled, RecoveryInv, ReturnsAreCommitted
  <1>3. /\ Whole(state[s], pc, plan) /\ Whole(state[s], pc', plan')
        /\ req[s] # NoReq => Whole(req[s].state, pc', plan')
    BY <1>1, <1>2, WholeStays DEF WholeAt
  \* A changed state: nodes are only started under a plan that is done, and a plan only
  \* where there is none yet, hence no node either.
  <1>4. ASSUME NEW st, pc[s][k] \in {"todo", "invoke"},
               \A d \in Key \ {k} : st.operations[d] = state[s].operations[d],
               st.operations[k].inputs = state[s].operations[k].inputs
                 \/ st.operations[k].inputs = fingerprint(s, k),
               k = PlanKey => /\ PlanEntry(state[s]).status # "DONE"
                              /\ PlanEntry(st).status = "DONE" =>
                                   PlanEntry(st).reusable /\ Final(PlanEntry(st).version, pc')
        PROVE  Whole(st, pc', plan')
    <2>1. CASE k = PlanKey
      <3>1. st.operations[PlanKey].inputs = [d \in Key |-> 0]
        BY <1>3, <1>4, <2>1, PlanKeyFacts DEF Whole, fingerprint
      <3>2. \A n \in Node : st.operations[n].status = "absent"
        BY <1>3, <1>4, <2>1, PlanKeyFacts DEF Whole, PlanEntry
      <3> QED  BY <1>4, <2>1, <3>1, <3>2 DEF Whole, PlanEntry
    <2>2. CASE k \in Node
      <3>1. /\ PlanEntry(state[s]).status = "DONE"
            /\ k \in DOMAIN plan[PlanEntry(state[s]).version]
        BY <1>2, <2>2, PlanKeyFacts DEF Scheduled, PlanOf, Committed, PlanEntry
      <3>2. plan'[PlanEntry(state[s]).version] = plan[PlanEntry(state[s]).version]
        BY <1>1, <1>3, <3>1, FinalPlan DEF Whole, PlanEntry
      <3>3. st.operations[PlanKey] = state[s].operations[PlanKey]
        BY <1>4, <2>2, PlanKeyFacts
      <3>4. ASSUME NEW n \in Node, st.operations[n].status # "absent"
            PROVE  n \in DOMAIN plan'[st.operations[PlanKey].version]
        <4>1. CASE n = k
          BY <3>1, <3>2, <3>3, <4>1 DEF PlanEntry
        <4>2. CASE n # k
          BY <1>3, <1>4, <3>3, <3>4, <4>2, PlanKeyFacts DEF Whole
        <4> QED  BY <4>1, <4>2
      <3> QED  BY <1>3, <3>1, <3>3, <3>4 DEF Whole, PlanEntry
    <2>3. CASE k # PlanKey /\ k \notin Node
      BY <1>3, <1>4, <2>3, PlanKeyFacts DEF Whole
    <2> QED  BY <2>1, <2>2, <2>3
  <1>5. ASSUME NEW st \in State, NEW w \in Saving, Begins(s, k, st, w)
        PROVE  Whole(state'[s], pc', plan') /\ (req'[s] # NoReq => Whole(req'[s].state, pc', plan'))
    <2>1. /\ pc[s][k] \in {"todo", "invoke"} /\ state'[s] = st /\ req'[s].state = st
          /\ \A d \in Key \ {k} : st.operations[d] = state[s].operations[d]
          /\ \/ st.operations[k].inputs = state[s].operations[k].inputs
             \/ st.operations[k].inputs = fingerprint(s, k)
      BY <1>5 DEF Begins
    <2>2. ASSUME k = PlanKey  PROVE PlanEntry(state[s]).status # "DONE"
      <3>1. CASE pc[s][k] = "todo"
        BY <1>3, <1>5, <2>2, <3>1, PlanReused DEF Begins
      <3>2. CASE pc[s][k] = "invoke"
        BY <1>2, <2>2, <3>2 DEF Settled
      <3> QED  BY <2>1, <3>1, <3>2
    <2>3. ASSUME k = PlanKey, PlanEntry(st).status = "DONE"
          PROVE  PlanEntry(st).reusable /\ Final(PlanEntry(st).version, pc')
      <3>1. pc[s][k] = "invoke" /\ w = "saveDone"
        BY <1>5, <2>2, <2>3 DEF Begins, PlanEntry
      <3>2. PlanEntry(st).reusable /\ PlanEntry(st).version = PlanEntry(state[s]).version
        BY <1>5, <2>3, <3>1, PlanKeyFacts DEF Begins, PlanEntry
      <3>3. PlanEntry(state[s]).version = s /\ pc'[s][PlanKey] = "saveDone"
        BY <1>2, <1>5, <2>3, <3>1 DEF Settled, Begins, OneRun
      <3> QED  BY <3>2, <3>3 DEF Final
    <2>4. Whole(st, pc', plan')
      BY <1>4, <2>1, <2>2, <2>3
    <2> QED  BY <2>1, <2>4
  <1>6. ASSUME NEW v \in {"delivered", "raised"}, Ends(s, k, v)
        PROVE  Whole(state'[s], pc', plan') /\ (req'[s] # NoReq => Whole(req'[s].state, pc', plan'))
    <2>1. req'[s] = req[s]
      BY <1>6 DEF Ends, SameCalls
    <2>2. CASE state'[s] = state[s]
      BY <1>3, <2>1, <2>2
    <2>3. CASE state'[s] # state[s]
      <3>1. /\ v = "raised" /\ pc[s][k] = "invoke"
            /\ \A d \in Key \ {k} : state'[s].operations[d] = state[s].operations[d]
            /\ state'[s].operations[k].version = state[s].operations[k].version
            /\ state'[s].operations[k].inputs = state[s].operations[k].inputs
            /\ k \in Synthesis => state'[s].operations[k].reusable
        BY <1>6, <2>3 DEF Ends
      <3>2. ASSUME k = PlanKey
            PROVE  /\ PlanEntry(state[s]).status # "DONE" /\ PlanEntry(state[s]).version = s
                   /\ PlanEntry(state'[s]).reusable
                   /\ Final(PlanEntry(state'[s]).version, pc')
        BY <1>2, <1>6, <3>1, <3>2, PlanKeyFacts DEF Settled, Ends, OneRun, PlanEntry, Final
      <3>3. Whole(state'[s], pc', plan')
        BY <1>4, <3>1, <3>2
      <3> QED  BY <1>3, <2>1, <3>3
    <2> QED  BY <2>2, <2>3
  <1>7. CASE Acked(s, k) \/ GivenUp(s, k)
    BY <1>3, <1>7 DEF Acked, GivenUp, SameCalls
  <1> QED  BY <1>5, <1>6, <1>7 DEF RunEffect

\* Every step leaves all states whole.
LEMMA WholeStep ==
  ASSUME RecoveryInv, PlanningTypeOK, StatesAreWhole, PlansAreSettled, PlanningStep
  PROVE  StatesAreWhole'
  <1> USE DEF WholeAt
  <1>1. RecoveryTypeOK
    BY DEF RecoveryInv
  <1>2. /\ checkpoint # NoState => Whole(checkpoint, pc', plan')
        /\ \A s \in Session :
             /\ state[s] # NoState => Whole(state[s], pc', plan')
             /\ req[s] # NoReq => Whole(req[s].state, pc', plan')
    BY <1>1, WholeStays DEF StatesAreWhole
  <1>3. CASE Takeover /\ plan' = plan
    BY <1>2, <1>3 DEF Takeover, StatesAreWhole
  <1>4. ASSUME NEW s \in Session, StepOf(s), OpenEffect(s) \/ \E k \in Key : RunEffect(s, k)
        PROVE  /\ checkpoint' # NoState => Whole(checkpoint', pc', plan')
               /\ \A t \in Session \ {s} : WholeAt(t)'
    <2>1. \A t \in Session \ {s} : WholeAt(t)'
      BY <1>1, <1>2, <1>4, LocalStep DEF Untouched
    <2>2. Stored(s)
      BY <1>4, CheckpointWritten
    <2> QED  BY <1>2, <2>1, <2>2 DEF Stored
  <1>5. ASSUME NEW s \in Session, StepOf(s), OpenEffect(s)  PROVE StatesAreWhole'
    <2>1. /\ state'[s] # NoState => Whole(state'[s], pc', plan')
          /\ req'[s] # NoReq => Whole(req'[s].state, pc', plan')
      BY <1>2, <1>5, WholeNew DEF OpenEffect, SaveStored, SaveRefused, Closes, Resumes, Creates,
         Created, SameCalls
    <2> QED  BY <1>4, <1>5, <2>1 DEF StatesAreWhole
  <1>6. ASSUME NEW s \in Session, NEW k \in Key, StepOf(s), RunEffect(s, k), Scheduled(s, k)
        PROVE  StatesAreWhole'
    <2>1. Whole(state'[s], pc', plan') /\ (req'[s] # NoReq => Whole(req'[s].state, pc', plan'))
      BY <1>6, WholeRun
    <2> QED  BY <1>4, <1>6, <2>1 DEF StatesAreWhole
  <1> QED  BY <1>3, <1>5, <1>6 DEF PlanningStep

-----------------------------------------------------------------------------
(* Theorems about planning *)

\* The planning invariant holds initially.
LEMMA PlanningStart == PlanningInit => PlanningInv
  <1> SUFFICES ASSUME PlanningInit  PROVE PlanningInv
    OBVIOUS
  <1>1. RecoveryInv
    BY RecoveryStart DEF PlanningInit
  <1>2. NoPlan \in Plan
    <2>1. NoPlan \in [{} -> SUBSET Marker] /\ {} \in SUBSET Node
      BY DEF NoPlan
    <2> QED  BY <2>1 DEF Plan
  <1>3. PlanningTypeOK
    BY <1>1, <1>2 DEF PlanningInit, PlanningTypeOK, RecoveryInv
  <1>4. StatesAreWhole
    BY DEF PlanningInit, Init, StatesAreWhole, WholeAt
  <1>5. PlansAreSettled
    BY PlanKeyFacts DEF PlanningInit, Init, PlansAreSettled, Settled
  <1> QED  BY <1>1, <1>3, <1>4, <1>5 DEF PlanningInv

\* Every step keeps it, and is a step of recovery.
LEMMA PlanningKeeps ==
  PlanningInv /\ [PlanningNext]_planningVars => PlanningInv' /\ [Next]_vars
  <1> SUFFICES ASSUME PlanningInv, [PlanningNext]_planningVars
               PROVE  PlanningInv' /\ [Next]_vars
    OBVIOUS
  <1> USE DEF PlanningInv
  <1>1. CASE UNCHANGED planningVars
    <2>1. UNCHANGED vars /\ plan' = plan
      BY <1>1 DEF planningVars
    <2>2. RecoveryInv'
      BY <2>1, RecoveryStep
    <2>3. PlansAreSettled'
      BY <2>1, SettledStep
    <2>4. StatesAreWhole'
      BY <2>1 DEF vars, central, StatesAreWhole, WholeAt
    <2>5. PlanningTypeOK'
      BY <2>1, <2>2 DEF PlanningTypeOK, RecoveryInv
    <2> QED  BY <2>1, <2>2, <2>3, <2>4, <2>5
  <1>2. CASE PlanningNext
    <2>1. PlanningStep /\ Next
      BY <1>2, PlanningSteps DEF RecoveryInv
    <2>2. RecoveryInv' /\ PlansAreSettled' /\ StatesAreWhole'
      BY <2>1, RecoveryStep, SettledStep, WholeStep
    <2>3. plan' \in [Session -> Plan]
      BY <2>1 DEF PlanningStep, PlanningTypeOK
    <2> QED  BY <2>1, <2>2, <2>3 DEF PlanningTypeOK, RecoveryInv
  <1> QED  BY <1>1, <1>2

\* The inductive invariant of planning under recovery (_resolve_plan inside checkpoint_step).
THEOREM PlanningInvariant == PlanningSpec => []PlanningInv
  <1> QED  BY PlanningStart, PlanningKeeps, PTL DEF PlanningSpec

\* Planning drives the recovery sessions as DagRecovery allows, so all that is proved of
\* those holds of plan-and-run.
THEOREM PlanningIsRecovery == PlanningSpec => Spec
  <1>1. PlanningInit => Init
    BY DEF PlanningInit
  <1> QED  BY <1>1, PlanningInvariant, PlanningKeeps, PTL DEF PlanningSpec, Spec

\* The plan is chosen once, over all takeovers, and only its tasks ever have entries.
THEOREM PlanChosenOnce == PlanningSpec => []PlanIsFixed
  <1>1. PlanningInv => PlanIsFixed
    <2> SUFFICES ASSUME PlanningInv  PROVE PlanIsFixed
      OBVIOUS
    <2>1. ASSUME NEW s \in Session, pc[s][PlanKey] = "delivered"
          PROVE  PlanEntry(state[s]) = PlanEntry(checkpoint)
      <3>1. PlanEntry(state[s]).status = "DONE"
        BY <2>1, PlanKeyFacts
        DEF PlanningInv, RecoveryInv, ReturnsAreCommitted, Committed, PlanEntry
      <3> QED  BY <2>1, <3>1 DEF PlanningInv, PlansAreSettled, Settled
    <2>2. \A s, t \in Session :
            pc[s][PlanKey] = "delivered" /\ pc[t][PlanKey] = "delivered" => PlanOf(s) = PlanOf(t)
      BY <2>1 DEF PlanOf, PlanEntry
    <2> QED  BY <2>2 DEF PlanIsFixed, PlanningInv, StatesAreWhole, Whole
  <1> QED  BY <1>1, PlanningInvariant, PTL
=============================================================================

----------------------- MODULE AsyncTaskManagerProofs -----------------------
(***************************************************************************)
(* Proofs about AsyncTaskManager, for any number of processes, tasks and   *)
(* claims: type correctness, the lease invariant, and what it gives: a     *)
(* success only from the holder of the latest epoch for a completed        *)
(* execution, and no two processes on one epoch.                           *)
(* The argument is the usual one of fencing tokens: an epoch is granted    *)
(* once (GrantsAreExclusive), everything that carries an epoch carries a   *)
(* granted one, and a write is accepted only under the latest epoch of a   *)
(* live task, after which no epoch is granted any more (WritesAreFinal).   *)
(***************************************************************************)
EXTENDS AsyncTaskManager, FiniteSetTheorems, TLAPS

-----------------------------------------------------------------------------
(* Type correctness *)

\* The operations of the service keep its variables in their types.
LEMMA CreateType ==
  ASSUME CentralTypeOK, NEW t \in Task, CentralCreate(t)
  PROVE  CentralTypeOK'
  BY DEF CentralTypeOK, CentralCreate, Status

\* A lease that changes hands keeps the types.
LEMMA GrantType ==
  ASSUME CentralTypeOK, NEW p \in Proc, NEW t \in Task, Grant(p, t)
  PROVE  CentralTypeOK'
  BY DEF CentralTypeOK, Grant, NextEpoch, Status

\* So does a cancel.
LEMMA CancelType ==
  ASSUME CentralTypeOK, NEW t \in Task, CentralCancel(t)
  PROVE  CentralTypeOK'
  BY DEF CentralTypeOK, CentralCancel, Status, Terminal

\* So does an accepted status write.
LEMMA AcceptType ==
  ASSUME CentralTypeOK, NEW r \in Write, AcceptWrite(r)
  PROVE  CentralTypeOK'
  BY DEF CentralTypeOK, AcceptWrite, Status, Terminal, Write

\* So do the lapse of a lease and the reaper.
LEMMA LapseType ==
  ASSUME CentralTypeOK, NEW t \in Task, LeaseExpires(t) \/ Reap(t)
  PROVE  CentralTypeOK'
  <1>1. CASE LeaseExpires(t)
    BY <1>1 DEF CentralTypeOK, LeaseExpires
  <1>2. CASE Reap(t)
    BY <1>2 DEF CentralTypeOK, Reap, Status, Terminal
  <1> QED  BY <1>1, <1>2

\* So does a step that leaves the service alone.
LEMMA UnchangedType ==
  ASSUME CentralTypeOK, UNCHANGED centralVars
  PROVE  CentralTypeOK'
  BY DEF CentralTypeOK, centralVars

\* A write of a handle is a write.
LEMMA StatusWriteType ==
  ASSUME ManagerTypeOK, NEW p \in Proc, NEW t \in Task, NEW s \in {"SUCCEEDED", "FAILED"}
  PROVE  StatusWrite(p, t, s) \in Write
  BY DEF ManagerTypeOK, StatusWrite, Write

\* Every step of the system keeps the types.
LEMMA TypeOKStep == TypeOK /\ [Next]_vars => TypeOK'
  <1> SUFFICES ASSUME TypeOK, [Next]_vars  PROVE TypeOK'
    OBVIOUS
  <1> USE DEF TypeOK, ManagerTypeOK, CentralTypeOK, WorkPhase, centralVars, handleVars, callVars
  <1>1. ASSUME NEW p \in Proc, NEW t \in Task, SubmitStarts(p, t)  PROVE TypeOK'
    BY <1>1 DEF SubmitStarts
  <1>2. ASSUME NEW p \in Proc, NEW t \in Task, SubmitCreated(p, t)  PROVE TypeOK'
    <2>1. CentralTypeOK'
      BY CreateType, <1>2 DEF SubmitCreated
    <2>2. ManagerTypeOK'
      BY <1>2 DEF SubmitCreated
    <2> QED  BY <2>1, <2>2
  <1>3. ASSUME NEW p \in Proc, NEW t \in Task, SubmitCreateFails(p, t)  PROVE TypeOK'
    BY <1>3 DEF SubmitCreateFails
  <1>4. ASSUME NEW p \in Proc, NEW t \in Task, SubmitLeased(p, t)  PROVE TypeOK'
    <2>1. CentralTypeOK'
      BY GrantType, <1>4 DEF SubmitLeased
    <2>2. ManagerTypeOK'
      <3>1. UNCHANGED <<life, handles, stop, late, work, hb, uc, poll, offer, wire, finished>>
        BY <1>4 DEF SubmitLeased
      <3>2. CASE /\ sub' = [sub EXCEPT ![p][t] = "leased"]
                 /\ hepoch' = [hepoch EXCEPT ![p][t] = NextEpoch(t)]
        BY <3>1, <3>2 DEF NextEpoch
      <3>3. CASE sub' = [sub EXCEPT ![p][t] = "rollback"] /\ UNCHANGED hepoch
        BY <3>1, <3>3
      <3> QED  BY <1>4, <3>2, <3>3 DEF SubmitLeased
    <2> QED  BY <2>1, <2>2
  <1>5. ASSUME NEW p \in Proc, NEW t \in Task, SubmitLeaseFails(p, t)  PROVE TypeOK'
    BY <1>5 DEF SubmitLeaseFails
  <1>6. ASSUME NEW p \in Proc, NEW t \in Task, SubmitRegisters(p, t)  PROVE TypeOK'
    <2>1. CASE Register(p, t, hepoch[p][t]) /\ sub' = [sub EXCEPT ![p][t] = "none"]
      BY <1>6, <2>1 DEF SubmitRegisters, Register
    <2>2. CASE UNCHANGED handleVars /\ sub' = [sub EXCEPT ![p][t] = "rollback"]
      BY <1>6, <2>2 DEF SubmitRegisters
    <2> QED  BY <1>6, <2>1, <2>2 DEF SubmitRegisters
  <1>7. ASSUME NEW p \in Proc, NEW t \in Task, SubmitRollsBack(p, t)  PROVE TypeOK'
    <2>1. CentralTypeOK'
      BY CancelType, UnchangedType, <1>7 DEF SubmitRollsBack
    <2>2. ManagerTypeOK'
      BY <1>7 DEF SubmitRollsBack
    <2> QED  BY <2>1, <2>2
  <1>8. ASSUME NEW p \in Proc, NEW t \in Task, WorkStarts(p, t)  PROVE TypeOK'
    BY <1>8 DEF WorkStarts
  <1>9. ASSUME NEW p \in Proc, NEW t \in Task, WorkAdmitted(p, t)  PROVE TypeOK'
    BY <1>9 DEF WorkAdmitted
  <1>10. ASSUME NEW p \in Proc, NEW t \in Task, ExecSucceeds(p, t)  PROVE TypeOK'
    <2>0. CentralTypeOK'
      BY UnchangedType, <1>10 DEF ExecSucceeds
    <2>1. CASE EnterFinally(p, t)
      <3>1. ManagerTypeOK'
        BY <1>10, <2>1 DEF ExecSucceeds, EnterFinally
      <3> QED  BY <2>0, <3>1
    <2>2. CASE work' = [work EXCEPT ![p][t] = "sendS"] /\ UNCHANGED hb
                 /\ wire' = wire \cup {StatusWrite(p, t, "SUCCEEDED")}
      <3>1. StatusWrite(p, t, "SUCCEEDED") \in Write
        BY StatusWriteType
      <3>2. ManagerTypeOK'
        BY <1>10, <2>2, <3>1 DEF ExecSucceeds
      <3> QED  BY <2>0, <3>2
    <2> QED  BY <1>10, <2>1, <2>2 DEF ExecSucceeds
  <1>11. ASSUME NEW p \in Proc, NEW t \in Task, ExecPartial(p, t)  PROVE TypeOK'
    <2>1. CASE EnterFinally(p, t)
      BY StatusWriteType, <1>11, <2>1 DEF ExecPartial, EnterFinally
    <2>2. CASE ReportFailure(p, t)
      BY StatusWriteType, <1>11, <2>2 DEF ExecPartial, ReportFailure
    <2> QED  BY <1>11, <2>1, <2>2 DEF ExecPartial
  <1>12. ASSUME NEW p \in Proc, NEW t \in Task, ExecRaises(p, t)  PROVE TypeOK'
    BY StatusWriteType, <1>12 DEF ExecRaises, ReportFailure
  <1>13. ASSUME NEW p \in Proc, NEW t \in Task, ExecCheckpointUnavailable(p, t)  PROVE TypeOK'
    BY <1>13 DEF ExecCheckpointUnavailable, EnterFinally
  <1>14. ASSUME NEW p \in Proc, NEW t \in Task, DeadlineFires(p, t)  PROVE TypeOK'
    <2>1. UNCHANGED <<centralVars, life, handles, hepoch, callVars, finished>>
      BY <1>14 DEF DeadlineFires
    <2>2. CASE stop' = [stop EXCEPT ![p][t] = TRUE] /\ ReportFailure(p, t) /\ UNCHANGED late
      BY StatusWriteType, <2>1, <2>2 DEF ReportFailure
    <2>3. CASE late' = [late EXCEPT ![p][t] = TRUE] /\ UNCHANGED <<stop, work, hb, wire>>
      BY <2>1, <2>3
    <2> QED  BY <1>14, <2>2, <2>3 DEF DeadlineFires
  <1>15. ASSUME NEW p \in Proc, NEW t \in Task, SuccessAcknowledged(p, t)  PROVE TypeOK'
    BY <1>15 DEF SuccessAcknowledged, EnterFinally
  <1>16. ASSUME NEW p \in Proc, NEW t \in Task, SuccessUnacknowledged(p, t)  PROVE TypeOK'
    BY StatusWriteType, <1>16 DEF SuccessUnacknowledged, ReportFailure
  <1>17. ASSUME NEW p \in Proc, NEW t \in Task, FailureReported(p, t)  PROVE TypeOK'
    BY <1>17 DEF FailureReported, EnterFinally
  <1>18. ASSUME NEW p \in Proc, NEW t \in Task, Unregister(p, t)  PROVE TypeOK'
    BY <1>18 DEF Unregister
  <1>19. ASSUME NEW p \in Proc, NEW t \in Task, HeartbeatEnds(p, t)  PROVE TypeOK'
    BY <1>19 DEF HeartbeatEnds
  <1>20. ASSUME NEW p \in Proc, NEW t \in Task, HeartbeatLosesLease(p, t)  PROVE TypeOK'
    BY <1>20 DEF HeartbeatLosesLease, StopWork, AfterCancel
  <1>21. ASSUME NEW p \in Proc, NEW t \in Task, HeartbeatFails(p, t)  PROVE TypeOK'
    <2>1. CASE StopWork(p, t, "off")
      BY <1>21, <2>1 DEF HeartbeatFails, StopWork, AfterCancel
    <2>2. CASE hb' = [hb EXCEPT ![p][t] = "off"] /\ UNCHANGED <<handles, hepoch, stop, late, work>>
      BY <1>21, <2>2 DEF HeartbeatFails
    <2> QED  BY <1>21, <2>1, <2>2 DEF HeartbeatFails
  <1>22. ASSUME NEW p \in Proc, NEW t \in Task, CancelSends(p, t)  PROVE TypeOK'
    BY <1>22 DEF CancelSends
  <1>23. ASSUME NEW p \in Proc, NEW t \in Task, CancelArrives(p, t)  PROVE TypeOK'
    <2>1. CentralTypeOK'
      BY CancelType, UnchangedType, <1>23 DEF CancelArrives
    <2>2. ManagerTypeOK'
      <3>1. \E reply \in {"yes", "no"} : uc' = [uc EXCEPT ![p][t] = reply]
        BY <1>23 DEF CancelArrives
      <3> QED  BY <1>23, <3>1 DEF CancelArrives
    <2> QED  BY <2>1, <2>2
  <1>24. ASSUME NEW p \in Proc, NEW t \in Task, CancelRereads(p, t)  PROVE TypeOK'
    BY <1>24 DEF CancelRereads
  <1>25. ASSUME NEW p \in Proc, NEW t \in Task, CancelApplies(p, t)  PROVE TypeOK'
    <2>1. CASE StopWork(p, t, hb[p][t])
      BY <1>25, <2>1 DEF CancelApplies, StopWork, AfterCancel
    <2>2. CASE UNCHANGED handleVars
      BY <1>25, <2>2 DEF CancelApplies
    <2> QED  BY <1>25, <2>1, <2>2 DEF CancelApplies
  <1>26. ASSUME NEW p \in Proc, PollSends(p)  PROVE TypeOK'
    BY <1>26 DEF PollSends
  <1>27. ASSUME NEW p \in Proc, PollEmpty(p)  PROVE TypeOK'
    BY <1>27 DEF PollEmpty
  <1>28. ASSUME NEW p \in Proc, Adopt(p)  PROVE TypeOK'
    BY <1>28 DEF Adopt, Register, NoOffer
  <1>29. ASSUME NEW p \in Proc, AdoptRejected(p)  PROVE TypeOK'
    BY <1>29 DEF AdoptRejected, NoOffer
  <1>30. ASSUME NEW p \in Proc, VersionMismatch(p)  PROVE TypeOK'
    BY <1>30 DEF VersionMismatch, Write
  <1>31. ASSUME NEW p \in Proc, VersionMismatchReturns(p)  PROVE TypeOK'
    BY <1>31 DEF VersionMismatchReturns, NoOffer
  <1>32. ASSUME NEW p \in Proc, ShutdownStarts(p)  PROVE TypeOK'
    BY <1>32 DEF ShutdownStarts
  <1>33. ASSUME NEW p \in Proc, DrainTimesOut(p)  PROVE TypeOK'
    BY <1>33 DEF DrainTimesOut
  <1>34. ASSUME NEW p \in Proc, ShutdownEnds(p)  PROVE TypeOK'
    BY <1>34 DEF ShutdownEnds
  <1>35. ASSUME NEW p \in Proc, Crash(p)  PROVE TypeOK'
    BY <1>35 DEF Crash, NoOffer
  <1>41. ASSUME NEW p \in Proc, NEW t \in DurableTask, PollClaims(p, t)  PROVE TypeOK'
    <2>0. t \in Task
      BY DEF Task
    <2>1. CentralTypeOK'
      BY GrantType, <1>41, <2>0 DEF PollClaims, Claim
    <2>2. ManagerTypeOK'
      <3>1. UNCHANGED <<life, handleVars, sub, uc, wire, finished>>
        BY <1>41 DEF PollClaims
      <3>2. CASE /\ poll' = [poll EXCEPT ![p] = "got"]
                 /\ offer' = [offer EXCEPT ![p] = [task |-> t, epoch |-> NextEpoch(t)]]
        BY <2>0, <3>1, <3>2 DEF NextEpoch
      <3>3. CASE poll' = [poll EXCEPT ![p] = "idle"] /\ UNCHANGED offer
        BY <3>1, <3>3
      <3> QED  BY <1>41, <3>2, <3>3 DEF PollClaims
    <2> QED  BY <2>1, <2>2
  <1>42. ASSUME NEW t \in Task, ApiSubmits(t)  PROVE TypeOK'
    BY CreateType, <1>42 DEF ApiSubmits
  <1>43. ASSUME NEW t \in Task, ApiCancels(t)  PROVE TypeOK'
    BY CancelType, <1>43 DEF ApiCancels
  <1>44. ASSUME NEW t \in Task, Central(t)  PROVE TypeOK'
    BY LapseType, <1>44 DEF Central
  <1>45. ASSUME NEW r \in wire, WriteArrives(r)  PROVE TypeOK'
    BY AcceptType, UnchangedType, <1>45 DEF WriteArrives, RefuseWrite
  <1>46. ASSUME NEW r \in wire, WriteLost(r)  PROVE TypeOK'
    BY UnchangedType, <1>46 DEF WriteLost
  <1>47. CASE UNCHANGED vars
    BY UnchangedType, <1>47 DEF vars
  <1> QED
    BY <1>1, <1>2, <1>3, <1>4, <1>5, <1>6, <1>7, <1>8, <1>9, <1>10, <1>11, <1>12,
       <1>13, <1>14, <1>15, <1>16, <1>17, <1>18, <1>19, <1>20, <1>21, <1>22, <1>23,
       <1>24, <1>25, <1>26, <1>27, <1>28, <1>29, <1>30, <1>31, <1>32, <1>33, <1>34,
       <1>35, <1>41, <1>42, <1>43, <1>44, <1>45, <1>46, <1>47
       DEF Next, Submit, Poll, Return, Run, Heartbeat, Cancel, Shutdown

\* The initial state of the manager and the service is well typed.
LEMMA InitTypeOK == Init => TypeOK
  BY DEF Init, CentralInit, TypeOK, CentralTypeOK, ManagerTypeOK, NoOffer, WorkPhase, Status

\* Every variable keeps its type; in particular poll_once() never fails or adopts
\* a claim it does not hold.
THEOREM TypeCorrect == Spec => []TypeOK
  <1>1. Init => TypeOK
    BY InitTypeOK
  <1>2. TypeOK /\ [Next]_vars => TypeOK'
    BY TypeOKStep
  <1> QED  BY <1>1, <1>2, PTL DEF Spec

-----------------------------------------------------------------------------
(* The lease invariant *)

\* The types the argument needs.

LeaseTypes ==
  /\ hepoch \in [Proc -> [Task -> Nat]]
  /\ work \in [Proc -> [Task -> WorkPhase]]
  /\ sub \in [Proc -> [Task -> {"none", "create", "lease", "leased", "rollback"}]]
  /\ poll \in [Proc -> {"idle", "sent", "got", "failing"}]
  /\ offer \in [Proc -> [task : Task \cup {None}, epoch : Nat]]
  /\ status \in [Task -> Status]
  /\ epoch \in [Task -> Nat]
  /\ granted \subseteq Proc \X Task \X Nat
  /\ wire \subseteq Write
  /\ wrote \subseteq Write
  /\ finished \subseteq Proc \X Task \X Nat

\* A new lease gets an epoch nobody ever had, and no decided task gets one.
LEMMA GrantLease ==
  ASSUME LeaseTypes, LeaseInv, NEW p \in Proc, NEW t \in Task, Grant(p, t)
  PROVE  /\ GrantsAreExclusive'
         /\ WritesAreFinal'
         /\ granted' = granted \cup {<<p, t, epoch[t] + 1>>}
  <1> USE DEF LeaseTypes, LeaseInv, Grant, NextEpoch
  <1>0. granted' = granted \cup {<<p, t, epoch[t] + 1>>} /\ epoch' = [epoch EXCEPT ![t] = epoch[t] + 1]
    OBVIOUS
  <1>1. \A g \in granted' : g[3] # 0 /\ g[3] <= epoch'[g[2]]
    BY <1>0 DEF GrantsAreExclusive
  <1>2. \A g, h \in granted' : g[2] = h[2] /\ g[3] = h[3] => g[1] = h[1]
    BY <1>0 DEF GrantsAreExclusive
  <1>3. WritesAreFinal'
    BY DEF WritesAreFinal, Live, Write
  <1> QED  BY <1>0, <1>1, <1>2, <1>3 DEF GrantsAreExclusive

\* The other operations of the service grant nothing and decide no decided task.
LEMMA QuietLease ==
  ASSUME LeaseTypes, LeaseInv, NEW t \in Task,
         CentralCreate(t) \/ CentralCancel(t) \/ LeaseExpires(t) \/ Reap(t)
  PROVE  /\ UNCHANGED <<epoch, granted, wrote>>
         /\ GrantsAreExclusive'
         /\ WritesAreFinal'
         /\ \A u \in Task : status'[u] = "absent" => epoch[u] = 0
  <1> USE DEF LeaseTypes, LeaseInv
  <1>1. UNCHANGED <<epoch, granted, wrote>>
    BY DEF CentralCreate, CentralCancel, LeaseExpires, Reap
  <1>2. GrantsAreExclusive'
    BY <1>1 DEF GrantsAreExclusive
  <1>3. /\ status[t] \notin Terminal
        /\ \A u \in Task : u # t => status'[u] = status[u]
        /\ status'[t] = "absent" => status[t] = "absent"
    BY DEF CentralCreate, CentralCancel, LeaseExpires, Reap, Live, Terminal
  <1>4. \A r \in wrote : r.task \in Task /\ r.status \in Terminal
    BY DEF Write, Terminal
  <1>5. WritesAreFinal'
    BY <1>1, <1>3, <1>4 DEF WritesAreFinal
  <1> QED  BY <1>1, <1>2, <1>3, <1>5 DEF SubmitsAreFresh

\* A FAILED report carries the epoch of its handle.
LEMMA FailureLease ==
  ASSUME LeaseTypes, LeaseInv, NEW p \in Proc, NEW t \in Task,
         work[p][t] \in Unfinished, ReportFailure(p, t),
         UNCHANGED <<centralVars, hepoch, sub, poll, offer, finished>>
  PROVE  LeaseInv'
  <1> USE DEF LeaseTypes, LeaseInv, centralVars
  <1>1. WritesAreGranted'
    BY DEF ReportFailure, StatusWrite, WritesAreGranted, HandlesAreGranted, Write
  <1>2. HandlesAreGranted'
    BY DEF ReportFailure, HandlesAreGranted
  <1>3. SubmitsAreFresh'
    BY DEF ReportFailure, SubmitsAreFresh
  <1> QED  BY <1>1, <1>2, <1>3 DEF ReportFailure, GrantsAreExclusive, OffersAreGranted, WritesAreFinal

\* Stopping a coroutine never revives one.
LEMMA StopLease ==
  ASSUME LeaseTypes, LeaseInv, NEW p \in Proc, NEW t \in Task, NEW h, StopWork(p, t, h),
         UNCHANGED <<centralVars, sub, poll, offer, wire, finished>>
  PROVE  LeaseInv'
  <1> USE DEF LeaseTypes, LeaseInv, centralVars
  <1>1. PICK w \in AfterCancel(work[p][t]) : work' = [work EXCEPT ![p][t] = w]
    BY DEF StopWork
  <1>2. w \in Unfinished => work[p][t] \in Unfinished
    BY DEF AfterCancel, Unfinished, WorkPhase
  <1>3. HandlesAreGranted'
    BY <1>1, <1>2 DEF StopWork, HandlesAreGranted
  <1>4. SubmitsAreFresh'
    BY <1>1, <1>2 DEF SubmitsAreFresh
  <1> QED  BY <1>3, <1>4 DEF StopWork, GrantsAreExclusive, OffersAreGranted, WritesAreGranted, WritesAreFinal
\* Neither does the drain of shutdown().
LEMMA DrainLease ==
  ASSUME LeaseTypes, NEW p \in Proc, DrainTimesOut(p)
  PROVE  \A q \in Proc, u \in Task : work'[q][u] \in Unfinished => work[q][u] \in Unfinished
  BY DEF LeaseTypes, DrainTimesOut, Pending

\* Every step of the system keeps the lease invariant.
LEMMA LeaseInvStep == LeaseTypes /\ LeaseInv /\ [Next]_vars => LeaseInv'
  <1> SUFFICES ASSUME LeaseTypes, LeaseInv, [Next]_vars  PROVE LeaseInv'
    OBVIOUS
  <1> USE CentralAssumption DEF LeaseTypes, LeaseInv, GrantsAreExclusive, HandlesAreGranted, OffersAreGranted, WritesAreGranted,
      WritesAreFinal, SubmitsAreFresh, WorkPhase, Unfinished, Write, centralVars, handleVars, callVars
  <1>1. ASSUME NEW p \in Proc, NEW t \in Task, SubmitStarts(p, t)  PROVE LeaseInv'
    <2>1. epoch[t] = 0
      BY <1>1 DEF SubmitStarts
    <2>2. hepoch[p][t] = 0
      <3> SUFFICES ASSUME hepoch[p][t] # 0  PROVE FALSE
        OBVIOUS
      <3>1. <<p, t, hepoch[p][t]>> \in granted
        OBVIOUS
      <3> QED  BY <2>1, <3>1
    <2>3. work[p][t] \notin Unfinished /\ p \in Inline
      BY <1>1, <2>2 DEF SubmitStarts
    <2>4. sub' = [sub EXCEPT ![p][t] = "create"]
      BY <1>1 DEF SubmitStarts
    <2>5. UNCHANGED <<centralVars, hepoch, work, poll, offer, wire, finished>>
      BY <1>1 DEF SubmitStarts
    <2> QED  BY <2>3, <2>4, <2>5
  <1>2. ASSUME NEW p \in Proc, NEW t \in Task, SubmitCreated(p, t)  PROVE LeaseInv'
    BY QuietLease, <1>2 DEF SubmitCreated
  <1>3. ASSUME NEW p \in Proc, NEW t \in Task, SubmitCreateFails(p, t)  PROVE LeaseInv'
    BY <1>3 DEF SubmitCreateFails
  <1>4. ASSUME NEW p \in Proc, NEW t \in Task, SubmitLeased(p, t)  PROVE LeaseInv'
    <2>1. UNCHANGED <<work, poll, offer, wire, finished, wrote>> /\ Grant(p, t)
      BY <1>4 DEF SubmitLeased, Grant
    <2>2. OffersAreGranted' /\ WritesAreGranted'
      BY GrantLease, <2>1 DEF OffersAreGranted, WritesAreGranted
    <2>3. SubmitsAreFresh'
      <3>1. \A u \in Task : status'[u] = "absent" => u # t /\ status[u] = "absent" /\ epoch'[u] = epoch[u]
        BY <2>1 DEF Grant
      <3>2. sub[p][t] # "none" /\ \A q \in Proc, u \in Task : sub'[q][u] # "none" => sub[q][u] # "none"
        <4>1. \E next \in {"leased", "rollback"} : sub' = [sub EXCEPT ![p][t] = next]
          BY <1>4 DEF SubmitLeased
        <4>2. sub[p][t] = "lease"
          BY <1>4 DEF SubmitLeased
        <4> QED  BY <4>1, <4>2
      <3> QED  BY <2>1, <3>1, <3>2
    <2>4. CASE /\ sub' = [sub EXCEPT ![p][t] = "leased"]
               /\ hepoch' = [hepoch EXCEPT ![p][t] = NextEpoch(t)]
      BY GrantLease, <2>1, <2>2, <2>3, <2>4 DEF NextEpoch, HandlesAreGranted
    <2>5. CASE sub' = [sub EXCEPT ![p][t] = "rollback"] /\ UNCHANGED hepoch
      BY GrantLease, <2>1, <2>2, <2>3, <2>5 DEF HandlesAreGranted
    <2> QED  BY <1>4, <2>4, <2>5 DEF SubmitLeased
  <1>5. ASSUME NEW p \in Proc, NEW t \in Task, SubmitLeaseFails(p, t)  PROVE LeaseInv'
    BY <1>5 DEF SubmitLeaseFails
  <1>6. ASSUME NEW p \in Proc, NEW t \in Task, SubmitRegisters(p, t)  PROVE LeaseInv'
    <2>1. CASE Register(p, t, hepoch[p][t]) /\ sub' = [sub EXCEPT ![p][t] = "none"]
      BY <1>6, <2>1 DEF SubmitRegisters, Register
    <2>2. CASE UNCHANGED handleVars /\ sub' = [sub EXCEPT ![p][t] = "rollback"]
      BY <1>6, <2>2 DEF SubmitRegisters
    <2> QED  BY <1>6, <2>1, <2>2 DEF SubmitRegisters
  <1>7. ASSUME NEW p \in Proc, NEW t \in Task, SubmitRollsBack(p, t)  PROVE LeaseInv'
    BY QuietLease, <1>7 DEF SubmitRollsBack
  <1>8. ASSUME NEW p \in Proc, NEW t \in Task, WorkStarts(p, t)  PROVE LeaseInv'
    BY <1>8 DEF WorkStarts
  <1>9. ASSUME NEW p \in Proc, NEW t \in Task, WorkAdmitted(p, t)  PROVE LeaseInv'
    BY <1>9 DEF WorkAdmitted
  <1>10. ASSUME NEW p \in Proc, NEW t \in Task, ExecSucceeds(p, t)  PROVE LeaseInv'
    <2>1. <<p, t, hepoch[p][t]>> \in granted
      BY <1>10 DEF ExecSucceeds
    <2>2. CASE EnterFinally(p, t)
      BY <1>10, <2>1, <2>2 DEF ExecSucceeds, EnterFinally
    <2>3. CASE /\ work' = [work EXCEPT ![p][t] = "sendS"]
               /\ wire' = wire \cup {StatusWrite(p, t, "SUCCEEDED")}
      BY <1>10, <2>1, <2>3 DEF ExecSucceeds, StatusWrite
    <2> QED  BY <1>10, <2>2, <2>3 DEF ExecSucceeds
  <1>11. ASSUME NEW p \in Proc, NEW t \in Task, ExecPartial(p, t)  PROVE LeaseInv'
    <2>1. CASE EnterFinally(p, t)
      BY <1>11, <2>1 DEF ExecPartial, EnterFinally
    <2>2. CASE ReportFailure(p, t)
      BY FailureLease, <1>11, <2>2 DEF ExecPartial
    <2> QED  BY <1>11, <2>1, <2>2 DEF ExecPartial
  <1>12. ASSUME NEW p \in Proc, NEW t \in Task, ExecRaises(p, t)  PROVE LeaseInv'
    BY FailureLease, <1>12 DEF ExecRaises
  <1>13. ASSUME NEW p \in Proc, NEW t \in Task, ExecCheckpointUnavailable(p, t)  PROVE LeaseInv'
    BY <1>13 DEF ExecCheckpointUnavailable, EnterFinally
  <1>14. ASSUME NEW p \in Proc, NEW t \in Task, DeadlineFires(p, t)  PROVE LeaseInv'
    <2>1. CASE ReportFailure(p, t)
      BY FailureLease, <1>14, <2>1 DEF DeadlineFires
    <2>2. CASE UNCHANGED <<stop, work, hb, wire>>
      BY <1>14, <2>2 DEF DeadlineFires
    <2> QED  BY <1>14, <2>1, <2>2 DEF DeadlineFires
  <1>15. ASSUME NEW p \in Proc, NEW t \in Task, SuccessAcknowledged(p, t)  PROVE LeaseInv'
    BY <1>15 DEF SuccessAcknowledged, EnterFinally
  <1>16. ASSUME NEW p \in Proc, NEW t \in Task, SuccessUnacknowledged(p, t)  PROVE LeaseInv'
    BY FailureLease, <1>16 DEF SuccessUnacknowledged
  <1>17. ASSUME NEW p \in Proc, NEW t \in Task, FailureReported(p, t)  PROVE LeaseInv'
    BY <1>17 DEF FailureReported, EnterFinally
  <1>18. ASSUME NEW p \in Proc, NEW t \in Task, Unregister(p, t)  PROVE LeaseInv'
    BY <1>18 DEF Unregister
  <1>19. ASSUME NEW p \in Proc, NEW t \in Task, HeartbeatEnds(p, t)  PROVE LeaseInv'
    BY <1>19 DEF HeartbeatEnds
  <1>20. ASSUME NEW p \in Proc, NEW t \in Task, HeartbeatLosesLease(p, t)  PROVE LeaseInv'
    BY StopLease, <1>20 DEF HeartbeatLosesLease
  <1>21. ASSUME NEW p \in Proc, NEW t \in Task, HeartbeatFails(p, t)  PROVE LeaseInv'
    <2>1. CASE StopWork(p, t, "off")
      BY StopLease, <1>21, <2>1 DEF HeartbeatFails
    <2>2. CASE UNCHANGED <<handles, hepoch, stop, late, work>>
      BY <1>21, <2>2 DEF HeartbeatFails
    <2> QED  BY <1>21, <2>1, <2>2 DEF HeartbeatFails
  <1>22. ASSUME NEW p \in Proc, NEW t \in Task, CancelSends(p, t)  PROVE LeaseInv'
    BY <1>22 DEF CancelSends
  <1>23. ASSUME NEW p \in Proc, NEW t \in Task, CancelArrives(p, t)  PROVE LeaseInv'
    BY QuietLease, <1>23 DEF CancelArrives
  <1>24. ASSUME NEW p \in Proc, NEW t \in Task, CancelRereads(p, t)  PROVE LeaseInv'
    BY <1>24 DEF CancelRereads
  <1>25. ASSUME NEW p \in Proc, NEW t \in Task, CancelApplies(p, t)  PROVE LeaseInv'
    <2>1. CASE StopWork(p, t, hb[p][t])
      BY StopLease, <1>25, <2>1 DEF CancelApplies
    <2>2. CASE UNCHANGED handleVars
      BY <1>25, <2>2 DEF CancelApplies
    <2> QED  BY <1>25, <2>1, <2>2 DEF CancelApplies
  <1>26. ASSUME NEW p \in Proc, PollSends(p)  PROVE LeaseInv'
    BY <1>26 DEF PollSends
  <1>27. ASSUME NEW p \in Proc, PollEmpty(p)  PROVE LeaseInv'
    BY <1>27 DEF PollEmpty
  <1>28. ASSUME NEW p \in Proc, Adopt(p)  PROVE LeaseInv'
    BY <1>28 DEF Adopt, Register, NoOffer
  <1>29. ASSUME NEW p \in Proc, AdoptRejected(p)  PROVE LeaseInv'
    BY <1>29 DEF AdoptRejected, NoOffer
  <1>30. ASSUME NEW p \in Proc, VersionMismatch(p)  PROVE LeaseInv'
    BY <1>30 DEF VersionMismatch
  <1>31. ASSUME NEW p \in Proc, VersionMismatchReturns(p)  PROVE LeaseInv'
    BY <1>31 DEF VersionMismatchReturns, NoOffer
  <1>32. ASSUME NEW p \in Proc, ShutdownStarts(p)  PROVE LeaseInv'
    BY <1>32 DEF ShutdownStarts
  <1>33. ASSUME NEW p \in Proc, DrainTimesOut(p)  PROVE LeaseInv'
    <2>1. \A q \in Proc, u \in Task : work'[q][u] \in Unfinished => work[q][u] \in Unfinished
      BY DrainLease, <1>33
    <2> QED  BY <1>33, <2>1 DEF DrainTimesOut
  <1>34. ASSUME NEW p \in Proc, ShutdownEnds(p)  PROVE LeaseInv'
    BY <1>34 DEF ShutdownEnds
  <1>35. ASSUME NEW p \in Proc, Crash(p)  PROVE LeaseInv'
    BY <1>35 DEF Crash, NoOffer
  <1>41. ASSUME NEW p \in Proc, NEW t \in DurableTask, PollClaims(p, t)  PROVE LeaseInv'
    <2>0. t \in Task
      BY DEF Task
    <2>1. UNCHANGED <<hepoch, work, sub, wire, finished, wrote>> /\ Grant(p, t)
      BY <1>41 DEF PollClaims, Claim, Grant
    <2>2. HandlesAreGranted' /\ WritesAreGranted'
      BY GrantLease, <2>0, <2>1
    <2>3. SubmitsAreFresh'
      BY <1>41, <2>0, <2>1 DEF PollClaims, Grant
    <2>4. CASE offer' = [offer EXCEPT ![p] = [task |-> t, epoch |-> NextEpoch(t)]] /\ poll' = [poll EXCEPT ![p] = "got"]
      <3>1. GrantsAreExclusive' /\ WritesAreFinal' /\ granted' = granted \cup {<<p, t, epoch[t] + 1>>}
        BY GrantLease, <2>0, <2>1
      <3>2. OffersAreGranted'
        BY <2>0, <2>4, <3>1 DEF NextEpoch
      <3> QED  BY <2>2, <2>3, <3>1, <3>2
    <2>5. CASE poll' = [poll EXCEPT ![p] = "idle"] /\ UNCHANGED offer
      BY GrantLease, <2>0, <2>1, <2>2, <2>3, <2>5
    <2> QED  BY <1>41, <2>4, <2>5 DEF PollClaims
  <1>42. ASSUME NEW t \in Task, ApiSubmits(t)  PROVE LeaseInv'
    BY QuietLease, <1>42 DEF ApiSubmits
  <1>43. ASSUME NEW t \in Task, ApiCancels(t)  PROVE LeaseInv'
    BY QuietLease, <1>43 DEF ApiCancels
  <1>44. ASSUME NEW t \in Task, Central(t)  PROVE LeaseInv'
    BY QuietLease, <1>44 DEF Central
  <1>45. ASSUME NEW r \in wire, WriteArrives(r)  PROVE LeaseInv'
    <2>1. CASE RefuseWrite(r)
      BY <1>45, <2>1 DEF WriteArrives, RefuseWrite
    <2>2. CASE AcceptWrite(r)
      <3>1. /\ status' = [status EXCEPT ![r.task] = r.status]
            /\ wrote' = wrote \cup {r}
            /\ UNCHANGED <<epoch, granted, hepoch, work, sub, poll, offer, finished>>
            /\ wire' = wire \ {r}
        BY <1>45, <2>2 DEF WriteArrives, AcceptWrite
      <3>2. status[r.task] \in {"PENDING", "RUNNING"} /\ r.epoch = epoch[r.task]
        BY <2>2 DEF AcceptWrite, Fenced, HoldsLease, Live
      <3>3. r \in Write /\ r.task \in Task /\ r.status \in {"SUCCEEDED", "FAILED"}
        OBVIOUS
      <3>4. WritesAreFinal'
        BY <3>1, <3>2, <3>3
      <3> QED  BY <3>1, <3>3, <3>4
    <2> QED  BY <1>45, <2>1, <2>2 DEF WriteArrives
  <1>46. ASSUME NEW r \in wire, WriteLost(r)  PROVE LeaseInv'
    BY <1>46 DEF WriteLost
  <1>47. CASE UNCHANGED vars
    BY <1>47 DEF vars
  <1> QED
    BY <1>1, <1>2, <1>3, <1>4, <1>5, <1>6, <1>7, <1>8, <1>9, <1>10, <1>11, <1>12,
       <1>13, <1>14, <1>15, <1>16, <1>17, <1>18, <1>19, <1>20, <1>21, <1>22, <1>23,
       <1>24, <1>25, <1>26, <1>27, <1>28, <1>29, <1>30, <1>31, <1>32, <1>33, <1>34,
       <1>35, <1>41, <1>42, <1>43, <1>44, <1>45, <1>46, <1>47
       DEF Next, Submit, Poll, Return, Run, Heartbeat, Cancel, Shutdown

\* Nothing is leased in the initial state.
LEMMA InitLeaseInv == Init => LeaseInv
  BY DEF Init, CentralInit, LeaseInv, GrantsAreExclusive, HandlesAreGranted, OffersAreGranted,
         WritesAreGranted, WritesAreFinal, SubmitsAreFresh, Unfinished, WorkPhase, NoOffer

\* The types of the lease argument are part of the type invariant.
LEMMA TypeOKLeaseTypes == TypeOK => LeaseTypes
  BY DEF TypeOK, CentralTypeOK, ManagerTypeOK, LeaseTypes

\* The lease invariant holds in every reachable state, for any number of processes
\* and tasks: the epochs of submit(), poll_once(), the handles and the status
\* writes are all granted ones.
THEOREM LeaseInvariant == Spec => []LeaseInv
  <1>1. Init => LeaseInv
    BY InitLeaseInv
  <1>2. TypeOK /\ LeaseInv /\ [Next]_vars => LeaseInv'
    BY TypeOKLeaseTypes, LeaseInvStep
  <1> QED  BY <1>1, <1>2, TypeCorrect, PTL DEF Spec

\* Two processes never hold handles of one task under the same lease epoch.
THEOREM EpochExclusion == Spec => []EpochsAreExclusive
  <1>1. TypeOK /\ LeaseInv => EpochsAreExclusive
    <2> SUFFICES ASSUME TypeOK, LeaseInv, NEW p \in Proc, NEW q \in Proc, NEW t \in Task,
                        p # q, hepoch[p][t] # 0, hepoch[p][t] = hepoch[q][t]
                 PROVE  FALSE
      BY DEF EpochsAreExclusive
    <2>1. <<p, t, hepoch[p][t]>> \in granted /\ <<q, t, hepoch[p][t]>> \in granted
      BY DEF LeaseInv, HandlesAreGranted
    <2> QED  BY <2>1 DEF LeaseInv, GrantsAreExclusive
  <1> QED  BY <1>1, TypeCorrect, LeaseInvariant, PTL

\* A recorded SUCCEEDED belongs to a completed execution under the latest epoch.
THEOREM EarnedSuccess == Spec => []SuccessIsEarned
  <1>1. LeaseInv => SuccessIsEarned
    BY DEF LeaseInv, WritesAreGranted, WritesAreFinal, SuccessIsEarned
  <1> QED  BY <1>1, LeaseInvariant, PTL

-----------------------------------------------------------------------------
(* The registry *)

\* What a step may do to a coroutine: it moves one that runs, or registers a new
\* one in a process that accepts work.
LEMMA RegistryStep == TypeOK /\ RegistryTracksWork /\ [Next]_vars => RegistryTracksWork'
  <1> SUFFICES ASSUME TypeOK, RegistryTracksWork, [Next]_vars  PROVE RegistryTracksWork'
    OBVIOUS
  <1>0. /\ work \in [Proc -> [Task -> WorkPhase]]
        /\ handles \in [Proc -> SUBSET Task]
        /\ life \in [Proc -> {"up", "draining", "cancelling", "down", "crashed"}]
    BY DEF TypeOK, ManagerTypeOK
  <1> USE <1>0 DEF RegistryTracksWork, Running
  <1>1. ASSUME UNCHANGED <<life, handles, work>>  PROVE RegistryTracksWork'
    BY <1>1
  <1>2. ASSUME NEW p \in Proc, NEW t \in Task, NEW w, work[p][t] \in Unfinished \/ w \notin Unfinished,
               work' = [work EXCEPT ![p][t] = w], UNCHANGED <<life, handles>>
        PROVE  RegistryTracksWork'
    BY <1>2
  <1>3. ASSUME NEW p \in Proc, NEW t \in Task, NEW h, StopWork(p, t, h), UNCHANGED life
        PROVE  RegistryTracksWork'
    <2>1. PICK w \in AfterCancel(work[p][t]) : work' = [work EXCEPT ![p][t] = w]
      BY <1>3 DEF StopWork
    <2>2. work[p][t] \in Unfinished \/ w \notin Unfinished
      BY DEF AfterCancel, Unfinished, WorkPhase
    <2> QED  BY <1>2, <1>3, <2>1, <2>2 DEF StopWork
  <1>4. ASSUME NEW p \in Proc, NEW t \in Task, NEW e, Register(p, t, e), life[p] = "up", UNCHANGED life
        PROVE  RegistryTracksWork'
    BY <1>4 DEF Register
  <1>5. ASSUME NEW p \in Proc, NEW t \in Task, Submit(p, t)  PROVE RegistryTracksWork'
    <2>1. CASE SubmitRegisters(p, t)
      BY <1>1, <1>4, <2>1 DEF SubmitRegisters, MayRegister, _closing, handleVars
    <2>2. CASE Submit(p, t) /\ ~SubmitRegisters(p, t)
      BY <1>1, <2>2 DEF Submit, SubmitStarts, SubmitCreated, SubmitCreateFails, SubmitLeased,
                        SubmitLeaseFails, SubmitRollsBack, handleVars
    <2> QED  BY <1>5, <2>1, <2>2
  <1>6. ASSUME NEW p \in Proc, Poll(p)  PROVE RegistryTracksWork'
    <2>1. CASE Adopt(p)
      BY <1>4, <2>1 DEF Adopt, _closing, TypeOK, ManagerTypeOK
    <2>2. CASE Poll(p) /\ ~Adopt(p)
      BY <1>1, <2>2 DEF Poll, PollSends, PollEmpty, PollClaims, AdoptRejected, VersionMismatch,
                        VersionMismatchReturns, handleVars
    <2> QED  BY <1>6, <2>1, <2>2
  <1>7. ASSUME NEW p \in Proc, NEW t \in Task, Run(p, t)  PROVE RegistryTracksWork'
    <2>1. CASE Unregister(p, t)
      BY <2>1 DEF Unregister, Unfinished, WorkPhase
    <2>2. CASE Run(p, t) /\ ~Unregister(p, t)
      <3>1. UNCHANGED <<life, handles>> /\ work[p][t] \in Unfinished
        BY <2>2 DEF Run, Return, WorkStarts, WorkAdmitted, ExecSucceeds, ExecPartial, ExecRaises,
             ExecCheckpointUnavailable, DeadlineFires, SuccessAcknowledged, SuccessUnacknowledged,
             FailureReported, Unfinished, WorkPhase
      <3>2. (\E w \in WorkPhase : work' = [work EXCEPT ![p][t] = w]) \/ UNCHANGED work
        BY <2>2 DEF Run, Return, WorkStarts, WorkAdmitted, ExecSucceeds, ExecPartial, ExecRaises,
             ExecCheckpointUnavailable, DeadlineFires, SuccessAcknowledged, SuccessUnacknowledged,
             FailureReported, EnterFinally, ReportFailure, WorkPhase
      <3> QED  BY <1>1, <1>2, <3>1, <3>2
    <2> QED  BY <1>7, <2>1, <2>2
  <1>8. ASSUME NEW p \in Proc, NEW t \in Task, Heartbeat(p, t)  PROVE RegistryTracksWork'
    BY <1>1, <1>3, <1>8 DEF Heartbeat, HeartbeatEnds, HeartbeatLosesLease, HeartbeatFails
  <1>9. ASSUME NEW p \in Proc, NEW t \in Task, Cancel(p, t)  PROVE RegistryTracksWork'
    BY <1>1, <1>3, <1>9 DEF Cancel, CancelSends, CancelArrives, CancelRereads, CancelApplies, handleVars
  <1>10. ASSUME NEW p \in Proc, Shutdown(p)  PROVE RegistryTracksWork'
    <2>1. CASE ShutdownStarts(p)
      BY <2>1 DEF ShutdownStarts, handleVars
    <2>2. CASE DrainTimesOut(p)
      BY <2>2 DEF DrainTimesOut, Pending
    <2>3. CASE ShutdownEnds(p)
      BY <2>3 DEF ShutdownEnds, Pending, Unfinished
    <2> QED  BY <1>10, <2>1, <2>2, <2>3 DEF Shutdown
  <1>11. ASSUME NEW p \in Proc, Crash(p)  PROVE RegistryTracksWork'
    BY <1>11 DEF Crash, Unfinished
  <1>12. ASSUME NEW t \in Task, ApiSubmits(t) \/ ApiCancels(t) \/ Central(t)  PROVE RegistryTracksWork'
    BY <1>1, <1>12 DEF ApiSubmits, ApiCancels, Central, handleVars
  <1>13. ASSUME NEW r \in wire, WriteArrives(r) \/ WriteLost(r)  PROVE RegistryTracksWork'
    BY <1>1, <1>13 DEF WriteArrives, WriteLost, handleVars
  <1>14. CASE UNCHANGED vars
    BY <1>1, <1>14 DEF vars, handleVars
  <1> QED
    BY <1>5, <1>6, <1>7, <1>8, <1>9, <1>10, <1>11, <1>12, <1>13, <1>14 DEF Next

\* No coroutine of _run escapes the registry of its process, and none outlives it.
THEOREM RegistryComplete == Spec => []RegistryTracksWork
  <1>1. Init => RegistryTracksWork
    BY DEF Init, RegistryTracksWork, Unfinished
  <1> QED  BY <1>1, RegistryStep, TypeCorrect, PTL DEF Spec

-----------------------------------------------------------------------------
(* The heartbeat *)

\* LeaseIsWatched for one execution, after a step.
WatchedNext(p, t) ==
  /\ work'[p][t] \in Watched => hb'[p][t] = "on" \/ stop'[p][t]
  /\ hb'[p][t] = "on" => work'[p][t] \in Watched

\* Every step keeps it.  The end of a drain needs the registry: shutdown() waits for
\* the handles it finds there, and a watched execution without one would be left behind.
LEMMA WatchStep == TypeOK /\ RegistryTracksWork /\ LeaseIsWatched /\ [Next]_vars => LeaseIsWatched'
  <1> SUFFICES ASSUME TypeOK, RegistryTracksWork, LeaseIsWatched, [Next]_vars
               PROVE  LeaseIsWatched'
    OBVIOUS
  <1>0. /\ work \in [Proc -> [Task -> WorkPhase]]
        /\ hb \in [Proc -> [Task -> {"off", "on"}]]
        /\ stop \in [Proc -> [Task -> BOOLEAN]]
    BY DEF TypeOK, ManagerTypeOK
  <1>w. \A q \in Proc, u \in Task :
          /\ work[q][u] \in Watched => hb[q][u] = "on" \/ stop[q][u]
          /\ hb[q][u] = "on" => work[q][u] \in Watched
    BY DEF LeaseIsWatched
  <1> USE <1>0
  <1>1. ASSUME UNCHANGED <<stop, work, hb>>  PROVE LeaseIsWatched'
    BY <1>1, <1>w DEF LeaseIsWatched
  <1>2. ASSUME NEW p \in Proc, NEW t \in Task, WatchedNext(p, t),
               \A q \in Proc, u \in Task : ~(q = p /\ u = t) =>
                 stop'[q][u] = stop[q][u] /\ work'[q][u] = work[q][u] /\ hb'[q][u] = hb[q][u]
        PROVE  LeaseIsWatched'
    BY <1>2, <1>w DEF LeaseIsWatched, WatchedNext
  <1>3. ASSUME NEW p \in Proc, NEW t \in Task, NEW h \in {"off", hb[p][t]}, StopWork(p, t, h)
        PROVE  LeaseIsWatched'
    <2>1. PICK w \in AfterCancel(work[p][t]) :
            /\ work' = [work EXCEPT ![p][t] = w]
            /\ hb' = [hb EXCEPT ![p][t] = IF w = "executing" THEN h ELSE "off"]
      BY <1>3 DEF StopWork
    <2>2. stop' = [stop EXCEPT ![p][t] = TRUE]
      BY <1>3 DEF StopWork
    <2>3. WatchedNext(p, t)
      BY <2>1, <2>2 DEF WatchedNext, Watched
    <2> QED  BY <1>2, <2>1, <2>2, <2>3
  <1>4. ASSUME NEW p \in Proc, NEW t \in Task, NEW e, Register(p, t, e)  PROVE LeaseIsWatched'
    <2>1. WatchedNext(p, t)
      BY <1>4 DEF Register, WatchedNext, Watched
    <2> QED  BY <1>2, <1>4, <2>1 DEF Register
  <1>5. ASSUME NEW p \in Proc, NEW t \in Task, Submit(p, t)  PROVE LeaseIsWatched'
    BY <1>1, <1>4, <1>5 DEF Submit, SubmitStarts, SubmitCreated, SubmitCreateFails, SubmitLeased,
                        SubmitLeaseFails, SubmitRegisters, SubmitRollsBack, handleVars
  <1>6. ASSUME NEW p \in Proc, Poll(p)  PROVE LeaseIsWatched'
    <2>1. CASE Adopt(p)
      BY <1>4, <2>1 DEF Adopt, TypeOK, ManagerTypeOK
    <2>2. CASE Poll(p) /\ ~Adopt(p)
      BY <1>1, <2>2 DEF Poll, PollSends, PollEmpty, PollClaims, AdoptRejected, VersionMismatch,
                        VersionMismatchReturns, handleVars
    <2> QED  BY <1>6, <2>1, <2>2
  <1>7. ASSUME NEW p \in Proc, NEW t \in Task, Run(p, t)  PROVE LeaseIsWatched'
    <2>1. \A q \in Proc, u \in Task : ~(q = p /\ u = t) =>
            stop'[q][u] = stop[q][u] /\ work'[q][u] = work[q][u] /\ hb'[q][u] = hb[q][u]
      BY <1>7 DEF Run, Return, WorkStarts, WorkAdmitted, ExecSucceeds, ExecPartial, ExecRaises,
                  ExecCheckpointUnavailable, DeadlineFires, SuccessAcknowledged,
                  SuccessUnacknowledged, FailureReported, Unregister, EnterFinally, ReportFailure
    <2> SUFFICES WatchedNext(p, t)
      BY <1>2, <2>1
    <2>2. ASSUME EnterFinally(p, t)  PROVE WatchedNext(p, t)
      BY <2>2 DEF EnterFinally, WatchedNext, Watched
    <2>3. ASSUME work[p][t] \in Watched, ReportFailure(p, t), stop[p][t] => stop'[p][t]
          PROVE  WatchedNext(p, t)
      BY <1>w, <2>3 DEF ReportFailure, WatchedNext, Watched
    <2>4. CASE WorkStarts(p, t)
      BY <2>4 DEF WorkStarts, WatchedNext, Watched
    <2>9. CASE WorkAdmitted(p, t)
      <3>1. work[p][t] \in Watched /\ work'[p][t] \in Watched /\ UNCHANGED <<stop, hb>>
        BY <2>9 DEF WorkAdmitted, Watched
      <3> QED  BY <1>w, <3>1 DEF WatchedNext
    <2>10. CASE Unregister(p, t)
      <3>1. work[p][t] \notin Watched /\ work'[p][t] \notin Watched /\ UNCHANGED hb
        BY <2>10 DEF Unregister, Watched
      <3> QED  BY <1>w, <3>1 DEF WatchedNext
    <2>5. CASE ExecSucceeds(p, t)
      BY <1>w, <2>2, <2>5 DEF ExecSucceeds, WatchedNext, Watched
    <2>6. CASE ExecPartial(p, t) \/ ExecRaises(p, t) \/ ExecCheckpointUnavailable(p, t)
      BY <2>2, <2>3, <2>6 DEF ExecPartial, ExecRaises, ExecCheckpointUnavailable, Watched
    <2>7. CASE DeadlineFires(p, t)
      <3>1. CASE /\ stop' = [stop EXCEPT ![p][t] = TRUE]
                 /\ ReportFailure(p, t)
        BY <2>3, <2>7, <3>1 DEF DeadlineFires, Watched
      <3>2. CASE UNCHANGED <<stop, work, hb>>
        BY <1>w, <3>2 DEF WatchedNext
      <3> QED  BY <2>7, <3>1, <3>2 DEF DeadlineFires
    <2>8. CASE SuccessAcknowledged(p, t) \/ SuccessUnacknowledged(p, t) \/ FailureReported(p, t)
      BY <2>2, <2>3, <2>8 DEF SuccessAcknowledged, SuccessUnacknowledged, FailureReported, Watched
    <2> QED  BY <1>7, <2>4, <2>5, <2>6, <2>7, <2>8, <2>9, <2>10 DEF Run, Return
  <1>8. ASSUME NEW p \in Proc, NEW t \in Task, Heartbeat(p, t)  PROVE LeaseIsWatched'
    <2>1. CASE stop[p][t] /\ hb' = [hb EXCEPT ![p][t] = "off"] /\ UNCHANGED <<stop, work>>
      <3>1. WatchedNext(p, t)
        BY <2>1 DEF WatchedNext
      <3> QED  BY <1>2, <2>1, <3>1
    <2>2. CASE StopWork(p, t, "off")
      BY <1>3, <2>2
    <2> QED  BY <1>8, <2>1, <2>2 DEF Heartbeat, HeartbeatEnds, HeartbeatLosesLease, HeartbeatFails
  <1>9. ASSUME NEW p \in Proc, NEW t \in Task, Cancel(p, t)  PROVE LeaseIsWatched'
    BY <1>1, <1>3, <1>9 DEF Cancel, CancelSends, CancelArrives, CancelRereads, CancelApplies, handleVars
  <1>10. \A q \in Proc, u \in Task : work[q][u] \in Watched => u \in Pending(q)
    BY DEF RegistryTracksWork, Pending, Watched, Unfinished, WorkPhase
  <1>11. ASSUME NEW p \in Proc, Shutdown(p)  PROVE LeaseIsWatched'
    <2>1. CASE ShutdownStarts(p)
      BY <1>1, <2>1 DEF ShutdownStarts, handleVars
    <2>2. CASE DrainTimesOut(p)
      <3>1. PICK S \in SUBSET Executing(p) :
              /\ work' = [work EXCEPT ![p] = [t \in Task |->
                    IF t \notin Pending(p) \/ t \in S THEN work[p][t]
                    ELSE IF work[p][t] \in {"new", "finally"} THEN "dead" ELSE "finally"]]
              /\ hb' = [hb EXCEPT ![p] = [t \in Task |-> IF t \in S THEN hb[p][t] ELSE "off"]]
        BY <2>2 DEF DrainTimesOut
      <3>2. stop' = [stop EXCEPT ![p] = [t \in Task |-> stop[p][t] \/ t \in Pending(p)]]
        BY <2>2 DEF DrainTimesOut
      <3>3. ASSUME NEW u \in Task  PROVE WatchedNext(p, u)
        <4>1. CASE u \in S
          BY <1>w, <3>1, <3>2, <4>1 DEF WatchedNext
        <4>2. CASE u \notin S
          BY <1>10, <3>1, <3>2, <4>2 DEF WatchedNext, Watched
        <4> QED  BY <4>1, <4>2
      <3>4. ASSUME NEW q \in Proc, q # p, NEW u \in Task  PROVE WatchedNext(q, u)
        BY <1>w, <3>1, <3>2, <3>4 DEF WatchedNext
      <3> QED  BY <3>3, <3>4 DEF LeaseIsWatched, WatchedNext
    <2>3. CASE ShutdownEnds(p)
      <3>1. \A u \in Task : hb[p][u] # "on"
        BY <1>w, <1>10, <2>3 DEF ShutdownEnds
      <3> QED  BY <1>w, <2>3, <3>1 DEF ShutdownEnds, LeaseIsWatched, Watched
    <2> QED  BY <1>11, <2>1, <2>2, <2>3 DEF Shutdown
  <1>12. ASSUME NEW p \in Proc, Crash(p)  PROVE LeaseIsWatched'
    BY <1>w, <1>12 DEF Crash, LeaseIsWatched, Watched
  <1>13. ASSUME NEW t \in Task, ApiSubmits(t) \/ ApiCancels(t) \/ Central(t)  PROVE LeaseIsWatched'
    BY <1>1, <1>13 DEF ApiSubmits, ApiCancels, Central, handleVars
  <1>14. ASSUME NEW r \in wire, WriteArrives(r) \/ WriteLost(r)  PROVE LeaseIsWatched'
    BY <1>1, <1>14 DEF WriteArrives, WriteLost, handleVars
  <1>15. CASE UNCHANGED vars
    BY <1>1, <1>15 DEF vars, handleVars
  <1> QED
    BY <1>5, <1>6, <1>7, <1>8, <1>9, <1>11, <1>12, <1>13, <1>14, <1>15 DEF Next

\* No execution goes on unwatched without having been told to stop, and no heartbeat
\* outlives its execution, through crashes, drains, cancels and failing heartbeats.
THEOREM LeaseWatched == Spec => []LeaseIsWatched
  <1>1. Init => LeaseIsWatched
    BY DEF Init, LeaseIsWatched, Watched
  <1> QED  BY <1>1, WatchStep, TypeCorrect, RegistryComplete, PTL DEF Spec

-----------------------------------------------------------------------------
(* cancel() *)

\* The service never changes a terminal status, whoever asks.
LEMMA TerminalIsFinal ==
  ASSUME TypeOK, [Next]_vars, NEW t \in Task, status[t] \in Terminal
  PROVE  status'[t] = status[t]
  <1>0. status \in [Task -> Status] /\ \A r \in wire : r.task \in Task
    BY DEF TypeOK, CentralTypeOK, ManagerTypeOK, Write
  <1> USE <1>0 DEF Terminal, centralVars, Live
  <1>1. ASSUME NEW u \in Task,
               CentralCreate(u) \/ CentralCancel(u) \/ LeaseExpires(u) \/ Reap(u)
                 \/ (\E p \in Proc : Grant(p, u))
        PROVE  status'[t] = status[t]
    BY <1>1 DEF CentralCreate, CentralCancel, LeaseExpires, Reap, Grant
  <1>2. ASSUME NEW p \in Proc, NEW u \in Task, Submit(p, u)  PROVE status'[t] = status[t]
    BY <1>1, <1>2 DEF Submit, SubmitStarts, SubmitCreated, SubmitCreateFails, SubmitLeased,
                      SubmitLeaseFails, SubmitRegisters, SubmitRollsBack
  <1>3. ASSUME NEW p \in Proc, Poll(p)  PROVE status'[t] = status[t]
    BY <1>1, <1>3 DEF Poll, PollSends, PollEmpty, PollClaims, Claim, Adopt, AdoptRejected,
                      VersionMismatch, VersionMismatchReturns, Task
  <1>4. ASSUME NEW p \in Proc, NEW u \in Task, Run(p, u) \/ Heartbeat(p, u)  PROVE status'[t] = status[t]
    BY <1>4 DEF Run, Return, WorkStarts, WorkAdmitted, ExecSucceeds, ExecPartial, ExecRaises,
                ExecCheckpointUnavailable, DeadlineFires, SuccessAcknowledged,
                SuccessUnacknowledged, FailureReported, Unregister,
                Heartbeat, HeartbeatEnds, HeartbeatLosesLease, HeartbeatFails
  <1>5. ASSUME NEW p \in Proc, NEW u \in Task, Cancel(p, u)  PROVE status'[t] = status[t]
    BY <1>1, <1>5 DEF Cancel, CancelSends, CancelArrives, CancelRereads, CancelApplies
  <1>6. ASSUME NEW p \in Proc, Shutdown(p) \/ Crash(p)  PROVE status'[t] = status[t]
    BY <1>6 DEF Shutdown, ShutdownStarts, DrainTimesOut, ShutdownEnds, Crash
  <1>7. ASSUME NEW u \in Task, ApiSubmits(u) \/ ApiCancels(u) \/ Central(u)  PROVE status'[t] = status[t]
    BY <1>1, <1>7 DEF ApiSubmits, ApiCancels, Central
  <1>8. ASSUME NEW r \in wire, WriteArrives(r) \/ WriteLost(r)  PROVE status'[t] = status[t]
    BY <1>8 DEF WriteArrives, WriteLost, AcceptWrite, RefuseWrite, Fenced, HoldsLease
  <1>9. CASE UNCHANGED vars
    BY <1>9 DEF vars
  <1> QED  BY <1>2, <1>3, <1>4, <1>5, <1>6, <1>7, <1>8, <1>9 DEF Next

\* What cancel() needs of the service when it answers yes.
CancelledIfYes == \A p \in Proc, t \in Task : uc[p][t] = "yes" => status[t] = "CANCELLED"

\* Every step keeps it: the answer is read off the service, and CANCELLED stays.
LEMMA CancelStep == TypeOK /\ CancelledIfYes /\ [Next]_vars => CancelledIfYes'
  <1> SUFFICES ASSUME TypeOK, CancelledIfYes, [Next]_vars, NEW q \in Proc, NEW u \in Task,
                      uc'[q][u] = "yes"
               PROVE  status'[u] = "CANCELLED"
    BY DEF CancelledIfYes
  <1>0. /\ uc \in [Proc -> [Task -> {"none", "sent", "yes", "no"}]]
        /\ status \in [Task -> Status]
    BY DEF TypeOK, CentralTypeOK, ManagerTypeOK
  <1>1. CASE UNCHANGED uc
    BY <1>1, TerminalIsFinal DEF CancelledIfYes, Terminal
  <1>2. ASSUME NEW p \in Proc, NEW t \in Task, Cancel(p, t)  PROVE status'[u] = "CANCELLED"
    <2>1. CASE p = q /\ t = u
      BY <1>0, <1>2, <2>1, TerminalIsFinal
         DEF Cancel, CancelSends, CancelArrives, CentralCancel, CancelRereads, CancelConfirmed, CancelApplies,
             centralVars, CancelledIfYes, Terminal
    <2>2. CASE ~(p = q /\ t = u)
      <3>1. uc[q][u] = "yes"
        BY <1>0, <1>2, <2>2 DEF Cancel, CancelSends, CancelArrives, CancelRereads, CancelApplies
      <3> QED  BY <3>1, TerminalIsFinal DEF CancelledIfYes, Terminal
    <2> QED  BY <2>1, <2>2
  <1>3. ASSUME NEW p \in Proc, Crash(p)  PROVE status'[u] = "CANCELLED"
    <2>1. uc[q][u] = "yes"
      BY <1>0, <1>3 DEF Crash
    <2> QED  BY <2>1, TerminalIsFinal DEF CancelledIfYes, Terminal
  <1>4. ASSUME NEW p \in Proc, NEW t \in Task, Submit(p, t) \/ Run(p, t) \/ Heartbeat(p, t)
        PROVE  UNCHANGED uc
    BY <1>4 DEF Submit, SubmitStarts, SubmitCreated, SubmitCreateFails, SubmitLeased,
                SubmitLeaseFails, SubmitRegisters, SubmitRollsBack,
                Run, Return, WorkStarts, WorkAdmitted, ExecSucceeds, ExecPartial, ExecRaises,
                ExecCheckpointUnavailable, DeadlineFires, SuccessAcknowledged,
                SuccessUnacknowledged, FailureReported, Unregister,
                Heartbeat, HeartbeatEnds, HeartbeatLosesLease, HeartbeatFails, callVars
  <1>5. ASSUME NEW p \in Proc, Poll(p) \/ Shutdown(p)  PROVE UNCHANGED uc
    BY <1>5 DEF Poll, PollSends, PollEmpty, PollClaims, Adopt, AdoptRejected, VersionMismatch,
                VersionMismatchReturns, Shutdown, ShutdownStarts, DrainTimesOut, ShutdownEnds, callVars
  <1>6. ASSUME NEW t \in Task, ApiSubmits(t) \/ ApiCancels(t) \/ Central(t)  PROVE UNCHANGED uc
    BY <1>6 DEF ApiSubmits, ApiCancels, Central, callVars
  <1>7. ASSUME NEW r \in wire, WriteArrives(r) \/ WriteLost(r)  PROVE UNCHANGED uc
    BY <1>7 DEF WriteArrives, WriteLost, callVars
  <1>8. CASE UNCHANGED vars
    BY <1>1, <1>8 DEF vars, callVars
  <1> QED  BY <1>1, <1>2, <1>3, <1>4, <1>5, <1>6, <1>7, <1>8 DEF Next

\* The answer of cancel() is true, and no verdict of a worker contradicts it.
THEOREM CancelTruth == Spec => []CancelAnswerIsTrue
  <1>1. Init => CancelledIfYes
    BY DEF Init, CancelledIfYes
  <1>2. TypeOK /\ LeaseInv /\ CancelledIfYes => CancelAnswerIsTrue
    <2> SUFFICES ASSUME TypeOK, LeaseInv, CancelledIfYes, NEW p \in Proc, NEW t \in Task,
                        uc[p][t] = "yes", NEW r \in wrote, r.task = t
                 PROVE  FALSE
      BY DEF CancelAnswerIsTrue, CancelledIfYes
    <2>1. status[t] = "CANCELLED" /\ status[t] = r.status
      BY DEF CancelledIfYes, LeaseInv, WritesAreFinal
    <2>2. r.status \in {"SUCCEEDED", "FAILED"}
      BY DEF TypeOK, CentralTypeOK, Write
    <2> QED  BY <2>1, <2>2
  <1> QED  BY <1>1, <1>2, CancelStep, TypeCorrect, LeaseInvariant, PTL DEF Spec

-----------------------------------------------------------------------------
(* The limits *)

\* The most handles a process may hold: a worker has no more handles than slots.
HandleLimit(p) == IF p \in Worker THEN MaxConcurrent ELSE MaxInflight

\* The registry of every process is finite and within its limit.
HandlesFit ==
  \A p \in Proc : IsFiniteSet(handles[p]) /\ Cardinality(handles[p]) <= HandleLimit(p)

\* So are the executions that hold the semaphore.
SlotsFit ==
  \A p \in Proc : IsFiniteSet(Executing(p)) /\ Cardinality(Executing(p)) <= MaxConcurrent

\* A set within a limit is so after elements were taken from it.
LEMMA FitsIfSmaller ==
  ASSUME NEW S, IsFiniteSet(S), NEW n \in Nat, Cardinality(S) <= n, NEW R \in SUBSET S
  PROVE  IsFiniteSet(R) /\ Cardinality(R) <= n
  <1>1. IsFiniteSet(R) /\ Cardinality(R) <= Cardinality(S)
    BY FS_Subset
  <1>2. Cardinality(S) \in Nat /\ Cardinality(R) \in Nat
    BY <1>1, FS_CardinalityType
  <1> QED  BY <1>1, <1>2

\* A set below a limit is within it after one element was added.
LEMMA FitsWithOneMore ==
  ASSUME NEW S, IsFiniteSet(S), NEW n \in Nat, Cardinality(S) < n, NEW x
  PROVE  IsFiniteSet(S \cup {x}) /\ Cardinality(S \cup {x}) <= n
  <1>1. /\ IsFiniteSet(S \cup {x})
        /\ \/ Cardinality(S \cup {x}) = Cardinality(S)
           \/ Cardinality(S \cup {x}) = Cardinality(S) + 1
    BY FS_AddElement
  <1>2. Cardinality(S) \in Nat
    BY FS_CardinalityType
  <1> QED  BY <1>1, <1>2

\* Handles are added by two steps only, submit() after its second look at the limit
\* and adopt() after its own look at free_slots.
LEMMA HandlesStep == TypeOK /\ LeaseInv /\ HandlesFit /\ [Next]_vars => HandlesFit'
  <1> SUFFICES ASSUME TypeOK, LeaseInv, HandlesFit, [Next]_vars  PROVE HandlesFit'
    OBVIOUS
  <1>0. /\ handles \in [Proc -> SUBSET Task]
        /\ \A p \in Proc : HandleLimit(p) \in Nat
    BY ManagerAssumption DEF TypeOK, ManagerTypeOK, HandleLimit
  <1>1. ASSUME UNCHANGED handles  PROVE HandlesFit'
    BY <1>1 DEF HandlesFit, HandleLimit
  <1>2. ASSUME NEW p \in Proc, NEW S \in SUBSET handles[p], handles' = [handles EXCEPT ![p] = S]
        PROVE  HandlesFit'
    <2>1. IsFiniteSet(S) /\ Cardinality(S) <= HandleLimit(p)
      BY <1>0, FitsIfSmaller DEF HandlesFit
    <2> QED  BY <1>0, <1>2, <2>1 DEF HandlesFit, HandleLimit
  <1>3. ASSUME NEW p \in Proc, NEW t \in Task, NEW e, Register(p, t, e),
               Cardinality(handles[p]) < HandleLimit(p)
        PROVE  HandlesFit'
    <2>1. /\ IsFiniteSet(handles[p] \cup {t})
          /\ Cardinality(handles[p] \cup {t}) <= HandleLimit(p)
      BY <1>0, <1>3, FitsWithOneMore DEF HandlesFit
    <2> QED  BY <1>0, <1>3, <2>1 DEF HandlesFit, HandleLimit, Register
  <1>4. ASSUME NEW p \in Proc, NEW t \in Task, Submit(p, t)  PROVE HandlesFit'
    <2>1. CASE SubmitRegisters(p, t)
      <3>1. p \in Inline /\ p \notin Worker
        BY <2>1, CentralAssumption DEF SubmitRegisters, LeaseInv, SubmitsAreFresh
      <3> QED  BY <1>1, <1>3, <2>1, <3>1
               DEF SubmitRegisters, MayRegister, HasInflightRoom, HandleLimit, handleVars
    <2>2. CASE Submit(p, t) /\ ~SubmitRegisters(p, t)
      BY <1>1, <2>2 DEF Submit, SubmitStarts, SubmitCreated, SubmitCreateFails, SubmitLeased,
                        SubmitLeaseFails, SubmitRollsBack, handleVars
    <2> QED  BY <1>4, <2>1, <2>2
  <1>5. ASSUME NEW p \in Proc, Poll(p)  PROVE HandlesFit'
    <2>1. CASE Adopt(p)
      <3>1. p \in Worker
        BY <2>1 DEF Adopt, LeaseInv, SubmitsAreFresh
      <3>2. offer[p].task \in Task
        BY <2>1 DEF Adopt, TypeOK, ManagerTypeOK
      <3>3. Cardinality(handles[p]) < HandleLimit(p)
        BY <2>1, <3>1 DEF Adopt, free_slots, HandleLimit
      <3> QED  BY <1>3, <2>1, <3>2, <3>3 DEF Adopt
    <2>2. CASE Poll(p) /\ ~Adopt(p)
      BY <1>1, <2>2 DEF Poll, PollSends, PollEmpty, PollClaims, AdoptRejected, VersionMismatch,
                        VersionMismatchReturns, handleVars
    <2> QED  BY <1>5, <2>1, <2>2
  <1>6. ASSUME NEW p \in Proc, NEW t \in Task, Run(p, t) \/ Heartbeat(p, t) \/ Cancel(p, t)
        PROVE  HandlesFit'
    <2>1. CASE Unregister(p, t)
      BY <1>2, <2>1 DEF Unregister
    <2>2. CASE ~Unregister(p, t)
      BY <1>1, <1>6, <2>2
         DEF Run, Return, WorkStarts, WorkAdmitted, ExecSucceeds, ExecPartial, ExecRaises,
             ExecCheckpointUnavailable, DeadlineFires, SuccessAcknowledged, SuccessUnacknowledged,
             FailureReported, Heartbeat, HeartbeatEnds, HeartbeatLosesLease, HeartbeatFails, StopWork,
             Cancel, CancelSends, CancelArrives, CancelRereads, CancelApplies, handleVars
    <2> QED  BY <2>1, <2>2
  <1>7. ASSUME NEW p \in Proc, Shutdown(p) \/ Crash(p)  PROVE HandlesFit'
    <2>1. CASE UNCHANGED handles
      BY <1>1, <2>1
    <2>2. CASE handles' = [handles EXCEPT ![p] = {}]
      BY <1>2, <2>2
    <2> QED  BY <1>7, <2>1, <2>2
             DEF Shutdown, ShutdownStarts, DrainTimesOut, ShutdownEnds, Crash, handleVars
  <1>8. ASSUME NEW t \in Task, ApiSubmits(t) \/ ApiCancels(t) \/ Central(t)  PROVE HandlesFit'
    BY <1>1, <1>8 DEF ApiSubmits, ApiCancels, Central, handleVars
  <1>9. ASSUME NEW r \in wire, WriteArrives(r) \/ WriteLost(r)  PROVE HandlesFit'
    BY <1>1, <1>9 DEF WriteArrives, WriteLost, handleVars
  <1>10. CASE UNCHANGED vars
    BY <1>1, <1>10 DEF vars, handleVars
  <1> QED  BY <1>4, <1>5, <1>6, <1>7, <1>8, <1>9, <1>10 DEF Next

\* The semaphore admits below its limit; no other step begins an execution, and a
\* cancellation that execute() swallows keeps its slot.
LEMMA SlotsStep == TypeOK /\ SlotsFit /\ [Next]_vars => SlotsFit'
  <1> SUFFICES ASSUME TypeOK, SlotsFit, [Next]_vars  PROVE SlotsFit'
    OBVIOUS
  <1>0. work \in [Proc -> [Task -> WorkPhase]] /\ MaxConcurrent \in Nat
    BY ManagerAssumption DEF TypeOK, ManagerTypeOK
  <1>1. ASSUME \A q \in Proc, u \in Task : work'[q][u] = "executing" => work[q][u] = "executing"
        PROVE  SlotsFit'
    <2> SUFFICES ASSUME NEW q \in Proc
                 PROVE  IsFiniteSet(Executing(q)') /\ Cardinality(Executing(q)') <= MaxConcurrent
      BY DEF SlotsFit
    <2>1. Executing(q)' \in SUBSET Executing(q)
      BY <1>1 DEF Executing
    <2> HIDE DEF Executing
    <2> QED  BY <1>0, <2>1, FitsIfSmaller DEF SlotsFit
  <1>2. ASSUME NEW p \in Proc, NEW t \in Task, NEW w, w # "executing" \/ work[p][t] = "executing",
               work' = [work EXCEPT ![p][t] = w]
        PROVE  SlotsFit'
    BY <1>0, <1>1, <1>2
  <1>3. ASSUME UNCHANGED work  PROVE SlotsFit'
    BY <1>1, <1>3
  <1>4. ASSUME NEW p \in Proc, NEW t \in Task, NEW h, StopWork(p, t, h)  PROVE SlotsFit'
    <2>1. PICK w \in AfterCancel(work[p][t]) : work' = [work EXCEPT ![p][t] = w]
      BY <1>4 DEF StopWork
    <2>2. w # "executing" \/ work[p][t] = "executing"
      BY DEF AfterCancel
    <2> QED  BY <1>2, <2>1, <2>2
  <1>5. ASSUME NEW p \in Proc, NEW t \in Task, WorkAdmitted(p, t)  PROVE SlotsFit'
    <2>1. /\ IsFiniteSet(Executing(p) \cup {t})
          /\ Cardinality(Executing(p) \cup {t}) <= MaxConcurrent
      BY <1>0, <1>5, FitsWithOneMore DEF SlotsFit, WorkAdmitted
    <2>2. Executing(p)' = Executing(p) \cup {t}
      BY <1>0, <1>5 DEF Executing, WorkAdmitted
    <2>3. \A q \in Proc : q # p => Executing(q)' = Executing(q)
      BY <1>0, <1>5 DEF Executing, WorkAdmitted
    <2> QED  BY <2>1, <2>2, <2>3 DEF SlotsFit
  <1>6. ASSUME NEW p \in Proc, NEW t \in Task, Submit(p, t)  PROVE SlotsFit'
    <2>1. CASE UNCHANGED work
      BY <1>3, <2>1
    <2>2. CASE Register(p, t, hepoch[p][t])
      BY <1>2, <2>2 DEF Register
    <2> QED  BY <1>6, <2>1, <2>2
             DEF Submit, SubmitStarts, SubmitCreated, SubmitCreateFails, SubmitLeased,
                 SubmitLeaseFails, SubmitRegisters, SubmitRollsBack, handleVars
  <1>7. ASSUME NEW p \in Proc, Poll(p)  PROVE SlotsFit'
    <2>1. CASE Adopt(p)
      BY <1>2, <2>1 DEF Adopt, Register, TypeOK, ManagerTypeOK
    <2>2. CASE UNCHANGED work
      BY <1>3, <2>2
    <2> QED  BY <1>7, <2>1, <2>2
             DEF Poll, PollSends, PollEmpty, PollClaims, AdoptRejected, VersionMismatch,
                 VersionMismatchReturns, handleVars
  <1>8. ASSUME NEW p \in Proc, NEW t \in Task, Run(p, t)  PROVE SlotsFit'
    <2>1. CASE WorkAdmitted(p, t)
      BY <1>5, <2>1
    <2>2. CASE UNCHANGED work
      BY <1>3, <2>2
    <2>3. CASE \E w \in WorkPhase \ {"executing"} : work' = [work EXCEPT ![p][t] = w]
      BY <1>2, <2>3
    <2> QED  BY <1>8, <2>1, <2>2, <2>3
             DEF Run, Return, WorkStarts, ExecSucceeds, ExecPartial, ExecRaises,
                 ExecCheckpointUnavailable, DeadlineFires, SuccessAcknowledged, SuccessUnacknowledged,
                 FailureReported, Unregister, EnterFinally, ReportFailure, WorkPhase
  <1>9. ASSUME NEW p \in Proc, NEW t \in Task, Heartbeat(p, t)  PROVE SlotsFit'
    BY <1>3, <1>4, <1>9 DEF Heartbeat, HeartbeatEnds, HeartbeatLosesLease, HeartbeatFails
  <1>10. ASSUME NEW p \in Proc, NEW t \in Task, Cancel(p, t)  PROVE SlotsFit'
    BY <1>3, <1>4, <1>10 DEF Cancel, CancelSends, CancelArrives, CancelRereads, CancelApplies, handleVars
  <1>11. ASSUME NEW p \in Proc, Shutdown(p) \/ Crash(p)  PROVE SlotsFit'
    <2>1. CASE DrainTimesOut(p)
      BY <1>0, <1>1, <2>1 DEF DrainTimesOut
    <2>2. CASE work' = [work EXCEPT ![p] = [t \in Task |-> "none"]]
      BY <1>0, <1>1, <2>2
    <2>3. CASE UNCHANGED work
      BY <1>3, <2>3
    <2> QED  BY <1>11, <2>1, <2>2, <2>3 DEF Shutdown, ShutdownStarts, ShutdownEnds, Crash, handleVars
  <1>12. ASSUME NEW t \in Task, ApiSubmits(t) \/ ApiCancels(t) \/ Central(t)  PROVE SlotsFit'
    BY <1>3, <1>12 DEF ApiSubmits, ApiCancels, Central, handleVars
  <1>13. ASSUME NEW r \in wire, WriteArrives(r) \/ WriteLost(r)  PROVE SlotsFit'
    BY <1>3, <1>13 DEF WriteArrives, WriteLost, handleVars
  <1>14. CASE UNCHANGED vars
    BY <1>3, <1>14 DEF vars, handleVars
  <1> QED  BY <1>6, <1>7, <1>8, <1>9, <1>10, <1>11, <1>12, <1>13, <1>14 DEF Next

\* The registry and the semaphore keep their limits, for any limits and any number
\* of submissions that passed the first check together.
THEOREM LimitsHold == Spec => []CapacityRespected
  <1>1. Init => HandlesFit /\ SlotsFit
    <2> SUFFICES ASSUME Init, NEW p \in Proc
                 PROVE  /\ IsFiniteSet(handles[p]) /\ Cardinality(handles[p]) <= HandleLimit(p)
                        /\ IsFiniteSet(Executing(p)) /\ Cardinality(Executing(p)) <= MaxConcurrent
      BY DEF HandlesFit, SlotsFit
    <2>1. handles[p] = {} /\ Executing(p) = {}
      BY DEF Init, Executing
    <2>2. IsFiniteSet({}) /\ Cardinality({}) = 0
      BY FS_EmptySet
    <2>3. HandleLimit(p) \in Nat /\ MaxConcurrent \in Nat
      BY ManagerAssumption DEF HandleLimit
    <2> QED  BY <2>1, <2>2, <2>3
  <1>2. HandlesFit /\ SlotsFit => CapacityRespected
    BY DEF HandlesFit, SlotsFit, CapacityRespected, HandleLimit
  <1> QED  BY <1>1, <1>2, HandlesStep, SlotsStep, TypeCorrect, LeaseInvariant, PTL DEF Spec
-----------------------------------------------------------------------------
(* The refinement of TaskLifecycle *)

\* A step that leaves status, epochs and completed executions alone is invisible.
LEMMA Invisible ==
  ASSUME UNCHANGED <<status, epoch, finished>>
  PROVE  UNCHANGED Lifecycle!lifecycleVars
  BY DEF Lifecycle!lifecycleVars, Completed

\* POST /async/tasks accepts the task.
LEMMA CreateIsAccept ==
  ASSUME TypeOK, NEW t \in Task, CentralCreate(t), UNCHANGED finished
  PROVE  Lifecycle!Accept(t)
  BY DEF CentralCreate, Lifecycle!Accept, Completed

\* A lease that changes hands starts a run; no execution of it has completed yet,
\* for a completed execution had its epoch granted before.
LEMMA GrantIsRun ==
  ASSUME TypeOK, LeaseInv, NEW p \in Proc, NEW t \in Task, Grant(p, t), UNCHANGED finished
  PROVE  Lifecycle!StartRun(t)
  <1>0. epoch \in [Task -> Nat] /\ finished \subseteq Proc \X Task \X Nat
    BY DEF TypeOK, CentralTypeOK, ManagerTypeOK
  <1>1. epoch' = [epoch EXCEPT ![t] = epoch[t] + 1]
    BY DEF Grant, NextEpoch
  <1>2. \A u \in Task, e \in Nat, q \in Proc : <<q, u, e>> \in finished => e <= epoch[u]
    BY DEF LeaseInv, WritesAreGranted, GrantsAreExclusive
  <1>3. ASSUME NEW u \in Task
        PROVE  {e \in 1 .. epoch'[u] : \E q \in Proc : <<q, u, e>> \in finished}
                 = {e \in 1 .. epoch[u] : \E q \in Proc : <<q, u, e>> \in finished}
    <2>1. epoch[u] \in Nat /\ epoch'[u] \in Nat /\ epoch[u] <= epoch'[u]
      BY <1>0, <1>1
    <2>2. ASSUME NEW e, NEW q \in Proc, <<q, u, e>> \in finished
          PROVE  e \in 1 .. epoch'[u] <=> e \in 1 .. epoch[u]
      <3>1. e \in Nat /\ e <= epoch[u]
        BY <1>0, <1>2, <2>2
      <3> QED  BY <2>1, <3>1
    <2> QED  BY <2>2
  <1>4. Completed' = Completed
    BY <1>3 DEF Completed, Grant
  <1> QED  BY <1>1, <1>4 DEF Grant, Live, Lifecycle!StartRun, Lifecycle!Open

\* DELETE /async/tasks/{id} cancels the task.
LEMMA CancelIsCancel ==
  ASSUME TypeOK, NEW t \in Task, CentralCancel(t), UNCHANGED finished
  PROVE  Lifecycle!CancelTask(t)
  BY DEF CentralCancel, Live, Lifecycle!CancelTask, Lifecycle!Open, Completed

\* The reaper fails the task.
LEMMA ReapIsFail ==
  ASSUME TypeOK, NEW t \in Task, Reap(t), UNCHANGED finished
  PROVE  Lifecycle!Fail(t)
  BY DEF Reap, Live, Lifecycle!Fail, Lifecycle!Open, Completed

\* An accepted write is the verdict: SUCCEEDED only when the latest run completed.
LEMMA AcceptIsVerdict ==
  ASSUME TypeOK, LeaseInv, NEW r \in wire, AcceptWrite(r), UNCHANGED finished
  PROVE  Lifecycle!Succeed(r.task) \/ Lifecycle!Fail(r.task)
  <1>0. /\ r.proc \in Proc /\ r.task \in Task /\ r.epoch \in Nat
        /\ r.status \in {"SUCCEEDED", "FAILED"}
        /\ epoch \in [Task -> Nat]
    BY DEF TypeOK, CentralTypeOK, ManagerTypeOK, Write
  <1>1. /\ Live(r.task) /\ epoch[r.task] = r.epoch
        /\ status' = [status EXCEPT ![r.task] = r.status] /\ UNCHANGED epoch
    BY DEF AcceptWrite, Fenced, HoldsLease
  <1>2. UNCHANGED Completed
    BY <1>1 DEF Completed
  <1>3. CASE r.status = "FAILED"
    BY <1>1, <1>2, <1>3 DEF Live, Lifecycle!Fail, Lifecycle!Open
  <1>4. CASE r.status = "SUCCEEDED"
    <2>1. <<r.proc, r.task, r.epoch>> \in finished \cap granted
      BY <1>4 DEF LeaseInv, WritesAreGranted
    <2>2. r.epoch # 0
      BY <2>1 DEF LeaseInv, GrantsAreExclusive
    <2>3. epoch[r.task] \in Completed[r.task]
      BY <1>0, <1>1, <2>1, <2>2 DEF Completed
    <2> QED  BY <1>1, <1>2, <1>4, <2>3 DEF Live, Lifecycle!Succeed, Lifecycle!Open
  <1> QED  BY <1>0, <1>3, <1>4

\* A complete result completes the run its handle was leased for, be it the latest
\* one or one that was taken over.
LEMMA ReturnIsCompletion ==
  ASSUME TypeOK, LeaseInv, NEW p \in Proc, NEW t \in Task, ExecSucceeds(p, t)
  PROVE  Lifecycle!CompleteRun(t)
  <1> DEFINE n == hepoch[p][t]
  <1>0. /\ n \in Nat /\ epoch \in [Task -> Nat]
        /\ finished' = finished \cup {<<p, t, n>>} /\ UNCHANGED <<status, epoch>>
    BY DEF TypeOK, CentralTypeOK, ManagerTypeOK, ExecSucceeds, centralVars
  <1>1. work[p][t] \in Unfinished
    BY DEF ExecSucceeds, Unfinished, WorkPhase
  <1>2. n # 0 /\ <<p, t, n>> \in granted
    BY <1>1 DEF LeaseInv, HandlesAreGranted
  <1>3. n <= epoch[t]
    BY <1>2 DEF LeaseInv, GrantsAreExclusive
  <1>4. n \in 1 .. epoch[t]
    BY <1>0, <1>2, <1>3
  <1> HIDE DEF n
  <1>5. Completed' = [Completed EXCEPT ![t] = Completed[t] \cup {n}]
    <2>1. ASSUME NEW u \in Task, u # t  PROVE Completed'[u] = Completed[u]
      BY <1>0, <2>1 DEF Completed
    <2>2. Completed'[t] = Completed[t] \cup {n}
      BY <1>0, <1>4 DEF Completed
    <2> QED  BY <2>1, <2>2 DEF Completed
  <1> QED  BY <1>0, <1>4, <1>5 DEF Lifecycle!CompleteRun

\* Every step of the processes, the network and the service is a step of the
\* lifecycle or leaves it alone.
LEMMA LifecycleStep ==
  TypeOK /\ LeaseInv /\ [Next]_vars => [Lifecycle!Next]_(Lifecycle!lifecycleVars)
  <1> DEFINE Goal == [Lifecycle!Next]_(Lifecycle!lifecycleVars)
  <1> SUFFICES ASSUME TypeOK, LeaseInv, [Next]_vars  PROVE Goal
    OBVIOUS
  <1>1. ASSUME UNCHANGED <<status, epoch, finished>>  PROVE Goal
    BY <1>1, Invisible
  <1>2. ASSUME NEW t \in Task, UNCHANGED finished,
               \/ CentralCreate(t) \/ CentralCancel(t) \/ Reap(t)
               \/ \E p \in Proc : Grant(p, t)
        PROVE  Goal
    <2>1. Lifecycle!Accept(t) \/ Lifecycle!CancelTask(t) \/ Lifecycle!Fail(t) \/ Lifecycle!StartRun(t)
      BY <1>2, CreateIsAccept, CancelIsCancel, ReapIsFail, GrantIsRun
    <2> QED  BY <2>1 DEF Lifecycle!Next
  <1>3. ASSUME NEW p \in Proc, NEW t \in Task, ExecSucceeds(p, t)  PROVE Goal
    BY <1>3, ReturnIsCompletion DEF Lifecycle!Next
  <1>4. ASSUME NEW r \in wire, AcceptWrite(r), UNCHANGED finished  PROVE Goal
    <2>1. r.task \in Task
      BY DEF TypeOK, ManagerTypeOK, Write
    <2> QED  BY <1>4, <2>1, AcceptIsVerdict DEF Lifecycle!Next
  <1> HIDE DEF Goal
  <1> USE DEF centralVars
  <1>5. ASSUME NEW p \in Proc, NEW t \in Task, Submit(p, t)  PROVE Goal
    BY <1>1, <1>2, <1>5
       DEF Submit, SubmitStarts, SubmitCreated, SubmitCreateFails, SubmitLeased,
           SubmitLeaseFails, SubmitRegisters, SubmitRollsBack
  <1>6. ASSUME NEW p \in Proc, Poll(p)  PROVE Goal
    BY <1>1, <1>2, <1>6
       DEF Poll, PollSends, PollEmpty, PollClaims, Claim, Adopt, AdoptRejected,
           VersionMismatch, VersionMismatchReturns, Task
  <1>7. ASSUME NEW p \in Proc, NEW t \in Task, Run(p, t) \/ Heartbeat(p, t)  PROVE Goal
    BY <1>1, <1>3, <1>7
       DEF Run, Return, WorkStarts, WorkAdmitted, ExecPartial, ExecRaises,
           ExecCheckpointUnavailable, DeadlineFires, SuccessAcknowledged,
           SuccessUnacknowledged, FailureReported, Unregister,
           Heartbeat, HeartbeatEnds, HeartbeatLosesLease, HeartbeatFails
  <1>8. ASSUME NEW p \in Proc, NEW t \in Task, Cancel(p, t)  PROVE Goal
    BY <1>1, <1>2, <1>8 DEF Cancel, CancelSends, CancelArrives, CancelRereads, CancelApplies
  <1>9. ASSUME NEW p \in Proc, Shutdown(p) \/ Crash(p)  PROVE Goal
    BY <1>1, <1>9 DEF Shutdown, ShutdownStarts, DrainTimesOut, ShutdownEnds, Crash
  <1>10. ASSUME NEW t \in Task, ApiSubmits(t) \/ ApiCancels(t) \/ Central(t)  PROVE Goal
    BY <1>1, <1>2, <1>10 DEF ApiSubmits, ApiCancels, Central, LeaseExpires
  <1>11. ASSUME NEW r \in wire, WriteArrives(r) \/ WriteLost(r)  PROVE Goal
    BY <1>1, <1>4, <1>11 DEF WriteArrives, WriteLost, RefuseWrite
  <1>12. CASE UNCHANGED vars
    BY <1>1, <1>12 DEF vars
  <1> QED  BY <1>5, <1>6, <1>7, <1>8, <1>9, <1>10, <1>11, <1>12 DEF Next

\* The manager, its processes, the network and the service implement the task that
\* the callers were promised: one verdict, and SUCCEEDED only for the latest run,
\* once it has produced a complete result.
THEOREM ManagerImplementsLifecycle == Spec => ImplementsLifecycle
  <1>1. Init => Lifecycle!Init
    BY DEF Init, CentralInit, Lifecycle!Init, Completed
  <1>2. TypeOK /\ LeaseInv /\ [Next]_vars => [Lifecycle!Next]_(Lifecycle!lifecycleVars)
    BY LifecycleStep
  <1> QED  BY <1>1, <1>2, TypeCorrect, LeaseInvariant, PTL DEF Spec, ImplementsLifecycle, Lifecycle!Spec
=============================================================================

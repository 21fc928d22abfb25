-------------------------- MODULE DependencyGuard --------------------------
(***************************************************************************)
(* HttpDependencyGuard (infrastructure/http/resilience.py): the bulkhead   *)
(* and circuit breaker in front of one dependency, with the calls of the   *)
(* clients that share it: HttpAsyncTaskClient, PlatformClient, the MCP and *)
(* the sandbox client.                                                     *)
(*                                                                         *)
(* Every change of _CircuitState happens under the guard's lock without an *)
(* await, so _enter and _leave are one step each; any number of calls are  *)
(* between the two.  open_until is compared with the clock and with zero   *)
(* only, which leaves three cases: closed (zero), open (in the future) and *)
(* lapsed (in the past).  failures is compared with the threshold only, so *)
(* it is counted up to the threshold.                                      *)
(***************************************************************************)
EXTENDS Naturals, FiniteSets

CONSTANTS
  Call,              \* calls that may be in progress at once
  Stream,            \* those that are SSE streams: their body runs inside the lease
  max_concurrent,    \* settings.http_dependency_max_concurrent
  failure_threshold  \* settings.http_circuit_failure_threshold

ASSUME GuardAssumption ==
  /\ IsFiniteSet(Call)
  /\ Stream \subseteq Call
  /\ max_concurrent \in Nat \ {0}
  /\ failure_threshold \in Nat \ {0}

VARIABLES
  failures,      \* _CircuitState.failures, up to the threshold
  circuit,       \* _CircuitState.open_until: closed, open or lapsed
  probe_active,  \* _CircuitState.probe_active
  inflight,      \* _CircuitState.inflight
  call,          \* idle, active or probe (active, and _enter returned True)
  faults         \* history: faults of the dependency since its last answer, up to the threshold

vars == <<failures, circuit, probe_active, inflight, call, faults>>

\* How a call ends: an answer, a 4xx, a fault (5xx, timeout, transport error, or no
\* time left before the call), or a cancellation of the caller.
Outcome == {"answer", "clientError", "fault", "cancelled"}

TypeOK ==
  /\ failures \in 0 .. failure_threshold
  /\ circuit \in {"closed", "open", "lapsed"}
  /\ probe_active \in BOOLEAN
  /\ inflight \in Nat
  /\ call \in [Call -> {"idle", "active", "probe"}]
  /\ faults \in 0 .. failure_threshold

Init ==
  /\ failures = 0
  /\ circuit = "closed"
  /\ probe_active = FALSE
  /\ inflight = 0
  /\ call = [c \in Call |-> "idle"]
  /\ faults = 0

CountUp(n) == IF n < failure_threshold THEN n + 1 ELSE n

\* Mutant: the bulkhead admits one call too many.
RejectsBeyond ==
  \/ circuit = "open"
  \/ circuit = "lapsed" /\ probe_active
  \/ inflight > max_concurrent

\* Mutant: the probe in progress is not looked at.
RejectsIfOpen == circuit = "open" \/ inflight >= max_concurrent

\* The three reasons of DependencyCallRejected in _enter.
Rejects ==
  \/ circuit = "open"
  \/ circuit = "lapsed" /\ probe_active
  \/ inflight >= max_concurrent

\* lease() up to the yield.  A call that is rejected changes nothing.
Enter(c) ==
  /\ call[c] = "idle"
  /\ ~Rejects
  /\ inflight' = inflight + 1
  /\ probe_active' = (probe_active \/ circuit = "lapsed")
  /\ call' = [call EXCEPT ![c] = IF circuit = "lapsed" THEN "probe" ELSE "active"]
  /\ UNCHANGED <<failures, circuit, faults>>

\* What lease() marks as failed.  A 4xx of execute() is raised outside of it; a stream
\* raises its 4xx inside, where `except Exception' marks it.  A cancellation is no failure.
Failed(c, o) == o = "fault" \/ (o = "clientError" /\ c \in Stream)

\* Mutant: only a success ends the probe.
ProbeAfterSticky(c, o) == probe_active /\ (call[c] # "probe" \/ Failed(c, o))

ProbeAfter(c, o) == probe_active /\ call[c] # "probe"

\* Mutant: a failure opens the circuit one call late.
TripsLate == failures >= failure_threshold

\* The failure that is being counted reaches the threshold.
Trips == CountUp(failures) >= failure_threshold

\* _leave: a failure that reaches the threshold opens the circuit again, from any
\* state of it; anything else closes it, from any state of it.
Leave(c, o) ==
  /\ call[c] # "idle"
  /\ call' = [call EXCEPT ![c] = "idle"]
  /\ inflight' = IF inflight > 0 THEN inflight - 1 ELSE 0
  /\ probe_active' = ProbeAfter(c, o)
  /\ IF Failed(c, o)
       THEN /\ failures' = CountUp(failures)
            /\ circuit' = IF Trips THEN "open" ELSE circuit
            /\ faults' = IF o = "fault" THEN CountUp(faults) ELSE faults
       ELSE /\ failures' = 0
            /\ circuit' = "closed"
            /\ faults' = 0

\* The clock passes open_until.
Lapse ==
  /\ circuit = "open"
  /\ circuit' = "lapsed"
  /\ UNCHANGED <<failures, probe_active, inflight, call, faults>>

Next ==
  \/ \E c \in Call : Enter(c)
  \/ \E c \in Call, o \in Outcome : Leave(c, o)
  \/ Lapse

Spec == Init /\ [][Next]_vars

\* Time goes on, and every call ends: lease() runs it under asyncio.timeout.
FairSpec ==
  /\ Spec
  /\ WF_vars(Lapse)
  /\ \A c \in Call : WF_vars(\E o \in Outcome : Leave(c, o))

-----------------------------------------------------------------------------
Busy == {c \in Call : call[c] # "idle"}
Probes == {c \in Call : call[c] = "probe"}

\* The counter is the number of calls in progress, whatever way calls ended before,
\* and never exceeds the bulkhead.
BulkheadIsExact == inflight = Cardinality(Busy) /\ inflight <= max_concurrent

\* At most one recovery probe is in progress, and the flag says whether there is one,
\* although late calls from before the trip may close the circuit and open it again
\* while the probe is out.
SingleProbe ==
  /\ probe_active <=> Probes # {}
  /\ \A c, d \in Probes : c = d

\* The circuit is closed exactly while the failures stay below the threshold: no
\* interleaving of late results leaves it closed on a full count, or open on none.
CircuitMatchesFailures == (circuit = "closed") <=> (failures < failure_threshold)

\* The guard never rejects for ever: with no further call it admits one again, even
\* if every probe failed or was cancelled.
AdmitsAgain == Rejects ~> ~Rejects

\* An open or half-open circuit has seen as many timeouts, 5xx or transport faults in
\* a row as the threshold says; 4xx answers do not count.
TrippedByFaults == circuit # "closed" => faults = failure_threshold
=============================================================================

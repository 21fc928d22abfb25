----------------------------- MODULE Readiness -----------------------------
(***************************************************************************)
(* GET /readiness (api/routes.py): HttpDependencyReadinessProbe.check      *)
(* probes the dependencies side by side, the session store is asked after  *)
(* them, and the answer is 200 or 503.  Dependencies come and go meanwhile.*)
(***************************************************************************)
EXTENDS Naturals, FiniteSets

CONSTANTS
  Dependency,        \* probed over HTTP
  Required,          \* those whose target is required: the enabled optional ones
  agent_enabled,     \* the model gateway is configured
  replay_required,   \* write tools with their replay store in Redis
  mcpProvider        \* the one that may answer 405

Store == {"confirmationReplayStore", "agentSessionStore"}

ASSUME ReadinessAssumption ==
  /\ IsFiniteSet(Dependency) /\ Required \subseteq Dependency
  /\ Dependency \cap Store = {}
  /\ {agent_enabled, replay_required} \subseteq BOOLEAN

VARIABLES
  check,    \* idle, probing, session (the session store is asked), answered
  state,    \* what a dependency or store would answer now
  probe,    \* none, out, UP or DOWN
  well,     \* history: those that were well at some moment of the check
  failed,   \* check() has raised
  answer    \* none, 200 or 503

readinessVars == <<check, state, probe, well, failed, answer>>

All == Dependency \cup Store
Status == {"2xx", "401", "405", "5xx"}

ReadinessTypeOK ==
  /\ check \in {"idle", "probing", "session", "answered"}
  /\ state \in [All -> Status]
  /\ probe \in [All -> {"none", "out", "UP", "DOWN"}]
  /\ well \subseteq All
  /\ failed \in BOOLEAN
  /\ answer \in {"none", "200", "503"}

ReadinessInit ==
  /\ check = "idle"
  /\ state \in [All -> {"2xx", "5xx"}]
  /\ probe = [d \in All |-> "none"]
  /\ well = {}
  /\ failed = FALSE
  /\ answer = "none"

\* The answers that show that a dependency or store is well; written down apart from
\* the code.
IsWell(d, s) ==
  s \in IF d \in Store THEN {"2xx"} ELSE IF d = mcpProvider THEN {"2xx", "401", "405"} ELSE {"2xx", "401"}

\* A dependency changes what it answers, during the check.
Changes(d, s) ==
  /\ check \in {"probing", "session"} /\ probe[d] \in {"none", "out"} /\ s # state[d]
  /\ d \in Store => s \in {"2xx", "5xx"}
  /\ state' = [state EXCEPT ![d] = s]
  /\ well' = IF IsWell(d, s) THEN well \cup {d} ELSE well
  /\ UNCHANGED <<check, probe, failed, answer>>

\* Mutant: any answer will do.
HealthyIfAnswered(d, s) == TRUE

\* _probe: a refusal of the caller shows that the service is there.
Healthy(d, s) == s \in {"2xx", "401"} \/ (d = mcpProvider /\ s = "405")

\* The task group of check().
Probed == Dependency \cup (IF replay_required THEN {"confirmationReplayStore"} ELSE {})

CheckStarts ==
  /\ check = "idle"
  /\ check' = "probing"
  /\ probe' = [d \in All |-> IF d \in Probed THEN "out" ELSE "none"]
  /\ well' = {d \in All : IsWell(d, state[d])}
  /\ UNCHANGED <<state, failed, answer>>

\* The probe reaches the dependency.
ProbeAnswered(d) ==
  /\ probe[d] = "out" /\ ~failed
  /\ probe' = [probe EXCEPT ![d] = IF Healthy(d, state[d]) THEN "UP" ELSE "DOWN"]
  /\ UNCHANGED <<check, state, well, failed, answer>>

\* readiness_probe_timeout_seconds pass, or the connection fails.
ProbeTimesOut(d) ==
  /\ probe[d] = "out" /\ ~failed
  /\ probe' = [probe EXCEPT ![d] = "DOWN"]
  /\ UNCHANGED <<check, state, well, failed, answer>>

\* Anything but an HTTPError ends the task group, which cancels the other probes.  The
\* stores' ready() catch everything.
ProbeRaises(d) ==
  /\ d \in Dependency /\ probe[d] = "out" /\ ~failed
  /\ failed' = TRUE
  /\ UNCHANGED <<check, state, probe, well, answer>>

\* The session store is asked when all probes have ended.
SessionAsked ==
  /\ check = "probing" /\ ~failed
  /\ \A d \in Probed : probe[d] # "out"
  /\ check' = "session"
  /\ probe' = [probe EXCEPT !["agentSessionStore"] = "out"]
  /\ UNCHANGED <<state, well, failed, answer>>

\* What the answer depends on.
Needed == Required \cup (Probed \cap Store) \cup {"agentSessionStore"}

Ready == agent_enabled /\ ~failed /\ \A d \in Needed : probe[d] = "UP"

Respond ==
  /\ \/ check = "probing" /\ failed
     \/ check = "session" /\ probe["agentSessionStore"] # "out"
  /\ check' = "answered"
  /\ answer' = IF Ready THEN "200" ELSE "503"
  /\ UNCHANGED <<state, probe, well, failed>>

ReadinessNext ==
  \/ \E d \in All, s \in Status : Changes(d, s)
  \/ CheckStarts
  \/ \E d \in All : ProbeAnswered(d) \/ ProbeTimesOut(d) \/ ProbeRaises(d)
  \/ SessionAsked \/ Respond

-----------------------------------------------------------------------------
\* A 200 is not stale and not partial: each dependency and store the configuration needs
\* was well at some moment of this very check.  Without any of them, however the other
\* probes end, the answer is 503.
ReadyIsTrue ==
  answer = "200" =>
    /\ agent_enabled
    /\ Required \cup {"agentSessionStore"} \subseteq well
    /\ replay_required => "confirmationReplayStore" \in well
=============================================================================

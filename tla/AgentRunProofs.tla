--------------------------- MODULE AgentRunProofs ---------------------------
(***************************************************************************)
(* Proofs about AgentRun, for any runs, tools, limits and loop windows.    *)
(*                                                                         *)
(* The browser: an open session belongs to a run that has still to close   *)
(* it, or is known to have leaked (SessionIsOwned).                        *)
(***************************************************************************)
EXTENDS AgentRun, TLAPS

Recorded == [action : Action, state : CallState]

\* A run that has not stopped has tokens left.
TokensAreLeft ==
  \A r \in Run : phase[r] \in {"idle", "model", "acting"} => tokens[r] < agent_max_tokens

SessionIsOwned ==
  session => leaked \/ \E r \in Run : phase[r] \in {"model", "acting", "closing"}

RunInv == TypeOK /\ TokensAreLeft /\ SessionIsOwned

-----------------------------------------------------------------------------
(* What steps do to the trajectory *)

\* Call i of run r gets state x.
LEMMA StateSet ==
  ASSUME calls \in [Run -> Seq(Recorded)], NEW r \in Run, NEW i \in DOMAIN calls[r],
         NEW x \in CallState,
         calls' = [calls EXCEPT ![r][i].state = x]
  PROVE  calls' \in [Run -> Seq(Recorded)]
  <1>1. calls[r] \in Seq(Recorded) /\ calls[r][i] \in Recorded
    OBVIOUS
  <1> DEFINE c == [calls[r][i] EXCEPT !.state = x]
             s == [calls[r] EXCEPT ![i] = c]
  <1>2. c \in Recorded
    BY <1>1 DEF Recorded
  <1>3. calls' = [calls EXCEPT ![r] = s]
    OBVIOUS
  <1> HIDE DEF c
  <1>4. s \in Seq(Recorded)
    BY <1>1, <1>2
  <1> HIDE DEF s
  <1> QED  BY <1>3, <1>4

-----------------------------------------------------------------------------
(* The invariant *)

\* What a step does to run r, besides its calls, and to the sandbox.
RunStays(r) ==
  /\ phase'[r] \in {"idle", "model", "acting", "closing", "over"}
  /\ modelDone'[r] \in BOOLEAN
  /\ tokens'[r] \in 0 .. agent_max_tokens
  /\ phase'[r] \in {"idle", "model", "acting"} => tokens'[r] < agent_max_tokens
  /\ reply'[r] \in {"none", "DONE", "ERROR", "TIMEOUT", "CANCELLED", "BUDGET", "LOOP",
                    "MAX_STEPS", "raised"}

Sandbox ==
  /\ session' \in BOOLEAN /\ leaked' \in BOOLEAN /\ late' \subseteq Run \X Nat
  /\ SessionIsOwned'

\* The invariant is kept by a step of one run that does as much.
LEMMA StepOfOne ==
  ASSUME RunInv, NEW r \in Run,
         \A f \in {phase', modelDone', tokens', reply'} : f = [q \in Run |-> f[q]],
         \A q \in Run \ {r} : /\ phase'[q] = phase[q] /\ modelDone'[q] = modelDone[q]
                              /\ tokens'[q] = tokens[q] /\ reply'[q] = reply[q],
         RunStays(r), Sandbox, calls' \in [Run -> Seq(Recorded)]
  PROVE  RunInv'
  <1>1. \A q \in Run : RunStays(q)
    BY DEF RunInv, TypeOK, RunStays, TokensAreLeft
  <1>2. TypeOK'
    <2>1. phase' \in [Run -> {"idle", "model", "acting", "closing", "over"}]
      BY <1>1 DEF RunStays
    <2>2. modelDone' \in [Run -> BOOLEAN]
      BY <1>1 DEF RunStays
    <2>3. tokens' \in [Run -> 0 .. agent_max_tokens]
      BY <1>1 DEF RunStays
    <2>4. reply' \in [Run -> {"none", "DONE", "ERROR", "TIMEOUT", "CANCELLED", "BUDGET",
                              "LOOP", "MAX_STEPS", "raised"}]
      BY <1>1 DEF RunStays
    <2> QED  BY <2>1, <2>2, <2>3, <2>4 DEF TypeOK, Sandbox, Recorded
  <1>3. TokensAreLeft'
    BY <1>1 DEF RunStays, TokensAreLeft
  <1> QED  BY <1>2, <1>3 DEF RunInv, Sandbox

\* The steps of run r that leave its calls alone.
QuietStep(r) ==
  \/ Start(r) \/ ModelCallEnd(r) \/ Act(r)
  \/ \E reason \in {"DONE", "ERROR", "CANCELLED", "MAX_STEPS"} : ReplyEnds(r, reason)
  \/ \E exceeded \in BOOLEAN : NextStep(r, exceeded)
  \/ Closes(r)
  \/ \E arrives \in BOOLEAN : CloseFails(r, arrives) \/ CloseCancelled(r, arrives)

\* They keep the invariant: the run that leaves "closing" has closed the session, or
\* it is known that it has not.
LEMMA QuietSteps ==
  ASSUME AgentRunAssumption, RunInv, NEW r \in Run, QuietStep(r)
  PROVE  RunInv'
  <1>t. /\ phase \in [Run -> {"idle", "model", "acting", "closing", "over"}]
        /\ modelDone \in [Run -> BOOLEAN]
        /\ tokens \in [Run -> 0 .. agent_max_tokens]
        /\ reply \in [Run -> {"none", "DONE", "ERROR", "TIMEOUT", "CANCELLED", "BUDGET",
                              "LOOP", "MAX_STEPS", "raised"}]
        /\ session \in BOOLEAN /\ leaked \in BOOLEAN /\ late \subseteq Run \X Nat
        /\ TokensAreLeft /\ SessionIsOwned
    BY DEF RunInv, TypeOK
  <1>n. agent_max_tokens \in Nat \ {0}
    BY DEF AgentRunAssumption
  <1>c. UNCHANGED calls
    BY DEF QuietStep, Start, ModelCallEnd, Act, ReplyEnds, NextStep, Closes, CloseFails,
           CloseCancelled
  <1>1. /\ \A f \in {phase', modelDone', tokens', reply'} : f = [q \in Run |-> f[q]]
        /\ \A q \in Run \ {r} : /\ phase'[q] = phase[q] /\ modelDone'[q] = modelDone[q]
                                /\ tokens'[q] = tokens[q] /\ reply'[q] = reply[q]
    BY <1>t DEF QuietStep, Start, ModelCallEnd, Act, ReplyEnds, NextStep, Closes, CloseFails,
           CloseCancelled, Stops, Over
  <1>2. RunStays(r)
    <2>1. CASE ModelCallEnd(r)
      BY <2>1, <1>t, <1>n DEF ModelCallEnd, Stops, RunStays, TokensAreLeft
    <2>2. CASE ~ModelCallEnd(r)
      <3>1. tokens'[r] = tokens[r] /\ tokens[r] \in 0 .. agent_max_tokens
        BY <2>2, <1>t DEF QuietStep, Start, Act, ReplyEnds, NextStep, Closes, CloseFails,
           CloseCancelled
      <3>2. /\ phase'[r] \in {"idle", "model", "acting", "closing", "over"}
            /\ modelDone'[r] \in BOOLEAN
            /\ reply'[r] \in {"none", "DONE", "ERROR", "TIMEOUT", "CANCELLED", "BUDGET", "LOOP",
                              "MAX_STEPS", "raised"}
            /\ phase'[r] \in {"idle", "model", "acting"} =>
                 phase[r] \in {"idle", "model", "acting"}
        BY <2>2, <1>t DEF QuietStep, Start, Act, ReplyEnds, NextStep, Closes, CloseFails,
           CloseCancelled, Stops, Over
      <3> QED  BY <3>1, <3>2, <1>t DEF RunStays, TokensAreLeft
    <2> QED  BY <2>1, <2>2
  <1>3. Sandbox
    <2>1. CASE \/ Closes(r)
               \/ \E arrives \in BOOLEAN : CloseFails(r, arrives) \/ CloseCancelled(r, arrives)
      <3>1. (session' = FALSE \/ leaked' = TRUE) /\ session' \in BOOLEAN /\ leaked' \in BOOLEAN
            /\ late' = late
        BY <2>1, <1>t DEF Closes, CloseFails, CloseCancelled, HasTime
      <3> QED  BY <3>1, <1>t DEF Sandbox, SessionIsOwned
    <2>2. CASE ~(\/ Closes(r)
                 \/ \E arrives \in BOOLEAN : CloseFails(r, arrives) \/ CloseCancelled(r, arrives))
      <3>1. /\ UNCHANGED <<session, leaked, late>>
            /\ phase'[r] \in {"model", "acting", "closing"} \/ phase'[r] = phase[r]
        BY <2>2, <1>t DEF QuietStep, Start, ModelCallEnd, Act, ReplyEnds, NextStep, Stops
      <3>2. \A q \in Run : phase[q] \in {"model", "acting", "closing"} =>
                             phase'[q] \in {"model", "acting", "closing"}
        BY <3>1, <1>1
      <3> QED  BY <3>1, <3>2, <1>t DEF Sandbox, SessionIsOwned
    <2> QED  BY <2>1, <2>2
  <1>4. calls' \in [Run -> Seq(Recorded)]
    BY <1>c DEF RunInv, TypeOK, Recorded
  <1> QED  BY <1>1, <1>2, <1>3, <1>4, StepOfOne

\* The steps of a tool call keep the invariant: a browser action is carried out while
\* its run is acting, so the session it opens has an owner.
LEMMA ToolSteps ==
  ASSUME RunInv, NEW r \in Run, NEW i \in DOMAIN calls[r],
         \/ RunTool(r, i) \/ ToolRefused(r, i) \/ BrowserReturns(r, i) \/ RemoteReturns(r, i)
         \/ ToolFails(r, i)
  PROVE  RunInv'
  <1>t. calls \in [Run -> Seq(Recorded)] /\ late \subseteq Run \X Nat
    BY DEF RunInv, TypeOK, Recorded
  <1>1. /\ phase[r] = "acting"
        /\ UNCHANGED <<phase, modelDone, tokens, reply, leaked>>
        /\ session' = session \/ session' = TRUE
        /\ late' = late \/ late' = late \cup {<<r, i>>}
    BY DEF RunTool, ToolRefused, BrowserReturns, RemoteReturns, Answers, ToolFails
  <1>2. PICK x \in CallState : calls' = [calls EXCEPT ![r][i].state = x]
    BY DEF RunTool, ToolRefused, BrowserReturns, RemoteReturns, Answers, ToolFails, CallState
  <1>4. calls' \in [Run -> Seq(Recorded)]
    BY <1>t, <1>2, StateSet
  <1>6. <<r, i>> \in Run \X Nat
    BY <1>t
  <1>7. Sandbox
    BY <1>1, <1>6 DEF Sandbox, SessionIsOwned, RunInv, TypeOK
  <1>8. /\ \A f \in {phase', modelDone', tokens', reply'} : f = [q \in Run |-> f[q]]
        /\ \A q \in Run \ {r} : /\ phase'[q] = phase[q] /\ modelDone'[q] = modelDone[q]
                                /\ tokens'[q] = tokens[q] /\ reply'[q] = reply[q]
    BY <1>1 DEF RunInv, TypeOK
  <1>9. RunStays(r)
    BY <1>1 DEF RunInv, TypeOK, TokensAreLeft, RunStays
  <1> QED  BY <1>4, <1>7, <1>8, <1>9, StepOfOne

\* Asking for a call keeps the invariant: the run goes on, or has still to close the
\* session.
LEMMA AskStep ==
  ASSUME RunInv, NEW r \in Run, NEW a \in Action, Ask(r, a)
  PROVE  RunInv'
  <1>t. calls \in [Run -> Seq(Recorded)] /\ calls[r] \in Seq(Recorded)
    BY DEF RunInv, TypeOK, Recorded
  <1>1. PICK x \in {"asked", "looped"} :
          calls' = [calls EXCEPT ![r] = Append(@, [action |-> a, state |-> x])]
    BY DEF Ask
  <1> DEFINE c == [action |-> a, state |-> x]
             s == calls[r]
  <1>2. c \in Recorded
    BY DEF Recorded, CallState
  <1> HIDE DEF c
  <1>4. calls' \in [Run -> Seq(Recorded)]
    BY <1>t, <1>1, <1>2 DEF c
  <1>6. /\ phase[r] = "model"
        /\ UNCHANGED <<modelDone, tokens, session, late, leaked>>
        /\ \/ UNCHANGED <<phase, reply>>
           \/ /\ phase' = [phase EXCEPT ![r] = "closing"]
              /\ reply' = [reply EXCEPT ![r] = "LOOP"]
    BY DEF Ask, Stops
  <1>t2. /\ phase \in [Run -> {"idle", "model", "acting", "closing", "over"}]
         /\ modelDone \in [Run -> BOOLEAN]
         /\ tokens \in [Run -> 0 .. agent_max_tokens]
         /\ reply \in [Run -> {"none", "DONE", "ERROR", "TIMEOUT", "CANCELLED", "BUDGET",
                               "LOOP", "MAX_STEPS", "raised"}]
         /\ session \in BOOLEAN /\ leaked \in BOOLEAN /\ late \subseteq Run \X Nat
         /\ TokensAreLeft
    BY DEF RunInv, TypeOK
  <1>7. /\ \A f \in {phase', modelDone', tokens', reply'} : f = [q \in Run |-> f[q]]
        /\ \A q \in Run \ {r} : /\ phase'[q] = phase[q] /\ modelDone'[q] = modelDone[q]
                                /\ tokens'[q] = tokens[q] /\ reply'[q] = reply[q]
    BY <1>t2, <1>6
  <1>8. RunStays(r)
    BY <1>t2, <1>6 DEF TokensAreLeft, RunStays
  <1>9. phase'[r] \in {"model", "closing"}
    BY <1>t2, <1>6
  <1>10. Sandbox
    BY <1>t2, <1>6, <1>9 DEF Sandbox, SessionIsOwned
  <1> QED  BY <1>4, <1>7, <1>8, <1>10, StepOfOne

\* An interruption keeps the invariant: the run has still to close the session.
LEMMA InterruptStep ==
  ASSUME RunInv, NEW r \in Run, NEW cause \in {"TIMEOUT", "CANCELLED", "ERROR", "raised"},
         Interrupt(r, cause)
  PROVE  RunInv'
  <1>t. /\ phase \in [Run -> {"idle", "model", "acting", "closing", "over"}]
        /\ modelDone \in [Run -> BOOLEAN]
        /\ tokens \in [Run -> 0 .. agent_max_tokens]
        /\ reply \in [Run -> {"none", "DONE", "ERROR", "TIMEOUT", "CANCELLED", "BUDGET",
                              "LOOP", "MAX_STEPS", "raised"}]
        /\ session \in BOOLEAN /\ leaked \in BOOLEAN /\ late \subseteq Run \X Nat
        /\ calls \in [Run -> Seq(Recorded)] /\ calls[r] \in Seq(Recorded)
    BY DEF RunInv, TypeOK, Recorded
  <1> DEFINE s == [i \in DOMAIN calls[r] |->
                     IF i \in In(r, "running") THEN [calls[r][i] EXCEPT !.state = "abandoned"]
                     ELSE calls[r][i]]
  <1>1. /\ calls' = [calls EXCEPT ![r] = s]
        /\ late' = late \cup {<<r, i>> :
                     i \in {j \in In(r, "running") : calls[r][j].action \in Browser}}
        /\ UNCHANGED <<modelDone, tokens, session, leaked>>
        /\ phase' = [phase EXCEPT ![r] = "closing"]
        /\ \E x \in {"TIMEOUT", "CANCELLED", "ERROR", "raised"} :
             reply' = [reply EXCEPT ![r] = x]
    BY DEF Interrupt, Stops
  <1>2. \A i \in DOMAIN calls[r] : s[i] \in Recorded
    <2> TAKE i \in DOMAIN calls[r]
    <2>a. calls[r][i] \in Recorded
      BY <1>t
    <2>0. calls[r][i] \in [action : Action, state : CallState]
      BY <2>a DEF Recorded
    <2>1. CASE i \in In(r, "running")
      BY <2>0, <2>1 DEF Recorded, CallState, In
    <2>2. CASE i \notin In(r, "running")
      BY <2>0, <2>2 DEF Recorded
    <2> QED  BY <2>1, <2>2
  <1>3. s \in Seq(Recorded)
    <2>1. Len(calls[r]) \in Nat /\ DOMAIN calls[r] = 1 .. Len(calls[r])
      BY <1>t
    <2>2. s = [i \in 1 .. Len(calls[r]) |-> s[i]]
      BY <2>1
    <2>3. \A i \in 1 .. Len(calls[r]) : s[i] \in Recorded
      BY <2>1, <1>2
    <2> HIDE DEF s
    <2> QED  BY <2>1, <2>2, <2>3
  <1> HIDE DEF s
  <1>4. calls' \in [Run -> Seq(Recorded)]
    BY <1>t, <1>1, <1>3
  <1>7. /\ \A f \in {phase', modelDone', tokens', reply'} : f = [q \in Run |-> f[q]]
        /\ \A q \in Run \ {r} : /\ phase'[q] = phase[q] /\ modelDone'[q] = modelDone[q]
                                /\ tokens'[q] = tokens[q] /\ reply'[q] = reply[q]
    BY <1>t, <1>1
  <1>8. RunStays(r)
    BY <1>t, <1>1 DEF RunStays
  <1>9. late' \subseteq Run \X Nat
    <2>1. In(r, "running") \subseteq Nat
      BY <1>t DEF In
    <2> QED  BY <2>1, <1>t, <1>1
  <1>10. Sandbox
    BY <1>t, <1>1, <1>9 DEF Sandbox, SessionIsOwned
  <1> QED  BY <1>4, <1>7, <1>8, <1>10, StepOfOne

\* A late request that arrives is one of the known leaks.
LEMMA LateStep ==
  ASSUME RunInv, NEW m \in late, LateArrival(m)
  PROVE  RunInv'
  BY DEF LateArrival, RunInv, TypeOK, TokensAreLeft, SessionIsOwned

-----------------------------------------------------------------------------
(* The theorems *)

\* The trajectory, the tokens and the browser session keep their invariant in every run
\* of AgentScopeRunner, however the runs of the context interleave.
THEOREM RunInvariant == Spec => []RunInv
  <1>1. Init => RunInv
    <2> SUFFICES ASSUME Init PROVE RunInv
      OBVIOUS
    <2>1. agent_max_tokens \in Nat \ {0}
      BY AgentRunAssumption DEF AgentRunAssumption
    <2>2. TypeOK
      <3>1. tokens \in [Run -> 0 .. agent_max_tokens]
        BY <2>1 DEF Init
      <3>2. calls \in [Run -> Seq([action : Action, state : CallState])]
        BY DEF Init
      <3>3. modelDone \in [Run -> BOOLEAN] /\ session \in BOOLEAN /\ leaked \in BOOLEAN
        BY DEF Init
      <3>4. /\ phase \in [Run -> {"idle", "model", "acting", "closing", "over"}]
            /\ reply \in [Run -> {"none", "DONE", "ERROR", "TIMEOUT", "CANCELLED", "BUDGET",
                                  "LOOP", "MAX_STEPS", "raised"}]
            /\ late \subseteq Run \X Nat
        BY DEF Init
      <3> QED  BY <3>1, <3>2, <3>3, <3>4 DEF TypeOK
    <2>3. SessionIsOwned
      BY DEF Init, SessionIsOwned
    <2>4. TokensAreLeft
      BY <2>1 DEF Init, TokensAreLeft
    <2> QED  BY <2>2, <2>3, <2>4 DEF RunInv
  <1>2. RunInv /\ [Next]_vars => RunInv'
    <2> SUFFICES ASSUME RunInv, [Next]_vars PROVE RunInv'
      OBVIOUS
    <2>1. CASE UNCHANGED vars
      BY <2>1 DEF vars, RunInv, TypeOK, TokensAreLeft, SessionIsOwned
    <2>2. CASE \E m \in late : LateArrival(m)
      BY <2>2, LateStep
    <2>3. ASSUME NEW r \in Run, QuietStep(r)
          PROVE  RunInv'
      BY <2>3, QuietSteps, AgentRunAssumption
    <2>4. ASSUME NEW r \in Run, \E a \in Action : Ask(r, a)
          PROVE  RunInv'
      BY <2>4, AskStep
    <2>5. ASSUME NEW r \in Run, NEW i \in DOMAIN calls[r],
                 \/ RunTool(r, i) \/ ToolRefused(r, i) \/ BrowserReturns(r, i)
                 \/ RemoteReturns(r, i) \/ ToolFails(r, i)
          PROVE  RunInv'
      BY <2>5, ToolSteps
    <2>6. ASSUME NEW r \in Run,
                 \E cause \in {"TIMEOUT", "CANCELLED", "ERROR", "raised"} : Interrupt(r, cause)
          PROVE  RunInv'
      BY <2>6, InterruptStep
    <2> QED  BY <2>1, <2>2, <2>3, <2>4, <2>5, <2>6 DEF Next, QuietStep
  <1> QED  BY <1>1, <1>2, PTL DEF Spec

\* Type correctness, with the tokens of a run within its budget.
THEOREM RunTypes == Spec => []TypeOK
  <1>1. RunInv => TypeOK
    BY DEF RunInv
  <1> QED  BY <1>1, RunInvariant, PTL

\* When the runs of a context are over, the browser session close_browser deletes is
\* closed, or the leak is one of the two known ones.
THEOREM BrowserCloses == Spec => []BrowserIsClosed
  <1>1. RunInv => BrowserIsClosed
    BY DEF RunInv, SessionIsOwned, BrowserIsClosed
  <1> QED  BY <1>1, RunInvariant, PTL
=============================================================================

--------------------------- MODULE DagDiagnostics ---------------------------
(***************************************************************************)
(* The diagnostic session of one DAG run (application/dag_diagnostics.py,  *)
(* infrastructure/agentscope/diagnostic_model.py) on top of the model      *)
(* calls its roles make.  Each role's call runs in a diagnostic_operation; *)
(* records go to the observer at once and, through a bounded queue and one *)
(* publisher coroutine, to the task's event stream.                        *)
(*                                                                         *)
(* Only the number of records in the queue matters, not their contents.    *)
(* Failures of the synchronous observer are counted on top of              *)
(* delivery_failures and left out.                                         *)
(***************************************************************************)
EXTENDS ModelCall

CONSTANT MaxRecords  \* MAX_RECORDS of dag_diagnostics.py

ASSUME DiagnosticsAssumption == MaxRecords \in Nat \ {0}

VARIABLES
  scope,              \* diagnostic_scope: none (no DAG run), open, joining, reaped, closed, aborted
  cancelling,         \* the business task was cancelled
  expired,            \* delivery_timeout() is zero: the run's deadline is here
  pending,            \* records in DiagnosticSession.pending
  publishing,         \* the publisher is delivering a record
  dropped,            \* DiagnosticSession.dropped
  delivery_failures,  \* DiagnosticSession.delivery_failures, of the event stream
  lost,               \* history: records that may not have reached the event stream
  cut,                \* history: the publisher was cancelled inside a delivery
  calls,              \* DiagnosticSession.calls
  unknown,            \* DiagnosticSession.unknown
  tokens,             \* DiagnosticSession.input_tokens + output_tokens
  status,             \* DiagnosticSession.status
  summary             \* the DagDiagnosticSummary that was observed, or <<>>

sessionVars == <<scope, cancelling, expired, pending, publishing, dropped,
                 delivery_failures, lost, cut, calls, unknown, tokens, status, summary>>
vars == <<callVars, sessionVars>>

Role == {c \in Call : kind[c] = "dag"}

Init ==
  /\ CallInit
  /\ scope = IF Role = {} THEN "none" ELSE "open"
  /\ cancelling = FALSE /\ expired = FALSE
  /\ pending = 0 /\ publishing = FALSE
  /\ dropped = 0 /\ delivery_failures = 0 /\ lost = 0 /\ cut = FALSE
  /\ calls = 0 /\ unknown = 0 /\ tokens = 0
  /\ status = "DONE"
  /\ summary = <<>>

-----------------------------------------------------------------------------
(* Records *)

\* enqueue of n records: put_nowait, or one more dropped record.
Enqueue(n) ==
  LET room == MaxRecords - pending
      kept == IF n <= room THEN n ELSE room
  IN /\ pending' = pending + kept
     /\ dropped' = dropped + (n - kept)
     /\ lost' = lost + (n - kept)

\* Mutant: a response without usage counts as one of zero tokens.
IsUnknownIfMissing(r) == r \in {"invalid", "interrupted", "none"}

\* model_finished: usage that is missing or below zero, of a call that failed, was cut
\* off or never ended.
IsUnknown(r) == r # "known"

\* record(): once for each call that reached the provider.
Observed(c, r) ==
  /\ calls' = calls + 1
  /\ unknown' = unknown + (IF IsUnknown(r) THEN 1 ELSE 0)
  /\ tokens' = tokens + (IF r = "known" THEN used[c] ELSE 0)

\* The finally clause of diagnostic_operation.
StatusAfter(c) == IF result'[c] = "done" THEN status ELSE "PARTIAL"

Over(c) == pc[c] # "over" /\ pc'[c] = "over"

UnobservedSession == UNCHANGED <<scope, cancelling, expired, publishing, delivery_failures,
                                 cut, summary>>

\* An operation whose call made no step that is recorded: its own record at its end.
Unrecorded(c) ==
  /\ IF c \in Role /\ Over(c)
       THEN Enqueue(1) /\ status' = StatusAfter(c)
       ELSE UNCHANGED <<pending, dropped, lost, status>>
  /\ UNCHANGED <<calls, unknown, tokens>>
  /\ UnobservedSession

\* The provider's response or failure is recorded where it is met, and the operation's
\* record follows in the same step if the call is over with it.
Recorded(c, r) ==
  /\ Observed(c, r)
  /\ Enqueue(IF Over(c) THEN 2 ELSE 1)
  /\ status' = IF Over(c) THEN StatusAfter(c) ELSE status
  /\ UnobservedSession

CallStep(c) ==
  /\ c \in Role => scope = "open"
  /\ \/ CallSteps(c) /\ UNCHANGED sessionVars
     \/ Refuse(c) /\ Unrecorded(c)
     \/ \E arrives \in BOOLEAN, a \in Answer : RpcFails(c, arrives, a) /\ Unrecorded(c)
     \/ SettleSucceeds(c) /\ Unrecorded(c)
     \/ \E r \in Reports : Respond(c, r) /\ Recorded(c, r)
     \/ \E r \in {"error", "cancelled"} :
          /\ ProviderFails(c, r)
          /\ IF c \in Role THEN Recorded(c, "none") ELSE UNCHANGED sessionVars

-----------------------------------------------------------------------------
(* The publisher *)

Publishes == scope \in {"open", "joining"}

\* publish() takes a record; deliver() gives it up at once when there is no time.
Take ==
  /\ Publishes /\ ~publishing /\ pending > 0
  /\ pending' = pending - 1
  /\ IF expired
       THEN /\ delivery_failures' = delivery_failures + 1
            /\ lost' = lost + 1
            /\ UNCHANGED publishing
       ELSE publishing' = TRUE /\ UNCHANGED <<delivery_failures, lost>>
  /\ UNCHANGED <<callVars, scope, cancelling, expired, dropped, cut, calls, unknown, tokens,
                 status, summary>>

\* emit() returns, or it raises or takes longer than DELIVERY_TIMEOUT_SECONDS.
Deliver(succeeds) ==
  /\ Publishes /\ publishing
  /\ publishing' = FALSE
  /\ delivery_failures' = delivery_failures + (IF succeeds THEN 0 ELSE 1)
  /\ lost' = lost + (IF succeeds THEN 0 ELSE 1)
  /\ UNCHANGED <<callVars, scope, cancelling, expired, pending, dropped, cut, calls, unknown,
                 tokens, status, summary>>

-----------------------------------------------------------------------------
(* diagnostic_scope *)

\* The run is cancelled: its own roles first, then the scope they run in.
Cancel ==
  /\ scope \in {"open", "joining"} /\ ~cancelling
  /\ cancelling' = TRUE
  /\ UNCHANGED <<callVars, scope, expired, pending, publishing, dropped, delivery_failures,
                 lost, cut, calls, unknown, tokens, status, summary>>

Expire ==
  /\ scope \in {"open", "joining"} /\ ~expired
  /\ expired' = TRUE
  /\ UNCHANGED <<callVars, scope, cancelling, pending, publishing, dropped,
                 delivery_failures, lost, cut, calls, unknown, tokens, status, summary>>

\* Mutant: what is left in the queue is forgotten.
LeftInQueueForgotten == 0

\* pending.qsize() when the publisher is cancelled.
LeftInQueue == pending

\* The publisher is cancelled and awaited: a delivery under way is cut off and, being
\* a cancellation, counted by nobody.
Reap(where, failures) ==
  /\ scope' = where
  /\ dropped' = dropped + LeftInQueue
  /\ delivery_failures' = delivery_failures + failures
  /\ lost' = lost + pending + (IF publishing THEN 1 ELSE 0)
  /\ cut' = publishing
  /\ pending' = 0 /\ publishing' = FALSE
  /\ UNCHANGED <<callVars, cancelling, expired, calls, unknown, tokens, summary>>

RolesOver == \A c \in Role : pc[c] = "over"

\* How the body ends: it raises, or it returns a reply, and _to_reply has replaced the
\* status by the synthesis' own, whatever failed in an earlier round.
Ending == {"raised", "DONE", "PARTIAL"}

\* The status the scope is left with.  A body that returns although it was cancelled (a
\* runner outside an optimized DAG swallows the cancellation) keeps its own.
BodyStatus(ending) ==
  IF ending # "raised" THEN ending
  ELSE IF cancelling THEN "CANCELLED" ELSE "ERROR"

\* The scope is left and waits for the queue to be delivered.
JoinStarts(ending) ==
  /\ scope = "open" /\ RolesOver
  /\ ~cancelling /\ ~expired
  /\ scope' = "joining"
  /\ status' = BodyStatus(ending)
  /\ UNCHANGED <<callVars, cancelling, expired, pending, publishing, dropped,
                 delivery_failures, lost, cut, calls, unknown, tokens, summary>>

\* The scope is left in a cancellation or at the deadline: nobody waits.
LeavesAtOnce(ending) ==
  /\ scope = "open" /\ RolesOver
  /\ cancelling \/ expired
  /\ status' = BodyStatus(ending)
  /\ Reap("reaped", 0)

Joined ==
  /\ scope = "joining" /\ pending = 0 /\ ~publishing
  /\ Reap("reaped", 0) /\ UNCHANGED status

JoinTimesOut ==
  /\ scope = "joining"
  /\ Reap("reaped", 1) /\ UNCHANGED status

\* A cancellation inside the join passes the summary by.
JoinCancelled ==
  /\ scope = "joining" /\ cancelling
  /\ Reap("aborted", 0) /\ UNCHANGED status

\* summary(), observed at once.  Its own delivery may fail, and is then counted too late.
Summarise ==
  /\ scope = "reaped"
  /\ scope' = "closed"
  /\ summary' = [status |-> status, calls |-> calls, unknown |-> unknown, tokens |-> tokens,
                 dropped |-> dropped, failures |-> delivery_failures]
  /\ UNCHANGED <<callVars, cancelling, expired, pending, publishing, dropped,
                 delivery_failures, lost, cut, calls, unknown, tokens, status>>

-----------------------------------------------------------------------------
(* critical_paths: nodes are numbered in the topological order they were
   registered in, ms[n] is the execution time of node n, 0 if it was not observed. *)

\* The first path of the longest duration among those to the nodes in N.
Longest(path, N) ==
  LET best == CHOOSE n \in N :
                /\ \A k \in N : path[k].ms <= path[n].ms
                /\ \A k \in N : path[k].ms = path[n].ms => n <= k
  IN IF N = {} THEN [ms |-> 0, nodes |-> <<>>] ELSE path[best]

critical_path(ms, dependencies) ==
  LET path[n \in DOMAIN ms] ==
        LET base == Longest([k \in 1 .. n - 1 |-> path[k]], dependencies[n])
        IN [ms |-> base.ms + ms[n], nodes |-> Append(base.nodes, n)]
  IN Longest(path, DOMAIN ms)

\* Dependency paths of a graph, where each node needs the one before it, and how long
\* the nodes of a path take one after the other.
IsPath(p, dependencies) ==
  /\ p \in Seq(DOMAIN dependencies)
  /\ \A i \in 2 .. Len(p) : p[i - 1] \in dependencies[p[i]]

Duration(p, ms) ==
  LET sum[i \in 0 .. Len(p)] == IF i = 0 THEN 0 ELSE sum[i - 1] + ms[p[i]]
  IN sum[Len(p)]

\* The critical path that is reported is a dependency path with its duration.
CriticalPathIsPath(ms, dependencies) ==
  LET found == critical_path(ms, dependencies)
  IN IsPath(found.nodes, dependencies) /\ found.ms = Duration(found.nodes, ms)

\* It takes at least as long as path p.
CriticalPathCovers(ms, dependencies, p) == Duration(p, ms) <= critical_path(ms, dependencies).ms

-----------------------------------------------------------------------------
Next ==
  \/ \E c \in Call : CallStep(c)
  \/ Take
  \/ \E succeeds \in BOOLEAN : Deliver(succeeds)
  \/ Cancel
  \/ Expire
  \/ \E ending \in Ending : JoinStarts(ending) \/ LeavesAtOnce(ending)
  \/ Joined
  \/ JoinTimesOut
  \/ JoinCancelled
  \/ Summarise

Spec == Init /\ [][Next]_vars

-----------------------------------------------------------------------------
Called == {c \in Role : used[c] > 0}
Known == {c \in Called : report[c] = "known"}

\* The tokens used by the calls in S, as <<call, number>>.
TokensOf(S) == UNION {{c} \X (1 .. used[c]) : c \in S}

\* The summary counts every call that reached the provider exactly once, whichever way
\* it ended, adds up the usage that is certain and says of how many calls it is not.
SummaryIsHonest ==
  summary # <<>> =>
    /\ summary.calls = Cardinality(Called)
    /\ summary.tokens = Cardinality(TokensOf(Known))
    /\ summary.unknown = Cardinality(Called \ Known)

\* Every record that may be missing in the event stream is in the summary's counts of
\* dropped records and failed deliveries.  One is not: the record that was under way
\* when a cancelled or expired run took its publisher down.
GapsAreCounted ==
  summary # <<>> =>
    lost <= summary.dropped + summary.failures + (IF cut THEN 1 ELSE 0)
=============================================================================

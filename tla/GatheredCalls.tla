--------------------------- MODULE GatheredCalls ---------------------------
(***************************************************************************)
(* Requests that make calls side by side and gather the results:           *)
(* VotingService.run (application/sibling.py), one call per candidate, and *)
(* a DAG in legacy mode (_execute and _run_level of application/dag.py),   *)
(* one agent run per task, level after level.  Each call is a task of its  *)
(* own under the semaphore all requests of the service share.              *)
(*                                                                         *)
(* member[q][i], the task of candidate or node i of request q:             *)
(*   none       not created                                                *)
(*   waiting    created, waits for the semaphore                           *)
(*   calling    holds it, the generator or the agent runs                  *)
(*   answered, failed, cancelled                                           *)
(***************************************************************************)
EXTENDS Naturals, Sequences, FiniteSets, SequencesExt

CONSTANTS
  Request,
  Member,           \* numbers of candidates, or tasks of a DAG
  LegacyLevels,     \* the topological levels a DAG may have: each task is in one
  max_candidates,
  worker_slots,     \* max_parallel_workers of the service
  Answer,           \* texts of votes
  casefold          \* their normal form: strip().casefold()

ASSUME GatherAssumption ==
  /\ IsFiniteSet(Member) /\ 1 .. max_candidates \subseteq Member
  /\ LegacyLevels \subseteq Seq(SUBSET Member) \ {<<>>}
  /\ \A ls \in LegacyLevels : \A j, k \in DOMAIN ls : j # k => ls[j] \cap ls[k] = {}
  /\ {max_candidates, worker_slots} \subseteq Nat \ {0}
  /\ casefold \in [Answer -> Answer]

VARIABLES
  service,   \* vote or dag: whose requests these are
  stage,     \* of a request: idle, gathering, unwinding, deciding, replied, raised
  levels,    \* what it is to gather, level after level
  level,     \* the level it is at
  member,
  unwanted,  \* the tasks cancel() was called on
  freeSlots  \* of the semaphore

gatherVars == <<service, stage, levels, level, member, unwanted, freeSlots>>

Alive == {"waiting", "calling"}

GatherTypeOK ==
  /\ service \in {"vote", "dag"}
  /\ stage \in [Request -> {"idle", "gathering", "unwinding", "deciding", "replied", "raised"}]
  /\ levels \in [Request -> Seq(SUBSET Member)]
  /\ level \in [Request -> Nat]
  /\ member \in [Request -> [Member -> {"none", "answered", "failed", "cancelled"} \cup Alive]]
  /\ unwanted \in [Request -> SUBSET Member]
  /\ freeSlots \in 0 .. worker_slots

GatherInit ==
  /\ service \in {"vote", "dag"}
  /\ stage = [q \in Request |-> "idle"]
  /\ levels = [q \in Request |-> <<>>]
  /\ level = [q \in Request |-> 0]
  /\ member = [q \in Request |-> [i \in Member |-> "none"]]
  /\ unwanted = [q \in Request |-> {}]
  /\ freeSlots = worker_slots

-----------------------------------------------------------------------------
(* What a request does *)

\* create_task for all of a level.
Created(q, S) == [i \in Member |-> IF i \in S THEN "waiting" ELSE member[q][i]]

Gathers(q, ls) ==
  /\ stage' = [stage EXCEPT ![q] = "gathering"]
  /\ levels' = [levels EXCEPT ![q] = ls]
  /\ level' = [level EXCEPT ![q] = 1]
  /\ member' = [member EXCEPT ![q] = Created(q, ls[1])]
  /\ UNCHANGED <<service, unwanted, freeSlots>>

\* A blank question, or n out of range: nothing is created.
RequestRefused(q) ==
  /\ stage[q] = "idle"
  /\ stage' = [stage EXCEPT ![q] = "raised"]
  /\ UNCHANGED <<service, levels, level, member, unwanted, freeSlots>>

VoteStarts(q, n) == service = "vote" /\ stage[q] = "idle" /\ Gathers(q, <<1 .. n>>)

LegacyStarts(q, ls) == service = "dag" /\ stage[q] = "idle" /\ Gathers(q, ls)

Of(q, S) == {i \in Member : member[q][i] \in S}

AllAnswered(q) == levels[q][level[q]] \subseteq Of(q, {"answered"})

\* gather() returns: the next level, or the votes and results are complete.
LevelGathered(q) ==
  /\ stage[q] = "gathering" /\ AllAnswered(q)
  /\ IF level[q] < Len(levels[q])
       THEN /\ level' = [level EXCEPT ![q] = @ + 1]
            /\ member' = [member EXCEPT ![q] = Created(q, levels[q][level[q] + 1])]
            /\ UNCHANGED stage
       ELSE /\ stage' = [stage EXCEPT ![q] = "deciding"]
            /\ UNCHANGED <<level, member>>
  /\ UNCHANGED <<service, levels, unwanted, freeSlots>>

\* Mutant: the request fails without cancelling the others.
CancelledNone(q) == {}

\* `for task in pending: task.cancel()'
CancelledAll(q) == Of(q, Alive)

\* gather() raises: a task failed, or the request itself is cancelled.
GatherRaises(q) ==
  /\ stage[q] = "gathering"
  /\ stage' = [stage EXCEPT ![q] = "unwinding"]
  /\ unwanted' = [unwanted EXCEPT ![q] = CancelledAll(q)]
  /\ UNCHANGED <<service, levels, level, member, freeSlots>>

\* gather(*pending, return_exceptions=True) returns, and the exception goes on.
GatherUnwound(q) ==
  /\ stage[q] = "unwinding" /\ Of(q, Alive) = {}
  /\ stage' = [stage EXCEPT ![q] = "raised"]
  /\ UNCHANGED <<service, levels, level, member, unwanted, freeSlots>>

\* The request is cancelled once more while it waits for its tasks.
UnwindCancelled(q) ==
  /\ stage[q] = "unwinding" /\ Of(q, Alive) # {}
  /\ stage' = [stage EXCEPT ![q] = "raised"]
  /\ UNCHANGED <<service, levels, level, member, unwanted, freeSlots>>

\* The majority is counted, or one more model call synthesizes the answer; it may fail.
Decided(q, ok) ==
  /\ stage[q] = "deciding"
  /\ stage' = [stage EXCEPT ![q] = IF ok THEN "replied" ELSE "raised"]
  /\ UNCHANGED <<service, levels, level, member, unwanted, freeSlots>>

-----------------------------------------------------------------------------
(* What a task does *)

TakesSlot(q, i) ==
  /\ member[q][i] = "waiting" /\ i \notin unwanted[q] /\ freeSlots > 0
  /\ member' = [member EXCEPT ![q][i] = "calling"]
  /\ freeSlots' = freeSlots - 1
  /\ UNCHANGED <<service, stage, levels, level, unwanted>>

\* The end of a task; `async with' gives the slot back.
TaskEnds(q, i, how) ==
  /\ member' = [member EXCEPT ![q][i] = how]
  /\ freeSlots' = IF member[q][i] = "calling" THEN freeSlots + 1 ELSE freeSlots
  /\ UNCHANGED <<service, stage, levels, level, unwanted>>

\* A vote, or the agent's execution, whatever its stop reason.
CallAnswered(q, i) == member[q][i] = "calling" /\ TaskEnds(q, i, "answered")

\* TextGenerationError, AgentNotConfiguredError.
CallFailed(q, i) == member[q][i] = "calling" /\ TaskEnds(q, i, "failed")

\* The cancellation strikes, in the semaphore or in the call.  An agent outside an
\* optimized DAG makes a CANCELLED result of it.
TaskCancelled(q, i) ==
  /\ member[q][i] \in Alive /\ i \in unwanted[q]
  /\ TaskEnds(q, i, IF service = "dag" /\ member[q][i] = "calling" THEN "answered" ELSE "cancelled")

GatherNext ==
  \/ \E q \in Request :
       \/ RequestRefused(q)
       \/ \E n \in 1 .. max_candidates : VoteStarts(q, n)
       \/ \E ls \in LegacyLevels : LegacyStarts(q, ls)
       \/ LevelGathered(q) \/ GatherRaises(q) \/ GatherUnwound(q) \/ UnwindCancelled(q)
       \/ \E ok \in BOOLEAN : Decided(q, ok)
  \/ \E q \in Request, i \in Member :
       \/ TakesSlot(q, i) \/ CallAnswered(q, i) \/ CallFailed(q, i) \/ TaskCancelled(q, i)

-----------------------------------------------------------------------------
(* Decisions *)

\* The votes of one normal form, and counts[normalized[i]].
VotesFor(votes, key) == {i \in DOMAIN votes : casefold[votes[i]] = key}
Counted(votes, i) == Cardinality(VotesFor(votes, casefold[votes[i]]))

\* max() over the counter, whose keys stand in the order of their first votes, and the
\* first vote with that key.
majority(votes) ==
  LET most == {i \in DOMAIN votes : \A j \in DOMAIN votes : Counted(votes, j) <= Counted(votes, i)}
      first == CHOOSE i \in most : \A j \in most : i <= j
  IN [decision |-> votes[first], count |-> Counted(votes, first)]

\* PromptChainService._check_gate: a step may ask for a length, a text and a pattern; an
\* invalid pattern is passed over.
check_gate(step, output) ==
  /\ output.length >= step.gate_min_length
  /\ step.gate_must_contain => output.contains
  /\ step.gate_must_match = "valid" => output.matches

\* PromptChainService.run over the outputs of the steps: the steps that were executed
\* and whether the chain is completed.
chain(steps, outputs) ==
  LET failing == SelectInSeq([i \in DOMAIN steps |-> check_gate(steps[i], outputs[i])], LAMBDA ok : ~ok)
      executed == IF failing = 0 THEN Len(steps) ELSE failing
  IN [executed |-> executed, completed |-> failing = 0]

\* The voting service decides for the first text of the answer that won; no other answer
\* has more votes, and one with as many was first given later.
VerdictIsRight(votes) ==
  LET verdict == majority(votes)
      won == VotesFor(votes, casefold[verdict.decision])
  IN /\ \E i \in won : verdict.decision = votes[i] /\ \A j \in won : i <= j
     /\ verdict.count = Cardinality(won)
     /\ \A key \in Answer : LET other == VotesFor(votes, key) IN
          \/ other = won
          \/ Cardinality(other) < Cardinality(won)
          \/ Cardinality(other) = Cardinality(won) /\ \E i \in won : \A j \in other : i < j

\* A prompt chain is completed exactly if every step passed its gate; the steps before the
\* last one executed passed theirs, and a chain that is not completed stops at one that failed.
ReplyIsExact(steps, outputs) ==
  LET reply == chain(steps, outputs)
      Passed(i) == check_gate(steps[i], outputs[i])
  IN /\ reply.completed <=> \A i \in DOMAIN steps : Passed(i)
     /\ \A i \in 1 .. reply.executed - 1 : i \in DOMAIN steps /\ Passed(i)
     /\ IF reply.completed THEN reply.executed = Len(steps)
                           ELSE reply.executed \in DOMAIN steps /\ ~Passed(reply.executed)

-----------------------------------------------------------------------------
\* However requests fail, are cancelled and compete for the slots: each slot is free or
\* used by a call; a request that is over leaves no task behind that still wants one;
\* and a level starts only when every result of the levels before it is there, so that
\* a reply rests on all of them.
GatherIsClean ==
  /\ freeSlots + Cardinality({t \in Request \X Member : member[t[1]][t[2]] = "calling"}) = worker_slots
  /\ \A q \in Request :
       /\ stage[q] \in {"deciding", "replied", "raised"} => Of(q, Alive) \subseteq unwanted[q]
       /\ \A k \in 1 .. level[q] :
            k < level[q] \/ stage[q] \in {"deciding", "replied"} => levels[q][k] \subseteq Of(q, {"answered"})
=============================================================================

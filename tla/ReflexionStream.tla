--------------------------- MODULE ReflexionStream ---------------------------
(***************************************************************************)
(* The reflexion endpoint (routes._reflexion_events): ReflexionService.run *)
(* produces progress events into a bounded queue, the response's generator *)
(* takes them out and sends them, and the client may leave at any moment.  *)
(*                                                                         *)
(* Events in the queue: attempt-start, answer and critique of an attempt,  *)
(* done, error, and the sentinel None.                                     *)
(*                                                                         *)
(* A put while the generator waits in queue.get() hands the event over: it *)
(* is woken before the producer's next model call can end.                 *)
(***************************************************************************)
EXTENDS Naturals, Sequences

CONSTANTS
  max_improvements,  \* ReflexionPolicy.max_improvements
  maxsize            \* of the queue

\* The settings allow ten improvements next to a queue of 32.
ASSUME ReflexionAssumption ==
  /\ max_improvements \in Nat
  /\ maxsize \in Nat \ {0}
  /\ 3 * (max_improvements + 1) <= maxsize + 1

VARIABLES
  queue,      \* asyncio.Queue
  producer,   \* before, generating, reviewing, putting, ended
  attempt,    \* the attempt the producer is at
  item,       \* the event it wants to put
  cancelled,  \* producer.cancel() was called
  generator,  \* of the response: waiting in get(), sending, closing, closed
  last        \* the event it took last

reflexionVars == <<queue, producer, attempt, item, cancelled, generator, last>>

Attempt == 1 .. max_improvements + 1
Event == {"attempt-start", "answer", "critique", "done", "error", "None"}

ReflexionTypeOK ==
  /\ queue \in Seq(Event) /\ Len(queue) <= maxsize
  /\ producer \in {"before", "generating", "reviewing", "putting", "ended"}
  /\ attempt \in Attempt
  /\ item \in Event /\ last \in Event \cup {"nothing"}
  /\ cancelled \in BOOLEAN
  /\ generator \in {"waiting", "sending", "closing", "closed"}

ReflexionInit ==
  /\ queue = <<>>
  /\ producer = "before"
  /\ attempt = 1
  /\ item = "attempt-start"
  /\ cancelled = FALSE
  /\ generator = "waiting"
  /\ last = "nothing"

-----------------------------------------------------------------------------
(* The producer: ReflexionService.run inside produce() *)

Wants(event) == producer' = "putting" /\ item' = event

\* The first event; a blank question is refused before it.
ProducerStarts(blank) ==
  /\ producer = "before" /\ ~cancelled
  /\ Wants(IF blank THEN "error" ELSE "attempt-start")
  /\ UNCHANGED <<queue, attempt, cancelled, generator, last>>

\* Where the producer is after a put.
Following(event) ==
  CASE event = "attempt-start" -> "generating"
    [] event = "answer" -> "reviewing"
    [] event = "None" -> "ended"
    [] OTHER -> "putting"

\* The event it wants to put then: after a critique that does not accept the answer the
\* next attempt starts, if there is one.
NextItem(event, accepted) ==
  CASE event = "critique" -> IF accepted \/ attempt > max_improvements THEN "done" ELSE "attempt-start"
    [] event \in {"done", "error"} -> "None"
    [] OTHER -> event

\* await queue.put(item)
Puts(accepted) ==
  /\ producer = "putting" /\ ~cancelled
  /\ \/ /\ generator = "waiting" /\ queue = <<>>
        /\ generator' = IF item = "None" THEN "closing" ELSE "sending"
        /\ last' = item
        /\ UNCHANGED queue
     \/ /\ ~(generator = "waiting" /\ queue = <<>>)
        /\ Len(queue) < maxsize
        /\ queue' = Append(queue, item)
        /\ UNCHANGED <<generator, last>>
  /\ producer' = Following(item)
  /\ item' = NextItem(item, accepted)
  /\ attempt' = IF item = "critique" /\ item' = "attempt-start" THEN attempt + 1 ELSE attempt
  /\ UNCHANGED cancelled

\* The answer or the critique is there, or the call raised: `except Exception'.
CallReturns(raised) ==
  /\ producer \in {"generating", "reviewing"}
  /\ ~cancelled
  /\ Wants(IF raised THEN "error" ELSE IF producer = "generating" THEN "answer" ELSE "critique")
  /\ UNCHANGED <<queue, attempt, cancelled, generator, last>>

\* Mutant: the finally clause puts the sentinel whatever happened.
SentinelAlways == producer # "before" /\ item # "None"

\* The finally clause puts no sentinel if run() was cancelled.  A cancellation that
\* strikes in the handler of another exception, where the put of the error event waits
\* for room, does not set the local `cancelled'.
SentinelFollows == producer = "putting" /\ item = "error" /\ Len(queue) = maxsize

\* The producer is cancelled where it waits: in a call or in a put.
CancelStrikes ==
  /\ cancelled /\ producer # "ended"
  /\ cancelled' = FALSE
  /\ producer' = IF SentinelFollows THEN "putting" ELSE "ended"
  /\ item' = "None"
  /\ UNCHANGED <<queue, attempt, generator, last>>

-----------------------------------------------------------------------------
(* The generator of the response *)

Takes ==
  /\ generator = "waiting" /\ queue # <<>>
  /\ queue' = Tail(queue)
  /\ last' = Head(queue)
  /\ generator' = IF Head(queue) = "None" THEN "closing" ELSE "sending"
  /\ UNCHANGED <<producer, attempt, item, cancelled>>

\* The client has taken the event.
Sends ==
  /\ generator = "sending"
  /\ generator' = "waiting"
  /\ UNCHANGED <<queue, producer, attempt, item, cancelled, last>>

\* The client leaves, or an event cannot be serialised: the finally clause runs.
Leaves ==
  /\ generator \in {"waiting", "sending"}
  /\ generator' = "closing"
  /\ cancelled' = (producer # "ended")
  /\ UNCHANGED <<queue, producer, attempt, item, last>>

\* gather(producer) returns.
Closes ==
  /\ generator = "closing" /\ producer = "ended"
  /\ generator' = "closed"
  /\ UNCHANGED <<queue, producer, attempt, item, cancelled, last>>

ReflexionNext ==
  \/ \E blank \in BOOLEAN : ProducerStarts(blank)
  \/ \E accepted \in BOOLEAN : Puts(accepted)
  \/ \E raised \in BOOLEAN : CallReturns(raised)
  \/ CancelStrikes \/ Takes \/ Sends \/ Leaves \/ Closes

\* The loop runs every task that can run, model calls end by their timeouts, and a
\* client that does not take an event leaves, or its connection breaks.
ReflexionFairness ==
  /\ WF_reflexionVars(\E blank \in BOOLEAN : ProducerStarts(blank))
  /\ WF_reflexionVars(\E accepted \in BOOLEAN : Puts(accepted))
  /\ WF_reflexionVars(\E raised \in BOOLEAN : CallReturns(raised))
  /\ WF_reflexionVars(CancelStrikes)
  /\ WF_reflexionVars(Takes)
  /\ WF_reflexionVars(Sends \/ Leaves)
  /\ WF_reflexionVars(Closes)
=============================================================================

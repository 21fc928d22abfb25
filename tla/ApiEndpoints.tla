---------------------------- MODULE ApiEndpoints ----------------------------
(***************************************************************************)
(* Endpoints of the API that share nothing: the event streams of tasks,    *)
(* next to the other calls of the async-task dependency; a reflexion       *)
(* stream; the requests that gather calls; and the readiness check.  A     *)
(* behaviour has one of them.                                              *)
(***************************************************************************)
EXTENDS TaskStream, ReflexionStream, GatheredCalls, Readiness

VARIABLE endpoint   \* task, reflexion, gather or readiness

allVars == <<vars, streamVars, reflexionVars, gatherVars, readinessVars, endpoint>>

NoReflexion ==
  /\ queue = <<>> /\ producer = "ended" /\ attempt = 1 /\ item = "None"
  /\ cancelled = FALSE /\ generator = "closed" /\ last = "nothing"

\* The states of the endpoints that are not used.
NoVotes == GatherInit /\ service = "vote"
NoCheck == ReadinessInit /\ state = [d \in All |-> "2xx"]

EndpointsInit ==
  /\ StreamInit
  /\ \/ endpoint = "task" /\ NoReflexion /\ NoVotes /\ NoCheck
     \/ endpoint = "reflexion" /\ ReflexionInit /\ NoVotes /\ NoCheck
     \/ endpoint = "gather" /\ NoReflexion /\ GatherInit /\ NoCheck
     \/ endpoint = "readiness" /\ NoReflexion /\ NoVotes /\ ReadinessInit

EndpointsNext ==
  \/ /\ endpoint = "task" /\ StreamNext
     /\ UNCHANGED <<reflexionVars, gatherVars, readinessVars, endpoint>>
  \/ /\ endpoint = "reflexion" /\ ReflexionNext
     /\ UNCHANGED <<vars, streamVars, gatherVars, readinessVars, endpoint>>
  \/ /\ endpoint = "gather" /\ GatherNext
     /\ UNCHANGED <<vars, streamVars, reflexionVars, readinessVars, endpoint>>
  \/ /\ endpoint = "readiness" /\ ReadinessNext
     /\ UNCHANGED <<vars, streamVars, reflexionVars, gatherVars, endpoint>>

EndpointsSpec ==
  EndpointsInit /\ [][EndpointsNext]_allVars /\ StreamFairness /\ ReflexionFairness

-----------------------------------------------------------------------------
\* A reflexion request comes to its end, with its producer gone: when the service fails,
\* when the queue is full and the client has left, and when both happen (the comment in
\* produce() on the sentinel).
StreamEnds == endpoint = "reflexion" ~> generator = "closed" /\ producer = "ended"
=============================================================================

------------------------------ MODULE MCTools ------------------------------
(* Two runs of one context; the second makes a single tool call. *)
EXTENDS AgentRun, TLC

CONSTANTS r1, r2

MCMaxCalls == (r1 :> 3) @@ (r2 :> 1)
=============================================================================

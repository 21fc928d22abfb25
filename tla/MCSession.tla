----------------------------- MODULE MCSession -----------------------------
(***************************************************************************)
(* An instance of AgentSession for TLC: two requests, each of either of    *)
(* two owners, and two grants for one idempotency key with different       *)
(* arguments.                                                              *)
(***************************************************************************)
EXTENDS AgentSession, TLC

CONSTANTS r1, r2, k1, g1, g2, opA, opB, alice, bob

MCKeyOf == [g \in {g1, g2} |-> k1]
MCOpOf == [g \in {g1, g2} |-> IF g = g1 THEN opA ELSE opB]
Symmetry == Permutations(Request) \cup Permutations(Owner)
=============================================================================

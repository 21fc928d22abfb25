---------------------------- MODULE MCEndpoints ----------------------------
(***************************************************************************)
(* An instance of ApiEndpoints for TLC, with the pure algorithms of the    *)
(* sibling workflows checked over all small inputs.                        *)
(***************************************************************************)
EXTENDS ApiEndpoints

CONSTANTS yes, YES, no

MCCasefold == [a \in Answer |-> IF a = YES THEN yes ELSE a]
MCLevels == {<<{1, 2}, {3}>>}

\* What majority and chain compute, over all small inputs.
ASSUME MajorityIsRight == \A n \in 1 .. 4 : \A votes \in [1 .. n -> Answer] : VerdictIsRight(votes)

MCSteps == [gate_min_length : {0, 2}, gate_must_contain : BOOLEAN, gate_must_match : {"none", "valid", "invalid"}]
MCOutputs == [length : {1, 2}, contains : BOOLEAN, matches : BOOLEAN]

ASSUME ChainIsExact ==
  \A steps \in [1 .. 2 -> MCSteps], outputs \in [1 .. 2 -> MCOutputs] : ReplyIsExact(steps, outputs)
=============================================================================

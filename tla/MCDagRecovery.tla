--------------------------- MODULE MCDagRecovery ---------------------------
(***************************************************************************)
(* An instance of DagPlanning for TLC: the plan, a node, and next to each  *)
(* other a second node and the synthesis that use the first one's result.  *)
(* The checkpoint has room for three of the four.                          *)
(***************************************************************************)
EXTENDS DagPlanning

CONSTANTS planned, n1, n2, syn

MCKey == {planned, n1, n2, syn}
MCDependsOn ==
  [k \in MCKey |-> CASE k = planned -> {} [] k = n1 -> {planned} [] OTHER -> {planned, n1}]
MCSynthesis == {planned, syn}
MCNode == {n1, n2}
=============================================================================

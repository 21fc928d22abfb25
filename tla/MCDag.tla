------------------------------- MODULE MCDag -------------------------------
(***************************************************************************)
(* An instance of DagExecution for TLC: run r1 of the general service with *)
(* one replan, over a chain of two tasks, revised into the same chain, a   *)
(* changed one, two independent tasks or a cycle; run r2 of another        *)
(* tenant, of the process service, with one task.  One slot for both.      *)
(***************************************************************************)
EXTENDS DagExecution

CONSTANTS r1, r2, n1, n2, old, new, alice, bob

Of(T, D, c) == [tasks |-> T, deps |-> [n \in Node |-> IF n \in T THEN D[n] ELSE {}],
                desc |-> [n \in Node |-> IF n = n1 THEN c ELSE old]]

None == [n \in Node |-> {}]
Chain == [n \in Node |-> IF n = n2 THEN {n1} ELSE {}]
Cycle == [n \in Node |-> {n1, n2} \ {n}]

MCRequested == [r \in Run |-> IF r = r1 THEN {Of(Node, Chain, old)} ELSE {Of({n1}, None, old)}]
MCRevised == [r \in Run |-> {Of(Node, Chain, old), Of(Node, Chain, new), Of(Node, None, old),
                             Of(Node, Cycle, old)}]
MCCalls == [r \in Run |-> IF r = r1 THEN 5 ELSE 1]
MCTenant == [r \in Run |-> IF r = r1 THEN alice ELSE bob]
=============================================================================

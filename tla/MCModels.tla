------------------------------ MODULE MCModels ------------------------------
(* Two model calls, both of roles of a DAG run or both of conversations. *)
EXTENDS DagDiagnostics, TLC

Symmetry == Permutations(Call)

Paths(dependencies) ==
  {p \in UNION {[1 .. n -> DOMAIN dependencies] : n \in 1 .. 3} : IsPath(p, dependencies)}

\* critical_paths returns a dependency path, and none takes longer: for all graphs of
\* three nodes and execution times up to 2.
ASSUME CriticalPathIsLongest ==
  \A ms \in [1 .. 3 -> 0 .. 2] :
    \A dependencies \in {d \in [1 .. 3 -> SUBSET (1 .. 3)] : \A n \in 1 .. 3 : d[n] \subseteq 1 .. n - 1} :
      /\ CriticalPathIsPath(ms, dependencies)
      /\ \A p \in Paths(dependencies) : CriticalPathCovers(ms, dependencies, p)
=============================================================================

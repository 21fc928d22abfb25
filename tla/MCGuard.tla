------------------------------ MODULE MCGuard ------------------------------
(* Instances of DependencyGuard for TLC. *)
EXTENDS DependencyGuard
=============================================================================

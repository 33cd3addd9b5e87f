-------------------------- MODULE MCApplicationSync --------------------------
(***************************************************************************)
(* Small instances of ApplicationSync for TLC.  Dispatcher and worker      *)
(* executions are interchangeable; application ids are not, because the    *)
(* code orders rows by id.                                                 *)
(***************************************************************************)
EXTENDS ApplicationSync, TLC

Symmetry == Permutations(Dispatcher) \cup Permutations(Worker)
=============================================================================

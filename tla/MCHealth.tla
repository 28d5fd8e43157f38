------------------------------ MODULE MCHealth ------------------------------
(***************************************************************************)
(* Instances of the health report for TLC.  Handlers are interchangeable.  *)
(***************************************************************************)
EXTENDS HealthProps, TLC

Symmetry == Permutations(Handler)
=============================================================================

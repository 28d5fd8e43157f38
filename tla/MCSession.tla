------------------------------ MODULE MCSession ------------------------------
(***************************************************************************)
(* Instances of the session core for TLC.  Requests are interchangeable:   *)
(* their slots are model values and only tested for equality.              *)
(***************************************************************************)
EXTENDS SessionProps, TLC

Symmetry == Permutations(Req)
=============================================================================

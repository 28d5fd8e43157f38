------------------------------ MODULE MCServing ------------------------------
(***************************************************************************)
(* An instance of the processes for TLC.                                   *)
(***************************************************************************)
EXTENDS ServingProps
=============================================================================

------------------------------ MODULE MCLoggers ------------------------------
(***************************************************************************)
(* An instance of the loggers for TLC.  Loggers, slices and the writers    *)
(* other than Stdout are only tested for equality.                         *)
(***************************************************************************)
EXTENDS LoggersProps, TLC

Symmetry == Permutations(Logger) \cup Permutations(Slice)
=============================================================================

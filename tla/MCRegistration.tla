--------------------------- MODULE MCRegistration ---------------------------
(***************************************************************************)
(* Instances of registration for TLC.  Addresses, names, passwords, codes  *)
(* and requests are model values that are only tested for equality.        *)
(***************************************************************************)
EXTENDS RegistrationProps, TLC

Symmetry ==
    Permutations(Req) \cup Permutations(Email) \cup Permutations(Name)
        \cup Permutations(Password) \cup Permutations(Code)
=============================================================================

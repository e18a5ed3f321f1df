---------------------------- MODULE MCEnrollment ----------------------------
(* Enrollment for TLC: every constant set is of model values that are only    *)
(* compared.                                                                  *)
EXTENDS Enrollment, TLC

Symmetry == Permutations(Account) \union Permutations(Phone)
            \union Permutations(Device) \union Permutations(Request)
            \union Permutations(Dir)
=============================================================================

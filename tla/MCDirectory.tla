---------------------------- MODULE MCDirectory ----------------------------
(* Instances of Directory for TLC.  Every constant set is of model values     *)
(* that the specification only compares, so it is symmetric in each of them.  *)
EXTENDS Directory, TLC

Symmetry == Permutations(Account) \union Permutations(Phone)
            \union Permutations(Device) \union Permutations(Request)
            \union Permutations(Password)
=============================================================================

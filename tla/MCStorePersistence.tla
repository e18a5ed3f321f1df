------------------------ MODULE MCStorePersistence ------------------------
(***************************************************************************)
(* StorePersistence for TLC: two requests whose changes make the state's   *)
(* text longer and one (an acknowledgement) that makes it shorter.  Texts  *)
(* are of one or of two chunks, as long as others, or longer or shorter by *)
(* one unit or more.                                                       *)
(***************************************************************************)
EXTENDS StorePersistence, FiniteSets, TLC

CONSTANTS r1, r2, r3

Growing == {r1, r2}
Lengths == [S \in SUBSET Request |->
              3 + 2 * Cardinality(S \intersect Growing) - Cardinality(S \ Growing)]

Symmetry == Permutations(Growing)
=============================================================================

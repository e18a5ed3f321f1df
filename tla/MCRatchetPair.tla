--------------------------- MODULE MCRatchetPair ---------------------------
(* RatchetPair for TLC: the devices are interchangeable but for how much each *)
(* of them writes.                                                            *)
EXTENDS RatchetPair, TLC

AliceWritesMore == Alice :> 4 @@ Bob :> 3
=============================================================================

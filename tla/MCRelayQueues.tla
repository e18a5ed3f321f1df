--------------------------- MODULE MCRelayQueues ---------------------------
(* Instances of RelayQueues for TLC: inboxes, envelopes and pull requests are *)
(* model values that are only compared.                                       *)
EXTENDS RelayQueues, TLC

Symmetry == Permutations(Inbox) \union Permutations(Envelope)
            \union Permutations(Puller)
=============================================================================

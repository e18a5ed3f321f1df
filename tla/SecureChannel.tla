--------------------------- MODULE SecureChannel ---------------------------
(***************************************************************************)
(* What the ratchet promises the two ends of a pair, whatever the relay    *)
(* delivers, and in whatever order: a device reads only texts its peer has *)
(* written to it, and no text twice.                                       *)
(***************************************************************************)
EXTENDS Naturals, Sequences

CONSTANTS
    Alice, Bob,     \* the two ends
    MaxSent         \* bound: texts each of them writes

End == {Alice, Bob}
Other(d) == IF d = Alice THEN Bob ELSE Alice

VARIABLES
    written,    \* how many texts each end has written
    read        \* the texts each end has read, in order

Init ==
    /\ written = [d \in End |-> 0]
    /\ read = [d \in End |-> << >>]

\* The n-th text of d is <<d, n>>.
Write(d) ==
    /\ written[d] < MaxSent[d]
    /\ written' = [written EXCEPT ![d] = @ + 1]
    /\ UNCHANGED read

Read(d) ==
    /\ \E n \in 1..written[Other(d)] :
          LET text == <<Other(d), n>> IN
          /\ \A i \in DOMAIN read[d] : read[d][i] # text
          /\ read' = [read EXCEPT ![d] = Append(@, text)]
    /\ UNCHANGED written

Next == \E d \in End : Write(d) \/ Read(d)

Spec == Init /\ [][Next]_<<written, read>>
=============================================================================

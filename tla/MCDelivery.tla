---------------------------- MODULE MCDelivery ----------------------------
(***************************************************************************)
(* Delivery for TLC: Alice with one device, Bob with one or two.           *)
(***************************************************************************)
EXTENDS Delivery, TLC

CONSTANTS Alice, Bob, a, b1, b2

Accounts == {Alice, Bob}
OneEach == Alice :> <<a>> @@ Bob :> <<b1>>
TwoForBob == Alice :> <<a>> @@ Bob :> <<b1, b2>>

\* Commands at once: one on each device; two on Alice's, with Bob's second
\* device unused.
OneSlot == [d \in Device |-> 1]
TwoForAlice == a :> 2 @@ b1 :> 1 @@ b2 :> 0

\* Who writes.
AliceWritesOne == [d \in Device |-> IF d = a THEN 1 ELSE 0]
AliceWritesThree == [d \in Device |-> IF d = a THEN 3 ELSE 0]
AliceWritesTwo == [d \in Device |-> IF d = a THEN 2 ELSE 0]

\* What may fail: nothing, Alice's sends and Bob's syncs, or Alice's sends and
\* saves and Bob's whole state.
Nothing == {}
SendsAndBobsSyncs == {<<a, "send">>, <<b1, "sync">>}
BobsSyncs == {<<b1, "sync">>}
SendsSavesAndARestore == {<<a, "send">>, <<a, "save">>, <<b1, "restore">>}
=============================================================================

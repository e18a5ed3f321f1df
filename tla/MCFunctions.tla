---------------------------- MODULE MCFunctions ----------------------------
(***************************************************************************)
(* The transparency log and the pure functions for TLC: a behaviour either *)
(* grows and edits a log, or is one state that holds one function's input. *)
(***************************************************************************)
EXTENDS TransparencyLog, Handshake, TransportPolicy, MediaManifest

CONSTANTS
    MaxSize     \* bound: bytes of a medium

VARIABLE input

vars == <<log, noted, edits, behind, input>>

Initiators == [identity: {"ia"}, ephemeral: {"ea"},
               theirIdentity: {"ib1", "ib2"}, theirSignedPreKey: {"sb1", "sb2"},
               theirOneTimePreKey: {NoKey, "ob1"}, info: {"v1", "v2"},
               provider: {[name |-> "kem1", usable |-> TRUE],
                          [name |-> "kem2", usable |-> TRUE],
                          [name |-> "kem1", usable |-> FALSE]},
               theirKemKey: {"kb1", "kb2"}]

Responders == [identity: {"ib1"}, signedPreKey: {"sb1"}, oneTimePreKey: {NoKey, "ob1", "ob2"},
               theirIdentity: {"ia", "ic"}, theirEphemeral: {"ea", "ec"}, info: {"v1"},
               provider: {[name |-> "kem1", usable |-> TRUE],
                          [name |-> "kem1", usable |-> FALSE]},
               kemKey: {"kb1"}]

Envelopes == [priority: {"normal", "urgent"},
              payloadType: {"message", "ack", "emergency_control"},
              contentBytes: {MAX_SMS_CONTROL_BYTES, MAX_SMS_CONTROL_BYTES + 1}]

Contexts == [internet: {"yes", "no", "unknown"}, primaryRelay: BOOLEAN,
             secondaryRelay: BOOLEAN, nearbyPeers: BOOLEAN, smsControl: BOOLEAN,
             censorshipProfile: {"normal", "severe"}]

Inputs == [for: {"log"}]
          \union [for: {"handshake"}, initiator: Initiators, responder: Responders]
          \union [for: {"policy"}, envelope: Envelopes, context: Contexts]
          \union [for: {"media"}, size: 1..MaxSize, chunkSize: 1 .. MaxSize + 1]

Init == LogInit /\ input \in Inputs

Next == input.for = "log" /\ LogNext /\ UNCHANGED input

Spec == Init /\ [][Next]_vars

----------------------------------------------------------------------------
(* Properties *)

\* The two sides of a handshake derive the same secret, classical or combined,
\* exactly when each means the keys the other has: any difference in identity,
\* ephemeral, signed or one-time prekey, label or encapsulation is a different
\* secret, and a side without a provider gets none.
HandshakeAgrees ==
    input.for = "handshake" =>
        /\ X3dhAgrees(input.initiator, input.responder)
        /\ PqxdhAgrees(input.initiator, input.responder)

\* The ranking gives up no usable path, and departs from the documented order
\* in the cases TransportPolicy names and in no other.
PathsAreOrdered ==
    input.for = "policy" => RanksAsDocumented(input.envelope, input.context)

\* Chunks cover a medium, each byte once, at sizes below, at and above a
\* multiple of the chunk size.
ChunksTileMedia ==
    input.for = "media" => Tiles(input.size, input.chunkSize)
=============================================================================

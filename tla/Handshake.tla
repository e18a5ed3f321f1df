----------------------------- MODULE Handshake -----------------------------
(***************************************************************************)
(* The X3DH adapter (src/client/x3dh.js) and the post-quantum one on top   *)
(* of it (src/client/pqxdh.js), with symbolic keys: a Diffie-Hellman       *)
(* output is the set of the two key pairs it is made of, a derived secret  *)
(* is what it is derived from.                                             *)
(*                                                                         *)
(* The key encapsulation is the caller's: a provider that is usable makes  *)
(* a ciphertext that decapsulates to the encapsulated secret with the key  *)
(* it was made for, and to another secret with any other.                  *)
(***************************************************************************)
EXTENDS Naturals, Sequences

NoKey == "none"
Failed == [ok |-> FALSE]

DiffieHellman(key, other) == {key, other}

\* x3dhKdf and hkdf
x3dhKdf(outputs, info) == <<"x3dh", info, outputs>>

\* An initiator has its identity and ephemeral keys and the bundle it was
\* given; a responder has its own keys and what the first message names.
deriveX3dhInitiatorSecret(i) ==
    x3dhKdf(<<DiffieHellman(i.identity, i.theirSignedPreKey),
              DiffieHellman(i.ephemeral, i.theirIdentity),
              DiffieHellman(i.ephemeral, i.theirSignedPreKey)>>
            \o IF i.theirOneTimePreKey = NoKey THEN << >>
               ELSE <<DiffieHellman(i.ephemeral, i.theirOneTimePreKey)>>,
            i.info)

\* Mutant: the one-time prekey goes with the initiator's identity.
deriveWithIdentityTwice(r) ==
    x3dhKdf(<<DiffieHellman(r.signedPreKey, r.theirIdentity),
              DiffieHellman(r.identity, r.theirEphemeral),
              DiffieHellman(r.signedPreKey, r.theirEphemeral)>>
            \o IF r.oneTimePreKey = NoKey THEN << >>
               ELSE <<DiffieHellman(r.oneTimePreKey, r.theirIdentity)>>,
            r.info)

deriveX3dhResponderSecret(r) ==
    x3dhKdf(<<DiffieHellman(r.signedPreKey, r.theirIdentity),
              DiffieHellman(r.identity, r.theirEphemeral),
              DiffieHellman(r.signedPreKey, r.theirEphemeral)>>
            \o IF r.oneTimePreKey = NoKey THEN << >>
               ELSE <<DiffieHellman(r.oneTimePreKey, r.theirEphemeral)>>,
            r.info)

----------------------------------------------------------------------------

combinePqxdhSharedSecret(x3dh, kem, name) == <<"pqxdh", name, x3dh, kem>>

\* What a provider encapsulates for a key, and what decapsulating gives.
Encapsulation(provider, key) == <<provider.name, key>>
Decapsulation(provider, key, ciphertext) ==
    IF ciphertext = Encapsulation(provider, key) THEN ciphertext
    ELSE <<"rejected", key, ciphertext>>

\* encapsulatePqxdhSecret.  assertPqxdhKemProvider throws without a provider.
encapsulatePqxdhSecret(i) ==
    IF ~i.provider.usable THEN Failed
    ELSE LET kem == Encapsulation(i.provider, i.theirKemKey) IN
         [ok |-> TRUE, ciphertext |-> kem,
          secret |-> combinePqxdhSharedSecret(deriveX3dhInitiatorSecret(i), kem,
                                              i.provider.name)]

decapsulatePqxdhSecret(r, ciphertext) ==
    IF ~r.provider.usable THEN Failed
    ELSE LET kem == Decapsulation(r.provider, r.kemKey, ciphertext) IN
         [ok |-> TRUE,
          secret |-> combinePqxdhSharedSecret(deriveX3dhResponderSecret(r), kem,
                                              r.provider.name)]

----------------------------------------------------------------------------
(* What the two sides may count on *)

\* Each side means the keys the other has.
SameX3dh(i, r) ==
    /\ i.theirIdentity = r.identity /\ r.theirIdentity = i.identity
    /\ i.theirSignedPreKey = r.signedPreKey
    /\ i.theirOneTimePreKey = r.oneTimePreKey
    /\ r.theirEphemeral = i.ephemeral
    /\ i.info = r.info

SameKem(i, r) == i.provider = r.provider /\ i.theirKemKey = r.kemKey

\* The classical secrets agree exactly when each side means the other's keys.
X3dhAgrees(i, r) ==
    deriveX3dhInitiatorSecret(i) = deriveX3dhResponderSecret(r) <=> SameX3dh(i, r)

\* So do the combined ones, and neither side ends with a secret when it has no
\* provider: there is no way down to the classical secret.
PqxdhAgrees(i, r) ==
    LET sent == encapsulatePqxdhSecret(i)
        received == IF sent.ok THEN decapsulatePqxdhSecret(r, sent.ciphertext) ELSE Failed
        agreed == sent.ok /\ received.ok /\ sent.secret = received.secret
    IN agreed <=> SameX3dh(i, r) /\ SameKem(i, r) /\ i.provider.usable
=============================================================================

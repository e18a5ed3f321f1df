------------------------------ MODULE Ratchet ------------------------------
(***************************************************************************)
(* The pairwise ratchet of src/client/ratchet.js: the session a device     *)
(* keeps for a remote device, sealing and opening with it.                 *)
(*                                                                         *)
(* Keys are symbolic.  A key pair is named by its owner; the secret of a   *)
(* Diffie-Hellman exchange is the set of the two names, so both sides get  *)
(* the same one; a derived key is the record of what it is derived from.   *)
(* Two derivations give the same key exactly when their inputs are equal,  *)
(* and a ciphertext opens under the message key it was sealed with, with   *)
(* the same associated data, and no other.  A signed body is delivered     *)
(* unchanged or not at all.                                                *)
(***************************************************************************)
EXTENDS Naturals, Sequences

CONSTANTS
    MaxSkip        \* MAX_SKIP: most keys one message may skip

ASSUME SkipAssumption == MaxSkip \in Nat

----------------------------------------------------------------------------
(* Key pairs *)

NoKey == <<"none">>
IdentityKey(d) == <<"identity", d>>
SignedPreKey(d) == <<"signed-prekey", d>>
OneTimePreKey(d, k) == <<"one-time-prekey", d, k>>
RatchetKey(d, n) == <<"ratchet", d, n>>     \* the n-th d ever generated

diffieHellman(key, other) == {key, other}

----------------------------------------------------------------------------
(* Derivation *)

\* deriveInitialRootKey.  Both roles mix the two identity keys, the
\* initiator's with the responder's signed prekey, and with the one-time
\* prekey if the initiator was given one; ownPreKeys are the one-time prekeys
\* the responder can still find.
InitiatorRoot(d, remote, preKey) ==
    [secrets |-> {diffieHellman(IdentityKey(d), IdentityKey(remote)),
                  diffieHellman(IdentityKey(d), SignedPreKey(remote))}
                 \union {diffieHellman(IdentityKey(d), k) : k \in {preKey} \ {NoKey}},
     steps |-> << >>]

ResponderRoot(d, remote, preKey, ownPreKeys) ==
    [secrets |-> {diffieHellman(IdentityKey(d), IdentityKey(remote)),
                  diffieHellman(SignedPreKey(d), IdentityKey(remote))}
                 \union {diffieHellman(k, IdentityKey(remote)) :
                            k \in {preKey} \intersect ownPreKeys},
     steps |-> << >>]

\* deriveInitialChainKey: one chain for each direction.
InitialChain(root, sender, recipient) ==
    [root |-> root, label |-> <<sender, recipient>>, index |-> 0]

\* deriveDhRatchetStep: the root that follows, and the chain that goes with it.
NextRoot(root, secret, sender, recipient) ==
    [root EXCEPT !.steps = Append(@, <<secret, sender, recipient>>)]

TurnChain(root) == [root |-> root, label |-> << >>, index |-> 0]

\* stepChain.  The index of a chain is the number of steps taken from its
\* start; a chain key and the message key of the same step have the same name.
NextChain(chain) == [chain EXCEPT !.index = @ + 1]

----------------------------------------------------------------------------
(* Sessions *)

NoSession == [role |-> "none"]

\* createPairwiseSession, with the fresh ratchet key pair it generates.
NewSession(d, remote, role, root, preKey, own) ==
    [role |-> role, local |-> d, peer |-> remote, preKey |-> preKey, root |-> root,
     own |-> own, remote |-> NoKey,
     send |-> InitialChain(root, d, remote),
     receive |-> InitialChain(root, remote, d),
     skipped |-> {}]

NewInitiator(d, remote, preKey, own) ==
    NewSession(d, remote, "initiator", InitiatorRoot(d, remote, preKey), preKey, own)

NewResponder(d, remote, message, ownPreKeys, own) ==
    NewSession(d, remote, "responder",
               ResponderRoot(d, remote, message.preKey, ownPreKeys),
               message.preKey, own)

\* sealWithSession: the signed body.  key stands for what the ciphertext needs.
Sealed(session, text) ==
    [from |-> session.local, to |-> session.peer, ratchet |-> session.own,
     index |-> session.send.index, preKey |-> session.preKey,
     key |-> session.send, text |-> text]

\* Mutant: the chain is not advanced.
AfterSealInPlace(session) == session

\* The session sealWithSession returns.
AfterSeal(session) == [session EXCEPT !.send = NextChain(@)]

----------------------------------------------------------------------------
(* Opening *)

\* The two steps of a turn: the receiving chain from the key pair at hand, the
\* sending chain from a fresh one.
ReceiveRoot(session, theirs) ==
    NextRoot(session.root, diffieHellman(session.own, theirs),
             session.peer, session.local)

Turn(session, theirs, fresh) ==
    LET received == ReceiveRoot(session, theirs)
        sent == NextRoot(received, diffieHellman(fresh, theirs),
                         session.local, session.peer)
    IN [session EXCEPT !.root = sent, !.own = fresh, !.remote = theirs,
                       !.send = TurnChain(sent), !.receive = TurnChain(received)]

\* A responder's first message: only the sending chain is new.
FirstAnswer(session, theirs) ==
    LET sent == NextRoot(session.root, diffieHellman(session.own, theirs),
                         session.local, session.peer)
    IN [session EXCEPT !.root = sent, !.remote = theirs, !.send = TurnChain(sent)]

\* maybeAdvanceDhRatchet.  Only a turn on an established session drops the
\* skipped message keys (before that there are none).
Advanced(session, theirs, fresh) ==
    IF theirs = session.remote THEN session
    ELSE IF session.remote = NoKey /\ session.receive.index = 0
    THEN IF session.role = "initiator" THEN Turn(session, theirs, fresh)
                                       ELSE FirstAnswer(session, theirs)
    ELSE [Turn(session, theirs, fresh) EXCEPT !.skipped = {}]

\* Mutant: the key of the message itself is stored too.
SkippingTooFar(session, until) ==
    [session EXCEPT
        !.skipped = @ \union {[ratchet |-> session.remote, index |-> i,
                               key |-> [session.receive EXCEPT !.index = i]] :
                              i \in session.receive.index .. until},
        !.receive = [@ EXCEPT !.index = until]]

\* storeSkippedKeysUntil: the keys of the messages that were passed over.
Skipping(session, until) ==
    [session EXCEPT
        !.skipped = @ \union {[ratchet |-> session.remote, index |-> i,
                               key |-> [session.receive EXCEPT !.index = i]] :
                              i \in session.receive.index .. until - 1},
        !.receive = [@ EXCEPT !.index = until]]

Refused == [ok |-> FALSE]
Accepted(session, text) == [ok |-> TRUE, session |-> session, text |-> text]

\* decryptWithMessageKey
Decrypted(key, message, session) ==
    IF key = message.key THEN Accepted(session, message.text) ELSE Refused

\* Mutant: a skipped key is used and kept.
OpenedKeepingKey(session, message, fresh) ==
    LET working == Advanced(session, message.ratchet, fresh)
        stored == {s \in working.skipped :
                      s.ratchet = message.ratchet /\ s.index = message.index}
    IN IF stored # {}
       THEN LET s == CHOOSE x \in stored : TRUE
            IN Decrypted(s.key, message, working)
       ELSE IF message.index < working.receive.index \/
               message.index - working.receive.index > MaxSkip
       THEN Refused
       ELSE LET caughtUp == Skipping(working, message.index)
            IN Decrypted(caughtUp.receive, message,
                         [caughtUp EXCEPT !.receive = NextChain(@)])

\* Mutant: messages that were passed over are given up.
OpenedWithoutSkipped(session, message, fresh) ==
    LET working == Advanced(session, message.ratchet, fresh)
    IN IF message.index < working.receive.index \/
          message.index - working.receive.index > MaxSkip
       THEN Refused
       ELSE Decrypted([working.receive EXCEPT !.index = message.index], message,
                      [working EXCEPT !.receive = NextChain([@ EXCEPT !.index = message.index])])

\* openWithSession.  What is refused throws and leaves the caller's session as
\* it was; what is accepted returns the new session and the text.
Opened(session, message, fresh) ==
    LET working == Advanced(session, message.ratchet, fresh)
        stored == {s \in working.skipped :
                      s.ratchet = message.ratchet /\ s.index = message.index}
    IN IF stored # {}
       THEN LET s == CHOOSE x \in stored : TRUE
            IN Decrypted(s.key, message, [working EXCEPT !.skipped = @ \ {s}])
       ELSE IF message.index < working.receive.index \/
               message.index - working.receive.index > MaxSkip
       THEN Refused
       ELSE LET caughtUp == Skipping(working, message.index)
            IN Decrypted(caughtUp.receive, message,
                         [caughtUp EXCEPT !.receive = NextChain(@)])
=============================================================================

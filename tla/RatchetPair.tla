---------------------------- MODULE RatchetPair ----------------------------
(***************************************************************************)
(* Two devices that exchange messages through the ratchet, each saving its *)
(* session after every message it sends or opens: the uses of ratchet.js   *)
(* in sendTextMessage and syncInboxWithApi (src/client/workflow.js), with  *)
(* the relay between them reduced to what it may do to messages: deliver   *)
(* them in any order, deliver one again, and drop the ones whose time to   *)
(* live is over.                                                           *)
(***************************************************************************)
EXTENDS Ratchet

CONSTANTS
    Alice, Bob,     \* the two devices
    Initiators,     \* the devices that may write first
    Repliers,       \* the devices that may write on a session they have
    MaxSent         \* bound: messages each device sends

Device == {Alice, Bob}
Peer(d) == IF d = Alice THEN Bob ELSE Alice

ASSUME PairAssumption ==
    /\ Alice # Bob
    /\ Initiators \subseteq Device /\ Repliers \subseteq Device
    /\ MaxSent \in [Device -> Nat]

VARIABLES
    session,    \* the session each device has saved for the other
    generated,  \* ratchet key pairs each device has generated
    inbox,      \* messages on their way to a device, oldest first
    sealed,     \* history: every message a device sealed, in order
    opened,     \* history: the messages each device opened, in order
    read        \* history: the texts openWithSession returned to each device

vars == <<session, generated, inbox, sealed, opened, read>>

----------------------------------------------------------------------------

Init ==
    /\ session = [d \in Device |-> NoSession]
    /\ generated = [d \in Device |-> 0]
    /\ inbox = [d \in Device |-> << >>]
    /\ sealed = [d \in Device |-> << >>]
    /\ opened = [d \in Device |-> << >>]
    /\ read = [d \in Device |-> << >>]

Fresh(d) == RatchetKey(d, generated[d] + 1)

\* d has one more key pair if the session it saves has a new one.
Save(d, s) ==
    /\ session' = [session EXCEPT ![d] = s]
    /\ generated' = [generated EXCEPT ![d] = IF s.own = Fresh(d) THEN @ + 1 ELSE @]

\* Seal a text with session s, save and send.
SendWith(d, s) ==
    LET message == Sealed(s, <<d, Len(sealed[d]) + 1>>) IN
    /\ Len(sealed[d]) < MaxSent[d]
    /\ Save(d, AfterSeal(s))
    /\ inbox' = [inbox EXCEPT ![Peer(d)] = Append(@, message)]
    /\ sealed' = [sealed EXCEPT ![d] = Append(@, message)]
    /\ UNCHANGED <<opened, read>>

\* The first message, with the prekey the directory hands out if one is left.
SendFirst(d, preKey) ==
    /\ d \in Initiators
    /\ session[d] = NoSession
    /\ SendWith(d, NewInitiator(d, Peer(d), preKey, Fresh(d)))

Send(d) ==
    /\ d \in Repliers
    /\ session[d] # NoSession
    /\ SendWith(d, session[d])

\* getOrCreatePairwiseSession on the receiving side, then openWithSession.  A
\* device finds every prekey it ever published.
Result(d, message) ==
    LET known == session[d] # NoSession
        s == IF known THEN session[d]
             ELSE NewResponder(d, Peer(d), message, {message.preKey} \ {NoKey}, Fresh(d))
        next == RatchetKey(d, generated[d] + IF known THEN 1 ELSE 2)
    IN Opened(s, message, next)

Without(seq, i) == SubSeq(seq, 1, i - 1) \o SubSeq(seq, i + 1, Len(seq))

\* A message that opens; the relay may keep it and deliver it again.  One that
\* does not open is refused with an error, nothing is saved and it stays where
\* it is.
Receive(d, i) ==
    /\ i \in DOMAIN inbox[d]
    /\ LET result == Result(d, inbox[d][i]) IN
       /\ result.ok
       /\ Save(d, result.session)
       /\ opened' = [opened EXCEPT ![d] = Append(@, inbox[d][i])]
       /\ read' = [read EXCEPT ![d] = Append(@, result.text)]
    /\ inbox' \in {inbox, [inbox EXCEPT ![d] = Without(@, i)]}
    /\ UNCHANGED sealed

\* The relay drops a message whose time to live is over.
Expire(d) ==
    /\ inbox[d] # << >>
    /\ inbox' = [inbox EXCEPT ![d] = Tail(@)]
    /\ UNCHANGED <<session, generated, sealed, opened, read>>

Next ==
    \E d \in Device :
        \/ \E preKey \in {NoKey, OneTimePreKey(Peer(d), 1)} : SendFirst(d, preKey)
        \/ Send(d)
        \/ \E i \in 1..MaxSent[Peer(d)] : Receive(d, i)
        \/ Expire(d)

Spec == Init /\ [][Next]_vars

----------------------------------------------------------------------------
(* Properties *)

\* The pair is a secure channel: what openWithSession returns to a device was
\* written to it by its peer, and is returned once.
Channel == INSTANCE SecureChannel WITH written <- [d \in Device |-> Len(sealed[d])]

ChannelSpec == Channel!Spec

Entries(seq) == {seq[i] : i \in DOMAIN seq}

\* d has opened a message its peer sealed on a later chain than m's: by that
\* turn it dropped the keys of m's chain.
Passed(d, m) ==
    \E j, k \in DOMAIN sealed[Peer(d)] :
        /\ j < k
        /\ sealed[Peer(d)][j] = m
        /\ sealed[Peer(d)][k].ratchet # m.ratchet
        /\ sealed[Peer(d)][k] \in Entries(opened[d])

\* The index d expects next on m's chain, which may be one it has not begun.
Expected(d, m) ==
    IF session[d] # NoSession /\ m.ratchet = session[d].remote
    THEN session[d].receive.index ELSE 0

BothInitiate == \A d \in Device : session[d].role = "initiator"

\* A message that d has not opened is refused for three reasons and no other:
\* d has passed its chain, it would skip more than MaxSkip keys, or both sides
\* started a session.  So messages that arrive in order open whatever was lost
\* before them and however the directions interleave, and those of one chain
\* open in any order; docs/protocol-v1.md:28, which asks for "delayed delivery
\* and reordering", is kept up to the first of the three.
RefusedForAReason ==
    \A d \in Device : \A m \in Entries(inbox[d]) \ Entries(opened[d]) :
        \/ Result(d, m).ok
        \/ Passed(d, m)
        \/ m.index > Expected(d, m) + MaxSkip
        \/ BothInitiate

\* docs/crypto-roadmap.md:19, "one message key per outbound message": no two
\* messages, in either direction, are sealed with the same key.
OneKeyPerMessage ==
    \A m, n \in Entries(sealed[Alice]) \union Entries(sealed[Bob]) :
        m.key = n.key => m = n

\* A message that was opened is refused from then on, so a relay that delivers
\* it again cannot have it accepted twice.
NoReplay ==
    \A d \in Device : \A m \in Entries(opened[d]) : ~Result(d, m).ok

\* The skipped keys a device keeps are those of messages it was sent and has
\* not opened: none is left of an opened message, none matches no message.
SkippedKeysAreOwed ==
    \A d \in Device : session[d] # NoSession =>
        \A s \in session[d].skipped :
            \E m \in Entries(sealed[Peer(d)]) \ Entries(opened[d]) :
                /\ m.key = s.key
                /\ m.ratchet = s.ratchet
                /\ m.index = s.index
=============================================================================

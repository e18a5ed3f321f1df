---------------------------- MODULE RelayQueues ----------------------------
(***************************************************************************)
(* The relay's queues: enqueueEnvelope, pullQueue and ackEnvelope of       *)
(* FileBackedStateStore (src/server/state-store.js), with the expiry of    *)
(* items and the revocation of devices.                                    *)
(*                                                                         *)
(* Enqueueing, acknowledging and a pull that finds nothing expired change  *)
(* the state before their first await and are single steps.  A pull that   *)
(* finds expired items puts the filtered array into the state, waits for   *)
(* the state to be written, and only then answers with that array; until   *)
(* then other requests run, and the array it holds may still be the one in *)
(* the state or one that an acknowledgement, another pull or a revocation  *)
(* has replaced.                                                           *)
(*                                                                         *)
(* A queue is a set of items: its array is in the order of the item ids,   *)
(* which push and filter keep, and which the sort by queuedAt keeps while  *)
(* the clock does not go back.                                             *)
(***************************************************************************)
EXTENDS Naturals

CONSTANTS
    Inbox,      \* inboxes of registered devices
    Envelope,   \* envelope ids
    Puller,     \* pull requests that may be under way at once
    Ttl,        \* DEFAULT_RELAY_TTL_MS
    MaxClock,   \* bound: time
    MaxItems    \* bound: items accepted by the relay

ASSUME BoundAssumption == Ttl \in Nat \ {0} /\ MaxClock \in Nat /\ MaxItems \in Nat

VARIABLES
    clock,      \* Date.now()
    revoked,    \* inboxes whose device has been revoked
    queue,      \* relay.queues
    pulls,      \* the pulls that wait for the state to be written
    lastId,     \* items are numbered in the order they are accepted
    accepted,   \* history: every item enqueueEnvelope accepted
    ackedUpTo   \* history: last item accepted when the envelope was last acked

vars == <<clock, revoked, queue, pulls, lastId, accepted, ackedUpTo>>

----------------------------------------------------------------------------

Item == [id: Nat, inbox: Inbox, envelope: Envelope, expiresAt: Nat]

\* A waiting pull and the array it will answer with: the one in the state if
\* shared.  due and after are history: the items that waited, unexpired, when
\* the pull began, and the last item accepted by then.
Pull == [inbox: Inbox, shared: BOOLEAN, items: SUBSET Item,
         due: SUBSET Item, after: Nat]

Idle == [shared |-> FALSE]

TypeOK ==
    /\ clock \in Nat
    /\ revoked \subseteq Inbox
    /\ queue \in [Inbox -> SUBSET Item]
    /\ pulls \in [Puller -> Pull \union {Idle}]
    /\ lastId \in Nat
    /\ accepted \subseteq Item
    /\ ackedUpTo \in [Inbox \X Envelope -> Nat]

Waiting == {p \in Puller : pulls[p] # Idle}

\* Mutant: an item is still handed out at its expiry.
UnexpiredAt(item) == item.expiresAt >= clock

Unexpired(item) == item.expiresAt > clock

\* The state gets a new array for inbox i: a waiting pull that shared the old
\* one keeps it.
Replaced(i, others) ==
    [p \in Puller |->
        IF others[p].shared /\ others[p].inbox = i
        THEN [others[p] EXCEPT !.shared = FALSE, !.items = queue[i]]
        ELSE others[p]]

----------------------------------------------------------------------------

Init ==
    /\ clock = 0
    /\ revoked = {}
    /\ queue = [i \in Inbox |-> {}]
    /\ pulls = [p \in Puller |-> Idle]
    /\ lastId = 0
    /\ accepted = {}
    /\ ackedUpTo = [x \in Inbox \X Envelope |-> 0]

\* The device of inbox s sends envelope e to inbox i.
EnqueueEnvelope(s, i, e) ==
    LET item == [id |-> lastId + 1, inbox |-> i, envelope |-> e,
                 expiresAt |-> clock + Ttl]
    IN /\ lastId < MaxItems
       /\ s \notin revoked
       /\ i \notin revoked
       /\ queue' = [queue EXCEPT ![i] = @ \union {item}]
       /\ lastId' = item.id
       /\ accepted' = accepted \union {item}
       /\ UNCHANGED <<clock, revoked, pulls, ackedUpTo>>

\* Mutant: only the oldest item of the envelope is removed.
AckOldest(i, e) ==
    /\ queue' = [queue EXCEPT ![i] =
          {x \in @ : x.envelope = e => \E y \in @ : y.envelope = e /\ y.id < x.id}]
    /\ pulls' = Replaced(i, pulls)
    /\ ackedUpTo' = [ackedUpTo EXCEPT ![<<i, e>>] = lastId]
    /\ UNCHANGED <<clock, revoked, lastId, accepted>>

\* Any number of items may carry the envelope, none of them too.
AckEnvelope(i, e) ==
    /\ queue' = [queue EXCEPT ![i] = {x \in @ : x.envelope # e}]
    /\ pulls' = Replaced(i, pulls)
    /\ ackedUpTo' = [ackedUpTo EXCEPT ![<<i, e>>] = lastId]
    /\ UNCHANGED <<clock, revoked, lastId, accepted>>

\* Mutant: the deleted queue is left undefined.
PullRevokedUndefined(p, i) ==
    /\ pulls[p] = Idle
    /\ i \in revoked
    /\ queue' = [j \in Inbox \ {i} |-> queue[j]]
    /\ pulls' = Replaced(i, pulls)
    /\ UNCHANGED <<clock, revoked, lastId, accepted, ackedUpTo>>

\* A pull of a revoked device's inbox deletes the queue and answers nothing.
PullRevoked(p, i) ==
    /\ pulls[p] = Idle
    /\ i \in revoked
    /\ queue' = [queue EXCEPT ![i] = {}]
    /\ pulls' = Replaced(i, pulls)
    /\ UNCHANGED <<clock, revoked, lastId, accepted, ackedUpTo>>

\* A pull that finds expired items drops them and waits.  (One that finds none
\* answers with the queue at once and changes nothing.)
PullBegin(p, i) ==
    LET filtered == {x \in queue[i] : Unexpired(x)} IN
    /\ pulls[p] = Idle
    /\ i \notin revoked
    /\ filtered # queue[i]
    /\ queue' = [queue EXCEPT ![i] = filtered]
    /\ pulls' = [Replaced(i, pulls) EXCEPT ![p] =
          [inbox |-> i, shared |-> TRUE, items |-> {},
           due |-> {x \in queue[i] : x.expiresAt > clock}, after |-> lastId]]
    /\ UNCHANGED <<clock, revoked, lastId, accepted, ackedUpTo>>

\* What a waiting pull would answer now.
Answer(p) == IF pulls[p].shared THEN queue[pulls[p].inbox] ELSE pulls[p].items

\* Mutant: the array goes into the state after the wait as well.
PullEndWritesBack(p) ==
    /\ p \in Waiting
    /\ queue' = [queue EXCEPT ![pulls[p].inbox] = Answer(p)]
    /\ pulls' = [pulls EXCEPT ![p] = Idle]
    /\ UNCHANGED <<clock, revoked, lastId, accepted, ackedUpTo>>

\* The state is written and the pull answers.
PullEnd(p) ==
    /\ p \in Waiting
    /\ pulls' = [pulls EXCEPT ![p] = Idle]
    /\ UNCHANGED <<clock, revoked, queue, lastId, accepted, ackedUpTo>>

RevokeDevice(i) ==
    /\ revoked' = revoked \union {i}
    /\ UNCHANGED <<clock, queue, pulls, lastId, accepted, ackedUpTo>>

Tick ==
    /\ clock < MaxClock
    /\ clock' = clock + 1
    /\ UNCHANGED <<revoked, queue, pulls, lastId, accepted, ackedUpTo>>

Next ==
    \/ \E s, i \in Inbox, e \in Envelope : EnqueueEnvelope(s, i, e)
    \/ \E i \in Inbox, e \in Envelope : AckEnvelope(i, e)
    \/ \E p \in Puller, i \in Inbox : PullRevoked(p, i) \/ PullBegin(p, i)
    \/ \E p \in Puller : PullEnd(p)
    \/ \E i \in Inbox : RevokeDevice(i)
    \/ Tick

Spec == Init /\ [][Next]_vars

----------------------------------------------------------------------------
(* Properties *)

\* What a pull that ran in one piece would answer.
Deliverable(i) ==
    IF i \in revoked THEN {} ELSE {x \in queue[i] : x.expiresAt > clock}

\* The relay implements a mailbox: pulls, which rewrite a queue and wait in the
\* middle, are invisible in it, and so is the queue a revoked device leaves.
Box == INSTANCE Mailbox
    WITH closed <- revoked, posted <- lastId, mail <- [i \in Inbox |-> Deliverable(i)]

MailboxSpec == Box!Spec

\* docs/protocol-v1.md:265, "Relay stores until ack, expiry, or retention
\* ceiling": an accepted item leaves its queue only because its envelope was
\* acknowledged after the item came in, its time is over, or its device was
\* revoked; never because a pull was filtering the queue meanwhile.
NothingLost ==
    \A x \in accepted :
        \/ x \in queue[x.inbox]
        \/ x.id <= ackedUpTo[<<x.inbox, x.envelope>>]
        \/ x.expiresAt <= clock
        \/ x.inbox \in revoked

\* What was acknowledged does not come back: no queue holds an item of an
\* envelope that was acknowledged after the item came in.
AckedStaysGone ==
    \A i \in Inbox : \A x \in queue[i] : x.id > ackedUpTo[<<i, x.envelope>>]

\* Whatever happens while a pull waits, it answers with every item that waited
\* for it, unexpired, when it began; anything else in the answer came in since.
PullIsExact ==
    \A p \in Waiting :
        /\ pulls[p].due \subseteq Answer(p)
        /\ \A x \in Answer(p) : x \in pulls[p].due \/ x.id > pulls[p].after
=============================================================================

------------------------------ MODULE Delivery ------------------------------
(***************************************************************************)
(* Sending a text to every device of an account and synchronising an inbox *)
(* (sendTextMessage and syncInboxWithApi, src/client/workflow.js), as the  *)
(* command line runs them (src/cli.js): load the local state, work on a    *)
(* copy, call the relay, save the copy at the end.                         *)
(*                                                                         *)
(* Each call to the relay is a step, taken together with the local work    *)
(* that follows it up to the next call.  Nothing keeps two commands on one *)
(* state file apart: each saves its copy whole, over what the other saved. *)
(* A command that throws, or whose process dies, leaves the saved state as *)
(* it was, or unreadable if it dies while saving; what it told the relay   *)
(* stays.  recovery-restore puts back the keys of a device and no more.    *)
(*                                                                         *)
(* The relay is its queues, in order and without loss (RelayQueues says    *)
(* when it drops an item), and the counters of one-time prekeys.           *)
(***************************************************************************)
EXTENDS Ratchet, FiniteSets

CONSTANTS
    Account,          \* accounts
    Devices,          \* devices of an account, in the directory's order
    Revocable,        \* devices that may be revoked
    SyncCanEnqueue,   \* the relay calls given to sync include enqueueEnvelope
    Slots,            \* commands each device may run at once; none: it is not used
    Failing,          \* <<d, what>>: d's sends, its syncs or its saves may die,
                      \* or its state file may be restored from a bundle
    MaxFailures,      \* bound: commands that die, and restores
    MaxTexts,         \* bound: texts each device starts to send
    PreKeyCount       \* one-time prekeys of a device

Device == UNION {{Devices[a][i] : i \in DOMAIN Devices[a]} : a \in Account}
\* A process runs a command of its device.
Process == UNION {{<<d, k>> : k \in 1..Slots[d]} : d \in Device}
AccountOf(d) == CHOOSE a \in Account : \E i \in DOMAIN Devices[a] : Devices[a][i] = d

\* The devices of an account are the properties of an object: each is there once.
ASSUME DeliveryAssumption ==
    /\ \A a \in Account :
          /\ Devices[a] \in Seq(Device)
          /\ \A i, j \in DOMAIN Devices[a] : Devices[a][i] = Devices[a][j] => i = j
    /\ Revocable \subseteq Device
    /\ SyncCanEnqueue \in BOOLEAN
    /\ Slots \in [Device -> Nat] /\ MaxTexts \in [Device -> Nat]
    /\ Failing \subseteq Device \X {"send", "sync", "save", "restore"}
    /\ MaxFailures \in Nat /\ PreKeyCount \in Nat

VARIABLES
    disk,       \* the local state each device has saved
    command,    \* the command each process is running
    queue,      \* the relay's queue for each device
    revoked,    \* revoked devices
    claimed,    \* one-time prekeys handed out, for each device
    texts,      \* texts each device has started to send
    envelopes,  \* envelopes each device has enqueued
    failures,   \* commands that died, and restores
    sealed,     \* history: the message bodies that were enqueued
    readBy,     \* history: the messages each device opened
    ackedBy     \* history: the items each device acknowledged at the relay

vars == <<disk, command, queue, revoked, claimed, texts, envelopes,
          failures, sealed, readBy, ackedBy>>

----------------------------------------------------------------------------
(* Local state, envelopes *)

\* sent: one record for each envelope of an outbound event; got: the inbound
\* events.  A file that was not written whole is not readable.
EmptyState == [readable |-> TRUE, sessions |-> [d \in Device |-> NoSession],
               sent |-> {}, got |-> {}]

Idle == [op |-> "idle"]

MessageEnvelope(d, to, text, body) ==
    [id |-> <<d, envelopes[d] + 1>>, from |-> d, to |-> to, type |-> "message",
     text |-> text, body |-> body]

ReceiptEnvelope(d, item) ==
    [id |-> <<d, envelopes[d] + 1>>, from |-> d, to |-> item.from, type |-> "ack",
     text |-> item.text, ackFor |-> item.id]

\* enqueueEnvelope refuses a revoked sender and a revoked recipient.
Enqueueable(d, to) == d \notin revoked /\ to \notin revoked

Enqueue(envelope) ==
    /\ queue' = [queue EXCEPT ![envelope.to] = Append(@, envelope)]
    /\ envelopes' = [envelopes EXCEPT ![envelope.from] = @ + 1]

\* The entries of a list at some of its places, in their order (Array.filter).
Filtered(list, places) ==
    LET upTo[n \in 0 .. Len(list)] ==
            IF n = 0 THEN << >>
            ELSE IF n \in places THEN Append(upTo[n - 1], list[n]) ELSE upTo[n - 1]
    IN upTo[Len(list)]

RunningSet(p, c) == command' = [command EXCEPT ![p] = c]

\* A command starts by loading the file.  Processes are interchangeable: the
\* first idle one takes it.
Loads(p) ==
    /\ command[p] = Idle
    /\ \A k \in 1 .. p[2] - 1 : command[<<p[1], k>>] # Idle
    /\ disk[p[1]].readable

\* What a command saves: a send appends the outbound event.
ToSave(p) == IF command[p].op = "send"
             THEN [command[p].work EXCEPT !.sent = @ \union command[p].done]
             ELSE command[p].work

\* A command that has done all there was to do.
AtSave(p) == \/ command[p].op = "send" /\ command[p].targets = << >>
             \/ command[p].op = "sync" /\ command[p].todo = << >>

\* saveLocalState: the file becomes the copy.
Save(p, local) ==
    /\ disk' = [disk EXCEPT ![p[1]] = local]
    /\ RunningSet(p, Idle)

WithSession(local, peer, session) ==
    [local EXCEPT !.sessions[peer] = session]

WithEvent(local, item, text) ==
    [local EXCEPT !.got = @ \union {[envelope |-> item.id, text |-> text]}]

\* The ratchet key pairs a command generates, named by what they are for.  A
\* sync never shows one to anybody before it saves, so that a sync that is
\* repeated may use the names again; one that runs beside it may not.
SendKey(p, to) == RatchetKey(p[1], <<"send", command[p].text, to>>)
SyncKey(p, item, n) == RatchetKey(p[1], <<"sync", p[2], item.id, n>>)

Init ==
    /\ disk = [d \in Device |-> EmptyState]
    /\ command = [p \in Process |-> Idle]
    /\ queue = [d \in Device |-> << >>]
    /\ revoked = {}
    /\ claimed = [d \in Device |-> 0]
    /\ texts = [d \in Device |-> 0]
    /\ envelopes = [d \in Device |-> 0]
    /\ failures = 0
    /\ sealed = {}
    /\ readBy = [d \in Device |-> {}]
    /\ ackedBy = [d \in Device |-> {}]

----------------------------------------------------------------------------
(* send *)

\* lookupAccount and chooseAccountDevices: the recipients are fixed here.
SendLookup(p, a) ==
    LET d == p[1] IN
    LET targets == Filtered(Devices[a],
                            {i \in DOMAIN Devices[a] : Devices[a][i] \notin revoked}) IN
    /\ Loads(p)
    /\ a # AccountOf(d)
    /\ texts[d] < MaxTexts[d]
    /\ targets # << >>
    /\ texts' = [texts EXCEPT ![d] = @ + 1]
    /\ RunningSet(p, [op |-> "send", work |-> disk[d], targets |-> targets,
                      text |-> <<d, texts[d] + 1>>, done |-> {}])
    /\ UNCHANGED <<disk, queue, revoked, claimed, envelopes, failures,
                   sealed, readBy, ackedBy>>

Sending(p) == command[p].op = "send"
Target(p) == Head(command[p].targets)

\* claimPreKey, for a target without a session: the session is created.
SendClaim(p) ==
    LET d == p[1] IN
    /\ Sending(p)
    /\ command[p].targets # << >>
    /\ LET t == Target(p)
           preKey == IF claimed[t] < PreKeyCount
                     THEN OneTimePreKey(t, claimed[t] + 1) ELSE NoKey
       IN /\ command[p].work.sessions[t] = NoSession
          /\ t \notin revoked
          /\ claimed' = [claimed EXCEPT ![t] = IF @ < PreKeyCount THEN @ + 1 ELSE @]
          /\ RunningSet(p, [command[p] EXCEPT !.work =
                WithSession(@, t, NewInitiator(d, t, preKey, SendKey(p, t)))])
    /\ UNCHANGED <<disk, queue, revoked, texts, envelopes, failures, sealed, readBy, ackedBy>>

\* Seal for the target and enqueue.
SendEnqueue(p) ==
    LET d == p[1] IN
    /\ Sending(p)
    /\ command[p].targets # << >>
    /\ LET t == Target(p)
           s == command[p].work.sessions[t]
           body == Sealed(s, command[p].text)
           envelope == MessageEnvelope(d, t, command[p].text, body)
       IN /\ s # NoSession
          /\ Enqueueable(d, t)
          /\ Enqueue(envelope)
          /\ sealed' = sealed \union {[envelope |-> envelope.id, from |-> d, to |-> t,
                                   text |-> body.text, ratchet |-> body.ratchet,
                                   key |-> body.key]}
          /\ RunningSet(p, [command[p] EXCEPT
                !.work = WithSession(@, t, AfterSeal(s)),
                !.targets = Tail(@),
                !.done = @ \union {[text |-> command[p].text, device |-> t,
                                    envelope |-> envelope.id, delivered |-> FALSE]}])
    /\ UNCHANGED <<disk, revoked, claimed, texts, failures, readBy, ackedBy>>

\* Append the outbound event and save.
SendSave(p) ==
    /\ Sending(p)
    /\ command[p].targets = << >>
    /\ Save(p, ToSave(p))
    /\ UNCHANGED <<queue, revoked, claimed, texts, envelopes, failures,
                   sealed, readBy, ackedBy>>

----------------------------------------------------------------------------
(* sync *)

\* pullQueue.  A revoked device gets nothing, and its queue is deleted.
SyncPull(p) ==
    LET d == p[1] IN
    /\ Loads(p)
    /\ RunningSet(p, [op |-> "sync", work |-> disk[d], stage |-> "open",
                      todo |-> IF d \in revoked THEN << >> ELSE queue[d]])
    /\ queue' = IF d \in revoked THEN [queue EXCEPT ![d] = << >>] ELSE queue
    /\ UNCHANGED <<disk, revoked, claimed, texts, envelopes, failures,
                   sealed, readBy, ackedBy>>

Syncing(p, stage) ==
    /\ command[p].op = "sync"
    /\ command[p].stage = stage
    /\ command[p].todo # << >>

Item(p) == Head(command[p].todo)

\* What opening a message gives with the sessions of a local state.
Result(p, local, item) ==
    LET d == p[1]
        known == local.sessions[item.from] # NoSession
        own == {OneTimePreKey(d, k) : k \in 1..PreKeyCount}
        s == IF known THEN local.sessions[item.from]
             ELSE NewResponder(d, item.from, item.body, own, SyncKey(p, item, 1))
    IN Opened(s, item.body, SyncKey(p, item, 2))

\* lookupAccount of a sender whose device is revoked: the item is only acked.
SyncSkip(p) ==
    /\ Syncing(p, "open")
    /\ Item(p).from \in revoked
    /\ RunningSet(p, [command[p] EXCEPT !.stage = "ack"])
    /\ UNCHANGED <<disk, queue, revoked, claimed, texts, envelopes,
                   failures, sealed, readBy, ackedBy>>

\* lookupAccount, then open the message and append the inbound event.  (An
\* event that is already there is not appended again.)
SyncOpenMessage(p) ==
    LET d == p[1] IN
    /\ Syncing(p, "open")
    /\ Item(p).type = "message"
    /\ Item(p).from \notin revoked
    /\ LET item == Item(p)
           result == Result(p, command[p].work, item)
       IN /\ result.ok
          /\ readBy' = [readBy EXCEPT ![d] = @ \union {item.id}]
          /\ RunningSet(p, [command[p] EXCEPT
                !.work = WithEvent(WithSession(@, item.from, result.session),
                                   item, result.text),
                !.stage = "emit"])
    /\ UNCHANGED <<disk, queue, revoked, claimed, texts, envelopes, failures, sealed,
                   ackedBy>>

\* Mutant: a message that does not open is acknowledged and passed over.
SyncRefusedPassesOver(p) ==
    /\ Syncing(p, "open")
    /\ Item(p).type = "message"
    /\ Item(p).from \notin revoked
    /\ ~Result(p, command[p].work, Item(p)).ok
    /\ RunningSet(p, [command[p] EXCEPT !.stage = "ack"])
    /\ UNCHANGED <<disk, queue, revoked, claimed, texts, envelopes,
                   failures, sealed, readBy, ackedBy>>

\* A message that does not open: the command throws.
SyncRefused(p) ==
    /\ Syncing(p, "open")
    /\ Item(p).type = "message"
    /\ Item(p).from \notin revoked
    /\ ~Result(p, command[p].work, Item(p)).ok
    /\ RunningSet(p, Idle)
    /\ UNCHANGED <<disk, queue, revoked, claimed, texts, envelopes,
                   failures, sealed, readBy, ackedBy>>

\* Mutant: an ack is for the message, not for the device that read it.
AppliedToAll(local, ack) ==
    [local EXCEPT !.sent =
        {IF x.text = ack.text THEN [x EXCEPT !.delivered = TRUE] ELSE x : x \in @}]

\* applyDeliveryAck
Applied(local, ack) ==
    [local EXCEPT !.sent =
        {IF x.text = ack.text /\ (x.envelope = ack.ackFor \/ x.device = ack.from)
         THEN [x EXCEPT !.delivered = TRUE] ELSE x : x \in @}]

SyncOpenAck(p) ==
    /\ Syncing(p, "open")
    /\ Item(p).type = "ack"
    /\ Item(p).from \notin revoked
    /\ RunningSet(p, [command[p] EXCEPT !.work = Applied(@, Item(p)), !.stage = "ack"])
    /\ UNCHANGED <<disk, queue, revoked, claimed, texts, envelopes,
                   failures, sealed, readBy, ackedBy>>

\* Mutant: no receipt is sent.
SyncEmitNothing(p) ==
    /\ Syncing(p, "emit")
    /\ SyncCanEnqueue
    /\ RunningSet(p, [command[p] EXCEPT !.stage = "ack"])
    /\ UNCHANGED <<disk, queue, revoked, claimed, texts, envelopes, failures,
                   sealed, readBy, ackedBy>>

\* emitDeliveryAck: the encrypted receipt for the sender's device.
SyncEmit(p) ==
    LET d == p[1] IN
    /\ Syncing(p, "emit")
    /\ SyncCanEnqueue
    /\ Enqueueable(d, Item(p).from)
    /\ Enqueue(ReceiptEnvelope(d, Item(p)))
    /\ RunningSet(p, [command[p] EXCEPT !.stage = "ack"])
    /\ UNCHANGED <<disk, revoked, claimed, texts, failures, sealed, readBy, ackedBy>>

\* Mutant: the relay is not told, so the item stays in the queue.
SyncAckLocally(p) ==
    /\ Syncing(p, "ack")
    /\ RunningSet(p, [command[p] EXCEPT !.todo = Tail(@), !.stage = "open"])
    /\ UNCHANGED <<disk, queue, revoked, claimed, texts, envelopes, failures, sealed,
                   readBy, ackedBy>>

\* ackEnvelope at the relay.
SyncAck(p) ==
    LET d == p[1] IN
    /\ Syncing(p, "ack")
    /\ queue' = [queue EXCEPT ![d] =
                    Filtered(@, {i \in DOMAIN @ : @[i].id # Item(p).id})]
    /\ ackedBy' = [ackedBy EXCEPT ![d] = @ \union
          {[id |-> Item(p).id, type |-> Item(p).type, from |-> Item(p).from]}]
    /\ RunningSet(p, [command[p] EXCEPT !.todo = Tail(@), !.stage = "open"])
    /\ UNCHANGED <<disk, revoked, claimed, texts, envelopes, failures, sealed,
                   readBy>>

SyncSave(p) ==
    /\ command[p].op = "sync"
    /\ command[p].todo = << >>
    /\ Save(p, ToSave(p))
    /\ UNCHANGED <<queue, revoked, claimed, texts, envelopes, failures,
                   sealed, readBy, ackedBy>>

----------------------------------------------------------------------------
(* Failures *)

\* The relay refuses a call (a revoked device), or the call does not exist.
CallRefused(p) ==
    LET d == p[1] IN
    /\ \/ /\ Sending(p)
          /\ command[p].targets # << >>
          /\ \/ Target(p) \in revoked
             \/ d \in revoked /\ command[p].work.sessions[Target(p)] # NoSession
       \/ /\ Syncing(p, "emit")
          /\ ~(SyncCanEnqueue /\ Enqueueable(d, Item(p).from))
    /\ RunningSet(p, Idle)
    /\ UNCHANGED <<disk, queue, revoked, claimed, texts, envelopes,
                   failures, sealed, readBy, ackedBy>>

\* Mutant: a sync saves what it has done so far.
CommandDiesSaved(p) ==
    LET d == p[1] IN
    /\ <<d, command[p].op>> \in Failing
    /\ failures < MaxFailures
    /\ failures' = failures + 1
    /\ disk' = [disk EXCEPT ![d] = command[p].work]
    /\ RunningSet(p, Idle)
    /\ UNCHANGED <<queue, revoked, claimed, texts, envelopes, sealed, readBy, ackedBy>>

\* The process dies, or a call gets no answer, which throws.
CommandDies(p) ==
    LET d == p[1] IN
    /\ <<d, command[p].op>> \in Failing
    /\ failures < MaxFailures
    /\ failures' = failures + 1
    /\ RunningSet(p, Idle)
    /\ UNCHANGED <<disk, queue, revoked, claimed, texts, envelopes,
                   sealed, readBy, ackedBy>>

\* The process dies while it saves: the file was truncated, and what is in it
\* does not parse.
SaveTorn(p) ==
    /\ AtSave(p)
    /\ <<p[1], "save">> \in Failing
    /\ failures < MaxFailures
    /\ failures' = failures + 1
    /\ Save(p, [EmptyState EXCEPT !.readable = FALSE])
    /\ UNCHANGED <<queue, revoked, claimed, texts, envelopes, sealed, readBy, ackedBy>>

\* recovery-restore, from a bundle the owner kept: the device has its keys, no
\* sessions and no events.
Restore(d) ==
    /\ <<d, "restore">> \in Failing
    /\ failures < MaxFailures
    /\ failures' = failures + 1
    /\ disk' = [disk EXCEPT ![d] = EmptyState]
    /\ UNCHANGED <<command, queue, revoked, claimed, texts, envelopes,
                   sealed, readBy, ackedBy>>

RevokeDevice(d) ==
    /\ d \in Revocable \ revoked
    /\ revoked' = revoked \union {d}
    /\ UNCHANGED <<disk, command, queue, claimed, texts, envelopes,
                   failures, sealed, readBy, ackedBy>>

----------------------------------------------------------------------------

Continue(p) ==
    \/ SendClaim(p) \/ SendEnqueue(p) \/ SendSave(p)
    \/ SyncSkip(p) \/ SyncOpenMessage(p) \/ SyncRefused(p) \/ SyncOpenAck(p)
    \/ SyncEmit(p) \/ SyncAck(p) \/ SyncSave(p)
    \/ CallRefused(p)

Next ==
    \/ \E p \in Process :
          \/ \E a \in Account : SendLookup(p, a)
          \/ SyncPull(p)
          \/ Continue(p)
          \/ CommandDies(p)
          \/ SaveTorn(p)
    \/ \E d \in Device : Restore(d) \/ RevokeDevice(d)

\* A running command goes on, and the owner of a device runs sync again.
Fairness == \A p \in Process : WF_vars(Continue(p)) /\ WF_vars(SyncPull(p))

Spec == Init /\ [][Next]_vars /\ Fairness

----------------------------------------------------------------------------
(* Properties *)

\* The states a device has at hand: the file's, and those of its commands.
AtHand(d) == {disk[d]} \union
    {ToSave(p) : p \in {q \in Process : q[1] = d /\ command[q] # Idle}}

\* A record is marked delivered only for a device that did open that envelope,
\* whatever commands died and whoever was revoked: applyDeliveryAck changes the
\* entry of the device the receipt is from, and no other.
DeliveredWasRead ==
    \A d \in Device : \A r \in disk[d].sent :
        r.delivered => r.envelope \in readBy[r.device]

\* A device takes a message off its queue unread only when the device that
\* sent it is revoked (syncInboxWithApi acknowledges after it has opened, and
\* throws at what it cannot open).
AckedWasRead ==
    \A d \in Device : \A i \in ackedBy[d] :
        i.type = "message" => i.id \in readBy[d] \/ i.from \in revoked

SendsOf(d) == {p \in Process : p[1] = d /\ Sending(p)}
Knows(local, envelope) == \E r \in local.sent : r.envelope = envelope

\* d put this message into a queue, and a send of d goes on, or the next one
\* will start, without knowing of it: the send that did it died, was refused
\* for another device, runs beside, or was overwritten.
Forgotten(x) ==
    \/ \E p \in SendsOf(x.from) : ~Knows(ToSave(p), x.envelope)
    \/ /\ ~Knows(disk[x.from], x.envelope)
       /\ \A p \in SendsOf(x.from) : ~Knows(ToSave(p), x.envelope)

Forgot(d, to) == \E x \in sealed : x.from = d /\ x.to = to /\ Forgotten(x)

\* The messages of a device that d acknowledged, and of which this state of d
\* has no event: they were opened by a sync that died, or before a restore.
Lost(d, from, local) ==
    {i \in ackedBy[d] : /\ i.type = "message" /\ i.from = from
                        /\ \A g \in local.got : g.envelope # i.id}

\* What may keep d, in this state, from opening the messages of a device: that
\* device forgot one it had sent, d has lost more of them than a message may
\* skip keys, or d writes texts itself, so that both may have begun.
Estranged(d, from, local) ==
    \/ Forgot(from, d)
    \/ Cardinality(Lost(d, from, local)) > MaxSkip
    \/ texts[d] > 0

\* A sync meets a message it cannot open only on a device that is estranged from
\* its sender.  (Then every later sync throws at the same place.)  Otherwise
\* syncs may die where they will: a session that was not saved is rebuilt from
\* the prekeys, which a device keeps, or skips the keys of what was lost.
StuckOnlyIfEstranged ==
    \A p \in Process :
        Syncing(p, "open") /\ Item(p).type = "message" /\ Item(p).from \notin revoked
        => \/ Result(p, command[p].work, Item(p)).ok
           \/ Estranged(p[1], Item(p).from, command[p].work)

\* docs/crypto-roadmap.md:19, "one message key per outbound message", as far as
\* the code keeps it: two messages are sealed with the same key only if their
\* sender forgot one of them, as it does when a send dies behind an enqueue.
SameKeyOnlyIfForgotten ==
    \A x, y \in sealed :
        x.key = y.key /\ x.envelope # y.envelope => Forgotten(x) \/ Forgotten(y)

\* docs/protocol-v1.md:273: a device appends the event locally, then
\* acknowledges.  What a device has opened and acknowledged is in its history.
AckedIsKept ==
    \A d \in Device : \A i \in ackedBy[d] :
        i.id \in readBy[d] =>
            \E local \in AtHand(d) : \E g \in local.got : g.envelope = i.id

SentTo(d, n, to) == \E r \in disk[d].sent : r.text = <<d, n>> /\ r.device = to
DeliveredTo(d, n, to) ==
    \E r \in disk[d].sent : r.text = <<d, n>> /\ r.device = to /\ r.delivered

\* docs/architecture.md:50: what was sent is pulled, decrypted and acknowledged,
\* and the sender ends up with the receipt of every device, unless one of the
\* two is revoked or the other is estranged from the sender.
EventuallyDelivered ==
    \A d, to \in Device : \A n \in 1..MaxTexts[d] :
        AccountOf(d) # AccountOf(to) =>
        (SentTo(d, n, to) ~> \/ DeliveredTo(d, n, to)
                             \/ {d, to} \intersect revoked # {}
                             \/ Estranged(to, d, disk[to]))
=============================================================================

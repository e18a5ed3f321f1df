--------------------------- MODULE DeliveryProofs ---------------------------
(***************************************************************************)
(* For any accounts, devices, commands at once, deaths, torn saves,        *)
(* restores and revocations: what an acknowledgement at the relay and a    *)
(* receipt mean, when two messages may have one key, and when a sync may   *)
(* meet a message it cannot open.                                          *)
(***************************************************************************)
EXTENDS Delivery, FiniteSetTheorems, WellFoundedInduction, TLAPS

----------------------------------------------------------------------------
(* Acknowledged is read *)

\* What the steps of a sync know of the item in front of them.
ItemIsRead(p) ==
    /\ command[p].stage = "emit" => Item(p).id \in readBy[p[1]]
    /\ command[p].stage = "ack" /\ Item(p).type = "message" =>
          Item(p).id \in readBy[p[1]] \/ Item(p).from \in revoked

SendFields == {"op", "work", "targets", "text", "done"}
SyncFields == {"op", "work", "stage", "todo"}

\* AckedWasRead is not inductive alone: SyncAck acknowledges what an earlier
\* step of the same sync opened, or passed over for its revoked sender.
IInv ==
    /\ DOMAIN command = Process
    /\ DOMAIN readBy = Device
    /\ DOMAIN ackedBy = Device
    /\ \A p \in Process :
          /\ command[p].op = "send" => DOMAIN command[p] = SendFields
          /\ command[p].op = "sync" => DOMAIN command[p] = SyncFields /\ ItemIsRead(p)
    /\ AckedWasRead

\* A process belongs to a device.
LEMMA ProcessOfDevice == \A p \in Process : p[1] \in Device
  BY DEF Process

\* What was acknowledged stays read, or its sender revoked.
LEMMA AckedStaysRead ==
    ASSUME IInv, UNCHANGED ackedBy,
           \A d \in Device : readBy[d] \subseteq readBy'[d],
           revoked \subseteq revoked'
    PROVE  AckedWasRead'
  BY DEF IInv, AckedWasRead

\* Replacing the command of one process leaves the others what they know.
LEMMA OneCommandChanges ==
    ASSUME IInv, NEW p \in Process, NEW c, RunningSet(p, c),
           c.op = "send" => DOMAIN c = SendFields,
           c.op = "sync" => DOMAIN c = SyncFields /\ ItemIsRead(p)',
           DOMAIN readBy' = Device, DOMAIN ackedBy' = Device,
           \A d \in Device : readBy[d] \subseteq readBy'[d],
           revoked \subseteq revoked', AckedWasRead'
    PROVE  IInv'
  <1>1. /\ DOMAIN command' = Process
        /\ command'[p] = c
        /\ \A q \in Process : q # p => command'[q] = command[q]
    BY DEF IInv, RunningSet
  <1>2. ASSUME NEW q \in Process, q # p
        PROVE  /\ command'[q].op = "send" => DOMAIN command'[q] = SendFields
               /\ command'[q].op = "sync" =>
                     DOMAIN command'[q] = SyncFields /\ ItemIsRead(q)'
    BY <1>1, <1>2, ProcessOfDevice DEF IInv, ItemIsRead, Item
  <1> QED
    BY <1>1, <1>2 DEF IInv

\* A step after which its process is not about to send a receipt or to
\* acknowledge, and which reads and acknowledges nothing.
LEMMA NothingToShow ==
    ASSUME IInv, NEW p \in Process, NEW c, RunningSet(p, c),
           c.op = "send" => DOMAIN c = SendFields,
           c.op = "sync" => DOMAIN c = SyncFields /\ c.stage = "open",
           UNCHANGED <<readBy, ackedBy, revoked>>
    PROVE  IInv'
  <1>1. command'[p] = c
    BY DEF IInv, RunningSet
  <1>2. c.op = "sync" => ItemIsRead(p)'
    BY <1>1 DEF ItemIsRead
  <1>3. AckedWasRead'
    BY AckedStaysRead
  <1> QED
    BY <1>2, <1>3, OneCommandChanges DEF IInv

\* A sync goes on to another stage with the same item, which it has just read,
\* read before, or need not read.
LEMMA SameItem ==
    ASSUME IInv, NEW p \in Process, NEW c, RunningSet(p, c),
           c.op = "sync", DOMAIN c = SyncFields, c.todo = command[p].todo,
           DOMAIN readBy' = Device, UNCHANGED <<ackedBy, revoked>>,
           \A d \in Device : readBy[d] \subseteq readBy'[d],
           c.stage = "emit" => Item(p).id \in readBy'[p[1]],
           c.stage = "ack" /\ Item(p).type = "message" =>
              Item(p).id \in readBy'[p[1]] \/ Item(p).from \in revoked
    PROVE  IInv'
  <1>1. command'[p] = c
    BY DEF IInv, RunningSet
  <1>2. ItemIsRead(p)'
    BY <1>1 DEF ItemIsRead, Item
  <1>3. AckedWasRead'
    BY AckedStaysRead
  <1> QED
    BY <1>2, <1>3, OneCommandChanges DEF IInv

\* Every step of a send.
LEMMA SendsKeep ==
    ASSUME IInv, NEW p \in Process,
           \/ \E a \in Account : SendLookup(p, a)
           \/ SendClaim(p) \/ SendEnqueue(p) \/ SendSave(p)
    PROVE  IInv'
  <1>1. ASSUME NEW a \in Account, SendLookup(p, a)
        PROVE  IInv'
    <2> DEFINE c == [op |-> "send", work |-> disk[p[1]],
                     targets |-> Filtered(Devices[a], {i \in DOMAIN Devices[a] :
                                                       Devices[a][i] \notin revoked}),
                     text |-> <<p[1], texts[p[1]] + 1>>, done |-> {}]
    <2>1. RunningSet(p, c) /\ UNCHANGED <<readBy, ackedBy, revoked>>
      BY <1>1 DEF SendLookup
    <2>2. c.op = "send" /\ DOMAIN c = SendFields
      BY DEF SendFields
    <2> HIDE DEF c
    <2> QED
      BY <2>1, <2>2, NothingToShow
  <1>2. ASSUME SendClaim(p) \/ SendEnqueue(p)
        PROVE  IInv'
    <2>1. command[p].op = "send" /\ DOMAIN command[p] = SendFields
      BY <1>2 DEF SendClaim, SendEnqueue, Sending, IInv
    <2>2. PICK c : RunningSet(p, c) /\ c.op = "send" /\ DOMAIN c = SendFields
      <3>1. CASE SendClaim(p)
        BY <2>1, <3>1 DEF SendClaim, SendFields
      <3>2. CASE SendEnqueue(p)
        <4> DEFINE t == Target(p)
                   session == command[p].work.sessions[t]
                   id == <<p[1], envelopes[p[1]] + 1>>
                   c == [command[p] EXCEPT
                            !.work = WithSession(@, t, AfterSeal(session)),
                            !.targets = Tail(@),
                            !.done = @ \union {[text |-> command[p].text, device |-> t,
                                                envelope |-> id, delivered |-> FALSE]}]
        <4>1. RunningSet(p, c)
          BY <3>2 DEF SendEnqueue, MessageEnvelope
        <4>2. c.op = "send" /\ DOMAIN c = SendFields
          BY <2>1 DEF SendFields
        <4> QED
          BY <4>1, <4>2
      <3> QED
        BY <1>2, <3>1, <3>2
    <2>3. UNCHANGED <<readBy, ackedBy, revoked>>
      BY <1>2 DEF SendClaim, SendEnqueue
    <2> QED
      BY <2>2, <2>3, NothingToShow
  <1>3. ASSUME SendSave(p)
        PROVE  IInv'
    <2>1. RunningSet(p, Idle) /\ UNCHANGED <<readBy, ackedBy, revoked>>
      BY <1>3 DEF SendSave, Save
    <2> QED
      BY <2>1, NothingToShow DEF Idle
  <1> QED
    BY <1>1, <1>2, <1>3

\* A sync's own steps.
LEMMA SyncsKeep ==
    ASSUME IInv, NEW p \in Process,
           \/ SyncPull(p) \/ SyncSkip(p) \/ SyncOpenMessage(p) \/ SyncRefused(p)
           \/ SyncOpenAck(p) \/ SyncEmit(p) \/ SyncAck(p) \/ SyncSave(p)
    PROVE  IInv'
  <1>1. ASSUME SyncPull(p)
        PROVE  IInv'
    <2> DEFINE c == [op |-> "sync", work |-> disk[p[1]], stage |-> "open",
                     todo |-> IF p[1] \in revoked THEN << >> ELSE queue[p[1]]]
    <2>1. RunningSet(p, c) /\ UNCHANGED <<readBy, ackedBy, revoked>>
      BY <1>1 DEF SyncPull
    <2>2. c.op = "sync" /\ DOMAIN c = SyncFields /\ c.stage = "open"
      BY DEF SyncFields
    <2> HIDE DEF c
    <2> QED
      BY <2>1, <2>2, NothingToShow
  <1>2. ASSUME SyncRefused(p) \/ SyncSave(p)
        PROVE  IInv'
    <2>1. RunningSet(p, Idle) /\ UNCHANGED <<readBy, ackedBy, revoked>>
      BY <1>2 DEF SyncRefused, SyncSave, Save
    <2> QED
      BY <2>1, NothingToShow DEF Idle
  <1>3. ASSUME command[p].op = "sync"
        PROVE  DOMAIN command[p] = SyncFields /\ ItemIsRead(p)
    BY <1>3 DEF IInv
  <1>4. ASSUME SyncSkip(p)
        PROVE  IInv'
    <2> DEFINE c == [command[p] EXCEPT !.stage = "ack"]
    <2>1. /\ RunningSet(p, c) /\ UNCHANGED <<readBy, ackedBy, revoked>>
          /\ command[p].op = "sync" /\ Item(p).from \in revoked
      BY <1>4 DEF SyncSkip, Syncing
    <2>2. /\ c.op = "sync" /\ DOMAIN c = SyncFields /\ c.todo = command[p].todo
          /\ c.stage = "ack"
      BY <1>3, <2>1 DEF SyncFields
    <2> HIDE DEF c
    <2> QED
      BY <2>1, <2>2, SameItem DEF IInv
  <1>5. ASSUME SyncOpenMessage(p)
        PROVE  IInv'
    <2> DEFINE item == Item(p)
               result == Result(p, command[p].work, item)
               c == [command[p] EXCEPT
                        !.work = WithEvent(WithSession(@, item.from, result.session),
                                           item, result.text),
                        !.stage = "emit"]
    <2>0. RunningSet(p, c)
      BY <1>5 DEF SyncOpenMessage
    <2>1. /\ UNCHANGED <<ackedBy, revoked>>
          /\ command[p].op = "sync"
          /\ readBy' = [readBy EXCEPT ![p[1]] = @ \union {Item(p).id}]
      BY <1>5 DEF SyncOpenMessage, Syncing
    <2>2. /\ c.op = "sync" /\ DOMAIN c = SyncFields /\ c.todo = command[p].todo
          /\ c.stage = "emit"
      BY <1>3, <2>1 DEF SyncFields
    <2>3. /\ DOMAIN readBy' = Device
          /\ \A d \in Device : readBy[d] \subseteq readBy'[d]
          /\ Item(p).id \in readBy'[p[1]]
      BY <2>1, ProcessOfDevice DEF IInv
    <2> HIDE DEF c
    <2> QED
      BY <2>0, <2>1, <2>2, <2>3, SameItem
  <1>6. ASSUME SyncOpenAck(p)
        PROVE  IInv'
    <2> DEFINE c == [command[p] EXCEPT !.work = Applied(@, Item(p)), !.stage = "ack"]
    <2>1. /\ RunningSet(p, c) /\ UNCHANGED <<readBy, ackedBy, revoked>>
          /\ command[p].op = "sync" /\ Item(p).type = "ack"
      BY <1>6 DEF SyncOpenAck, Syncing
    <2>2. /\ c.op = "sync" /\ DOMAIN c = SyncFields /\ c.todo = command[p].todo
          /\ c.stage = "ack"
      BY <1>3, <2>1 DEF SyncFields
    <2> HIDE DEF c
    <2> QED
      BY <2>1, <2>2, SameItem DEF IInv
  <1>7. ASSUME SyncEmit(p)
        PROVE  IInv'
    <2> DEFINE c == [command[p] EXCEPT !.stage = "ack"]
    <2>1. /\ RunningSet(p, c) /\ UNCHANGED <<readBy, ackedBy, revoked>>
          /\ command[p].op = "sync" /\ command[p].stage = "emit"
      BY <1>7 DEF SyncEmit, Syncing
    <2>2. /\ c.op = "sync" /\ DOMAIN c = SyncFields /\ c.todo = command[p].todo
          /\ c.stage = "ack"
      BY <1>3, <2>1 DEF SyncFields
    <2>3. Item(p).id \in readBy[p[1]]
      BY <1>3, <2>1 DEF ItemIsRead
    <2> HIDE DEF c
    <2> QED
      BY <2>1, <2>2, <2>3, SameItem DEF IInv
  <1>8. ASSUME SyncAck(p)
        PROVE  IInv'
    <2> DEFINE c == [command[p] EXCEPT !.todo = Tail(@), !.stage = "open"]
               i == [id |-> Item(p).id, type |-> Item(p).type, from |-> Item(p).from]
    <2>1. /\ RunningSet(p, c) /\ UNCHANGED <<readBy, revoked>>
          /\ command[p].op = "sync" /\ command[p].stage = "ack"
          /\ ackedBy' = [ackedBy EXCEPT ![p[1]] = @ \union {i}]
      BY <1>8 DEF SyncAck, Syncing
    <2>2. c.op = "sync" /\ DOMAIN c = SyncFields /\ c.stage = "open"
      BY <1>3, <2>1 DEF SyncFields
    <2>3. i.type = "message" => i.id \in readBy[p[1]] \/ i.from \in revoked
      BY <1>3, <2>1 DEF ItemIsRead
    <2> HIDE DEF c, i
    <2>4. DOMAIN ackedBy' = Device /\ AckedWasRead'
      BY <2>1, <2>3, ProcessOfDevice DEF IInv, AckedWasRead
    <2>5. ItemIsRead(p)'
      <3>1. command'[p] = c
        BY <2>1 DEF IInv, RunningSet
      <3> QED
        BY <2>2, <3>1 DEF ItemIsRead
    <2> QED
      BY <2>1, <2>2, <2>4, <2>5, OneCommandChanges DEF IInv
  <1> QED
    BY <1>1, <1>2, <1>4, <1>5, <1>6, <1>7, <1>8

\* A command that ends early leaves no item in front of its process.
LEMMA EndsKeep ==
    ASSUME IInv, NEW p \in Process,
           CallRefused(p) \/ CommandDies(p) \/ SaveTorn(p)
    PROVE  IInv'
  <1>1. RunningSet(p, Idle) /\ UNCHANGED <<readBy, ackedBy, revoked>>
    BY DEF CallRefused, CommandDies, SaveTorn, Save
  <1> QED
    BY <1>1, NothingToShow DEF Idle

\* A step of no command: revocations only add to what excuses an item.
LEMMA NoCommandMoves ==
    ASSUME IInv, UNCHANGED <<command, readBy, ackedBy>>, revoked \subseteq revoked'
    PROVE  IInv'
  <1>1. AckedWasRead'
    BY AckedStaysRead
  <1>2. \A p \in Process : ItemIsRead(p) => ItemIsRead(p)'
    BY DEF ItemIsRead, Item
  <1> QED
    BY <1>1, <1>2 DEF IInv

LEMMA ReadsInvariant == Spec => []IInv
  <1>1. Init => IInv
    <2> SUFFICES ASSUME Init PROVE IInv
      OBVIOUS
    <2>1. \A p \in Process : command[p].op = "idle"
      BY DEF Init, Idle
    <2> QED
      BY <2>1 DEF Init, IInv, AckedWasRead
  <1>2. ASSUME IInv, [Next]_vars
        PROVE  IInv'
    <2>1. ASSUME NEW p \in Process, Continue(p)
          PROVE  IInv'
      BY <1>2, <2>1, SendsKeep, SyncsKeep, EndsKeep DEF Continue
    <2>2. ASSUME NEW p \in Process,
                 \/ \E a \in Account : SendLookup(p, a)
                 \/ SyncPull(p) \/ CommandDies(p) \/ SaveTorn(p)
          PROVE  IInv'
      BY <1>2, <2>2, SendsKeep, SyncsKeep, EndsKeep
    <2>3. ASSUME NEW d \in Device, Restore(d) \/ RevokeDevice(d)
          PROVE  IInv'
      BY <1>2, <2>3, NoCommandMoves DEF Restore, RevokeDevice
    <2>4. CASE UNCHANGED vars
      BY <1>2, <2>4, NoCommandMoves DEF vars
    <2> QED
      BY <1>2, <2>1, <2>2, <2>3, <2>4 DEF Next
  <1> QED
    BY <1>1, <1>2, PTL DEF Spec

\* A device takes a message off its queue unread only when the sender's device
\* is revoked: whatever runs beside the sync, dies, is torn or is restored.
THEOREM AcksFollowReads == Spec => []AckedWasRead
  <1>1. IInv => AckedWasRead
    BY DEF IInv
  <1> QED
    BY <1>1, ReadsInvariant, PTL

----------------------------------------------------------------------------
(* Roots, chains, sessions *)

Entries(seq) == {seq[i] : i \in DOMAIN seq}
IsSeq(seq) == seq \in Seq(Entries(seq))
Distinct(seq) == \A i, j \in DOMAIN seq : seq[i] = seq[j] => i = j

IsRoot(r) == r = [secrets |-> r.secrets, steps |-> r.steps] /\ IsSeq(r.steps)
Depth(r) == Len(r.steps)

ChainRec(root, label, index) == [root |-> root, label |-> label, index |-> index]
IsChain(c) ==
    /\ c = ChainRec(c.root, c.label, c.index)
    /\ IsRoot(c.root)
    /\ c.index \in Nat

\* The label of a chain that begins a session tells who seals with it and for
\* whom, and the last step of its root that of every other.
Directed(c, d, t) ==
    IF c.root.steps = << >>
    THEN c.label = <<d, t>>
    ELSE LET last == c.root.steps[Depth(c.root)] IN last[2] = d /\ last[3] = t

\* Where a key lies behind the chain a device seals with.
Behind(k, c) ==
    \/ Depth(k.root) \in 0 .. Depth(c.root) - 1
    \/ k.root = c.root /\ k.label = c.label /\ k.index \in 0 .. c.index - 1

SessionFields == {"role", "local", "peer", "preKey", "root", "own", "remote",
                  "send", "receive", "skipped"}

\* What the sending side of a session of d for t is.
IsSession(d, t, s) ==
    /\ DOMAIN s = SessionFields /\ s.local = d /\ s.peer = t
    /\ IsRoot(s.root) /\ IsChain(s.send)
    /\ s.send.root = s.root /\ Directed(s.send, d, t)

----------------------------------------------------------------------------
(* What a device knows of the messages it put into queues *)

LocalFields == {"readable", "sessions", "sent", "got"}
RecordRec(text, device, envelope, delivered) ==
    [text |-> text, device |-> device, envelope |-> envelope, delivered |-> delivered]

\* A record of an outbound event is that of a message which was enqueued, and
\* marked delivered only if its device has read it.
IsRecord(d, r, S, R) ==
    /\ r = RecordRec(r.text, r.device, r.envelope, r.delivered) /\ r.device \in Device
    /\ \E x \in S : /\ x.envelope = r.envelope /\ x.from = d
                    /\ x.to = r.device /\ x.text = r.text
    /\ r.delivered => r.envelope \in R[r.device]

KnownIn(sent, envelope) == \E r \in sent : r.envelope = envelope

\* The sessions and the outbound events of a state of d, S being what was
\* sealed and R what was read: its sessions are past every message it knows of.
Books(d, sessions, sent, S, R) ==
    /\ DOMAIN sessions = Device
    /\ \A t \in Device : sessions[t] = NoSession \/ IsSession(d, t, sessions[t])
    /\ \A r \in sent : IsRecord(d, r, S, R)
    /\ \A x \in S : x.from = d /\ KnownIn(sent, x.envelope) =>
          sessions[x.to] # NoSession /\ Behind(x.key, sessions[x.to].send)
    /\ \A x, y \in S :
          /\ x.from = d /\ KnownIn(sent, x.envelope)
          /\ y.from = d /\ KnownIn(sent, y.envelope)
          /\ x.key = y.key
          => x.envelope = y.envelope

IsLocal(d, local, S, R) ==
    DOMAIN local = LocalFields /\ Books(d, local.sessions, local.sent, S, R)

\* A text has one running send, and goes to a device once.
SendGood(d, c, S, R, numbers) ==
    /\ DOMAIN c.work = LocalFields
    /\ Books(d, c.work.sessions, c.work.sent \union c.done, S, R)
    /\ IsSeq(c.targets) /\ Entries(c.targets) \subseteq Device /\ Distinct(c.targets)
    /\ \E m \in 1 .. numbers[d] : c.text = <<d, m>>
    /\ \A y \in S : y.text = c.text => y.to \notin Entries(c.targets)

\* A message in a queue was sealed, and a receipt is for a message that was read.
IsItem(d, i, S, R) ==
    /\ i.from \in Device /\ i.to = d /\ i.type \in {"message", "ack"}
    /\ i.type = "message" =>
          \E x \in S : /\ x.envelope = i.id /\ x.from = i.from
                       /\ x.to = d /\ x.text = i.text
    /\ i.type = "ack" =>
          /\ \E x \in S : /\ x.envelope = i.ackFor /\ x.from = d
                          /\ x.to = i.from /\ x.text = i.text
          /\ i.ackFor \in R[i.from]

AreItems(d, list, S, R) == IsSeq(list) /\ \A i \in Entries(list) : IsItem(d, i, S, R)

SyncGood(d, c, S, R) ==
    /\ IsLocal(d, c.work, S, R)
    /\ AreItems(d, c.todo, S, R)
    /\ c.stage \in {"open", "emit", "ack"}
    /\ c.stage = "emit" => c.todo # << >> /\ Head(c.todo).type = "message"

CommandGood(d, c, S, R, numbers) ==
    /\ c.op \in {"idle", "send", "sync"}
    /\ c.op = "idle" => c = Idle
    /\ c.op = "send" => SendGood(d, c, S, R, numbers)
    /\ c.op = "sync" => SyncGood(d, c, S, R)

\* Every message has an envelope of its own, and a text goes to a device once.
SealedGood(S, ids, numbers) ==
    /\ \A x \in S :
          /\ x.from \in Device /\ x.to \in Device
          /\ \E n \in 1 .. ids[x.from] : x.envelope = <<x.from, n>>
          /\ \E m \in 1 .. numbers[x.from] : x.text = <<x.from, m>>
          /\ Directed(x.key, x.from, x.to)
    /\ \A x, y \in S : x.envelope = y.envelope => x = y
    /\ \A x, y \in S : x.text = y.text /\ x.to = y.to => x = y

SendsDiffer(commands) ==
    \A p, q \in Process :
        commands[p].op = "send" /\ commands[q].op = "send" /\ p # q
        => commands[p].text # commands[q].text

BooksInv ==
    /\ DOMAIN disk = Device /\ DOMAIN queue = Device
    /\ texts \in [Device -> Nat] /\ envelopes \in [Device -> Nat]
    /\ SealedGood(sealed, envelopes, texts)
    /\ \A d \in Device : IsLocal(d, disk[d], sealed, readBy)
    /\ \A d \in Device : AreItems(d, queue[d], sealed, readBy)
    /\ \A p \in Process : CommandGood(p[1], command[p], sealed, readBy, texts)
    /\ SendsDiffer(command)

----------------------------------------------------------------------------
(* Sequences of anything *)

LEMMA EmptyIsSeq == IsSeq(<< >>) /\ Entries(<< >>) = {}
  BY DEF IsSeq, Entries

LEMMA SeqOfEntries ==
    ASSUME NEW S, NEW seq \in Seq(S)
    PROVE  IsSeq(seq) /\ Entries(seq) \subseteq S
  BY DEF IsSeq, Entries

\* What is appended comes last, and the rest stays where it is.
LEMMA AppendIsSeq ==
    ASSUME NEW seq, IsSeq(seq), NEW e
    PROVE  /\ IsSeq(Append(seq, e))
           /\ Entries(Append(seq, e)) = Entries(seq) \union {e}
           /\ Len(seq) \in Nat /\ Len(Append(seq, e)) = Len(seq) + 1
           /\ DOMAIN seq = 1 .. Len(seq)
           /\ DOMAIN Append(seq, e) = 1 .. Len(seq) + 1
           /\ Append(seq, e)[Len(seq) + 1] = e
           /\ \A i \in DOMAIN seq : Append(seq, e)[i] = seq[i]
  <1> DEFINE S == Entries(seq) \union {e}
             longer == Append(seq, e)
  <1>1. seq \in Seq(S) /\ e \in S
    BY DEF IsSeq, Entries
  <1>2. longer \in Seq(S)
    BY <1>1
  <1>3. /\ Len(seq) \in Nat /\ Len(longer) = Len(seq) + 1
        /\ DOMAIN seq = 1 .. Len(seq)
        /\ DOMAIN longer = 1 .. Len(seq) + 1
        /\ longer[Len(seq) + 1] = e
        /\ \A i \in DOMAIN seq : longer[i] = seq[i]
    BY <1>1
  <1>4. Entries(longer) = S
    <2> HIDE DEF longer
    <2> QED
      BY <1>3 DEF Entries
  <1> QED
    BY <1>2, <1>3, <1>4 DEF IsSeq

\* The first entry is one, and of the others it is none if all are distinct.
LEMMA HeadAndTail ==
    ASSUME NEW seq, IsSeq(seq), seq # << >>
    PROVE  /\ Head(seq) \in Entries(seq)
           /\ IsSeq(Tail(seq)) /\ Entries(Tail(seq)) \subseteq Entries(seq)
           /\ Distinct(seq) => Distinct(Tail(seq)) /\ Head(seq) \notin Entries(Tail(seq))
  <1> DEFINE S == Entries(seq)
             rest == Tail(seq)
  <1>1. /\ seq \in Seq(S) /\ Len(seq) \in Nat \ {0}
        /\ DOMAIN seq = 1 .. Len(seq) /\ Head(seq) = seq[1]
    BY DEF IsSeq
  <1>2. /\ rest \in Seq(S) /\ DOMAIN rest = 1 .. Len(seq) - 1
        /\ \A i \in 1 .. Len(seq) - 1 : rest[i] = seq[i + 1]
    BY <1>1
  <1> HIDE DEF rest
  <1>3. Head(seq) \in S /\ IsSeq(rest) /\ Entries(rest) \subseteq S
    BY <1>1, <1>2, SeqOfEntries DEF Entries
  <1>4. ASSUME Distinct(seq)
        PROVE  Distinct(rest) /\ Head(seq) \notin Entries(rest)
    <2>1. ASSUME NEW i \in DOMAIN rest
          PROVE  i + 1 \in DOMAIN seq /\ i + 1 # 1 /\ rest[i] = seq[i + 1]
      BY <1>1, <1>2
    <2>2. 1 \in DOMAIN seq
      BY <1>1
    <2>3. ASSUME NEW i \in DOMAIN rest, NEW j \in DOMAIN rest, rest[i] = rest[j]
          PROVE  i = j
      <3>1. i + 1 = j + 1
        BY <1>4, <2>1, <2>3 DEF Distinct
      <3> QED
        BY <1>1, <1>2, <3>1
    <2>4. \A i \in DOMAIN rest : rest[i] # Head(seq)
      BY <1>1, <1>4, <2>1, <2>2 DEF Distinct
    <2> QED
      BY <2>3, <2>4 DEF Distinct, Entries
  <1> QED
    BY <1>3, <1>4 DEF rest

\* A set of numbers that is not empty has a smallest one: the way to show by
\* induction what a recursive function is.
LEMMA SmallestNumber ==
    ASSUME NEW T, T \subseteq Nat, T # {}
    PROVE  \E m \in T : \A n \in T : m <= n
  <1> DEFINE R == {ss \in Nat \X Nat : ss[1] < ss[2]}
  <1>1. IsWellFoundedOn(R, Nat)
    BY NatLessThanWellFounded DEF OpToRel
  <1>2. PICK m \in T : \A n \in T : ~(<<n, m>> \in R)
    <2> HIDE DEF R
    <2> QED BY <1>1, WFMin
  <1>3. \A n \in T : ~(n < m)
    BY <1>2
  <1> QED
    BY <1>3

\* What defines the filter has a solution.
LEMMA FilterIsDefined ==
    ASSUME NEW list, NEW places, Len(list) \in Nat
    PROVE  \E f : /\ f = [n \in 0 .. Len(list) |->
                            IF n = 0 THEN << >>
                            ELSE IF n \in places THEN Append(f[n - 1], list[n]) ELSE f[n - 1]]
                  /\ Filtered(list, places) = f[Len(list)]
  <1> DEFINE Solves(f, m) ==
                 f = [n \in 0 .. m |->
                         IF n = 0 THEN << >>
                         ELSE IF n \in places THEN Append(f[n - 1], list[n]) ELSE f[n - 1]]
             Unsolved == {m \in Nat : ~\E f : Solves(f, m)}
  <1>1. Unsolved = {}
    <2> SUFFICES ASSUME Unsolved # {}
                 PROVE  FALSE
      OBVIOUS
    <2>1. PICK m \in Unsolved : \A n \in Unsolved : m <= n
      <3>1. Unsolved \subseteq Nat
        OBVIOUS
      <3> HIDE DEF Unsolved
      <3> QED
        BY <3>1, SmallestNumber
    <2>2. CASE m = 0
      <3>1. Solves([n \in 0 .. 0 |-> << >>], 0)
        OBVIOUS
      <3> QED
        BY <2>2, <3>1
    <2>3. CASE m # 0
      <3>1. m - 1 \in Nat /\ m - 1 \notin Unsolved
        <4>1. m \in Nat
          BY <2>1
        <4> HIDE DEF Unsolved
        <4> QED
          BY <2>1, <2>3, <4>1
      <3>2. PICK f : Solves(f, m - 1)
        BY <3>1
      <3> DEFINE g == [n \in 0 .. m |-> IF n < m THEN f[n]
                          ELSE IF m \in places THEN Append(f[m - 1], list[m]) ELSE f[m - 1]]
      <3>3. \A n \in 0 .. m - 1 : g[n] = f[n]
        BY <3>1
      <3>4. \A n \in 0 .. m - 1 : f[n] = IF n = 0 THEN << >>
                         ELSE IF n \in places THEN Append(f[n - 1], list[n]) ELSE f[n - 1]
        BY <3>2
      <3>5. \A n \in 0 .. m : n # 0 => n - 1 \in 0 .. m - 1
        BY <3>1
      <3>6. ASSUME NEW n \in 0 .. m
            PROVE  g[n] = IF n = 0 THEN << >>
                         ELSE IF n \in places THEN Append(g[n - 1], list[n]) ELSE g[n - 1]
        <4>1. CASE n < m
          <5>1. n \in 0 .. m - 1 /\ (n # 0 => n - 1 \in 0 .. m - 1)
            BY <3>1, <4>1
          <5> HIDE DEF g
          <5> QED
            BY <3>3, <3>4, <5>1
        <4>2. CASE n = m
          <5>1. g[m] = IF m \in places THEN Append(f[m - 1], list[m]) ELSE f[m - 1]
            BY <3>1
          <5> HIDE DEF g
          <5> QED
            BY <2>3, <3>1, <3>3, <4>2, <5>1
        <4> QED
          BY <3>1, <4>1, <4>2
      <3>7. g = [n \in 0 .. m |-> g[n]]
        OBVIOUS
      <3> HIDE DEF g
      <3>8. Solves(g, m)
        BY <3>6, <3>7
      <3> QED
        BY <3>8
    <2> QED
      BY <2>2, <2>3
  <1>2. \E f : Solves(f, Len(list))
    BY <1>1
  <1> DEFINE chosen == CHOOSE f : Solves(f, Len(list))
  <1>3. Solves(chosen, Len(list))
    BY <1>2
  <1>4. Filtered(list, places) = chosen[Len(list)]
    BY DEF Filtered
  <1> QED
    BY <1>3, <1>4

\* The entries of a list at places that grow.
PickedBy(list, h, seq) ==
    /\ h \in [DOMAIN seq -> DOMAIN list]
    /\ \A k \in DOMAIN seq : seq[k] = list[h[k]]
    /\ \A k, l \in DOMAIN seq : k < l => h[k] < h[l]

\* What a filter keeps is the entries at the places kept, in their order.
LEMMA FilterKeeps ==
    ASSUME NEW list, IsSeq(list), NEW places
    PROVE  /\ IsSeq(Filtered(list, places))
           /\ \E h : /\ PickedBy(list, h, Filtered(list, places))
                     /\ \A k \in DOMAIN Filtered(list, places) : h[k] \in places
           /\ \A i \in DOMAIN list \intersect places :
                 list[i] \in Entries(Filtered(list, places))
  <1> DEFINE size == Len(list)
             S == Entries(list)
  <1>1. size \in Nat /\ DOMAIN list = 1 .. size /\ \A i \in 1 .. size : list[i] \in S
    BY DEF IsSeq
  <1>2. PICK f : /\ f = [n \in 0 .. size |->
                            IF n = 0 THEN << >>
                            ELSE IF n \in places THEN Append(f[n - 1], list[n]) ELSE f[n - 1]]
                 /\ Filtered(list, places) = f[size]
    BY <1>1, FilterIsDefined
  <1> DEFINE Kept(seq, n) ==
                 /\ seq \in Seq(S)
                 /\ \E h : /\ PickedBy(list, h, seq)
                           /\ \A k \in DOMAIN seq : h[k] \in places /\ h[k] <= n
                 /\ \A i \in 1 .. n : i \in places => \E k \in DOMAIN seq : seq[k] = list[i]
             Bad == {n \in 0 .. size : ~Kept(f[n], n)}
  <1>3. f[0] = << >>
    BY <1>1, <1>2
  <1>4. ASSUME NEW n \in 1 .. size
        PROVE  /\ n \in places => f[n] = Append(f[n - 1], list[n])
               /\ n \notin places => f[n] = f[n - 1]
    <2>1. n \in 0 .. size /\ n # 0
      BY <1>1
    <2>2. f[n] = IF n = 0 THEN << >>
                 ELSE IF n \in places THEN Append(f[n - 1], list[n]) ELSE f[n - 1]
      BY <1>2, <2>1
    <2> QED
      BY <2>1, <2>2
  <1>5. Bad = {}
    <2> SUFFICES ASSUME Bad # {}
                 PROVE  FALSE
      OBVIOUS
    <2>1. PICK m \in Bad : \A n \in Bad : m <= n
      <3>1. Bad \subseteq Nat
        BY <1>1
      <3> HIDE DEF Bad
      <3> QED
        BY <3>1, SmallestNumber
    <2>2. m \in 0 .. size /\ ~Kept(f[m], m)
      BY <2>1
    <2>3. m # 0
      <3>1. Kept(<< >>, 0)
        <4>1. PickedBy(list, [k \in {} |-> k], << >>)
          BY DEF PickedBy
        <4> QED
          BY <4>1
      <3> HIDE DEF Kept
      <3> QED
        BY <1>3, <2>2, <3>1
    <2>4. m \in 1 .. size /\ m - 1 \in 0 .. size /\ m - 1 \notin Bad
      <3>1. m \in 1 .. size /\ m - 1 \in 0 .. size
        BY <1>1, <2>2, <2>3
      <3> HIDE DEF Bad
      <3> QED
        BY <2>1, <3>1
    <2> DEFINE before == f[m - 1]
    <2>5. Kept(before, m - 1)
      BY <2>4
    <2>6. CASE m \notin places
      <3>1. f[m] = before
        BY <1>4, <2>4, <2>6
      <3>2. Kept(before, m)
        <4> HIDE DEF before
        <4>1. \A i \in 1 .. m : i \in 1 .. m - 1 \/ i = m
          BY <1>1, <2>4
        <4>2. PICK h : /\ PickedBy(list, h, before)
                       /\ \A k \in DOMAIN before : h[k] \in places /\ h[k] <= m - 1
          BY <2>5
        <4>3. \A k \in DOMAIN before : h[k] <= m
          BY <1>1, <2>4, <4>2 DEF PickedBy
        <4> QED
          BY <2>5, <2>6, <4>1, <4>2, <4>3
      <3> HIDE DEF Kept
      <3> QED
        BY <2>2, <3>1, <3>2
    <2>7. CASE m \in places
      <3> DEFINE longer == Append(before, list[m])
      <3>1. f[m] = longer
        BY <1>4, <2>4, <2>7
      <3>2. before \in Seq(S) /\ list[m] \in S
        BY <1>1, <2>4, <2>5
      <3>3. /\ longer \in Seq(S)
            /\ Len(before) \in Nat /\ Len(longer) = Len(before) + 1
            /\ DOMAIN before = 1 .. Len(before)
            /\ DOMAIN longer = 1 .. Len(before) + 1
            /\ longer[Len(before) + 1] = list[m]
            /\ \A i \in DOMAIN before : longer[i] = before[i]
        <4> HIDE DEF before, S
        <4> QED
          BY <3>2
      <3> HIDE DEF before, longer, S
      <3>4. PICK h : /\ PickedBy(list, h, before)
                     /\ \A k \in DOMAIN before : h[k] \in places /\ h[k] <= m - 1
        BY <2>5
      <3> DEFINE last == Len(before) + 1
                 g == [k \in DOMAIN longer |-> IF k = last THEN m ELSE h[k]]
      <3>5. \A k \in DOMAIN longer : k \in DOMAIN before \/ k = last
        BY <3>3
      <3>6. \A k \in DOMAIN before : g[k] = h[k] /\ k < last /\ k \in DOMAIN longer
        BY <3>3
      <3>7. g[last] = m /\ last \in DOMAIN longer
        BY <3>3
      <3>8. \A k \in DOMAIN before : h[k] \in DOMAIN list /\ h[k] < m /\ h[k] <= m
        <4>1. \A k \in DOMAIN before : h[k] \in 1 .. size /\ h[k] <= m - 1
          BY <1>1, <3>4 DEF PickedBy
        <4> QED
          BY <1>1, <2>4, <4>1
      <3>9. \A k \in DOMAIN longer : g[k] \in places /\ g[k] <= m /\ g[k] \in DOMAIN list
        BY <1>1, <2>4, <2>7, <3>4, <3>5, <3>6, <3>7, <3>8
      <3>10. g \in [DOMAIN longer -> DOMAIN list]
        BY <3>9
      <3>11. \A k \in DOMAIN longer : longer[k] = list[g[k]]
        BY <3>3, <3>4, <3>5, <3>6, <3>7 DEF PickedBy
      <3>12. ASSUME NEW k \in DOMAIN longer, NEW l \in DOMAIN longer, k < l
             PROVE  g[k] < g[l]
        <4>1. k \in DOMAIN before
          BY <3>3, <3>12
        <4>2. CASE l \in DOMAIN before
          BY <3>4, <3>6, <3>12, <4>1, <4>2 DEF PickedBy
        <4>3. CASE l = last
          BY <3>6, <3>7, <3>8, <4>1, <4>3
        <4> QED
          BY <3>5, <4>2, <4>3
      <3> HIDE DEF g
      <3>13. PickedBy(list, g, longer)
        BY <3>10, <3>11, <3>12 DEF PickedBy
      <3>14. ASSUME NEW i \in 1 .. m, i \in places
             PROVE  \E k \in DOMAIN longer : longer[k] = list[i]
        <4>1. CASE i = m
          BY <3>3, <3>7, <4>1
        <4>2. CASE i # m
          <5>1. i \in 1 .. m - 1
            BY <1>1, <2>4, <4>2
          <5> QED
            BY <2>5, <3>3, <3>6, <3>14, <5>1
        <4> QED
          BY <4>1, <4>2
      <3>15. Kept(longer, m)
        BY <3>3, <3>9, <3>13, <3>14
      <3> HIDE DEF Kept
      <3> QED
        BY <2>2, <3>1, <3>15
    <2> QED
      BY <2>6, <2>7
  <1>6. Kept(f[size], size)
    <2>1. size \in 0 .. size
      BY <1>1
    <2> HIDE DEF Kept
    <2> QED
      BY <1>5, <2>1
  <1> DEFINE result == Filtered(list, places)
  <1>7. Kept(result, size)
    <2> HIDE DEF Kept
    <2> QED
      BY <1>2, <1>6
  <1> HIDE DEF result
  <1>8. result \in Seq(Entries(result))
    BY <1>7 DEF Entries
  <1>9. /\ IsSeq(result)
        /\ \E h : PickedBy(list, h, result) /\ \A k \in DOMAIN result : h[k] \in places
        /\ \A i \in DOMAIN list \intersect places : list[i] \in Entries(result)
    BY <1>1, <1>7, <1>8 DEF IsSeq, Entries
  <1> QED
    BY <1>9 DEF result

\* So it keeps nothing else, and nothing twice.
LEMMA FilterKeepsEntries ==
    ASSUME NEW list, IsSeq(list), NEW places
    PROVE  /\ \A e \in Entries(Filtered(list, places)) :
                 \E i \in DOMAIN list : i \in places /\ e = list[i]
           /\ Distinct(list) => Distinct(Filtered(list, places))
  <1> DEFINE result == Filtered(list, places)
  <1>1. PICK h : PickedBy(list, h, result) /\ \A k \in DOMAIN result : h[k] \in places
    BY FilterKeeps
  <1>2. DOMAIN result \subseteq Nat
    <2>1. IsSeq(result)
      BY FilterKeeps
    <2> HIDE DEF result
    <2> QED
      BY <2>1 DEF IsSeq
  <1> HIDE DEF result
  <1>3. \A e \in Entries(result) : \E i \in DOMAIN list : i \in places /\ e = list[i]
    BY <1>1 DEF PickedBy, Entries
  <1>4. ASSUME Distinct(list), NEW k \in DOMAIN result, NEW l \in DOMAIN result,
               result[k] = result[l], k < l
        PROVE  FALSE
    <2>1. h[k] = h[l] /\ h[k] < h[l] /\ h[l] \in 1 .. Len(list) /\ Len(list) \in Nat
      BY <1>1, <1>4 DEF PickedBy, Distinct, IsSeq
    <2> QED
      BY <2>1
  <1>5. Distinct(list) => Distinct(result)
    <2> SUFFICES ASSUME Distinct(list), NEW k \in DOMAIN result, NEW l \in DOMAIN result,
                        result[k] = result[l], k # l
                 PROVE  FALSE
      BY DEF Distinct
    <2>1. k < l \/ l < k
      BY <1>2
    <2> QED
      BY <1>4, <2>1
  <1> QED
    BY <1>3, <1>5 DEF result

----------------------------------------------------------------------------
(* What sealing and opening do to a session *)

\* Every step of the root key is taken in one direction.
LEMMA NextRootEffect ==
    ASSUME NEW r, IsRoot(r), NEW secret, NEW from, NEW to
    PROVE  LET next == NextRoot(r, secret, from, to) IN
           /\ IsRoot(next)
           /\ Depth(r) \in Nat
           /\ Depth(next) = Depth(r) + 1
           /\ next.steps # << >>
           /\ next.steps[Depth(next)] = <<secret, from, to>>
  <1> DEFINE e == <<secret, from, to>>
             next == NextRoot(r, secret, from, to)
  <1>1. next = [secrets |-> r.secrets, steps |-> Append(r.steps, e)]
    <2>1. PICK a, b : r = [secrets |-> a, steps |-> b]
      BY DEF IsRoot
    <2>2. ASSUME NEW x
          PROVE  [r EXCEPT !.steps = x] = [secrets |-> a, steps |-> x]
      BY <2>1
    <2>3. r.secrets = a /\ r.steps = b
      BY <2>1
    <2> QED
      BY <2>2, <2>3 DEF NextRoot
  <1>2. IsSeq(r.steps)
    BY DEF IsRoot
  <1>3. /\ IsSeq(Append(r.steps, e))
        /\ Len(r.steps) \in Nat /\ Len(Append(r.steps, e)) = Len(r.steps) + 1
        /\ Append(r.steps, e)[Len(r.steps) + 1] = e
    BY <1>2, AppendIsSeq
  <1> HIDE DEF next, e
  <1>4. next.steps = Append(r.steps, e) /\ next.secrets = r.secrets
    BY <1>1
  <1>5. Append(r.steps, e) # << >>
    BY <1>3
  <1>6. IsRoot(next)
    BY <1>1, <1>3, <1>4 DEF IsRoot
  <1>7. /\ Depth(r) \in Nat /\ Depth(next) = Depth(r) + 1
        /\ next.steps # << >>
        /\ next.steps[Depth(next)] = e
    BY <1>3, <1>4, <1>5 DEF Depth
  <1> QED
    BY <1>6, <1>7 DEF next, e

\* A session that begins, in either role.
LEMMA NewSessionEffect ==
    ASSUME NEW d, NEW t, NEW role, NEW secrets, NEW preKey, NEW own
    PROVE  IsSession(d, t, NewSession(d, t, role, [secrets |-> secrets, steps |-> << >>],
                                      preKey, own))
  <1> DEFINE root == [secrets |-> secrets, steps |-> << >>]
             s == NewSession(d, t, role, root, preKey, own)
  <1>1. IsRoot(root) /\ root.steps = << >>
    BY EmptyIsSeq DEF IsRoot
  <1> HIDE DEF root
  <1> DEFINE send == ChainRec(root, <<d, t>>, 0)
  <1>2. /\ DOMAIN s = SessionFields /\ s.local = d /\ s.peer = t
        /\ s.root = root /\ s.send = send
    BY DEF NewSession, InitialChain, ChainRec, SessionFields
  <1> HIDE DEF s
  <1>3. IsChain(send) /\ send.root = root /\ Directed(send, d, t)
    BY <1>1 DEF IsChain, ChainRec, Directed
  <1>4. IsSession(d, t, s)
    BY <1>1, <1>2, <1>3 DEF IsSession
  <1> QED
    BY <1>4 DEF s, root

\* Sealing takes one step on the sending chain.
LEMMA AfterSealEffect ==
    ASSUME NEW d, NEW t, NEW s, IsSession(d, t, s)
    PROVE  /\ IsSession(d, t, AfterSeal(s))
           /\ AfterSeal(s).send = ChainRec(s.send.root, s.send.label, s.send.index + 1)
  <1> DEFINE u == AfterSeal(s)
             c == ChainRec(s.send.root, s.send.label, s.send.index + 1)
  <1>1. NextChain(s.send) = c
    BY DEF NextChain, IsSession, IsChain, ChainRec
  <1>2. u = [s EXCEPT !.send = c]
    BY <1>1 DEF AfterSeal, IsSession
  <1>3. IsChain(c) /\ c.root = s.send.root /\ c.label = s.send.label
    BY DEF IsSession, IsChain, ChainRec
  <1>4. Directed(c, d, t)
    BY <1>3 DEF IsSession, Directed
  <1> HIDE DEF u, c
  <1>5. /\ DOMAIN u = SessionFields /\ u.local = d /\ u.peer = t
        /\ u.root = s.root /\ u.send = c
    BY <1>2 DEF IsSession, SessionFields
  <1>6. IsSession(d, t, u)
    BY <1>3, <1>4, <1>5 DEF IsSession
  <1> QED
    BY <1>5, <1>6 DEF u, c

\* The sending side of u is that of s, or of a turn later than s.
Later(d, t, s, u) ==
    /\ IsSession(d, t, u)
    /\ u.send = s.send \/ (Depth(s.root) \in Nat /\ Depth(s.root) < Depth(u.root))

\* A session whose sending side is that of another.
LEMMA SameSide ==
    ASSUME NEW d, NEW t, NEW s, NEW w, Later(d, t, s, w), NEW u, DOMAIN u = SessionFields,
           u.local = w.local, u.peer = w.peer, u.root = w.root, u.send = w.send
    PROVE  Later(d, t, s, u)
  BY DEF Later, IsSession

\* A new root for the sending side.
LEMMA NewSide ==
    ASSUME NEW d, NEW t, NEW s, IsSession(d, t, s), NEW r, IsRoot(r),
           Depth(r) \in Nat, Depth(s.root) \in Nat, Depth(s.root) <= Depth(r), NEW secret,
           NEW u, DOMAIN u = SessionFields, u.local = d, u.peer = t,
           u.root = NextRoot(r, secret, d, t), u.send = TurnChain(u.root)
    PROVE  Later(d, t, s, u)
  <1> DEFINE sent == NextRoot(r, secret, d, t)
  <1>1. /\ IsRoot(sent) /\ Depth(sent) = Depth(r) + 1
        /\ sent.steps # << >> /\ sent.steps[Depth(sent)] = <<secret, d, t>>
    BY NextRootEffect
  <1> HIDE DEF sent
  <1>2. u.root = sent
    BY DEF sent
  <1>3. IsChain(u.send) /\ u.send.root = sent
    BY <1>1, <1>2 DEF IsChain, TurnChain, ChainRec
  <1>4. Directed(u.send, d, t)
    BY <1>1, <1>3 DEF Directed
  <1>5. Depth(s.root) < Depth(u.root)
    BY <1>1, <1>2
  <1> QED
    BY <1>1, <1>2, <1>3, <1>4, <1>5 DEF Later, IsSession

\* maybeAdvanceDhRatchet.
LEMMA AdvancedEffect ==
    ASSUME NEW d, NEW t, NEW s, IsSession(d, t, s), NEW theirs, NEW fresh
    PROVE  Later(d, t, s, Advanced(s, theirs, fresh))
  <1> DEFINE received == ReceiveRoot(s, theirs)
             secret == diffieHellman(fresh, theirs)
             sent == NextRoot(received, secret, d, t)
             turn == Turn(s, theirs, fresh)
  <1>1. DOMAIN s = SessionFields /\ s.local = d /\ s.peer = t /\ IsRoot(s.root)
    BY DEF IsSession
  <1>2. /\ IsRoot(received) /\ Depth(s.root) \in Nat
        /\ Depth(received) = Depth(s.root) + 1
    BY <1>1, NextRootEffect DEF ReceiveRoot
  <1>3. /\ DOMAIN turn = SessionFields /\ turn.local = d /\ turn.peer = t
        /\ turn.root = sent /\ turn.send = TurnChain(sent)
    <2>1. turn = [s EXCEPT !.root = sent, !.own = fresh, !.remote = theirs,
                           !.send = TurnChain(sent), !.receive = TurnChain(received)]
      BY <1>1 DEF Turn
    <2> HIDE DEF turn, sent, received
    <2> QED
      BY <1>1, <2>1 DEF SessionFields
  <1> HIDE DEF received, secret, turn
  <1>4. Later(d, t, s, turn)
    BY <1>2, <1>3, NewSide
  <1>5. CASE Advanced(s, theirs, fresh) = s
    BY <1>5 DEF Later
  <1>6. CASE Advanced(s, theirs, fresh) = turn
    BY <1>4, <1>6
  <1>7. CASE Advanced(s, theirs, fresh) = [turn EXCEPT !.skipped = {}]
    <2> DEFINE u == [turn EXCEPT !.skipped = {}]
    <2>1. /\ DOMAIN u = SessionFields /\ u.local = turn.local /\ u.peer = turn.peer
          /\ u.root = turn.root /\ u.send = turn.send
      BY <1>3 DEF SessionFields
    <2> HIDE DEF u
    <2>2. Later(d, t, s, u)
      BY <1>4, <2>1, SameSide
    <2> QED
      BY <1>7, <2>2 DEF u
  <1>8. CASE Advanced(s, theirs, fresh) = FirstAnswer(s, theirs)
    <2> DEFINE exchange == diffieHellman(s.own, theirs)
               answer == NextRoot(s.root, exchange, d, t)
               u == FirstAnswer(s, theirs)
    <2>1. u = [s EXCEPT !.root = answer, !.remote = theirs, !.send = TurnChain(answer)]
      BY <1>1 DEF FirstAnswer
    <2> HIDE DEF u, answer
    <2>2. /\ DOMAIN u = SessionFields /\ u.local = d /\ u.peer = t
          /\ u.root = answer /\ u.send = TurnChain(answer)
      BY <1>1, <2>1 DEF SessionFields
    <2> HIDE DEF exchange
    <2>3. Later(d, t, s, u)
      BY <1>1, <1>2, <2>2, NewSide DEF answer
    <2> QED
      BY <1>8, <2>3 DEF u
  <1>9. \/ Advanced(s, theirs, fresh) = s
        \/ Advanced(s, theirs, fresh) = turn
        \/ Advanced(s, theirs, fresh) = [turn EXCEPT !.skipped = {}]
        \/ Advanced(s, theirs, fresh) = FirstAnswer(s, theirs)
    BY DEF Advanced, turn
  <1> QED
    BY <1>5, <1>6, <1>7, <1>8, <1>9

\* Opening changes the sending side by a turn or not at all.
LEMMA OpenedEffect ==
    ASSUME NEW d, NEW t, NEW s, IsSession(d, t, s), NEW m, NEW fresh,
           Opened(s, m, fresh).ok
    PROVE  Later(d, t, s, Opened(s, m, fresh).session)
  <1> DEFINE w == Advanced(s, m.ratchet, fresh)
             stored == {k \in w.skipped : k.ratchet = m.ratchet /\ k.index = m.index}
             kept == CHOOSE k \in stored : TRUE
             less == [w EXCEPT !.skipped = @ \ {kept}]
             caughtUp == Skipping(w, m.index)
             past == [caughtUp EXCEPT !.receive = NextChain(@)]
  <1>1. Later(d, t, s, w)
    BY AdvancedEffect
  <1>2. DOMAIN w = SessionFields
    BY <1>1 DEF Later, IsSession
  <1>3. \/ Opened(s, m, fresh) = Decrypted(kept.key, m, less)
        \/ Opened(s, m, fresh) = Decrypted(caughtUp.receive, m, past)
        \/ Opened(s, m, fresh) = Refused
    BY DEF Opened
  <1> HIDE DEF w, stored, kept
  <1>4. Later(d, t, s, less)
    <2>1. /\ DOMAIN less = SessionFields /\ less.local = w.local /\ less.peer = w.peer
          /\ less.root = w.root /\ less.send = w.send
      BY <1>2 DEF SessionFields
    <2> HIDE DEF less
    <2> QED
      BY <1>1, <2>1, SameSide
  <1>5. Later(d, t, s, past)
    <2>1. /\ DOMAIN caughtUp = SessionFields /\ caughtUp.local = w.local
          /\ caughtUp.peer = w.peer /\ caughtUp.root = w.root /\ caughtUp.send = w.send
      BY <1>2 DEF Skipping, SessionFields
    <2> HIDE DEF caughtUp
    <2>2. /\ DOMAIN past = SessionFields /\ past.local = w.local /\ past.peer = w.peer
          /\ past.root = w.root /\ past.send = w.send
      BY <2>1 DEF SessionFields
    <2> HIDE DEF past
    <2> QED
      BY <1>1, <2>2, SameSide
  <1> HIDE DEF less, past, caughtUp
  <1>6. Opened(s, m, fresh).session = less \/ Opened(s, m, fresh).session = past
    BY <1>3 DEF Decrypted, Accepted, Refused
  <1> QED
    BY <1>4, <1>5, <1>6

----------------------------------------------------------------------------
(* Keys behind a chain *)

LEMMA DepthIsNat ==
    ASSUME NEW r, IsRoot(r)
    PROVE  Depth(r) \in Nat
  <1>1. IsSeq(r.steps)
    BY DEF IsRoot
  <1> QED
    BY <1>1 DEF IsSeq, Depth

LEMMA SessionIsOne ==
    ASSUME NEW d, NEW t, NEW s, IsSession(d, t, s)
    PROVE  s # NoSession
  <1>1. "send" \in DOMAIN s /\ "send" \notin DOMAIN NoSession
    BY DEF IsSession, SessionFields, NoSession
  <1> QED
    BY <1>1

LEMMA NotBehindItself ==
    ASSUME NEW c, IsChain(c)
    PROVE  ~Behind(c, c)
  <1>1. Depth(c.root) \in Nat /\ c.index \in Nat
    BY DepthIsNat DEF IsChain
  <1> QED
    BY <1>1 DEF Behind

\* Chains for two devices never meet.
LEMMA DirectionsDiffer ==
    ASSUME NEW c, NEW d, NEW t, NEW e, NEW u, Directed(c, d, t), Directed(c, e, u)
    PROVE  d = e /\ t = u
  <1>1. CASE c.root.steps = << >>
    BY <1>1 DEF Directed
  <1>2. CASE c.root.steps # << >>
    BY <1>2 DEF Directed
  <1> QED
    BY <1>1, <1>2

\* What is behind a chain stays behind what the chain becomes.
LEMMA BehindStays ==
    ASSUME NEW d, NEW t, NEW s, IsSession(d, t, s), NEW k, Behind(k, s.send)
    PROVE  /\ Behind(k, AfterSeal(s).send)
           /\ \A u : Later(d, t, s, u) => Behind(k, u.send)
  <1>1. /\ IsChain(s.send) /\ IsRoot(s.root) /\ s.send.root = s.root
        /\ Depth(s.root) \in Nat /\ s.send.index \in Nat
    BY DepthIsNat DEF IsSession, IsChain
  <1>2. Behind(k, AfterSeal(s).send)
    <2> DEFINE c == AfterSeal(s).send
    <2>1. c = ChainRec(s.send.root, s.send.label, s.send.index + 1)
      BY AfterSealEffect
    <2> HIDE DEF c
    <2>2. c.root = s.send.root /\ c.label = s.send.label /\ c.index = s.send.index + 1
      BY <2>1 DEF ChainRec
    <2>3. Behind(k, c)
      BY <1>1, <2>2 DEF Behind
    <2> QED
      BY <2>3 DEF c
  <1>3. ASSUME NEW u, Later(d, t, s, u)
        PROVE  Behind(k, u.send)
    <2>1. CASE u.send = s.send
      BY <2>1
    <2>2. CASE Depth(s.root) < Depth(u.root)
      <3>1. u.send.root = u.root /\ Depth(u.root) \in Nat
        BY <1>3, DepthIsNat DEF Later, IsSession
      <3>2. Depth(k.root) \in 0 .. Depth(s.root)
        BY <1>1 DEF Behind
      <3> QED
        BY <1>1, <2>2, <3>1, <3>2 DEF Behind
    <2> QED
      BY <1>3, <2>1, <2>2 DEF Later
  <1> QED
    BY <1>2, <1>3

----------------------------------------------------------------------------
(* A device's books *)

\* More was sealed, under envelopes of its own, and more was read.
LEMMA BooksGrow ==
    ASSUME NEW d, NEW sessions, NEW sent, NEW S, NEW R, Books(d, sessions, sent, S, R),
           NEW S2, S \subseteq S2, NEW R2, \A t \in Device : R[t] \subseteq R2[t],
           \A x \in S2 \ S : \A y \in S : x.envelope # y.envelope
    PROVE  Books(d, sessions, sent, S2, R2)
  <1>1. \A r \in sent : IsRecord(d, r, S2, R2)
    BY DEF Books, IsRecord
  <1>2. ASSUME NEW x \in S2, KnownIn(sent, x.envelope)
        PROVE  x \in S
    <2>1. PICK r \in sent : r.envelope = x.envelope
      BY <1>2 DEF KnownIn
    <2>2. PICK y \in S : y.envelope = r.envelope
      BY <2>1 DEF Books, IsRecord
    <2> QED
      BY <2>1, <2>2
  <1> QED
    BY <1>1, <1>2 DEF Books

\* A device that starts, or was restored, knows of nothing.
LEMMA BooksBegin ==
    ASSUME NEW d, NEW S, NEW R, NEW readable
    PROVE  /\ IsLocal(d, EmptyState, S, R)
           /\ IsLocal(d, [EmptyState EXCEPT !.readable = readable], S, R)
  <1>1. Books(d, [t \in Device |-> NoSession], {}, S, R)
    BY DEF Books, KnownIn
  <1>2. ASSUME NEW local,
               local \in {EmptyState, [EmptyState EXCEPT !.readable = readable]}
        PROVE  /\ DOMAIN local = LocalFields
               /\ local.sessions = [t \in Device |-> NoSession] /\ local.sent = {}
    BY <1>2 DEF EmptyState, LocalFields
  <1> QED
    BY <1>1, <1>2 DEF IsLocal

\* A session begins, or opens a message.
LEMMA BooksWithSession ==
    ASSUME NEW d, NEW sessions, NEW sent, NEW S, NEW R, Books(d, sessions, sent, S, R),
           \A x \in S : x.to \in Device,
           NEW t \in Device, NEW u, IsSession(d, t, u),
           sessions[t] = NoSession \/ Later(d, t, sessions[t], u)
    PROVE  Books(d, [sessions EXCEPT ![t] = u], sent, S, R)
  <1> DEFINE more == [sessions EXCEPT ![t] = u]
  <1>1. DOMAIN more = Device /\ more[t] = u /\ \A e \in Device : e # t => more[e] = sessions[e]
    BY DEF Books
  <1> HIDE DEF more
  <1>2. \A e \in Device : more[e] = NoSession \/ IsSession(d, e, more[e])
    BY <1>1 DEF Books
  <1>3. ASSUME NEW x \in S, x.from = d, KnownIn(sent, x.envelope)
        PROVE  more[x.to] # NoSession /\ Behind(x.key, more[x.to].send)
    <2>1. sessions[x.to] # NoSession /\ Behind(x.key, sessions[x.to].send)
      BY <1>3 DEF Books
    <2>2. CASE x.to = t
      <3>1. IsSession(d, t, sessions[t]) /\ Later(d, t, sessions[t], u)
        BY <2>1, <2>2 DEF Books
      <3> QED
        BY <1>1, <2>1, <2>2, <3>1, BehindStays, SessionIsOne
    <2> QED
      BY <1>1, <2>1, <2>2
  <1>4. Books(d, more, sent, S, R)
    BY <1>1, <1>2, <1>3 DEF Books
  <1> QED
    BY <1>4 DEF more

\* A message is sealed and recorded.  Its key is that of no message known: those
\* for the same device are behind the chain, the others are for another one.
LEMMA BooksSeal ==
    ASSUME NEW d, NEW sessions, NEW sent, NEW S, NEW R, Books(d, sessions, sent, S, R),
           \A x \in S : x.to \in Device /\ Directed(x.key, x.from, x.to),
           NEW t \in Device, sessions[t] # NoSession, NEW text, NEW id,
           \A x \in S : x.envelope # id, NEW ratchet,
           NEW z, z = [envelope |-> id, from |-> d, to |-> t, text |-> text,
                       ratchet |-> ratchet, key |-> sessions[t].send],
           NEW r, r = RecordRec(text, t, id, FALSE)
    PROVE  Books(d, [sessions EXCEPT ![t] = AfterSeal(sessions[t])],
                 sent \union {r}, S \union {z}, R)
  <1> DEFINE s == sessions[t]
             u == AfterSeal(s)
             more == [sessions EXCEPT ![t] = u]
  <1>1. IsSession(d, t, s) /\ IsSession(d, t, u)
    BY AfterSealEffect DEF Books
  <1>2. /\ z.envelope = id /\ z.from = d /\ z.to = t /\ z.text = text /\ z.key = s.send
        /\ r.text = text /\ r.device = t /\ r.envelope = id /\ r.delivered = FALSE
    BY DEF RecordRec
  <1>3. DOMAIN more = Device /\ more[t] = u /\ \A e \in Device : e # t => more[e] = sessions[e]
    BY DEF Books
  <1>4. Behind(s.send, u.send)
    <2>1. u.send = ChainRec(s.send.root, s.send.label, s.send.index + 1)
      BY <1>1, AfterSealEffect
    <2>2. s.send.index \in Nat
      BY <1>1 DEF IsSession, IsChain
    <2> HIDE DEF u, s
    <2> QED
      BY <2>1, <2>2 DEF Behind, ChainRec
  <1>5. \A k : Behind(k, s.send) => Behind(k, u.send)
    BY <1>1, BehindStays
  <1>6. IsChain(s.send) /\ Directed(s.send, d, t) /\ u # NoSession
    BY <1>1, SessionIsOne DEF IsSession
  <1> HIDE DEF more, u, s
  <1>7. \A e \in Device : more[e] = NoSession \/ IsSession(d, e, more[e])
    BY <1>1, <1>3 DEF Books
  <1>8. \A x \in sent \union {r} : IsRecord(d, x, S \union {z}, R)
    <2>1. IsRecord(d, r, S \union {z}, R)
      BY <1>2 DEF IsRecord, RecordRec
    <2>2. \A x : IsRecord(d, x, S, R) => IsRecord(d, x, S \union {z}, R)
      BY DEF IsRecord
    <2> QED
      BY <2>1, <2>2 DEF Books
  <1>9. ASSUME NEW x \in S, KnownIn(sent \union {r}, x.envelope)
        PROVE  KnownIn(sent, x.envelope)
    BY <1>2, <1>9 DEF KnownIn
  <1>10. ASSUME NEW x \in S \union {z}, x.from = d, KnownIn(sent \union {r}, x.envelope)
         PROVE  more[x.to] # NoSession /\ Behind(x.key, more[x.to].send)
    <2>1. CASE x = z
      BY <1>2, <1>3, <1>4, <1>6, <2>1
    <2>2. CASE x \in S
      <3>1. sessions[x.to] # NoSession /\ Behind(x.key, sessions[x.to].send)
        BY <1>9, <1>10, <2>2 DEF Books
      <3>2. CASE x.to = t
        BY <1>3, <1>5, <1>6, <3>1, <3>2 DEF s
      <3>3. CASE x.to # t
        BY <1>3, <2>2, <3>1, <3>3
      <3> QED
        BY <3>2, <3>3
    <2> QED
      BY <2>1, <2>2
  <1>11. ASSUME NEW y \in S, y.from = d, KnownIn(sent, y.envelope)
         PROVE  y.key # s.send
    <2>1. CASE y.to = t
      BY <1>6, <1>11, <2>1, NotBehindItself DEF Books, s
    <2>2. CASE y.to # t
      BY <1>6, <1>11, <2>2, DirectionsDiffer
    <2> QED
      BY <2>1, <2>2
  <1>12. ASSUME NEW x \in S \union {z}, NEW y \in S \union {z},
                x.from = d, KnownIn(sent \union {r}, x.envelope),
                y.from = d, KnownIn(sent \union {r}, y.envelope),
                x.key = y.key
         PROVE  x.envelope = y.envelope
    <2>1. CASE x \in S /\ y \in S
      BY <1>9, <1>12, <2>1 DEF Books
    <2>2. CASE x = z /\ y = z
      BY <2>2
    <2>3. CASE (x = z /\ y \in S) \/ (x \in S /\ y = z)
      BY <1>2, <1>9, <1>11, <1>12, <2>3
    <2> QED
      BY <2>1, <2>2, <2>3
  <1>13. Books(d, more, sent \union {r}, S \union {z}, R)
    BY <1>3, <1>7, <1>8, <1>10, <1>12 DEF Books
  <1> QED
    BY <1>13 DEF more, u, s

\* A receipt is for the message of the record it marks: the one it names, or
\* the one its device was sent of the text.
LEMMA BooksApplied ==
    ASSUME NEW d \in Device, NEW local, NEW S, NEW R, IsLocal(d, local, S, R),
           \A x, y \in S : x.envelope = y.envelope => x = y,
           \A x, y \in S : x.text = y.text /\ x.to = y.to => x = y,
           NEW ack, IsItem(d, ack, S, R), ack.type = "ack"
    PROVE  IsLocal(d, Applied(local, ack), S, R)
  <1> DEFINE hit(r) == r.text = ack.text /\ (r.envelope = ack.ackFor \/ r.device = ack.from)
             marked(r) == IF hit(r) THEN [r EXCEPT !.delivered = TRUE] ELSE r
             marks == {marked(r) : r \in local.sent}
             applied == Applied(local, ack)
  <1>1. DOMAIN local = LocalFields /\ Books(d, local.sessions, local.sent, S, R)
    BY DEF IsLocal
  <1>2. /\ DOMAIN applied = LocalFields /\ applied.sessions = local.sessions
        /\ applied.sent = marks
    BY <1>1 DEF Applied, LocalFields
  <1> HIDE DEF applied
  <1>3. ASSUME NEW r \in local.sent
        PROVE  IsRecord(d, marked(r), S, R) /\ marked(r).envelope = r.envelope
    <2>1. IsRecord(d, r, S, R)
      BY <1>1 DEF Books
    <2>2. CASE ~hit(r)
      BY <2>1, <2>2
    <2>3. CASE hit(r)
      <3> DEFINE m == RecordRec(r.text, r.device, r.envelope, TRUE)
      <3>1. [r EXCEPT !.delivered = TRUE] = m
        <4>1. PICK w, x, y, z :
                 r = [text |-> w, device |-> x, envelope |-> y, delivered |-> z]
          BY <2>1 DEF IsRecord, RecordRec
        <4>2. \A v : [r EXCEPT !.delivered = v]
                       = [text |-> w, device |-> x, envelope |-> y, delivered |-> v]
          BY <4>1
        <4>3. r.text = w /\ r.device = x /\ r.envelope = y
          BY <4>1
        <4> QED
          BY <4>2, <4>3 DEF RecordRec
      <3>2. PICK x \in S : x.envelope = r.envelope /\ x.from = d /\ x.to = r.device
                           /\ x.text = r.text
        BY <2>1 DEF IsRecord
      <3>3. PICK y \in S : y.envelope = ack.ackFor /\ y.from = d /\ y.to = ack.from
                           /\ y.text = ack.text
        BY DEF IsItem
      <3>4. x = y
        BY <2>3, <3>2, <3>3
      <3>5. r.envelope \in R[r.device]
        BY <3>2, <3>3, <3>4 DEF IsItem
      <3>6. /\ m.text = r.text /\ m.device = r.device /\ m.envelope = r.envelope
            /\ m.delivered = TRUE /\ m = RecordRec(m.text, m.device, m.envelope, m.delivered)
        BY DEF RecordRec
      <3>7. marked(r) = m
        BY <2>3, <3>1
      <3> HIDE DEF m
      <3>8. IsRecord(d, m, S, R)
        BY <2>1, <3>5, <3>6 DEF IsRecord
      <3> HIDE DEF marked
      <3> QED
        BY <3>6, <3>7, <3>8
    <2> QED
      BY <2>2, <2>3
  <1> HIDE DEF marked, hit
  <1>4. \A x : KnownIn(marks, x) <=> KnownIn(local.sent, x)
    BY <1>3 DEF KnownIn
  <1>5. \A r \in marks : IsRecord(d, r, S, R)
    BY <1>3
  <1> HIDE DEF marks
  <1>6. Books(d, local.sessions, marks, S, R)
    BY <1>1, <1>4, <1>5 DEF Books
  <1> QED
    BY <1>2, <1>6 DEF IsLocal, applied

----------------------------------------------------------------------------
(* What stays as messages are sealed and read *)

\* S becomes S2 and R becomes R2: what is new has envelopes of its own.
Grows(S, R, S2, R2) ==
    /\ S \subseteq S2
    /\ \A t \in Device : R[t] \subseteq R2[t]
    /\ \A x \in S2 \ S : \A y \in S : x.envelope # y.envelope

Counts(numbers, numbers2) ==
    /\ numbers \in [Device -> Nat] /\ numbers2 \in [Device -> Nat]
    /\ \A d \in Device : numbers[d] <= numbers2[d]

LEMMA GrowsNot ==
    ASSUME NEW S, NEW R
    PROVE  Grows(S, R, S, R)
  BY DEF Grows

LEMMA CountsNot ==
    ASSUME NEW numbers \in [Device -> Nat]
    PROVE  Counts(numbers, numbers)
  BY DEF Counts

LEMMA LocalStays ==
    ASSUME NEW d, NEW local, NEW S, NEW R, IsLocal(d, local, S, R),
           NEW S2, NEW R2, Grows(S, R, S2, R2)
    PROVE  IsLocal(d, local, S2, R2)
  BY BooksGrow DEF IsLocal, Grows

LEMMA ItemsStay ==
    ASSUME NEW d, NEW list, NEW S, NEW R, AreItems(d, list, S, R),
           NEW S2, NEW R2, Grows(S, R, S2, R2)
    PROVE  AreItems(d, list, S2, R2)
  <1>1. ASSUME NEW i, IsItem(d, i, S, R)
        PROVE  IsItem(d, i, S2, R2)
    <2>1. S \subseteq S2 /\ (i.from \in Device => R[i.from] \subseteq R2[i.from])
      BY DEF Grows
    <2> QED
      BY <1>1, <2>1 DEF IsItem
  <1> QED
    BY <1>1 DEF AreItems

LEMMA CommandStays ==
    ASSUME NEW d \in Device, NEW c, NEW S, NEW R, NEW numbers,
           CommandGood(d, c, S, R, numbers),
           NEW S2, NEW R2, Grows(S, R, S2, R2), NEW numbers2, Counts(numbers, numbers2),
           c.op = "send" => \A x \in S2 \ S : x.text # c.text
    PROVE  CommandGood(d, c, S2, R2, numbers2)
  <1>1. CASE c.op = "send"
    <2>1. SendGood(d, c, S, R, numbers)
      BY <1>1 DEF CommandGood
    <2>2. Books(d, c.work.sessions, c.work.sent \union c.done, S2, R2)
      BY <2>1, BooksGrow DEF SendGood, Grows
    <2>3. \E m \in 1 .. numbers2[d] : c.text = <<d, m>>
      <3>1. PICK m \in 1 .. numbers[d] : c.text = <<d, m>>
        BY <2>1 DEF SendGood
      <3>2. m \in 1 .. numbers2[d]
        BY DEF Counts
      <3> QED
        BY <3>1, <3>2
    <2>4. \A y \in S2 : y.text = c.text => y.to \notin Entries(c.targets)
      BY <1>1, <2>1 DEF SendGood
    <2> QED
      BY <1>1, <2>1, <2>2, <2>3, <2>4 DEF CommandGood, SendGood
  <1>2. CASE c.op = "sync"
    <2>1. SyncGood(d, c, S, R)
      BY <1>2 DEF CommandGood
    <2>2. IsLocal(d, c.work, S2, R2) /\ AreItems(d, c.todo, S2, R2)
      BY <2>1, LocalStays, ItemsStay DEF SyncGood
    <2> QED
      BY <1>2, <2>1, <2>2 DEF CommandGood, SyncGood
  <1>3. CASE c.op = "idle"
    BY <1>3 DEF CommandGood
  <1> QED
    BY <1>1, <1>2, <1>3 DEF CommandGood

LEMMA SealedStays ==
    ASSUME NEW S, NEW ids, NEW numbers, SealedGood(S, ids, numbers),
           NEW ids2, Counts(ids, ids2), NEW numbers2, Counts(numbers, numbers2)
    PROVE  SealedGood(S, ids2, numbers2)
  <1>1. ASSUME NEW x \in S
        PROVE  /\ \E n \in 1 .. ids2[x.from] : x.envelope = <<x.from, n>>
               /\ \E m \in 1 .. numbers2[x.from] : x.text = <<x.from, m>>
    <2>1. x.from \in Device
      BY DEF SealedGood
    <2>2. PICK n \in 1 .. ids[x.from] : x.envelope = <<x.from, n>>
      BY DEF SealedGood
    <2>3. PICK m \in 1 .. numbers[x.from] : x.text = <<x.from, m>>
      BY DEF SealedGood
    <2>4. n \in 1 .. ids2[x.from] /\ m \in 1 .. numbers2[x.from]
      BY <2>1 DEF Counts
    <2> QED
      BY <2>2, <2>3, <2>4
  <1> QED
    BY <1>1 DEF SealedGood

\* A step of one process.
LEMMA OneProcess ==
    ASSUME IInv, BooksInv, NEW p \in Process, NEW c, RunningSet(p, c),
           Grows(sealed, readBy, sealed', readBy'),
           Counts(texts, texts'), Counts(envelopes, envelopes'),
           SealedGood(sealed', envelopes', texts'),
           CommandGood(p[1], c, sealed', readBy', texts'),
           \A q \in Process \ {p} : command[q].op = "send" =>
              /\ c.op = "send" => c.text # command[q].text
              /\ \A x \in sealed' \ sealed : x.text # command[q].text,
           DOMAIN disk' = Device, DOMAIN queue' = Device,
           \A d \in Device : disk'[d] = disk[d] \/ IsLocal(d, disk'[d], sealed', readBy'),
           \A d \in Device : queue'[d] = queue[d] \/ AreItems(d, queue'[d], sealed', readBy')
    PROVE  BooksInv'
  <1>1. /\ command'[p] = c
        /\ \A q \in Process : q # p => command'[q] = command[q]
    BY DEF IInv, RunningSet
  <1>2. ASSUME NEW q \in Process
        PROVE  CommandGood(q[1], command'[q], sealed', readBy', texts')
    <2>1. CASE q = p
      BY <1>1, <2>1
    <2>2. CASE q # p
      <3>1. CommandGood(q[1], command[q], sealed, readBy, texts) /\ q[1] \in Device
        BY ProcessOfDevice DEF BooksInv
      <3>2. command[q].op = "send" => \A x \in sealed' \ sealed : x.text # command[q].text
        BY <2>2
      <3>3. CommandGood(q[1], command[q], sealed', readBy', texts')
        BY <3>1, <3>2, CommandStays
      <3> QED
        BY <1>1, <2>2, <3>3
    <2> QED
      BY <2>1, <2>2
  <1>3. SendsDiffer(command')
    BY <1>1 DEF BooksInv, SendsDiffer
  <1>4. \A d \in Device : IsLocal(d, disk'[d], sealed', readBy')
    BY LocalStays DEF BooksInv
  <1>5. \A d \in Device : AreItems(d, queue'[d], sealed', readBy')
    BY ItemsStay DEF BooksInv
  <1> QED
    BY <1>2, <1>3, <1>4, <1>5 DEF BooksInv, Counts

\* A step that seals and reads nothing.
LEMMA NothingSealed ==
    ASSUME IInv, BooksInv, NEW p \in Process, NEW c, RunningSet(p, c),
           UNCHANGED <<texts, envelopes, sealed, readBy>>,
           CommandGood(p[1], c, sealed, readBy, texts),
           c.op = "send" => command[p].op = "send" /\ c.text = command[p].text,
           DOMAIN disk' = Device, DOMAIN queue' = Device,
           \A d \in Device : disk'[d] = disk[d] \/ IsLocal(d, disk'[d], sealed, readBy),
           \A d \in Device : queue'[d] = queue[d] \/ AreItems(d, queue'[d], sealed, readBy)
    PROVE  BooksInv'
  <1>1. /\ Grows(sealed, readBy, sealed', readBy')
        /\ Counts(texts, texts') /\ Counts(envelopes, envelopes')
        /\ SealedGood(sealed', envelopes', texts')
    BY GrowsNot, CountsNot DEF BooksInv
  <1>2. \A q \in Process \ {p} : command[q].op = "send" =>
              /\ c.op = "send" => c.text # command[q].text
              /\ \A x \in sealed' \ sealed : x.text # command[q].text
    BY DEF BooksInv, SendsDiffer
  <1> QED
    BY <1>1, <1>2, OneProcess

\* A command ends, and saves nothing, or a good state.
LEMMA BooksEnd ==
    ASSUME IInv, BooksInv, NEW p \in Process, RunningSet(p, Idle),
           UNCHANGED <<queue, texts, envelopes, sealed, readBy>>,
           \/ UNCHANGED disk
           \/ \E local : /\ disk' = [disk EXCEPT ![p[1]] = local]
                         /\ IsLocal(p[1], local, sealed, readBy)
    PROVE  BooksInv'
  <1>1. CommandGood(p[1], Idle, sealed, readBy, texts) /\ Idle.op # "send"
    BY DEF CommandGood, Idle
  <1>2. /\ DOMAIN disk' = Device /\ DOMAIN queue' = Device
        /\ \A d \in Device : disk'[d] = disk[d] \/ IsLocal(d, disk'[d], sealed, readBy)
    BY ProcessOfDevice DEF BooksInv
  <1> QED
    BY <1>1, <1>2, NothingSealed

----------------------------------------------------------------------------
(* The steps of a send *)

\* A text that is new goes to devices of an account, each once.
LEMMA LookupKeepsBooks ==
    ASSUME IInv, BooksInv, NEW p \in Process, NEW a \in Account, SendLookup(p, a)
    PROVE  BooksInv'
  <1> DEFINE d == p[1]
             number == texts[d] + 1
             places == {i \in DOMAIN Devices[a] : Devices[a][i] \notin revoked}
             targets == Filtered(Devices[a], places)
             c == [op |-> "send", work |-> disk[d], targets |-> targets,
                   text |-> <<d, number>>, done |-> {}]
  <1>1. /\ RunningSet(p, c) /\ texts' = [texts EXCEPT ![d] = number]
        /\ UNCHANGED <<disk, queue, envelopes, sealed, readBy>>
    BY DEF SendLookup
  <1>2. d \in Device /\ number \in Nat /\ number > texts[d] /\ texts[d] \in Nat
    BY ProcessOfDevice DEF BooksInv
  <1>3. /\ c.op = "send" /\ c.work = disk[d] /\ c.targets = targets
        /\ c.text = <<d, number>> /\ c.done = {}
    OBVIOUS
  <1>4. IsSeq(targets) /\ Entries(targets) \subseteq Device /\ Distinct(targets)
    <2>1. IsSeq(Devices[a]) /\ Entries(Devices[a]) \subseteq Device /\ Distinct(Devices[a])
      BY DeliveryAssumption, SeqOfEntries DEF Distinct
    <2> HIDE DEF places
    <2>2. IsSeq(targets)
      BY <2>1, FilterKeeps
    <2>3. /\ \A e \in Entries(targets) : \E i \in DOMAIN Devices[a] : e = Devices[a][i]
          /\ Distinct(targets)
      BY <2>1, FilterKeepsEntries
    <2>4. Entries(targets) \subseteq Entries(Devices[a])
      BY <2>3 DEF Entries
    <2> QED
      BY <2>1, <2>2, <2>3, <2>4
  <1> HIDE DEF c, targets, number
  <1>5. /\ Counts(texts, texts') /\ Counts(envelopes, envelopes')
        /\ texts'[d] = number
    BY <1>1, <1>2 DEF Counts, BooksInv
  <1>6. Grows(sealed, readBy, sealed', readBy') /\ SealedGood(sealed', envelopes', texts')
    BY <1>1, <1>5, GrowsNot, SealedStays DEF BooksInv
  <1>7. \A y \in sealed : y.text # <<d, number>>
    <2> SUFFICES ASSUME NEW y \in sealed, y.text = <<d, number>>
                 PROVE  FALSE
      OBVIOUS
    <2>1. PICK m \in 1 .. texts[y.from] : y.text = <<y.from, m>>
      BY DEF BooksInv, SealedGood
    <2>2. y.from = d /\ m = number
      BY <2>1
    <2> QED
      BY <1>2, <2>2
  <1>8. CommandGood(d, c, sealed', readBy', texts')
    <2>1. DOMAIN disk[d] = LocalFields /\ Books(d, disk[d].sessions, disk[d].sent, sealed, readBy)
      BY <1>2 DEF BooksInv, IsLocal
    <2>2. disk[d].sent \union {} = disk[d].sent
      OBVIOUS
    <2>3. number \in 1 .. texts'[d]
      BY <1>2, <1>5
    <2>4. SendGood(d, c, sealed', readBy', texts')
      BY <1>1, <1>3, <1>4, <1>7, <2>1, <2>2, <2>3 DEF SendGood
    <2> QED
      BY <1>3, <2>4 DEF CommandGood
  <1>9. ASSUME NEW q \in Process \ {p}, command[q].op = "send"
        PROVE  c.text # command[q].text
    <2>1. PICK m \in 1 .. texts[q[1]] : command[q].text = <<q[1], m>>
      BY <1>9 DEF BooksInv, CommandGood, SendGood
    <2>2. c.text = command[q].text => q[1] = d /\ m = number
      BY <1>3, <2>1
    <2> QED
      BY <1>2, <2>2
  <1>10. /\ DOMAIN disk' = Device /\ DOMAIN queue' = Device
         /\ \A e \in Device : disk'[e] = disk[e] /\ queue'[e] = queue[e]
         /\ sealed' = sealed
    BY <1>1 DEF BooksInv
  <1> QED
    BY <1>1, <1>5, <1>6, <1>8, <1>9, <1>10, OneProcess

\* claimPreKey: a session begins for a device to which no message is known.
LEMMA ClaimKeepsBooks ==
    ASSUME IInv, BooksInv, NEW p \in Process, SendClaim(p)
    PROVE  BooksInv'
  <1> DEFINE d == p[1]
             t == Target(p)
             preKey == IF claimed[t] < PreKeyCount
                       THEN OneTimePreKey(t, claimed[t] + 1) ELSE NoKey
             u == NewInitiator(d, t, preKey, SendKey(p, t))
             work == command[p].work
             c == [command[p] EXCEPT !.work = WithSession(@, t, u)]
  <1>1. /\ RunningSet(p, c) /\ command[p].op = "send" /\ command[p].targets # << >>
        /\ work.sessions[t] = NoSession
        /\ UNCHANGED <<disk, queue, texts, envelopes, sealed, readBy>>
    BY DEF SendClaim, Sending
  <1>2. DOMAIN command[p] = SendFields /\ d \in Device
    BY <1>1, ProcessOfDevice DEF IInv
  <1>3. SendGood(d, command[p], sealed, readBy, texts)
    BY <1>1 DEF BooksInv, CommandGood
  <1>4. IsSession(d, t, u)
    BY NewSessionEffect DEF NewInitiator, InitiatorRoot
  <1>5. t \in Device
    BY <1>1, <1>3, HeadAndTail DEF SendGood, Target
  <1> HIDE DEF u, t
  <1>6. /\ c.op = "send" /\ c.targets = command[p].targets /\ c.text = command[p].text
        /\ c.done = command[p].done
        /\ c.work = WithSession(work, t, u)
    BY <1>1, <1>2 DEF SendFields
  <1> HIDE DEF c
  <1>7. /\ DOMAIN c.work = LocalFields /\ c.work.sent = work.sent
        /\ c.work.sessions = [work.sessions EXCEPT ![t] = u]
    BY <1>3, <1>6 DEF WithSession, SendGood, LocalFields
  <1>8. Books(d, c.work.sessions, c.work.sent \union c.done, sealed, readBy)
    <2>1. Books(d, work.sessions, work.sent \union command[p].done, sealed, readBy)
      BY <1>3 DEF SendGood
    <2>2. \A x \in sealed : x.to \in Device
      BY DEF BooksInv, SealedGood
    <2> HIDE DEF work
    <2>3. Books(d, [work.sessions EXCEPT ![t] = u], work.sent \union command[p].done,
                sealed, readBy)
      BY <1>1, <1>4, <1>5, <2>1, <2>2, BooksWithSession
    <2> QED
      BY <1>6, <1>7, <2>3
  <1>9. CommandGood(d, c, sealed, readBy, texts)
    BY <1>3, <1>6, <1>7, <1>8 DEF CommandGood, SendGood
  <1>10. /\ DOMAIN disk' = Device /\ DOMAIN queue' = Device
         /\ \A e \in Device : disk'[e] = disk[e] /\ queue'[e] = queue[e]
    BY <1>1 DEF BooksInv
  <1> QED
    BY <1>1, <1>6, <1>9, <1>10, NothingSealed

\* Seal and enqueue: the message has an envelope and a key of its own.
LEMMA EnqueueKeepsBooks ==
    ASSUME IInv, BooksInv, NEW p \in Process, SendEnqueue(p)
    PROVE  BooksInv'
  <1> DEFINE d == p[1]
             t == Target(p)
             work == command[p].work
             s == work.sessions[t]
             text == command[p].text
             number == envelopes[d] + 1
             id == <<d, number>>
             body == Sealed(s, text)
             envelope == MessageEnvelope(d, t, text, body)
             z == [envelope |-> id, from |-> d, to |-> t, text |-> text,
                   ratchet |-> s.own, key |-> s.send]
             r == RecordRec(text, t, id, FALSE)
             c == [command[p] EXCEPT
                      !.work = WithSession(@, t, AfterSeal(s)),
                      !.targets = Tail(@),
                      !.done = @ \union {r}]
  <1>1. /\ command[p].op = "send" /\ command[p].targets # << >> /\ s # NoSession
        /\ UNCHANGED <<disk, texts, readBy>>
    BY DEF SendEnqueue, Sending
  <1>2. RunningSet(p, c)
    BY DEF SendEnqueue, MessageEnvelope, RecordRec
  <1>3. sealed' = sealed \union {z}
    <2>1. /\ envelope.id = id
          /\ body.key = s.send /\ body.ratchet = s.own /\ body.text = text
      BY DEF MessageEnvelope, Sealed
    <2>2. sealed' = sealed \union {[envelope |-> envelope.id, from |-> d, to |-> t,
                                    text |-> body.text, ratchet |-> body.ratchet,
                                    key |-> body.key]}
      BY DEF SendEnqueue
    <2> HIDE DEF envelope, body, id, s
    <2> QED
      BY <2>1, <2>2
  <1>4. /\ queue' = [queue EXCEPT ![t] = Append(@, envelope)]
        /\ envelopes' = [envelopes EXCEPT ![d] = number]
        /\ envelope.from = d /\ envelope.to = t /\ envelope.type = "message"
        /\ envelope.id = id /\ envelope.text = text
    <2>1. Enqueue(envelope)
      BY DEF SendEnqueue
    <2>2. /\ envelope.from = d /\ envelope.to = t /\ envelope.type = "message"
          /\ envelope.id = id /\ envelope.text = text
      BY DEF MessageEnvelope
    <2> HIDE DEF envelope
    <2> QED
      BY <2>1, <2>2 DEF Enqueue
  <1>5. /\ z.envelope = id /\ z.from = d /\ z.to = t /\ z.text = text /\ z.key = s.send
    OBVIOUS
  <1>6. DOMAIN command[p] = SendFields /\ d \in Device
    BY <1>1, ProcessOfDevice DEF IInv
  <1>7. number \in Nat /\ number > envelopes[d] /\ envelopes[d] \in Nat
    BY <1>6 DEF BooksInv
  <1>8. SendGood(d, command[p], sealed, readBy, texts)
    BY <1>1 DEF BooksInv, CommandGood
  <1>9. /\ t \in Device /\ t \in Entries(command[p].targets)
        /\ t \notin Entries(Tail(command[p].targets))
        /\ IsSeq(Tail(command[p].targets))
        /\ Entries(Tail(command[p].targets)) \subseteq Entries(command[p].targets)
        /\ Distinct(Tail(command[p].targets))
    BY <1>1, <1>8, HeadAndTail DEF SendGood, Target
  <1>10. Books(d, work.sessions, work.sent \union command[p].done, sealed, readBy)
    BY <1>8 DEF SendGood
  <1>11. IsSession(d, t, s)
    BY <1>1, <1>9, <1>10 DEF Books
  <1>12. \A y \in sealed : y.envelope # id
    <2> SUFFICES ASSUME NEW y \in sealed, y.envelope = id
                 PROVE  FALSE
      OBVIOUS
    <2>1. PICK m \in 1 .. envelopes[y.from] : y.envelope = <<y.from, m>>
      BY DEF BooksInv, SealedGood
    <2>2. y.from = d /\ m = number
      BY <2>1
    <2> QED
      BY <1>7, <2>2
  <1>13. /\ c.op = "send" /\ c.targets = Tail(command[p].targets) /\ c.text = text
         /\ c.done = command[p].done \union {r}
         /\ c.work = WithSession(work, t, AfterSeal(s))
    BY <1>1, <1>6 DEF SendFields
  <1> HIDE DEF c, z, envelope, body
  <1>14. /\ DOMAIN c.work = LocalFields /\ c.work.sent = work.sent
         /\ c.work.sessions = [work.sessions EXCEPT ![t] = AfterSeal(s)]
    BY <1>8, <1>13 DEF WithSession, SendGood, LocalFields
  <1>15. Books(d, c.work.sessions, c.work.sent \union c.done, sealed', readBy)
    <2>1. \A x \in sealed : x.to \in Device /\ Directed(x.key, x.from, x.to)
      BY DEF BooksInv, SealedGood
    <2>2. z = [envelope |-> id, from |-> d, to |-> t, text |-> text,
               ratchet |-> s.own, key |-> work.sessions[t].send]
      BY DEF z
    <2>3. r = RecordRec(text, t, id, FALSE)
      OBVIOUS
    <2> DEFINE sent == work.sent \union command[p].done
    <2>4. c.work.sent \union c.done = sent \union {r}
      BY <1>13, <1>14
    <2>5. work.sessions[t] # NoSession
      BY <1>1
    <2>6. Books(d, work.sessions, sent, sealed, readBy)
      BY <1>10
    <2> HIDE DEF work, text, id, r, sent, t
    <2>7. Books(d, [work.sessions EXCEPT ![t] = AfterSeal(work.sessions[t])],
                sent \union {r}, sealed \union {z}, readBy)
      BY <1>9, <1>12, <2>1, <2>2, <2>3, <2>5, <2>6, BooksSeal
    <2> QED
      BY <1>3, <1>14, <2>4, <2>7
  <1> HIDE DEF r
  <1>16. \A y \in sealed : y.text = text => y.to \notin Entries(command[p].targets)
    BY <1>8 DEF SendGood
  <1>17. CommandGood(d, c, sealed', readBy', texts')
    <2>1. \A y \in sealed' : y.text = c.text => y.to \notin Entries(c.targets)
      BY <1>3, <1>5, <1>9, <1>13, <1>16
    <2>2. \E m \in 1 .. texts[d] : c.text = <<d, m>>
      BY <1>8, <1>13 DEF SendGood
    <2>3. Entries(c.targets) \subseteq Device
      BY <1>8, <1>9, <1>13 DEF SendGood
    <2> QED
      BY <1>1, <1>9, <1>13, <1>14, <1>15, <2>1, <2>2, <2>3 DEF CommandGood, SendGood
  <1>18. /\ Counts(texts, texts') /\ Counts(envelopes, envelopes')
         /\ envelopes'[d] = number
    BY <1>1, <1>4, <1>6, <1>7 DEF Counts, BooksInv
  <1>19. Grows(sealed, readBy, sealed', readBy')
    BY <1>1, <1>3, <1>5, <1>12 DEF Grows
  <1>20. SealedGood(sealed', envelopes', texts')
    <2>1. SealedGood(sealed, envelopes', texts')
      BY <1>18, SealedStays DEF BooksInv
    <2>2. Directed(z.key, z.from, z.to)
      BY <1>5, <1>11 DEF IsSession
    <2>3. PICK m \in 1 .. texts[d] : text = <<d, m>>
      BY <1>8 DEF SendGood
    <2>4. m \in 1 .. texts'[d]
      BY <1>1
    <2>5. number \in 1 .. envelopes'[d]
      BY <1>7, <1>18
    <2>6. \A y \in sealed : y.envelope # z.envelope /\ ~(y.text = z.text /\ y.to = z.to)
      BY <1>5, <1>9, <1>12, <1>16
    <2>7. /\ z.from \in Device /\ z.to \in Device
          /\ \E n \in 1 .. envelopes'[z.from] : z.envelope = <<z.from, n>>
          /\ \E n \in 1 .. texts'[z.from] : z.text = <<z.from, n>>
      BY <1>5, <1>6, <1>9, <2>3, <2>4, <2>5
    <2> QED
      BY <1>3, <2>1, <2>2, <2>6, <2>7 DEF SealedGood
  <1>21. ASSUME NEW q \in Process \ {p}, command[q].op = "send"
         PROVE  /\ c.text # command[q].text
                /\ \A x \in sealed' \ sealed : x.text # command[q].text
    BY <1>1, <1>3, <1>5, <1>13, <1>21 DEF BooksInv, SendsDiffer
  <1>22. DOMAIN disk' = Device /\ DOMAIN queue' = Device /\ \A e \in Device : disk'[e] = disk[e]
    BY <1>1, <1>4 DEF BooksInv
  <1>23. \A e \in Device : queue'[e] = queue[e] \/ AreItems(e, queue'[e], sealed', readBy')
    <2>1. AreItems(t, queue[t], sealed', readBy')
      BY <1>9, <1>19, ItemsStay DEF BooksInv
    <2>2. IsItem(t, envelope, sealed', readBy')
      BY <1>3, <1>4, <1>5, <1>6 DEF IsItem
    <2>3. AreItems(t, Append(queue[t], envelope), sealed', readBy')
      BY <2>1, <2>2, AppendIsSeq DEF AreItems
    <2> QED
      BY <1>4, <1>9, <2>3 DEF BooksInv
  <1> QED
    BY <1>2, <1>17, <1>18, <1>19, <1>20, <1>21, <1>22, <1>23, OneProcess

\* The state a command saves.
LEMMA SaveKeepsBooks ==
    ASSUME IInv, BooksInv, NEW p \in Process, SendSave(p) \/ SyncSave(p)
    PROVE  BooksInv'
  <1> DEFINE d == p[1]
             work == command[p].work
             done == command[p].done
             local == ToSave(p)
  <1>1. /\ disk' = [disk EXCEPT ![d] = local] /\ RunningSet(p, Idle)
        /\ UNCHANGED <<queue, texts, envelopes, sealed, readBy>>
    BY DEF SendSave, SyncSave, Save
  <1>2. CASE command[p].op = "send"
    <2>1. SendGood(d, command[p], sealed, readBy, texts)
      BY <1>2 DEF BooksInv, CommandGood
    <2>2. /\ DOMAIN local = LocalFields /\ local.sessions = work.sessions
          /\ local.sent = work.sent \union done
      BY <1>2, <2>1 DEF ToSave, SendGood, LocalFields
    <2> HIDE DEF local
    <2>3. IsLocal(d, local, sealed, readBy)
      BY <2>1, <2>2 DEF SendGood, IsLocal
    <2> QED
      BY <1>1, <2>3, BooksEnd DEF local
  <1>3. CASE command[p].op = "sync"
    <2>1. IsLocal(d, local, sealed, readBy)
      BY <1>3 DEF BooksInv, CommandGood, SyncGood, ToSave
    <2> QED
      BY <1>1, <2>1, BooksEnd
  <1> QED
    BY <1>2, <1>3 DEF SendSave, SyncSave, Sending

----------------------------------------------------------------------------
(* The steps of a sync *)

\* A sync starts with what the relay holds.
LEMMA PullKeepsBooks ==
    ASSUME IInv, BooksInv, NEW p \in Process, SyncPull(p)
    PROVE  BooksInv'
  <1> DEFINE d == p[1]
             todo == IF d \in revoked THEN << >> ELSE queue[d]
             c == [op |-> "sync", work |-> disk[d], stage |-> "open", todo |-> todo]
  <1>1. /\ RunningSet(p, c) /\ d \in Device
        /\ queue' = queue \/ queue' = [queue EXCEPT ![d] = << >>]
        /\ UNCHANGED <<disk, texts, envelopes, sealed, readBy>>
    BY ProcessOfDevice DEF SyncPull
  <1>2. AreItems(d, << >>, sealed, readBy)
    BY EmptyIsSeq DEF AreItems
  <1>3. AreItems(d, todo, sealed, readBy)
    BY <1>1, <1>2 DEF BooksInv
  <1> HIDE DEF todo
  <1>4. c.op = "sync" /\ c.work = disk[d] /\ c.stage = "open" /\ c.todo = todo
    OBVIOUS
  <1> HIDE DEF c
  <1>5. CommandGood(d, c, sealed, readBy, texts)
    BY <1>1, <1>3, <1>4 DEF CommandGood, SyncGood, BooksInv
  <1>6. /\ DOMAIN disk' = Device /\ DOMAIN queue' = Device
        /\ \A e \in Device : disk'[e] = disk[e]
        /\ \A e \in Device : queue'[e] = queue[e] \/ AreItems(e, queue'[e], sealed, readBy)
    BY <1>1, <1>2 DEF BooksInv
  <1> QED
    BY <1>1, <1>4, <1>5, <1>6, NothingSealed

\* What a sync is about to open.
LEMMA FirstItem ==
    ASSUME IInv, BooksInv, NEW p \in Process, command[p].op = "sync", command[p].todo # << >>
    PROVE  /\ p[1] \in Device /\ DOMAIN command[p] = SyncFields
           /\ SyncGood(p[1], command[p], sealed, readBy)
           /\ IsItem(p[1], Item(p), sealed, readBy)
           /\ AreItems(p[1], Tail(command[p].todo), sealed, readBy)
  <1>1. SyncGood(p[1], command[p], sealed, readBy)
    BY DEF BooksInv, CommandGood
  <1>2. AreItems(p[1], command[p].todo, sealed, readBy)
    BY <1>1 DEF SyncGood
  <1> QED
    BY <1>1, <1>2, ProcessOfDevice, HeadAndTail DEF IInv, AreItems, Item

\* A sync passes an item over, applies a receipt, or has acknowledged an item.
LEMMA SyncStepsKeepBooks ==
    ASSUME IInv, BooksInv, NEW p \in Process,
           SyncSkip(p) \/ SyncOpenAck(p) \/ SyncAck(p)
    PROVE  BooksInv'
  <1> DEFINE d == p[1]
  <1>1. /\ command[p].op = "sync" /\ command[p].todo # << >>
        /\ UNCHANGED <<disk, texts, envelopes, sealed, readBy>>
    BY DEF SyncSkip, SyncOpenAck, SyncAck, Syncing
  <1>2. /\ d \in Device /\ DOMAIN command[p] = SyncFields
        /\ SyncGood(d, command[p], sealed, readBy)
        /\ IsItem(d, Item(p), sealed, readBy)
        /\ AreItems(d, Tail(command[p].todo), sealed, readBy)
    BY <1>1, FirstItem
  <1>3. DOMAIN disk' = Device /\ \A e \in Device : disk'[e] = disk[e]
    BY <1>1 DEF BooksInv
  <1>4. CASE SyncSkip(p)
    <2> DEFINE c == [command[p] EXCEPT !.stage = "ack"]
    <2>1. RunningSet(p, c) /\ queue' = queue
      BY <1>4 DEF SyncSkip
    <2>2. c.op = "sync" /\ c.work = command[p].work /\ c.todo = command[p].todo /\ c.stage = "ack"
      BY <1>1, <1>2 DEF SyncFields
    <2> HIDE DEF c
    <2>3. CommandGood(d, c, sealed, readBy, texts)
      BY <1>2, <2>2 DEF CommandGood, SyncGood
    <2> QED
      BY <1>1, <1>3, <2>1, <2>2, <2>3, NothingSealed DEF BooksInv
  <1>5. CASE SyncOpenAck(p)
    <2> DEFINE applied == Applied(command[p].work, Item(p))
               c == [command[p] EXCEPT !.work = Applied(@, Item(p)), !.stage = "ack"]
    <2>1. RunningSet(p, c) /\ queue' = queue /\ Item(p).type = "ack"
      BY <1>5 DEF SyncOpenAck
    <2>2. c.op = "sync" /\ c.work = applied /\ c.todo = command[p].todo /\ c.stage = "ack"
      BY <1>1, <1>2 DEF SyncFields
    <2>3. IsLocal(d, applied, sealed, readBy)
      <3>1. /\ \A x, y \in sealed : x.envelope = y.envelope => x = y
            /\ \A x, y \in sealed : x.text = y.text /\ x.to = y.to => x = y
        BY DEF BooksInv, SealedGood
      <3>2. IsLocal(d, command[p].work, sealed, readBy)
        BY <1>2 DEF SyncGood
      <3> QED
        BY <1>2, <2>1, <3>1, <3>2, BooksApplied
    <2> HIDE DEF c, applied
    <2>4. CommandGood(d, c, sealed, readBy, texts)
      BY <1>2, <2>2, <2>3 DEF CommandGood, SyncGood
    <2> QED
      BY <1>1, <1>3, <2>1, <2>2, <2>4, NothingSealed DEF BooksInv
  <1>6. CASE SyncAck(p)
    <2> DEFINE c == [command[p] EXCEPT !.todo = Tail(@), !.stage = "open"]
               places == {i \in DOMAIN queue[d] : queue[d][i].id # Item(p).id}
               rest == Filtered(queue[d], places)
    <2>1. RunningSet(p, c) /\ queue' = [queue EXCEPT ![d] = rest]
      BY <1>6 DEF SyncAck
    <2>2. /\ c.op = "sync" /\ c.work = command[p].work
          /\ c.todo = Tail(command[p].todo) /\ c.stage = "open"
      BY <1>1, <1>2 DEF SyncFields
    <2> HIDE DEF c, places
    <2>3. CommandGood(d, c, sealed, readBy, texts)
      BY <1>2, <2>2 DEF CommandGood, SyncGood
    <2>4. AreItems(d, rest, sealed, readBy)
      <3>1. AreItems(d, queue[d], sealed, readBy)
        BY <1>2 DEF BooksInv
      <3>2. IsSeq(queue[d])
        BY <3>1 DEF AreItems
      <3>3. /\ IsSeq(rest)
            /\ \A e \in Entries(rest) : \E i \in DOMAIN queue[d] : e = queue[d][i]
        BY <3>2, FilterKeeps, FilterKeepsEntries
      <3> HIDE DEF rest
      <3> QED
        BY <3>1, <3>3 DEF AreItems, Entries
    <2> HIDE DEF rest
    <2>5. /\ DOMAIN queue' = Device
          /\ \A e \in Device : queue'[e] = queue[e] \/ AreItems(e, queue'[e], sealed, readBy)
      BY <1>2, <2>1, <2>4 DEF BooksInv
    <2> QED
      BY <1>1, <1>3, <2>1, <2>2, <2>3, <2>5, NothingSealed
  <1> QED
    BY <1>4, <1>5, <1>6

\* A message is opened: the session goes on, and the message was read.
LEMMA OpenKeepsBooks ==
    ASSUME IInv, BooksInv, NEW p \in Process, SyncOpenMessage(p)
    PROVE  BooksInv'
  <1> DEFINE d == p[1]
             item == Item(p)
             work == command[p].work
             result == Result(p, work, item)
             u == result.session
             next == WithSession(work, item.from, result.session)
             c == [command[p] EXCEPT
                      !.work = WithEvent(WithSession(@, item.from, result.session),
                                         item, result.text),
                      !.stage = "emit"]
  <1>1. /\ command[p].op = "sync" /\ command[p].todo # << >>
        /\ item.type = "message" /\ result.ok
        /\ RunningSet(p, c) /\ readBy' = [readBy EXCEPT ![d] = @ \union {item.id}]
        /\ UNCHANGED <<disk, queue, texts, envelopes, sealed>>
    BY DEF SyncOpenMessage, Syncing
  <1>2. /\ d \in Device /\ DOMAIN command[p] = SyncFields
        /\ SyncGood(d, command[p], sealed, readBy)
        /\ IsItem(d, item, sealed, readBy)
    BY <1>1, FirstItem
  <1>3. item.from \in Device /\ IsLocal(d, work, sealed, readBy)
    BY <1>2 DEF IsItem, SyncGood
  <1>4. /\ IsSession(d, item.from, u)
        /\ work.sessions[item.from] = NoSession
           \/ Later(d, item.from, work.sessions[item.from], u)
    <2> DEFINE own == {OneTimePreKey(d, k) : k \in 1..PreKeyCount}
               fresh == NewResponder(d, item.from, item.body, own, SyncKey(p, item, 1))
               s == work.sessions[item.from]
    <2>1. IsSession(d, item.from, fresh)
      BY NewSessionEffect DEF NewResponder, ResponderRoot
    <2> HIDE DEF fresh
    <2>2. CASE s = NoSession
      <3>1. result = Opened(fresh, item.body, SyncKey(p, item, 2))
        BY <2>2 DEF Result, fresh
      <3> HIDE DEF result
      <3>2. Later(d, item.from, fresh, u)
        BY <1>1, <2>1, <3>1, OpenedEffect
      <3> QED
        BY <2>2, <3>2 DEF Later
    <2>3. CASE s # NoSession
      <3>1. result = Opened(s, item.body, SyncKey(p, item, 2))
        BY <2>3 DEF Result
      <3>2. IsSession(d, item.from, s)
        BY <1>3, <2>3 DEF IsLocal, Books
      <3> HIDE DEF result, s
      <3>3. Later(d, item.from, s, u)
        BY <1>1, <3>1, <3>2, OpenedEffect
      <3> QED
        BY <3>3 DEF Later, s
    <2> QED
      BY <2>2, <2>3
  <1>5. Grows(sealed, readBy, sealed', readBy')
    BY <1>1 DEF IInv, Grows
  <1>6. /\ c.op = "sync" /\ c.todo = command[p].todo /\ c.stage = "emit"
        /\ c.work = WithEvent(next, item, result.text)
    BY <1>1, <1>2 DEF SyncFields
  <1> HIDE DEF result, item, c
  <1>7. /\ DOMAIN c.work = LocalFields /\ c.work.sent = work.sent
        /\ c.work.sessions = [work.sessions EXCEPT ![item.from] = u]
    <2>1. /\ DOMAIN next = LocalFields /\ next.sent = work.sent
          /\ next.sessions = [work.sessions EXCEPT ![item.from] = u]
      BY <1>3 DEF WithSession, IsLocal, LocalFields
    <2> HIDE DEF next
    <2> QED
      BY <1>6, <2>1 DEF WithEvent, LocalFields
  <1> HIDE DEF u, next
  <1>8. IsLocal(d, c.work, sealed, readBy)
    <2>1. \A x \in sealed : x.to \in Device
      BY DEF BooksInv, SealedGood
    <2>2. Books(d, work.sessions, work.sent, sealed, readBy)
      BY <1>3 DEF IsLocal
    <2> HIDE DEF work
    <2>3. Books(d, [work.sessions EXCEPT ![item.from] = u], work.sent, sealed, readBy)
      BY <1>3, <1>4, <2>1, <2>2, BooksWithSession
    <2> QED
      BY <1>7, <2>3 DEF IsLocal
  <1>9. CommandGood(d, c, sealed', readBy', texts')
    <2>1. IsLocal(d, c.work, sealed', readBy')
      BY <1>5, <1>8, LocalStays
    <2>2. AreItems(d, c.todo, sealed', readBy')
      BY <1>2, <1>5, <1>6, ItemsStay DEF SyncGood
    <2>3. c.todo # << >> /\ Head(c.todo).type = "message"
      BY <1>1, <1>6 DEF item, Item
    <2> QED
      BY <1>6, <2>1, <2>2, <2>3 DEF CommandGood, SyncGood
  <1>10. Counts(texts, texts') /\ Counts(envelopes, envelopes')
    BY <1>1, CountsNot DEF BooksInv
  <1>11. SealedGood(sealed', envelopes', texts')
    BY <1>1 DEF BooksInv
  <1>12. /\ DOMAIN disk' = Device /\ DOMAIN queue' = Device /\ sealed' \ sealed = {}
         /\ \A e \in Device : disk'[e] = disk[e] /\ queue'[e] = queue[e]
    BY <1>1 DEF BooksInv
  <1> QED
    BY <1>1, <1>5, <1>6, <1>9, <1>10, <1>11, <1>12, OneProcess

\* The receipt is for a message that was read.
LEMMA EmitKeepsBooks ==
    ASSUME IInv, BooksInv, NEW p \in Process, SyncEmit(p)
    PROVE  BooksInv'
  <1> DEFINE d == p[1]
             item == Item(p)
             t == item.from
             receipt == ReceiptEnvelope(d, item)
             c == [command[p] EXCEPT !.stage = "ack"]
  <1>1. /\ command[p].op = "sync" /\ command[p].todo # << >> /\ command[p].stage = "emit"
        /\ RunningSet(p, c)
        /\ UNCHANGED <<disk, texts, sealed, readBy>>
    BY DEF SyncEmit, Syncing
  <1>2. /\ d \in Device /\ DOMAIN command[p] = SyncFields
        /\ SyncGood(d, command[p], sealed, readBy)
        /\ IsItem(d, item, sealed, readBy)
    BY <1>1, FirstItem
  <1>3. item.type = "message" /\ item.id \in readBy[d]
    BY <1>1, <1>2 DEF SyncGood, IInv, ItemIsRead, Item
  <1>4. /\ queue' = [queue EXCEPT ![t] = Append(@, receipt)]
        /\ envelopes' = [envelopes EXCEPT ![d] = @ + 1]
        /\ receipt.from = d /\ receipt.to = t /\ receipt.type = "ack"
        /\ receipt.text = item.text /\ receipt.ackFor = item.id
    <2>1. Enqueue(receipt)
      BY DEF SyncEmit
    <2>2. /\ receipt.from = d /\ receipt.to = t /\ receipt.type = "ack"
          /\ receipt.text = item.text /\ receipt.ackFor = item.id
      BY DEF ReceiptEnvelope
    <2> HIDE DEF receipt
    <2> QED
      BY <2>1, <2>2 DEF Enqueue
  <1>5. c.op = "sync" /\ c.work = command[p].work /\ c.todo = command[p].todo /\ c.stage = "ack"
    BY <1>1, <1>2 DEF SyncFields
  <1> HIDE DEF c, receipt
  <1>6. CommandGood(d, c, sealed', readBy', texts')
    BY <1>1, <1>2, <1>5 DEF CommandGood, SyncGood
  <1>7. /\ Counts(texts, texts') /\ Counts(envelopes, envelopes')
        /\ Grows(sealed, readBy, sealed', readBy')
    BY <1>1, <1>2, <1>4, GrowsNot DEF Counts, BooksInv
  <1>8. SealedGood(sealed', envelopes', texts')
    BY <1>1, <1>7, SealedStays DEF BooksInv
  <1>9. t \in Device /\ IsItem(t, receipt, sealed, readBy)
    BY <1>2, <1>3, <1>4 DEF IsItem
  <1> HIDE DEF item
  <1>10. AreItems(t, Append(queue[t], receipt), sealed, readBy)
    BY <1>9, AppendIsSeq DEF BooksInv, AreItems
  <1>11. /\ DOMAIN disk' = Device /\ DOMAIN queue' = Device /\ sealed' \ sealed = {}
         /\ \A e \in Device : disk'[e] = disk[e]
         /\ \A e \in Device : queue'[e] = queue[e] \/ AreItems(e, queue'[e], sealed', readBy')
    BY <1>1, <1>4, <1>9, <1>10 DEF BooksInv
  <1> QED
    BY <1>1, <1>5, <1>6, <1>7, <1>8, <1>11, OneProcess

----------------------------------------------------------------------------
(* The whole *)

\* A command ends early, a device is restored or revoked, or nothing happens.
LEMMA EndsKeepBooks ==
    ASSUME IInv, BooksInv,
           \/ \E p \in Process : SyncRefused(p) \/ CallRefused(p) \/ CommandDies(p) \/ SaveTorn(p)
           \/ \E d \in Device : Restore(d) \/ RevokeDevice(d)
           \/ UNCHANGED vars
    PROVE  BooksInv'
  <1>1. ASSUME NEW p \in Process, SyncRefused(p) \/ CallRefused(p) \/ CommandDies(p)
        PROVE  BooksInv'
    <2>1. RunningSet(p, Idle) /\ UNCHANGED <<disk, queue, texts, envelopes, sealed, readBy>>
      BY <1>1 DEF SyncRefused, CallRefused, CommandDies
    <2> QED
      BY <2>1, BooksEnd
  <1>2. ASSUME NEW p \in Process, SaveTorn(p)
        PROVE  BooksInv'
    <2> DEFINE torn == [EmptyState EXCEPT !.readable = FALSE]
    <2>1. /\ RunningSet(p, Idle) /\ disk' = [disk EXCEPT ![p[1]] = torn]
          /\ UNCHANGED <<queue, texts, envelopes, sealed, readBy>>
      BY <1>2 DEF SaveTorn, Save
    <2>2. IsLocal(p[1], torn, sealed, readBy)
      BY BooksBegin
    <2> HIDE DEF torn
    <2> QED
      BY <2>1, <2>2, BooksEnd
  <1>3. ASSUME NEW d \in Device, Restore(d)
        PROVE  BooksInv'
    <2>1. /\ disk' = [disk EXCEPT ![d] = EmptyState]
          /\ UNCHANGED <<command, queue, texts, envelopes, sealed, readBy>>
      BY <1>3 DEF Restore
    <2>2. IsLocal(d, EmptyState, sealed, readBy)
      BY BooksBegin
    <2>3. DOMAIN disk' = Device /\ \A e \in Device : IsLocal(e, disk'[e], sealed, readBy)
      BY <2>1, <2>2 DEF BooksInv
    <2> QED
      BY <2>1, <2>3 DEF BooksInv
  <1>4. ASSUME UNCHANGED <<disk, command, queue, texts, envelopes, sealed, readBy>>
        PROVE  BooksInv'
    BY <1>4 DEF BooksInv
  <1>5. ASSUME NEW d \in Device, RevokeDevice(d)
        PROVE  BooksInv'
    BY <1>4, <1>5 DEF RevokeDevice
  <1>6. CASE UNCHANGED vars
    BY <1>4, <1>6 DEF vars
  <1> QED
    BY <1>1, <1>2, <1>3, <1>5, <1>6

LEMMA BooksInit == Init => BooksInv
  <1> SUFFICES ASSUME Init PROVE BooksInv
    OBVIOUS
  <1>1. \A d \in Device : IsLocal(d, disk[d], sealed, readBy)
    BY BooksBegin DEF Init
  <1>2. \A d \in Device : AreItems(d, queue[d], sealed, readBy)
    BY EmptyIsSeq DEF Init, AreItems
  <1>3. /\ \A p \in Process : CommandGood(p[1], command[p], sealed, readBy, texts)
        /\ SendsDiffer(command)
    <2>1. \A p \in Process : command[p] = Idle /\ Idle.op = "idle"
      BY DEF Init, Idle
    <2> QED
      BY <2>1 DEF CommandGood, SendsDiffer
  <1>4. SealedGood(sealed, envelopes, texts)
    BY DEF Init, SealedGood
  <1> QED
    BY <1>1, <1>2, <1>3, <1>4 DEF Init, BooksInv

LEMMA BooksStep ==
    ASSUME IInv, BooksInv, [Next]_vars
    PROVE  BooksInv'
  <1>1. ASSUME NEW p \in Process, Continue(p)
        PROVE  BooksInv'
    BY <1>1, ClaimKeepsBooks, EnqueueKeepsBooks, SaveKeepsBooks, SyncStepsKeepBooks,
       OpenKeepsBooks, EmitKeepsBooks, EndsKeepBooks DEF Continue
  <1>2. ASSUME NEW p \in Process,
               \/ \E a \in Account : SendLookup(p, a)
               \/ SyncPull(p) \/ CommandDies(p) \/ SaveTorn(p)
        PROVE  BooksInv'
    BY <1>2, LookupKeepsBooks, PullKeepsBooks, EndsKeepBooks
  <1>3. ASSUME NEW d \in Device, Restore(d) \/ RevokeDevice(d)
        PROVE  BooksInv'
    BY <1>3, EndsKeepBooks
  <1>4. CASE UNCHANGED vars
    BY <1>4, EndsKeepBooks
  <1> QED
    BY <1>1, <1>2, <1>3, <1>4 DEF Next

LEMMA BooksAlways == Spec => []BooksInv
  <1>1. Init => BooksInv
    BY BooksInit
  <1>2. IInv /\ BooksInv /\ [Next]_vars => BooksInv'
    BY BooksStep
  <1> QED
    BY <1>1, <1>2, ReadsInvariant, PTL DEF Spec

\* A record is marked delivered only for a device that did open that envelope,
\* whatever commands die, are torn or overwritten and whoever is revoked.
THEOREM DeliveredFollowsReads == Spec => []DeliveredWasRead
  <1>1. BooksInv => DeliveredWasRead
    BY DEF BooksInv, IsLocal, Books, IsRecord, DeliveredWasRead
  <1> QED
    BY <1>1, BooksAlways, PTL

\* Two messages are sealed with the same key only if their sender forgot one
\* of them: a send that knows both, or the file where none runs, has a session
\* that is past both.
THEOREM KeysAreUsedOnceUnlessForgotten == Spec => []SameKeyOnlyIfForgotten
  <1>1. ASSUME BooksInv
        PROVE  SameKeyOnlyIfForgotten
    <2> SUFFICES ASSUME NEW x \in sealed, NEW y \in sealed, x.key = y.key,
                        x.envelope # y.envelope, ~Forgotten(x), ~Forgotten(y)
                 PROVE  FALSE
      BY DEF SameKeyOnlyIfForgotten
    <2>1. x.from = y.from /\ x.from \in Device
      BY <1>1, DirectionsDiffer DEF BooksInv, SealedGood
    <2>2. ASSUME NEW sessions, NEW sent, Books(x.from, sessions, sent, sealed, readBy),
                 KnownIn(sent, x.envelope), KnownIn(sent, y.envelope)
          PROVE  FALSE
      BY <2>1, <2>2 DEF Books
    <2>3. CASE \E p \in SendsOf(x.from) : TRUE
      <3>1. PICK p \in Process : p[1] = x.from /\ command[p].op = "send" /\ p \in SendsOf(x.from)
        BY <2>3 DEF SendsOf, Sending
      <3> DEFINE work == command[p].work
                 done == command[p].done
      <3>2. SendGood(x.from, command[p], sealed, readBy, texts)
        BY <1>1, <3>1 DEF BooksInv, CommandGood
      <3>3. ToSave(p).sent = work.sent \union done
        BY <3>1, <3>2 DEF ToSave, SendGood, LocalFields
      <3>4. Knows(ToSave(p), x.envelope) /\ Knows(ToSave(p), y.envelope)
        BY <2>1, <3>1 DEF Forgotten
      <3>5. KnownIn(work.sent \union done, x.envelope) /\ KnownIn(work.sent \union done, y.envelope)
        BY <3>3, <3>4 DEF Knows, KnownIn
      <3> QED
        BY <2>2, <3>2, <3>5 DEF SendGood
    <2>4. CASE ~\E p \in SendsOf(x.from) : TRUE
      <3>1. Knows(disk[x.from], x.envelope) /\ Knows(disk[x.from], y.envelope)
        BY <2>1, <2>4 DEF Forgotten
      <3> QED
        BY <1>1, <2>1, <2>2, <3>1 DEF BooksInv, IsLocal, Knows, KnownIn
    <2> QED
      BY <2>3, <2>4
  <1> QED
    BY <1>1, BooksAlways, PTL

----------------------------------------------------------------------------
(* What a device has acknowledged, and what is still in front of it *)

Numbered(envelope, from, ids) ==
    from \in Device /\ \E n \in 1 .. ids[from] : envelope = <<from, n>>

\* What a device sends comes in the order it was sent.
Sooner(i, j) == i.from = j.from => i.id[2] < j.id[2]
Ordered(list) == \A i, j \in DOMAIN list : i < j => Sooner(list[i], list[j])

\* An item has an envelope of its own; that of a receipt is no message's.
IsNumbered(i, S, ids) ==
    /\ Numbered(i.id, i.from, ids)
    /\ i.type = "ack" => \A x \in S : x.envelope # i.id

WasAcked(envelope, A) == \E i \in A : i.id = envelope
AckedMessage(x, A) == \E i \in A : i.id = x.envelope /\ i.type = "message" /\ i.from = x.from
IsIn(list, envelope) == \E i \in Entries(list) : i.id = envelope

\* What comes before a message of the list is in the list, or acknowledged.
Covers(d, list, S, A) ==
    \A i \in Entries(list) : \A x \in S :
        x.to = d /\ x.from = i.from /\ x.envelope[2] < i.id[2]
        => AckedMessage(x, A) \/ IsIn(list, x.envelope)

\* The items a sync has not opened or passed over.
Ahead(c) == IF c.stage = "open" THEN Entries(c.todo) ELSE Entries(Tail(c.todo))

InHand(d, c, S, A, ids) ==
    /\ c.op = "send" => \A g \in c.work.got : WasAcked(g.envelope, A)
    /\ c.op = "sync" =>
          /\ Ordered(c.todo) /\ Covers(d, c.todo, S, A)
          /\ \A i \in Entries(c.todo) : IsNumbered(i, S, ids)
          /\ c.stage # "open" => c.todo # << >>
          /\ \A g \in c.work.got :
                /\ \/ WasAcked(g.envelope, A)
                   \/ c.stage # "open" /\ g.envelope = Head(c.todo).id
                /\ \A i \in Ahead(c) : i.id # g.envelope

\* What a device acknowledged was sent, and a saved state has no other events.
AcksGood(A, got, ids) ==
    /\ IsFiniteSet(A)
    /\ \A i \in A : Numbered(i.id, i.from, ids)
    /\ \A g \in got : WasAcked(g.envelope, A)

\* A message is in its queue until it is acknowledged, unless the device is
\* revoked, and not after.
QueueGood(d, list, A, S, ids, gone) ==
    /\ Ordered(list)
    /\ \A i \in Entries(list) : IsNumbered(i, S, ids) /\ ~WasAcked(i.id, A)
    /\ d \notin gone => \A x \in S : x.to = d => AckedMessage(x, A) \/ IsIn(list, x.envelope)

QueueInv ==
    /\ \A d \in Device : AcksGood(ackedBy[d], disk[d].got, envelopes)
    /\ \A d \in Device : QueueGood(d, queue[d], ackedBy[d], sealed, envelopes, revoked)
    /\ \A p \in Process : InHand(p[1], command[p], sealed, ackedBy[p[1]], envelopes)

LEMMA OrderedAppend ==
    ASSUME NEW list, IsSeq(list), Ordered(list), NEW e, \A i \in Entries(list) : Sooner(i, e)
    PROVE  Ordered(Append(list, e))
  <1> DEFINE longer == Append(list, e)
             last == Len(list) + 1
  <1>1. /\ Len(list) \in Nat /\ DOMAIN list = 1 .. Len(list)
        /\ DOMAIN longer = 1 .. last /\ longer[last] = e
        /\ \A i \in DOMAIN list : longer[i] = list[i]
    BY AppendIsSeq
  <1> HIDE DEF longer
  <1>2. ASSUME NEW i \in DOMAIN longer, NEW j \in DOMAIN longer, i < j
        PROVE  Sooner(longer[i], longer[j])
    <2>1. i \in DOMAIN list
      BY <1>1, <1>2
    <2>2. CASE j = last
      BY <1>1, <2>1, <2>2 DEF Entries
    <2>3. CASE j # last
      <3>1. j \in DOMAIN list
        BY <1>1, <2>3
      <3> QED
        BY <1>1, <1>2, <2>1, <3>1 DEF Ordered
    <2> QED
      BY <2>2, <2>3
  <1>3. Ordered(longer)
    BY <1>2 DEF Ordered
  <1> QED
    BY <1>3 DEF longer

LEMMA OrderedTail ==
    ASSUME NEW list, IsSeq(list), Ordered(list), list # << >>
    PROVE  /\ Ordered(Tail(list))
           /\ Entries(list) = {Head(list)} \union Entries(Tail(list))
           /\ \A i \in Entries(Tail(list)) : Sooner(Head(list), i)
  <1> DEFINE rest == Tail(list)
  <1>1. /\ Len(list) \in Nat \ {0} /\ DOMAIN list = 1 .. Len(list) /\ Head(list) = list[1]
        /\ DOMAIN rest = 1 .. Len(list) - 1
        /\ \A i \in 1 .. Len(list) - 1 : rest[i] = list[i + 1]
    BY DEF IsSeq
  <1> HIDE DEF rest
  <1>2. \A i \in DOMAIN rest : i + 1 \in DOMAIN list /\ 1 < i + 1 /\ rest[i] = list[i + 1]
    BY <1>1
  <1>3. \A i \in DOMAIN list : i = 1 \/ (i - 1 \in DOMAIN rest /\ rest[i - 1] = list[i])
    BY <1>1
  <1>4. 1 \in DOMAIN list
    BY <1>1
  <1>5. ASSUME NEW i \in DOMAIN rest, NEW j \in DOMAIN rest, i < j
        PROVE  Sooner(rest[i], rest[j])
    <2>1. i + 1 < j + 1
      BY <1>1, <1>5
    <2> QED
      BY <1>2, <2>1 DEF Ordered
  <1>6. \A i \in Entries(rest) : Sooner(Head(list), i)
    BY <1>1, <1>2, <1>4 DEF Ordered, Entries
  <1>7. Entries(list) = {Head(list)} \union Entries(rest)
    <2>1. ASSUME NEW e \in Entries(list)
          PROVE  e \in {Head(list)} \union Entries(rest)
      <3>1. PICK i \in DOMAIN list : e = list[i]
        BY DEF Entries
      <3> QED
        BY <1>1, <1>3, <3>1 DEF Entries
    <2>2. Head(list) \in Entries(list) /\ Entries(rest) \subseteq Entries(list)
      BY <1>1, <1>2, <1>4 DEF Entries
    <2> QED
      BY <2>1, <2>2
  <1> QED
    BY <1>5, <1>6, <1>7 DEF rest, Ordered

LEMMA OrderedFilter ==
    ASSUME NEW list, IsSeq(list), Ordered(list), NEW places
    PROVE  Ordered(Filtered(list, places))
  <1> DEFINE result == Filtered(list, places)
  <1>1. PICK h : PickedBy(list, h, result)
    BY FilterKeeps
  <1> HIDE DEF result
  <1>2. Ordered(result)
    BY <1>1 DEF PickedBy, Ordered
  <1> QED
    BY <1>2 DEF result

\* S becomes S2: what is new has later envelopes.
Fresh(S, S2, ids) ==
    /\ S \subseteq S2
    /\ \A x \in S2 \ S : \E n \in Nat : n > ids[x.from] /\ x.envelope = <<x.from, n>>

LEMMA NothingFresh ==
    ASSUME NEW S, NEW ids
    PROVE  Fresh(S, S, ids)
  BY DEF Fresh

\* What is new is no item's yet, and comes after all of its sender's.
LEMMA FreshIsLater ==
    ASSUME NEW ids \in [Device -> Nat], NEW S, NEW S2, Fresh(S, S2, ids),
           NEW x \in S2 \ S, NEW envelope, NEW from, Numbered(envelope, from, ids)
    PROVE  /\ x.envelope # envelope
           /\ x.from = from => ~(x.envelope[2] < envelope[2])
  <1>1. PICK n \in 1 .. ids[from] : envelope = <<from, n>>
    BY DEF Numbered
  <1>2. PICK m \in Nat : m > ids[x.from] /\ x.envelope = <<x.from, m>>
    BY DEF Fresh
  <1>3. ids[from] \in Nat
    BY DEF Numbered
  <1> QED
    BY <1>1, <1>2, <1>3

LEMMA NumberedStays ==
    ASSUME NEW ids, NEW ids2, Counts(ids, ids2), NEW envelope, NEW from,
           Numbered(envelope, from, ids)
    PROVE  Numbered(envelope, from, ids2)
  <1>1. from \in Device /\ ids[from] \in Nat /\ ids2[from] \in Nat /\ ids[from] <= ids2[from]
    BY DEF Numbered, Counts
  <1>2. PICK n \in 1 .. ids[from] : envelope = <<from, n>>
    BY DEF Numbered
  <1>3. n \in 1 .. ids2[from]
    BY <1>1
  <1> QED
    BY <1>1, <1>2, <1>3 DEF Numbered

LEMMA ItemStays ==
    ASSUME NEW ids, NEW ids2, Counts(ids, ids2), NEW S, NEW S2, Fresh(S, S2, ids),
           NEW i, IsNumbered(i, S, ids)
    PROVE  IsNumbered(i, S2, ids2)
  <1>1. Numbered(i.id, i.from, ids2)
    BY NumberedStays DEF IsNumbered
  <1>2. \A x \in S2 \ S : x.envelope # i.id
    BY FreshIsLater DEF IsNumbered, Counts
  <1> QED
    BY <1>1, <1>2 DEF IsNumbered

\* A command knows what it did, whatever was sent and acknowledged meanwhile.
LEMMA InHandStays ==
    ASSUME NEW d, NEW c, NEW S, NEW A, NEW ids, InHand(d, c, S, A, ids),
           NEW ids2, Counts(ids, ids2), NEW S2, Fresh(S, S2, ids), NEW A2, A \subseteq A2
    PROVE  InHand(d, c, S2, A2, ids2)
  <1>1. \A envelope : WasAcked(envelope, A) => WasAcked(envelope, A2)
    BY DEF WasAcked
  <1>2. ASSUME c.op = "sync"
        PROVE  /\ Covers(d, c.todo, S2, A2)
               /\ \A i \in Entries(c.todo) : IsNumbered(i, S2, ids2)
    <2>1. \A i \in Entries(c.todo) : IsNumbered(i, S, ids)
      BY <1>2 DEF InHand
    <2>2. ASSUME NEW i \in Entries(c.todo), NEW x \in S2,
                 x.to = d, x.from = i.from, x.envelope[2] < i.id[2]
          PROVE  AckedMessage(x, A2) \/ IsIn(c.todo, x.envelope)
      <3>1. x \in S
        BY <2>1, <2>2, FreshIsLater DEF IsNumbered, Counts
      <3>2. AckedMessage(x, A) \/ IsIn(c.todo, x.envelope)
        BY <1>2, <2>2, <3>1 DEF InHand, Covers
      <3> QED
        BY <3>2 DEF AckedMessage
    <2> QED
      BY <2>1, <2>2, ItemStays DEF Covers
  <1> QED
    BY <1>1, <1>2 DEF InHand

LEMMA AcksStay ==
    ASSUME NEW A, NEW got, NEW ids, AcksGood(A, got, ids), NEW ids2, Counts(ids, ids2)
    PROVE  AcksGood(A, got, ids2)
  BY NumberedStays DEF AcksGood

\* Nothing new for a device.
LEMMA QueueStays ==
    ASSUME NEW d, NEW list, NEW A, NEW S, NEW ids, NEW gone,
           QueueGood(d, list, A, S, ids, gone),
           NEW ids2, Counts(ids, ids2), NEW S2, Fresh(S, S2, ids),
           \A x \in S2 \ S : x.to # d, NEW gone2, gone \subseteq gone2
    PROVE  QueueGood(d, list, A, S2, ids2, gone2)
  <1>1. \A i \in Entries(list) : IsNumbered(i, S2, ids2) /\ ~WasAcked(i.id, A)
    BY ItemStays DEF QueueGood
  <1> QED
    BY <1>1 DEF QueueGood

\* A new item comes last.
LEMMA QueueAppends ==
    ASSUME NEW d, NEW list, IsSeq(list), NEW A, NEW S, NEW ids, NEW gone,
           QueueGood(d, list, A, S, ids, gone),
           NEW ids2, Counts(ids, ids2), NEW S2, Fresh(S, S2, ids),
           NEW e, e.from \in Device, NEW n \in Nat, e.id = <<e.from, n>>,
           n > ids[e.from], n <= ids2[e.from],
           e.type = "ack" => \A x \in S2 : x.envelope # e.id,
           \A x \in S2 \ S : x.to = d => x.envelope = e.id,
           \A i \in A : Numbered(i.id, i.from, ids)
    PROVE  QueueGood(d, Append(list, e), A, S2, ids2, gone)
  <1> DEFINE longer == Append(list, e)
  <1>1. Entries(longer) = Entries(list) \union {e}
    BY AppendIsSeq
  <1>2. ids \in [Device -> Nat] /\ ids2 \in [Device -> Nat]
    BY DEF Counts
  <1>3. \A i : Numbered(i.id, i.from, ids) => i.id # e.id /\ Sooner(i, e)
    <2> SUFFICES ASSUME NEW i, Numbered(i.id, i.from, ids)
                 PROVE  i.id # e.id /\ Sooner(i, e)
      OBVIOUS
    <2>1. PICK m \in 1 .. ids[i.from] : i.id = <<i.from, m>>
      BY DEF Numbered
    <2> QED
      BY <1>2, <2>1 DEF Sooner, Numbered
  <1>4. IsNumbered(e, S2, ids2) /\ ~WasAcked(e.id, A)
    <2>1. n \in 1 .. ids2[e.from]
      BY <1>2
    <2>2. ~WasAcked(e.id, A)
      BY <1>3 DEF WasAcked
    <2> QED
      BY <2>1, <2>2 DEF IsNumbered, Numbered
  <1>5. Ordered(longer)
    BY <1>3, OrderedAppend DEF QueueGood, IsNumbered
  <1> HIDE DEF longer
  <1>6. \A i \in Entries(longer) : IsNumbered(i, S2, ids2) /\ ~WasAcked(i.id, A)
    BY <1>1, <1>4, ItemStays DEF QueueGood
  <1>7. ASSUME d \notin gone, NEW x \in S2, x.to = d
        PROVE  AckedMessage(x, A) \/ IsIn(longer, x.envelope)
    <2>1. CASE x \in S
      BY <1>1, <1>7, <2>1 DEF QueueGood, IsIn
    <2>2. CASE x \notin S
      BY <1>1, <1>7, <2>2 DEF IsIn
    <2> QED
      BY <2>1, <2>2
  <1>8. QueueGood(d, longer, A, S2, ids2, gone)
    BY <1>5, <1>6, <1>7 DEF QueueGood
  <1> QED
    BY <1>8 DEF longer

\* An acknowledged item is taken out, and remembered.
LEMMA QueueFilters ==
    ASSUME NEW d, NEW list, IsSeq(list), NEW A, NEW S, NEW ids, NEW gone,
           QueueGood(d, list, A, S, ids, gone), NEW item, NEW a,
           a.id = item.id, a.type = item.type, a.from = item.from,
           \A x \in S : x.envelope = item.id => item.type = "message" /\ item.from = x.from,
           NEW places, places = {i \in DOMAIN list : list[i].id # item.id}
    PROVE  QueueGood(d, Filtered(list, places), A \union {a}, S, ids, gone)
  <1> DEFINE rest == Filtered(list, places)
             A2 == A \union {a}
  <1>1. \A e \in Entries(rest) : \E i \in DOMAIN list : i \in places /\ e = list[i]
    BY FilterKeepsEntries
  <1>2. \A i \in DOMAIN list \intersect places : list[i] \in Entries(rest)
    BY FilterKeeps
  <1>3. Ordered(rest)
    BY OrderedFilter DEF QueueGood
  <1> HIDE DEF rest
  <1>4. \A e \in Entries(rest) : e \in Entries(list) /\ e.id # item.id
    BY <1>1 DEF Entries
  <1>5. \A e \in Entries(list) : e.id # item.id => e \in Entries(rest)
    BY <1>2 DEF Entries
  <1>6. \A e \in Entries(rest) : IsNumbered(e, S, ids) /\ ~WasAcked(e.id, A2)
    BY <1>4 DEF QueueGood, WasAcked
  <1>7. ASSUME d \notin gone, NEW x \in S, x.to = d
        PROVE  AckedMessage(x, A2) \/ IsIn(rest, x.envelope)
    <2>1. CASE x.envelope = item.id
      BY <2>1 DEF AckedMessage
    <2>2. CASE x.envelope # item.id
      BY <1>5, <1>7, <2>2 DEF QueueGood, AckedMessage, IsIn
    <2> QED
      BY <2>1, <2>2
  <1>8. QueueGood(d, rest, A2, S, ids, gone)
    BY <1>3, <1>6, <1>7 DEF QueueGood
  <1> QED
    BY <1>8 DEF rest

\* A step of one process.
LEMMA QueueStep ==
    ASSUME IInv, BooksInv, QueueInv, NEW p \in Process, NEW c, RunningSet(p, c),
           Counts(envelopes, envelopes'), Fresh(sealed, sealed', envelopes),
           revoked' = revoked, \A d \in Device : ackedBy[d] \subseteq ackedBy'[d],
           InHand(p[1], c, sealed', ackedBy'[p[1]], envelopes'),
           \A d \in Device :
              \/ ackedBy'[d] = ackedBy[d] /\ disk'[d] = disk[d]
              \/ AcksGood(ackedBy'[d], disk'[d].got, envelopes'),
           \A d \in Device :
              \/ /\ queue'[d] = queue[d] /\ ackedBy'[d] = ackedBy[d]
                 /\ \A x \in sealed' \ sealed : x.to # d
              \/ QueueGood(d, queue'[d], ackedBy'[d], sealed', envelopes', revoked)
    PROVE  QueueInv'
  <1>1. /\ command'[p] = c
        /\ \A q \in Process : q # p => command'[q] = command[q]
    BY DEF IInv, RunningSet
  <1>2. ASSUME NEW q \in Process
        PROVE  InHand(q[1], command'[q], sealed', ackedBy'[q[1]], envelopes')
    <2>1. CASE q = p
      BY <1>1, <2>1
    <2>2. CASE q # p
      <3>1. q[1] \in Device /\ InHand(q[1], command[q], sealed, ackedBy[q[1]], envelopes)
        BY ProcessOfDevice DEF QueueInv
      <3>2. InHand(q[1], command[q], sealed', ackedBy'[q[1]], envelopes')
        BY <3>1, InHandStays
      <3> QED
        BY <1>1, <2>2, <3>2
    <2> QED
      BY <2>1, <2>2
  <1>3. \A d \in Device : AcksGood(ackedBy'[d], disk'[d].got, envelopes')
    BY AcksStay DEF QueueInv
  <1>4. \A d \in Device : QueueGood(d, queue'[d], ackedBy'[d], sealed', envelopes', revoked)
    <2>1. ASSUME NEW d \in Device, queue'[d] = queue[d], ackedBy'[d] = ackedBy[d],
                 \A x \in sealed' \ sealed : x.to # d
          PROVE  QueueGood(d, queue'[d], ackedBy'[d], sealed', envelopes', revoked)
      <3>1. QueueGood(d, queue[d], ackedBy[d], sealed, envelopes, revoked)
        BY DEF QueueInv
      <3>2. QueueGood(d, queue[d], ackedBy[d], sealed', envelopes', revoked)
        BY <2>1, <3>1, QueueStays
      <3> QED
        BY <2>1, <3>2
    <2> QED
      BY <2>1
  <1> QED
    BY <1>2, <1>3, <1>4 DEF QueueInv

\* A step that sends and acknowledges nothing.
LEMMA NothingSent ==
    ASSUME IInv, BooksInv, QueueInv, NEW p \in Process, NEW c, RunningSet(p, c),
           UNCHANGED <<queue, revoked, sealed, envelopes, ackedBy>>,
           InHand(p[1], c, sealed, ackedBy[p[1]], envelopes),
           \/ UNCHANGED disk
           \/ \E local : /\ disk' = [disk EXCEPT ![p[1]] = local]
                         /\ \A g \in local.got : WasAcked(g.envelope, ackedBy[p[1]])
    PROVE  QueueInv'
  <1>1. /\ Counts(envelopes, envelopes') /\ Fresh(sealed, sealed', envelopes)
        /\ sealed' \ sealed = {}
    BY CountsNot, NothingFresh DEF BooksInv
  <1>2. ASSUME NEW d \in Device
        PROVE  AcksGood(ackedBy'[d], disk'[d].got, envelopes')
    <2>1. AcksGood(ackedBy[d], disk[d].got, envelopes)
      BY DEF QueueInv
    <2>2. \/ disk'[d] = disk[d]
          \/ \A g \in disk'[d].got : WasAcked(g.envelope, ackedBy[d])
      BY DEF BooksInv
    <2> QED
      BY <2>1, <2>2 DEF AcksGood
  <1>3. InHand(p[1], c, sealed', ackedBy'[p[1]], envelopes')
    OBVIOUS
  <1>4. \A d \in Device : ackedBy'[d] = ackedBy[d] /\ queue'[d] = queue[d]
    OBVIOUS
  <1> QED
    BY <1>1, <1>2, <1>3, <1>4, QueueStep

\* A command ends.
LEMMA QueueEnd ==
    ASSUME IInv, BooksInv, QueueInv, NEW p \in Process, RunningSet(p, Idle),
           UNCHANGED <<queue, revoked, sealed, envelopes, ackedBy>>,
           \/ UNCHANGED disk
           \/ \E local : /\ disk' = [disk EXCEPT ![p[1]] = local]
                         /\ \A g \in local.got : WasAcked(g.envelope, ackedBy[p[1]])
    PROVE  QueueInv'
  <1>1. InHand(p[1], Idle, sealed, ackedBy[p[1]], envelopes)
    BY DEF InHand, Idle
  <1> QED
    BY <1>1, NothingSent

\* A send starts, begins a session, or ends.
LEMMA SendsKeepQueues ==
    ASSUME IInv, BooksInv, QueueInv, NEW p \in Process,
           (\E a \in Account : SendLookup(p, a)) \/ SendClaim(p) \/ SendSave(p)
    PROVE  QueueInv'
  <1> DEFINE d == p[1]
  <1>1. d \in Device
    BY ProcessOfDevice
  <1>2. ASSUME NEW a \in Account, SendLookup(p, a)
        PROVE  QueueInv'
    <2> DEFINE targets == Filtered(Devices[a], {i \in DOMAIN Devices[a] :
                                                 Devices[a][i] \notin revoked})
               c == [op |-> "send", work |-> disk[d], targets |-> targets,
                     text |-> <<d, texts[d] + 1>>, done |-> {}]
    <2>1. RunningSet(p, c) /\ UNCHANGED <<disk, queue, revoked, sealed, envelopes, ackedBy>>
      BY <1>2 DEF SendLookup
    <2>2. c.op = "send" /\ c.work = disk[d]
      OBVIOUS
    <2> HIDE DEF c
    <2>3. InHand(d, c, sealed, ackedBy[d], envelopes)
      BY <1>1, <2>2 DEF InHand, QueueInv, AcksGood
    <2> QED
      BY <2>1, <2>3, NothingSent
  <1>3. ASSUME SendClaim(p)
        PROVE  QueueInv'
    <2> DEFINE t == Target(p)
               preKey == IF claimed[t] < PreKeyCount
                         THEN OneTimePreKey(t, claimed[t] + 1) ELSE NoKey
               next == WithSession(command[p].work, t, NewInitiator(d, t, preKey, SendKey(p, t)))
               c == [command[p] EXCEPT
                       !.work = WithSession(@, t, NewInitiator(d, t, preKey, SendKey(p, t)))]
    <2>1. /\ RunningSet(p, c) /\ command[p].op = "send"
          /\ UNCHANGED <<disk, queue, revoked, sealed, envelopes, ackedBy>>
      BY <1>3 DEF SendClaim, Sending
    <2>2. DOMAIN command[p] = SendFields /\ DOMAIN command[p].work = LocalFields
      BY <2>1 DEF IInv, BooksInv, CommandGood, SendGood
    <2>3. c.op = "send" /\ c.work = next
      BY <2>1, <2>2 DEF SendFields
    <2>4. next.got = command[p].work.got
      BY <2>2 DEF WithSession, LocalFields
    <2> HIDE DEF c, next
    <2>5. InHand(d, c, sealed, ackedBy[d], envelopes)
      BY <2>1, <2>3, <2>4 DEF InHand, QueueInv
    <2> QED
      BY <2>1, <2>5, NothingSent
  <1>4. ASSUME SendSave(p)
        PROVE  QueueInv'
    <2> DEFINE local == ToSave(p)
    <2>1. /\ RunningSet(p, Idle) /\ disk' = [disk EXCEPT ![d] = local] /\ command[p].op = "send"
          /\ UNCHANGED <<queue, revoked, sealed, envelopes, ackedBy>>
      BY <1>4 DEF SendSave, Save, Sending
    <2>2. DOMAIN command[p].work = LocalFields
      BY <2>1 DEF BooksInv, CommandGood, SendGood
    <2>3. local.got = command[p].work.got
      BY <2>1, <2>2 DEF ToSave, LocalFields
    <2> HIDE DEF local
    <2>4. \A g \in local.got : WasAcked(g.envelope, ackedBy[d])
      BY <2>1, <2>3 DEF QueueInv, InHand
    <2> QED
      BY <2>1, <2>4, QueueEnd
  <1> QED
    BY <1>2, <1>3, <1>4

\* A message that is new goes to the end of one queue.
LEMMA EnqueueKeepsQueues ==
    ASSUME IInv, BooksInv, QueueInv, NEW p \in Process, SendEnqueue(p)
    PROVE  QueueInv'
  <1> DEFINE d == p[1]
             t == Target(p)
             s == command[p].work.sessions[t]
             number == envelopes[d] + 1
             id == <<d, number>>
             body == Sealed(s, command[p].text)
             envelope == MessageEnvelope(d, t, command[p].text, body)
             z == [envelope |-> envelope.id, from |-> d, to |-> t, text |-> body.text,
                   ratchet |-> body.ratchet, key |-> body.key]
             next == WithSession(command[p].work, t, AfterSeal(s))
             c == [command[p] EXCEPT
                      !.work = WithSession(@, t, AfterSeal(s)),
                      !.targets = Tail(@),
                      !.done = @ \union {[text |-> command[p].text, device |-> t,
                                          envelope |-> envelope.id, delivered |-> FALSE]}]
  <1>1. /\ RunningSet(p, c) /\ command[p].op = "send" /\ command[p].targets # << >>
        /\ sealed' = sealed \union {z} /\ Enqueue(envelope)
        /\ UNCHANGED <<disk, revoked, ackedBy>>
    BY DEF SendEnqueue, Sending
  <1>2. /\ envelope.id = id /\ envelope.from = d /\ envelope.to = t
        /\ envelope.type = "message"
    BY DEF MessageEnvelope
  <1>3. DOMAIN command[p] = SendFields /\ SendGood(d, command[p], sealed, readBy, texts)
    BY <1>1 DEF IInv, BooksInv, CommandGood
  <1>4. d \in Device /\ t \in Device
    BY <1>1, <1>3, ProcessOfDevice, HeadAndTail DEF SendGood, Target
  <1>5. c.op = "send" /\ c.work = next
    BY <1>1, <1>3 DEF SendFields
  <1>6. next.got = command[p].work.got
    BY <1>3 DEF WithSession, SendGood, LocalFields
  <1>7. z.envelope = envelope.id /\ z.from = d /\ z.to = t
    OBVIOUS
  <1> HIDE DEF c, next, envelope, z, t
  <1>8. /\ queue' = [queue EXCEPT ![t] = Append(@, envelope)]
        /\ envelopes' = [envelopes EXCEPT ![d] = number]
    BY <1>1, <1>2 DEF Enqueue
  <1>9. number \in Nat /\ number > envelopes[d] /\ envelopes'[d] = number
    BY <1>4, <1>8 DEF BooksInv
  <1>10. Counts(envelopes, envelopes')
    BY <1>4, <1>8, <1>9 DEF BooksInv, Counts
  <1>11. Fresh(sealed, sealed', envelopes)
    BY <1>1, <1>2, <1>7, <1>9 DEF Fresh
  <1>12. InHand(d, c, sealed', ackedBy'[d], envelopes')
    BY <1>1, <1>5, <1>6 DEF InHand, QueueInv
  <1>13. QueueGood(t, queue'[t], ackedBy'[t], sealed', envelopes', revoked)
    <2>1. IsSeq(queue[t]) /\ queue'[t] = Append(queue[t], envelope)
      BY <1>4, <1>8 DEF BooksInv, AreItems
    <2>2. QueueGood(t, queue[t], ackedBy[t], sealed, envelopes, revoked)
      BY <1>4 DEF QueueInv
    <2>3. \A x \in sealed' \ sealed : x.to = t => x.envelope = envelope.id
      BY <1>1, <1>7
    <2>4. \A i \in ackedBy[t] : Numbered(i.id, i.from, envelopes)
      BY <1>4 DEF QueueInv, AcksGood
    <2>5. number <= envelopes'[d]
      BY <1>9
    <2>6. /\ envelope.from \in Device /\ envelope.id = <<envelope.from, number>>
          /\ number > envelopes[envelope.from] /\ number <= envelopes'[envelope.from]
          /\ envelope.type # "ack"
      BY <1>2, <1>4, <1>9, <2>5
    <2> HIDE DEF number
    <2>7. QueueGood(t, Append(queue[t], envelope), ackedBy[t], sealed', envelopes', revoked)
      BY <1>9, <1>10, <1>11, <2>1, <2>2, <2>3, <2>4, <2>6, QueueAppends
    <2> QED
      BY <1>1, <2>1, <2>7
  <1>14. \A e \in Device :
            /\ ackedBy'[e] = ackedBy[e] /\ disk'[e] = disk[e]
            /\ e # t => queue'[e] = queue[e] /\ \A x \in sealed' \ sealed : x.to # e
    BY <1>1, <1>7, <1>8 DEF BooksInv
  <1> QED
    BY <1>1, <1>10, <1>11, <1>12, <1>13, <1>14, QueueStep

\* A sync starts with what was not acknowledged.
LEMMA PullKeepsQueues ==
    ASSUME IInv, BooksInv, QueueInv, NEW p \in Process, SyncPull(p)
    PROVE  QueueInv'
  <1> DEFINE d == p[1]
             todo == IF d \in revoked THEN << >> ELSE queue[d]
             c == [op |-> "sync", work |-> disk[d], stage |-> "open", todo |-> todo]
  <1>1. /\ RunningSet(p, c) /\ d \in Device
        /\ UNCHANGED <<disk, revoked, envelopes, sealed, ackedBy>>
        /\ queue' = queue \/ (d \in revoked /\ queue' = [queue EXCEPT ![d] = << >>])
    BY ProcessOfDevice DEF SyncPull
  <1>2. \A g \in disk[d].got : WasAcked(g.envelope, ackedBy[d])
    BY <1>1 DEF QueueInv, AcksGood
  <1>3. QueueGood(d, queue[d], ackedBy[d], sealed, envelopes, revoked)
    BY <1>1 DEF QueueInv
  <1>4. /\ Ordered(todo) /\ Covers(d, todo, sealed, ackedBy[d])
        /\ \A i \in Entries(todo) : IsNumbered(i, sealed, envelopes)
        /\ \A g \in disk[d].got : \A i \in Entries(todo) : i.id # g.envelope
    <2>1. CASE d \in revoked
      BY <2>1, EmptyIsSeq DEF Ordered, Covers
    <2>2. CASE d \notin revoked
      BY <1>2, <1>3, <2>2 DEF QueueGood, Covers
    <2> QED
      BY <2>1, <2>2
  <1> HIDE DEF todo
  <1>5. c.op = "sync" /\ c.work = disk[d] /\ c.stage = "open" /\ c.todo = todo
    OBVIOUS
  <1> HIDE DEF c
  <1>6. InHand(d, c, sealed, ackedBy[d], envelopes)
    BY <1>2, <1>4, <1>5 DEF InHand, Ahead
  <1>7. /\ Counts(envelopes, envelopes') /\ Fresh(sealed, sealed', envelopes)
        /\ sealed' \ sealed = {}
    BY <1>1, CountsNot, NothingFresh DEF BooksInv
  <1>8. /\ \A e \in Device : ackedBy'[e] = ackedBy[e] /\ disk'[e] = disk[e]
        /\ \A e \in Device : e # d => queue'[e] = queue[e]
        /\ queue'[d] = queue[d] \/ (d \in revoked /\ queue'[d] = << >>)
    BY <1>1 DEF BooksInv
  <1>9. d \in revoked => QueueGood(d, << >>, ackedBy'[d], sealed', envelopes', revoked)
    BY EmptyIsSeq DEF QueueGood, Ordered
  <1> QED
    BY <1>1, <1>6, <1>7, <1>8, <1>9, QueueStep

\* What is in front of a sync, and what is behind that.
LEMMA FirstInHand ==
    ASSUME IInv, BooksInv, QueueInv, NEW p \in Process,
           command[p].op = "sync", command[p].todo # << >>
    PROVE  LET rest == Tail(command[p].todo) IN
           /\ p[1] \in Device /\ DOMAIN command[p] = SyncFields
           /\ DOMAIN command[p].work = LocalFields
           /\ Head(command[p].todo) = Item(p)
           /\ IsNumbered(Item(p), sealed, envelopes)
           /\ Ordered(rest) /\ Entries(command[p].todo) = {Item(p)} \union Entries(rest)
           /\ \A i \in Entries(rest) : i.id # Item(p).id
           /\ InHand(p[1], command[p], sealed, ackedBy[p[1]], envelopes)
  <1> DEFINE todo == command[p].todo
             rest == Tail(todo)
  <1>1. SyncGood(p[1], command[p], sealed, readBy)
    BY DEF BooksInv, CommandGood
  <1>2. InHand(p[1], command[p], sealed, ackedBy[p[1]], envelopes)
    BY DEF QueueInv
  <1>3. IsSeq(todo) /\ Ordered(todo) /\ \A i \in Entries(todo) : IsNumbered(i, sealed, envelopes)
    BY <1>1, <1>2 DEF SyncGood, AreItems, InHand
  <1>4. /\ Ordered(rest) /\ Entries(todo) = {Item(p)} \union Entries(rest)
        /\ \A i \in Entries(rest) : Sooner(Item(p), i)
    BY <1>3, OrderedTail DEF Item
  <1>5. ASSUME NEW i \in Entries(rest), i.id = Item(p).id
        PROVE  FALSE
    <2>1. IsNumbered(i, sealed, envelopes) /\ IsNumbered(Item(p), sealed, envelopes)
      BY <1>3, <1>4
    <2>2. PICK n \in 1 .. envelopes[i.from] : i.id = <<i.from, n>>
      BY <2>1 DEF IsNumbered, Numbered
    <2>3. PICK m \in 1 .. envelopes[Item(p).from] : Item(p).id = <<Item(p).from, m>>
      BY <2>1 DEF IsNumbered, Numbered
    <2>4. i.from = Item(p).from /\ n = m
      <3> DEFINE from == Item(p).from
      <3>1. <<i.from, n>> = <<from, m>>
        BY <1>5, <2>2, <2>3
      <3> HIDE DEF from
      <3>2. i.from = from /\ n = m
        BY <3>1
      <3> QED
        BY <3>2 DEF from
    <2>5. m < n
      BY <1>4, <2>2, <2>3, <2>4 DEF Sooner
    <2> QED
      BY <2>4, <2>5
  <1>6. DOMAIN command[p].work = LocalFields /\ DOMAIN command[p] = SyncFields
    BY <1>1 DEF SyncGood, IsLocal, IInv
  <1> QED
    BY <1>2, <1>3, <1>4, <1>5, <1>6, ProcessOfDevice DEF Item

\* A sync passes an item over, applies a receipt, opens a message or ends.
LEMMA SyncsKeepQueues ==
    ASSUME IInv, BooksInv, QueueInv, NEW p \in Process,
           SyncSkip(p) \/ SyncOpenAck(p) \/ SyncOpenMessage(p) \/ SyncSave(p)
    PROVE  QueueInv'
  <1> DEFINE d == p[1]
             work == command[p].work
             todo == command[p].todo
  <1>1. ASSUME command[p].op = "sync", todo # << >>, command[p].stage = "open",
               UNCHANGED <<disk, queue, revoked, sealed, envelopes, ackedBy>>,
               NEW c, RunningSet(p, c), c.op = "sync", c.todo = todo, c.stage # "open",
               \A g \in c.work.got : g \in work.got \/ g.envelope = Item(p).id
        PROVE  QueueInv'
    <2>1. /\ Entries(todo) = {Item(p)} \union Entries(Tail(todo))
          /\ \A i \in Entries(Tail(todo)) : i.id # Item(p).id
          /\ Head(todo) = Item(p)
          /\ InHand(d, command[p], sealed, ackedBy[d], envelopes)
      BY <1>1, FirstInHand
    <2>2. InHand(d, c, sealed, ackedBy[d], envelopes)
      BY <1>1, <2>1 DEF InHand, Ahead
    <2> QED
      BY <1>1, <2>2, NothingSent
  <1>2. ASSUME command[p].op = "sync", todo # << >>
        PROVE  DOMAIN command[p] = SyncFields /\ DOMAIN work = LocalFields
    BY <1>2, FirstInHand
  <1>3. ASSUME SyncSkip(p)
        PROVE  QueueInv'
    <2> DEFINE c == [command[p] EXCEPT !.stage = "ack"]
    <2>1. /\ RunningSet(p, c) /\ command[p].op = "sync" /\ todo # << >>
          /\ command[p].stage = "open"
          /\ UNCHANGED <<disk, queue, revoked, sealed, envelopes, ackedBy>>
      BY <1>3 DEF SyncSkip, Syncing
    <2>2. c.op = "sync" /\ c.todo = todo /\ c.stage = "ack" /\ c.work = work
      BY <1>2, <2>1 DEF SyncFields
    <2> HIDE DEF c
    <2> QED
      BY <1>1, <2>1, <2>2
  <1>4. ASSUME SyncOpenAck(p)
        PROVE  QueueInv'
    <2> DEFINE applied == Applied(work, Item(p))
               c == [command[p] EXCEPT !.work = Applied(@, Item(p)), !.stage = "ack"]
    <2>1. /\ RunningSet(p, c) /\ command[p].op = "sync" /\ todo # << >>
          /\ command[p].stage = "open"
          /\ UNCHANGED <<disk, queue, revoked, sealed, envelopes, ackedBy>>
      BY <1>4 DEF SyncOpenAck, Syncing
    <2>2. c.op = "sync" /\ c.todo = todo /\ c.stage = "ack" /\ c.work = applied
      BY <1>2, <2>1 DEF SyncFields
    <2>3. applied.got = work.got
      BY <1>2, <2>1 DEF Applied, LocalFields
    <2> HIDE DEF c, applied
    <2> QED
      BY <1>1, <2>1, <2>2, <2>3
  <1>5. ASSUME SyncOpenMessage(p)
        PROVE  QueueInv'
    <2> DEFINE item == Item(p)
               result == Result(p, work, item)
               next == WithSession(work, item.from, result.session)
               opened == WithEvent(next, item, result.text)
               c == [command[p] EXCEPT
                        !.work = WithEvent(WithSession(@, item.from, result.session),
                                           item, result.text),
                        !.stage = "emit"]
    <2>1. /\ RunningSet(p, c) /\ command[p].op = "sync" /\ todo # << >>
          /\ command[p].stage = "open"
          /\ UNCHANGED <<disk, queue, revoked, sealed, envelopes, ackedBy>>
      BY <1>5 DEF SyncOpenMessage, Syncing
    <2>2. c.op = "sync" /\ c.todo = todo /\ c.stage = "emit" /\ c.work = opened
      BY <1>2, <2>1 DEF SyncFields
    <2> HIDE DEF c, result, item
    <2>3. next.got = work.got /\ DOMAIN next = LocalFields
      BY <1>2, <2>1 DEF WithSession, LocalFields
    <2> HIDE DEF next
    <2>4. opened.got = work.got \union {[envelope |-> item.id, text |-> result.text]}
      BY <2>3 DEF WithEvent, LocalFields
    <2> HIDE DEF opened
    <2>5. \A g \in c.work.got : g \in work.got \/ g.envelope = Item(p).id
      BY <2>2, <2>4 DEF item
    <2> QED
      BY <1>1, <2>1, <2>2, <2>5
  <1>6. ASSUME SyncSave(p)
        PROVE  QueueInv'
    <2> DEFINE local == ToSave(p)
    <2>1. /\ RunningSet(p, Idle) /\ disk' = [disk EXCEPT ![d] = local]
          /\ command[p].op = "sync" /\ todo = << >>
          /\ UNCHANGED <<queue, revoked, sealed, envelopes, ackedBy>>
      BY <1>6 DEF SyncSave, Save
    <2>2. local = work
      BY <2>1 DEF ToSave
    <2> HIDE DEF local
    <2>3. \A g \in local.got : WasAcked(g.envelope, ackedBy[d])
      BY <2>1, <2>2 DEF QueueInv, InHand
    <2> QED
      BY <2>1, <2>3, QueueEnd
  <1> QED
    BY <1>3, <1>4, <1>5, <1>6

\* A receipt goes to the end of one queue.
LEMMA EmitKeepsQueues ==
    ASSUME IInv, BooksInv, QueueInv, NEW p \in Process, SyncEmit(p)
    PROVE  QueueInv'
  <1> DEFINE d == p[1]
             item == Item(p)
             t == item.from
             number == envelopes[d] + 1
             receipt == ReceiptEnvelope(d, item)
             c == [command[p] EXCEPT !.stage = "ack"]
  <1>1. /\ RunningSet(p, c) /\ command[p].op = "sync" /\ command[p].todo # << >>
        /\ command[p].stage = "emit"
        /\ Enqueue(receipt)
        /\ UNCHANGED <<disk, revoked, sealed, ackedBy>>
    BY DEF SyncEmit, Syncing
  <1>2. /\ receipt.id = <<d, number>> /\ receipt.from = d /\ receipt.to = t
        /\ receipt.type = "ack"
    BY DEF ReceiptEnvelope
  <1>3. /\ d \in Device /\ DOMAIN command[p] = SyncFields
        /\ InHand(d, command[p], sealed, ackedBy[d], envelopes)
        /\ IsNumbered(item, sealed, envelopes)
    BY <1>1, FirstInHand
  <1>4. t \in Device
    BY <1>3 DEF IsNumbered, Numbered
  <1>5. /\ c.op = "sync" /\ c.work = command[p].work /\ c.todo = command[p].todo
        /\ c.stage = "ack"
    BY <1>1, <1>3 DEF SyncFields
  <1> HIDE DEF c, receipt, item
  <1>6. InHand(d, c, sealed, ackedBy[d], envelopes)
    BY <1>1, <1>3, <1>5 DEF InHand, Ahead
  <1>7. /\ queue' = [queue EXCEPT ![t] = Append(@, receipt)]
        /\ envelopes' = [envelopes EXCEPT ![d] = number]
    BY <1>1, <1>2 DEF Enqueue
  <1>8. number \in Nat /\ number > envelopes[d] /\ envelopes'[d] = number
    BY <1>3, <1>7 DEF BooksInv
  <1>9. Counts(envelopes, envelopes')
    BY <1>3, <1>7, <1>8 DEF BooksInv, Counts
  <1>10. Fresh(sealed, sealed', envelopes) /\ sealed' \ sealed = {}
    BY <1>1, NothingFresh
  <1>11. \A x \in sealed : x.envelope # receipt.id
    <2> SUFFICES ASSUME NEW x \in sealed, x.envelope = receipt.id
                 PROVE  FALSE
      OBVIOUS
    <2>1. PICK m \in 1 .. envelopes[x.from] : x.envelope = <<x.from, m>>
      BY DEF BooksInv, SealedGood
    <2>2. x.from = d /\ m = number
      BY <1>2, <2>1
    <2>3. envelopes[d] \in Nat
      BY <1>3 DEF BooksInv
    <2> QED
      BY <1>8, <2>1, <2>2, <2>3
  <1>12. QueueGood(t, queue'[t], ackedBy'[t], sealed', envelopes', revoked)
    <2>1. IsSeq(queue[t]) /\ queue'[t] = Append(queue[t], receipt)
      BY <1>4, <1>7 DEF BooksInv, AreItems
    <2>2. QueueGood(t, queue[t], ackedBy[t], sealed, envelopes, revoked)
      BY <1>4 DEF QueueInv
    <2>3. \A i \in ackedBy[t] : Numbered(i.id, i.from, envelopes)
      BY <1>4 DEF QueueInv, AcksGood
    <2>4. /\ receipt.from \in Device /\ receipt.id = <<receipt.from, number>>
          /\ number > envelopes[receipt.from] /\ number <= envelopes'[receipt.from]
      BY <1>2, <1>3, <1>8
    <2>5. \A x \in sealed' : x.envelope # receipt.id
      BY <1>1, <1>11
    <2> HIDE DEF number
    <2>6. QueueGood(t, Append(queue[t], receipt), ackedBy[t], sealed', envelopes', revoked)
      BY <1>8, <1>9, <1>10, <2>1, <2>2, <2>3, <2>4, <2>5, QueueAppends
    <2> QED
      BY <1>1, <2>1, <2>6
  <1>13. InHand(d, c, sealed', ackedBy'[d], envelopes')
    BY <1>1, <1>6, <1>9, <1>10, InHandStays
  <1>14. \A e \in Device :
            /\ ackedBy'[e] = ackedBy[e] /\ disk'[e] = disk[e]
            /\ e # t => queue'[e] = queue[e]
    BY <1>1, <1>7 DEF BooksInv
  <1> QED
    BY <1>1, <1>9, <1>10, <1>12, <1>13, <1>14, QueueStep

\* The item a sync stands at is acknowledged.
LEMMA AckKeepsQueues ==
    ASSUME IInv, BooksInv, QueueInv, NEW p \in Process, SyncAck(p)
    PROVE  QueueInv'
  <1> DEFINE d == p[1]
             item == Item(p)
             rest == Tail(command[p].todo)
             a == [id |-> item.id, type |-> item.type, from |-> item.from]
             places == {i \in DOMAIN queue[d] : queue[d][i].id # item.id}
             filtered == Filtered(queue[d], places)
             c == [command[p] EXCEPT !.todo = Tail(@), !.stage = "open"]
  <1>1. /\ RunningSet(p, c) /\ command[p].op = "sync" /\ command[p].todo # << >>
        /\ command[p].stage = "ack"
        /\ queue' = [queue EXCEPT ![d] = filtered]
        /\ ackedBy' = [ackedBy EXCEPT ![d] = @ \union {a}]
        /\ UNCHANGED <<disk, revoked, sealed, envelopes>>
    BY DEF SyncAck, Syncing
  <1>2. /\ d \in Device /\ DOMAIN command[p] = SyncFields
        /\ Head(command[p].todo) = item
        /\ IsNumbered(item, sealed, envelopes)
        /\ Ordered(rest) /\ Entries(command[p].todo) = {item} \union Entries(rest)
        /\ \A i \in Entries(rest) : i.id # item.id
        /\ InHand(d, command[p], sealed, ackedBy[d], envelopes)
    BY <1>1, FirstInHand
  <1>3. IsItem(d, item, sealed, readBy)
    BY <1>1, FirstItem
  <1>4. a.id = item.id /\ a.type = item.type /\ a.from = item.from
    OBVIOUS
  <1>5. c.op = "sync" /\ c.work = command[p].work /\ c.todo = rest /\ c.stage = "open"
    BY <1>1, <1>2 DEF SyncFields
  <1> HIDE DEF item, a, c, rest, filtered
  <1>6. ackedBy'[d] = ackedBy[d] \union {a}
    BY <1>1, <1>2 DEF IInv
  <1>7. \A x \in sealed : x.envelope = item.id => item.type = "message" /\ item.from = x.from
    BY <1>2, <1>3 DEF IsItem, IsNumbered, BooksInv, SealedGood
  <1>8. InHand(d, c, sealed, ackedBy'[d], envelopes)
    <2>1. Covers(d, rest, sealed, ackedBy'[d])
      <3> SUFFICES ASSUME NEW i \in Entries(rest), NEW x \in sealed,
                          x.to = d, x.from = i.from, x.envelope[2] < i.id[2]
                   PROVE  AckedMessage(x, ackedBy'[d]) \/ IsIn(rest, x.envelope)
        BY DEF Covers
      <3>1. AckedMessage(x, ackedBy[d]) \/ IsIn(command[p].todo, x.envelope)
        BY <1>1, <1>2 DEF InHand, Covers
      <3>2. CASE x.envelope = item.id
        BY <1>4, <1>6, <1>7, <3>2 DEF AckedMessage
      <3>3. CASE x.envelope # item.id
        BY <1>2, <1>6, <3>1, <3>3 DEF AckedMessage, IsIn
      <3> QED
        BY <3>2, <3>3
    <2>2. \A g \in command[p].work.got : WasAcked(g.envelope, ackedBy'[d])
      BY <1>1, <1>2, <1>4, <1>6 DEF InHand, WasAcked
    <2>3. \A g \in command[p].work.got : \A i \in Entries(rest) : i.id # g.envelope
      BY <1>1, <1>2 DEF InHand, Ahead, rest
    <2> QED
      BY <1>1, <1>2, <1>5, <2>1, <2>2, <2>3 DEF InHand, Ahead
  <1>9. QueueGood(d, filtered, ackedBy'[d], sealed, envelopes, revoked)
    <2>1. IsSeq(queue[d]) /\ QueueGood(d, queue[d], ackedBy[d], sealed, envelopes, revoked)
      BY <1>2 DEF BooksInv, AreItems, QueueInv
    <2>2. places = {i \in DOMAIN queue[d] : queue[d][i].id # item.id}
      OBVIOUS
    <2> HIDE DEF places
    <2> QED
      BY <1>4, <1>6, <1>7, <2>1, <2>2, QueueFilters DEF filtered
  <1>10. AcksGood(ackedBy'[d], disk[d].got, envelopes)
    <2>1. AcksGood(ackedBy[d], disk[d].got, envelopes)
      BY <1>2 DEF QueueInv
    <2>2. IsFiniteSet(ackedBy'[d])
      BY <1>6, <2>1, FS_AddElement DEF AcksGood
    <2> QED
      BY <1>2, <1>4, <1>6, <2>1, <2>2 DEF AcksGood, WasAcked, IsNumbered
  <1>11. /\ Counts(envelopes, envelopes') /\ Fresh(sealed, sealed', envelopes)
         /\ sealed' \ sealed = {}
    BY <1>1, CountsNot, NothingFresh DEF BooksInv
  <1>12. /\ \A e \in Device : disk'[e] = disk[e] /\ ackedBy[e] \subseteq ackedBy'[e]
         /\ \A e \in Device : e # d => ackedBy'[e] = ackedBy[e] /\ queue'[e] = queue[e]
         /\ queue'[d] = filtered
    BY <1>1, <1>2 DEF BooksInv, IInv
  <1> QED
    BY <1>1, <1>8, <1>9, <1>10, <1>11, <1>12, QueueStep

\* A command ends early, a device is restored or revoked, or nothing happens.
LEMMA EndsKeepQueues ==
    ASSUME IInv, BooksInv, QueueInv,
           \/ \E p \in Process : SyncRefused(p) \/ CallRefused(p) \/ CommandDies(p) \/ SaveTorn(p)
           \/ \E d \in Device : Restore(d) \/ RevokeDevice(d)
           \/ UNCHANGED vars
    PROVE  QueueInv'
  <1>1. EmptyState.got = {} /\ [EmptyState EXCEPT !.readable = FALSE].got = {}
    BY DEF EmptyState
  <1>2. ASSUME NEW p \in Process, SyncRefused(p) \/ CallRefused(p) \/ CommandDies(p)
        PROVE  QueueInv'
    <2>1. /\ RunningSet(p, Idle)
          /\ UNCHANGED <<disk, queue, revoked, sealed, envelopes, ackedBy>>
      BY <1>2 DEF SyncRefused, CallRefused, CommandDies
    <2> QED
      BY <2>1, QueueEnd
  <1>3. ASSUME NEW p \in Process, SaveTorn(p)
        PROVE  QueueInv'
    <2> DEFINE torn == [EmptyState EXCEPT !.readable = FALSE]
    <2>1. /\ RunningSet(p, Idle) /\ disk' = [disk EXCEPT ![p[1]] = torn]
          /\ UNCHANGED <<queue, revoked, sealed, envelopes, ackedBy>>
      BY <1>3 DEF SaveTorn, Save
    <2>2. \A g \in torn.got : WasAcked(g.envelope, ackedBy[p[1]])
      BY <1>1
    <2> HIDE DEF torn
    <2> QED
      BY <2>1, <2>2, QueueEnd
  <1>4. ASSUME UNCHANGED <<command, queue, sealed, envelopes, ackedBy>>,
               revoked \subseteq revoked',
               \A d \in Device : disk'[d] = disk[d] \/ disk'[d].got = {}
        PROVE  QueueInv'
    <2>1. \A d \in Device : AcksGood(ackedBy[d], disk'[d].got, envelopes)
      BY <1>4 DEF QueueInv, AcksGood
    <2>2. \A d \in Device : QueueGood(d, queue[d], ackedBy[d], sealed, envelopes, revoked')
      BY <1>4 DEF QueueInv, QueueGood
    <2> QED
      BY <1>4, <2>1, <2>2 DEF QueueInv
  <1>5. ASSUME NEW d \in Device, Restore(d) \/ RevokeDevice(d)
        PROVE  QueueInv'
    <2>1. CASE Restore(d)
      BY <1>1, <1>4, <2>1 DEF Restore, BooksInv
    <2>2. CASE RevokeDevice(d)
      BY <1>4, <2>2 DEF RevokeDevice
    <2> QED
      BY <1>5, <2>1, <2>2
  <1>6. CASE UNCHANGED vars
    BY <1>4, <1>6 DEF vars
  <1> QED
    BY <1>2, <1>3, <1>5, <1>6

LEMMA QueueInit == Init => QueueInv
  <1> SUFFICES ASSUME Init PROVE QueueInv
    OBVIOUS
  <1>1. \A d \in Device : AcksGood(ackedBy[d], disk[d].got, envelopes)
    <2>1. EmptyState.got = {}
      BY DEF EmptyState
    <2> QED
      BY <2>1, FS_EmptySet DEF Init, AcksGood
  <1>2. \A d \in Device : QueueGood(d, queue[d], ackedBy[d], sealed, envelopes, revoked)
    BY EmptyIsSeq DEF Init, QueueGood, Ordered
  <1>3. \A p \in Process : InHand(p[1], command[p], sealed, ackedBy[p[1]], envelopes)
    <2>1. \A p \in Process : command[p].op = "idle"
      BY DEF Init, Idle
    <2> QED
      BY <2>1 DEF InHand
  <1> QED
    BY <1>1, <1>2, <1>3 DEF QueueInv

LEMMA QueuesAlways == Spec => []QueueInv
  <1>1. IInv /\ BooksInv /\ QueueInv /\ [Next]_vars => QueueInv'
    <2> SUFFICES ASSUME IInv, BooksInv, QueueInv, [Next]_vars
                 PROVE  QueueInv'
      OBVIOUS
    <2>1. ASSUME NEW p \in Process, Continue(p)
          PROVE  QueueInv'
      BY <2>1, SendsKeepQueues, EnqueueKeepsQueues, SyncsKeepQueues, EmitKeepsQueues,
         AckKeepsQueues, EndsKeepQueues DEF Continue
    <2>2. ASSUME NEW p \in Process,
                 \/ \E a \in Account : SendLookup(p, a)
                 \/ SyncPull(p) \/ CommandDies(p) \/ SaveTorn(p)
          PROVE  QueueInv'
      BY <2>2, SendsKeepQueues, PullKeepsQueues, EndsKeepQueues
    <2>3. ASSUME NEW d \in Device, Restore(d) \/ RevokeDevice(d)
          PROVE  QueueInv'
      BY <2>3, EndsKeepQueues
    <2>4. CASE UNCHANGED vars
      BY <2>4, EndsKeepQueues
    <2> QED
      BY <2>1, <2>2, <2>3, <2>4 DEF Next
  <1> QED
    BY <1>1, QueueInit, BooksAlways, ReadsInvariant, PTL DEF Spec

----------------------------------------------------------------------------
(* A session that only reads *)

\* A session that opened messages of the chain of x: it has the keys of those
\* it passed over, has opened the rest, and nothing beyond.
Follows(s, x, opened) ==
    /\ s.remote = x.ratchet
    /\ s.receive = ChainRec(x.key.root, x.key.label, s.receive.index)
    /\ s.receive.index \in Nat
    /\ \A k \in s.skipped :
          /\ k.index \in 0 .. s.receive.index - 1
          /\ k.key = ChainRec(x.key.root, x.key.label, k.index)
    /\ \A n \in 0 .. s.receive.index - 1 :
          \/ \E k \in s.skipped : k.ratchet = x.ratchet /\ k.index = n
          \/ \E y \in opened : y.key = ChainRec(x.key.root, x.key.label, n)
    /\ \A y \in opened : y.key.index \in 0 .. s.receive.index - 1

\* openWithSession once the session has been advanced.
Tried(w, m) ==
    LET stored == {k \in w.skipped : k.ratchet = m.ratchet /\ k.index = m.index}
    IN IF stored # {}
       THEN LET kept == CHOOSE k \in stored : TRUE
            IN Decrypted(kept.key, m, [w EXCEPT !.skipped = @ \ {kept}])
       ELSE IF m.index < w.receive.index \/ m.index - w.receive.index > MaxSkip
       THEN Refused
       ELSE LET caughtUp == Skipping(w, m.index)
            IN Decrypted(caughtUp.receive, m, [caughtUp EXCEPT !.receive = NextChain(@)])

LEMMA OpenedIsTried ==
    ASSUME NEW s, NEW m, NEW fresh
    PROVE  Opened(s, m, fresh) = Tried(Advanced(s, m.ratchet, fresh), m)
  BY DEF Opened, Tried

LEMMA DecryptedEffect ==
    ASSUME NEW key, NEW m, NEW s
    PROVE  /\ Decrypted(key, m, s).ok <=> key = m.key
           /\ Decrypted(key, m, s).ok => Decrypted(key, m, s).session = s
  BY DEF Decrypted, Accepted, Refused

\* Passing messages over keeps their keys.
LEMMA SkippingEffect ==
    ASSUME NEW w, DOMAIN w = SessionFields, NEW root, NEW label, NEW first \in Nat,
           w.receive = ChainRec(root, label, first), NEW until
    PROVE  LET u == Skipping(w, until)
               past == [u EXCEPT !.receive = NextChain(@)] IN
           /\ u.receive = ChainRec(root, label, until)
           /\ past.receive = ChainRec(root, label, until + 1)
           /\ past.remote = w.remote
           /\ past.skipped = w.skipped \union
                 {[ratchet |-> w.remote, index |-> i, key |-> ChainRec(root, label, i)] :
                     i \in first .. until - 1}
  <1> DEFINE more == {[ratchet |-> w.remote, index |-> i, key |-> [w.receive EXCEPT !.index = i]] :
                          i \in w.receive.index .. until - 1}
             keys == {[ratchet |-> w.remote, index |-> i, key |-> ChainRec(root, label, i)] :
                          i \in first .. until - 1}
             u == Skipping(w, until)
             past == [u EXCEPT !.receive = NextChain(@)]
  <1>1. \A i : [w.receive EXCEPT !.index = i] = ChainRec(root, label, i)
    BY DEF ChainRec
  <1>2. w.receive.index = first
    BY DEF ChainRec
  <1>3. more = keys
    BY <1>1, <1>2
  <1>4. u = [w EXCEPT !.skipped = @ \union more, !.receive = [@ EXCEPT !.index = until]]
    BY DEF Skipping
  <1> HIDE DEF more, u
  <1>5. /\ DOMAIN u = SessionFields /\ u.remote = w.remote
        /\ u.skipped = w.skipped \union more
        /\ u.receive = [w.receive EXCEPT !.index = until]
    BY <1>4 DEF SessionFields
  <1>6. u.receive = ChainRec(root, label, until)
    BY <1>1, <1>5
  <1>7. NextChain(u.receive) = ChainRec(root, label, until + 1)
    BY <1>6 DEF NextChain, ChainRec
  <1>8. /\ past.remote = w.remote /\ past.skipped = u.skipped
        /\ past.receive = NextChain(u.receive)
    BY <1>5 DEF SessionFields
  <1> HIDE DEF past, keys
  <1>9. /\ u.receive = ChainRec(root, label, until)
        /\ past.receive = ChainRec(root, label, until + 1)
        /\ past.remote = w.remote
        /\ past.skipped = w.skipped \union keys
    BY <1>3, <1>5, <1>6, <1>7, <1>8
  <1> QED
    BY <1>9 DEF past, keys, u

\* What was opened is of the chain, and the session follows it.
LEMMA TriedFollows ==
    ASSUME NEW w, DOMAIN w = SessionFields, NEW x, NEW opened, Follows(w, x, opened),
           NEW m, m.ratchet = w.remote, m.index \in Nat,
           NEW y, m.key = y.key, m.index = y.key.index, Tried(w, m).ok
    PROVE  Follows(Tried(w, m).session, x, opened \union {y})
  <1> DEFINE stored == {k \in w.skipped : k.ratchet = m.ratchet /\ k.index = m.index}
             kept == CHOOSE k \in stored : TRUE
             less == [w EXCEPT !.skipped = @ \ {kept}]
             caughtUp == Skipping(w, m.index)
             past == [caughtUp EXCEPT !.receive = NextChain(@)]
             root == x.key.root
             label == x.key.label
             first == w.receive.index
             both == opened \union {y}
  <1>1. first \in Nat /\ w.receive = ChainRec(root, label, first) /\ w.remote = x.ratchet
    BY DEF Follows
  <1>2. CASE stored # {}
    <2>1. Tried(w, m) = Decrypted(kept.key, m, less)
      BY <1>2 DEF Tried
    <2>2. kept \in stored
      BY <1>2
    <2>3. less.remote = w.remote /\ less.receive = w.receive /\ less.skipped = w.skipped \ {kept}
      BY DEF SessionFields
    <2> HIDE DEF less, kept
    <2>4. kept.key = m.key /\ Tried(w, m).session = less
      BY <2>1, DecryptedEffect
    <2>5. /\ m.index \in 0 .. first - 1
          /\ y.key = ChainRec(root, label, m.index)
      BY <2>2, <2>4 DEF Follows
    <2>6. ASSUME NEW n \in 0 .. first - 1
          PROVE  \/ \E k \in less.skipped : k.ratchet = x.ratchet /\ k.index = n
                 \/ \E z \in both : z.key = ChainRec(root, label, n)
      <3>1. CASE n = m.index
        BY <2>5, <3>1
      <3>2. CASE n # m.index
        <4>1. \/ \E k \in w.skipped : k.ratchet = x.ratchet /\ k.index = n
              \/ \E z \in opened : z.key = ChainRec(root, label, n)
          BY DEF Follows
        <4>2. kept.index = m.index
          BY <2>2
        <4> QED
          BY <2>3, <3>2, <4>1, <4>2
      <3> QED
        BY <3>1, <3>2
    <2>7. Follows(less, x, both)
      <3>1. \A z \in both : z.key.index \in 0 .. first - 1
        BY <2>5 DEF Follows
      <3>2. less.receive.index = first /\ less.remote = x.ratchet
        BY <1>1, <2>3
      <3>3. \A k \in less.skipped : /\ k.index \in 0 .. first - 1
                                     /\ k.key = ChainRec(root, label, k.index)
        BY <2>3 DEF Follows
      <3> QED
        BY <1>1, <2>3, <2>6, <3>1, <3>2, <3>3 DEF Follows
    <2> QED
      BY <2>4, <2>7
  <1>3. CASE stored = {}
    <2>1. /\ Tried(w, m) = Decrypted(caughtUp.receive, m, past)
          /\ ~(m.index < first)
      BY <1>3 DEF Tried, Refused
    <2> DEFINE keys == {[ratchet |-> w.remote, index |-> i, key |-> ChainRec(root, label, i)] :
                           i \in first .. m.index - 1}
    <2>2. /\ caughtUp.receive = ChainRec(root, label, m.index)
          /\ past.receive = ChainRec(root, label, m.index + 1)
          /\ past.remote = w.remote
          /\ past.skipped = w.skipped \union keys
      <3> HIDE DEF root, label, first
      <3> QED
        BY <1>1, SkippingEffect
    <2> HIDE DEF past, caughtUp
    <2>3. caughtUp.receive = m.key /\ Tried(w, m).session = past
      BY <2>1, DecryptedEffect
    <2>4. y.key = ChainRec(root, label, m.index)
      BY <2>2, <2>3
    <2>5. past.receive.index = m.index + 1
      BY <2>2 DEF ChainRec
    <2>6. \A k \in keys : /\ k.index \in first .. m.index - 1 /\ k.ratchet = x.ratchet
                          /\ k.key = ChainRec(root, label, k.index)
      BY <1>1
    <2>7. \A i \in first .. m.index - 1 : \E k \in keys : k.index = i
      <3> SUFFICES ASSUME NEW i \in first .. m.index - 1
                   PROVE  \E k \in keys : k.index = i
        OBVIOUS
      <3> DEFINE k == [ratchet |-> w.remote, index |-> i, key |-> ChainRec(root, label, i)]
      <3>1. k \in keys /\ k.index = i
        OBVIOUS
      <3> QED
        BY <3>1
    <2> HIDE DEF keys
    <2>8. \A k \in past.skipped : /\ k.index \in 0 .. m.index
                                  /\ k.key = ChainRec(root, label, k.index)
      <3>1. \A k \in w.skipped : /\ k.index \in 0 .. first - 1
                                 /\ k.key = ChainRec(root, label, k.index)
        BY DEF Follows
      <3> QED
        BY <1>1, <2>1, <2>2, <2>6, <3>1
    <2>9. ASSUME NEW n \in 0 .. m.index
          PROVE  \/ \E k \in past.skipped : k.ratchet = x.ratchet /\ k.index = n
                 \/ \E z \in both : z.key = ChainRec(root, label, n)
      <3>1. CASE n < first
        <4>1. n \in 0 .. first - 1
          BY <1>1, <3>1
        <4>2. \/ \E k \in w.skipped : k.ratchet = x.ratchet /\ k.index = n
              \/ \E z \in opened : z.key = ChainRec(root, label, n)
          BY <4>1 DEF Follows
        <4> QED
          BY <2>2, <4>2
      <3>2. CASE n \in first .. m.index - 1
        BY <2>2, <2>6, <2>7, <3>2
      <3>3. CASE n = m.index
        BY <2>4, <3>3
      <3> QED
        BY <1>1, <3>1, <3>2, <3>3
    <2>10. \A z \in both : z.key.index \in 0 .. m.index
      <3>1. \A z \in opened : z.key.index \in 0 .. first - 1
        BY DEF Follows
      <3> QED
        BY <1>1, <2>1, <3>1
    <2>11. Follows(past, x, both)
      <3>1. (m.index + 1) - 1 = m.index /\ m.index + 1 \in Nat
        OBVIOUS
      <3> HIDE DEF both, root, label
      <3> QED
        BY <1>1, <2>2, <2>5, <2>8, <2>9, <2>10, <3>1 DEF Follows, root, label
    <2> QED
      BY <2>3, <2>11
  <1> QED
    BY <1>2, <1>3

\* A message of the chain that is refused was opened, or is too far ahead.
LEMMA RefusedIsFar ==
    ASSUME NEW w, DOMAIN w = SessionFields, NEW x, NEW opened, Follows(w, x, opened),
           NEW m, m.ratchet = w.remote, m.index \in Nat,
           m.key = ChainRec(x.key.root, x.key.label, m.index),
           \A y \in opened : y.key # m.key, ~Tried(w, m).ok
    PROVE  m.index > w.receive.index + MaxSkip
  <1> DEFINE stored == {k \in w.skipped : k.ratchet = m.ratchet /\ k.index = m.index}
             kept == CHOOSE k \in stored : TRUE
             less == [w EXCEPT !.skipped = @ \ {kept}]
             caughtUp == Skipping(w, m.index)
             past == [caughtUp EXCEPT !.receive = NextChain(@)]
             root == x.key.root
             label == x.key.label
             first == w.receive.index
  <1>1. first \in Nat /\ w.receive = ChainRec(root, label, first) /\ w.remote = x.ratchet
    BY DEF Follows
  <1>2. stored = {}
    <2> SUFFICES ASSUME stored # {}
                 PROVE  FALSE
      OBVIOUS
    <2>1. Tried(w, m) = Decrypted(kept.key, m, less) /\ kept \in stored
      BY DEF Tried
    <2>2. kept.key = m.key
      BY <2>1 DEF Follows
    <2> HIDE DEF kept, less
    <2> QED
      BY <2>1, <2>2, DecryptedEffect
  <1>3. ~(m.index < first)
    <2> SUFFICES ASSUME m.index < first
                 PROVE  FALSE
      OBVIOUS
    <2>1. m.index \in 0 .. first - 1
      BY <1>1
    <2>2. \/ \E k \in w.skipped : k.ratchet = x.ratchet /\ k.index = m.index
          \/ \E y \in opened : y.key = ChainRec(root, label, m.index)
      BY <2>1 DEF Follows
    <2> QED
      BY <1>1, <1>2, <2>2
  <1>4. m.index - first > MaxSkip
    <2> SUFFICES ASSUME ~(m.index - first > MaxSkip)
                 PROVE  FALSE
      OBVIOUS
    <2>1. Tried(w, m) = Decrypted(caughtUp.receive, m, past)
      BY <1>2, <1>3 DEF Tried
    <2>2. caughtUp.receive = ChainRec(root, label, m.index)
      <3> HIDE DEF root, label, first
      <3> QED
        BY <1>1, SkippingEffect
    <2> HIDE DEF caughtUp, past
    <2> QED
      BY <2>1, <2>2, DecryptedEffect
  <1> QED
    BY <1>1, <1>4, SkipAssumption

----------------------------------------------------------------------------
(* One chain from a device that writes to one that only reads *)

Silent == {d \in Device : texts[d] = 0}

PreKeysOf(d) == {NoKey} \union {OneTimePreKey(d, k) : k \in 1 .. PreKeyCount}

\* What a state of d knows of the messages it sent to t.
KnownTo(d, t, sent, S) == {x \in S : x.from = d /\ x.to = t /\ KnownIn(sent, x.envelope)}

\* A session that sealed messages and opened none: they are those of its chain,
\* one for each index, in the order they were sent.
Writes(d, t, s, sent, S) ==
    LET known == KnownTo(d, t, sent, S) IN
    /\ s # NoSession =>
          /\ s.root = InitiatorRoot(d, t, s.preKey) /\ s.preKey \in PreKeysOf(t)
          /\ s.own # NoKey
          /\ \A n \in 0 .. s.send.index - 1 : \E x \in known : x.key.index = n
    /\ \A x \in known :
          /\ s # NoSession /\ x.ratchet = s.own
          /\ x.key = ChainRec(s.send.root, s.send.label, x.key.index)
    /\ \A x, y \in known : x.key.index < y.key.index => x.envelope[2] < y.envelope[2]

ShownOf(t, d, got, S) ==
    {y \in S : y.from = t /\ y.to = d /\ \E g \in got : g.envelope = y.envelope}

Reads(t, d, s, got, S) ==
    IF s = NoSession THEN ShownOf(t, d, got, S) = {}
    ELSE /\ s.remote # NoKey
         /\ \E x \in S : x.from = t /\ x.to = d /\ Follows(s, x, ShownOf(t, d, got, S))

\* The sessions, outbound and inbound events of a state of d, T being the
\* devices that wrote nothing.
Relates(d, sessions, sent, got, S, T) ==
    /\ \A t \in T : Writes(d, t, sessions[t], sent, S)
    /\ d \in T => \A t \in Device : Reads(t, d, sessions[t], got, S)
    /\ \A g \in got : \E x \in S : x.envelope = g.envelope

\* A message carries what was sealed, and to a device that only reads what that
\* needs to begin.
CarriesOf(x, i, T) ==
    /\ x.envelope = i.id /\ x.from = i.from
    /\ x.key = i.body.key /\ x.ratchet = i.body.ratchet
    /\ i.body.index = x.key.index /\ x.key.index \in Nat
    /\ x.to \in T => /\ x.key.root = InitiatorRoot(x.from, x.to, i.body.preKey)
                     /\ i.body.preKey \in PreKeysOf(x.to)
                     /\ i.body.ratchet # NoKey

Carries(d, i, S, T) == i.type = "message" => \E x \in S : x.to = d /\ CarriesOf(x, i, T)

RelatesCommand(d, c, S, T) ==
    /\ c.op = "send" =>
          Relates(d, c.work.sessions, c.work.sent \union c.done, c.work.got, S, T)
    /\ c.op = "sync" =>
          /\ Relates(d, c.work.sessions, c.work.sent, c.work.got, S, T)
          /\ \A i \in Entries(c.todo) : Carries(d, i, S, T)

ChainInv ==
    /\ claimed \in [Device -> Nat]
    /\ \A d \in Device :
          Relates(d, disk[d].sessions, disk[d].sent, disk[d].got, sealed, Silent)
    /\ \A d \in Device : \A i \in Entries(queue[d]) : Carries(d, i, sealed, Silent)
    /\ \A p \in Process : RelatesCommand(p[1], command[p], sealed, Silent)

----------------------------------------------------------------------------
(* A device that only reads opens a message *)

\* Both sides derive one root from the keys of a first message.
LEMMA RootsAgree ==
    ASSUME NEW d, NEW t, NEW preKey \in PreKeysOf(d)
    PROVE  ResponderRoot(d, t, preKey, {OneTimePreKey(d, k) : k \in 1 .. PreKeyCount})
              = InitiatorRoot(t, d, preKey)
  <1> DEFINE own == {OneTimePreKey(d, k) : k \in 1 .. PreKeyCount}
  <1>1. NoKey \notin own
    BY DEF NoKey, OneTimePreKey
  <1>2. {preKey} \intersect own = {preKey} \ {NoKey}
    BY <1>1 DEF PreKeysOf
  <1>3. \A k, l : diffieHellman(k, l) = diffieHellman(l, k)
    BY DEF diffieHellman
  <1> HIDE DEF own
  <1> DEFINE mixed == {preKey} \ {NoKey}
  <1>4. {diffieHellman(k, IdentityKey(t)) : k \in mixed}
           = {diffieHellman(IdentityKey(t), k) : k \in mixed}
    BY <1>3
  <1>5. /\ diffieHellman(IdentityKey(d), IdentityKey(t))
              = diffieHellman(IdentityKey(t), IdentityKey(d))
        /\ diffieHellman(SignedPreKey(d), IdentityKey(t))
              = diffieHellman(IdentityKey(t), SignedPreKey(d))
    BY <1>3
  <1>6. ResponderRoot(d, t, preKey, own) = InitiatorRoot(t, d, preKey)
    BY <1>2, <1>4, <1>5 DEF ResponderRoot, InitiatorRoot
  <1> QED
    BY <1>6 DEF own

\* A session that begins with a message is at the start of the message's chain.
LEMMA FreshFollows ==
    ASSUME NEW d, NEW t, NEW m, m.ratchet # NoKey, m.preKey \in PreKeysOf(d),
           NEW z, z.ratchet = m.ratchet, z.key.label = <<t, d>>,
           z.key.root = InitiatorRoot(t, d, m.preKey), NEW own, NEW fresh,
           NEW preKeys, preKeys = {OneTimePreKey(d, k) : k \in 1 .. PreKeyCount},
           NEW w, w = Advanced(NewResponder(d, t, m, preKeys, own), m.ratchet, fresh)
    PROVE  DOMAIN w = SessionFields /\ w.remote = m.ratchet /\ Follows(w, z, {})
  <1> DEFINE root == z.key.root
             s == NewResponder(d, t, m, preKeys, own)
  <1>1. s = NewSession(d, t, "responder", root, m.preKey, own)
    BY RootsAgree DEF NewResponder
  <1> HIDE DEF s
  <1>2. /\ DOMAIN s = SessionFields /\ s.role = "responder" /\ s.remote = NoKey
        /\ s.receive = ChainRec(root, <<t, d>>, 0) /\ s.skipped = {}
    BY <1>1 DEF NewSession, SessionFields, InitialChain, ChainRec
  <1>3. s.receive.index = 0
    BY <1>2 DEF ChainRec
  <1>4. w = FirstAnswer(s, m.ratchet)
    BY <1>2, <1>3 DEF Advanced, s
  <1> DEFINE answer == NextRoot(s.root, diffieHellman(s.own, m.ratchet), s.local, s.peer)
  <1>5. w = [s EXCEPT !.root = answer, !.remote = m.ratchet, !.send = TurnChain(answer)]
    BY <1>4 DEF FirstAnswer
  <1> HIDE DEF answer
  <1>6. /\ DOMAIN w = SessionFields /\ w.remote = m.ratchet /\ w.receive = s.receive
        /\ w.skipped = {}
    BY <1>2, <1>5 DEF SessionFields
  <1>7. 0 .. 0 - 1 = {}
    OBVIOUS
  <1>8. Follows(w, z, {})
    <2>1. w.receive.index = 0 /\ w.receive = ChainRec(z.key.root, z.key.label, 0)
      BY <1>2, <1>3, <1>6
    <2> HIDE DEF root
    <2>2. w.remote = z.ratchet /\ w.receive.index \in Nat
      BY <1>6, <2>1
    <2>3. \A n \in 0 .. w.receive.index - 1 : FALSE
      BY <1>7, <2>1
    <2> QED
      BY <1>6, <2>1, <2>2, <2>3 DEF Follows
  <1> QED
    BY <1>6, <1>8

\* A session that has opened messages takes a turn at a message of another
\* chain, and cannot open it if that is a first chain.
LEMMA OtherChainIsRefused ==
    ASSUME NEW d, NEW t, NEW s, IsSession(d, t, s), s.remote # NoKey,
           NEW m, m.ratchet # s.remote, m.key.root.steps = << >>, NEW fresh
    PROVE  ~Opened(s, m, fresh).ok
  <1> DEFINE received == ReceiveRoot(s, m.ratchet)
             sent == NextRoot(received, diffieHellman(fresh, m.ratchet), s.local, s.peer)
             turn == Turn(s, m.ratchet, fresh)
             w == [turn EXCEPT !.skipped = {}]
             caughtUp == Skipping(w, m.index)
             past == [caughtUp EXCEPT !.receive = NextChain(@)]
  <1>1. DOMAIN s = SessionFields /\ IsRoot(s.root)
    BY DEF IsSession
  <1>2. received.steps # << >>
    BY <1>1, NextRootEffect DEF ReceiveRoot
  <1>3. turn = [s EXCEPT !.root = sent, !.own = fresh, !.remote = m.ratchet,
                         !.send = TurnChain(sent), !.receive = TurnChain(received)]
    BY DEF Turn
  <1> HIDE DEF turn, sent, received
  <1>4. /\ DOMAIN w = SessionFields /\ w.skipped = {} /\ w.receive = TurnChain(received)
    BY <1>1, <1>3 DEF SessionFields
  <1>5. w.receive = ChainRec(received, << >>, 0)
    BY <1>4 DEF TurnChain, ChainRec
  <1>6. Advanced(s, m.ratchet, fresh) = w
    BY DEF Advanced, turn
  <1> HIDE DEF w
  <1>7. {k \in w.skipped : k.ratchet = m.ratchet /\ k.index = m.index} = {}
    BY <1>4
  <1>8. Opened(s, m, fresh) = Refused \/ Opened(s, m, fresh) = Decrypted(caughtUp.receive, m, past)
    BY <1>6, <1>7 DEF Opened
  <1>9. caughtUp.receive = ChainRec(received, << >>, m.index)
    BY <1>4, <1>5, SkippingEffect
  <1> HIDE DEF caughtUp, past
  <1>10. caughtUp.receive # m.key
    BY <1>2, <1>9 DEF ChainRec
  <1> QED
    BY <1>8, <1>10 DEF Decrypted, Refused

\* What a device that only reads tries a message with.
LEMMA Reader ==
    ASSUME NEW p \in Process, NEW local, NEW i, i.type = "message", NEW S, NEW T,
           NEW d, d = p[1], d \in T, NEW t, t = i.from,
           NEW z \in S, z.to = d, CarriesOf(z, i, T), Directed(z.key, z.from, z.to),
           local.sessions[t] = NoSession \/ IsSession(d, t, local.sessions[t]),
           Reads(t, d, local.sessions[t], local.got, S)
    PROVE  \/ \E w : \E x \in S :
                 /\ DOMAIN w = SessionFields /\ w.remote = i.body.ratchet
                 /\ i.body.ratchet # NoKey
                 /\ x.from = t /\ x.to = d /\ Follows(w, x, ShownOf(t, d, local.got, S))
                 /\ Result(p, local, i) = Tried(w, i.body)
           \/ /\ ~Result(p, local, i).ok
              /\ \E x \in S : x.from = t /\ x.to = d /\ x.ratchet # i.body.ratchet
  <1> DEFINE s == local.sessions[t]
             m == i.body
             k1 == SyncKey(p, i, 1)
             k2 == SyncKey(p, i, 2)
             shown == ShownOf(t, d, local.got, S)
             preKeys == {OneTimePreKey(d, k) : k \in 1 .. PreKeyCount}
             begun == NewResponder(d, t, m, preKeys, k1)
  <1>1. /\ z.from = t /\ z.key = m.key /\ z.ratchet = m.ratchet
        /\ m.ratchet # NoKey /\ m.preKey \in PreKeysOf(d)
        /\ z.key.root = InitiatorRoot(t, d, m.preKey)
    BY DEF CarriesOf
  <1>2. z.key.root.steps = << >> /\ z.key.label = <<t, d>>
    BY <1>1 DEF InitiatorRoot, Directed
  <1>3. Result(p, local, i) = Opened(IF s # NoSession THEN s ELSE begun, m, k2)
    BY DEF Result
  <1> HIDE DEF k1, k2, begun, m, shown
  <1>4. CASE s = NoSession
    <2> DEFINE w == Advanced(begun, m.ratchet, k2)
    <2>1. DOMAIN w = SessionFields /\ w.remote = m.ratchet /\ Follows(w, z, {})
      <3> HIDE DEF w
      <3> QED
        BY <1>1, <1>2, FreshFollows DEF w, begun
    <2>2. shown = {}
      BY <1>4 DEF Reads, shown
    <2>3. Result(p, local, i) = Tried(w, m)
      BY <1>3, <1>4, OpenedIsTried
    <2> HIDE DEF w
    <2> QED
      BY <1>1, <2>1, <2>2, <2>3 DEF m, shown
  <1>5. CASE s # NoSession
    <2>1. PICK x \in S : s.remote # NoKey /\ x.from = t /\ x.to = d /\ Follows(s, x, shown)
      BY <1>5 DEF Reads, shown
    <2>2. Result(p, local, i) = Opened(s, m, k2) /\ IsSession(d, t, s)
      BY <1>3, <1>5
    <2>3. CASE m.ratchet = s.remote
      <3>1. Opened(s, m, k2) = Tried(s, m)
        BY <2>3, OpenedIsTried DEF Advanced
      <3>2. DOMAIN s = SessionFields
        BY <2>2 DEF IsSession
      <3> QED
        BY <1>1, <2>1, <2>2, <2>3, <3>1, <3>2 DEF m, shown
    <2>4. CASE m.ratchet # s.remote
      <3>1. ~Opened(s, m, k2).ok
        <4> HIDE DEF s
        <4>1. m.key.root.steps = << >>
          BY <1>1, <1>2
        <4> QED
          BY <2>1, <2>2, <2>4, <4>1, OtherChainIsRefused
      <3>2. x.ratchet = s.remote
        BY <2>1 DEF Follows
      <3> QED
        BY <2>1, <2>2, <2>4, <3>1, <3>2 DEF m
    <2> QED
      BY <2>3, <2>4
  <1> QED
    BY <1>4, <1>5

LEMMA TriedIsSession ==
    ASSUME NEW w, DOMAIN w = SessionFields, NEW m, Tried(w, m).ok
    PROVE  DOMAIN Tried(w, m).session = SessionFields
  <1> DEFINE stored == {k \in w.skipped : k.ratchet = m.ratchet /\ k.index = m.index}
             kept == CHOOSE k \in stored : TRUE
             less == [w EXCEPT !.skipped = @ \ {kept}]
             caughtUp == Skipping(w, m.index)
             past == [caughtUp EXCEPT !.receive = NextChain(@)]
  <1>1. DOMAIN less = SessionFields /\ DOMAIN past = SessionFields
    BY DEF Skipping
  <1>2. \/ Tried(w, m) = Decrypted(kept.key, m, less)
        \/ Tried(w, m) = Decrypted(caughtUp.receive, m, past)
        \/ Tried(w, m) = Refused
    BY DEF Tried
  <1> HIDE DEF less, past, kept, caughtUp
  <1> QED
    BY <1>1, <1>2 DEF Decrypted, Accepted, Refused

\* What is opened is shown, and the session goes on with its chain.
LEMMA OpenedIsShown ==
    ASSUME NEW p \in Process, NEW local, NEW i, i.type = "message", NEW S, NEW T,
           NEW d, d = p[1], d \in T, NEW t, t = i.from,
           \A x, y \in S : x.envelope = y.envelope => x = y,
           NEW z \in S, z.to = d, CarriesOf(z, i, T), Directed(z.key, z.from, z.to),
           local.sessions[t] = NoSession \/ IsSession(d, t, local.sessions[t]),
           Reads(t, d, local.sessions[t], local.got, S), Result(p, local, i).ok,
           NEW u, u = Result(p, local, i).session,
           NEW event, event.envelope = i.id
    PROVE  Reads(t, d, u, local.got \union {event}, S)
  <1> DEFINE shown == ShownOf(t, d, local.got, S)
             m == i.body
  <1>1. PICK w : \E x \in S :
            /\ DOMAIN w = SessionFields /\ w.remote = m.ratchet /\ m.ratchet # NoKey
            /\ x.from = t /\ x.to = d /\ Follows(w, x, shown)
            /\ Result(p, local, i) = Tried(w, m)
    BY Reader
  <1>2. PICK x \in S :
            /\ DOMAIN w = SessionFields /\ w.remote = m.ratchet /\ m.ratchet # NoKey
            /\ x.from = t /\ x.to = d /\ Follows(w, x, shown)
            /\ Result(p, local, i) = Tried(w, m)
    BY <1>1
  <1>3. m.index \in Nat /\ m.key = z.key /\ m.index = z.key.index /\ z.envelope = i.id /\ z.from = t
    BY DEF CarriesOf
  <1>4. ShownOf(t, d, local.got \union {event}, S) = shown \union {z}
    BY <1>3 DEF ShownOf
  <1> HIDE DEF m, shown
  <1>5. Follows(u, x, shown \union {z})
    BY <1>2, <1>3, TriedFollows
  <1>6. u.remote # NoKey
    <2>1. u.remote = x.ratchet /\ w.remote = x.ratchet
      BY <1>2, <1>5 DEF Follows
    <2> QED
      BY <1>2, <2>1
  <1>7. u # NoSession
    <2>1. DOMAIN u = SessionFields
      BY <1>2, TriedIsSession
    <2>2. "send" \in DOMAIN u /\ "send" \notin DOMAIN NoSession
      BY <2>1 DEF SessionFields, NoSession
    <2> QED
      BY <2>2
  <1> QED
    BY <1>2, <1>4, <1>5, <1>6, <1>7 DEF Reads

----------------------------------------------------------------------------
(* What others do *)

Adds(S, S2) == S \subseteq S2 /\ \A x \in S2 \ S : \A y \in S : x.envelope # y.envelope

\* More is sealed, and more devices write.
LEMMA RelatesStay ==
    ASSUME NEW d, NEW sessions, NEW sent, NEW got, NEW S, NEW R, Books(d, sessions, sent, S, R),
           NEW T, Relates(d, sessions, sent, got, S, T),
           NEW S2, Adds(S, S2), NEW T2, T2 \subseteq T
    PROVE  Relates(d, sessions, sent, got, S2, T2)
  <1>1. \A x \in S2 : KnownIn(sent, x.envelope) => x \in S
    <2> SUFFICES ASSUME NEW x \in S2, KnownIn(sent, x.envelope)
                 PROVE  x \in S
      OBVIOUS
    <2>1. PICK r \in sent : r.envelope = x.envelope
      BY DEF KnownIn
    <2>2. PICK y \in S : y.envelope = r.envelope
      BY DEF Books, IsRecord
    <2> QED
      BY <2>1, <2>2 DEF Adds
  <1>2. \A t : KnownTo(d, t, sent, S2) = KnownTo(d, t, sent, S)
    BY <1>1 DEF KnownTo, Adds
  <1>3. \A t \in T2 : Writes(d, t, sessions[t], sent, S2)
    BY <1>2 DEF Writes, Relates
  <1>4. \A t : ShownOf(t, d, got, S2) = ShownOf(t, d, got, S)
    BY DEF ShownOf, Adds, Relates
  <1>5. d \in T2 => \A t \in Device : Reads(t, d, sessions[t], got, S2)
    BY <1>4 DEF Reads, Relates, Adds
  <1>6. \A g \in got : \E x \in S2 : x.envelope = g.envelope
    BY DEF Relates, Adds
  <1> QED
    BY <1>3, <1>5, <1>6 DEF Relates

LEMMA CarriesStays ==
    ASSUME NEW d, NEW i, NEW S, NEW T, Carries(d, i, S, T), NEW S2, S \subseteq S2,
           NEW T2, T2 \subseteq T
    PROVE  Carries(d, i, S2, T2)
  BY DEF Carries, CarriesOf

LEMMA CommandRelates ==
    ASSUME NEW d, NEW c, NEW S, NEW R, NEW numbers, CommandGood(d, c, S, R, numbers),
           NEW T, RelatesCommand(d, c, S, T),
           NEW S2, Adds(S, S2), NEW T2, T2 \subseteq T
    PROVE  RelatesCommand(d, c, S2, T2)
  <1>1. c.op = "send" => Relates(d, c.work.sessions, c.work.sent \union c.done, c.work.got, S2, T2)
    BY RelatesStay DEF CommandGood, SendGood, RelatesCommand
  <1>2. c.op = "sync" => Relates(d, c.work.sessions, c.work.sent, c.work.got, S2, T2)
    BY RelatesStay DEF CommandGood, SyncGood, IsLocal, RelatesCommand
  <1>3. c.op = "sync" => \A i \in Entries(c.todo) : Carries(d, i, S2, T2)
    BY CarriesStays DEF RelatesCommand, Adds
  <1> QED
    BY <1>1, <1>2, <1>3 DEF RelatesCommand

\* A device that starts, or was restored.
LEMMA RelatesBegin ==
    ASSUME NEW d, NEW S, NEW T, T \subseteq Device, NEW local,
           local.sessions = [t \in Device |-> NoSession], local.sent = {}, local.got = {}
    PROVE  Relates(d, local.sessions, local.sent, local.got, S, T)
  <1>1. \A t : KnownTo(d, t, {}, S) = {} /\ ShownOf(t, d, {}, S) = {}
    BY DEF KnownTo, KnownIn, ShownOf
  <1>2. \A t \in Device : Writes(d, t, NoSession, {}, S) /\ Reads(t, d, NoSession, {}, S)
    BY <1>1 DEF Writes, Reads
  <1> QED
    BY <1>2 DEF Relates

\* A step of one process.
LEMMA ChainStep ==
    ASSUME IInv, BooksInv, ChainInv, NEW p \in Process, NEW c, RunningSet(p, c),
           Adds(sealed, sealed'), Silent' \subseteq Silent,
           claimed' \in [Device -> Nat],
           RelatesCommand(p[1], c, sealed', Silent'),
           \A d \in Device :
              \/ disk'[d] = disk[d]
              \/ Relates(d, disk'[d].sessions, disk'[d].sent, disk'[d].got, sealed', Silent'),
           \A d \in Device : \A i \in Entries(queue'[d]) :
              i \in Entries(queue[d]) \/ Carries(d, i, sealed', Silent')
    PROVE  ChainInv'
  <1>1. command'[p] = c /\ \A q \in Process : q # p => command'[q] = command[q]
    BY DEF IInv, RunningSet
  <1>2. ASSUME NEW q \in Process
        PROVE  RelatesCommand(q[1], command'[q], sealed', Silent')
    <2>1. CASE q = p
      BY <1>1, <2>1
    <2>2. CASE q # p
      <3>1. /\ RelatesCommand(q[1], command[q], sealed, Silent)
            /\ CommandGood(q[1], command[q], sealed, readBy, texts)
        BY DEF ChainInv, BooksInv
      <3>2. RelatesCommand(q[1], command[q], sealed', Silent')
        BY <3>1, CommandRelates
      <3> QED
        BY <1>1, <2>2, <3>2
    <2> QED
      BY <2>1, <2>2
  <1>3. ASSUME NEW d \in Device
        PROVE  Relates(d, disk'[d].sessions, disk'[d].sent, disk'[d].got, sealed', Silent')
    <2>1. /\ Relates(d, disk[d].sessions, disk[d].sent, disk[d].got, sealed, Silent)
          /\ Books(d, disk[d].sessions, disk[d].sent, sealed, readBy)
      BY DEF ChainInv, BooksInv, IsLocal
    <2>2. Relates(d, disk[d].sessions, disk[d].sent, disk[d].got, sealed', Silent')
      BY <2>1, RelatesStay
    <2> QED
      BY <2>2
  <1>4. \A d \in Device : \A i \in Entries(queue'[d]) : Carries(d, i, sealed', Silent')
    <2>1. \A d \in Device : \A i \in Entries(queue[d]) : Carries(d, i, sealed', Silent')
      BY CarriesStays DEF ChainInv, Adds
    <2> QED
      BY <2>1
  <1> QED
    BY <1>2, <1>3, <1>4 DEF ChainInv

\* A step that seals nothing.
LEMMA NothingAdded ==
    ASSUME IInv, BooksInv, ChainInv, NEW p \in Process, NEW c, RunningSet(p, c),
           UNCHANGED <<sealed, texts, queue>>, claimed' \in [Device -> Nat],
           RelatesCommand(p[1], c, sealed, Silent),
           \/ UNCHANGED disk
           \/ \E local : /\ disk' = [disk EXCEPT ![p[1]] = local]
                         /\ Relates(p[1], local.sessions, local.sent, local.got, sealed, Silent)
    PROVE  ChainInv'
  <1>1. Adds(sealed, sealed') /\ Silent' = Silent /\ sealed' = sealed
    BY DEF Adds, Silent
  <1>2. ASSUME NEW d \in Device
        PROVE  \/ disk'[d] = disk[d]
               \/ Relates(d, disk'[d].sessions, disk'[d].sent, disk'[d].got, sealed', Silent')
    BY <1>1 DEF BooksInv
  <1>3. RelatesCommand(p[1], c, sealed', Silent')
    BY <1>1
  <1>4. \A d \in Device : queue'[d] = queue[d]
    OBVIOUS
  <1> HIDE DEF Silent
  <1> QED
    BY <1>1, <1>2, <1>3, <1>4, ChainStep

----------------------------------------------------------------------------
(* Sends *)

\* Relates depends on which messages are known, not on their records.
LEMMA RelatesSame ==
    ASSUME NEW d, NEW sessions, NEW sent, NEW got, NEW S, NEW T,
           Relates(d, sessions, sent, got, S, T), NEW sent2,
           \A x \in S : KnownIn(sent2, x.envelope) <=> KnownIn(sent, x.envelope)
    PROVE  Relates(d, sessions, sent2, got, S, T)
  <1>1. \A t : KnownTo(d, t, sent2, S) = KnownTo(d, t, sent, S)
    BY DEF KnownTo
  <1> QED
    BY <1>1 DEF Relates, Writes

\* A device that runs a send is not silent.
LEMMA SendersSpeak ==
    ASSUME BooksInv, NEW p \in Process, command[p].op = "send"
    PROVE  /\ p[1] \in Device /\ p[1] \notin Silent
           /\ SendGood(p[1], command[p], sealed, readBy, texts)
  <1>1. p[1] \in Device /\ SendGood(p[1], command[p], sealed, readBy, texts)
    BY ProcessOfDevice DEF BooksInv, CommandGood
  <1>2. PICK m \in 1 .. texts[p[1]] : TRUE
    BY <1>1 DEF SendGood
  <1> QED
    BY <1>1, <1>2 DEF Silent, BooksInv

LEMMA LookupKeepsChains ==
    ASSUME IInv, BooksInv, ChainInv, NEW p \in Process, NEW a \in Account, SendLookup(p, a)
    PROVE  ChainInv'
  <1> DEFINE d == p[1]
             targets == Filtered(Devices[a], {i \in DOMAIN Devices[a] :
                                              Devices[a][i] \notin revoked})
             c == [op |-> "send", work |-> disk[d], targets |-> targets,
                   text |-> <<d, texts[d] + 1>>, done |-> {}]
  <1>1. /\ RunningSet(p, c) /\ d \in Device
        /\ texts' = [texts EXCEPT ![d] = @ + 1]
        /\ UNCHANGED <<disk, queue, claimed, sealed>>
    BY ProcessOfDevice DEF SendLookup
  <1>2. c.op = "send" /\ c.work = disk[d] /\ c.done = {}
    OBVIOUS
  <1> HIDE DEF c
  <1>3. Silent' \subseteq Silent
    BY <1>1 DEF Silent, BooksInv
  <1>4. Adds(sealed, sealed') /\ sealed' = sealed
    BY <1>1 DEF Adds
  <1>5. RelatesCommand(d, c, sealed', Silent')
    <2>1. /\ Relates(d, disk[d].sessions, disk[d].sent, disk[d].got, sealed, Silent)
          /\ Books(d, disk[d].sessions, disk[d].sent, sealed, readBy)
      BY <1>1 DEF ChainInv, BooksInv, IsLocal
    <2>2. Relates(d, disk[d].sessions, disk[d].sent, disk[d].got, sealed', Silent')
      BY <1>3, <1>4, <2>1, RelatesStay
    <2>3. disk[d].sent \union {} = disk[d].sent
      OBVIOUS
    <2> QED
      BY <1>2, <2>2, <2>3 DEF RelatesCommand
  <1>6. claimed' \in [Device -> Nat]
    BY <1>1 DEF ChainInv
  <1>7. \A e \in Device : disk'[e] = disk[e] /\ queue'[e] = queue[e]
    BY <1>1
  <1> QED
    BY <1>1, <1>3, <1>4, <1>5, <1>6, <1>7, ChainStep

\* The sending side of a device that writes changes its session with another.
LEMMA RelatesWithSession ==
    ASSUME NEW d, NEW sessions, DOMAIN sessions = Device, NEW sent, NEW got, NEW S,
           NEW T, T \subseteq Device, d \notin T,
           NEW sent2, NEW S2, NEW t \in Device, NEW u,
           \A e \in T \ {t} : Writes(d, e, sessions[e], sent2, S2),
           t \in T => Writes(d, t, u, sent2, S2),
           \A g \in got : \E x \in S : x.envelope = g.envelope, S \subseteq S2
    PROVE  Relates(d, [sessions EXCEPT ![t] = u], sent2, got, S2, T)
  <1> DEFINE more == [sessions EXCEPT ![t] = u]
  <1>1. more[t] = u /\ \A e \in Device : e # t => more[e] = sessions[e]
    OBVIOUS
  <1> HIDE DEF more
  <1>2. \A e \in T : Writes(d, e, more[e], sent2, S2)
    BY <1>1
  <1>3. Relates(d, more, sent2, got, S2, T)
    BY <1>2 DEF Relates
  <1> QED
    BY <1>3 DEF more

\* A session that begins with the prekeys the relay has claimed.
LEMMA WritesBegin ==
    ASSUME NEW d, NEW t, NEW sent, NEW S, NEW preKey \in PreKeysOf(t), NEW n,
           KnownTo(d, t, sent, S) = {}
    PROVE  Writes(d, t, NewInitiator(d, t, preKey, RatchetKey(d, n)), sent, S)
  <1> DEFINE u == NewInitiator(d, t, preKey, RatchetKey(d, n))
  <1>1. /\ u.root = InitiatorRoot(d, t, preKey) /\ u.preKey = preKey
        /\ u.own = RatchetKey(d, n) /\ u.send.index = 0
    BY DEF NewInitiator, NewSession, InitialChain
  <1>2. RatchetKey(d, n) # NoKey
    BY DEF RatchetKey, NoKey
  <1>3. 0 .. 0 - 1 = {}
    OBVIOUS
  <1> HIDE DEF u
  <1>4. Writes(d, t, u, sent, S)
    BY <1>1, <1>2, <1>3 DEF Writes
  <1> QED
    BY <1>4 DEF u

LEMMA ClaimKeepsChains ==
    ASSUME IInv, BooksInv, ChainInv, NEW p \in Process, SendClaim(p)
    PROVE  ChainInv'
  <1> DEFINE d == p[1]
             t == Target(p)
             work == command[p].work
             all == work.sent \union command[p].done
             preKey == IF claimed[t] < PreKeyCount
                       THEN OneTimePreKey(t, claimed[t] + 1) ELSE NoKey
             u == NewInitiator(d, t, preKey, SendKey(p, t))
             next == WithSession(work, t, u)
             c == [command[p] EXCEPT
                     !.work = WithSession(@, t, NewInitiator(d, t, preKey, SendKey(p, t)))]
  <1>1. /\ RunningSet(p, c) /\ command[p].op = "send" /\ command[p].targets # << >>
        /\ work.sessions[t] = NoSession
        /\ claimed' = [claimed EXCEPT ![t] = IF @ < PreKeyCount THEN @ + 1 ELSE @]
        /\ UNCHANGED <<disk, queue, sealed, texts>>
    BY DEF SendClaim, Sending
  <1>2. /\ d \in Device /\ d \notin Silent /\ DOMAIN command[p] = SendFields
        /\ SendGood(d, command[p], sealed, readBy, texts)
    BY <1>1, SendersSpeak DEF IInv
  <1>3. t \in Device
    BY <1>1, <1>2, HeadAndTail DEF SendGood, Target
  <1>4. c.op = "send" /\ c.work = next /\ c.done = command[p].done
    BY <1>1, <1>2 DEF SendFields
  <1>5. /\ next.sessions = [work.sessions EXCEPT ![t] = u]
        /\ next.sent = work.sent /\ next.got = work.got
    BY <1>2 DEF WithSession, SendGood, LocalFields
  <1>6. preKey \in PreKeysOf(t) /\ claimed' \in [Device -> Nat]
    <2>1. claimed[t] \in Nat /\ PreKeyCount \in Nat
      BY <1>3, DeliveryAssumption DEF ChainInv
    <2> QED
      BY <1>1, <1>3, <2>1 DEF PreKeysOf, ChainInv
  <1> HIDE DEF c, next, preKey
  <1>7. Relates(d, work.sessions, all, work.got, sealed, Silent)
    BY <1>1 DEF ChainInv, RelatesCommand
  <1>8. t \in Silent => Writes(d, t, u, all, sealed)
    <2> SUFFICES ASSUME t \in Silent
                 PROVE  Writes(d, t, u, all, sealed)
      OBVIOUS
    <2>1. Writes(d, t, NoSession, all, sealed)
      BY <1>1, <1>7 DEF Relates
    <2>2. KnownTo(d, t, all, sealed) = {}
      BY <2>1 DEF Writes
    <2> HIDE DEF t, all
    <2> QED
      BY <1>6, <2>2, WritesBegin DEF SendKey
  <1> HIDE DEF u, t
  <1>9. Relates(d, next.sessions, all, next.got, sealed, Silent)
    <2>1. DOMAIN work.sessions = Device
      BY <1>2 DEF SendGood, Books
    <2>2. /\ \A e \in Silent : Writes(d, e, work.sessions[e], all, sealed)
          /\ \A g \in work.got : \E x \in sealed : x.envelope = g.envelope
      BY <1>7 DEF Relates
    <2>3. Silent \subseteq Device
      BY DEF Silent
    <2> HIDE DEF all, work
    <2>4. Relates(d, [work.sessions EXCEPT ![t] = u], all, work.got, sealed, Silent)
      BY <1>2, <1>3, <1>8, <2>1, <2>2, <2>3, RelatesWithSession
    <2> QED
      BY <1>5, <2>4
  <1>10. RelatesCommand(d, c, sealed, Silent)
    BY <1>4, <1>5, <1>9 DEF RelatesCommand
  <1> QED
    BY <1>1, <1>6, <1>10, NothingAdded

\* The message that is sealed is the next of the chain.
LEMMA WritesSeal ==
    ASSUME NEW d, NEW t, NEW s, IsSession(d, t, s), NEW sent, NEW S,
           Writes(d, t, s, sent, S), s # NoSession,
           \A x \in KnownTo(d, t, sent, S) : Behind(x.key, s.send),
           NEW number \in Nat, \A x \in S : x.from = d => x.envelope[2] < number,
           NEW z, z.envelope = <<d, number>>, z.from = d, z.to = t, z.ratchet = s.own,
           z.key = s.send, \A x \in S : x.envelope # z.envelope,
           NEW r, r.envelope = z.envelope
    PROVE  Writes(d, t, AfterSeal(s), sent \union {r}, S \union {z})
  <1> DEFINE u == AfterSeal(s)
             known == KnownTo(d, t, sent, S)
             last == s.send.index
             both == known \union {z}
  <1>1. KnownTo(d, t, sent \union {r}, S \union {z}) = both
    BY DEF KnownTo, KnownIn
  <1>2. /\ DOMAIN s = SessionFields /\ last \in Nat
        /\ s.send = ChainRec(s.send.root, s.send.label, last)
        /\ Depth(s.send.root) \in Nat
    BY DepthIsNat DEF IsSession, IsChain
  <1>3. u.send = ChainRec(s.send.root, s.send.label, last + 1)
    BY AfterSealEffect
  <1>4. u.root = s.root /\ u.preKey = s.preKey /\ u.own = s.own
    BY <1>2 DEF AfterSeal, SessionFields
  <1> HIDE DEF u, last
  <1>5. /\ u.send.root = s.send.root /\ u.send.label = s.send.label
        /\ u.send.index = last + 1
    BY <1>3 DEF ChainRec
  <1>6. u # NoSession
    <2>1. IsSession(d, t, u)
      BY AfterSealEffect DEF u
    <2> QED
      BY <2>1, SessionIsOne
  <1>7. \A x \in known : x.key.index \in 0 .. last - 1
    <2> SUFFICES ASSUME NEW x \in known
                 PROVE  x.key.index \in 0 .. last - 1
      OBVIOUS
    <2>1. x.key = ChainRec(s.send.root, s.send.label, x.key.index)
      BY DEF Writes
    <2>2. x.key.root = s.send.root
      BY <2>1 DEF ChainRec
    <2>3. Behind(x.key, s.send)
      OBVIOUS
    <2> QED
      BY <1>2, <2>2, <2>3 DEF Behind, last
  <1>8. z.key.index = last
    BY DEF last
  <1>9. \A n \in 0 .. (last + 1) - 1 : \E x \in both : x.key.index = n
    <2> SUFFICES ASSUME NEW n \in 0 .. (last + 1) - 1
                 PROVE  \E x \in both : x.key.index = n
      OBVIOUS
    <2>1. CASE n = last
      BY <1>8, <2>1
    <2>2. CASE n # last
      <3>1. n \in 0 .. last - 1
        BY <1>2, <2>2
      <3> QED
        BY <3>1 DEF Writes, last
    <2> QED
      BY <2>1, <2>2
  <1>10. ASSUME NEW x \in both
         PROVE  /\ x.ratchet = u.own
                /\ x.key = ChainRec(u.send.root, u.send.label, x.key.index)
    BY <1>2, <1>4, <1>5, <1>8 DEF Writes
  <1>11. ASSUME NEW x \in both, NEW y \in both, x.key.index < y.key.index
         PROVE  x.envelope[2] < y.envelope[2]
    <2>1. CASE x \in known /\ y \in known
      BY <1>11, <2>1 DEF Writes
    <2>2. CASE x \in known /\ y = z
      BY <2>2 DEF KnownTo
    <2>3. CASE x = z
      BY <1>2, <1>7, <1>8, <1>11, <2>3
    <2> QED
      BY <2>1, <2>2, <2>3
  <1>12. /\ u.root = InitiatorRoot(d, t, u.preKey) /\ u.preKey \in PreKeysOf(t) /\ u.own # NoKey
    BY <1>4 DEF Writes
  <1> HIDE DEF both, known
  <1>13. Writes(d, t, u, sent \union {r}, S \union {z})
    BY <1>1, <1>5, <1>6, <1>9, <1>10, <1>11, <1>12 DEF Writes
  <1> QED
    BY <1>13 DEF u

\* It is no message of another chain.
LEMMA WritesOther ==
    ASSUME NEW d, NEW t, NEW s, NEW sent, NEW S, Writes(d, t, s, sent, S),
           NEW z, z.to # t, NEW r, r.envelope = z.envelope,
           \A x \in S : x.envelope # z.envelope
    PROVE  Writes(d, t, s, sent \union {r}, S \union {z})
  <1>1. KnownTo(d, t, sent \union {r}, S \union {z}) = KnownTo(d, t, sent, S)
    BY DEF KnownTo, KnownIn
  <1> QED
    BY <1>1 DEF Writes

LEMMA EnqueueKeepsChains ==
    ASSUME IInv, BooksInv, ChainInv, NEW p \in Process, SendEnqueue(p)
    PROVE  ChainInv'
  <1> DEFINE d == p[1]
             t == Target(p)
             work == command[p].work
             all == work.sent \union command[p].done
             s == work.sessions[t]
             u == AfterSeal(s)
             number == envelopes[d] + 1
             id == <<d, number>>
             body == Sealed(s, command[p].text)
             envelope == MessageEnvelope(d, t, command[p].text, body)
             z == [envelope |-> envelope.id, from |-> d, to |-> t, text |-> body.text,
                   ratchet |-> body.ratchet, key |-> body.key]
             r == [text |-> command[p].text, device |-> t, envelope |-> envelope.id,
                   delivered |-> FALSE]
             next == WithSession(work, t, AfterSeal(s))
             c == [command[p] EXCEPT
                      !.work = WithSession(@, t, AfterSeal(s)),
                      !.targets = Tail(@),
                      !.done = @ \union {[text |-> command[p].text, device |-> t,
                                          envelope |-> envelope.id, delivered |-> FALSE]}]
  <1>1. /\ RunningSet(p, c) /\ command[p].op = "send" /\ command[p].targets # << >>
        /\ s # NoSession
        /\ sealed' = sealed \union {z} /\ Enqueue(envelope)
        /\ UNCHANGED <<disk, claimed, texts>>
    BY DEF SendEnqueue, Sending
  <1>2. /\ envelope.id = id /\ envelope.from = d /\ envelope.to = t
        /\ envelope.type = "message" /\ envelope.body = body
    BY DEF MessageEnvelope
  <1>3. /\ d \in Device /\ d \notin Silent /\ DOMAIN command[p] = SendFields
        /\ SendGood(d, command[p], sealed, readBy, texts)
    BY <1>1, SendersSpeak DEF IInv
  <1>4. t \in Device
    BY <1>1, <1>3, HeadAndTail DEF SendGood, Target
  <1>5. c.op = "send" /\ c.work = next /\ c.done = command[p].done \union {r}
    BY <1>1, <1>3 DEF SendFields
  <1>6. /\ next.sessions = [work.sessions EXCEPT ![t] = u]
        /\ next.sent = work.sent /\ next.got = work.got
    BY <1>3 DEF WithSession, SendGood, LocalFields
  <1>7. /\ body.ratchet = s.own /\ body.index = s.send.index /\ body.preKey = s.preKey
        /\ body.key = s.send
    BY DEF Sealed
  <1> HIDE DEF body
  <1>8. /\ z.envelope = id /\ z.from = d /\ z.to = t /\ z.ratchet = s.own /\ z.key = s.send
        /\ r.envelope = id
    BY <1>2, <1>7
  <1> HIDE DEF c, next, envelope, z, r, t
  <1>9. number \in Nat /\ \A x \in sealed : x.from = d => x.envelope[2] < number
    <2>1. envelopes[d] \in Nat
      BY <1>3 DEF BooksInv
    <2>2. ASSUME NEW x \in sealed, x.from = d
          PROVE  x.envelope[2] < number
      <3>1. PICK n \in 1 .. envelopes[x.from] : x.envelope = <<x.from, n>>
        BY DEF BooksInv, SealedGood
      <3> QED
        BY <2>1, <2>2, <3>1
    <2> QED
      BY <2>1, <2>2
  <1>10. \A x \in sealed : x.envelope # id
    <2> SUFFICES ASSUME NEW x \in sealed, x.envelope = id
                 PROVE  FALSE
      OBVIOUS
    <2>1. PICK n \in 1 .. envelopes[x.from] : x.envelope = <<x.from, n>>
      BY DEF BooksInv, SealedGood
    <2>2. x.from = d /\ x.envelope[2] = number
      BY <2>1
    <2> QED
      BY <1>9, <2>2
  <1>11. Adds(sealed, sealed')
    BY <1>1, <1>8, <1>10 DEF Adds
  <1>12. /\ Relates(d, work.sessions, all, work.got, sealed, Silent)
         /\ Books(d, work.sessions, all, sealed, readBy)
    BY <1>1, <1>3 DEF ChainInv, RelatesCommand, SendGood
  <1>13. IsSession(d, t, s) /\ DOMAIN work.sessions = Device
    BY <1>1, <1>4, <1>12 DEF Books
  <1>14. t \in Silent => Writes(d, t, u, all \union {r}, sealed')
    <2> SUFFICES ASSUME t \in Silent
                 PROVE  Writes(d, t, u, all \union {r}, sealed')
      OBVIOUS
    <2>1. Writes(d, t, s, all, sealed)
      BY <1>12 DEF Relates
    <2>2. \A x \in KnownTo(d, t, all, sealed) : Behind(x.key, s.send)
      BY <1>12 DEF KnownTo, Books
    <2> HIDE DEF all, s, number
    <2> QED
      BY <1>1, <1>8, <1>9, <1>10, <1>13, <2>1, <2>2, WritesSeal
  <1>15. \A e \in Silent \ {t} : Writes(d, e, work.sessions[e], all \union {r}, sealed')
    <2> HIDE DEF all
    <2> QED
      BY <1>1, <1>8, <1>10, <1>12, WritesOther DEF Relates
  <1>16. Relates(d, next.sessions, all \union {r}, next.got, sealed', Silent)
    <2>1. /\ \A g \in work.got : \E x \in sealed : x.envelope = g.envelope
          /\ Silent \subseteq Device /\ sealed \subseteq sealed'
      BY <1>1, <1>12 DEF Relates, Silent
    <2> HIDE DEF all, u, work
    <2>2. Relates(d, [work.sessions EXCEPT ![t] = u], all \union {r}, work.got, sealed', Silent)
      BY <1>3, <1>4, <1>13, <1>14, <1>15, <2>1, RelatesWithSession
    <2> QED
      BY <1>6, <2>2 DEF work
  <1>17. RelatesCommand(d, c, sealed', Silent)
    <2>1. all \union {r} = next.sent \union c.done
      BY <1>5, <1>6
    <2> HIDE DEF all
    <2> QED
      BY <1>5, <1>16, <2>1 DEF RelatesCommand
  <1>18. Carries(t, envelope, sealed', Silent)
    <2>1. t \in Silent => /\ s.send.root = InitiatorRoot(d, t, s.preKey)
                          /\ s.preKey \in PreKeysOf(t) /\ s.own # NoKey
      BY <1>1, <1>12, <1>13 DEF Relates, Writes, IsSession
    <2>2. s.send.index \in Nat
      BY <1>13 DEF IsSession, IsChain
    <2>3. CarriesOf(z, envelope, Silent)
      BY <1>2, <1>7, <1>8, <2>1, <2>2 DEF CarriesOf
    <2> QED
      BY <1>1, <1>8, <2>3 DEF Carries
  <1>19. /\ Silent' = Silent /\ claimed' \in [Device -> Nat]
    BY <1>1 DEF Silent, ChainInv
  <1>20. \A e \in Device : \A i \in Entries(queue'[e]) :
            i \in Entries(queue[e]) \/ Carries(e, i, sealed', Silent')
    <2>1. queue' = [queue EXCEPT ![t] = Append(@, envelope)]
      BY <1>1, <1>2 DEF Enqueue
    <2>2. DOMAIN queue = Device /\ IsSeq(queue[t])
      BY <1>4 DEF BooksInv, AreItems
    <2>3. /\ queue'[t] = Append(queue[t], envelope)
          /\ \A e \in Device : e # t => queue'[e] = queue[e]
      BY <1>4, <2>1, <2>2
    <2>4. Entries(queue'[t]) = Entries(queue[t]) \union {envelope}
      BY <2>2, <2>3, AppendIsSeq
    <2> QED
      BY <1>18, <1>19, <2>3, <2>4
  <1>21. RelatesCommand(d, c, sealed', Silent')
    BY <1>17, <1>19
  <1>22. \A e \in Device : disk'[e] = disk[e]
    BY <1>1
  <1> HIDE DEF Silent
  <1> QED
    BY <1>1, <1>11, <1>19, <1>20, <1>21, <1>22, ChainStep

----------------------------------------------------------------------------
(* Syncs *)

\* A command ends, and may have saved.
LEMMA SavesKeepChains ==
    ASSUME IInv, BooksInv, ChainInv, NEW p \in Process, SendSave(p) \/ SyncSave(p)
    PROVE  ChainInv'
  <1> DEFINE d == p[1]
             work == command[p].work
             local == ToSave(p)
  <1>1. /\ RunningSet(p, Idle) /\ disk' = [disk EXCEPT ![d] = local]
        /\ command[p].op = "send" \/ command[p].op = "sync"
        /\ UNCHANGED <<queue, claimed, texts, sealed>>
    BY DEF SendSave, SyncSave, Save, Sending
  <1>2. Relates(d, local.sessions, local.sent, local.got, sealed, Silent)
    <2>1. CASE command[p].op = "send"
      <3>1. DOMAIN work = LocalFields
        BY <2>1 DEF BooksInv, CommandGood, SendGood
      <3>2. /\ local.sessions = work.sessions /\ local.got = work.got
            /\ local.sent = work.sent \union command[p].done
        BY <2>1, <3>1 DEF ToSave, LocalFields
      <3> QED
        BY <2>1, <3>2 DEF ChainInv, RelatesCommand
    <2>2. CASE command[p].op = "sync"
      <3>1. local = work
        BY <2>2 DEF ToSave
      <3> QED
        BY <2>2, <3>1 DEF ChainInv, RelatesCommand
    <2> QED
      BY <1>1, <2>1, <2>2
  <1> HIDE DEF local
  <1>3. RelatesCommand(d, Idle, sealed, Silent) /\ claimed' \in [Device -> Nat]
    BY <1>1 DEF RelatesCommand, Idle, ChainInv
  <1> QED
    BY <1>1, <1>2, <1>3, NothingAdded

\* A sync loads the file, passes an item over, or sends or reads a receipt.
LEMMA SyncsKeepChains ==
    ASSUME IInv, BooksInv, ChainInv, NEW p \in Process,
           SyncPull(p) \/ SyncSkip(p) \/ SyncOpenAck(p) \/ SyncEmit(p) \/ SyncAck(p)
    PROVE  ChainInv'
  <1> DEFINE d == p[1]
             work == command[p].work
             todo == command[p].todo
  <1>1. ASSUME UNCHANGED <<disk, claimed, texts, sealed>>,
               NEW c, RunningSet(p, c), RelatesCommand(d, c, sealed, Silent),
               \A e \in Device : \A i \in Entries(queue'[e]) :
                  i \in Entries(queue[e]) \/ i.type = "ack"
        PROVE  ChainInv'
    <2>1. /\ Adds(sealed, sealed') /\ Silent' = Silent /\ sealed' = sealed
          /\ claimed' \in [Device -> Nat]
      BY <1>1 DEF Adds, Silent, ChainInv
    <2>2. \A e \in Device : \A i \in Entries(queue'[e]) :
             i \in Entries(queue[e]) \/ Carries(e, i, sealed', Silent')
      BY <1>1 DEF Carries
    <2>3. RelatesCommand(d, c, sealed', Silent') /\ \A e \in Device : disk'[e] = disk[e]
      BY <1>1, <2>1
    <2> HIDE DEF Silent
    <2> QED
      BY <1>1, <2>1, <2>2, <2>3, ChainStep
  <1>2. ASSUME command[p].op = "sync", todo # << >>
        PROVE  /\ DOMAIN command[p] = SyncFields /\ SyncGood(d, command[p], sealed, readBy)
               /\ Relates(d, work.sessions, work.sent, work.got, sealed, Silent)
               /\ \A i \in Entries(todo) : Carries(d, i, sealed, Silent)
    BY <1>2, FirstItem DEF ChainInv, RelatesCommand
  <1>3. CASE SyncPull(p)
    <2> DEFINE c == [op |-> "sync", work |-> disk[d], stage |-> "open",
                     todo |-> IF d \in revoked THEN << >> ELSE queue[d]]
    <2>1. /\ RunningSet(p, c) /\ d \in Device
          /\ UNCHANGED <<disk, claimed, texts, sealed>>
          /\ \A e \in Device : queue'[e] = queue[e] \/ queue'[e] = << >>
      BY <1>3, ProcessOfDevice DEF SyncPull, BooksInv
    <2>2. \A i \in Entries(c.todo) : Carries(d, i, sealed, Silent)
      BY <2>1, EmptyIsSeq DEF ChainInv
    <2>3. c.op = "sync" /\ c.work = disk[d]
      OBVIOUS
    <2> HIDE DEF c
    <2>4. RelatesCommand(d, c, sealed, Silent)
      BY <2>1, <2>2, <2>3 DEF RelatesCommand, ChainInv
    <2>5. \A e \in Device : \A i \in Entries(queue'[e]) : i \in Entries(queue[e])
      BY <2>1, EmptyIsSeq
    <2> QED
      BY <1>1, <2>1, <2>4, <2>5
  <1>4. CASE SyncSkip(p)
    <2> DEFINE c == [command[p] EXCEPT !.stage = "ack"]
    <2>1. /\ RunningSet(p, c) /\ command[p].op = "sync" /\ todo # << >>
          /\ UNCHANGED <<disk, queue, claimed, texts, sealed>>
      BY <1>4 DEF SyncSkip, Syncing
    <2>2. c.op = "sync" /\ c.work = work /\ c.todo = todo
      BY <1>2, <2>1 DEF SyncFields
    <2> HIDE DEF c
    <2>3. RelatesCommand(d, c, sealed, Silent)
      BY <1>2, <2>1, <2>2 DEF RelatesCommand
    <2> QED
      BY <1>1, <2>1, <2>3
  <1>5. CASE SyncOpenAck(p)
    <2> DEFINE applied == Applied(work, Item(p))
               c == [command[p] EXCEPT !.work = Applied(@, Item(p)), !.stage = "ack"]
    <2>1. /\ RunningSet(p, c) /\ command[p].op = "sync" /\ todo # << >>
          /\ UNCHANGED <<disk, queue, claimed, texts, sealed>>
      BY <1>5 DEF SyncOpenAck, Syncing
    <2>2. c.op = "sync" /\ c.work = applied /\ c.todo = todo
      BY <1>2, <2>1 DEF SyncFields
    <2>3. DOMAIN work = LocalFields /\ \A r \in work.sent : IsRecord(d, r, sealed, readBy)
      BY <1>2, <2>1 DEF SyncGood, IsLocal, Books
    <2> DEFINE Marked(r) == IF /\ r.text = Item(p).text
                               /\ r.envelope = Item(p).ackFor \/ r.device = Item(p).from
                            THEN [r EXCEPT !.delivered = TRUE] ELSE r
    <2>4. /\ applied.sessions = work.sessions /\ applied.got = work.got
          /\ applied.sent = {Marked(r) : r \in work.sent}
      BY <2>3 DEF Applied, LocalFields
    <2>5. \A r \in work.sent : Marked(r).envelope = r.envelope
      BY <2>3 DEF IsRecord, RecordRec
    <2> HIDE DEF c, applied, Marked
    <2>6. \A x \in sealed : KnownIn(applied.sent, x.envelope) <=> KnownIn(work.sent, x.envelope)
      BY <2>4, <2>5 DEF KnownIn
    <2>7. Relates(d, applied.sessions, applied.sent, applied.got, sealed, Silent)
      BY <1>2, <2>1, <2>4, <2>6, RelatesSame
    <2>8. RelatesCommand(d, c, sealed, Silent)
      BY <1>2, <2>1, <2>2, <2>7 DEF RelatesCommand
    <2> QED
      BY <1>1, <2>1, <2>8
  <1>6. CASE SyncEmit(p)
    <2> DEFINE receipt == ReceiptEnvelope(d, Item(p))
               c == [command[p] EXCEPT !.stage = "ack"]
    <2>1. /\ RunningSet(p, c) /\ command[p].op = "sync" /\ todo # << >>
          /\ Enqueue(receipt)
          /\ UNCHANGED <<disk, claimed, texts, sealed>>
      BY <1>6 DEF SyncEmit, Syncing
    <2>2. c.op = "sync" /\ c.work = work /\ c.todo = todo
      BY <1>2, <2>1 DEF SyncFields
    <2>3. receipt.to = Item(p).from /\ receipt.type = "ack"
      BY DEF ReceiptEnvelope
    <2>4. Item(p).from \in Device
      BY <2>1, FirstItem DEF IsItem
    <2> HIDE DEF c, receipt
    <2>5. RelatesCommand(d, c, sealed, Silent)
      BY <1>2, <2>1, <2>2 DEF RelatesCommand
    <2>6. \A e \in Device : \A i \in Entries(queue'[e]) :
             i \in Entries(queue[e]) \/ i.type = "ack"
      <3> DEFINE t == Item(p).from
      <3>1. queue' = [queue EXCEPT ![t] = Append(@, receipt)]
        BY <2>1, <2>3 DEF Enqueue
      <3> HIDE DEF t
      <3>2. DOMAIN queue = Device /\ (t \in Device => IsSeq(queue[t]))
        BY DEF BooksInv, AreItems
      <3>3. \A e \in Device : e # t => queue'[e] = queue[e]
        BY <3>1, <3>2
      <3>4. t \in Device => Entries(queue'[t]) = Entries(queue[t]) \union {receipt}
        BY <3>1, <3>2, AppendIsSeq
      <3> QED
        BY <2>3, <3>3, <3>4
    <2> QED
      BY <1>1, <2>1, <2>5, <2>6
  <1>7. CASE SyncAck(p)
    <2> DEFINE c == [command[p] EXCEPT !.todo = Tail(@), !.stage = "open"]
               places == {i \in DOMAIN queue[d] : queue[d][i].id # Item(p).id}
               rest == Filtered(queue[d], places)
    <2>1. /\ RunningSet(p, c) /\ command[p].op = "sync" /\ todo # << >>
          /\ queue' = [queue EXCEPT ![d] = rest]
          /\ UNCHANGED <<disk, claimed, texts, sealed>>
      BY <1>7 DEF SyncAck, Syncing
    <2>2. c.op = "sync" /\ c.work = work /\ c.todo = Tail(todo)
      BY <1>2, <2>1 DEF SyncFields
    <2>3. Entries(Tail(todo)) \subseteq Entries(todo)
      BY <1>2, <2>1, HeadAndTail DEF SyncGood, AreItems
    <2> HIDE DEF c, places
    <2>4. RelatesCommand(d, c, sealed, Silent)
      BY <1>2, <2>1, <2>2, <2>3 DEF RelatesCommand
    <2>5. d \in Device /\ DOMAIN queue = Device /\ IsSeq(queue[d])
      BY ProcessOfDevice DEF BooksInv, AreItems
    <2>6. Entries(rest) \subseteq Entries(queue[d])
      <3>1. \A i \in Entries(rest) : \E n \in DOMAIN queue[d] : n \in places /\ i = queue[d][n]
        BY <2>5, FilterKeepsEntries
      <3> HIDE DEF rest
      <3> QED
        BY <3>1 DEF Entries
    <2> HIDE DEF rest
    <2>7. \A e \in Device : \A i \in Entries(queue'[e]) : i \in Entries(queue[e])
      BY <2>1, <2>5, <2>6
    <2> QED
      BY <1>1, <2>1, <2>4, <2>7
  <1> QED
    BY <1>3, <1>4, <1>5, <1>6, <1>7

\* A message is opened.
LEMMA OpenKeepsChains ==
    ASSUME IInv, BooksInv, ChainInv, NEW p \in Process, SyncOpenMessage(p)
    PROVE  ChainInv'
  <1> DEFINE d == p[1]
             work == command[p].work
             item == Item(p)
             t == item.from
             result == Result(p, work, item)
             u == result.session
             event == [envelope |-> item.id, text |-> result.text]
             next == WithSession(work, t, result.session)
             c == [command[p] EXCEPT
                      !.work = WithEvent(WithSession(@, t, result.session), item, result.text),
                      !.stage = "emit"]
  <1>1. /\ RunningSet(p, c) /\ command[p].op = "sync" /\ command[p].todo # << >>
        /\ item.type = "message" /\ result.ok
        /\ UNCHANGED <<disk, queue, claimed, texts, sealed>>
    BY DEF SyncOpenMessage, Syncing
  <1>2. /\ d \in Device /\ DOMAIN command[p] = SyncFields
        /\ SyncGood(d, command[p], sealed, readBy)
        /\ IsItem(d, item, sealed, readBy)
    BY <1>1, FirstItem
  <1>3. t \in Device
    BY <1>2 DEF IsItem
  <1>4. item \in Entries(command[p].todo)
    BY <1>1, <1>2, HeadAndTail DEF SyncGood, AreItems, Item
  <1>5. /\ Relates(d, work.sessions, work.sent, work.got, sealed, Silent)
        /\ \A i \in Entries(command[p].todo) : Carries(d, i, sealed, Silent)
    BY <1>1 DEF ChainInv, RelatesCommand
  <1>6. PICK z \in sealed : z.to = d /\ CarriesOf(z, item, Silent)
    BY <1>1, <1>4, <1>5 DEF Carries
  <1>7. /\ z.from = t /\ z.envelope = item.id /\ Directed(z.key, z.from, z.to) /\ t \notin Silent
    <2>1. PICK m \in 1 .. texts[z.from] : TRUE
      BY DEF BooksInv, SealedGood
    <2>2. z.from = t /\ texts[t] \in Nat
      BY <1>3, <1>6 DEF CarriesOf, BooksInv
    <2> QED
      BY <1>6, <2>1, <2>2 DEF CarriesOf, BooksInv, SealedGood, Silent
  <1>8. /\ DOMAIN work = LocalFields /\ DOMAIN work.sessions = Device
        /\ work.sessions[t] = NoSession \/ IsSession(d, t, work.sessions[t])
    BY <1>2, <1>3 DEF SyncGood, IsLocal, Books
  <1>9. /\ c.op = "sync" /\ c.todo = command[p].todo
        /\ c.work = WithEvent(next, item, result.text)
    BY <1>1, <1>2 DEF SyncFields
  <1> HIDE DEF c
  <1>10. /\ c.work.sessions = [work.sessions EXCEPT ![t] = u] /\ c.work.sent = work.sent
         /\ c.work.got = work.got \union {event}
    <2>1. /\ DOMAIN next = LocalFields /\ next.got = work.got /\ next.sent = work.sent
          /\ next.sessions = [work.sessions EXCEPT ![t] = u]
      BY <1>8 DEF WithSession, LocalFields
    <2> HIDE DEF next, result, item
    <2> QED
      BY <1>9, <2>1 DEF WithEvent, LocalFields
  <1>11. event.envelope = item.id
    OBVIOUS
  <1> DEFINE more == [work.sessions EXCEPT ![t] = u]
             got2 == work.got \union {event}
  <1>12. d \in Silent => Reads(t, d, u, got2, sealed)
    <2> SUFFICES ASSUME d \in Silent
                 PROVE  Reads(t, d, u, got2, sealed)
      OBVIOUS
    <2>1. Reads(t, d, work.sessions[t], work.got, sealed)
      BY <1>3, <1>5 DEF Relates
    <2>2. \A x, y \in sealed : x.envelope = y.envelope => x = y
      BY DEF BooksInv, SealedGood
    <2> HIDE DEF work, item, event, Silent
    <2> QED
      BY <1>1, <1>6, <1>7, <1>8, <1>11, <2>1, <2>2, OpenedIsShown
  <1> HIDE DEF u, result, event
  <1>13. more[t] = u /\ \A e \in Device : e # t => more[e] = work.sessions[e]
    BY <1>3, <1>8
  <1> HIDE DEF more
  <1>14. \A e \in Silent : Writes(d, e, more[e], work.sent, sealed)
    <2>1. Silent \subseteq Device
      BY DEF Silent
    <2> QED
      BY <1>5, <1>7, <1>13, <2>1 DEF Relates
  <1>15. ASSUME d \in Silent, NEW e \in Device, e # t
         PROVE  Reads(e, d, more[e], got2, sealed)
    <2>1. Reads(e, d, work.sessions[e], work.got, sealed)
      BY <1>5, <1>15 DEF Relates
    <2>2. ShownOf(e, d, got2, sealed) = ShownOf(e, d, work.got, sealed)
      <3> SUFFICES ASSUME NEW y \in sealed, y.from = e, y.envelope = event.envelope
                   PROVE  FALSE
        BY DEF ShownOf
      <3>1. y = z
        BY <1>7, <1>11, <1>15 DEF BooksInv, SealedGood
      <3> QED
        BY <1>7, <1>15, <3>1
    <2> HIDE DEF got2
    <2> QED
      BY <1>13, <1>15, <2>1, <2>2 DEF Reads
  <1>16. \A g \in got2 : \E x \in sealed : x.envelope = g.envelope
    BY <1>5, <1>7, <1>11 DEF Relates
  <1>17. Relates(d, more, work.sent, got2, sealed, Silent)
    <2> HIDE DEF got2, work, Silent
    <2> QED
      BY <1>12, <1>13, <1>14, <1>15, <1>16 DEF Relates
  <1>18. RelatesCommand(d, c, sealed, Silent)
    BY <1>5, <1>9, <1>10, <1>17 DEF RelatesCommand, more
  <1>19. claimed' \in [Device -> Nat]
    BY <1>1 DEF ChainInv
  <1> QED
    BY <1>1, <1>18, <1>19, NothingAdded

----------------------------------------------------------------------------
(* The whole of it *)

\* A command ends early, a device is restored or revoked, or nothing happens.
LEMMA EndsKeepChains ==
    ASSUME IInv, BooksInv, ChainInv,
           \/ \E p \in Process : SyncRefused(p) \/ CallRefused(p) \/ CommandDies(p) \/ SaveTorn(p)
           \/ \E d \in Device : Restore(d) \/ RevokeDevice(d)
           \/ UNCHANGED vars
    PROVE  ChainInv'
  <1> DEFINE torn == [EmptyState EXCEPT !.readable = FALSE]
  <1>1. \A local \in {EmptyState, torn} : \A d :
           Relates(d, local.sessions, local.sent, local.got, sealed, Silent)
    <2>1. \A local \in {EmptyState, torn} :
             /\ local.sessions = [t \in Device |-> NoSession]
             /\ local.sent = {} /\ local.got = {}
      BY DEF EmptyState
    <2>2. Silent \subseteq Device
      BY DEF Silent
    <2> HIDE DEF torn, Silent
    <2> QED
      BY <2>1, <2>2, RelatesBegin
  <1>2. ASSUME NEW p \in Process, RunningSet(p, Idle),
               UNCHANGED <<queue, claimed, texts, sealed>>,
               UNCHANGED disk \/ disk' = [disk EXCEPT ![p[1]] = torn]
        PROVE  ChainInv'
    <2>1. RelatesCommand(p[1], Idle, sealed, Silent) /\ claimed' \in [Device -> Nat]
      BY <1>2 DEF RelatesCommand, Idle, ChainInv
    <2>2. Relates(p[1], torn.sessions, torn.sent, torn.got, sealed, Silent)
      BY <1>1
    <2> HIDE DEF torn, Silent
    <2> QED
      BY <1>2, <2>1, <2>2, NothingAdded
  <1>3. ASSUME UNCHANGED <<command, queue, claimed, texts, sealed>>,
               \A d \in Device : disk'[d] = disk[d] \/ disk'[d] = EmptyState
        PROVE  ChainInv'
    <2>1. Silent' = Silent
      BY <1>3 DEF Silent
    <2>2. \A d \in Device :
             Relates(d, disk'[d].sessions, disk'[d].sent, disk'[d].got, sealed, Silent)
      BY <1>1, <1>3 DEF ChainInv
    <2> HIDE DEF Silent
    <2> QED
      BY <1>3, <2>1, <2>2 DEF ChainInv
  <1>4. ASSUME NEW p \in Process,
               SyncRefused(p) \/ CallRefused(p) \/ CommandDies(p) \/ SaveTorn(p)
        PROVE  ChainInv'
    <2>1. /\ RunningSet(p, Idle) /\ UNCHANGED <<queue, claimed, texts, sealed>>
          /\ UNCHANGED disk \/ disk' = [disk EXCEPT ![p[1]] = torn]
      BY <1>4 DEF SyncRefused, CallRefused, CommandDies, SaveTorn, Save
    <2> QED
      BY <1>2, <2>1
  <1>5. ASSUME NEW d \in Device, Restore(d) \/ RevokeDevice(d)
        PROVE  ChainInv'
    <2>1. /\ UNCHANGED <<command, queue, claimed, texts, sealed>>
          /\ \A e \in Device : disk'[e] = disk[e] \/ disk'[e] = EmptyState
      BY <1>5 DEF Restore, RevokeDevice, BooksInv
    <2> QED
      BY <1>3, <2>1
  <1>6. CASE UNCHANGED vars
    BY <1>3, <1>6 DEF vars
  <1> QED
    BY <1>4, <1>5, <1>6

LEMMA ChainInit == Init => ChainInv
  <1> SUFFICES ASSUME Init PROVE ChainInv
    OBVIOUS
  <1>1. \A d \in Device :
           Relates(d, disk[d].sessions, disk[d].sent, disk[d].got, sealed, Silent)
    <2>1. /\ EmptyState.sessions = [t \in Device |-> NoSession]
          /\ EmptyState.sent = {} /\ EmptyState.got = {}
      BY DEF EmptyState
    <2>2. Silent \subseteq Device /\ \A d \in Device : disk[d] = EmptyState
      BY DEF Silent, Init
    <2> HIDE DEF Silent
    <2> QED
      BY <2>1, <2>2, RelatesBegin
  <1>2. \A d \in Device : \A i \in Entries(queue[d]) : Carries(d, i, sealed, Silent)
    BY EmptyIsSeq DEF Init
  <1>3. \A p \in Process : RelatesCommand(p[1], command[p], sealed, Silent)
    <2>1. \A p \in Process : command[p].op = "idle"
      BY DEF Init, Idle
    <2> QED
      BY <2>1 DEF RelatesCommand
  <1> QED
    BY <1>1, <1>2, <1>3 DEF ChainInv, Init

LEMMA ChainsAlways == Spec => []ChainInv
  <1>1. IInv /\ BooksInv /\ ChainInv /\ [Next]_vars => ChainInv'
    <2> SUFFICES ASSUME IInv, BooksInv, ChainInv, [Next]_vars
                 PROVE  ChainInv'
      OBVIOUS
    <2>1. ASSUME NEW p \in Process, Continue(p)
          PROVE  ChainInv'
      BY <2>1, ClaimKeepsChains, EnqueueKeepsChains, SavesKeepChains, SyncsKeepChains,
         OpenKeepsChains, EndsKeepChains DEF Continue
    <2>2. ASSUME NEW p \in Process,
                 \/ \E a \in Account : SendLookup(p, a)
                 \/ SyncPull(p) \/ CommandDies(p) \/ SaveTorn(p)
          PROVE  ChainInv'
      BY <2>2, LookupKeepsChains, SyncsKeepChains, EndsKeepChains
    <2>3. ASSUME NEW d \in Device, Restore(d) \/ RevokeDevice(d)
          PROVE  ChainInv'
      BY <2>3, EndsKeepChains
    <2>4. CASE UNCHANGED vars
      BY <2>4, EndsKeepChains
    <2> QED
      BY <2>1, <2>2, <2>3, <2>4 DEF Next
  <1> QED
    BY <1>1, ChainInit, BooksAlways, ReadsInvariant, PTL DEF Spec

----------------------------------------------------------------------------
(* A device is stuck only at a message of a sender it is estranged from *)

Between(d, e) == {x \in sealed : x.from = d /\ x.to = e}

\* Messages of one chain, none missing, in the order they were sent.
OneChain(K, ratchet, root, label) ==
    /\ \A x \in K :
          /\ x.ratchet = ratchet /\ x.key = ChainRec(root, label, x.key.index)
          /\ x.key.index \in Nat
          /\ \A n \in 0 .. x.key.index - 1 : \E y \in K : y.key.index = n
    /\ \A x, y \in K : x.key.index < y.key.index => x.envelope[2] < y.envelope[2]
    /\ \A x, y \in K : x.key = y.key => x = y

\* So are those of a sender that knows them all, to a device that only reads.
LEMMA KnownAreOneChain ==
    ASSUME BooksInv, NEW d, NEW e \in Device, NEW sessions, NEW sent,
           Books(d, sessions, sent, sealed, readBy), Writes(d, e, sessions[e], sent, sealed),
           \A x \in Between(d, e) : KnownIn(sent, x.envelope)
    PROVE  \E ratchet, root, label : OneChain(Between(d, e), ratchet, root, label)
  <1> DEFINE K == Between(d, e)
             s == sessions[e]
  <1>1. KnownTo(d, e, sent, sealed) = K
    BY DEF KnownTo, Between
  <1>2. \A x, y \in K : x.key = y.key => x = y
    <2>1. \A x, y \in K : x.key = y.key => x.envelope = y.envelope
      BY DEF Books, Between
    <2>2. \A x, y \in sealed : x.envelope = y.envelope => x = y
      BY DEF BooksInv, SealedGood
    <2>3. K \subseteq sealed
      BY DEF Between
    <2> QED
      BY <2>1, <2>2, <2>3
  <1>3. ASSUME NEW x \in K
        PROVE  /\ x.ratchet = s.own
               /\ x.key = ChainRec(s.send.root, s.send.label, x.key.index)
               /\ x.key.index \in Nat
               /\ \A n \in 0 .. x.key.index - 1 : \E y \in K : y.key.index = n
    <2>1. /\ s # NoSession /\ x.ratchet = s.own
          /\ x.key = ChainRec(s.send.root, s.send.label, x.key.index)
      BY <1>1 DEF Writes
    <2>2. IsSession(d, e, s) /\ Behind(x.key, s.send)
      BY <2>1 DEF Books, Between
    <2>3. s.send.index \in Nat /\ Depth(s.send.root) \in Nat
      BY <2>2, DepthIsNat DEF IsSession, IsChain
    <2>4. x.key.root = s.send.root
      BY <2>1 DEF ChainRec
    <2>5. x.key.index \in 0 .. s.send.index - 1
      BY <2>2, <2>3, <2>4 DEF Behind
    <2>6. \A n \in 0 .. s.send.index - 1 : \E y \in K : y.key.index = n
      BY <1>1, <2>1 DEF Writes
    <2> HIDE DEF K, s
    <2>7. \A n \in 0 .. x.key.index - 1 : n \in 0 .. s.send.index - 1
      BY <2>3, <2>5
    <2> QED
      BY <2>1, <2>5, <2>6, <2>7
  <1>4. \A x, y \in K : x.key.index < y.key.index => x.envelope[2] < y.envelope[2]
    BY <1>1 DEF Writes
  <1> HIDE DEF K
  <1>5. OneChain(K, s.own, s.send.root, s.send.label)
    BY <1>2, <1>3, <1>4 DEF OneChain
  <1> QED
    BY <1>5 DEF K

LEMMA NotForgottenAreOneChain ==
    ASSUME BooksInv, ChainInv, NEW d \in Device, NEW e \in Silent, ~Forgot(d, e),
           Between(d, e) # {}
    PROVE  \E ratchet, root, label : OneChain(Between(d, e), ratchet, root, label)
  <1>1. e \in Device /\ \A x \in Between(d, e) : x.from = d /\ ~Forgotten(x)
    BY DEF Forgot, Between, Silent
  <1>2. CASE SendsOf(d) # {}
    <2>1. PICK p \in Process : p[1] = d /\ command[p].op = "send" /\ p \in SendsOf(d)
      BY <1>2 DEF SendsOf, Sending
    <2> DEFINE work == command[p].work
               all == work.sent \union command[p].done
    <2>2. SendGood(d, command[p], sealed, readBy, texts)
      BY <2>1 DEF BooksInv, CommandGood
    <2>3. ToSave(p).sent = all
      BY <2>1, <2>2 DEF ToSave, SendGood, LocalFields
    <2>4. \A x \in Between(d, e) : KnownIn(all, x.envelope)
      BY <1>1, <2>1, <2>3 DEF Forgotten, Knows, KnownIn
    <2>5. Books(d, work.sessions, all, sealed, readBy)
      BY <2>2 DEF SendGood
    <2>6. Writes(d, e, work.sessions[e], all, sealed)
      BY <2>1 DEF ChainInv, RelatesCommand, Relates
    <2> HIDE DEF all, work
    <2> QED
      BY <1>1, <2>4, <2>5, <2>6, KnownAreOneChain
  <1>3. CASE SendsOf(d) = {}
    <2>1. \A x \in Between(d, e) : KnownIn(disk[d].sent, x.envelope)
      BY <1>1, <1>3 DEF Forgotten, Knows, KnownIn
    <2>2. Books(d, disk[d].sessions, disk[d].sent, sealed, readBy)
      BY DEF BooksInv, IsLocal
    <2>3. Writes(d, e, disk[d].sessions[e], disk[d].sent, sealed)
      BY DEF ChainInv, Relates
    <2> QED
      BY <1>1, <2>1, <2>2, <2>3, KnownAreOneChain
  <1> QED
    BY <1>2, <1>3

\* A message sent before the one at hand was acknowledged.
LEMMA EarlierIsAcked ==
    ASSUME IInv, BooksInv, QueueInv, NEW p \in Process,
           command[p].op = "sync", command[p].todo # << >>,
           NEW x \in sealed, x.to = p[1], x.from = Item(p).from,
           x.envelope[2] < Item(p).id[2]
    PROVE  AckedMessage(x, ackedBy[p[1]])
  <1> DEFINE todo == command[p].todo
             item == Item(p)
  <1>1. /\ InHand(p[1], command[p], sealed, ackedBy[p[1]], envelopes)
        /\ item = Head(todo)
    BY FirstInHand
  <1>2. IsSeq(todo)
    BY FirstItem DEF SyncGood, AreItems
  <1>3. /\ Entries(todo) = {item} \union Entries(Tail(todo))
        /\ \A i \in Entries(Tail(todo)) : Sooner(item, i)
    BY <1>1, <1>2, OrderedTail DEF InHand
  <1>4. AckedMessage(x, ackedBy[p[1]]) \/ IsIn(todo, x.envelope)
    BY <1>1, <1>3 DEF InHand, Covers
  <1>5. ASSUME NEW i \in Entries(todo), i.id = x.envelope
        PROVE  FALSE
    <2>1. IsNumbered(i, sealed, envelopes) /\ IsNumbered(item, sealed, envelopes)
      BY <1>1, <1>3 DEF InHand
    <2>2. PICK n \in 1 .. envelopes[i.from] : i.id = <<i.from, n>>
      BY <2>1 DEF IsNumbered, Numbered
    <2>3. PICK m \in 1 .. envelopes[item.from] : item.id = <<item.from, m>>
      BY <2>1 DEF IsNumbered, Numbered
    <2>4. PICK k \in 1 .. envelopes[x.from] : x.envelope = <<x.from, k>>
      BY DEF BooksInv, SealedGood
    <2>5. i.from = x.from /\ n = k
      <3>1. <<i.from, n>> = <<x.from, k>>
        BY <1>5, <2>2, <2>4
      <3> QED
        BY <3>1
    <2>6. i.id[2] = n /\ item.id[2] = m /\ x.envelope[2] = k
      BY <2>2, <2>3, <2>4
    <2>7. n < m
      BY <2>5, <2>6
    <2>8. CASE i = item
      BY <2>6, <2>7, <2>8
    <2>9. CASE i # item
      <3>1. Sooner(item, i)
        BY <1>3, <2>9
      <3>2. m < n
        BY <2>5, <2>6, <3>1 DEF Sooner
      <3> QED
        BY <2>7, <3>2
    <2> QED
      BY <2>8, <2>9
  <1> QED
    BY <1>4, <1>5 DEF IsIn

\* What a device reads of one chain and refuses is further ahead than the
\* messages it lost allow.
LEMMA RefusedOfOneChain ==
    ASSUME IInv, BooksInv, QueueInv, ChainInv, NEW p \in Process, Syncing(p, "open"),
           Item(p).type = "message", ~Result(p, command[p].work, Item(p)).ok,
           NEW e, e = p[1], e \in Silent, NEW d, d = Item(p).from,
           NEW ratchet, NEW root, NEW label, OneChain(Between(d, e), ratchet, root, label)
    PROVE  Cardinality(Lost(e, d, command[p].work)) > MaxSkip
  <1> DEFINE work == command[p].work
             item == Item(p)
             m == item.body
             K == Between(d, e)
             lost == Lost(e, d, work)
             shown == ShownOf(d, e, work.got, sealed)
  <1>1. /\ command[p].op = "sync" /\ command[p].todo # << >> /\ command[p].stage = "open"
    BY DEF Syncing
  <1>2. /\ e \in Device /\ SyncGood(e, command[p], sealed, readBy)
        /\ IsItem(e, item, sealed, readBy)
    BY <1>1, FirstItem
  <1>3. /\ Relates(e, work.sessions, work.sent, work.got, sealed, Silent)
        /\ \A i \in Entries(command[p].todo) : Carries(e, i, sealed, Silent)
    BY <1>1 DEF ChainInv, RelatesCommand
  <1>4. item \in Entries(command[p].todo) /\ d \in Device
    BY <1>1, <1>2, HeadAndTail DEF SyncGood, AreItems, Item, IsItem
  <1>5. PICK z \in sealed : z.to = e /\ CarriesOf(z, item, Silent)
    BY <1>3, <1>4 DEF Carries
  <1>6. /\ z \in K /\ z.envelope = item.id /\ z.ratchet = m.ratchet /\ z.key = m.key
        /\ m.index = z.key.index /\ Directed(z.key, z.from, z.to)
    BY <1>5 DEF CarriesOf, Between, BooksInv, SealedGood
  <1>7. PICK w : \E x \in sealed :
           /\ DOMAIN w = SessionFields /\ w.remote = m.ratchet /\ m.ratchet # NoKey
           /\ x.from = d /\ x.to = e /\ Follows(w, x, shown)
           /\ Result(p, work, item) = Tried(w, m)
    <2>1. work.sessions[d] = NoSession \/ IsSession(e, d, work.sessions[d])
      BY <1>2, <1>4 DEF SyncGood, IsLocal, Books
    <2>2. Reads(d, e, work.sessions[d], work.got, sealed)
      BY <1>3, <1>4 DEF Relates
    <2>3. \A x \in sealed : x.from = d /\ x.to = e => x.ratchet = m.ratchet
      BY <1>6 DEF OneChain, Between
    <2> HIDE DEF item, work, Silent
    <2> QED
      BY <1>5, <1>6, <2>1, <2>2, <2>3, Reader DEF item
  <1>8. PICK x \in sealed :
           /\ DOMAIN w = SessionFields /\ w.remote = m.ratchet /\ m.ratchet # NoKey
           /\ x.from = d /\ x.to = e /\ Follows(w, x, shown)
           /\ Result(p, work, item) = Tried(w, m)
    BY <1>7
  <1> DEFINE first == w.receive.index
  <1>9. /\ first \in Nat /\ x \in K /\ \A y \in shown : y.key.index \in 0 .. first - 1
        /\ m.index \in Nat /\ m.key = ChainRec(x.key.root, x.key.label, m.index)
    <2>1. x \in K
      BY <1>8 DEF Between
    <2>2. x.key.root = root /\ x.key.label = label
      <3>1. x.key = ChainRec(root, label, x.key.index)
        BY <2>1 DEF OneChain
      <3>2. \A k : k = ChainRec(root, label, x.key.index) => k.root = root /\ k.label = label
        BY DEF ChainRec
      <3> QED
        BY <3>1, <3>2
    <2> QED
      BY <1>6, <1>8, <2>1, <2>2 DEF Follows, OneChain
  <1>10. \A y \in shown : y \in K /\ y.key # m.key
    <2> SUFFICES ASSUME NEW y \in shown
                 PROVE  y \in K /\ y.key # m.key
      OBVIOUS
    <2>1. y \in K
      BY DEF ShownOf, Between
    <2>2. ASSUME y.key = m.key
          PROVE  FALSE
      <3>1. y = z
        BY <1>6, <2>1, <2>2 DEF OneChain
      <3>2. PICK g \in work.got : g.envelope = item.id
        BY <1>6, <3>1 DEF ShownOf
      <3>3. \A i \in Entries(command[p].todo) : i.id # g.envelope
        BY <1>1, <3>2 DEF QueueInv, InHand, Ahead
      <3> QED
        BY <1>4, <3>2, <3>3
    <2> QED
      BY <2>1, <2>2
  <1> HIDE DEF shown, m, item, work, K, lost, first
  <1>11. m.index > first + MaxSkip
    <2>1. ~Tried(w, m).ok
      BY <1>8 DEF item, work
    <2> QED
      BY <1>8, <1>9, <1>10, <2>1, RefusedIsFar DEF first
  <1> DEFINE passed == first .. m.index - 1
  <1>12. ASSUME NEW n \in passed
         PROVE  \E y \in K : y.key.index = n /\ \E a \in lost : a.id = y.envelope
    <2>1. n \in 0 .. z.key.index - 1
      BY <1>6, <1>9
    <2>2. PICK y \in K : y.key.index = n
      BY <1>6, <2>1 DEF OneChain, K
    <2>3. y.envelope[2] < z.envelope[2]
      <3>1. y.key.index < z.key.index
        BY <1>6, <1>9, <2>2
      <3> QED
        BY <1>6, <2>2, <3>1 DEF OneChain, K
    <2>4. AckedMessage(y, ackedBy[e])
      BY <1>1, <1>6, <2>2, <2>3, EarlierIsAcked DEF K, Between, item
    <2>5. PICK a \in ackedBy[e] : a.id = y.envelope /\ a.type = "message" /\ a.from = y.from
      BY <2>4 DEF AckedMessage
    <2>6. \A g \in work.got : g.envelope # a.id
      <3> SUFFICES ASSUME NEW g \in work.got, g.envelope = a.id
                   PROVE  FALSE
        OBVIOUS
      <3>1. y \in shown
        BY <2>2, <2>5 DEF shown, ShownOf, K, Between
      <3> QED
        BY <1>9, <2>2, <3>1
    <2>7. a \in lost
      BY <2>2, <2>5, <2>6 DEF lost, Lost, K, Between, work
    <2> QED
      BY <2>2, <2>5, <2>7
  <1> DEFINE f == [n \in passed |-> CHOOSE a \in lost :
                                      \E y \in K : y.key.index = n /\ a.id = y.envelope]
  <1>13. \A n \in passed : /\ f[n] \in lost
                           /\ \E y \in K : y.key.index = n /\ f[n].id = y.envelope
    <2> SUFFICES ASSUME NEW n \in passed
                 PROVE  /\ f[n] \in lost
                        /\ \E y \in K : y.key.index = n /\ f[n].id = y.envelope
      OBVIOUS
    <2> DEFINE Fits(a) == \E y \in K : y.key.index = n /\ a.id = y.envelope
    <2> HIDE DEF passed
    <2>1. f[n] = CHOOSE a \in lost : Fits(a)
      OBVIOUS
    <2>2. \E a \in lost : Fits(a)
      BY <1>12
    <2> HIDE DEF f, Fits
    <2>3. f[n] \in lost /\ Fits(f[n])
      BY <2>1, <2>2
    <2> QED
      BY <2>3 DEF Fits
  <1>14. f \in [passed -> lost]
    BY <1>13
  <1>15. ASSUME NEW n \in passed, NEW k \in passed, f[n] = f[k]
         PROVE  n = k
    <2>1. PICK y \in K : y.key.index = n /\ f[n].id = y.envelope
      BY <1>13
    <2>2. PICK v \in K : v.key.index = k /\ f[k].id = v.envelope
      BY <1>13
    <2>3. y = v
      BY <1>15, <2>1, <2>2 DEF K, Between, BooksInv, SealedGood
    <2> QED
      BY <2>1, <2>2, <2>3
  <1> HIDE DEF f
  <1>16. IsFiniteSet(lost) /\ Cardinality(lost) \in Nat
    <2>1. IsFiniteSet(ackedBy[e]) /\ lost \in SUBSET ackedBy[e]
      BY <1>2 DEF QueueInv, AcksGood, lost, Lost
    <2>2. IsFiniteSet(lost)
      BY <2>1, FS_Subset
    <2> QED
      BY <2>2, FS_CardinalityType
  <1>17. IsFiniteSet(passed) /\ Cardinality(passed) = m.index - first
    <2>1. first \in Int /\ m.index - 1 \in Int /\ ~(first > m.index - 1)
      BY <1>9, <1>11, SkipAssumption
    <2>2. IsFiniteSet(passed) /\ Cardinality(passed) = (m.index - 1) - first + 1
      BY <2>1, FS_Interval
    <2> QED
      BY <1>9, <2>2
  <1> HIDE DEF passed
  <1>18. ~(Cardinality(lost) < Cardinality(passed))
    BY <1>14, <1>15, <1>16, <1>17, FS_PigeonHole
  <1>19. Cardinality(lost) > MaxSkip
    BY <1>9, <1>11, <1>16, <1>17, <1>18, SkipAssumption
  <1> QED
    BY <1>19 DEF lost, work

\* A sync meets a message it cannot open only on a device that is estranged from
\* its sender, wherever syncs and sends die, are torn or run beside each other:
\* the sender forgot a message, the device lost more of them than a message may
\* skip keys, or it writes texts itself.
THEOREM StuckDevicesAreEstranged == Spec => []StuckOnlyIfEstranged
  <1>1. ASSUME IInv, BooksInv, QueueInv, ChainInv
        PROVE  StuckOnlyIfEstranged
    <2> SUFFICES ASSUME NEW p \in Process, Syncing(p, "open"), Item(p).type = "message",
                        ~Result(p, command[p].work, Item(p)).ok,
                        ~Estranged(p[1], Item(p).from, command[p].work)
                 PROVE  FALSE
      BY DEF StuckOnlyIfEstranged
    <2> DEFINE e == p[1]
               d == Item(p).from
    <2>1. IsItem(e, Item(p), sealed, readBy) /\ e \in Device
      BY <1>1, FirstItem DEF Syncing
    <2>2. d \in Device /\ Between(d, e) # {}
      BY <2>1 DEF IsItem, Between
    <2>3. e \in Silent
      <3>1. texts[e] \in Nat /\ ~(texts[e] > 0)
        BY <1>1, <2>1 DEF Estranged, BooksInv
      <3> QED
        BY <2>1, <3>1 DEF Silent
    <2>4. ~Forgot(d, e)
      BY DEF Estranged
    <2>5. PICK ratchet, root, label : OneChain(Between(d, e), ratchet, root, label)
      <3> HIDE DEF e, d
      <3> QED
        BY <1>1, <2>2, <2>3, <2>4, NotForgottenAreOneChain
    <2>6. Cardinality(Lost(e, d, command[p].work)) > MaxSkip
      BY <1>1, <2>3, <2>5, RefusedOfOneChain
    <2> QED
      BY <2>6 DEF Estranged
  <1> QED
    BY <1>1, ReadsInvariant, BooksAlways, QueuesAlways, ChainsAlways, PTL
=============================================================================

------------------------- MODULE RelayQueuesProofs -------------------------
(* Theorems about RelayQueues, for every value of its constants.            *)
EXTENDS RelayQueues, TLAPS

----------------------------------------------------------------------------
(* Pulls that share the array in the state *)

\* Giving inbox i a new array keeps the pulls typed, keeps who waits, and
\* leaves every waiting pull with the array it would have answered with.
LEMMA ReplacedLemma ==
    ASSUME TypeOK, NEW i \in Inbox, pulls' = Replaced(i, pulls),
           queue' \in [Inbox -> SUBSET Item],
           \A j \in Inbox \ {i} : queue'[j] = queue[j]
    PROVE  /\ pulls' \in [Puller -> Pull \union {Idle}]
           /\ Waiting' = Waiting
           /\ \A p \in Waiting : /\ Answer(p)' = Answer(p)
                                 /\ pulls'[p].due = pulls[p].due
                                 /\ pulls'[p].after = pulls[p].after
                                 /\ pulls'[p].inbox = pulls[p].inbox
  <1> DEFINE Detached(p) == [pulls[p] EXCEPT !.shared = FALSE, !.items = queue[i]]
  <1>1. \A p \in Puller :
           pulls'[p] = IF pulls[p].shared /\ pulls[p].inbox = i
                       THEN Detached(p) ELSE pulls[p]
    BY DEF Replaced, TypeOK
  <1>2. DOMAIN pulls' = Puller /\ pulls' = [p \in Puller |-> pulls'[p]]
    BY DEF Replaced
  <1>3. \A p \in Puller : pulls[p] \in Pull \/ (pulls[p] = Idle /\ ~pulls[p].shared)
    BY DEF TypeOK, Idle
  <1>4. queue[i] \in SUBSET Item
    BY DEF TypeOK
  <1>5. \A r \in Pull : r # Idle
    <2>1. \A r \in Pull : "due" \in DOMAIN r
      BY DEF Pull
    <2>2. "due" \notin DOMAIN Idle
      BY DEF Idle
    <2> QED
      BY <2>1, <2>2
  <1>6. ASSUME NEW p \in Puller
        PROVE  /\ pulls'[p] \in Pull \union {Idle}
               /\ pulls'[p] = Idle <=> pulls[p] = Idle
               /\ pulls[p] # Idle => /\ Answer(p)' = Answer(p)
                                     /\ pulls'[p].due = pulls[p].due
                                     /\ pulls'[p].after = pulls[p].after
                                     /\ pulls'[p].inbox = pulls[p].inbox
    <2>1. CASE pulls[p].shared /\ pulls[p].inbox = i
      <3>1. pulls[p] \in Pull /\ pulls'[p] = Detached(p)
        BY <1>1, <1>3, <2>1
      <3>2. /\ Detached(p) \in Pull
            /\ ~Detached(p).shared
            /\ Detached(p).items = queue[i]
            /\ Detached(p).due = pulls[p].due
            /\ Detached(p).after = pulls[p].after
            /\ Detached(p).inbox = pulls[p].inbox
        BY <1>4, <3>1 DEF Pull
      <3> HIDE DEF Detached
      <3>3. Answer(p) = queue[i] /\ Answer(p)' = queue[i]
        BY <2>1, <3>1, <3>2 DEF Answer
      <3> QED
        BY <1>5, <3>1, <3>2, <3>3
    <2>2. CASE ~(pulls[p].shared /\ pulls[p].inbox = i)
      <3>1. pulls'[p] = pulls[p]
        BY <1>1, <2>2
      <3>2. pulls[p] # Idle => Answer(p)' = Answer(p)
        <4>1. CASE pulls[p] = Idle
          BY <4>1
        <4>2. CASE pulls[p] \in Pull /\ ~pulls[p].shared
          BY <3>1, <4>2 DEF Answer
        <4>3. CASE pulls[p] \in Pull /\ pulls[p].shared
          BY <2>2, <3>1, <4>3 DEF Answer, Pull
        <4> QED
          BY <1>3, <4>1, <4>2, <4>3
      <3> QED
        BY <1>3, <3>1, <3>2
    <2> QED
      BY <2>1, <2>2
  <1> QED
    BY <1>2, <1>6 DEF Waiting

\* Nothing but the pulls and the queue they share decides what they answer.
LEMMA AnswerFrame ==
    ASSUME UNCHANGED <<queue, pulls>>
    PROVE  Waiting' = Waiting /\ \A p \in Waiting : Answer(p)' = Answer(p)
  BY DEF Waiting, Answer

----------------------------------------------------------------------------
(* The invariant *)

\* Items are numbered below lastId, and a queue holds accepted items of its
\* own inbox.
Numbered ==
    /\ \A x \in accepted : x.id <= lastId
    /\ \A i \in Inbox : \A x \in queue[i] : x \in accepted /\ x.inbox = i
    /\ \A y \in Inbox \X Envelope : ackedUpTo[y] <= lastId
    /\ \A p \in Waiting : pulls[p].after <= lastId

\* The three properties are inductive together with the numbering: a new item
\* is younger than every acknowledgement and than the beginning of every pull.
IInv == TypeOK /\ Numbered /\ NothingLost /\ AckedStaysGone /\ PullIsExact

LEMMA IInvInit == Init => IInv
  <1> SUFFICES ASSUME Init PROVE IInv
    OBVIOUS
  <1>1. Waiting = {}
    BY DEF Init, Waiting
  <1>2. TypeOK
    BY DEF Init, TypeOK
  <1> QED
    BY <1>1, <1>2 DEF Init, IInv, Numbered, NothingLost, AckedStaysGone, PullIsExact

\* An accepted item joins its queue, and the answers of the pulls that share it.
LEMMA EnqueueKeepsIInv ==
    ASSUME IInv, NEW s \in Inbox, NEW i \in Inbox, NEW e \in Envelope,
           EnqueueEnvelope(s, i, e)
    PROVE  IInv'
  <1> DEFINE item == [id |-> lastId + 1, inbox |-> i, envelope |-> e,
                      expiresAt |-> clock + Ttl]
  <1>1. /\ queue' = [queue EXCEPT ![i] = @ \union {item}]
        /\ lastId' = lastId + 1
        /\ accepted' = accepted \union {item}
        /\ UNCHANGED <<clock, revoked, pulls, ackedUpTo>>
    BY DEF EnqueueEnvelope
  <1>2. /\ item \in Item /\ item.id = lastId + 1 /\ item.inbox = i
        /\ item.envelope = e /\ lastId \in Nat
    BY BoundAssumption DEF IInv, TypeOK, Item
  <1> HIDE DEF item
  <1>3. TypeOK'
    BY <1>1, <1>2 DEF IInv, TypeOK
  <1>4. /\ queue'[i] = queue[i] \union {item}
        /\ \A j \in Inbox : j # i => queue'[j] = queue[j]
    BY <1>1 DEF IInv, TypeOK
  <1>5. \A x \in accepted : x \in Item /\ x.id \in Nat /\ x.id <= lastId
    BY DEF IInv, TypeOK, Numbered, Item
  <1>6. \A y \in Inbox \X Envelope : ackedUpTo[y] \in Nat /\ ackedUpTo[y] <= lastId
    BY DEF IInv, TypeOK, Numbered
  <1>7. Waiting' = Waiting
    BY <1>1 DEF Waiting
  <1>8. \A p \in Waiting : pulls[p] \in Pull
    BY DEF IInv, TypeOK, Waiting
  <1>9. Numbered'
    <2>1. \A x \in accepted' : x.id <= lastId'
      BY <1>1, <1>2, <1>5
    <2>2. \A j \in Inbox : \A x \in queue'[j] : x \in accepted' /\ x.inbox = j
      BY <1>1, <1>2, <1>4 DEF IInv, Numbered
    <2>3. \A y \in Inbox \X Envelope : ackedUpTo'[y] <= lastId'
      BY <1>1, <1>2, <1>6
    <2>4. \A p \in Waiting' : pulls'[p].after <= lastId'
      <3>1. \A p \in Waiting : pulls[p].after \in Nat /\ pulls[p].after <= lastId
        BY <1>8 DEF IInv, Numbered, Pull
      <3> QED
        BY <1>1, <1>2, <1>7, <3>1
    <2> QED
      BY <2>1, <2>2, <2>3, <2>4 DEF Numbered
  <1>10. NothingLost'
    <2>1. item \in queue'[item.inbox]
      BY <1>2, <1>4
    <2>2. \A x \in accepted : x.inbox \in Inbox
      BY <1>5 DEF Item
    <2> QED
      BY <1>1, <1>4, <2>1, <2>2 DEF IInv, NothingLost
  <1>11. AckedStaysGone'
    <2>1. item.id > ackedUpTo[<<i, item.envelope>>]
      BY <1>2, <1>6
    <2> QED
      BY <1>1, <1>4, <2>1 DEF IInv, AckedStaysGone
  <1>12. PullIsExact'
    <2> SUFFICES ASSUME NEW p \in Waiting
                 PROVE  /\ pulls[p].due \subseteq Answer(p)'
                        /\ \A x \in Answer(p)' :
                              x \in pulls[p].due \/ x.id > pulls[p].after
      BY <1>1, <1>7 DEF PullIsExact
    <2>1. Answer(p) \subseteq Answer(p)' /\ Answer(p)' \subseteq Answer(p) \union {item}
      BY <1>1, <1>4, <1>8 DEF Answer, Pull
    <2>2. item.id > pulls[p].after
      BY <1>2, <1>8 DEF IInv, Numbered, Pull
    <2> QED
      BY <2>1, <2>2 DEF IInv, PullIsExact
  <1> QED
    BY <1>3, <1>9, <1>10, <1>11, <1>12 DEF IInv

\* An acknowledgement removes every item of the envelope, and only from the
\* state: a pull that waits keeps its array.
LEMMA AckKeepsIInv ==
    ASSUME IInv, NEW i \in Inbox, NEW e \in Envelope, AckEnvelope(i, e)
    PROVE  IInv'
  <1>1. /\ queue' = [queue EXCEPT ![i] = {x \in @ : x.envelope # e}]
        /\ pulls' = Replaced(i, pulls)
        /\ ackedUpTo' = [ackedUpTo EXCEPT ![<<i, e>>] = lastId]
        /\ UNCHANGED <<clock, revoked, lastId, accepted>>
    BY DEF AckEnvelope
  <1>2. /\ queue' \in [Inbox -> SUBSET Item]
        /\ queue'[i] = {x \in queue[i] : x.envelope # e}
        /\ \A j \in Inbox \ {i} : queue'[j] = queue[j]
    BY <1>1 DEF IInv, TypeOK
  <1>3. /\ pulls' \in [Puller -> Pull \union {Idle}]
        /\ Waiting' = Waiting
        /\ \A p \in Waiting : /\ Answer(p)' = Answer(p)
                              /\ pulls'[p].due = pulls[p].due
                              /\ pulls'[p].after = pulls[p].after
    BY <1>1, <1>2, ReplacedLemma DEF IInv
  <1>4. /\ ackedUpTo' \in [Inbox \X Envelope -> Nat]
        /\ ackedUpTo'[<<i, e>>] = lastId
        /\ \A y \in Inbox \X Envelope : y # <<i, e>> => ackedUpTo'[y] = ackedUpTo[y]
    BY <1>1 DEF IInv, TypeOK
  <1>5. TypeOK'
    BY <1>1, <1>2, <1>3, <1>4 DEF IInv, TypeOK
  <1>6. Numbered'
    <2>1. \A y \in Inbox \X Envelope : ackedUpTo'[y] <= lastId
      BY <1>4 DEF IInv, Numbered, TypeOK
    <2> QED
      BY <1>1, <1>2, <1>3, <2>1 DEF IInv, Numbered
  <1>7. NothingLost'
    <2> SUFFICES ASSUME NEW x \in accepted
                 PROVE  \/ x \in queue'[x.inbox]
                        \/ x.id <= ackedUpTo'[<<x.inbox, x.envelope>>]
                        \/ x.expiresAt <= clock
                        \/ x.inbox \in revoked
      BY <1>1 DEF NothingLost
    <2>1. x \in Item /\ x.id <= lastId
      BY DEF IInv, TypeOK, Numbered
    <2>2. CASE x.inbox = i /\ x.envelope = e
      BY <1>4, <2>1, <2>2
    <2>3. CASE ~(x.inbox = i /\ x.envelope = e)
      <3>1. ackedUpTo'[<<x.inbox, x.envelope>>] = ackedUpTo[<<x.inbox, x.envelope>>]
        BY <1>4, <2>1, <2>3 DEF Item
      <3>2. x \in queue[x.inbox] => x \in queue'[x.inbox]
        BY <1>2, <2>1, <2>3 DEF Item
      <3> QED
        BY <3>1, <3>2 DEF IInv, NothingLost
    <2> QED
      BY <2>2, <2>3
  <1>8. AckedStaysGone'
    <2> SUFFICES ASSUME NEW j \in Inbox, NEW x \in queue'[j]
                 PROVE  x.id > ackedUpTo'[<<j, x.envelope>>]
      BY DEF AckedStaysGone
    <2>1. x \in queue[j] /\ x \in Item /\ (j = i => x.envelope # e)
      BY <1>2 DEF IInv, TypeOK
    <2>2. ackedUpTo'[<<j, x.envelope>>] = ackedUpTo[<<j, x.envelope>>]
      BY <1>4, <2>1 DEF Item
    <2> QED
      BY <2>1, <2>2 DEF IInv, AckedStaysGone
  <1>9. PullIsExact'
    BY <1>3 DEF IInv, PullIsExact
  <1> QED
    BY <1>5, <1>6, <1>7, <1>8, <1>9 DEF IInv

\* A queue may lose items to expiry or to a revocation.
LEMMA ShrinkingKeepsIInv ==
    ASSUME IInv, NEW i \in Inbox,
           queue' \in [Inbox -> SUBSET Item],
           queue'[i] \subseteq queue[i],
           \A j \in Inbox \ {i} : queue'[j] = queue[j],
           i \in revoked \/ \A x \in queue[i] \ queue'[i] : x.expiresAt <= clock,
           UNCHANGED <<clock, revoked, lastId, accepted, ackedUpTo>>
    PROVE  NothingLost' /\ AckedStaysGone'
           /\ \A j \in Inbox : \A x \in queue'[j] : x \in accepted' /\ x.inbox = j
  <1>1. \A x \in accepted : x.inbox \in Inbox
    BY DEF IInv, TypeOK, Item
  <1>2. NothingLost'
    BY <1>1 DEF IInv, NothingLost
  <1>3. AckedStaysGone'
    BY DEF IInv, AckedStaysGone
  <1> QED
    BY <1>2, <1>3 DEF IInv, Numbered

LEMMA PullRevokedKeepsIInv ==
    ASSUME IInv, NEW p \in Puller, NEW i \in Inbox, PullRevoked(p, i)
    PROVE  IInv'
  <1>1. /\ i \in revoked
        /\ queue' = [queue EXCEPT ![i] = {}]
        /\ pulls' = Replaced(i, pulls)
        /\ UNCHANGED <<clock, revoked, lastId, accepted, ackedUpTo>>
    BY DEF PullRevoked
  <1>2. /\ queue' \in [Inbox -> SUBSET Item]
        /\ queue'[i] = {}
        /\ \A j \in Inbox \ {i} : queue'[j] = queue[j]
    BY <1>1 DEF IInv, TypeOK
  <1>3. /\ pulls' \in [Puller -> Pull \union {Idle}]
        /\ Waiting' = Waiting
        /\ \A q \in Waiting : /\ Answer(q)' = Answer(q)
                              /\ pulls'[q].due = pulls[q].due
                              /\ pulls'[q].after = pulls[q].after
    BY <1>1, <1>2, ReplacedLemma DEF IInv
  <1>4. TypeOK'
    BY <1>1, <1>2, <1>3 DEF IInv, TypeOK
  <1>5. /\ NothingLost' /\ AckedStaysGone'
        /\ \A j \in Inbox : \A x \in queue'[j] : x \in accepted' /\ x.inbox = j
    BY <1>1, <1>2, ShrinkingKeepsIInv
  <1>6. Numbered'
    BY <1>1, <1>3, <1>5 DEF IInv, Numbered
  <1>7. PullIsExact'
    BY <1>3 DEF IInv, PullIsExact
  <1> QED
    BY <1>4, <1>5, <1>6, <1>7 DEF IInv

LEMMA PullBeginKeepsIInv ==
    ASSUME IInv, NEW p \in Puller, NEW i \in Inbox, PullBegin(p, i)
    PROVE  IInv'
  <1> DEFINE filtered == {x \in queue[i] : Unexpired(x)}
             mine == [inbox |-> i, shared |-> TRUE, items |-> {},
                      due |-> {x \in queue[i] : x.expiresAt > clock},
                      after |-> lastId]
             others == Replaced(i, pulls)
  <1>1. /\ pulls[p] = Idle
        /\ queue' = [queue EXCEPT ![i] = filtered]
        /\ pulls' = [others EXCEPT ![p] = mine]
        /\ UNCHANGED <<clock, revoked, lastId, accepted, ackedUpTo>>
    BY DEF PullBegin
  <1>2. /\ queue' \in [Inbox -> SUBSET Item]
        /\ queue'[i] = filtered
        /\ \A j \in Inbox \ {i} : queue'[j] = queue[j]
    BY <1>1 DEF IInv, TypeOK
  <1>3. DOMAIN others = Puller
    BY DEF Replaced
  <1>4. mine \in Pull
    BY DEF IInv, TypeOK, Pull
  <1>5. mine # Idle
    <2>1. "due" \in DOMAIN mine /\ "due" \notin DOMAIN Idle
      BY DEF Idle
    <2> QED
      BY <2>1
  <1>6. /\ mine.due = filtered /\ mine.after = lastId /\ mine.inbox = i /\ mine.shared
    BY DEF Unexpired
  <1> HIDE DEF mine
  <1>7. /\ pulls'[p] = mine
        /\ \A q \in Puller \ {p} : pulls'[q] = others[q]
        /\ DOMAIN pulls' = Puller /\ pulls' = [q \in Puller |-> pulls'[q]]
    BY <1>1, <1>3
  <1>8. ASSUME NEW q \in Puller \ {p}
        PROVE  /\ pulls'[q] \in Pull \union {Idle}
               /\ pulls'[q] = Idle <=> pulls[q] = Idle
               /\ pulls[q] # Idle => /\ Answer(q)' = Answer(q)
                                     /\ pulls'[q].due = pulls[q].due
                                     /\ pulls'[q].after = pulls[q].after
    <2> DEFINE detached == [pulls[q] EXCEPT !.shared = FALSE, !.items = queue[i]]
    <2>1. pulls[q] \in Pull \/ (pulls[q] = Idle /\ ~pulls[q].shared)
      BY DEF IInv, TypeOK, Idle
    <2>2. \A r \in Pull : r # Idle
      <3>1. \A r \in Pull : "due" \in DOMAIN r
        BY DEF Pull
      <3>2. "due" \notin DOMAIN Idle
        BY DEF Idle
      <3> QED
        BY <3>1, <3>2
    <2>3. pulls'[q] = IF pulls[q].shared /\ pulls[q].inbox = i
                      THEN detached ELSE pulls[q]
      BY <1>7 DEF Replaced
    <2>4. CASE pulls[q].shared /\ pulls[q].inbox = i
      <3>1. pulls[q] \in Pull /\ pulls'[q] = detached /\ queue[i] \in SUBSET Item
        BY <2>1, <2>3, <2>4 DEF IInv, TypeOK
      <3>2. /\ detached \in Pull
            /\ ~detached.shared
            /\ detached.items = queue[i]
            /\ detached.due = pulls[q].due
            /\ detached.after = pulls[q].after
        BY <3>1 DEF Pull
      <3> HIDE DEF detached
      <3>3. Answer(q) = queue[i] /\ Answer(q)' = queue[i]
        BY <2>4, <3>1, <3>2 DEF Answer
      <3> QED
        BY <2>2, <3>1, <3>2, <3>3
    <2>5. CASE ~(pulls[q].shared /\ pulls[q].inbox = i)
      <3>1. pulls'[q] = pulls[q]
        BY <2>3, <2>5
      <3>2. CASE pulls[q] = Idle
        BY <3>1, <3>2
      <3>3. CASE pulls[q] \in Pull
        <4>1. Answer(q)' = Answer(q)
          BY <1>2, <2>5, <3>1, <3>3 DEF Answer, Pull
        <4> QED
          BY <3>1, <3>3, <4>1
      <3> QED
        BY <2>1, <3>2, <3>3
    <2> QED
      BY <2>4, <2>5
  <1>9. pulls' \in [Puller -> Pull \union {Idle}]
    <2>1. \A q \in Puller : pulls'[q] \in Pull \union {Idle}
      BY <1>4, <1>7, <1>8
    <2> QED
      BY <1>7, <2>1
  <1>10. TypeOK'
    BY <1>1, <1>2, <1>9 DEF IInv, TypeOK
  <1>11. /\ NothingLost' /\ AckedStaysGone'
         /\ \A j \in Inbox : \A x \in queue'[j] : x \in accepted' /\ x.inbox = j
    <2>1. \A x \in queue[i] \ queue'[i] : x.expiresAt <= clock
      BY <1>2 DEF Unexpired, IInv, TypeOK, Item
    <2> QED
      BY <1>1, <1>2, <2>1, ShrinkingKeepsIInv
  <1>12. Waiting' = Waiting \union {p} /\ p \notin Waiting
    BY <1>1, <1>5, <1>7, <1>8 DEF Waiting
  <1>13. Answer(p)' = filtered
    BY <1>2, <1>6, <1>7 DEF Answer
  <1>14. Numbered'
    <2>1. \A q \in Waiting' : pulls'[q].after <= lastId
      BY <1>6, <1>7, <1>8, <1>12 DEF IInv, Numbered, TypeOK, Waiting
    <2> QED
      BY <1>1, <1>11, <2>1 DEF IInv, Numbered
  <1>15. PullIsExact'
    <2>1. \A q \in Waiting : q \in Puller \ {p} /\ pulls[q] # Idle
      BY <1>12 DEF Waiting
    <2> QED
      BY <1>6, <1>7, <1>8, <1>12, <1>13, <2>1 DEF IInv, PullIsExact
  <1> QED
    BY <1>10, <1>11, <1>14, <1>15 DEF IInv

\* Every step keeps the invariant.
LEMMA IInvStep == IInv /\ [Next]_vars => IInv'
  <1> SUFFICES ASSUME IInv, [Next]_vars
               PROVE  IInv'
    OBVIOUS
  <1>1. ASSUME NEW p \in Puller, PullEnd(p)
        PROVE  IInv'
    <2>1. /\ pulls' = [pulls EXCEPT ![p] = Idle]
          /\ UNCHANGED <<clock, revoked, queue, lastId, accepted, ackedUpTo>>
      BY <1>1 DEF PullEnd
    <2>2. /\ Waiting' \subseteq Waiting
          /\ \A q \in Waiting' : pulls'[q] = pulls[q] /\ Answer(q)' = Answer(q)
      BY <2>1 DEF Waiting, Answer, IInv, TypeOK
    <2> QED
      BY <2>1, <2>2 DEF IInv, TypeOK, Numbered, NothingLost, AckedStaysGone, PullIsExact
  <1>2. ASSUME NEW i \in Inbox, RevokeDevice(i)
        PROVE  IInv'
    <2>1. /\ revoked' = revoked \union {i}
          /\ UNCHANGED <<clock, queue, pulls, lastId, accepted, ackedUpTo>>
      BY <1>2 DEF RevokeDevice
    <2> QED
      BY <2>1, AnswerFrame
         DEF IInv, TypeOK, Numbered, NothingLost, AckedStaysGone, PullIsExact
  <1>3. CASE Tick
    <2>1. /\ clock' = clock + 1 /\ clock \in Nat
          /\ UNCHANGED <<revoked, queue, pulls, lastId, accepted, ackedUpTo>>
      BY <1>3 DEF Tick, IInv, TypeOK
    <2>2. TypeOK'
      BY <2>1 DEF IInv, TypeOK
    <2>3. NothingLost'
      <3>1. \A x \in accepted : x.expiresAt <= clock => x.expiresAt <= clock'
        BY <2>1 DEF IInv, TypeOK, Item
      <3> QED
        BY <2>1, <3>1 DEF IInv, NothingLost
    <2> QED
      BY <2>1, <2>2, <2>3, AnswerFrame DEF IInv, Numbered, AckedStaysGone, PullIsExact
  <1>4. CASE UNCHANGED vars
    <2>1. UNCHANGED <<clock, revoked, queue, pulls, lastId, accepted, ackedUpTo>>
      BY <1>4 DEF vars
    <2> QED
      BY <2>1, AnswerFrame
         DEF IInv, TypeOK, Numbered, NothingLost, AckedStaysGone, PullIsExact
  <1> QED
    BY <1>1, <1>2, <1>3, <1>4, EnqueueKeepsIInv, AckKeepsIInv,
       PullRevokedKeepsIInv, PullBeginKeepsIInv DEF Next

\* The invariant holds in every reachable state.
THEOREM InvariantHolds == Spec => []IInv
  BY IInvInit, IInvStep, PTL DEF Spec

----------------------------------------------------------------------------
(* What follows from the invariant *)

\* The tables of the relay hold what they are meant to hold.
THEOREM TypeCorrect == Spec => []TypeOK
  <1>1. IInv => TypeOK
    BY DEF IInv
  <1> QED
    BY <1>1, InvariantHolds, PTL

\* No interleaving of enqueueing, acknowledging and pulling loses an accepted
\* item before its time is over.
THEOREM NoItemIsLost == Spec => []NothingLost
  <1>1. IInv => NothingLost
    BY DEF IInv
  <1> QED
    BY <1>1, InvariantHolds, PTL

\* No interleaving puts an acknowledged item back.
THEOREM NoItemComesBack == Spec => []AckedStaysGone
  <1>1. IInv => AckedStaysGone
    BY DEF IInv
  <1> QED
    BY <1>1, InvariantHolds, PTL

\* A pull that waits answers with what it found and with newer items only.
THEOREM PullsAreExact == Spec => []PullIsExact
  <1>1. IInv => PullIsExact
    BY DEF IInv
  <1> QED
    BY <1>1, InvariantHolds, PTL

----------------------------------------------------------------------------
(* The relay implements a mailbox *)

Mail == [i \in Inbox |-> Deliverable(i)]

\* Every step of the relay is a step of the mailbox, or invisible in it.
LEMMA MailboxStep == IInv /\ [Next]_vars => [Box!Next]_<<clock, revoked, lastId, Mail>>
  <1> SUFFICES ASSUME IInv, [Next]_vars
               PROVE  Box!Next \/ UNCHANGED <<clock, revoked, lastId, Mail>>
    BY DEF Mail
  <1> USE DEF Mail
  <1>1. ASSUME NEW s \in Inbox, NEW i \in Inbox, NEW e \in Envelope,
               EnqueueEnvelope(s, i, e)
        PROVE  Box!Post(i, e)
    <2> DEFINE item == [id |-> lastId + 1, inbox |-> i, envelope |-> e,
                        expiresAt |-> clock + Ttl]
    <2>1. /\ i \notin revoked
          /\ queue' = [queue EXCEPT ![i] = @ \union {item}]
          /\ lastId' = lastId + 1
          /\ UNCHANGED <<clock, revoked>>
      BY <1>1 DEF EnqueueEnvelope
    <2>2. item.expiresAt > clock
      BY BoundAssumption DEF IInv, TypeOK
    <2> HIDE DEF item
    <2>3. Mail' = [Mail EXCEPT ![i] = @ \union {item}]
      BY <2>1, <2>2 DEF Deliverable, IInv, TypeOK
    <2> QED
      BY <2>1, <2>3 DEF Box!Post, item
  <1>2. ASSUME NEW i \in Inbox, NEW e \in Envelope, AckEnvelope(i, e)
        PROVE  Box!Acknowledge(i, e)
    <2>1. /\ queue' = [queue EXCEPT ![i] = {x \in @ : x.envelope # e}]
          /\ UNCHANGED <<clock, revoked, lastId>>
      BY <1>2 DEF AckEnvelope
    <2>2. Mail' = [Mail EXCEPT ![i] = {x \in @ : x.envelope # e}]
      BY <2>1 DEF Deliverable, IInv, TypeOK
    <2> QED
      BY <2>1, <2>2 DEF Box!Acknowledge
  <1>3. ASSUME NEW p \in Puller, NEW i \in Inbox, PullRevoked(p, i) \/ PullBegin(p, i)
        PROVE  UNCHANGED <<clock, revoked, lastId, Mail>>
    <2>1. CASE PullRevoked(p, i)
      BY <2>1 DEF PullRevoked, Deliverable, IInv, TypeOK
    <2>2. CASE PullBegin(p, i)
      BY <2>2 DEF PullBegin, Unexpired, Deliverable, IInv, TypeOK
    <2> QED
      BY <1>3, <2>1, <2>2
  <1>4. ASSUME NEW p \in Puller, PullEnd(p)
        PROVE  UNCHANGED <<clock, revoked, lastId, Mail>>
    BY <1>4 DEF PullEnd, Deliverable
  <1>5. ASSUME NEW i \in Inbox, RevokeDevice(i)
        PROVE  Box!Close(i)
    <2>1. Mail' = [Mail EXCEPT ![i] = {}]
      BY <1>5 DEF RevokeDevice, Deliverable
    <2> QED
      BY <1>5, <2>1 DEF RevokeDevice, Box!Close
  <1>6. ASSUME Tick
        PROVE  Box!Elapse
    <2>1. /\ clock' = clock + 1 /\ clock \in Nat
          /\ UNCHANGED <<revoked, queue, lastId>>
      BY <1>6 DEF Tick, IInv, TypeOK
    <2>2. \A i \in Inbox : \A x \in queue[i] : x.expiresAt > clock' => x.expiresAt > clock
      BY <2>1 DEF IInv, TypeOK, Item
    <2>3. \A i \in Inbox : Mail'[i] = {x \in Mail[i] : x.expiresAt > clock'}
      BY <2>1, <2>2 DEF Deliverable
    <2> QED
      BY <2>1, <2>3 DEF Box!Elapse
  <1>7. CASE UNCHANGED vars
    BY <1>7 DEF vars, Deliverable
  <1> QED
    BY <1>1, <1>2, <1>3, <1>4, <1>5, <1>6, <1>7 DEF Next, Box!Next

\* Posting, acknowledging, expiry and closing are all a client can notice of
\* the relay, with any number of pulls under way.
THEOREM RelayIsMailbox == Spec => MailboxSpec
  <1>1. Init => Box!Init
    BY DEF Init, Box!Init, Deliverable
  <1>2. IInv /\ [Next]_vars => [Box!Next]_<<clock, revoked, lastId, Mail>>
    BY MailboxStep
  <1> QED
    BY <1>1, <1>2, InvariantHolds, PTL DEF Spec, MailboxSpec, Box!Spec, Mail

=============================================================================

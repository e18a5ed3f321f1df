------------------------- MODULE RatchetPairProofs -------------------------
(***************************************************************************)
(* Proofs about RatchetPair, for any MAX_SKIP, any number of messages and  *)
(* whatever the relay does to them: keys are used once, opened messages    *)
(* are refused and others only for a reason, skipped keys are those of     *)
(* messages, and the pair implements SecureChannel.                        *)
(*                                                                         *)
(* The argument is an order.  The root key grows by a step at every turn,  *)
(* and a chain by one at every message, so all a device has sealed lies    *)
(* behind its sending chain, and all it has opened behind its receiving    *)
(* chain: on that chain at a smaller index, or under an earlier root.      *)
(* What is not opened yet opens because the two sides stay within a turn   *)
(* of each other (InStep): one of them is ahead, and the other derives     *)
(* the same root as soon as it meets the key pair that turn was made with. *)
(***************************************************************************)
EXTENDS RatchetPair, TLAPS

----------------------------------------------------------------------------
(* Sequences of anything *)

IsSeq(seq) == seq \in Seq(Entries(seq))

LEMMA EmptyIsSeq == IsSeq(<< >>) /\ Entries(<< >>) = {}
  BY DEF IsSeq, Entries

\* What is appended comes last, and the rest stays where it is.
LEMMA AppendIsSeq ==
    ASSUME NEW seq, IsSeq(seq), NEW e
    PROVE  /\ IsSeq(Append(seq, e))
           /\ Entries(Append(seq, e)) = Entries(seq) \union {e}
           /\ Len(seq) \in Nat /\ Len(Append(seq, e)) = Len(seq) + 1
           /\ DOMAIN seq = 1 .. Len(seq)
           /\ DOMAIN Append(seq, e) = 1 .. Len(seq) + 1
           /\ Append(seq, e)[Len(seq) + 1] = e
           /\ \A i \in DOMAIN seq : Append(seq, e)[i] = seq[i]
  <1> DEFINE S == Entries(seq) \union {e}
             longer == Append(seq, e)
  <1>1. seq \in Seq(S) /\ e \in S
    BY DEF IsSeq, Entries
  <1>2. longer \in Seq(S)
    BY <1>1
  <1>3. /\ Len(seq) \in Nat /\ Len(longer) = Len(seq) + 1
        /\ DOMAIN seq = 1 .. Len(seq)
        /\ DOMAIN longer = 1 .. Len(seq) + 1
        /\ longer[Len(seq) + 1] = e
        /\ \A i \in DOMAIN seq : longer[i] = seq[i]
    BY <1>1
  <1>4. Entries(longer) = S
    <2> HIDE DEF longer
    <2> QED
      BY <1>3 DEF Entries
  <1> QED
    BY <1>2, <1>3, <1>4 DEF IsSeq

\* What is left of a sequence has no new entries.
LEMMA WithoutIsSeq ==
    ASSUME NEW seq, IsSeq(seq), NEW i \in DOMAIN seq
    PROVE  IsSeq(Without(seq, i)) /\ Entries(Without(seq, i)) \subseteq Entries(seq)
  <1>1. /\ Len(seq) \in Nat /\ DOMAIN seq = 1 .. Len(seq) /\ i \in 1 .. Len(seq)
        /\ seq \in Seq(Entries(seq))
    BY DEF IsSeq
  <1> DEFINE S == Entries(seq)
             a == SubSeq(seq, 1, i - 1)
             b == SubSeq(seq, i + 1, Len(seq))
  <1>2. a \in Seq(S) /\ b \in Seq(S)
    BY <1>1
  <1>3. a \o b \in Seq(S)
    <2> HIDE DEF a, b
    <2> QED
      BY <1>2
  <1>4. Without(seq, i) \in Seq(S)
    BY <1>3 DEF Without
  <1>5. ASSUME NEW w, w \in Seq(S)
        PROVE  IsSeq(w) /\ Entries(w) \subseteq S
    BY <1>5 DEF IsSeq, Entries
  <1> QED
    BY <1>4, <1>5

LEMMA TailIsSeq ==
    ASSUME NEW seq, IsSeq(seq), seq # << >>
    PROVE  IsSeq(Tail(seq)) /\ Entries(Tail(seq)) \subseteq Entries(seq)
  <1>1. Tail(seq) \in Seq(Entries(seq))
    BY DEF IsSeq
  <1>5. ASSUME NEW S, NEW w, w \in Seq(S)
        PROVE  IsSeq(w) /\ Entries(w) \subseteq S
    BY <1>5 DEF IsSeq, Entries
  <1> QED
    BY <1>1, <1>5

----------------------------------------------------------------------------
(* Roots and chains *)

IsRoot(r) == r = [secrets |-> r.secrets, steps |-> r.steps] /\ IsSeq(r.steps)

Depth(r) == Len(r.steps)

\* Every step of the root key is taken in one direction.
LEMMA NextRootEffect ==
    ASSUME NEW r, IsRoot(r), NEW secret, NEW from, NEW to
    PROVE  LET next == NextRoot(r, secret, from, to) IN
           /\ IsRoot(next)
           /\ Depth(r) \in Nat
           /\ Depth(next) = Depth(r) + 1
           /\ next.steps # << >>
           /\ next.steps[Depth(next)] = <<secret, from, to>>
  <1> DEFINE e == <<secret, from, to>>
             next == NextRoot(r, secret, from, to)
  <1>1. next = [secrets |-> r.secrets, steps |-> Append(r.steps, e)]
    <2>1. PICK a, b : r = [secrets |-> a, steps |-> b]
      BY DEF IsRoot
    <2>2. ASSUME NEW x
          PROVE  [r EXCEPT !.steps = x] = [secrets |-> a, steps |-> x]
      BY <2>1
    <2>3. r.secrets = a /\ r.steps = b
      BY <2>1
    <2> QED
      BY <2>2, <2>3 DEF NextRoot
  <1>2. IsSeq(r.steps)
    BY DEF IsRoot
  <1>3. /\ IsSeq(Append(r.steps, e))
        /\ Len(r.steps) \in Nat /\ Len(Append(r.steps, e)) = Len(r.steps) + 1
        /\ Append(r.steps, e)[Len(r.steps) + 1] = e
    BY <1>2, AppendIsSeq
  <1> HIDE DEF next, e
  <1>4. next.steps = Append(r.steps, e) /\ next.secrets = r.secrets
    BY <1>1
  <1>5. Append(r.steps, e) # << >>
    BY <1>3
  <1>6. IsRoot(next)
    BY <1>1, <1>3, <1>4 DEF IsRoot
  <1>7. /\ Depth(r) \in Nat /\ Depth(next) = Depth(r) + 1
        /\ next.steps # << >>
        /\ next.steps[Depth(next)] = e
    BY <1>3, <1>4, <1>5 DEF Depth
  <1> QED
    BY <1>6, <1>7 DEF next, e

\* One step of a chain; its label tells the direction of a chain that begins a
\* session, and its root's last step that of every other.
ChainRec(root, label, index) == [root |-> root, label |-> label, index |-> index]

IsChain(c) ==
    /\ c = ChainRec(c.root, c.label, c.index)
    /\ IsRoot(c.root)
    /\ c.index \in Nat

WrittenBy(d, c) ==
    IF c.root.steps = << >>
    THEN c.label = <<d, Peer(d)>>
    ELSE c.root.steps[Depth(c.root)][2] = d

\* Where a key lies behind the chain a device seals with.
Before(k, c) ==
    \/ Depth(k.root) \in 0 .. Depth(c.root) - 1
    \/ k.root = c.root /\ k.label = c.label /\ k.index \in 0 .. c.index - 1

\* Chains of the two devices never meet.
LEMMA DirectionsDiffer ==
    ASSUME NEW c, WrittenBy(Alice, c), WrittenBy(Bob, c)
    PROVE  FALSE
  <1>1. Alice # Bob /\ Peer(Alice) = Bob /\ Peer(Bob) = Alice
    BY PairAssumption DEF Peer
  <1>2. CASE c.root.steps = << >>
    BY <1>1, <1>2 DEF WrittenBy
  <1>3. CASE c.root.steps # << >>
    BY <1>1, <1>3 DEF WrittenBy
  <1> QED
    BY <1>2, <1>3

----------------------------------------------------------------------------
(* Sessions *)

SkippedKey(s, index) ==
    [ratchet |-> s.remote, index |-> index,
     key |-> ChainRec(s.receive.root, s.receive.label, index)]

SessionFields == {"role", "local", "peer", "preKey", "root", "own", "remote",
                  "send", "receive", "skipped"}

HasFields(d, s) == DOMAIN s = SessionFields /\ s.local = d /\ s.peer = Peer(d)

\* What a session of d is.  The keys it keeps are of the chain it receives on,
\* behind the index it expects next.
IsSession(d, s) ==
    /\ HasFields(d, s)
    /\ s.role \in {"initiator", "responder"}
    /\ s.own # NoKey
    /\ IsRoot(s.root) /\ IsChain(s.send) /\ IsChain(s.receive)
    /\ s.send.root = s.root /\ WrittenBy(d, s.send)
    /\ Depth(s.receive.root) <= Depth(s.root)
    /\ \A k \in s.skipped :
          k = SkippedKey(s, k.index) /\ k.index \in Nat /\ k.index < s.receive.index
    /\ s.remote = NoKey => s.skipped = {} /\ s.receive.index = 0

\* A session that begins.
LEMMA NewSessionEffect ==
    ASSUME NEW d \in Device, NEW role \in {"initiator", "responder"}, NEW secrets,
           NEW preKey, NEW own, own # NoKey
    PROVE  LET root == [secrets |-> secrets, steps |-> << >>]
               s == NewSession(d, Peer(d), role, root, preKey, own)
           IN /\ IsSession(d, s) /\ s.own = own /\ s.remote = NoKey /\ s.role = role
              /\ s.send.index = 0
  <1> DEFINE root == [secrets |-> secrets, steps |-> << >>]
             s == NewSession(d, Peer(d), role, root, preKey, own)
  <1>1. IsRoot(root) /\ root.steps = << >> /\ Depth(root) = 0
    BY EmptyIsSeq DEF IsRoot, Depth
  <1> HIDE DEF root
  <1> DEFINE send == ChainRec(root, <<d, Peer(d)>>, 0)
             receive == ChainRec(root, <<Peer(d), d>>, 0)
  <1>2. /\ HasFields(d, s) /\ s.role = role /\ s.root = root /\ s.own = own
        /\ s.remote = NoKey /\ s.send = send /\ s.receive = receive /\ s.skipped = {}
    BY DEF NewSession, InitialChain, ChainRec, HasFields, SessionFields
  <1> HIDE DEF s
  <1>3. IsChain(s.send) /\ IsChain(s.receive)
    BY <1>1, <1>2 DEF IsChain, ChainRec
  <1>4. s.send.root = s.root /\ s.receive.root = s.root /\ s.receive.index = 0
    BY <1>2 DEF ChainRec
  <1>5. WrittenBy(d, s.send)
    BY <1>1, <1>2 DEF WrittenBy, ChainRec
  <1>6. Depth(s.receive.root) <= Depth(s.root)
    BY <1>1, <1>2, <1>4
  <1>7. /\ IsSession(d, s) /\ s.own = own /\ s.remote = NoKey /\ s.role = role
        /\ s.send.index = 0
    BY <1>1, <1>2, <1>3, <1>4, <1>5, <1>6 DEF IsSession, ChainRec
  <1> QED
    BY <1>7 DEF s, root

\* Sealing takes one step on the sending chain and changes nothing else.
LEMMA AfterSealEffect ==
    ASSUME NEW d \in Device, NEW s, IsSession(d, s)
    PROVE  /\ IsSession(d, AfterSeal(s))
           /\ AfterSeal(s) = [s EXCEPT !.send = ChainRec(s.send.root, s.send.label,
                                                         s.send.index + 1)]
           /\ AfterSeal(s).send = ChainRec(s.send.root, s.send.label, s.send.index + 1)
  <1> DEFINE t == AfterSeal(s)
             c == ChainRec(s.send.root, s.send.label, s.send.index + 1)
  <1>1. NextChain(s.send) = c
    BY DEF NextChain, IsSession, IsChain, ChainRec
  <1>2. t = [s EXCEPT !.send = c]
    BY <1>1 DEF AfterSeal, IsSession
  <1>3. IsChain(c) /\ c.root = s.send.root /\ c.label = s.send.label
    BY DEF IsSession, IsChain, ChainRec
  <1>4. WrittenBy(d, c)
    BY <1>3 DEF IsSession, WrittenBy
  <1> HIDE DEF t, c
  <1>5. /\ HasFields(d, t) /\ t.role = s.role /\ t.root = s.root
        /\ t.own = s.own /\ t.remote = s.remote /\ t.send = c
        /\ t.receive = s.receive /\ t.skipped = s.skipped
    BY <1>2 DEF IsSession, HasFields, SessionFields
  <1>6. IsSession(d, t)
    BY <1>3, <1>4, <1>5 DEF IsSession, SkippedKey
  <1> QED
    BY <1>2, <1>5, <1>6 DEF t, c

\* A turn: both roots are new, and so is every key.
Turned(d, s, theirs, fresh, t) ==
    /\ IsSession(d, t)
    /\ t.remote = theirs /\ t.own = fresh /\ t.receive.index = 0 /\ t.send.index = 0
    /\ Depth(s.root) \in Nat
    /\ Depth(t.receive.root) = Depth(s.root) + 1
    /\ Depth(t.root) > Depth(s.root)

LEMMA TurnEffect ==
    ASSUME NEW d \in Device, NEW s, IsSession(d, s),
           NEW theirs, theirs # NoKey, NEW fresh, fresh # NoKey,
           NEW t, t.skipped = {}, DOMAIN t = SessionFields,
           \A f \in SessionFields \ {"skipped"} : t[f] = Turn(s, theirs, fresh)[f]
    PROVE  Turned(d, s, theirs, fresh, t)
  <1> DEFINE received == ReceiveRoot(s, theirs)
             sent == NextRoot(received, diffieHellman(fresh, theirs), s.local, s.peer)
  <1>1. s.local = d /\ s.peer = Peer(d) /\ IsRoot(s.root)
    BY DEF IsSession, HasFields
  <1>2. IsRoot(received) /\ Depth(s.root) \in Nat /\ Depth(received) = Depth(s.root) + 1
    BY <1>1, NextRootEffect DEF ReceiveRoot
  <1> HIDE DEF received
  <1>3. /\ IsRoot(sent) /\ Depth(sent) = Depth(s.root) + 2
        /\ sent.steps # << >>
        /\ sent.steps[Depth(sent)] = <<diffieHellman(fresh, theirs), d, Peer(d)>>
    BY <1>1, <1>2, NextRootEffect
  <1>4. Turn(s, theirs, fresh) =
           [s EXCEPT !.root = sent, !.own = fresh, !.remote = theirs,
                     !.send = TurnChain(sent), !.receive = TurnChain(received)]
    BY DEF Turn, received
  <1> HIDE DEF sent
  <1>5. /\ HasFields(d, t) /\ t.role = s.role /\ t.root = sent
        /\ t.own = fresh /\ t.remote = theirs /\ t.send = TurnChain(sent)
        /\ t.receive = TurnChain(received)
    <2> DEFINE u == Turn(s, theirs, fresh)
    <2>1. /\ u.role = s.role /\ u.local = d /\ u.peer = Peer(d) /\ u.root = sent
          /\ u.own = fresh /\ u.remote = theirs /\ u.send = TurnChain(sent)
          /\ u.receive = TurnChain(received)
      BY <1>4 DEF IsSession, HasFields, SessionFields
    <2>2. \A f \in SessionFields \ {"skipped"} : t[f] = u[f]
      OBVIOUS
    <2> HIDE DEF u
    <2> QED
      BY <2>1, <2>2 DEF HasFields, SessionFields
  <1>6. /\ IsChain(t.send) /\ IsChain(t.receive)
        /\ t.send.root = sent /\ t.receive.root = received /\ t.receive.index = 0
        /\ t.send.index = 0
    BY <1>2, <1>3, <1>5 DEF IsChain, TurnChain, ChainRec
  <1>7. WrittenBy(d, t.send)
    BY <1>3, <1>6 DEF WrittenBy
  <1>8. Depth(t.receive.root) <= Depth(t.root)
    BY <1>2, <1>3, <1>5, <1>6
  <1>9. IsSession(d, t)
    BY <1>3, <1>5, <1>6, <1>7, <1>8 DEF IsSession
  <1> QED
    BY <1>2, <1>3, <1>5, <1>6, <1>9 DEF Turned

\* A responder's first message: its sending chain is new.
LEMMA FirstAnswerEffect ==
    ASSUME NEW d \in Device, NEW s, IsSession(d, s), s.remote = NoKey,
           NEW theirs, theirs # NoKey
    PROVE  LET t == FirstAnswer(s, theirs) IN
           /\ IsSession(d, t)
           /\ t.remote = theirs /\ t.own = s.own /\ t.receive.index = 0
           /\ t.skipped = {} /\ t.send.index = 0
           /\ Depth(s.root) \in Nat
           /\ Depth(t.root) > Depth(s.root)
  <1> DEFINE sent == NextRoot(s.root, diffieHellman(s.own, theirs), s.local, s.peer)
             t == FirstAnswer(s, theirs)
  <1>1. s.local = d /\ s.peer = Peer(d) /\ IsRoot(s.root)
    BY DEF IsSession, HasFields
  <1>2. /\ IsRoot(sent) /\ Depth(s.root) \in Nat /\ Depth(sent) = Depth(s.root) + 1
        /\ sent.steps # << >>
        /\ sent.steps[Depth(sent)] = <<diffieHellman(s.own, theirs), d, Peer(d)>>
    BY <1>1, NextRootEffect
  <1>3. t = [s EXCEPT !.root = sent, !.remote = theirs, !.send = TurnChain(sent)]
    BY DEF FirstAnswer
  <1> HIDE DEF sent, t
  <1>4. /\ HasFields(d, t) /\ t.role = s.role /\ t.root = sent
        /\ t.own = s.own /\ t.remote = theirs /\ t.send = TurnChain(sent)
        /\ t.receive = s.receive /\ t.skipped = s.skipped
    BY <1>3 DEF IsSession, HasFields, SessionFields
  <1>5. IsChain(t.send) /\ t.send.root = sent /\ t.send.index = 0
    BY <1>2, <1>4 DEF IsChain, TurnChain, ChainRec
  <1>6. WrittenBy(d, t.send)
    BY <1>2, <1>5 DEF WrittenBy
  <1>7. s.skipped = {} /\ s.receive.index = 0 /\ Depth(s.receive.root) <= Depth(s.root)
        /\ IsChain(s.receive) /\ IsRoot(s.receive.root)
    BY DEF IsSession, IsChain
  <1>8. Depth(s.receive.root) \in Nat
    BY <1>7, AppendIsSeq DEF IsRoot, Depth
  <1>9. Depth(t.receive.root) <= Depth(t.root)
    BY <1>2, <1>4, <1>7, <1>8
  <1>10. IsSession(d, t)
    BY <1>2, <1>4, <1>5, <1>6, <1>7, <1>9 DEF IsSession
  <1> QED
    BY <1>2, <1>4, <1>5, <1>7, <1>10 DEF t

\* A responder answers first with the key pair it began with.
OwnAfter(s, fresh) == IF s.remote = NoKey /\ s.role = "responder" THEN s.own ELSE fresh

\* What maybeAdvanceDhRatchet leaves to open a message with.
Advances(d, s, theirs, fresh, w) ==
    /\ IsSession(d, w)
    /\ w.remote = theirs /\ w.receive.index = 0 /\ w.skipped = {} /\ w.send.index = 0
    /\ Depth(s.root) \in Nat
    /\ Depth(w.root) > Depth(s.root)
    /\ s.remote # NoKey => Depth(w.receive.root) = Depth(s.root) + 1
    /\ w.own = OwnAfter(s, fresh)

LEMMA AdvancedEffect ==
    ASSUME NEW d \in Device, NEW s, IsSession(d, s),
           NEW theirs, theirs # NoKey, NEW fresh, fresh # NoKey, theirs # s.remote
    PROVE  Advances(d, s, theirs, fresh, Advanced(s, theirs, fresh))
  <1>0. s.role \in {"initiator", "responder"}
    BY DEF IsSession
  <1>1. CASE s.remote = NoKey /\ s.receive.index = 0 /\ s.role = "initiator"
    <2>1. Advanced(s, theirs, fresh) = Turn(s, theirs, fresh)
      BY <1>1 DEF Advanced
    <2>2. Turn(s, theirs, fresh).skipped = {}
          /\ DOMAIN Turn(s, theirs, fresh) = SessionFields
      BY <1>1 DEF Turn, IsSession, HasFields, SessionFields
    <2> QED
      BY <1>1, <2>1, <2>2, TurnEffect DEF Turned, Advances, OwnAfter
  <1>2. CASE s.remote = NoKey /\ s.receive.index = 0 /\ s.role = "responder"
    <2>1. Advanced(s, theirs, fresh) = FirstAnswer(s, theirs)
      BY <1>2 DEF Advanced
    <2> QED
      BY <1>2, <2>1, FirstAnswerEffect DEF Advances, OwnAfter
  <1>3. CASE ~(s.remote = NoKey /\ s.receive.index = 0)
    <2> DEFINE u == Turn(s, theirs, fresh)
               w == Advanced(s, theirs, fresh)
    <2>1. w = [u EXCEPT !.skipped = {}]
      BY <1>3 DEF Advanced
    <2>2. DOMAIN u = SessionFields
      BY DEF Turn, IsSession, HasFields
    <2> HIDE DEF w, u
    <2>3. /\ DOMAIN w = SessionFields /\ w.skipped = {}
          /\ \A f \in SessionFields \ {"skipped"} : w[f] = u[f]
      BY <2>1, <2>2 DEF SessionFields
    <2>4. s.remote # NoKey
      BY <1>3 DEF IsSession
    <2>5. Turned(d, s, theirs, fresh, w)
      BY <2>3, TurnEffect DEF u
    <2> QED
      BY <2>3, <2>4, <2>5 DEF w, Turned, Advances, OwnAfter
  <1> QED
    BY <1>0, <1>1, <1>2, <1>3

----------------------------------------------------------------------------
(* Opening *)

\* What openWithSession does after maybeAdvanceDhRatchet.
Stored(w, m) == {s \in w.skipped : s.ratchet = m.ratchet /\ s.index = m.index}

TooFar(w, m) == m.index < w.receive.index \/ m.index - w.receive.index > MaxSkip

WithoutKey(w, k) == [w EXCEPT !.skipped = @ \ {k}]

PastMessage(w, m) == [Skipping(w, m.index) EXCEPT !.receive = NextChain(@)]

\* A message opens with a key that was kept, or further on the chain.
LEMMA OpenedCases ==
    ASSUME NEW s, NEW m, NEW fresh, Opened(s, m, fresh).ok
    PROVE  LET w == Advanced(s, m.ratchet, fresh)
               t == Opened(s, m, fresh).session
           IN \/ \E k \in Stored(w, m) : m.key = k.key /\ t = WithoutKey(w, k)
              \/ /\ Stored(w, m) = {} /\ ~TooFar(w, m)
                 /\ m.key = Skipping(w, m.index).receive
                 /\ t = PastMessage(w, m)
  <1> DEFINE w == Advanced(s, m.ratchet, fresh)
             k == CHOOSE x \in Stored(w, m) : TRUE
  <1> HIDE DEF w
  <1>0. w = Advanced(s, m.ratchet, fresh)
    BY DEF w
  <1>1. CASE Stored(w, m) # {}
    <2>1. k \in Stored(w, m)
      BY <1>1
    <2>2. Opened(s, m, fresh) = Decrypted(k.key, m, WithoutKey(w, k))
      BY <1>0, <1>1 DEF Opened, Stored, WithoutKey
    <2> HIDE DEF k
    <2>3. m.key = k.key /\ Opened(s, m, fresh).session = WithoutKey(w, k)
      BY <2>2 DEF Decrypted, Accepted, Refused
    <2> QED
      BY <1>0, <2>1, <2>3
  <1>2. CASE Stored(w, m) = {} /\ TooFar(w, m)
    <2>1. Opened(s, m, fresh) = Refused
      BY <1>0, <1>2 DEF Opened, Stored, TooFar
    <2> QED
      BY <2>1 DEF Refused
  <1>3. CASE Stored(w, m) = {} /\ ~TooFar(w, m)
    <2>1. Opened(s, m, fresh) =
             Decrypted(Skipping(w, m.index).receive, m, PastMessage(w, m))
      BY <1>0, <1>3 DEF Opened, Stored, TooFar, PastMessage
    <2>2. /\ m.key = Skipping(w, m.index).receive
          /\ Opened(s, m, fresh).session = PastMessage(w, m)
      BY <2>1 DEF Decrypted, Accepted, Refused
    <2> QED
      BY <1>0, <1>3, <2>2
  <1> QED
    BY <1>1, <1>2, <1>3

\* t is what w becomes when it opens m: it receives on the same chain, expects
\* more than m there and keeps no key of m, nor one it did not keep before but
\* of what it passes over.
Opens(w, m, t) ==
    /\ t.own = w.own /\ t.root = w.root /\ t.remote = w.remote /\ t.send = w.send
    /\ t.receive.root = w.receive.root /\ t.receive.label = w.receive.label
    /\ w.receive.index <= t.receive.index
    /\ m.key = ChainRec(w.receive.root, w.receive.label, m.index)
    /\ m.key.root = w.receive.root
    /\ m.index < t.receive.index
    /\ \A k \in t.skipped : k.index # m.index
    /\ \A k \in t.skipped :
          k \in w.skipped \/ (k.index >= w.receive.index /\ k.index < m.index)

\* A kept key is used and removed; it was the only one of its index.
LEMMA WithoutKeyEffect ==
    ASSUME NEW d \in Device, NEW w, IsSession(d, w), NEW m, m.ratchet = w.remote,
           NEW k \in Stored(w, m), m.key = k.key
    PROVE  IsSession(d, WithoutKey(w, k)) /\ Opens(w, m, WithoutKey(w, k))
  <1> DEFINE t == WithoutKey(w, k)
  <1>1. /\ HasFields(d, t) /\ t.role = w.role /\ t.root = w.root /\ t.own = w.own
        /\ t.remote = w.remote /\ t.send = w.send /\ t.receive = w.receive
        /\ t.skipped = w.skipped \ {k}
    BY DEF WithoutKey, IsSession, HasFields, SessionFields
  <1> HIDE DEF t
  <1>2. k \in w.skipped /\ k.index = m.index
    BY DEF Stored
  <1>3. /\ k = SkippedKey(w, k.index) /\ k.index \in Nat /\ k.index < w.receive.index
        /\ w.receive.index \in Nat
        /\ \A j \in w.skipped : j = SkippedKey(w, j.index)
    BY <1>2 DEF IsSession, IsChain
  <1>4. \A j \in w.skipped \ {k} : j.index # m.index
    BY <1>2, <1>3
  <1>5. /\ m.key = ChainRec(w.receive.root, w.receive.label, m.index)
        /\ m.key.root = w.receive.root
    BY <1>2, <1>3 DEF SkippedKey, ChainRec
  <1>6. IsSession(d, t)
    BY <1>1 DEF IsSession, SkippedKey
  <1>7. Opens(w, m, t)
    BY <1>1, <1>2, <1>3, <1>4, <1>5 DEF Opens
  <1> QED
    BY <1>6, <1>7 DEF t

\* A message at the expected index or beyond: the keys passed over are kept.
LEMMA PastMessageEffect ==
    ASSUME NEW d \in Device, NEW w, IsSession(d, w), w.remote # NoKey,
           NEW m, m.index \in Nat, ~TooFar(w, m),
           m.ratchet = w.remote, m.key = Skipping(w, m.index).receive
    PROVE  IsSession(d, PastMessage(w, m)) /\ Opens(w, m, PastMessage(w, m))
  <1> DEFINE t == PastMessage(w, m)
             passed == {[ratchet |-> w.remote, index |-> i,
                         key |-> [w.receive EXCEPT !.index = i]] :
                           i \in w.receive.index .. m.index - 1}
             here == ChainRec(w.receive.root, w.receive.label, m.index)
             next == ChainRec(w.receive.root, w.receive.label, m.index + 1)
  <1>1. /\ w.receive = ChainRec(w.receive.root, w.receive.label, w.receive.index)
        /\ w.receive.index \in Nat /\ IsRoot(w.receive.root)
        /\ w.receive.index <= m.index
    BY DEF IsSession, IsChain, TooFar
  <1>2. \A n \in Nat : [w.receive EXCEPT !.index = n]
                          = ChainRec(w.receive.root, w.receive.label, n)
    BY <1>1 DEF ChainRec
  <1>3. \A k \in passed : /\ k = SkippedKey(w, k.index) /\ k.index \in Nat
                          /\ w.receive.index <= k.index /\ k.index < m.index
    BY <1>1, <1>2 DEF SkippedKey
  <1>4. Skipping(w, m.index) = [w EXCEPT !.skipped = @ \union passed, !.receive = here]
    BY <1>2 DEF Skipping
  <1> HIDE DEF passed
  <1>5. NextChain(here) = next
    BY DEF NextChain, ChainRec
  <1> HIDE DEF here, next
  <1>6. /\ HasFields(d, t) /\ t.role = w.role /\ t.root = w.root /\ t.own = w.own
        /\ t.remote = w.remote /\ t.send = w.send /\ t.receive = next
        /\ t.skipped = w.skipped \union passed
    BY <1>4, <1>5 DEF PastMessage, IsSession, HasFields, SessionFields
  <1>7. m.key = here
    BY <1>4 DEF IsSession, HasFields, SessionFields
  <1> HIDE DEF t
  <1>8. /\ here.root = w.receive.root /\ next.root = w.receive.root
        /\ next.label = w.receive.label /\ next.index = m.index + 1 /\ IsChain(next)
        /\ here = ChainRec(w.receive.root, w.receive.label, m.index)
    BY <1>1 DEF here, next, IsChain, ChainRec
  <1>9. \A k \in w.skipped :
           k = SkippedKey(w, k.index) /\ k.index \in Nat /\ k.index < w.receive.index
    BY DEF IsSession
  <1>10. \A n : SkippedKey(t, n) = SkippedKey(w, n)
    BY <1>6, <1>8 DEF SkippedKey
  <1>11. \A k \in t.skipped :
            k = SkippedKey(t, k.index) /\ k.index \in Nat /\ k.index < t.receive.index
    BY <1>1, <1>3, <1>6, <1>8, <1>9, <1>10
  <1>12. IsSession(d, t)
    BY <1>6, <1>8, <1>11 DEF IsSession
  <1>13. \A k \in t.skipped :
            /\ k.index # m.index
            /\ k \in w.skipped \/ (k.index >= w.receive.index /\ k.index < m.index)
    BY <1>1, <1>3, <1>6, <1>9
  <1>14. Opens(w, m, t)
    BY <1>1, <1>6, <1>7, <1>8, <1>13 DEF Opens
  <1> QED
    BY <1>12, <1>14 DEF t

\* A session has passed a message: what it opened before is behind it.
Behind(s, m) ==
    /\ Depth(m.key.root) \in Nat /\ Depth(m.key.root) <= Depth(s.root)
    /\ s.remote # NoKey
    /\ m.ratchet = s.remote =>
          /\ m.index < s.receive.index
          /\ \A k \in s.skipped : k.index # m.index

\* The session a message is opened with has its sender's ratchet key at hand.
LEMMA OpensEffect ==
    ASSUME NEW d \in Device, NEW w, IsSession(d, w), w.remote # NoKey,
           NEW m, m.index \in Nat, m.ratchet = w.remote,
           NEW s, NEW fresh, w = Advanced(s, m.ratchet, fresh), Opened(s, m, fresh).ok
    PROVE  LET t == Opened(s, m, fresh).session
           IN IsSession(d, t) /\ Opens(w, m, t)
  <1> DEFINE t == Opened(s, m, fresh).session
  <1>1. CASE \E k \in Stored(w, m) : m.key = k.key /\ t = WithoutKey(w, k)
    BY <1>1, WithoutKeyEffect
  <1>2. CASE ~TooFar(w, m) /\ m.key = Skipping(w, m.index).receive /\ t = PastMessage(w, m)
    BY <1>2, PastMessageEffect
  <1> QED
    BY <1>1, <1>2, OpenedCases

\* Opening a message leaves it, and what was behind before, behind; it changes
\* nothing else of a session, or goes on to deeper roots and a key of its own.
HasOpened(d, s, m, fresh, t) ==
    /\ IsSession(d, t) /\ t.remote = m.ratchet /\ Behind(t, m)
    /\ \/ t.root = s.root /\ t.own = s.own /\ t.send = s.send
       \/ /\ Depth(s.root) \in Nat /\ Depth(t.root) \in Nat
          /\ Depth(s.root) < Depth(t.root)
          /\ t.own = OwnAfter(s, fresh) /\ t.send.index = 0
    /\ m.key = ChainRec(t.receive.root, t.receive.label, m.index)
    /\ \A k \in t.skipped : k \in s.skipped \/ k.index < m.index
    /\ \A n : /\ Behind(s, n)
              /\ n.index \in Nat
              /\ n.ratchet = m.ratchet => n.key.root = m.key.root
              => Behind(t, n)

LEMMA OpenedEffect ==
    ASSUME NEW d \in Device, NEW s, IsSession(d, s), NEW fresh, fresh # NoKey,
           NEW m, m.index \in Nat, m.ratchet # NoKey, Opened(s, m, fresh).ok
    PROVE  HasOpened(d, s, m, fresh, Opened(s, m, fresh).session)
  <1> DEFINE t == Opened(s, m, fresh).session
             w == Advanced(s, m.ratchet, fresh)
  <1>1. ASSUME NEW x, IsSession(d, x)
        PROVE  /\ Depth(x.root) \in Nat /\ Depth(x.receive.root) \in Nat
               /\ Depth(x.receive.root) <= Depth(x.root)
               /\ x.receive.index \in Nat
    BY <1>1, AppendIsSeq DEF IsSession, IsChain, IsRoot, Depth
  <1>2. CASE m.ratchet = s.remote
    <2>1. w = s
      BY <1>2 DEF Advanced
    <2>2. IsSession(d, t) /\ Opens(s, m, t)
      BY <1>2, <2>1, OpensEffect
    <2> HIDE DEF t, w
    <2>3. /\ t.root = s.root /\ t.own = s.own /\ t.send = s.send
          /\ t.remote = s.remote
          /\ m.key = ChainRec(t.receive.root, t.receive.label, m.index)
          /\ \A k \in t.skipped : k \in s.skipped \/ k.index < m.index
      BY <2>2 DEF Opens
    <2>4. Behind(t, m)
      BY <1>1, <1>2, <2>2, <2>3 DEF Opens, Behind
    <2>5. ASSUME NEW n, Behind(s, n), n.index \in Nat
          PROVE  Behind(t, n)
      <3>1. ASSUME n.ratchet = t.remote
            PROVE  n.index < t.receive.index /\ \A k \in t.skipped : k.index # n.index
        <4>1. n.index < s.receive.index /\ \A k \in s.skipped : k.index # n.index
          BY <2>3, <2>5, <3>1 DEF Behind
        <4>2. s.receive.index \in Nat /\ t.receive.index \in Nat
          BY <1>1, <2>2
        <4>3. n.index < t.receive.index
          BY <2>2, <2>5, <4>1, <4>2 DEF Opens
        <4>4. ASSUME NEW k \in t.skipped
              PROVE  k.index # n.index
          BY <2>2, <2>5, <4>1, <4>2 DEF Opens
        <4> QED
          BY <4>3, <4>4
      <3> QED
        BY <2>3, <2>5, <3>1 DEF Behind
    <2> QED
      BY <1>2, <2>2, <2>3, <2>4, <2>5 DEF t, HasOpened
  <1>3. CASE m.ratchet # s.remote
    <2>0. Advances(d, s, m.ratchet, fresh, w)
      BY <1>3, AdvancedEffect
    <2> HIDE DEF w
    <2>1. /\ IsSession(d, w)
          /\ w.remote = m.ratchet /\ w.receive.index = 0 /\ w.skipped = {}
          /\ w.send.index = 0
          /\ Depth(w.root) > Depth(s.root)
          /\ s.remote # NoKey => Depth(w.receive.root) = Depth(s.root) + 1
          /\ w.own = OwnAfter(s, fresh)
      BY <2>0 DEF Advances
    <2>2. IsSession(d, t) /\ Opens(w, m, t)
      BY <2>1, OpensEffect DEF w
    <2> HIDE DEF t
    <2>3. /\ t.root = w.root /\ t.own = w.own /\ t.remote = m.ratchet
          /\ t.send = w.send /\ m.key.root = w.receive.root
          /\ m.key = ChainRec(t.receive.root, t.receive.label, m.index)
          /\ \A k \in t.skipped : k \in s.skipped \/ k.index < m.index
      BY <2>1, <2>2 DEF Opens
    <2>4. Behind(t, m)
      BY <1>1, <2>1, <2>2, <2>3 DEF Opens, Behind
    <2>5. ASSUME NEW n, Behind(s, n), n.ratchet = m.ratchet => n.key.root = m.key.root
          PROVE  Behind(t, n)
      <3>1. Depth(s.root) \in Nat /\ Depth(w.root) \in Nat
        BY <1>1, <2>1
      <3>2. n.key.root # m.key.root
        BY <2>1, <2>3, <2>5, <3>1 DEF Behind
      <3>3. n.ratchet # t.remote
        BY <2>3, <2>5, <3>2
      <3>4. /\ Depth(n.key.root) \in Nat /\ Depth(n.key.root) <= Depth(s.root)
            /\ Depth(s.root) < Depth(w.root) /\ t.remote # NoKey
        BY <2>1, <2>3, <2>5 DEF Behind
      <3> QED
        BY <2>3, <3>1, <3>3, <3>4 DEF Behind
    <2> QED
      BY <1>1, <2>1, <2>2, <2>3, <2>4, <2>5 DEF t, HasOpened
  <1> QED
    BY <1>2, <1>3

\* What is behind a session is refused by it.
LEMMA BehindIsRefused ==
    ASSUME NEW d \in Device, NEW s, IsSession(d, s), NEW fresh, fresh # NoKey,
           NEW m, m.index \in Nat, m.ratchet # NoKey, Behind(s, m)
    PROVE  ~Opened(s, m, fresh).ok
  <1> SUFFICES ASSUME Opened(s, m, fresh).ok
               PROVE  FALSE
    OBVIOUS
  <1> DEFINE w == Advanced(s, m.ratchet, fresh)
  <1>1. CASE m.ratchet = s.remote
    <2>1. w = s
      BY <1>1 DEF Advanced
    <2>2. Stored(s, m) = {} /\ TooFar(s, m)
      BY <1>1 DEF Behind, Stored, TooFar
    <2> QED
      BY <2>1, <2>2, OpenedCases
  <1>2. CASE m.ratchet # s.remote
    <2>0. Advances(d, s, m.ratchet, fresh, w)
      BY <1>2, AdvancedEffect
    <2> HIDE DEF w
    <2>1. /\ IsSession(d, w) /\ w.remote = m.ratchet
          /\ Depth(s.root) \in Nat
          /\ Depth(w.receive.root) = Depth(s.root) + 1
      BY <2>0 DEF Advances, Behind
    <2>2. Opens(w, m, Opened(s, m, fresh).session)
      BY <2>1, OpensEffect DEF w
    <2>3. m.key.root = w.receive.root
      BY <2>2 DEF Opens
    <2> QED
      BY <2>1, <2>3 DEF Behind
  <1> QED
    BY <1>1, <1>2

----------------------------------------------------------------------------
(* The invariant *)

\* The key pairs a device has generated.
Own(d) == {RatchetKey(d, n) : n \in 1 .. generated[d]}

\* A message d has sealed lies behind the chain it seals with; the chain of its
\* own key pair has one root.
SealedBefore(d, m) ==
    /\ m.ratchet \in Own(d) /\ m.index \in Nat
    /\ WrittenBy(d, m.key)
    /\ session[d] # NoSession
    /\ Before(m.key, session[d].send)
    /\ m.ratchet = session[d].own => m.key.root = session[d].send.root

KeysAreOwn(d) ==
    /\ \A m \in Entries(sealed[d]) : SealedBefore(d, m)
    /\ \A m, n \in Entries(sealed[d]) :
          /\ m.key = n.key => m = n
          /\ m.ratchet = n.ratchet => m.key.root = n.key.root

SessionIsGood(d) ==
    session[d] # NoSession =>
        /\ IsSession(d, session[d])
        /\ session[d].own \in Own(d)
        /\ session[d].role = "responder" => session[d].remote # NoKey

\* What d received was sealed for it, and what it opened is behind its session.
ReceivedIsBehind(d) ==
    /\ Entries(inbox[d]) \subseteq Entries(sealed[Peer(d)])
    /\ Entries(opened[d]) \subseteq Entries(sealed[Peer(d)])
    /\ \A m \in Entries(opened[d]) : session[d] # NoSession /\ Behind(session[d], m)

Shapes ==
    /\ DOMAIN session = Device /\ DOMAIN sealed = Device
    /\ DOMAIN inbox = Device /\ DOMAIN opened = Device
    /\ generated \in [Device -> Nat]
    /\ \A d \in Device : IsSeq(sealed[d]) /\ IsSeq(inbox[d]) /\ IsSeq(opened[d])

IInv ==
    /\ Shapes
    /\ \A d \in Device : KeysAreOwn(d) /\ SessionIsGood(d) /\ ReceivedIsBehind(d)

\* Each device is the other's peer.
LEMMA Peers ==
    ASSUME NEW d \in Device
    PROVE  /\ Peer(d) \in Device /\ Peer(d) # d /\ Peer(Peer(d)) = d
           /\ \A e \in Device : e # d => e = Peer(d)
  BY PairAssumption DEF Peer, Device

\* Key pairs are named apart.
LEMMA RatchetKeysDiffer ==
    ASSUME NEW d, NEW m \in Nat, NEW n \in Nat
    PROVE  /\ RatchetKey(d, m) # NoKey
           /\ RatchetKey(d, m) = RatchetKey(d, n) => m = n
  <1>1. <<"ratchet", d, m>>[1] = "ratchet" /\ <<"none">>[1] = "none"
    OBVIOUS
  <1>2. <<"ratchet", d, m>>[3] = m /\ <<"ratchet", d, n>>[3] = n
    OBVIOUS
  <1> QED
    BY <1>1, <1>2 DEF RatchetKey, NoKey

\* The session that is saved has a key pair of the device, and no key pair is
\* ungenerated.
LEMMA SaveEffect ==
    ASSUME Shapes, NEW d \in Device, NEW s, Save(d, s),
           s.own \in Own(d) \union {Fresh(d)}
    PROVE  /\ DOMAIN session' = Device /\ session'[d] = s
           /\ \A e \in Device \ {d} : session'[e] = session[e] /\ Own(e)' = Own(e)
           /\ generated' \in [Device -> Nat]
           /\ Own(d) \subseteq Own(d)' /\ s.own \in Own(d)'
  <1>1. /\ DOMAIN session' = Device /\ session'[d] = s
        /\ \A e \in Device \ {d} : session'[e] = session[e] /\ generated'[e] = generated[e]
        /\ generated' \in [Device -> Nat]
        /\ generated'[d] = IF s.own = Fresh(d) THEN generated[d] + 1 ELSE generated[d]
    BY DEF Shapes, Save
  <1>2. generated[d] \in Nat
    BY DEF Shapes
  <1>3. Own(d) \subseteq Own(d)' /\ s.own \in Own(d)'
    <2>1. CASE s.own = Fresh(d)
      <3>1. generated'[d] = generated[d] + 1
        BY <1>1, <2>1
      <3> QED
        BY <1>2, <2>1, <3>1 DEF Own, Fresh
    <2>2. CASE s.own # Fresh(d)
      BY <1>1, <2>2 DEF Own
    <2> QED
      BY <2>1, <2>2
  <1> QED
    BY <1>1, <1>3 DEF Own

\* The next key pair is none of those a device has.
LEMMA FreshIsFresh ==
    ASSUME Shapes, NEW d \in Device
    PROVE  /\ Fresh(d) # NoKey /\ Fresh(d) \notin Own(d)
           /\ NoKey \notin Own(d)
           /\ RatchetKey(d, generated[d] + 2) # NoKey
  <1>1. generated[d] \in Nat
    BY DEF Shapes
  <1>2. generated[d] + 1 \in Nat /\ generated[d] + 2 \in Nat
        /\ \A n \in 1 .. generated[d] : n \in Nat /\ n # generated[d] + 1
    BY <1>1
  <1> QED
    BY <1>2, RatchetKeysDiffer DEF Fresh, Own

----------------------------------------------------------------------------
(* Sealing *)

\* A session d may seal with keeps what it has sealed and opened behind it.
MaySeal(d, s) ==
    /\ IsSession(d, s)
    /\ s.own \in Own(d) \union {Fresh(d)}
    /\ s.role = "responder" => s.remote # NoKey
    /\ \A m \in Entries(sealed[d]) :
          Before(m.key, s.send) /\ (m.ratchet = s.own => m.key.root = s.send.root)
    /\ \A m \in Entries(opened[d]) : Behind(s, m)

\* Sealing leaves the invariant, as the new key is one step on.
LEMMA SealingKeeps ==
    ASSUME IInv, NEW d \in Device, NEW s, MaySeal(d, s), SendWith(d, s)
    PROVE  IInv'
  <1> DEFINE t == AfterSeal(s)
             p == Peer(d)
  <1>0. PICK m : m = Sealed(s, <<d, Len(sealed[d]) + 1>>)
    OBVIOUS
  <1>1. /\ m.ratchet = s.own /\ m.index = s.send.index /\ m.key = s.send
    BY <1>0 DEF Sealed
  <1>2. /\ inbox' = [inbox EXCEPT ![p] = Append(@, m)]
        /\ sealed' = [sealed EXCEPT ![d] = Append(@, m)]
        /\ Save(d, t) /\ opened' = opened
    BY <1>0 DEF SendWith
  <1>3. /\ IsSession(d, t)
        /\ t = [s EXCEPT !.send = ChainRec(s.send.root, s.send.label, s.send.index + 1)]
        /\ t.send = ChainRec(s.send.root, s.send.label, s.send.index + 1)
    BY AfterSealEffect DEF MaySeal
  <1> HIDE DEF t
  <1>4. /\ t.role = s.role /\ t.own = s.own /\ t.remote = s.remote /\ t.root = s.root
        /\ t.receive = s.receive /\ t.skipped = s.skipped
        /\ t.send.root = s.send.root /\ t.send.label = s.send.label
        /\ t.send.index = s.send.index + 1
    BY <1>3 DEF MaySeal, IsSession, HasFields, SessionFields, ChainRec
  <1>5. /\ DOMAIN session' = Device /\ session'[d] = t
        /\ \A e \in Device \ {d} : session'[e] = session[e] /\ Own(e)' = Own(e)
        /\ generated' \in [Device -> Nat]
        /\ Own(d) \subseteq Own(d)' /\ t.own \in Own(d)'
    BY <1>2, <1>4, SaveEffect DEF IInv, MaySeal
  <1>6. p \in Device /\ p # d /\ Peer(p) = d /\ \A e \in Device : e = d \/ e = p
    BY Peers
  <1> HIDE DEF p
  <1>7. /\ DOMAIN inbox' = Device /\ DOMAIN sealed' = Device
        /\ inbox'[p] = Append(inbox[p], m) /\ inbox'[d] = inbox[d]
        /\ sealed'[d] = Append(sealed[d], m) /\ sealed'[p] = sealed[p]
    BY <1>2, <1>6 DEF IInv, Shapes
  <1>8. /\ IsSeq(sealed[d]) /\ IsSeq(inbox[p])
        /\ IsSeq(sealed'[d]) /\ Entries(sealed'[d]) = Entries(sealed[d]) \union {m}
        /\ IsSeq(inbox'[p]) /\ Entries(inbox'[p]) = Entries(inbox[p]) \union {m}
    BY <1>6, <1>7, AppendIsSeq DEF IInv, Shapes
  <1>9. Shapes'
    BY <1>2, <1>5, <1>6, <1>7, <1>8 DEF IInv, Shapes
  <1>10. t # NoSession
    BY <1>3 DEF NoSession, IsSession
  <1>11. /\ s.send.index \in Nat /\ WrittenBy(d, s.send) /\ Depth(s.send.root) \in Nat
    BY AppendIsSeq DEF MaySeal, IsSession, IsChain, IsRoot, Depth
  <1>12. \A n \in Entries(sealed'[d]) : SealedBefore(d, n)'
    <2>1. SealedBefore(d, m)'
      BY <1>1, <1>4, <1>5, <1>10, <1>11 DEF SealedBefore, Before
    <2>2. ASSUME NEW n \in Entries(sealed[d])
          PROVE  SealedBefore(d, n)'
      <3>1. SealedBefore(d, n) /\ Before(n.key, s.send)
            /\ (n.ratchet = s.own => n.key.root = s.send.root)
        BY DEF IInv, KeysAreOwn, MaySeal
      <3>2. Before(n.key, t.send)
        <4>1. CASE Depth(n.key.root) \in 0 .. Depth(s.send.root) - 1
          BY <1>4, <4>1 DEF Before
        <4>2. CASE /\ n.key.root = s.send.root /\ n.key.label = s.send.label
                   /\ n.key.index \in 0 .. s.send.index - 1
          BY <1>4, <1>11, <4>2 DEF Before
        <4> QED
          BY <3>1, <4>1, <4>2 DEF Before
      <3> QED
        BY <1>4, <1>5, <1>10, <3>1, <3>2 DEF SealedBefore
    <2> QED
      BY <1>8, <2>1, <2>2
  <1>13. KeysAreOwn(d)'
    <2>1. ASSUME NEW n \in Entries(sealed[d])
          PROVE  n.key # m.key /\ (n.ratchet = m.ratchet => n.key.root = m.key.root)
      BY <1>1, <1>11 DEF MaySeal, Before
    <2> QED
      BY <1>8, <1>12, <2>1 DEF IInv, KeysAreOwn
  <1>14. KeysAreOwn(p)'
    BY <1>5, <1>6, <1>7 DEF IInv, KeysAreOwn, SealedBefore
  <1>15. SessionIsGood(d)' /\ SessionIsGood(p)'
    BY <1>3, <1>4, <1>5, <1>6 DEF IInv, SessionIsGood, MaySeal
  <1>16. ReceivedIsBehind(p)'
    BY <1>2, <1>5, <1>6, <1>7, <1>8 DEF IInv, ReceivedIsBehind
  <1>17. ReceivedIsBehind(d)'
    <2>1. \A n \in Entries(opened[d]) : Behind(t, n)
      BY <1>4 DEF MaySeal, Behind
    <2> QED
      BY <1>2, <1>5, <1>6, <1>7, <1>10, <2>1 DEF IInv, ReceivedIsBehind, p
  <1> QED
    BY <1>6, <1>9, <1>13, <1>14, <1>15, <1>16, <1>17 DEF IInv

LEMMA SendFirstKeeps ==
    ASSUME IInv, NEW d \in Device, NEW preKey, SendFirst(d, preKey)
    PROVE  IInv'
  <1> DEFINE s == NewInitiator(d, Peer(d), preKey, Fresh(d))
  <1>1. IsSession(d, s) /\ s.own = Fresh(d) /\ s.role = "initiator"
    BY FreshIsFresh, NewSessionEffect DEF IInv, NewInitiator, InitiatorRoot
  <1>2. Entries(sealed[d]) = {} /\ Entries(opened[d]) = {}
    BY DEF SendFirst, IInv, KeysAreOwn, SealedBefore, ReceivedIsBehind
  <1>3. SendWith(d, s)
    BY DEF SendFirst
  <1> HIDE DEF s
  <1>4. MaySeal(d, s)
    BY <1>1, <1>2 DEF MaySeal
  <1> QED
    BY <1>3, <1>4, SealingKeeps

LEMMA SendKeeps ==
    ASSUME IInv, NEW d \in Device, Send(d)
    PROVE  IInv'
  <1>1. MaySeal(d, session[d])
    BY DEF Send, MaySeal, IInv, SessionIsGood, KeysAreOwn, SealedBefore, ReceivedIsBehind
  <1> QED
    BY <1>1, SealingKeeps DEF Send

----------------------------------------------------------------------------
(* Receiving *)

\* What saving a session that opened m does to the invariant: new keys lie
\* behind it as the old ones do.
LEMMA ReceivingKeeps ==
    ASSUME IInv, NEW d \in Device, NEW i \in DOMAIN inbox[d], NEW t,
           Save(d, t), IsSession(d, t), t.remote = inbox[d][i].ratchet,
           t.own \in Own(d) \union {Fresh(d)},
           \A n \in Entries(sealed[d]) :
               Before(n.key, t.send) /\ (n.ratchet = t.own => n.key.root = t.send.root),
           \A n \in Entries(opened[d]) \union {inbox[d][i]} : Behind(t, n),
           opened' = [opened EXCEPT ![d] = Append(@, inbox[d][i])],
           inbox' \in {inbox, [inbox EXCEPT ![d] = Without(@, i)]},
           sealed' = sealed
    PROVE  IInv'
  <1> DEFINE m == inbox[d][i]
             p == Peer(d)
  <1>1. m \in Entries(inbox[d])
    BY DEF Entries
  <1>2. p \in Device /\ p # d /\ Peer(p) = d /\ \A e \in Device : e = d \/ e = p
    BY Peers
  <1> HIDE DEF p, m
  <1>3. /\ DOMAIN session' = Device /\ session'[d] = t
        /\ \A e \in Device \ {d} : session'[e] = session[e] /\ Own(e)' = Own(e)
        /\ generated' \in [Device -> Nat]
        /\ Own(d) \subseteq Own(d)' /\ t.own \in Own(d)'
    BY SaveEffect DEF IInv
  <1>4. /\ DOMAIN inbox' = Device /\ inbox'[p] = inbox[p]
        /\ IsSeq(inbox'[d]) /\ Entries(inbox'[d]) \subseteq Entries(inbox[d])
    <2>1. IsSeq(inbox[d]) /\ DOMAIN inbox = Device
      BY DEF IInv, Shapes
    <2>2. /\ IsSeq(Without(inbox[d], i))
          /\ Entries(Without(inbox[d], i)) \subseteq Entries(inbox[d])
      BY <2>1, WithoutIsSeq
    <2>3. inbox'[d] = inbox[d] \/ inbox'[d] = Without(inbox[d], i)
      BY <2>1
    <2> QED
      BY <1>2, <2>1, <2>2, <2>3
  <1>5. /\ DOMAIN opened' = Device /\ opened'[p] = opened[p]
        /\ IsSeq(opened'[d]) /\ Entries(opened'[d]) = Entries(opened[d]) \union {m}
    <2>1. IsSeq(opened[d]) /\ DOMAIN opened = Device
      BY DEF IInv, Shapes
    <2>2. opened'[d] = Append(opened[d], m) /\ opened'[p] = opened[p]
      BY <1>2, <2>1 DEF m
    <2> QED
      BY <2>1, <2>2, AppendIsSeq
  <1>6. Shapes'
    BY <1>2, <1>3, <1>4, <1>5 DEF IInv, Shapes
  <1>7. t # NoSession /\ m.ratchet # NoKey /\ m \in Entries(sealed[p])
    <2>1. m \in Entries(sealed[p])
      BY <1>1, <1>2 DEF IInv, ReceivedIsBehind, m, p
    <2>2. m.ratchet \in Own(p)
      BY <1>2, <2>1 DEF IInv, KeysAreOwn, SealedBefore
    <2>3. m.ratchet # NoKey
      BY <1>2, <2>2, FreshIsFresh DEF IInv
    <2> QED
      BY <2>1, <2>3 DEF NoSession, IsSession
  <1>8. KeysAreOwn(d)'
    BY <1>3, <1>7 DEF IInv, KeysAreOwn, SealedBefore
  <1>9. KeysAreOwn(p)'
    BY <1>2, <1>3 DEF IInv, KeysAreOwn, SealedBefore
  <1>10. SessionIsGood(d)' /\ SessionIsGood(p)'
    BY <1>2, <1>3, <1>7 DEF IInv, SessionIsGood, m
  <1>11. ReceivedIsBehind(p)'
    BY <1>2, <1>3, <1>4, <1>5 DEF IInv, ReceivedIsBehind
  <1>12. ReceivedIsBehind(d)'
    BY <1>2, <1>3, <1>4, <1>5, <1>7 DEF IInv, ReceivedIsBehind, m, p
  <1> QED
    BY <1>2, <1>6, <1>8, <1>9, <1>10, <1>11, <1>12 DEF IInv

\* The session of a device that meets its first message.
BeginsOn(d, s) ==
    /\ IsSession(d, s) /\ s.own = Fresh(d) /\ s.role = "responder"
    /\ s.remote = NoKey /\ s.skipped = {} /\ s.send.index = 0

\* What a device receives it opens with its session, or with a new one.
LEMMA ReceiveOpens ==
    ASSUME IInv, NEW d \in Device, NEW i, Receive(d, i),
           NEW m, m = inbox[d][i], NEW t, t = Result(d, m).session
    PROVE  /\ i \in DOMAIN inbox[d] /\ Save(d, t)
           /\ m \in Entries(sealed[Peer(d)]) /\ m.index \in Nat
           /\ \/ session[d] # NoSession /\ HasOpened(d, session[d], m, Fresh(d), t)
              \/ /\ session[d] = NoSession
                 /\ \E s : /\ BeginsOn(d, s)
                          /\ HasOpened(d, s, m, RatchetKey(d, generated[d] + 2), t)
  <1>1. i \in DOMAIN inbox[d] /\ Result(d, m).ok /\ Save(d, t)
    BY DEF Receive
  <1>2. Peer(d) \in Device
    BY Peers
  <1>3. m \in Entries(sealed[Peer(d)])
    BY <1>1 DEF IInv, ReceivedIsBehind, Entries
  <1>4. m.index \in Nat /\ m.ratchet \in Own(Peer(d))
    BY <1>2, <1>3 DEF IInv, KeysAreOwn, SealedBefore
  <1>5. m.ratchet # NoKey
    BY <1>2, <1>4, FreshIsFresh DEF IInv
  <1>6. Fresh(d) # NoKey /\ RatchetKey(d, generated[d] + 2) # NoKey
    BY FreshIsFresh DEF IInv
  <1>7. CASE session[d] # NoSession
    <2>1. Result(d, m) = Opened(session[d], m, Fresh(d))
      BY <1>7 DEF Result, Fresh
    <2>2. IsSession(d, session[d])
      BY <1>7 DEF IInv, SessionIsGood
    <2>3. HasOpened(d, session[d], m, Fresh(d), t)
      BY <1>1, <1>4, <1>5, <1>6, <2>1, <2>2, OpenedEffect
    <2> QED
      BY <1>1, <1>3, <1>4, <1>7, <2>3
  <1>8. CASE session[d] = NoSession
    <2> DEFINE s == NewResponder(d, Peer(d), m, {m.preKey} \ {NoKey}, Fresh(d))
               fresh == RatchetKey(d, generated[d] + 2)
    <2>1. Result(d, m) = Opened(s, m, fresh)
      BY <1>8 DEF Result
    <2>2. BeginsOn(d, s)
      <3>1. /\ IsSession(d, s) /\ s.own = Fresh(d) /\ s.role = "responder"
            /\ s.remote = NoKey /\ s.send.index = 0
        BY <1>6, NewSessionEffect DEF NewResponder, ResponderRoot
      <3> HIDE DEF s
      <3> QED
        BY <3>1 DEF BeginsOn, IsSession
    <2> HIDE DEF s
    <2>3. HasOpened(d, s, m, fresh, t)
      BY <1>1, <1>4, <1>5, <1>6, <2>1, <2>2, OpenedEffect DEF BeginsOn
    <2> QED
      BY <1>1, <1>3, <1>4, <1>8, <2>2, <2>3
  <1> QED
    BY <1>7, <1>8

\* Receiving leaves it: the session opened with is behind the one saved.
LEMMA ReceiveKeeps ==
    ASSUME IInv, NEW d \in Device, NEW i, Receive(d, i)
    PROVE  IInv'
  <1> DEFINE m == inbox[d][i]
             t == Result(d, m).session
             p == Peer(d)
  <1>1. /\ opened' = [opened EXCEPT ![d] = Append(@, m)]
        /\ inbox' \in {inbox, [inbox EXCEPT ![d] = Without(@, i)]}
        /\ sealed' = sealed
    BY DEF Receive
  <1>2. /\ i \in DOMAIN inbox[d] /\ Save(d, t) /\ m \in Entries(sealed[p])
        /\ \/ session[d] # NoSession /\ HasOpened(d, session[d], m, Fresh(d), t)
           \/ /\ session[d] = NoSession
              /\ \E s : /\ BeginsOn(d, s)
                       /\ HasOpened(d, s, m, RatchetKey(d, generated[d] + 2), t)
    BY ReceiveOpens
  <1>3. p \in Device
    BY Peers
  <1> HIDE DEF t
  <1>6. \A n \in Entries(opened[d]) :
           n.index \in Nat /\ (n.ratchet = m.ratchet => n.key.root = m.key.root)
    BY <1>2, <1>3 DEF IInv, ReceivedIsBehind, KeysAreOwn, SealedBefore
  <1>7. Fresh(d) \notin Own(d)
    BY FreshIsFresh DEF IInv
  <1>8. CASE session[d] # NoSession
    <2> DEFINE s == session[d]
    <2>2. /\ IsSession(d, s) /\ s.own \in Own(d)
          /\ s.role = "responder" => s.remote # NoKey
      BY <1>8 DEF IInv, SessionIsGood
    <2>3. HasOpened(d, s, m, Fresh(d), t)
      BY <1>2, <1>8
    <2>4. /\ IsSession(d, t) /\ t.remote = m.ratchet /\ Behind(t, m)
          /\ \/ t.root = s.root /\ t.own = s.own /\ t.send = s.send
             \/ /\ Depth(s.root) \in Nat /\ Depth(t.root) \in Nat
                /\ Depth(s.root) < Depth(t.root)
                /\ t.own = Fresh(d)
      BY <2>2, <2>3 DEF HasOpened, OwnAfter
    <2>5. \A n \in Entries(opened[d]) : Behind(t, n)
      <3>1. \A n \in Entries(opened[d]) : Behind(s, n)
        BY DEF IInv, ReceivedIsBehind
      <3> QED
        BY <1>6, <2>3, <3>1 DEF HasOpened
    <2>6. ASSUME NEW n \in Entries(sealed[d])
          PROVE  Before(n.key, t.send) /\ (n.ratchet = t.own => n.key.root = t.send.root)
      <3>1. /\ Before(n.key, s.send) /\ n.ratchet \in Own(d)
            /\ n.ratchet = s.own => n.key.root = s.send.root
        BY DEF IInv, KeysAreOwn, SealedBefore
      <3>2. CASE t.own = s.own /\ t.send = s.send
        BY <3>1, <3>2
      <3>3. CASE /\ Depth(s.root) \in Nat /\ Depth(t.root) \in Nat
                 /\ Depth(s.root) < Depth(t.root) /\ t.own = Fresh(d)
        <4>1. s.send.root = s.root /\ t.send.root = t.root
          BY <2>2, <2>4 DEF IsSession
        <4>2. Depth(n.key.root) \in 0 .. Depth(s.root)
          BY <3>1, <3>3, <4>1 DEF Before
        <4>3. Depth(n.key.root) \in 0 .. Depth(t.send.root) - 1
          BY <3>3, <4>1, <4>2
        <4>4. n.ratchet # t.own
          BY <1>7, <3>1, <3>3
        <4> QED
          BY <4>3, <4>4 DEF Before
      <3> QED
        BY <2>4, <3>2, <3>3
    <2>7. t.own \in Own(d) \union {Fresh(d)}
      BY <2>2, <2>4
    <2> QED
      BY <1>1, <1>2, <2>4, <2>5, <2>6, <2>7, ReceivingKeeps
  <1>9. CASE session[d] = NoSession
    <2>1. PICK s : /\ BeginsOn(d, s)
                   /\ HasOpened(d, s, m, RatchetKey(d, generated[d] + 2), t)
      BY <1>2, <1>9
    <2>2. IsSession(d, t) /\ t.remote = m.ratchet /\ Behind(t, m) /\ t.own = Fresh(d)
      BY <2>1 DEF BeginsOn, HasOpened, OwnAfter
    <2>3. Entries(sealed[d]) = {} /\ Entries(opened[d]) = {}
      BY <1>9 DEF IInv, KeysAreOwn, SealedBefore, ReceivedIsBehind
    <2> QED
      BY <1>1, <1>2, <2>2, <2>3, ReceivingKeeps
  <1> QED
    BY <1>8, <1>9

LEMMA ExpireKeeps ==
    ASSUME IInv, NEW d \in Device, Expire(d)
    PROVE  IInv'
  <1>1. IsSeq(Tail(inbox[d])) /\ Entries(Tail(inbox[d])) \subseteq Entries(inbox[d])
    BY TailIsSeq DEF Expire, IInv, Shapes
  <1>2. DOMAIN inbox' = Device /\ \A e \in Device :
           IsSeq(inbox'[e]) /\ Entries(inbox'[e]) \subseteq Entries(inbox[e])
    BY <1>1 DEF Expire, IInv, Shapes
  <1>3. UNCHANGED <<session, generated, sealed, opened>>
    BY DEF Expire
  <1>4. Shapes'
    BY <1>2, <1>3 DEF IInv, Shapes
  <1> SUFFICES ASSUME NEW e \in Device
               PROVE  KeysAreOwn(e)' /\ SessionIsGood(e)' /\ ReceivedIsBehind(e)'
    BY <1>4 DEF IInv
  <1>5. KeysAreOwn(e)' /\ SessionIsGood(e)'
    BY <1>3 DEF IInv, KeysAreOwn, SealedBefore, SessionIsGood, Own
  <1>6. ReceivedIsBehind(e)'
    BY <1>2, <1>3 DEF IInv, ReceivedIsBehind
  <1> QED
    BY <1>5, <1>6

LEMMA StutterKeeps == IInv /\ UNCHANGED vars => IInv'
  BY DEF vars, IInv, Shapes, KeysAreOwn, SealedBefore, SessionIsGood,
         ReceivedIsBehind, Own

----------------------------------------------------------------------------
(* Theorems *)

LEMMA InvariantHolds == Spec => []IInv
  <1>1. Init => IInv
    BY EmptyIsSeq, Peers DEF Init, IInv, Shapes, KeysAreOwn, SessionIsGood, ReceivedIsBehind
  <1>2. IInv /\ [Next]_vars => IInv'
    BY SendFirstKeeps, SendKeeps, ReceiveKeeps, ExpireKeeps, StutterKeeps DEF Next
  <1> QED
    BY <1>1, <1>2, PTL DEF Spec

\* OneKeyPerMessage: no two messages of a pair are sealed with the same key,
\* whoever starts, however the turns of sealWithSession and openWithSession
\* interleave and whatever is lost on the way.
THEOREM KeysAreUsedOnce == Spec => []OneKeyPerMessage
  <1>1. IInv => OneKeyPerMessage
    <2> SUFFICES ASSUME IInv,
                        NEW m \in Entries(sealed[Alice]) \union Entries(sealed[Bob]),
                        NEW n \in Entries(sealed[Alice]) \union Entries(sealed[Bob]),
                        m.key = n.key
                 PROVE  m = n
      BY DEF OneKeyPerMessage
    <2>1. Alice \in Device /\ Bob \in Device
      BY DEF Device
    <2>2. \A d \in Device : \A x \in Entries(sealed[d]) : WrittenBy(d, x.key)
      BY DEF IInv, KeysAreOwn, SealedBefore
    <2>3. CASE \E d \in Device : m \in Entries(sealed[d]) /\ n \in Entries(sealed[d])
      BY <2>3 DEF IInv, KeysAreOwn
    <2>4. CASE m \in Entries(sealed[Alice]) /\ n \in Entries(sealed[Bob])
      BY <2>1, <2>2, <2>4, DirectionsDiffer
    <2>5. CASE m \in Entries(sealed[Bob]) /\ n \in Entries(sealed[Alice])
      BY <2>1, <2>2, <2>5, DirectionsDiffer
    <2> QED
      BY <2>1, <2>3, <2>4, <2>5
  <1> QED
    BY <1>1, InvariantHolds, PTL

\* NoReplay: openWithSession refuses every message the device has opened.
THEOREM ReplaysAreRefused == Spec => []NoReplay
  <1>1. IInv => NoReplay
    <2> SUFFICES ASSUME IInv, NEW d \in Device, NEW m \in Entries(opened[d])
                 PROVE  ~Result(d, m).ok
      BY DEF NoReplay
    <2>1. session[d] # NoSession /\ Behind(session[d], m) /\ IsSession(d, session[d])
      BY DEF IInv, ReceivedIsBehind, SessionIsGood
    <2>2. m \in Entries(sealed[Peer(d)]) /\ Peer(d) \in Device
      BY Peers DEF IInv, ReceivedIsBehind
    <2>3. m.index \in Nat /\ m.ratchet # NoKey
      BY <2>2, FreshIsFresh DEF IInv, KeysAreOwn, SealedBefore
    <2>4. Result(d, m) = Opened(session[d], m, Fresh(d))
      BY <2>1 DEF Result, Fresh
    <2>5. Fresh(d) # NoKey
      BY FreshIsFresh DEF IInv
    <2> QED
      BY <2>1, <2>3, <2>4, <2>5, BehindIsRefused
  <1> QED
    BY <1>1, InvariantHolds, PTL

----------------------------------------------------------------------------
(* Skipped keys *)

\* d has sealed a message at a place of a chain.
HasSealed(d, ratchet, chain, index) ==
    \E n \in Entries(sealed[d]) :
        /\ n.ratchet = ratchet /\ n.index = index
        /\ n.key = ChainRec(chain.root, chain.label, index)

SentUpTo(d, s) == \A i \in 0 .. s.send.index - 1 : HasSealed(d, s.own, s.send, i)

IsOwed(d, k) ==
    \E m \in Entries(sealed[Peer(d)]) :
        m.key = k.key /\ m.ratchet = k.ratchet /\ m.index = k.index

\* A chain has no gaps where it was sealed, so that whoever skips keys on it
\* skips those of messages.
Gapless(d) ==
    /\ \A m \in Entries(sealed[d]) :
          \A i \in 0 .. m.index - 1 : HasSealed(d, m.ratchet, m.key, i)
    /\ session[d] # NoSession => SentUpTo(d, session[d])
    /\ session[d] # NoSession => \A k \in session[d].skipped : IsOwed(d, k)

NoGaps == \A d \in Device : Gapless(d)

\* Sealing fills the next place of the chain.
LEMMA SealingIsGapless ==
    ASSUME IInv, NEW d \in Device, NEW s, IsSession(d, s), SendWith(d, s),
           \A e \in Device : Gapless(e),
           SentUpTo(d, s), \A k \in s.skipped : IsOwed(d, k)
    PROVE  \A e \in Device : Gapless(e)'
  <1> DEFINE t == AfterSeal(s)
             p == Peer(d)
  <1>1. PICK m : m = Sealed(s, <<d, Len(sealed[d]) + 1>>)
    OBVIOUS
  <1>2. /\ m.ratchet = s.own /\ m.index = s.send.index /\ m.key = s.send
        /\ sealed' = [sealed EXCEPT ![d] = Append(@, m)]
        /\ session' = [session EXCEPT ![d] = t]
    BY <1>1 DEF SendWith, Save, Sealed
  <1>3. /\ t = [s EXCEPT !.send = ChainRec(s.send.root, s.send.label, s.send.index + 1)]
        /\ t.send = ChainRec(s.send.root, s.send.label, s.send.index + 1)
    BY AfterSealEffect
  <1> HIDE DEF t
  <1>4. /\ t.own = s.own /\ t.skipped = s.skipped
        /\ t.send.root = s.send.root /\ t.send.label = s.send.label
        /\ t.send.index = s.send.index + 1
    BY <1>3 DEF IsSession, HasFields, SessionFields, ChainRec
  <1>5. p \in Device /\ p # d /\ Peer(p) = d /\ \A e \in Device : e = d \/ e = p
    BY Peers
  <1> HIDE DEF p
  <1>6. /\ DOMAIN sealed = Device /\ DOMAIN session = Device /\ IsSeq(sealed[d])
    BY DEF IInv, Shapes
  <1>7. /\ sealed'[d] = Append(sealed[d], m) /\ sealed'[p] = sealed[p]
        /\ session'[d] = t /\ session'[p] = session[p]
    BY <1>2, <1>5, <1>6
  <1>8. Entries(sealed'[d]) = Entries(sealed[d]) \union {m}
    BY <1>6, <1>7, AppendIsSeq
  <1>9. /\ s.send.index \in Nat
        /\ s.send = ChainRec(s.send.root, s.send.label, s.send.index)
    BY DEF IsSession, IsChain
  <1>10. ASSUME NEW ratchet, NEW chain, NEW i, HasSealed(d, ratchet, chain, i)
         PROVE  HasSealed(d, ratchet, chain, i)'
    BY <1>8, <1>10 DEF HasSealed
  <1>11. \A i \in 0 .. s.send.index : HasSealed(d, s.own, s.send, i)'
    <2> TAKE i \in 0 .. s.send.index
    <2>1. CASE i = s.send.index
      BY <1>2, <1>8, <1>9, <2>1 DEF HasSealed
    <2>2. CASE i \in 0 .. s.send.index - 1
      BY <1>10, <2>2 DEF SentUpTo
    <2> QED
      BY <1>9, <2>1, <2>2
  <1>12. SentUpTo(d, t)'
    BY <1>4, <1>9, <1>11 DEF SentUpTo, HasSealed
  <1>13. \A n \in Entries(sealed'[d]) :
            \A i \in 0 .. n.index - 1 : HasSealed(d, n.ratchet, n.key, i)'
    <2>1. \A i \in 0 .. m.index - 1 : HasSealed(d, m.ratchet, m.key, i)'
      BY <1>2, <1>10 DEF SentUpTo
    <2>2. \A n \in Entries(sealed[d]) :
             \A i \in 0 .. n.index - 1 : HasSealed(d, n.ratchet, n.key, i)'
      BY <1>10 DEF Gapless
    <2> QED
      BY <1>8, <2>1, <2>2
  <1>14. Gapless(d)'
    <2>1. \A k \in t.skipped : IsOwed(d, k)'
      BY <1>4, <1>5, <1>7 DEF IsOwed, p
    <2> QED
      BY <1>7, <1>12, <1>13, <2>1 DEF Gapless
  <1>15. Gapless(p)'
    <2>1. \A k : IsOwed(p, k) => IsOwed(p, k)'
      BY <1>5, <1>8 DEF IsOwed
    <2>2. \A ratchet, chain, i : HasSealed(p, ratchet, chain, i) => HasSealed(p, ratchet, chain, i)'
      BY <1>7 DEF HasSealed
    <2>3. Gapless(p)
      BY <1>5
    <2>4. \A n \in Entries(sealed'[p]) :
             \A i \in 0 .. n.index - 1 : HasSealed(p, n.ratchet, n.key, i)'
      BY <1>7, <2>2, <2>3 DEF Gapless
    <2>5. session'[p] # NoSession =>
             \A i \in 0 .. session'[p].send.index - 1 :
                 HasSealed(p, session[p].own, session[p].send, i)'
      BY <1>7, <2>2, <2>3 DEF Gapless, SentUpTo
    <2>6. session'[p] # NoSession => \A k \in session'[p].skipped : IsOwed(p, k)'
      BY <1>7, <2>1, <2>3 DEF Gapless
    <2> QED
      BY <1>7, <2>4, <2>5, <2>6 DEF Gapless, SentUpTo, HasSealed
  <1> QED
    BY <1>5, <1>14, <1>15

\* Opening keeps keys of places before the message's, which were sealed too.
LEMMA ReceivingIsGapless ==
    ASSUME IInv, NEW d \in Device, NEW i, Receive(d, i), \A e \in Device : Gapless(e)
    PROVE  \A e \in Device : Gapless(e)'
  <1>1. PICK m, t : m = inbox[d][i] /\ t = Result(d, m).session
    OBVIOUS
  <1>2. /\ Save(d, t) /\ m \in Entries(sealed[Peer(d)]) /\ m.index \in Nat
        /\ \/ session[d] # NoSession /\ HasOpened(d, session[d], m, Fresh(d), t)
           \/ /\ session[d] = NoSession
              /\ \E s : /\ BeginsOn(d, s)
                       /\ HasOpened(d, s, m, RatchetKey(d, generated[d] + 2), t)
    BY <1>1, ReceiveOpens
  <1>3. /\ sealed' = sealed /\ session'[d] = t
        /\ \A e \in Device \ {d} : session'[e] = session[e]
    BY <1>2 DEF Receive, Save, IInv, Shapes
  <1>4. PICK s, fresh :
           /\ HasOpened(d, s, m, fresh, t)
           /\ SentUpTo(d, s) /\ \A k \in s.skipped : IsOwed(d, k)
    <2>1. CASE session[d] # NoSession
      BY <1>2, <2>1 DEF Gapless
    <2>2. ASSUME NEW s, BeginsOn(d, s)
          PROVE  SentUpTo(d, s) /\ \A k \in s.skipped : IsOwed(d, k)
      BY <2>2 DEF BeginsOn, SentUpTo
    <2> QED
      BY <1>2, <2>1, <2>2
  <1>5. SentUpTo(d, t)
    <2>1. CASE t.own = s.own /\ t.send = s.send
      BY <1>4, <2>1 DEF SentUpTo
    <2>2. CASE t.send.index = 0
      BY <2>2 DEF SentUpTo
    <2> QED
      BY <1>4, <2>1, <2>2 DEF HasOpened
  <1>6. ASSUME NEW k \in t.skipped
        PROVE  IsOwed(d, k)
    <2>1. CASE k \in s.skipped
      BY <1>4, <2>1
    <2>2. CASE k.index < m.index
      <3>1. k = SkippedKey(t, k.index) /\ k.index \in Nat /\ t.remote = m.ratchet
        BY <1>4 DEF HasOpened, IsSession
      <3>2. HasSealed(Peer(d), m.ratchet, m.key, k.index)
        BY <1>2, <2>2, <3>1, Peers DEF Gapless
      <3>3. m.key.root = t.receive.root /\ m.key.label = t.receive.label
        BY <1>4 DEF HasOpened, ChainRec
      <3>4. k.ratchet = m.ratchet
            /\ k.key = ChainRec(t.receive.root, t.receive.label, k.index)
        <4>1. /\ SkippedKey(t, k.index).ratchet = t.remote
              /\ SkippedKey(t, k.index).key
                    = ChainRec(t.receive.root, t.receive.label, k.index)
          BY DEF SkippedKey
        <4> QED
          BY <3>1, <4>1
      <3> QED
        BY <3>2, <3>3, <3>4 DEF HasSealed, IsOwed
    <2> QED
      BY <1>4, <2>1, <2>2 DEF HasOpened
  <1>7. Gapless(d)'
    BY <1>3, <1>5, <1>6 DEF Gapless, SentUpTo, HasSealed, IsOwed
  <1>8. \A e \in Device \ {d} : Gapless(e)'
    BY <1>3 DEF Gapless, SentUpTo, HasSealed, IsOwed
  <1> QED
    BY <1>7, <1>8

LEMMA GaplessStep ==
    ASSUME IInv, \A e \in Device : Gapless(e), [Next]_vars
    PROVE  \A e \in Device : Gapless(e)'
  <1>1. ASSUME NEW d \in Device, NEW preKey, SendFirst(d, preKey)
        PROVE  \A e \in Device : Gapless(e)'
    <2> DEFINE s == NewInitiator(d, Peer(d), preKey, Fresh(d))
    <2>1. IsSession(d, s) /\ s.remote = NoKey /\ s.send.index = 0
      BY FreshIsFresh, NewSessionEffect DEF IInv, NewInitiator, InitiatorRoot
    <2>2. SendWith(d, s)
      BY <1>1 DEF SendFirst
    <2> HIDE DEF s
    <2>3. SentUpTo(d, s) /\ s.skipped = {}
      BY <2>1 DEF SentUpTo, IsSession
    <2> QED
      BY <2>1, <2>2, <2>3, SealingIsGapless
  <1>2. ASSUME NEW d \in Device, Send(d)
        PROVE  \A e \in Device : Gapless(e)'
    <2>1. session[d] # NoSession /\ SendWith(d, session[d])
      BY <1>2 DEF Send
    <2>2. /\ IsSession(d, session[d]) /\ SentUpTo(d, session[d])
          /\ \A k \in session[d].skipped : IsOwed(d, k)
      BY <2>1 DEF IInv, SessionIsGood, Gapless
    <2> QED
      BY <2>1, <2>2, SealingIsGapless
  <1>3. ASSUME UNCHANGED <<session, sealed>>
        PROVE  \A e \in Device : Gapless(e)'
    BY <1>3 DEF Gapless, SentUpTo, HasSealed, IsOwed
  <1> QED
    BY <1>1, <1>2, <1>3, ReceivingIsGapless DEF Next, Expire, vars

\* SkippedKeysAreOwed: storeSkippedKeysUntil keeps keys of messages that were
\* sealed and not opened yet, and openWithSession keeps no other.
THEOREM SkippedKeysAreMessages == Spec => []SkippedKeysAreOwed
  <1>1. Init => NoGaps
    BY EmptyIsSeq DEF Init, NoGaps, Gapless
  <1>2. IInv /\ NoGaps /\ [Next]_vars => NoGaps'
    BY GaplessStep DEF NoGaps
  <1>3. IInv /\ NoGaps => SkippedKeysAreOwed
    <2> SUFFICES ASSUME IInv, NoGaps,
                        NEW d \in Device, session[d] # NoSession,
                        NEW k \in session[d].skipped
                 PROVE  \E m \in Entries(sealed[Peer(d)]) \ Entries(opened[d]) :
                           m.key = k.key /\ m.ratchet = k.ratchet /\ m.index = k.index
      BY DEF SkippedKeysAreOwed
    <2>1. PICK m \in Entries(sealed[Peer(d)]) :
             m.key = k.key /\ m.ratchet = k.ratchet /\ m.index = k.index
      BY DEF NoGaps, Gapless, IsOwed
    <2>2. k.ratchet = session[d].remote
      BY DEF IInv, SessionIsGood, IsSession, SkippedKey
    <2>3. m \notin Entries(opened[d])
      BY <2>1, <2>2 DEF IInv, ReceivedIsBehind, Behind
    <2> QED
      BY <2>1, <2>3
  <1> QED
    BY <1>1, <1>2, <1>3, InvariantHolds, PTL DEF Spec

----------------------------------------------------------------------------
(* Why a message is refused *)

\* A responder that has not answered yet.
FirstAnswers(s) == s.remote = NoKey /\ s.role = "responder"

\* What maybeAdvanceDhRatchet derives for a key pair it has not met.
Derives(d, s, theirs, fresh, w) ==
    /\ w.role = s.role /\ w.preKey = s.preKey /\ w.send = TurnChain(w.root)
    /\ IF FirstAnswers(s)
       THEN /\ w.own = s.own /\ w.receive = s.receive
            /\ w.root = NextRoot(s.root, diffieHellman(s.own, theirs), d, Peer(d))
       ELSE /\ w.own = fresh
            /\ w.receive = TurnChain(NextRoot(s.root, diffieHellman(s.own, theirs),
                                              Peer(d), d))
            /\ w.root = NextRoot(w.receive.root, diffieHellman(fresh, theirs),
                                 d, Peer(d))

LEMMA AdvancedDerives ==
    ASSUME NEW d \in Device, NEW s, IsSession(d, s),
           NEW theirs, NEW fresh, theirs # s.remote
    PROVE  Derives(d, s, theirs, fresh, Advanced(s, theirs, fresh))
  <1> DEFINE w == Advanced(s, theirs, fresh)
             received == NextRoot(s.root, diffieHellman(s.own, theirs), Peer(d), d)
             sent == NextRoot(received, diffieHellman(fresh, theirs), d, Peer(d))
             answer == NextRoot(s.root, diffieHellman(s.own, theirs), d, Peer(d))
  <1>1. /\ DOMAIN s = SessionFields /\ s.local = d /\ s.peer = Peer(d)
        /\ s.role \in {"initiator", "responder"}
        /\ s.remote = NoKey => s.receive.index = 0
    BY DEF IsSession, HasFields
  <1>2. /\ Turn(s, theirs, fresh) = [s EXCEPT !.root = sent, !.own = fresh,
                !.remote = theirs, !.send = TurnChain(sent),
                !.receive = TurnChain(received)]
        /\ FirstAnswer(s, theirs) = [s EXCEPT !.root = answer, !.remote = theirs,
                                              !.send = TurnChain(answer)]
    BY <1>1 DEF Turn, FirstAnswer, ReceiveRoot
  <1>3. TurnChain(received).root = received
    BY DEF TurnChain
  <1> HIDE DEF received, sent, answer
  <1>4. CASE FirstAnswers(s)
    <2>1. w = FirstAnswer(s, theirs)
      BY <1>1, <1>4 DEF Advanced, FirstAnswers
    <2> HIDE DEF w
    <2>2. /\ w.role = s.role /\ w.preKey = s.preKey /\ w.root = answer
          /\ w.send = TurnChain(answer) /\ w.own = s.own /\ w.receive = s.receive
      BY <1>1, <1>2, <2>1 DEF SessionFields
    <2> QED
      BY <1>4, <2>2 DEF w, Derives, answer
  <1>5. CASE ~FirstAnswers(s)
    <2>1. w = Turn(s, theirs, fresh) \/ w = [Turn(s, theirs, fresh) EXCEPT !.skipped = {}]
      BY <1>1, <1>5 DEF Advanced, FirstAnswers
    <2> HIDE DEF w
    <2> DEFINE u == Turn(s, theirs, fresh)
    <2>2. /\ DOMAIN u = SessionFields
          /\ u.role = s.role /\ u.preKey = s.preKey /\ u.root = sent
          /\ u.send = TurnChain(sent) /\ u.own = fresh
          /\ u.receive = TurnChain(received)
      BY <1>1, <1>2 DEF SessionFields
    <2>3. w = u \/ w = [u EXCEPT !.skipped = {}]
      BY <2>1
    <2> HIDE DEF u
    <2>4. /\ w.role = s.role /\ w.preKey = s.preKey /\ w.root = sent
          /\ w.send = TurnChain(sent) /\ w.own = fresh
          /\ w.receive = TurnChain(received)
      BY <2>2, <2>3 DEF SessionFields
    <2> QED
      BY <1>3, <1>5, <2>4 DEF w, Derives, received, sent
  <1> QED
    BY <1>4, <1>5

\* A key is kept for a place of the chain a session receives on.
HasKeyAt(s, n) == \E k \in s.skipped : k.index = n

\* What opening m leaves of the keys of its chain: all but m's own.
KeepsKeys(w, m, t) ==
    /\ t.role = w.role /\ t.preKey = w.preKey
    /\ t.receive.index = w.receive.index \/ t.receive.index = m.index + 1
    /\ \A n \in 0 .. t.receive.index - 1 :
          n # m.index => HasKeyAt(t, n) \/ (n < w.receive.index /\ ~HasKeyAt(w, n))

LEMMA OpenedKeepsKeys ==
    ASSUME NEW d \in Device, NEW s, NEW fresh, NEW m, m.index \in Nat,
           Opened(s, m, fresh).ok,
           NEW w, w = Advanced(s, m.ratchet, fresh), IsSession(d, w)
    PROVE  KeepsKeys(w, m, Opened(s, m, fresh).session)
  <1> DEFINE t == Opened(s, m, fresh).session
  <1>0. DOMAIN w = SessionFields /\ w.receive.index \in Nat
        /\ DOMAIN w.receive = {"root", "label", "index"}
    BY DEF IsSession, HasFields, IsChain, ChainRec
  <1>1. CASE \E k \in Stored(w, m) : t = WithoutKey(w, k)
    <2>1. PICK k \in Stored(w, m) : t = WithoutKey(w, k)
      BY <1>1
    <2> HIDE DEF t
    <2>2. /\ t.role = w.role /\ t.preKey = w.preKey /\ t.receive = w.receive
          /\ t.skipped = w.skipped \ {k} /\ k.index = m.index
      BY <1>0, <2>1 DEF WithoutKey, SessionFields, Stored
    <2> QED
      BY <1>0, <2>2 DEF t, KeepsKeys, HasKeyAt
  <1>2. CASE ~TooFar(w, m) /\ t = PastMessage(w, m)
    <2> DEFINE passed == {[ratchet |-> w.remote, index |-> i,
                           key |-> [w.receive EXCEPT !.index = i]] :
                             i \in w.receive.index .. m.index - 1}
               here == [w.receive EXCEPT !.index = m.index]
    <2>1. Skipping(w, m.index) = [w EXCEPT !.skipped = @ \union passed, !.receive = here]
      BY DEF Skipping
    <2>2. ASSUME NEW i \in w.receive.index .. m.index - 1
          PROVE  \E k \in passed : k.index = i
      <3> DEFINE k == [ratchet |-> w.remote, index |-> i,
                       key |-> [w.receive EXCEPT !.index = i]]
      <3>1. k \in passed /\ k.index = i
        OBVIOUS
      <3> QED
        BY <3>1
    <2>3. NextChain(here).index = m.index + 1
      BY <1>0 DEF NextChain
    <2> HIDE DEF passed, here, t
    <2>4. /\ t.role = w.role /\ t.preKey = w.preKey /\ t.receive = NextChain(here)
          /\ t.skipped = w.skipped \union passed
      BY <1>0, <1>2, <2>1 DEF PastMessage, SessionFields
    <2>5. t.receive.index = m.index + 1
      BY <2>3, <2>4
    <2>6. ASSUME NEW n \in 0 .. t.receive.index - 1, n # m.index
          PROVE  HasKeyAt(t, n) \/ (n < w.receive.index /\ ~HasKeyAt(w, n))
      <3>1. n \in 0 .. m.index - 1
        BY <2>5, <2>6
      <3>2. CASE n \in w.receive.index .. m.index - 1
        BY <2>2, <2>4, <3>2 DEF HasKeyAt
      <3>3. CASE n < w.receive.index
        BY <2>4, <3>3 DEF HasKeyAt
      <3> QED
        BY <1>0, <3>1, <3>2, <3>3
    <2> QED
      BY <2>4, <2>5, <2>6 DEF t, KeepsKeys
  <1> QED
    BY <1>1, <1>2, OpenedCases

\* What opening m makes of a session, exactly.
Becomes(d, s, m, fresh, t) ==
    /\ t.role = s.role /\ t.preKey = s.preKey
    /\ IF m.ratchet = s.remote
       THEN t.root = s.root /\ t.own = s.own /\ t.send = s.send
       ELSE /\ t.send = TurnChain(t.root)
            /\ IF FirstAnswers(s)
               THEN /\ t.own = s.own /\ m.key.root = s.receive.root
                    /\ t.root = NextRoot(s.root, diffieHellman(s.own, m.ratchet),
                                         d, Peer(d))
               ELSE /\ t.own = fresh
                    /\ m.key.root = NextRoot(s.root, diffieHellman(s.own, m.ratchet),
                                             Peer(d), d)
                    /\ t.root = NextRoot(m.key.root, diffieHellman(fresh, m.ratchet),
                                         d, Peer(d))
    /\ \/ m.ratchet = s.remote /\ t.receive.index = s.receive.index
       \/ t.receive.index = m.index + 1
    /\ \A n \in 0 .. t.receive.index - 1 :
          n # m.index =>
             \/ HasKeyAt(t, n)
             \/ m.ratchet = s.remote /\ n < s.receive.index /\ ~HasKeyAt(s, n)

LEMMA OpenedBecomes ==
    ASSUME NEW d \in Device, NEW s, IsSession(d, s), NEW fresh, fresh # NoKey,
           NEW m, m.index \in Nat, m.ratchet # NoKey, Opened(s, m, fresh).ok
    PROVE  Becomes(d, s, m, fresh, Opened(s, m, fresh).session)
  <1> DEFINE t == Opened(s, m, fresh).session
             w == Advanced(s, m.ratchet, fresh)
  <1>1. CASE m.ratchet = s.remote
    <2>1. w = s
      BY <1>1 DEF Advanced
    <2>2. Opens(s, m, t) /\ KeepsKeys(s, m, t)
      BY <1>1, <2>1, OpensEffect, OpenedKeepsKeys
    <2> HIDE DEF t, w
    <2> QED
      BY <1>1, <2>2 DEF t, Becomes, Opens, KeepsKeys
  <1>2. CASE m.ratchet # s.remote
    <2>1. Advances(d, s, m.ratchet, fresh, w) /\ Derives(d, s, m.ratchet, fresh, w)
      BY <1>2, AdvancedEffect, AdvancedDerives
    <2> HIDE DEF w
    <2>2. IsSession(d, w) /\ w.remote = m.ratchet /\ w.receive.index = 0
      BY <2>1 DEF Advances
    <2>3. IsSession(d, t) /\ Opens(w, m, t) /\ KeepsKeys(w, m, t)
      BY <2>2, OpensEffect, OpenedKeepsKeys DEF w
    <2> HIDE DEF t
    <2>4. /\ t.own = w.own /\ t.root = w.root /\ t.send = w.send
          /\ m.key.root = w.receive.root /\ m.index < t.receive.index
          /\ t.receive.index \in Nat
      BY <2>3 DEF Opens, IsSession, IsChain
    <2>5. t.receive.index = m.index + 1
      BY <2>2, <2>3, <2>4 DEF KeepsKeys
    <2>6. \A n \in 0 .. t.receive.index - 1 : n # m.index => HasKeyAt(t, n)
      BY <2>2, <2>3 DEF KeepsKeys
    <2>7. w.receive = TurnChain(NextRoot(s.root, diffieHellman(s.own, m.ratchet), Peer(d), d))
          => w.receive.root = NextRoot(s.root, diffieHellman(s.own, m.ratchet), Peer(d), d)
      BY DEF TurnChain
    <2> QED
      BY <1>2, <2>1, <2>3, <2>4, <2>5, <2>6, <2>7 DEF t, Becomes, Derives, KeepsKeys
  <1> QED
    BY <1>1, <1>2

\* What a device receives it opens with the session it has, or with one that
\* begins: both give exactly this.
Meets(d, s, fresh) ==
    IF session[d] # NoSession
    THEN s = session[d] /\ fresh = Fresh(d)
    ELSE /\ BeginsOn(d, s)
         /\ s.receive.root = s.root

LEMMA ReceiveBecomes ==
    ASSUME IInv, NEW d \in Device, NEW i, Receive(d, i),
           NEW m, m = inbox[d][i], NEW t, t = Result(d, m).session
    PROVE  \E s, fresh : /\ Meets(d, s, fresh) /\ IsSession(d, s)
                         /\ HasOpened(d, s, m, fresh, t)
                         /\ Becomes(d, s, m, fresh, t)
  <1>1. i \in DOMAIN inbox[d] /\ Result(d, m).ok
    BY DEF Receive
  <1>2. m \in Entries(sealed[Peer(d)]) /\ Peer(d) \in Device
    BY <1>1, Peers DEF IInv, ReceivedIsBehind, Entries
  <1>3. m.index \in Nat /\ m.ratchet # NoKey
    BY <1>2, FreshIsFresh DEF IInv, KeysAreOwn, SealedBefore
  <1>4. Fresh(d) # NoKey /\ RatchetKey(d, generated[d] + 2) # NoKey
    BY FreshIsFresh DEF IInv
  <1>5. CASE session[d] # NoSession
    <2>1. Result(d, m) = Opened(session[d], m, Fresh(d))
      BY <1>5 DEF Result, Fresh
    <2>2. IsSession(d, session[d])
      BY <1>5 DEF IInv, SessionIsGood
    <2>3. /\ HasOpened(d, session[d], m, Fresh(d), t)
          /\ Becomes(d, session[d], m, Fresh(d), t)
      BY <1>1, <1>3, <1>4, <2>1, <2>2, OpenedEffect, OpenedBecomes
    <2> QED
      BY <1>5, <2>2, <2>3 DEF Meets
  <1>6. CASE session[d] = NoSession
    <2> DEFINE s == NewResponder(d, Peer(d), m, {m.preKey} \ {NoKey}, Fresh(d))
               fresh == RatchetKey(d, generated[d] + 2)
    <2>1. Result(d, m) = Opened(s, m, fresh)
      BY <1>6 DEF Result
    <2>2. BeginsOn(d, s) /\ s.receive.root = s.root
      <3>1. /\ IsSession(d, s) /\ s.own = Fresh(d) /\ s.role = "responder"
            /\ s.remote = NoKey /\ s.send.index = 0
        BY <1>4, NewSessionEffect DEF NewResponder, ResponderRoot
      <3>2. s.receive.root = s.root
        BY DEF NewResponder, NewSession, InitialChain
      <3> HIDE DEF s
      <3> QED
        BY <3>1, <3>2 DEF BeginsOn, IsSession
    <2> HIDE DEF s
    <2>3. HasOpened(d, s, m, fresh, t) /\ Becomes(d, s, m, fresh, t)
      BY <1>1, <1>3, <1>4, <2>1, <2>2, OpenedEffect, OpenedBecomes DEF BeginsOn
    <2> QED
      BY <1>6, <2>2, <2>3 DEF Meets, BeginsOn
  <1> QED
    BY <1>5, <1>6

\* What a device has sealed, chain by chain: the messages of its own key pair
\* are the last, and only they are on the chain it seals with.
SealsInOrder(d) ==
    session[d] # NoSession =>
       LET s == session[d] IN
       /\ \A m \in Entries(sealed[d]) :
             /\ m.preKey = s.preKey
             /\ m.key = ChainRec(m.key.root, m.key.label, m.index)
             /\ m.key.root = s.send.root => m.ratchet = s.own
             /\ m.ratchet = s.own => m.key.label = s.send.label
             /\ s.remote = NoKey => m.ratchet = s.own
       /\ \A m, n \in Entries(sealed[d]) :
             m.ratchet = n.ratchet => m.key.label = n.key.label
       /\ \A j, k \in DOMAIN sealed[d] :
             j < k /\ sealed[d][j].ratchet = s.own => sealed[d][k].ratchet = s.own
       /\ IF s.remote = NoKey
          THEN /\ s.root = InitiatorRoot(d, Peer(d), s.preKey)
               /\ s.send.label = <<d, Peer(d)>>
          ELSE s.send.label = << >>

\* What a device has opened: the chain it receives on is that of a message it
\* has opened, just past the furthest, and it keeps a key for what it skipped.
OpensInOrder(d) ==
    session[d] # NoSession /\ session[d].remote # NoKey =>
       LET s == session[d] IN
       /\ \E n \in Entries(opened[d]) :
             /\ n.ratchet = s.remote /\ n.index + 1 = s.receive.index
             /\ n.key = ChainRec(s.receive.root, s.receive.label, n.index)
       /\ \A m \in Entries(sealed[Peer(d)]) \ Entries(opened[d]) :
             m.ratchet = s.remote /\ m.index < s.receive.index => HasKeyAt(s, m.index)

\* d took the last turn: it has met the key pair its peer seals with, and its
\* root is one turn further.
Ahead(d) ==
    LET s == session[d]
        q == session[Peer(d)]
    IN /\ s # NoSession
       /\ IF q = NoSession
          THEN s.remote = NoKey
          ELSE /\ s.remote = q.own /\ q.remote # s.own
               /\ s.root = NextRoot(q.root, diffieHellman(s.own, q.own), d, Peer(d))

\* Messages d can no longer open are of chains before those at hand.
HasPassed(d) ==
    session[d] # NoSession =>
       \A m \in Entries(sealed[Peer(d)]) :
          m.ratchet \notin {session[d].remote, session[Peer(d)].own} => Passed(d, m)

InOrder == \A d \in Device : SealsInOrder(d) /\ OpensInOrder(d)

InStep ==
    \/ BothInitiate
    \/ /\ \A d \in Device : HasPassed(d)
       /\ (\A d \in Device : session[d] = NoSession) \/ (\E d \in Device : Ahead(d))

\* Saving a sealed message, seen from both devices.
Seals(d, s, m, t) ==
    /\ m.ratchet = s.own /\ m.index = s.send.index /\ m.key = s.send
    /\ m.preKey = s.preKey
    /\ t.role = s.role /\ t.own = s.own /\ t.remote = s.remote /\ t.root = s.root
    /\ t.preKey = s.preKey /\ t.receive = s.receive /\ t.skipped = s.skipped
    /\ t.send.root = s.send.root /\ t.send.label = s.send.label
    /\ t # NoSession /\ session'[d] = t /\ session'[Peer(d)] = session[Peer(d)]
    /\ IsSeq(sealed[d]) /\ sealed'[d] = Append(sealed[d], m)
    /\ Entries(sealed'[d]) = Entries(sealed[d]) \union {m}
    /\ sealed'[Peer(d)] = sealed[Peer(d)] /\ opened' = opened

LEMMA SendWithSeals ==
    ASSUME IInv, NEW d \in Device, NEW s, IsSession(d, s), SendWith(d, s)
    PROVE  \E m, t : Seals(d, s, m, t)
  <1> DEFINE t == AfterSeal(s)
             p == Peer(d)
  <1>1. PICK m : m = Sealed(s, <<d, Len(sealed[d]) + 1>>)
    OBVIOUS
  <1>2. /\ m.ratchet = s.own /\ m.index = s.send.index /\ m.key = s.send
        /\ m.preKey = s.preKey
        /\ sealed' = [sealed EXCEPT ![d] = Append(@, m)]
        /\ session' = [session EXCEPT ![d] = t] /\ opened' = opened
    BY <1>1 DEF SendWith, Save, Sealed
  <1>3. /\ IsSession(d, t)
        /\ t = [s EXCEPT !.send = ChainRec(s.send.root, s.send.label, s.send.index + 1)]
        /\ t.send = ChainRec(s.send.root, s.send.label, s.send.index + 1)
    BY AfterSealEffect
  <1> HIDE DEF t
  <1>4. /\ t.role = s.role /\ t.own = s.own /\ t.remote = s.remote /\ t.root = s.root
        /\ t.preKey = s.preKey /\ t.receive = s.receive /\ t.skipped = s.skipped
        /\ t.send.root = s.send.root /\ t.send.label = s.send.label
    BY <1>3 DEF IsSession, HasFields, SessionFields, ChainRec
  <1>5. p \in Device /\ p # d
    BY Peers
  <1> HIDE DEF p
  <1>6. /\ session'[d] = t /\ session'[p] = session[p]
        /\ IsSeq(sealed[d]) /\ sealed'[d] = Append(sealed[d], m)
        /\ sealed'[p] = sealed[p] /\ t # NoSession
    BY <1>2, <1>3, <1>5 DEF IInv, Shapes, NoSession, IsSession
  <1>7. Entries(sealed'[d]) = Entries(sealed[d]) \union {m}
    BY <1>6, AppendIsSeq
  <1>8. Seals(d, s, m, t)
    BY <1>2, <1>4, <1>6, <1>7 DEF Seals, p
  <1> QED
    BY <1>8

\* The session of a device that writes first.
Starts(d, s) ==
    /\ session[d] = NoSession /\ s.role = "initiator" /\ s.remote = NoKey
    /\ s.root = InitiatorRoot(d, Peer(d), s.preKey) /\ s.send.label = <<d, Peer(d)>>

LEMMA SendFirstStarts ==
    ASSUME IInv, NEW d \in Device, NEW preKey, SendFirst(d, preKey)
    PROVE  \E s : IsSession(d, s) /\ Starts(d, s) /\ SendWith(d, s)
  <1> DEFINE s == NewInitiator(d, Peer(d), preKey, Fresh(d))
  <1>1. IsSession(d, s)
    BY FreshIsFresh, NewSessionEffect DEF IInv, NewInitiator, InitiatorRoot
  <1>2. /\ s.role = "initiator" /\ s.remote = NoKey
        /\ s.root = InitiatorRoot(d, Peer(d), s.preKey) /\ s.send.label = <<d, Peer(d)>>
    BY DEF NewInitiator, NewSession, InitialChain
  <1>3. session[d] = NoSession /\ SendWith(d, s)
    BY DEF SendFirst
  <1> QED
    BY <1>1, <1>2, <1>3 DEF Starts

\* Sealing goes on with the chain at hand.
LEMMA SealingIsInOrder ==
    ASSUME IInv, InOrder, NEW d \in Device, NEW s, IsSession(d, s),
           s = session[d] \/ Starts(d, s), SendWith(d, s)
    PROVE  InOrder'
  <1>1. PICK m, t : Seals(d, s, m, t)
    BY SendWithSeals
  <1> DEFINE p == Peer(d)
  <1>2. p \in Device /\ p # d /\ Peer(p) = d /\ \A e \in Device : e = d \/ e = p
    BY Peers
  <1>3. s.send = ChainRec(s.send.root, s.send.label, s.send.index)
        /\ s.send.index \in Nat /\ s # NoSession
    BY DEF IsSession, IsChain, NoSession
  <1>4. session[d] = NoSession => Entries(sealed[d]) = {} /\ Entries(opened[d]) = {}
    BY DEF IInv, KeysAreOwn, SealedBefore, ReceivedIsBehind
  <1>5. SealsInOrder(d)'
    <2>1. /\ t # NoSession /\ session'[d] = t
          /\ Entries(sealed'[d]) = Entries(sealed[d]) \union {m}
      BY <1>1 DEF Seals
    <2>2. ASSUME NEW n \in Entries(sealed[d])
          PROVE  /\ n.preKey = s.preKey
                 /\ n.key = ChainRec(n.key.root, n.key.label, n.index)
                 /\ n.key.root = s.send.root => n.ratchet = s.own
                 /\ n.ratchet = s.own => n.key.label = s.send.label
                 /\ s.remote = NoKey => n.ratchet = s.own
                 /\ session[d] = s /\ s # NoSession
      BY <1>3, <1>4 DEF InOrder, SealsInOrder, Starts
    <2>3. ASSUME NEW n \in Entries(sealed'[d])
          PROVE  /\ n.preKey = t.preKey
                 /\ n.key = ChainRec(n.key.root, n.key.label, n.index)
                 /\ n.key.root = t.send.root => n.ratchet = t.own
                 /\ n.ratchet = t.own => n.key.label = t.send.label
                 /\ t.remote = NoKey => n.ratchet = t.own
      BY <1>1, <1>3, <2>1, <2>2 DEF Seals
    <2>4. ASSUME NEW n \in Entries(sealed'[d]), NEW o \in Entries(sealed'[d]),
                 n.ratchet = o.ratchet
          PROVE  n.key.label = o.key.label
      <3>1. CASE n.ratchet = s.own
        BY <1>1, <2>3, <2>4, <3>1 DEF Seals
      <3>2. CASE n.ratchet # s.own
        <4>1. n \in Entries(sealed[d]) /\ o \in Entries(sealed[d])
          BY <1>1, <2>1, <2>4, <3>2 DEF Seals
        <4> QED
          BY <1>3, <2>2, <2>4, <4>1 DEF InOrder, SealsInOrder
      <3> QED
        BY <3>1, <3>2
    <2>5. ASSUME NEW j \in DOMAIN sealed'[d], NEW k \in DOMAIN sealed'[d], j < k,
                 sealed'[d][j].ratchet = t.own
          PROVE  sealed'[d][k].ratchet = t.own
      <3>1. /\ Len(sealed[d]) \in Nat
            /\ DOMAIN sealed[d] = 1 .. Len(sealed[d])
            /\ DOMAIN sealed'[d] = 1 .. Len(sealed[d]) + 1
            /\ sealed'[d][Len(sealed[d]) + 1] = m
            /\ \A i \in DOMAIN sealed[d] : sealed'[d][i] = sealed[d][i]
        BY <1>1, AppendIsSeq DEF Seals
      <3>2. CASE k = Len(sealed[d]) + 1
        BY <1>1, <3>1, <3>2 DEF Seals
      <3>3. CASE k # Len(sealed[d]) + 1
        <4>1. j \in DOMAIN sealed[d] /\ k \in DOMAIN sealed[d]
          BY <2>5, <3>1, <3>3
        <4>2. sealed[d][j] \in Entries(sealed[d])
          BY <4>1 DEF Entries
        <4>3. session[d] = s
          BY <2>2, <4>2
        <4> QED
          BY <1>1, <1>3, <2>5, <3>1, <4>1, <4>3 DEF InOrder, SealsInOrder, Seals
      <3> QED
        BY <3>2, <3>3
    <2>6. IF t.remote = NoKey
          THEN /\ t.root = InitiatorRoot(d, Peer(d), t.preKey)
               /\ t.send.label = <<d, Peer(d)>>
          ELSE t.send.label = << >>
      BY <1>1, <1>3 DEF Seals, InOrder, SealsInOrder, Starts
    <2> QED
      BY <2>1, <2>3, <2>4, <2>5, <2>6 DEF SealsInOrder
  <1>6. SealsInOrder(p)'
    BY <1>1, <1>2 DEF InOrder, SealsInOrder, Seals
  <1>7. OpensInOrder(d)'
    <2>1. CASE s = session[d]
      BY <1>1, <1>2, <1>3, <2>1 DEF InOrder, OpensInOrder, Seals, HasKeyAt
    <2>2. CASE Starts(d, s)
      BY <1>1, <2>2 DEF OpensInOrder, Seals, Starts
    <2> QED
      BY <2>1, <2>2
  <1>8. OpensInOrder(p)'
    <2> DEFINE q == session[p]
    <2> SUFFICES ASSUME q # NoSession, q.remote # NoKey, m.ratchet = q.remote
                 PROVE  ~(m.index < q.receive.index)
      BY <1>1, <1>2 DEF InOrder, OpensInOrder, Seals
    <2>1. PICK n \in Entries(opened[p]) :
             /\ n.ratchet = q.remote /\ n.index + 1 = q.receive.index
             /\ n.key = ChainRec(q.receive.root, q.receive.label, n.index)
      BY <1>2 DEF InOrder, OpensInOrder
    <2>2. n \in Entries(sealed[d])
      BY <1>2 DEF IInv, ReceivedIsBehind
    <2>3. session[d] = s
      BY <1>4, <2>2 DEF Starts
    <2>4. /\ n.index \in Nat /\ Before(n.key, s.send)
          /\ n.ratchet = s.own => n.key.root = s.send.root
      BY <2>2, <2>3 DEF IInv, KeysAreOwn, SealedBefore
    <2>5. n.key.root = s.send.root
      BY <1>1, <2>1, <2>4 DEF Seals
    <2>6. Depth(s.send.root) \in Nat
      BY AppendIsSeq DEF IsSession, IsChain, IsRoot, Depth
    <2>7. n.key.index \in 0 .. s.send.index - 1
      BY <2>4, <2>5, <2>6 DEF Before
    <2>8. n.key.index = n.index
      BY <2>1 DEF ChainRec
    <2>9. m.index = s.send.index
      BY <1>1 DEF Seals
    <2> QED
      BY <1>3, <2>1, <2>4, <2>7, <2>8, <2>9
  <1> QED
    BY <1>2, <1>5, <1>6, <1>7, <1>8 DEF InOrder

\* What d has passed it stays past, whatever is sealed and opened later.
LEMMA PassedStays ==
    ASSUME NEW d \in Device, NEW m, Passed(d, m),
           Entries(opened[d]) \subseteq Entries(opened'[d]),
           \/ sealed'[Peer(d)] = sealed[Peer(d)]
           \/ \E n : IsSeq(sealed[Peer(d)]) /\ sealed'[Peer(d)] = Append(sealed[Peer(d)], n)
    PROVE  Passed(d, m)'
  <1>1. /\ DOMAIN sealed[Peer(d)] \subseteq DOMAIN sealed'[Peer(d)]
        /\ \A j \in DOMAIN sealed[Peer(d)] : sealed'[Peer(d)][j] = sealed[Peer(d)][j]
    <2>1. CASE sealed'[Peer(d)] = sealed[Peer(d)]
      BY <2>1
    <2>2. ASSUME NEW n, IsSeq(sealed[Peer(d)]),
                 sealed'[Peer(d)] = Append(sealed[Peer(d)], n)
          PROVE  /\ DOMAIN sealed[Peer(d)] \subseteq DOMAIN sealed'[Peer(d)]
                 /\ \A j \in DOMAIN sealed[Peer(d)] :
                       sealed'[Peer(d)][j] = sealed[Peer(d)][j]
      BY <2>2, AppendIsSeq
    <2> QED
      BY <2>1, <2>2
  <1>2. PICK j, k \in DOMAIN sealed[Peer(d)] :
           /\ j < k /\ sealed[Peer(d)][j] = m
           /\ sealed[Peer(d)][k].ratchet # m.ratchet
           /\ sealed[Peer(d)][k] \in Entries(opened[d])
    BY DEF Passed
  <1> QED
    BY <1>1, <1>2 DEF Passed

\* Sealing with a session leaves the turns where they are, and the first
\* message of a device is a turn, or the other has started too.
LEMMA SealingIsInStep ==
    ASSUME IInv, InOrder, InStep, NEW d \in Device, NEW s, IsSession(d, s),
           s = session[d] \/ Starts(d, s), SendWith(d, s)
    PROVE  InStep'
  <1>1. PICK m, t : Seals(d, s, m, t)
    BY SendWithSeals
  <1> DEFINE p == Peer(d)
  <1>2. p \in Device /\ p # d /\ Peer(p) = d /\ \A e \in Device : e = d \/ e = p
    BY Peers
  <1>3. s # NoSession /\ NoSession.role = "none"
    BY DEF IsSession, NoSession
  <1>4. /\ session'[d] = t /\ session'[p] = session[p] /\ t # NoSession
        /\ t.role = s.role /\ t.own = s.own /\ t.remote = s.remote /\ t.root = s.root
    BY <1>1 DEF Seals
  <1>5. CASE BothInitiate
    <2>1. s = session[d]
      BY <1>3, <1>5 DEF BothInitiate, Starts
    <2> QED
      BY <1>2, <1>4, <1>5, <2>1 DEF BothInitiate, InStep
  <1>6. CASE ~BothInitiate /\ s = session[d]
    <2>1. /\ \A e \in Device : HasPassed(e)
          /\ \E e \in Device : Ahead(e)
      BY <1>3, <1>6 DEF InStep
    <2>2. PICK e \in Device : Ahead(e)
      BY <2>1
    <2>3. Ahead(e)'
      BY <1>2, <1>3, <1>4, <1>6, <2>2 DEF Ahead
    <2>4. HasPassed(d)'
      <3> SUFFICES ASSUME NEW n \in Entries(sealed[p]),
                          n.ratchet \notin {s.remote, session[p].own}
                   PROVE  Passed(d, n)'
        BY <1>1, <1>4 DEF HasPassed, Seals
      <3>1. Passed(d, n)
        BY <1>3, <1>6, <2>1 DEF HasPassed
      <3> QED
        BY <1>1, <3>1, PassedStays DEF Seals
    <2>5. HasPassed(p)'
      <3> SUFFICES ASSUME session[p] # NoSession, NEW n \in Entries(sealed[d]),
                          n.ratchet \notin {session[p].remote, s.own}
                   PROVE  Passed(p, n)'
        BY <1>1, <1>2, <1>4 DEF HasPassed, Seals
      <3>1. Passed(p, n)
        BY <1>2, <1>6, <2>1 DEF HasPassed
      <3> QED
        BY <1>1, <1>2, <3>1, PassedStays DEF Seals
    <2> QED
      BY <1>2, <2>3, <2>4, <2>5 DEF InStep
  <1>7. CASE ~BothInitiate /\ Starts(d, s)
    <2>1. session[d] = NoSession /\ s.role = "initiator" /\ s.remote = NoKey
      BY <1>7 DEF Starts
    <2>2. CASE session[p] = NoSession
      <3>1. Entries(sealed[p]) = {}
        BY <1>2, <2>2 DEF IInv, KeysAreOwn, SealedBefore
      <3>2. Ahead(d)'
        BY <1>2, <1>4, <2>1, <2>2 DEF Ahead
      <3>3. HasPassed(d)' /\ HasPassed(p)'
        BY <1>1, <1>2, <1>4, <2>2, <3>1 DEF HasPassed, Seals
      <3> QED
        BY <1>2, <3>2, <3>3 DEF InStep
    <2>3. CASE session[p] # NoSession
      <3>1. Ahead(p)
        BY <1>2, <1>7, <2>1, <2>3 DEF InStep, Ahead
      <3>2. session[p].remote = NoKey
        BY <1>2, <2>1, <3>1 DEF Ahead
      <3>3. session[p].role = "initiator"
        BY <1>2, <2>3, <3>2 DEF IInv, SessionIsGood, IsSession
      <3> QED
        BY <1>2, <1>4, <2>1, <3>3 DEF InStep, BothInitiate
    <2> QED
      BY <2>2, <2>3
  <1> QED
    BY <1>5, <1>6, <1>7

\* Saving an opened message, seen from both devices.
Receives(d, m, t) ==
    /\ t # NoSession /\ session'[d] = t /\ session'[Peer(d)] = session[Peer(d)]
    /\ sealed' = sealed /\ opened'[Peer(d)] = opened[Peer(d)]
    /\ Entries(opened'[d]) = Entries(opened[d]) \union {m}
    /\ m \in Entries(sealed[Peer(d)]) /\ m.index \in Nat /\ m.ratchet # NoKey
    /\ \E s, fresh : /\ Meets(d, s, fresh) /\ IsSession(d, s)
                     /\ HasOpened(d, s, m, fresh, t)
                     /\ Becomes(d, s, m, fresh, t)

LEMMA ReceiveReceives ==
    ASSUME IInv, NEW d \in Device, NEW i, Receive(d, i)
    PROVE  \E m, t : Receives(d, m, t)
  <1> DEFINE p == Peer(d)
  <1>1. PICK m, t : m = inbox[d][i] /\ t = Result(d, m).session
    OBVIOUS
  <1>2. Save(d, t) /\ m \in Entries(sealed[p]) /\ m.index \in Nat
    BY <1>1, ReceiveOpens
  <1>3. PICK s, fresh : /\ Meets(d, s, fresh) /\ IsSession(d, s)
                        /\ HasOpened(d, s, m, fresh, t)
                        /\ Becomes(d, s, m, fresh, t)
    BY <1>1, ReceiveBecomes
  <1>4. p \in Device /\ p # d
    BY Peers
  <1>5. m.ratchet # NoKey
    BY <1>2, <1>4, FreshIsFresh DEF IInv, KeysAreOwn, SealedBefore
  <1>6. /\ sealed' = sealed /\ session' = [session EXCEPT ![d] = t]
        /\ opened' = [opened EXCEPT ![d] = Append(@, m)]
    BY <1>1, <1>2 DEF Receive, Save
  <1>7. DOMAIN session = Device /\ DOMAIN opened = Device /\ IsSeq(opened[d])
    BY DEF IInv, Shapes
  <1>8. t # NoSession
    BY <1>3 DEF HasOpened, IsSession, NoSession
  <1>9. Entries(opened'[d]) = Entries(opened[d]) \union {m}
    BY <1>6, <1>7, AppendIsSeq
  <1>10. Receives(d, m, t)
    BY <1>2, <1>3, <1>4, <1>5, <1>6, <1>7, <1>8, <1>9 DEF Receives
  <1> QED
    BY <1>10

\* The session a device opens with, whether it had one or begins one.
LEMMA MetSession ==
    ASSUME IInv, NEW d \in Device, NEW s, NEW fresh, Meets(d, s, fresh)
    PROVE  \/ /\ session[d] # NoSession /\ s = session[d] /\ fresh = Fresh(d)
              /\ ~FirstAnswers(s) /\ s.own \in Own(d)
           \/ /\ session[d] = NoSession /\ FirstAnswers(s) /\ s.remote = NoKey
              /\ s.own = Fresh(d) /\ s.receive.root = s.root
              /\ Entries(sealed[d]) = {} /\ Entries(opened[d]) = {}
  <1>1. CASE session[d] # NoSession
    BY <1>1 DEF Meets, IInv, SessionIsGood, FirstAnswers
  <1>2. CASE session[d] = NoSession
    BY <1>2 DEF Meets, BeginsOn, FirstAnswers, IInv, KeysAreOwn, SealedBefore,
                ReceivedIsBehind
  <1> QED
    BY <1>1, <1>2

\* A turn leaves what was sealed on earlier chains.
LEMMA ReceivingSealsInOrder ==
    ASSUME IInv, InOrder, NEW d \in Device, NEW m, NEW t, Receives(d, m, t)
    PROVE  SealsInOrder(d)'
  <1>1. PICK s, fresh : /\ Meets(d, s, fresh) /\ IsSession(d, s)
                        /\ HasOpened(d, s, m, fresh, t)
                        /\ Becomes(d, s, m, fresh, t)
    BY DEF Receives
  <1>2. /\ t # NoSession /\ session'[d] = t /\ sealed' = sealed /\ m.ratchet # NoKey
        /\ t.remote = m.ratchet /\ IsSession(d, t)
    BY <1>1 DEF Receives, HasOpened
  <1>3. CASE session[d] = NoSession
    <2>1. Entries(sealed[d]) = {} /\ FirstAnswers(s) /\ s.remote = NoKey
      BY <1>1, <1>3, MetSession
    <2>2. t.send.label = << >>
      BY <1>1, <1>2, <2>1 DEF Becomes, TurnChain
    <2>3. DOMAIN sealed[d] = {}
      BY <2>1 DEF Entries
    <2> QED
      BY <1>2, <2>1, <2>2, <2>3 DEF SealsInOrder
  <1>4. CASE session[d] # NoSession
    <2>1. s = session[d] /\ fresh = Fresh(d) /\ ~FirstAnswers(s) /\ s.own \in Own(d)
      BY <1>1, <1>4, MetSession
    <2>2. CASE m.ratchet = s.remote
      <3>1. /\ t.root = s.root /\ t.own = s.own /\ t.send = s.send
            /\ t.remote = s.remote /\ t.preKey = s.preKey
        BY <1>1, <1>2, <2>2 DEF Becomes
      <3> QED
        BY <1>2, <1>4, <2>1, <3>1 DEF InOrder, SealsInOrder
    <2>3. CASE m.ratchet # s.remote
      <3>1. /\ t.own = Fresh(d) /\ t.send = TurnChain(t.root) /\ t.preKey = s.preKey
        BY <1>1, <2>1, <2>3 DEF Becomes
      <3>2. t.send.label = << >> /\ t.send.root = t.root
        BY <3>1 DEF TurnChain
      <3>3. /\ Depth(s.root) \in Nat /\ Depth(t.root) \in Nat
            /\ Depth(s.root) < Depth(t.root)
        <4>1. t.own # s.own
          BY <2>1, <3>1, FreshIsFresh DEF IInv
        <4> QED
          BY <1>1, <4>1 DEF HasOpened
      <3>4. ASSUME NEW n \in Entries(sealed[d])
            PROVE  n.ratchet # t.own /\ n.key.root # t.send.root
        <4>1. n.ratchet \in Own(d) /\ Before(n.key, s.send) /\ s.send.root = s.root
          BY <1>1, <2>1 DEF IInv, KeysAreOwn, SealedBefore, IsSession
        <4> QED
          BY <3>1, <3>2, <3>3, <4>1, FreshIsFresh DEF Before, IInv
      <3>5. \A j \in DOMAIN sealed[d] : sealed[d][j].ratchet # t.own
        BY <3>4 DEF Entries
      <3>6. \A n \in Entries(sealed[d]) :
               /\ n.preKey = t.preKey
               /\ n.key = ChainRec(n.key.root, n.key.label, n.index)
        BY <1>4, <2>1, <3>1 DEF InOrder, SealsInOrder
      <3>7. \A n, o \in Entries(sealed[d]) :
               n.ratchet = o.ratchet => n.key.label = o.key.label
        BY <1>4 DEF InOrder, SealsInOrder
      <3> QED
        BY <1>2, <3>2, <3>4, <3>5, <3>6, <3>7 DEF SealsInOrder
    <2> QED
      BY <2>2, <2>3
  <1> QED
    BY <1>3, <1>4

\* What is opened is the furthest of its chain or a message that was skipped;
\* what it skips leaves its key.
LEMMA ReceivingOpensInOrder ==
    ASSUME IInv, InOrder, NEW d \in Device, NEW m, NEW t, Receives(d, m, t)
    PROVE  OpensInOrder(d)'
  <1> DEFINE p == Peer(d)
  <1>1. PICK s, fresh : /\ Meets(d, s, fresh) /\ IsSession(d, s)
                        /\ HasOpened(d, s, m, fresh, t)
                        /\ Becomes(d, s, m, fresh, t)
    BY DEF Receives
  <1>2. /\ t # NoSession /\ session'[d] = t /\ sealed' = sealed /\ m.ratchet # NoKey
        /\ t.remote = m.ratchet /\ IsSession(d, t)
        /\ m.key = ChainRec(t.receive.root, t.receive.label, m.index)
        /\ Entries(opened'[d]) = Entries(opened[d]) \union {m}
        /\ m \in Entries(sealed[p]) /\ m.index \in Nat
    BY <1>1 DEF Receives, HasOpened
  <1>3. p \in Device
    BY Peers
  <1>4. m.key.root = t.receive.root /\ m.key.label = t.receive.label
    BY <1>2 DEF ChainRec
  <1>5. ASSUME NEW n \in Entries(sealed[p]), n.ratchet = m.ratchet
        PROVE  n.key = ChainRec(t.receive.root, t.receive.label, n.index)
    <2>1. session[p] # NoSession
      BY <1>2, <1>3 DEF IInv, KeysAreOwn, SealedBefore
    <2>2. n.key.root = m.key.root /\ n.key.label = m.key.label
      BY <1>2, <1>3, <1>5, <2>1 DEF IInv, KeysAreOwn, InOrder, SealsInOrder
    <2> QED
      BY <1>3, <1>4, <2>1, <2>2 DEF InOrder, SealsInOrder
  <1>6. m.ratchet = s.remote => s = session[d] /\ session[d] # NoSession
    BY <1>1, <1>2, MetSession
  <1>7. \E n \in Entries(opened'[d]) :
           /\ n.ratchet = t.remote /\ n.index + 1 = t.receive.index
           /\ n.key = ChainRec(t.receive.root, t.receive.label, n.index)
    <2>1. CASE t.receive.index = m.index + 1
      BY <1>2, <2>1
    <2>2. CASE m.ratchet = s.remote /\ t.receive.index = s.receive.index
      <3>1. PICK n \in Entries(opened[d]) :
               n.ratchet = s.remote /\ n.index + 1 = s.receive.index
        BY <1>2, <1>6, <2>2 DEF InOrder, OpensInOrder
      <3>2. n \in Entries(sealed[p])
        BY DEF IInv, ReceivedIsBehind
      <3> QED
        BY <1>2, <1>5, <2>2, <3>1, <3>2
    <2> QED
      BY <1>1, <2>1, <2>2 DEF Becomes
  <1>8. ASSUME NEW n \in Entries(sealed[p]) \ Entries(opened'[d]),
               n.ratchet = t.remote, n.index < t.receive.index
        PROVE  HasKeyAt(t, n.index)
    <2>1. n # m /\ n \notin Entries(opened[d])
      BY <1>2, <1>8
    <2>2. n.key = ChainRec(t.receive.root, t.receive.label, n.index)
      BY <1>2, <1>5, <1>8
    <2>3. n.index # m.index
      BY <1>2, <1>3, <2>1, <2>2 DEF IInv, KeysAreOwn
    <2>4. n.index \in Nat /\ t.receive.index \in Nat
      BY <1>2, <1>3 DEF IInv, KeysAreOwn, SealedBefore, IsSession, IsChain
    <2>5. \/ HasKeyAt(t, n.index)
          \/ m.ratchet = s.remote /\ n.index < s.receive.index /\ ~HasKeyAt(s, n.index)
      BY <1>1, <1>8, <2>3, <2>4 DEF Becomes
    <2>6. ~(m.ratchet = s.remote /\ n.index < s.receive.index /\ ~HasKeyAt(s, n.index))
      BY <1>2, <1>6, <1>8, <2>1 DEF InOrder, OpensInOrder
    <2> QED
      BY <2>5, <2>6
  <1> QED
    BY <1>2, <1>7, <1>8 DEF OpensInOrder

LEMMA ReceivingIsInOrder ==
    ASSUME IInv, InOrder, NEW d \in Device, NEW m, NEW t, Receives(d, m, t)
    PROVE  InOrder'
  <1>1. SealsInOrder(d)' /\ OpensInOrder(d)'
    BY ReceivingSealsInOrder, ReceivingOpensInOrder
  <1>2. Peer(d) \in Device /\ \A e \in Device : e = d \/ e = Peer(d)
    BY Peers
  <1>3. SealsInOrder(Peer(d))' /\ OpensInOrder(Peer(d))'
    BY <1>2 DEF Receives, InOrder, SealsInOrder, OpensInOrder
  <1> QED
    BY <1>1, <1>2, <1>3 DEF InOrder

\* A device turns by opening a message of its peer's current key pair, which
\* puts it ahead; anything else it opens is of the chain it receives on.
LEMMA ReceivingIsInStep ==
    ASSUME IInv, InOrder, InStep, NEW d \in Device, NEW m, NEW t, Receives(d, m, t)
    PROVE  InStep'
  <1> DEFINE p == Peer(d)
             q == session[p]
  <1>1. PICK s, fresh : /\ Meets(d, s, fresh) /\ IsSession(d, s)
                        /\ HasOpened(d, s, m, fresh, t)
                        /\ Becomes(d, s, m, fresh, t)
    BY DEF Receives
  <1>2. /\ t # NoSession /\ session'[d] = t /\ session'[p] = session[p]
        /\ sealed' = sealed /\ m.ratchet # NoKey
        /\ opened'[p] = opened[p] /\ Entries(opened'[d]) = Entries(opened[d]) \union {m}
        /\ m \in Entries(sealed[p])
        /\ t.remote = m.ratchet /\ t.role = s.role
    BY <1>1 DEF Receives, HasOpened, Becomes
  <1>3. p \in Device /\ p # d /\ Peer(p) = d /\ \A e \in Device : e = d \/ e = p
    BY Peers
  <1>4. /\ q # NoSession /\ m.ratchet \in Own(p)
        /\ Before(m.key, q.send) /\ (m.ratchet = q.own => m.key.root = q.send.root)
        /\ (m.key.root = q.send.root => m.ratchet = q.own)
        /\ q.send.root = q.root /\ IsRoot(q.root)
    <2>1. SealedBefore(p, m) /\ q # NoSession
      BY <1>2, <1>3 DEF IInv, KeysAreOwn, SealedBefore
    <2>2. IsSession(p, q)
      BY <1>3, <2>1 DEF IInv, SessionIsGood
    <2> QED
      BY <1>2, <1>3, <2>1, <2>2 DEF SealedBefore, IsSession, InOrder, SealsInOrder
  <1>5. Fresh(d) \notin Own(d)
    BY FreshIsFresh DEF IInv
  <1>6. CASE BothInitiate
    <2>1. session[d] # NoSession
      BY <1>6 DEF BothInitiate, NoSession
    <2>2. s = session[d]
      BY <1>1, <2>1, MetSession
    <2> QED
      BY <1>2, <1>3, <1>6, <2>2 DEF BothInitiate, InStep
  <1>7. CASE ~BothInitiate
    <2>1. HasPassed(d) /\ HasPassed(p) /\ (Ahead(d) \/ Ahead(p))
      BY <1>3, <1>4, <1>7 DEF InStep
    <2>2. ASSUME NEW n, Passed(d, n)
          PROVE  Passed(d, n)'
      BY <1>2, <2>2, PassedStays
    <2>3. \A n : Passed(p, n) => Passed(p, n)'
      BY <1>2, <1>3 DEF Passed
    <2>4. CASE session[d] = NoSession
      <3>1. /\ FirstAnswers(s) /\ s.remote = NoKey /\ s.own = Fresh(d)
            /\ s.receive.root = s.root /\ Entries(sealed[d]) = {}
        BY <1>1, <2>4, MetSession
      <3>2. q.remote = NoKey
        BY <1>3, <1>4, <2>1, <2>4 DEF Ahead
      <3>3. \A n \in Entries(sealed[p]) : n.ratchet = q.own
        BY <1>3, <1>4, <3>2 DEF InOrder, SealsInOrder
      <3>4. /\ t.own = Fresh(d) /\ m.key.root = s.root
            /\ t.root = NextRoot(s.root, diffieHellman(s.own, m.ratchet), d, p)
        BY <1>1, <1>2, <3>1 DEF Becomes
      <3>5. m.ratchet = q.own /\ q.root = s.root
        BY <1>2, <1>4, <3>3, <3>4
      <3>6. t.own # NoKey
        BY <3>4, FreshIsFresh DEF IInv
      <3>7. Ahead(d)'
        BY <1>2, <1>4, <3>1, <3>2, <3>4, <3>5, <3>6 DEF Ahead
      <3>8. HasPassed(d)' /\ HasPassed(p)'
        BY <1>2, <1>3, <3>1, <3>3, <3>5 DEF HasPassed
      <3> QED
        BY <1>3, <3>7, <3>8 DEF InStep
    <2>5. CASE session[d] # NoSession
      <3>1. s = session[d] /\ fresh = Fresh(d) /\ ~FirstAnswers(s) /\ s.own \in Own(d)
        BY <1>1, <2>5, MetSession
      <3>2. CASE m.ratchet = s.remote
        <4>1. t.root = s.root /\ t.own = s.own /\ t.remote = s.remote
          BY <1>1, <1>2, <3>2 DEF Becomes
        <4>2. Ahead(d)' \/ Ahead(p)'
          BY <1>2, <1>3, <1>4, <2>1, <2>5, <3>1, <4>1 DEF Ahead
        <4>3. HasPassed(d)' /\ HasPassed(p)'
          BY <1>2, <1>3, <1>4, <2>1, <2>2, <2>3, <2>5, <3>1, <4>1 DEF HasPassed
        <4> QED
          BY <1>3, <4>2, <4>3 DEF InStep
      <3>3. CASE m.ratchet # s.remote
        <4>1. /\ t.own = Fresh(d)
              /\ m.key.root = NextRoot(s.root, diffieHellman(s.own, m.ratchet), p, d)
              /\ t.root = NextRoot(m.key.root, diffieHellman(Fresh(d), m.ratchet), d, p)
          BY <1>1, <3>1, <3>3 DEF Becomes
        <4>2. Depth(s.root) \in Nat /\ Depth(m.key.root) = Depth(s.root) + 1
          BY <1>1, <4>1, NextRootEffect DEF IsSession
        <4>3. Depth(q.root) \in Nat /\ Depth(m.key.root) \in 0 .. Depth(q.root)
          BY <1>4, AppendIsSeq DEF IsRoot, Depth, Before
        <4>4. ~Ahead(d)
          <5>1. ASSUME s.root = NextRoot(q.root, diffieHellman(s.own, q.own), d, p)
                PROVE  FALSE
            <6>1. Depth(s.root) = Depth(q.root) + 1
              BY <1>4, <5>1, NextRootEffect
            <6> QED
              BY <4>2, <4>3, <6>1
          <5> QED
            BY <1>4, <3>1, <5>1 DEF Ahead
        <4>5. /\ q.remote = s.own
              /\ q.root = NextRoot(s.root, diffieHellman(q.own, s.own), p, d)
          BY <1>3, <2>1, <2>5, <3>1, <4>4 DEF Ahead
        <4>6. Depth(q.root) = Depth(s.root) + 1
          BY <1>1, <4>5, NextRootEffect DEF IsSession
        <4>7. m.ratchet = q.own /\ m.key.root = q.root
          <5>1. ~(Depth(m.key.root) \in 0 .. Depth(q.send.root) - 1)
            BY <1>4, <4>2, <4>6
          <5>2. m.key.root = q.send.root
            BY <1>4, <5>1 DEF Before
          <5> QED
            BY <1>4, <5>2
        <4>8. Ahead(d)'
          BY <1>2, <1>4, <1>5, <3>1, <4>1, <4>5, <4>7 DEF Ahead
        <4>9. HasPassed(d)'
          <5> SUFFICES ASSUME NEW n \in Entries(sealed[p]), n.ratchet # q.own
                       PROVE  Passed(d, n)'
            BY <1>2, <4>7 DEF HasPassed
          <5>1. PICK j \in DOMAIN sealed[p] : sealed[p][j] = n
            BY DEF Entries
          <5>2. PICK k \in DOMAIN sealed[p] : sealed[p][k] = m
            BY <1>2 DEF Entries
          <5>3. DOMAIN sealed[p] = 1 .. Len(sealed[p]) /\ Len(sealed[p]) \in Nat
            BY <1>3, AppendIsSeq DEF IInv, Shapes
          <5>4. j < k
            <6>1. j # k
              BY <4>7, <5>1, <5>2
            <6>2. ~(k < j)
              BY <1>3, <1>4, <4>7, <5>1, <5>2 DEF InOrder, SealsInOrder
            <6> QED
              BY <5>1, <5>2, <5>3, <6>1, <6>2
          <5> QED
            BY <1>2, <4>7, <5>1, <5>2, <5>4 DEF Passed
        <4>10. HasPassed(p)'
          <5> SUFFICES ASSUME NEW n \in Entries(sealed[d]), n.ratchet # q.remote
                       PROVE  Passed(p, n)'
            BY <1>2, <1>3 DEF HasPassed
          <5>1. Passed(p, n)
            BY <1>3, <1>4, <2>1, <3>1, <4>5 DEF HasPassed
          <5> QED
            BY <2>3, <5>1
        <4> QED
          BY <1>3, <4>8, <4>9, <4>10 DEF InStep
      <3> QED
        BY <3>2, <3>3
    <2> QED
      BY <2>4, <2>5
  <1> QED
    BY <1>6, <1>7

LEMMA StepIsInStep ==
    ASSUME IInv, InOrder, InStep, [Next]_vars
    PROVE  InOrder' /\ InStep'
  <1>1. ASSUME NEW d \in Device, NEW preKey, SendFirst(d, preKey)
        PROVE  InOrder' /\ InStep'
    BY <1>1, SendFirstStarts, SealingIsInOrder, SealingIsInStep
  <1>2. ASSUME NEW d \in Device, Send(d)
        PROVE  InOrder' /\ InStep'
    <2>1. IsSession(d, session[d]) /\ SendWith(d, session[d])
      BY <1>2 DEF Send, IInv, SessionIsGood
    <2> QED
      BY <2>1, SealingIsInOrder, SealingIsInStep
  <1>3. ASSUME NEW d \in Device, NEW i, Receive(d, i)
        PROVE  InOrder' /\ InStep'
    BY <1>3, ReceiveReceives, ReceivingIsInOrder, ReceivingIsInStep
  <1>4. ASSUME UNCHANGED <<session, sealed, opened>>
        PROVE  InOrder' /\ InStep'
    BY <1>4 DEF InOrder, SealsInOrder, OpensInOrder, InStep, BothInitiate,
                HasPassed, Passed, Ahead
  <1> QED
    BY <1>1, <1>2, <1>3, <1>4 DEF Next, Expire, vars

\* A message whose key was kept opens, and so does one on the chain at hand
\* that does not skip too much.
LEMMA KeptOpens ==
    ASSUME NEW d \in Device, NEW s, NEW m, NEW fresh,
           NEW w, w = Advanced(s, m.ratchet, fresh), IsSession(d, w),
           w.remote = m.ratchet, m.index \in Nat,
           m.key = ChainRec(w.receive.root, w.receive.label, m.index),
           HasKeyAt(w, m.index) \/ ~TooFar(w, m)
    PROVE  Opened(s, m, fresh).ok
  <1>1. \A k \in Stored(w, m) : k.key = m.key
    BY DEF Stored, IsSession, SkippedKey
  <1>2. \A t : Decrypted(m.key, m, t).ok
    BY DEF Decrypted, Accepted
  <1>3. CASE Stored(w, m) # {}
    <2> DEFINE k == CHOOSE x \in Stored(w, m) : TRUE
    <2>1. k \in Stored(w, m)
      BY <1>3
    <2>2. Opened(s, m, fresh) = Decrypted(k.key, m, WithoutKey(w, k))
      BY <1>3 DEF Opened, Stored, WithoutKey
    <2> HIDE DEF k
    <2> QED
      BY <1>1, <1>2, <2>1, <2>2
  <1>4. CASE Stored(w, m) = {}
    <2>1. \A k \in w.skipped : k.ratchet = w.remote
      BY DEF IsSession, SkippedKey
    <2>2. ~TooFar(w, m)
      BY <1>4, <2>1 DEF HasKeyAt, Stored
    <2>3. Opened(s, m, fresh) =
             Decrypted(Skipping(w, m.index).receive, m, PastMessage(w, m))
      BY <1>4, <2>2 DEF Opened, Stored, TooFar, PastMessage
    <2>4. Skipping(w, m.index).receive = m.key
      <3>1. Skipping(w, m.index).receive = [w.receive EXCEPT !.index = m.index]
        BY DEF Skipping, IsSession, HasFields, SessionFields
      <3>2. w.receive = ChainRec(w.receive.root, w.receive.label, w.receive.index)
        BY DEF IsSession, IsChain
      <3>3. [w.receive EXCEPT !.index = m.index]
               = ChainRec(w.receive.root, w.receive.label, m.index)
        BY <3>2 DEF ChainRec
      <3> QED
        BY <3>1, <3>3
    <2> QED
      BY <1>2, <2>3, <2>4
  <1> QED
    BY <1>3, <1>4

\* Initiator and responder derive the same root key from a first message.
LEMMA RootsAgree ==
    ASSUME NEW d, NEW p, NEW message, NEW root,
           root = InitiatorRoot(p, d, message.preKey)
    PROVE  ResponderRoot(d, p, message.preKey, {message.preKey} \ {NoKey}) = root
  <1>1. {message.preKey} \intersect ({message.preKey} \ {NoKey})
           = {message.preKey} \ {NoKey}
    OBVIOUS
  <1>2. \A a, b : diffieHellman(a, b) = diffieHellman(b, a)
    BY DEF diffieHellman
  <1>3. {diffieHellman(k, IdentityKey(p)) : k \in {message.preKey} \ {NoKey}}
           = {diffieHellman(IdentityKey(p), k) : k \in {message.preKey} \ {NoKey}}
    BY <1>2
  <1> QED
    BY <1>1, <1>2, <1>3 DEF InitiatorRoot, ResponderRoot

\* The first message of a device to one that has no session.
LEMMA FirstOpens ==
    ASSUME IInv, InOrder, NEW d \in Device, session[d] = NoSession,
           NEW m \in Entries(sealed[Peer(d)]), session[Peer(d)].remote = NoKey,
           m.index <= MaxSkip
    PROVE  Result(d, m).ok
  <1> DEFINE p == Peer(d)
             q == session[p]
             fresh == RatchetKey(d, generated[d] + 2)
             root == ResponderRoot(d, p, m.preKey, {m.preKey} \ {NoKey})
             s == NewResponder(d, p, m, {m.preKey} \ {NoKey}, Fresh(d))
             w == Advanced(s, m.ratchet, fresh)
  <1>1. p \in Device /\ Peer(p) = d
    BY Peers
  <1>2. SealedBefore(p, m) /\ q # NoSession
    BY <1>1 DEF IInv, KeysAreOwn, SealedBefore
  <1>3. m.index \in Nat /\ m.ratchet # NoKey
    BY <1>1, <1>2, FreshIsFresh DEF SealedBefore, IInv
  <1>4. /\ m.preKey = q.preKey /\ m.ratchet = q.own /\ m.key.label = q.send.label
        /\ m.key = ChainRec(m.key.root, m.key.label, m.index)
        /\ q.root = InitiatorRoot(p, d, q.preKey) /\ q.send.label = <<p, d>>
    BY <1>1, <1>2 DEF InOrder, SealsInOrder
  <1>5. m.key.root = q.root
    BY <1>1, <1>2, <1>4 DEF IInv, SessionIsGood, IsSession, SealedBefore
  <1>6. root = q.root
    BY <1>4, RootsAgree
  <1>7. Fresh(d) # NoKey /\ fresh # NoKey
    BY FreshIsFresh DEF IInv
  <1>8. /\ IsSession(d, s) /\ s.role = "responder" /\ s.remote = NoKey
    BY <1>7, NewSessionEffect DEF NewResponder, ResponderRoot
  <1>9. s.receive = ChainRec(root, <<p, d>>, 0)
    BY DEF NewResponder, NewSession, InitialChain, ChainRec
  <1>10. Result(d, m) = Opened(s, m, fresh)
    BY DEF Result
  <1> HIDE DEF s, root, fresh
  <1>11. Advances(d, s, m.ratchet, fresh, w) /\ Derives(d, s, m.ratchet, fresh, w)
    BY <1>3, <1>7, <1>8, AdvancedEffect, AdvancedDerives
  <1> HIDE DEF w
  <1>12. /\ IsSession(d, w) /\ w.remote = m.ratchet /\ w.receive.index = 0
         /\ w.receive = s.receive
    BY <1>8, <1>11 DEF Advances, Derives, FirstAnswers
  <1>13. m.key = ChainRec(w.receive.root, w.receive.label, m.index)
    BY <1>4, <1>5, <1>6, <1>9, <1>12 DEF ChainRec
  <1>14. ~TooFar(w, m)
    BY <1>3, <1>12, SkipAssumption DEF TooFar
  <1>15. Opened(s, m, fresh).ok
    BY <1>3, <1>12, <1>13, <1>14, KeptOpens DEF w
  <1> QED
    BY <1>10, <1>15

\* A message of the chain a device receives on.
LEMMA NextOpens ==
    ASSUME IInv, InOrder, NEW d \in Device, session[d] # NoSession,
           NEW m \in Entries(sealed[Peer(d)]) \ Entries(opened[d]),
           m.ratchet = session[d].remote,
           m.index <= session[d].receive.index + MaxSkip
    PROVE  Result(d, m).ok
  <1> DEFINE p == Peer(d)
             s == session[d]
  <1>1. p \in Device
    BY Peers
  <1>2. SealedBefore(p, m) /\ session[p] # NoSession
    BY <1>1 DEF IInv, KeysAreOwn, SealedBefore
  <1>3. m.index \in Nat /\ m.ratchet # NoKey
    BY <1>1, <1>2, FreshIsFresh DEF SealedBefore, IInv
  <1>4. IsSession(d, s) /\ s.receive.index \in Nat
    BY DEF IInv, SessionIsGood, IsSession, IsChain
  <1>5. PICK n \in Entries(opened[d]) :
           /\ n.ratchet = s.remote
           /\ n.key = ChainRec(s.receive.root, s.receive.label, n.index)
    BY <1>3 DEF InOrder, OpensInOrder
  <1>6. n \in Entries(sealed[p])
    BY DEF IInv, ReceivedIsBehind
  <1>7. n.key.root = s.receive.root /\ n.key.label = s.receive.label
    BY <1>5 DEF ChainRec
  <1>8. m.key = ChainRec(s.receive.root, s.receive.label, m.index)
    BY <1>1, <1>2, <1>5, <1>6, <1>7 DEF IInv, KeysAreOwn, InOrder, SealsInOrder
  <1>9. HasKeyAt(s, m.index) \/ ~TooFar(s, m)
    <2>1. CASE m.index < s.receive.index
      BY <1>3, <2>1 DEF InOrder, OpensInOrder
    <2>2. CASE ~(m.index < s.receive.index)
      BY <1>3, <1>4, <2>2, SkipAssumption DEF TooFar
    <2> QED
      BY <2>1, <2>2
  <1>10. s = Advanced(s, m.ratchet, Fresh(d))
    BY DEF Advanced
  <1>11. Opened(s, m, Fresh(d)).ok
    BY <1>3, <1>4, <1>8, <1>9, <1>10, KeptOpens
  <1> QED
    BY <1>11 DEF Result, Fresh

\* A message of the key pair its peer seals with, which a device has not met.
LEMMA TurnOpens ==
    ASSUME IInv, InOrder, NEW d \in Device, session[d] # NoSession,
           NEW m \in Entries(sealed[Peer(d)]), Ahead(Peer(d)),
           m.ratchet = session[Peer(d)].own, m.ratchet # session[d].remote,
           m.index <= MaxSkip
    PROVE  Result(d, m).ok
  <1> DEFINE p == Peer(d)
             q == session[p]
             s == session[d]
             w == Advanced(s, m.ratchet, Fresh(d))
  <1>1. p \in Device /\ Peer(p) = d
    BY Peers
  <1>2. SealedBefore(p, m) /\ q # NoSession
    BY <1>1 DEF IInv, KeysAreOwn, SealedBefore
  <1>3. m.index \in Nat /\ m.ratchet # NoKey /\ m.key.root = q.root
    BY <1>1, <1>2, FreshIsFresh DEF SealedBefore, IInv, SessionIsGood, IsSession
  <1>4. IsSession(d, s) /\ ~FirstAnswers(s) /\ s.own \in Own(d)
    BY DEF IInv, SessionIsGood, FirstAnswers
  <1>5. /\ q.remote = s.own
        /\ q.root = NextRoot(s.root, diffieHellman(q.own, s.own), p, d)
    BY <1>1 DEF Ahead
  <1>6. q.remote # NoKey
    BY <1>4, <1>5, FreshIsFresh DEF IInv
  <1>7. m.key.label = << >> /\ m.key = ChainRec(q.root, << >>, m.index)
    BY <1>1, <1>2, <1>3, <1>6 DEF InOrder, SealsInOrder
  <1>8. Advances(d, s, m.ratchet, Fresh(d), w) /\ Derives(d, s, m.ratchet, Fresh(d), w)
    BY <1>3, <1>4, FreshIsFresh, AdvancedEffect, AdvancedDerives DEF IInv
  <1> HIDE DEF w
  <1>9. /\ IsSession(d, w) /\ w.remote = m.ratchet /\ w.receive.index = 0
        /\ w.receive = TurnChain(NextRoot(s.root, diffieHellman(s.own, m.ratchet), p, d))
    BY <1>4, <1>8 DEF Advances, Derives
  <1>10. diffieHellman(s.own, m.ratchet) = diffieHellman(q.own, s.own)
    BY DEF diffieHellman
  <1>11. w.receive = TurnChain(q.root)
    BY <1>5, <1>9, <1>10
  <1>12. m.key = ChainRec(w.receive.root, w.receive.label, m.index)
    BY <1>7, <1>11 DEF TurnChain, ChainRec
  <1>13. ~TooFar(w, m)
    BY <1>3, <1>9, SkipAssumption DEF TooFar
  <1>14. Opened(s, m, Fresh(d)).ok
    BY <1>3, <1>9, <1>12, <1>13, KeptOpens DEF w
  <1> QED
    BY <1>14 DEF Result, Fresh

\* RefusedForAReason: openWithSession refuses a message only if the device has
\* passed its chain, if it would skip more than MAX_SKIP keys, or if both sides
\* started a session; whatever was lost, reordered or repeated before it.
THEOREM RefusalsHaveReasons == Spec => []RefusedForAReason
  <1>1. Init => InOrder /\ InStep
    <2>1. Init => \A d \in Device : session[d] = NoSession
      BY DEF Init
    <2> QED
      BY <2>1 DEF InOrder, SealsInOrder, OpensInOrder, InStep, HasPassed
  <1>2. IInv /\ InOrder /\ InStep /\ [Next]_vars => InOrder' /\ InStep'
    BY StepIsInStep
  <1>3. IInv /\ InOrder /\ InStep => RefusedForAReason
    <2> SUFFICES ASSUME IInv, InOrder, InStep, NEW d \in Device,
                        NEW m \in Entries(inbox[d]) \ Entries(opened[d]),
                        ~Passed(d, m), ~BothInitiate,
                        ~(m.index > Expected(d, m) + MaxSkip)
                 PROVE  Result(d, m).ok
      BY DEF RefusedForAReason
    <2> DEFINE p == Peer(d)
    <2>1. p \in Device /\ Peer(p) = d /\ \A e \in Device : e = d \/ e = p
      BY Peers
    <2>2. m \in Entries(sealed[p])
      BY DEF IInv, ReceivedIsBehind
    <2>3. SealedBefore(p, m) /\ session[p] # NoSession /\ m.index \in Nat
      BY <2>1, <2>2 DEF IInv, KeysAreOwn, SealedBefore
    <2>4. HasPassed(d) /\ (Ahead(d) \/ Ahead(p))
      BY <2>1, <2>3 DEF InStep
    <2>5. CASE session[d] = NoSession
      <3>1. session[p].remote = NoKey
        BY <2>1, <2>3, <2>4, <2>5 DEF Ahead
      <3>2. m.index <= MaxSkip
        BY <2>3, <2>5, SkipAssumption DEF Expected
      <3> QED
        BY <2>2, <2>5, <3>1, <3>2, FirstOpens
    <2>6. CASE session[d] # NoSession /\ m.ratchet = session[d].remote
      <3>1. session[d].receive.index \in Nat
        BY <2>6 DEF IInv, SessionIsGood, IsSession, IsChain
      <3>2. m.index <= session[d].receive.index + MaxSkip
        BY <2>3, <2>6, <3>1, SkipAssumption DEF Expected
      <3> QED
        BY <2>2, <2>6, <3>2, NextOpens
    <2>7. CASE session[d] # NoSession /\ m.ratchet # session[d].remote
      <3>1. m.ratchet = session[p].own
        BY <2>2, <2>4, <2>7 DEF HasPassed
      <3>2. Ahead(p)
        BY <2>3, <2>4, <2>7, <3>1 DEF Ahead
      <3>3. m.index <= MaxSkip
        BY <2>3, <2>7, SkipAssumption DEF Expected
      <3> QED
        BY <2>2, <2>7, <3>1, <3>2, <3>3, TurnOpens
    <2> QED
      BY <2>5, <2>6, <2>7
  <1> QED
    BY <1>1, <1>2, <1>3, InvariantHolds, PTL DEF Spec

----------------------------------------------------------------------------
(* The pair implements a secure channel *)

\* What was sealed is numbered, and what was opened is what was read.
TextsMatch ==
    /\ DOMAIN read = Device
    /\ \A d \in Device :
          /\ \A n \in DOMAIN sealed[d] : sealed[d][n].text = <<d, n>>
          /\ IsSeq(read[d])
          /\ Entries(read[d]) = {m.text : m \in Entries(opened[d])}

Written == [d \in Device |-> Len(sealed[d])]

\* What opens is what was sealed.
LEMMA OpenedText ==
    ASSUME NEW s, NEW m, NEW fresh, Opened(s, m, fresh).ok
    PROVE  Opened(s, m, fresh).text = m.text
  <1>1. \A key, t : Decrypted(key, m, t).ok => Decrypted(key, m, t).text = m.text
    BY DEF Decrypted, Accepted, Refused
  <1>2. ~Refused.ok
    BY DEF Refused
  <1> QED
    BY <1>1, <1>2 DEF Opened

\* Sealing writes the next text.
LEMMA SealingWrites ==
    ASSUME IInv, TextsMatch, NEW d \in Device, NEW s, SendWith(d, s)
    PROVE  TextsMatch' /\ Channel!Write(d)
  <1>1. PICK m : m = Sealed(s, <<d, Len(sealed[d]) + 1>>)
    OBVIOUS
  <1>2. /\ sealed' = [sealed EXCEPT ![d] = Append(@, m)]
        /\ Len(sealed[d]) < MaxSent[d]
        /\ opened' = opened /\ read' = read
        /\ m.text = <<d, Len(sealed[d]) + 1>>
    BY <1>1 DEF SendWith, Sealed
  <1>3. DOMAIN sealed = Device /\ IsSeq(sealed[d])
    BY DEF IInv, Shapes
  <1>4. /\ sealed'[d] = Append(sealed[d], m)
        /\ \A e \in Device \ {d} : sealed'[e] = sealed[e]
    BY <1>2, <1>3
  <1>5. /\ Len(sealed[d]) \in Nat /\ Len(sealed'[d]) = Len(sealed[d]) + 1
        /\ DOMAIN sealed[d] = 1 .. Len(sealed[d])
        /\ DOMAIN sealed'[d] = 1 .. Len(sealed[d]) + 1
        /\ sealed'[d][Len(sealed[d]) + 1] = m
        /\ \A n \in DOMAIN sealed[d] : sealed'[d][n] = sealed[d][n]
    BY <1>3, <1>4, AppendIsSeq
  <1>6. \A n \in DOMAIN sealed'[d] : sealed'[d][n].text = <<d, n>>
    <2> TAKE n \in DOMAIN sealed'[d]
    <2>1. n \in DOMAIN sealed[d] \/ n = Len(sealed[d]) + 1
      BY <1>5
    <2> QED
      BY <1>2, <1>5, <2>1 DEF TextsMatch
  <1>7. TextsMatch'
    BY <1>2, <1>4, <1>6 DEF TextsMatch
  <1>8. Written' = [Written EXCEPT ![d] = @ + 1]
    BY <1>4, <1>5 DEF Written
  <1> QED
    BY <1>2, <1>7, <1>8 DEF Channel!Write, Written

\* Opening reads a text that was written, and that was not read before.
LEMMA ReceivingReads ==
    ASSUME IInv, TextsMatch, NoReplay, NEW d \in Device, NEW i, Receive(d, i)
    PROVE  TextsMatch' /\ Channel!Read(d)
  <1>1. PICK m : m = inbox[d][i]
    OBVIOUS
  <1>2. /\ m \in Entries(inbox[d]) /\ Result(d, m).ok
        /\ opened' = [opened EXCEPT ![d] = Append(@, m)]
        /\ read' = [read EXCEPT ![d] = Append(@, Result(d, m).text)]
        /\ sealed' = sealed
    BY <1>1 DEF Receive, Entries
  <1>3. Result(d, m).text = m.text
    BY <1>2, OpenedText DEF Result
  <1>4. PICK n \in DOMAIN sealed[Peer(d)] : m = sealed[Peer(d)][n]
    BY <1>2 DEF IInv, ReceivedIsBehind, Entries
  <1>5. Peer(d) \in Device /\ Peer(d) = Channel!Other(d)
    BY Peers DEF Peer, Channel!Other
  <1>6. m.text = <<Peer(d), n>> /\ n \in 1 .. Len(sealed[Peer(d)])
    BY <1>4, <1>5, AppendIsSeq DEF TextsMatch, IInv, Shapes
  <1>7. \A x \in Entries(opened[d]) : x.text # m.text
    <2> SUFFICES ASSUME NEW x \in Entries(opened[d]), x.text = m.text
                 PROVE  FALSE
      OBVIOUS
    <2>1. PICK k \in DOMAIN sealed[Peer(d)] : x = sealed[Peer(d)][k]
      BY DEF IInv, ReceivedIsBehind, Entries
    <2>2. x.text = <<Peer(d), k>>
      BY <1>5, <2>1 DEF TextsMatch
    <2>3. k = n
      BY <1>6, <2>2
    <2>4. x = m
      BY <1>4, <2>1, <2>3
    <2> QED
      BY <1>2, <2>4 DEF NoReplay
  <1>8. /\ DOMAIN opened = Device /\ IsSeq(opened[d])
        /\ DOMAIN read = Device /\ IsSeq(read[d])
    BY DEF IInv, Shapes, TextsMatch
  <1>9. /\ opened'[d] = Append(opened[d], m) /\ read'[d] = Append(read[d], m.text)
        /\ DOMAIN read' = Device
        /\ \A e \in Device \ {d} : opened'[e] = opened[e] /\ read'[e] = read[e]
    BY <1>2, <1>3, <1>8
  <1>10. /\ Entries(opened'[d]) = Entries(opened[d]) \union {m}
         /\ Entries(read'[d]) = Entries(read[d]) \union {m.text}
         /\ IsSeq(read'[d])
    BY <1>8, <1>9, AppendIsSeq
  <1>11. Entries(read'[d]) = {x.text : x \in Entries(opened'[d])}
    <2>1. Entries(read[d]) = {x.text : x \in Entries(opened[d])}
      BY DEF TextsMatch
    <2> QED
      BY <1>10, <2>1
  <1>12. TextsMatch'
    BY <1>2, <1>9, <1>10, <1>11 DEF TextsMatch
  <1>13. \A k \in DOMAIN read[d] : read[d][k] # <<Peer(d), n>>
    BY <1>6, <1>7 DEF TextsMatch, Entries
  <1>14. /\ n \in 1 .. Written[Peer(d)]
         /\ read' = [read EXCEPT ![d] = Append(@, <<Peer(d), n>>)]
         /\ Written' = Written
    BY <1>2, <1>3, <1>5, <1>6 DEF Written
  <1> QED
    BY <1>5, <1>12, <1>13, <1>14 DEF Channel!Read, Written

\* Every step of the pair is a step of the channel, or invisible in it.
LEMMA ChannelStep ==
    ASSUME IInv, TextsMatch, NoReplay, [Next]_vars
    PROVE  TextsMatch' /\ [Channel!Next]_<<Written, read>>
  <1> USE DEF Channel!End
  <1>1. ASSUME NEW d \in Device, NEW s, SendWith(d, s)
        PROVE  TextsMatch' /\ Channel!Next
    BY <1>1, SealingWrites DEF Channel!Next, Device
  <1>2. ASSUME NEW d \in Device, NEW i, Receive(d, i)
        PROVE  TextsMatch' /\ Channel!Next
    BY <1>2, ReceivingReads DEF Channel!Next, Device
  <1>3. ASSUME UNCHANGED <<sealed, opened, read>>
        PROVE  TextsMatch' /\ UNCHANGED <<Written, read>>
    BY <1>3 DEF TextsMatch, Written
  <1> QED
    BY <1>1, <1>2, <1>3 DEF Next, SendFirst, Send, Expire, vars

\* Whatever the relay delivers, a device reads only what its peer wrote to it,
\* and reads it once: RatchetPair implements SecureChannel.
THEOREM PairIsSecureChannel == Spec => ChannelSpec
  <1>1. Init => Channel!Init /\ TextsMatch
    BY EmptyIsSeq DEF Init, Channel!Init, Channel!End, Device, TextsMatch, Written
  <1>2. IInv /\ NoReplay /\ TextsMatch /\ [Next]_vars
        => TextsMatch' /\ [Channel!Next]_<<Written, read>>
    BY ChannelStep
  <1> QED
    BY <1>1, <1>2, InvariantHolds, ReplaysAreRefused, PTL
       DEF Spec, ChannelSpec, Channel!Spec, Written
=============================================================================

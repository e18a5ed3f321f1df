-------------------------- MODULE FunctionsProofs --------------------------
(***************************************************************************)
(* Proofs about the transparency log and the pure functions, for logs of   *)
(* any length however often they are changed, any keys, any envelope and   *)
(* any size of a medium.                                                   *)
(*                                                                         *)
(* The log is the one inductive argument.  Where two valid logs have one   *)
(* hash they have one entry, for a hash tells its contents; and so one     *)
(* hash before it.  Take the last place, counted back from there, at which *)
(* they differ: the next one is the same, and holds the hash of both.      *)
(***************************************************************************)
EXTENDS MCFunctions, FunctionTheorems, FiniteSetTheorems, SequenceTheorems,
        WellFoundedInduction, TLAPS

----------------------------------------------------------------------------
(* Numbers *)

\* A set of numbers that is not empty has a smallest one; so what holds of a
\* number if it holds of all smaller ones holds of every number.
LEMMA SmallestNumber ==
    ASSUME NEW T, T \subseteq Nat, T # {}
    PROVE  \E m \in T : \A n \in T : m <= n
  <1> DEFINE R == {ss \in Nat \X Nat : ss[1] < ss[2]}
  <1>1. IsWellFoundedOn(R, Nat)
    BY NatLessThanWellFounded DEF OpToRel
  <1>2. PICK m \in T : \A n \in T : ~(<<n, m>> \in R)
    <2> HIDE DEF R
    <2> QED BY <1>1, WFMin
  <1>3. \A n \in T : ~(n < m)
    BY <1>2
  <1> QED
    BY <1>3

----------------------------------------------------------------------------
(* Logs *)

IsEntry(e) == e = [profile |-> e.profile, index |-> e.index, what |-> e.what,
                   previousHash |-> e.previousHash, entryHash |-> e.entryHash]

IsLog(entries) == /\ entries \in Seq(ToSet(entries))
                  /\ \A i \in DOMAIN entries : IsEntry(entries[i])

LEMMA LogOfEntries ==
    ASSUME NEW S, NEW entries \in Seq(S), \A e \in S : IsEntry(e)
    PROVE  IsLog(entries)
  BY DEF IsLog, ToSet

\* What hashing depends on: two entries have one hash only if they tell the
\* same at the same place after the same entry.
LEMMA HashIsInjective ==
    ASSUME NEW a, NEW b,
           computeTransparencyEntryHash(a) = computeTransparencyEntryHash(b)
    PROVE  /\ a.profile = b.profile /\ a.index = b.index /\ a.what = b.what
           /\ a.previousHash = b.previousHash
  BY DEF computeTransparencyEntryHash, sha256

LEMMA HashIsNoHash ==
    ASSUME NEW e
    PROVE  computeTransparencyEntryHash(e) # NoHash
  BY DEF computeTransparencyEntryHash, sha256, NoHash

\* An entry is as it should be, and linked to the one before it.
LinkedAt(entries, i) ==
    /\ entries[i].profile = TRANSPARENCY_PROFILE
    /\ entries[i].index = i - 1
    /\ entries[i].entryHash = computeTransparencyEntryHash(entries[i])
    /\ entries[i].previousHash = IF i = 1 THEN NoHash ELSE entries[i - 1].entryHash

LEMMA ValidIsLinked ==
    ASSUME NEW entries, IsLog(entries)
    PROVE  /\ DOMAIN entries = 1 .. Len(entries) /\ Len(entries) \in Nat
           /\ verifyTransparencyLog(entries) <=> \A i \in DOMAIN entries : LinkedAt(entries, i)
  <1>1. entries \in Seq(ToSet(entries)) /\ DOMAIN entries = 1 .. Len(entries) /\ Len(entries) \in Nat
    BY DEF IsLog
  <1>2. ASSUME NEW i \in DOMAIN entries
        PROVE  RootHash(SubSeq(entries, 1, i - 1)) =
                   IF i = 1 THEN NoHash ELSE entries[i - 1].entryHash
    <2> DEFINE before == SubSeq(entries, 1, i - 1)
    <2>1. /\ before \in Seq(ToSet(entries)) /\ Len(before) = i - 1
          /\ \A k \in 1 .. i - 1 : before[k] = entries[k]
      BY <1>1
    <2>2. i = 1 => before = << >>
      BY <2>1
    <2>3. i > 1 => before # << >> /\ Last(before) = entries[i - 1]
      <3> HIDE DEF before
      <3> QED
        BY <1>1, <2>1 DEF Last
    <2> HIDE DEF before
    <2>4. RootHash(before) = IF i = 1 THEN NoHash ELSE entries[i - 1].entryHash
      BY <1>1, <2>2, <2>3 DEF RootHash
    <2> QED
      BY <2>4 DEF before
  <1> QED
    BY <1>1, <1>2 DEF verifyTransparencyLog, LinkedAt

\* Two valid logs with one hash at a place are the same up to there.
LEMMA HashCommitsToPrefix ==
    ASSUME NEW a, IsLog(a), verifyTransparencyLog(a),
           NEW b, IsLog(b), verifyTransparencyLog(b),
           NEW n \in DOMAIN a, n \in DOMAIN b, a[n].entryHash = b[n].entryHash
    PROVE  \A k \in 1 .. n : a[k] = b[k]
  <1> DEFINE T == {k \in 0 .. n - 1 : a[n - k] # b[n - k]}
  <1>1. /\ n \in Nat \ {0}
        /\ \A k \in 1 .. n : k \in DOMAIN a /\ k \in DOMAIN b
    BY ValidIsLinked
  <1>2. ASSUME NEW k \in 1 .. n, a[k].entryHash = b[k].entryHash
        PROVE  a[k] = b[k]
    <2>1. computeTransparencyEntryHash(a[k]) = computeTransparencyEntryHash(b[k])
      BY <1>1, <1>2, ValidIsLinked DEF LinkedAt
    <2>2. /\ a[k].profile = b[k].profile /\ a[k].index = b[k].index /\ a[k].what = b[k].what
          /\ a[k].previousHash = b[k].previousHash
      BY <2>1, HashIsInjective
    <2>3. IsEntry(a[k]) /\ IsEntry(b[k])
      BY <1>1 DEF IsLog
    <2> QED
      BY <1>2, <2>2, <2>3 DEF IsEntry
  <1>3. T = {}
    <2> SUFFICES ASSUME T # {}
                 PROVE  FALSE
      OBVIOUS
    <2>1. PICK m \in T : \A k \in T : m <= k
      <3>1. T \subseteq Nat
        BY <1>1
      <3> HIDE DEF T
      <3> QED
        BY <3>1, SmallestNumber
    <2>2. m \in 0 .. n - 1 /\ a[n - m] # b[n - m] /\ n - m \in 1 .. n
      BY <1>1
    <2>3. m # 0
      BY <1>1, <1>2, <2>2
    <2>4. m - 1 \in 0 .. n - 1 /\ m - 1 \notin T
      BY <1>1, <2>1, <2>2, <2>3
    <2>5. a[n - (m - 1)] = b[n - (m - 1)] /\ n - (m - 1) = (n - m) + 1 /\ (n - m) + 1 \in 1 .. n
      BY <1>1, <2>2, <2>3, <2>4
    <2> DEFINE i == n - m
    <2>6. i \in 1 .. n /\ i + 1 \in 1 .. n /\ a[i + 1] = b[i + 1] /\ a[i] # b[i]
      BY <2>2, <2>5
    <2> HIDE DEF i, T
    <2>7. i + 1 \in DOMAIN a /\ i + 1 \in DOMAIN b /\ i + 1 > 1 /\ i + 1 - 1 = i
      BY <1>1, <2>6
    <2>8. /\ a[i + 1].previousHash = a[i].entryHash
          /\ b[i + 1].previousHash = b[i].entryHash
      <3> DEFINE j == i + 1
      <3>1. j \in DOMAIN a /\ j \in DOMAIN b /\ j > 1 /\ j - 1 = i
        BY <2>6, <2>7
      <3> HIDE DEF j
      <3>2. a[j].previousHash = a[j - 1].entryHash /\ b[j].previousHash = b[j - 1].entryHash
        BY <3>1, ValidIsLinked DEF LinkedAt
      <3> QED
        BY <3>1, <3>2 DEF j
    <2> QED
      BY <1>2, <2>6, <2>8
  <1>4. ASSUME NEW k \in 1 .. n
        PROVE  a[k] = b[k]
    <2>1. n - k \in 0 .. n - 1 /\ n - (n - k) = k
      BY <1>1
    <2> QED
      BY <1>3, <2>1
  <1> QED
    BY <1>4

\* A valid log whose hash, where another valid log ends, is that log's root hash
\* begins with that log.
THEOREM RootCommits ==
    ASSUME NEW a, IsLog(a), verifyTransparencyLog(a),
           NEW b, IsLog(b), verifyTransparencyLog(b),
           Len(b) \in DOMAIN a, a[Len(b)].entryHash = RootHash(b)
    PROVE  SubSeq(a, 1, Len(b)) = b
  <1> DEFINE n == Len(b)
             S == ToSet(a) \union ToSet(b)
             prefix == SubSeq(a, 1, n)
  <1>1. /\ a \in Seq(S) /\ b \in Seq(S) /\ n \in Nat /\ n \in 1 .. Len(a)
        /\ DOMAIN b = 1 .. n
    BY DEF IsLog, ToSet
  <1>2. RootHash(b) = b[n].entryHash /\ n \in DOMAIN b
    BY <1>1 DEF RootHash, Last
  <1>3. \A k \in 1 .. n : a[k] = b[k]
    BY <1>2, HashCommitsToPrefix
  <1>4. /\ prefix \in Seq(S) /\ Len(prefix) = n
        /\ \A k \in 1 .. n : prefix[k] = a[k]
    BY <1>1
  <1> HIDE DEF prefix
  <1>5. prefix = b
    BY <1>1, <1>3, <1>4, SeqEqual
  <1> QED
    BY <1>5 DEF prefix

----------------------------------------------------------------------------
(* What is done to a log *)

\* The second of two lists begins where the first one ended.
LEMMA JoinedLists ==
    ASSUME NEW S, NEW s \in Seq(S), NEW t \in Seq(S)
    PROVE  /\ s \o t \in Seq(S) /\ Len(s \o t) = Len(s) + Len(t)
           /\ Len(t) > 0 => (s \o t)[Len(s) + 1] = t[1]
  <1>1. Len(s) \in Nat /\ Len(t) \in Nat
    OBVIOUS
  <1>2. /\ s \o t \in Seq(S) /\ Len(s \o t) = Len(s) + Len(t)
        /\ \A i \in 1 .. Len(s) + Len(t) : (s \o t)[i] =
                IF i <= Len(s) THEN s[i] ELSE t[i - Len(s)]
    BY ConcatProperties
  <1>3. Len(t) > 0 => (s \o t)[Len(s) + 1] = t[(Len(s) + 1) - Len(s)]
    BY <1>1, <1>2
  <1>4. (Len(s) + 1) - Len(s) = 1
    BY <1>1
  <1> QED
    BY <1>2, <1>3, <1>4

LEMMA EditedLogs ==
    ASSUME NEW entries, IsLog(entries), NEW i \in DOMAIN entries, NEW e, IsEntry(e)
    PROVE  /\ IsLog(Append(entries, e))
           /\ IsLog(ReplaceAt(entries, i, e))
           /\ IsLog(RemoveAt(entries, i))
           /\ IsLog(InsertAt(entries, i, e))
  <1> DEFINE S == ToSet(entries) \union {e}
             before == SubSeq(entries, 1, i - 1)
             after == SubSeq(entries, i + 1, Len(entries))
             from == SubSeq(entries, i, Len(entries))
             one == <<e>>
  <1>1. /\ entries \in Seq(S) /\ e \in S /\ \A x \in S : IsEntry(x)
        /\ DOMAIN entries = 1 .. Len(entries) /\ Len(entries) \in Nat
    BY DEF IsLog, ToSet
  <1>2. before \in Seq(S) /\ after \in Seq(S) /\ from \in Seq(S) /\ one \in Seq(S)
    BY <1>1
  <1>3. Append(entries, e) \in Seq(S) /\ ReplaceAt(entries, i, e) \in Seq(S)
    BY <1>1, ExceptSeq DEF ReplaceAt
  <1>4. RemoveAt(entries, i) \in Seq(S)
    <2> HIDE DEF before, after
    <2>1. before \o after \in Seq(S)
      BY <1>2, ConcatProperties
    <2> QED
      BY <2>1 DEF RemoveAt, before, after
  <1>5. InsertAt(entries, i, e) \in Seq(S)
    <2> HIDE DEF before, from, one
    <2>1. before \o one \in Seq(S)
      BY <1>2, ConcatProperties
    <2>2. before \o one \o from \in Seq(S)
      BY <1>2, <2>1, ConcatProperties
    <2> QED
      BY <2>2 DEF InsertAt, before, from, one
  <1> QED
    BY <1>1, <1>3, <1>4, <1>5, LogOfEntries

LEMMA EntryIsRehashed ==
    ASSUME NEW e, IsEntry(e)
    PROVE  /\ IsEntry(Rehashed(e))
           /\ Rehashed(e).profile = e.profile /\ Rehashed(e).index = e.index
           /\ Rehashed(e).what = e.what /\ Rehashed(e).previousHash = e.previousHash
           /\ Rehashed(e).entryHash = computeTransparencyEntryHash(e)
           /\ computeTransparencyEntryHash(Rehashed(e)) = computeTransparencyEntryHash(e)
  <1>1. PICK p, n, w, q, h :
            e = [profile |-> p, index |-> n, what |-> w, previousHash |-> q, entryHash |-> h]
    BY DEF IsEntry
  <1> DEFINE hash == computeTransparencyEntryHash(e)
  <1>2. ASSUME NEW x
        PROVE  [e EXCEPT !.entryHash = x] =
                   [profile |-> p, index |-> n, what |-> w, previousHash |-> q, entryHash |-> x]
    BY <1>1
  <1>3. Rehashed(e) = [profile |-> p, index |-> n, what |-> w, previousHash |-> q,
                       entryHash |-> hash]
    BY <1>2 DEF Rehashed
  <1> HIDE DEF hash
  <1> QED
    BY <1>1, <1>3 DEF IsEntry, computeTransparencyEntryHash, hash

LEMMA RewrittenEntry ==
    ASSUME NEW e, IsEntry(e), NEW what, NEW link
    PROVE  IsEntry([e EXCEPT !.what = what, !.previousHash = link])
  <1>1. PICK p, n, w, q, h :
            e = [profile |-> p, index |-> n, what |-> w, previousHash |-> q, entryHash |-> h]
    BY DEF IsEntry
  <1> DEFINE half == [e EXCEPT !.what = what]
             full == [half EXCEPT !.previousHash = link]
  <1>2. half = [profile |-> p, index |-> n, what |-> what, previousHash |-> q, entryHash |-> h]
    BY <1>1
  <1> HIDE DEF half
  <1>3. full = [profile |-> p, index |-> n, what |-> what, previousHash |-> link, entryHash |-> h]
    BY <1>2
  <1> HIDE DEF full
  <1>4. IsEntry(full)
    BY <1>3 DEF IsEntry
  <1> QED
    BY <1>4 DEF full, half

\* What the server appends keeps a log valid, and an invalid one invalid.
LEMMA AppendedEntry ==
    ASSUME NEW entries, IsLog(entries), NEW what
    PROVE  LET longer == Append(entries, createTransparencyEntry(entries, what)) IN
           /\ IsLog(longer)
           /\ verifyTransparencyLog(longer) <=> verifyTransparencyLog(entries)
  <1> DEFINE bare == [profile |-> TRANSPARENCY_PROFILE, index |-> Len(entries), what |-> what,
                      previousHash |-> RootHash(entries), entryHash |-> NoHash]
             e == createTransparencyEntry(entries, what)
             n == Len(entries)
             longer == Append(entries, e)
  <1>1. /\ IsEntry(e) /\ e.profile = TRANSPARENCY_PROFILE /\ e.index = n
        /\ e.previousHash = RootHash(entries)
        /\ e.entryHash = computeTransparencyEntryHash(e)
    <2>1. IsEntry(bare)
      BY DEF IsEntry
    <2>2. e = Rehashed(bare)
      BY DEF createTransparencyEntry
    <2>3. /\ bare.profile = TRANSPARENCY_PROFILE /\ bare.index = n
          /\ bare.previousHash = RootHash(entries)
      OBVIOUS
    <2> HIDE DEF bare, e, n
    <2> QED
      BY <2>1, <2>2, <2>3, EntryIsRehashed
  <1> HIDE DEF e
  <1>2. /\ entries \in Seq(ToSet(entries)) /\ DOMAIN entries = 1 .. n /\ n \in Nat
    BY DEF IsLog
  <1>3. /\ IsLog(longer)
        /\ DOMAIN longer = 1 .. n + 1
        /\ longer[n + 1] = e
        /\ \A i \in 1 .. n : longer[i] = entries[i]
    <2> DEFINE S == ToSet(entries) \union {e}
    <2>1. entries \in Seq(S) /\ e \in S /\ \A x \in S : IsEntry(x)
      BY <1>1 DEF IsLog, ToSet
    <2>2. longer \in Seq(S)
      BY <2>1
    <2>3. IsLog(longer)
      BY <2>1, <2>2, LogOfEntries
    <2> QED
      BY <2>1, <2>3
  <1> HIDE DEF longer
  <1>4. RootHash(entries) = IF n + 1 = 1 THEN NoHash ELSE entries[n].entryHash
    BY <1>2 DEF RootHash, Last
  <1>5. LinkedAt(longer, n + 1)
    BY <1>1, <1>2, <1>3, <1>4 DEF LinkedAt
  <1>6. ASSUME NEW i \in 1 .. n
        PROVE  LinkedAt(longer, i) <=> LinkedAt(entries, i)
    BY <1>2, <1>3 DEF LinkedAt
  <1>7. verifyTransparencyLog(longer) <=> verifyTransparencyLog(entries)
    BY <1>2, <1>3, <1>5, <1>6, ValidIsLinked
  <1> QED
    BY <1>3, <1>7 DEF longer, e

\* An entry that is not the last cannot tell something else or have another
\* link, its hash computed anew or not: the next one has its hash.
LEMMA RewrittenIsNoticed ==
    ASSUME NEW entries, IsLog(entries), verifyTransparencyLog(entries),
           NEW i \in DOMAIN entries, i < Len(entries),
           NEW e, IsEntry(e), ReplaceAt(entries, i, e) # entries
    PROVE  ~verifyTransparencyLog(ReplaceAt(entries, i, e))
  <1> DEFINE new == ReplaceAt(entries, i, e)
  <1> SUFFICES ASSUME verifyTransparencyLog(new)
               PROVE  new = entries
    OBVIOUS
  <1>1. /\ IsLog(new) /\ DOMAIN new = DOMAIN entries
        /\ new[i] = e /\ \A j \in DOMAIN entries : j # i => new[j] = entries[j]
        /\ DOMAIN entries = 1 .. Len(entries) /\ Len(entries) \in Nat
    <2>1. DOMAIN entries = 1 .. Len(entries) /\ Len(entries) \in Nat
      BY ValidIsLinked
    <2>2. IsLog(new)
      BY EditedLogs
    <2> QED
      BY <2>1, <2>2 DEF ReplaceAt
  <1>2. i + 1 \in DOMAIN entries /\ new[i + 1] = entries[i + 1] /\ i + 1 # 1 /\ i + 1 - 1 = i
    BY <1>1
  <1> HIDE DEF new
  <1>3. new[i].entryHash = entries[i].entryHash
    <2> DEFINE j == i + 1
    <2>1. j \in DOMAIN entries /\ j \in DOMAIN new /\ j # 1 /\ j - 1 = i
          /\ new[j] = entries[j]
      BY <1>1, <1>2
    <2> HIDE DEF j
    <2>2. /\ new[j].previousHash = new[j - 1].entryHash
          /\ entries[j].previousHash = entries[j - 1].entryHash
      BY <1>1, <2>1, ValidIsLinked DEF LinkedAt
    <2> QED
      BY <2>1, <2>2
  <1>4. \A k \in 1 .. i : new[k] = entries[k]
    BY <1>1, <1>3, HashCommitsToPrefix
  <1>5. new[i] = entries[i]
    BY <1>1, <1>4
  <1>6. new = entries
    <2>1. entries \in Seq(ToSet(entries)) /\ new = [entries EXCEPT ![i] = e]
      BY DEF IsLog, new, ReplaceAt
    <2> QED
      BY <1>1, <1>5, <2>1
  <1> QED
    BY <1>6

\* What follows an entry that is removed or repeated, and the entries of a
\* swapped pair, are not where their numbers say.
LEMMA MovedIsNoticed ==
    ASSUME NEW entries, IsLog(entries), verifyTransparencyLog(entries),
           NEW new, IsLog(new),
           NEW i \in DOMAIN entries, NEW j \in DOMAIN new, i # j, new[j] = entries[i]
    PROVE  ~verifyTransparencyLog(new)
  <1>1. entries[i].index = i - 1 /\ i \in Nat /\ j \in Nat
    BY ValidIsLinked DEF LinkedAt
  <1>2. new[j].index # j - 1
    BY <1>1
  <1> QED
    BY <1>2, ValidIsLinked DEF LinkedAt

LEMMA RemovedIsNoticed ==
    ASSUME NEW entries, IsLog(entries), verifyTransparencyLog(entries),
           NEW i \in DOMAIN entries, i < Len(entries)
    PROVE  ~verifyTransparencyLog(RemoveAt(entries, i))
  <1> DEFINE S == ToSet(entries)
             before == SubSeq(entries, 1, i - 1)
             after == SubSeq(entries, i + 1, Len(entries))
             new == RemoveAt(entries, i)
  <1>1. entries \in Seq(S) /\ DOMAIN entries = 1 .. Len(entries) /\ Len(entries) \in Nat
    BY DEF IsLog
  <1>2. /\ before \in Seq(S) /\ Len(before) = i - 1
        /\ after \in Seq(S) /\ Len(after) = Len(entries) - i
        /\ after[1] = entries[i + 1]
    BY <1>1
  <1> HIDE DEF before, after
  <1>3. /\ Len(before \o after) = Len(entries) - 1
        /\ before \o after \in Seq(S)
        /\ (before \o after)[i] = after[1]
    <2> HIDE DEF S
    <2>1. i - 1 + (Len(entries) - i) = Len(entries) - 1 /\ i - 1 + 1 = i /\ Len(entries) - i > 0
      BY <1>1
    <2>2. /\ before \o after \in Seq(S) /\ Len(before \o after) = Len(before) + Len(after)
          /\ Len(after) > 0 => (before \o after)[Len(before) + 1] = after[1]
      BY <1>2, JoinedLists
    <2> QED
      BY <1>2, <2>1, <2>2
  <1>4. new = before \o after
    BY DEF RemoveAt, before, after
  <1>5. IsLog(new)
    BY EditedLogs DEF IsLog
  <1> HIDE DEF new
  <1>6. i \in DOMAIN new /\ i + 1 \in DOMAIN entries /\ i # i + 1 /\ new[i] = entries[i + 1]
    BY <1>1, <1>2, <1>3, <1>4
  <1>7. ~verifyTransparencyLog(new)
    BY <1>5, <1>6, MovedIsNoticed
  <1> QED
    BY <1>7 DEF new

LEMMA RepeatedIsNoticed ==
    ASSUME NEW entries, IsLog(entries), verifyTransparencyLog(entries),
           NEW i \in DOMAIN entries
    PROVE  ~verifyTransparencyLog(InsertAt(entries, i, entries[i]))
  <1> DEFINE S == ToSet(entries)
             before == SubSeq(entries, 1, i - 1)
             one == <<entries[i]>>
             from == SubSeq(entries, i, Len(entries))
             new == InsertAt(entries, i, entries[i])
  <1>1. entries \in Seq(S) /\ DOMAIN entries = 1 .. Len(entries) /\ Len(entries) \in Nat
    BY DEF IsLog
  <1>2. /\ before \in Seq(S) /\ Len(before) = i - 1
        /\ one \in Seq(S) /\ Len(one) = 1
        /\ from \in Seq(S) /\ Len(from) = Len(entries) - i + 1
        /\ from[1] = entries[i]
    BY <1>1
  <1> HIDE DEF before, one, from
  <1>3. before \o one \in Seq(S) /\ Len(before \o one) = i
    <2> HIDE DEF S
    <2>1. i - 1 + 1 = i
      BY <1>1
    <2>2. /\ before \o one \in Seq(S) /\ Len(before \o one) = Len(before) + Len(one)
          /\ Len(one) > 0 => (before \o one)[Len(before) + 1] = one[1]
      BY <1>2, JoinedLists
    <2> QED
      BY <1>2, <2>1, <2>2
  <1> DEFINE start == before \o one
  <1>4. start \in Seq(S) /\ Len(start) = i
    BY <1>3
  <1>5. new = start \o from
    BY DEF InsertAt, before, one, from
  <1> HIDE DEF start
  <1>6. /\ Len(start \o from) = Len(entries) + 1
        /\ start \o from \in Seq(S)
        /\ (start \o from)[i + 1] = from[1]
    <2> HIDE DEF S
    <2>1. i + (Len(entries) - i + 1) = Len(entries) + 1 /\ Len(entries) - i + 1 > 0
      BY <1>1
    <2>2. /\ start \o from \in Seq(S) /\ Len(start \o from) = Len(start) + Len(from)
          /\ Len(from) > 0 => (start \o from)[Len(start) + 1] = from[1]
      BY <1>2, <1>4, JoinedLists
    <2> QED
      BY <1>2, <1>4, <2>1, <2>2
  <1>7. IsLog(new)
    BY EditedLogs DEF IsLog
  <1> HIDE DEF new
  <1>8. i + 1 \in DOMAIN new /\ i # i + 1 /\ new[i + 1] = entries[i]
    BY <1>1, <1>2, <1>5, <1>6
  <1>9. ~verifyTransparencyLog(new)
    BY <1>7, <1>8, MovedIsNoticed
  <1> QED
    BY <1>9 DEF new

LEMMA SwappedIsNoticed ==
    ASSUME NEW entries, IsLog(entries), NEW i \in DOMAIN entries, i < Len(entries)
    PROVE  LET new == [entries EXCEPT ![i] = entries[i + 1], ![i + 1] = entries[i]] IN
           /\ IsLog(new)
           /\ verifyTransparencyLog(entries) => ~verifyTransparencyLog(new)
  <1> DEFINE S == ToSet(entries)
             half == [entries EXCEPT ![i] = entries[i + 1]]
             new == [half EXCEPT ![i + 1] = entries[i]]
  <1>1. /\ entries \in Seq(S) /\ DOMAIN entries = 1 .. Len(entries) /\ Len(entries) \in Nat
        /\ \A x \in S : IsEntry(x)
        /\ i + 1 \in DOMAIN entries /\ entries[i] \in S /\ entries[i + 1] \in S
    BY DEF IsLog, ToSet
  <1>2. half \in Seq(S) /\ Len(half) = Len(entries)
    BY <1>1, ExceptSeq
  <1> HIDE DEF half
  <1>3. /\ new \in Seq(S) /\ Len(new) = Len(entries)
        /\ new[i + 1] = entries[i]
    BY <1>1, <1>2, ExceptSeq
  <1>4. IsLog(new)
    BY <1>1, <1>3, LogOfEntries
  <1> HIDE DEF new
  <1>5. i + 1 \in DOMAIN new /\ i # i + 1
    BY <1>1, <1>3
  <1>6. verifyTransparencyLog(entries) => ~verifyTransparencyLog(new)
    BY <1>3, <1>4, <1>5, MovedIsNoticed
  <1> QED
    BY <1>4, <1>6 DEF new, half

----------------------------------------------------------------------------
(* The log of the server and the copy of a reader *)

LogInv ==
    /\ IsLog(log) /\ IsLog(noted) /\ verifyTransparencyLog(noted)
    /\ edits \in Nat /\ behind \in Int
    /\ edits = 0 => verifyTransparencyLog(log)
    /\ edits = 1 /\ behind > 0 => ~verifyTransparencyLog(log)

LEMMA LogInitGood == LogInit => LogInv
  <1>1. IsLog(<< >>)
    BY DEF IsLog, ToSet
  <1>2. verifyTransparencyLog(<< >>)
    BY DEF verifyTransparencyLog
  <1> QED
    BY <1>1, <1>2 DEF LogInit, LogInv

\* One change from outside, of which enough is known: the first one is noticed
\* if an entry follows it.
LEMMA EditKeeps ==
    ASSUME LogInv, NEW entries, NEW following \in Int, EditedTo(entries, following),
           IsLog(entries),
           verifyTransparencyLog(log) /\ following > 0 => ~verifyTransparencyLog(entries)
    PROVE  LogInv'
  BY DEF LogInv, EditedTo

LEMMA LogStepKeeps == LogInv /\ LogNext => LogInv'
  <1> SUFFICES ASSUME LogInv, LogNext
               PROVE  LogInv'
    OBVIOUS
  <1>0. /\ IsLog(log) /\ DOMAIN log = 1 .. Len(log) /\ Len(log) \in Nat
        /\ \A i \in DOMAIN log : IsEntry(log[i])
    BY ValidIsLinked DEF LogInv, IsLog
  <1>1. ASSUME NEW what \in What, AppendEntry(what)
        PROVE  LogInv'
    BY <1>1, AppendedEntry DEF LogInv, AppendEntry
  <1>2. CASE Note
    BY <1>2 DEF LogInv, Note
  <1>3. ASSUME NEW i \in DOMAIN log, RewriteEntry(i)
        PROVE  LogInv'
    <2>1. PICK what \in What, link \in {NoHash} \union {log[j].entryHash : j \in DOMAIN log} :
              LET entry == [log[i] EXCEPT !.what = what, !.previousHash = link] IN
              \E e \in {entry, Rehashed(entry)} :
                  EditedTo(ReplaceAt(log, i, e), Len(log) - i)
      BY <1>3 DEF RewriteEntry
    <2> DEFINE entry == [log[i] EXCEPT !.what = what, !.previousHash = link]
    <2>2. IsEntry(entry)
      BY <1>0, RewrittenEntry
    <2>3. PICK e \in {entry, Rehashed(entry)} : EditedTo(ReplaceAt(log, i, e), Len(log) - i)
      BY <2>1
    <2> HIDE DEF entry
    <2>4. IsEntry(e)
      BY <2>2, EntryIsRehashed
    <2>5. IsLog(ReplaceAt(log, i, e))
      BY <1>0, <2>4, EditedLogs
    <2>6. ReplaceAt(log, i, e) # log
      BY <2>3 DEF EditedTo
    <2>7. Len(log) - i \in Int /\ (Len(log) - i > 0 => i < Len(log))
      BY <1>0
    <2>8. verifyTransparencyLog(log) /\ Len(log) - i > 0 =>
              ~verifyTransparencyLog(ReplaceAt(log, i, e))
      BY <1>0, <2>4, <2>6, <2>7, RewrittenIsNoticed
    <2> QED
      BY <2>3, <2>5, <2>7, <2>8, EditKeeps
  <1>4. ASSUME NEW i \in DOMAIN log, RemoveEntry(i)
        PROVE  LogInv'
    <2>1. IsLog(RemoveAt(log, i))
      BY <1>0, EditedLogs
    <2>2. Len(log) - i \in Int /\ (Len(log) - i > 0 => i < Len(log))
      BY <1>0
    <2>3. verifyTransparencyLog(log) /\ Len(log) - i > 0 => ~verifyTransparencyLog(RemoveAt(log, i))
      BY <1>0, <2>2, RemovedIsNoticed
    <2> QED
      BY <1>4, <2>1, <2>2, <2>3, EditKeeps DEF RemoveEntry
  <1>5. ASSUME NEW i \in DOMAIN log, RepeatEntry(i)
        PROVE  LogInv'
    <2>1. IsLog(InsertAt(log, i, log[i]))
      BY <1>0, EditedLogs
    <2>2. Len(log) - i + 1 \in Int
      BY <1>0
    <2>3. verifyTransparencyLog(log) => ~verifyTransparencyLog(InsertAt(log, i, log[i]))
      BY <1>0, RepeatedIsNoticed
    <2> QED
      BY <1>5, <2>1, <2>2, <2>3, EditKeeps DEF RepeatEntry
  <1>6. ASSUME NEW i \in DOMAIN log, SwapEntries(i)
        PROVE  LogInv'
    <2> DEFINE new == [log EXCEPT ![i] = log[i + 1], ![i + 1] = log[i]]
    <2>1. i < Len(log) /\ EditedTo(new, Len(log) - i)
      BY <1>6 DEF SwapEntries
    <2>2. IsLog(new) /\ (verifyTransparencyLog(log) => ~verifyTransparencyLog(new))
      BY <1>0, <2>1, SwappedIsNoticed
    <2>3. Len(log) - i \in Int
      BY <1>0
    <2> HIDE DEF new
    <2> QED
      BY <2>1, <2>2, <2>3, EditKeeps
  <1> QED
    BY <1>1, <1>2, <1>3, <1>4, <1>5, <1>6 DEF LogNext

----------------------------------------------------------------------------
(* Handshakes *)

\* Two Diffie-Hellman outputs of keys of different kinds are equal only if the
\* keys are.
LEMMA PairsOfKinds ==
    ASSUME NEW A, NEW B, A \cap B = {},
           NEW a \in A, NEW b \in B, NEW c \in A, NEW d \in B
    PROVE  {a, b} = {c, d} <=> a = c /\ b = d
  OBVIOUS

\* Joining a list of three outputs with one more or with none.
LEMMA OutputsJoined ==
    ASSUME NEW a, NEW b, NEW c, NEW d
    PROVE  /\ <<a, b, c>> \o << >> = <<a, b, c>>
           /\ <<a, b, c>> \o <<d>> = <<a, b, c, d>>
  <1> DEFINE S == {a, b, c, d}
             three == <<a, b, c>>
             one == <<d>>
             four == <<a, b, c, d>>
  <1>1. /\ three \in Seq(S) /\ Len(three) = 3
        /\ three[1] = a /\ three[2] = b /\ three[3] = c
        /\ one \in Seq(S) /\ Len(one) = 1 /\ one[1] = d
        /\ four \in Seq(S) /\ Len(four) = 4
        /\ four[1] = a /\ four[2] = b /\ four[3] = c /\ four[4] = d
    OBVIOUS
  <1> HIDE DEF three, one, four, S
  <1>2. three \o << >> = three
    BY <1>1
  <1>3. three \o one = four
    <2> DEFINE joined == three \o one
    <2>1. /\ joined \in Seq(S) /\ Len(joined) = 4
          /\ \A k \in 1 .. 4 : joined[k] = IF k <= 3 THEN three[k] ELSE one[k - 3]
      <3>1. /\ three \o one \in Seq(S)
            /\ Len(three \o one) = Len(three) + Len(one)
            /\ \A k \in 1 .. Len(three) + Len(one) :
                   (three \o one)[k] = IF k <= Len(three) THEN three[k]
                                      ELSE one[k - Len(three)]
        BY <1>1, ConcatProperties
      <3> QED
        BY <1>1, <3>1
    <2>2. \A k \in 1 .. 4 : joined[k] = four[k]
      <3> HIDE DEF joined
      <3> QED
        BY <1>1, <2>1
    <2> HIDE DEF joined
    <2>3. joined = four
      BY <1>1, <2>1, <2>2, SeqEqual
    <2> QED
      BY <2>3 DEF joined
  <1> QED
    BY <1>2, <1>3 DEF three, one, four

\* The two sides of X3DH derive one secret exactly when each means the keys the
\* other has, whatever these are, as long as keys of different kinds differ
\* (deriveX3dhInitiatorSecret, deriveX3dhResponderSecret).
THEOREM X3dhAgreement ==
    ASSUME NEW Identity, NEW Ephemeral, NEW SignedPreKey, NEW OneTimePreKey,
           Identity \cap Ephemeral = {}, Identity \cap SignedPreKey = {},
           Ephemeral \cap SignedPreKey = {}, Ephemeral \cap OneTimePreKey = {},
           NoKey \notin OneTimePreKey,
           NEW i, NEW r,
           i.identity \in Identity, r.identity \in Identity,
           i.theirIdentity \in Identity, r.theirIdentity \in Identity,
           i.ephemeral \in Ephemeral, r.theirEphemeral \in Ephemeral,
           i.theirSignedPreKey \in SignedPreKey, r.signedPreKey \in SignedPreKey,
           i.theirOneTimePreKey \in OneTimePreKey \union {NoKey},
           r.oneTimePreKey \in OneTimePreKey \union {NoKey}
    PROVE  X3dhAgrees(i, r)
  <1> DEFINE DH(k, l) == DiffieHellman(k, l)
             a1 == DH(i.identity, i.theirSignedPreKey)
             b1 == DH(i.ephemeral, i.theirIdentity)
             c1 == DH(i.ephemeral, i.theirSignedPreKey)
             d1 == DH(i.ephemeral, i.theirOneTimePreKey)
             a2 == DH(r.signedPreKey, r.theirIdentity)
             b2 == DH(r.identity, r.theirEphemeral)
             c2 == DH(r.signedPreKey, r.theirEphemeral)
             d2 == DH(r.oneTimePreKey, r.theirEphemeral)
             out1 == IF i.theirOneTimePreKey = NoKey THEN <<a1, b1, c1>> ELSE <<a1, b1, c1, d1>>
             out2 == IF r.oneTimePreKey = NoKey THEN <<a2, b2, c2>> ELSE <<a2, b2, c2, d2>>
  <1>1. /\ a1 = a2 <=> i.identity = r.theirIdentity /\ i.theirSignedPreKey = r.signedPreKey
        /\ b1 = b2 <=> i.ephemeral = r.theirEphemeral /\ i.theirIdentity = r.identity
        /\ c1 = c2 <=> i.ephemeral = r.theirEphemeral /\ i.theirSignedPreKey = r.signedPreKey
    BY DEF DiffieHellman
  <1>2. i.theirOneTimePreKey # NoKey /\ r.oneTimePreKey # NoKey =>
            (d1 = d2 <=> i.ephemeral = r.theirEphemeral
                         /\ i.theirOneTimePreKey = r.oneTimePreKey)
    BY DEF DiffieHellman
  <1>3. /\ deriveX3dhInitiatorSecret(i) = x3dhKdf(out1, i.info)
        /\ deriveX3dhResponderSecret(r) = x3dhKdf(out2, r.info)
    BY OutputsJoined DEF deriveX3dhInitiatorSecret, deriveX3dhResponderSecret
  <1> HIDE DEF a1, b1, c1, d1, a2, b2, c2, d2
  <1>4. x3dhKdf(out1, i.info) = x3dhKdf(out2, r.info) <=> out1 = out2 /\ i.info = r.info
    BY DEF x3dhKdf
  <1>5. out1 = out2 <=>
            /\ a1 = a2 /\ b1 = b2 /\ c1 = c2
            /\ i.theirOneTimePreKey = NoKey <=> r.oneTimePreKey = NoKey
            /\ i.theirOneTimePreKey # NoKey => d1 = d2
    OBVIOUS
  <1> QED
    BY <1>1, <1>2, <1>3, <1>4, <1>5 DEF X3dhAgrees, SameX3dh

\* With a usable key encapsulation on both sides, and only then, the same holds
\* of the combined secret (encapsulatePqxdhSecret, decapsulatePqxdhSecret).
THEOREM PqxdhAgreement ==
    ASSUME NEW i, NEW r, X3dhAgrees(i, r),
           i.provider = [name |-> i.provider.name, usable |-> i.provider.usable],
           r.provider = [name |-> r.provider.name, usable |-> r.provider.usable],
           i.provider.usable \in BOOLEAN, r.provider.usable \in BOOLEAN
    PROVE  PqxdhAgrees(i, r)
  <1> DEFINE x1 == deriveX3dhInitiatorSecret(i)
             x2 == deriveX3dhResponderSecret(r)
             kem == <<i.provider.name, i.theirKemKey>>
             opened == IF kem = <<r.provider.name, r.kemKey>> THEN kem
                       ELSE <<"rejected", r.kemKey, kem>>
             sent == encapsulatePqxdhSecret(i)
             received == IF sent.ok THEN decapsulatePqxdhSecret(r, sent.ciphertext) ELSE Failed
             agreed == sent.ok /\ received.ok /\ sent.secret = received.secret
  <1>1. ~i.provider.usable => ~sent.ok
    BY DEF encapsulatePqxdhSecret, Failed
  <1>2. i.provider.usable =>
            sent = [ok |-> TRUE, ciphertext |-> kem,
                    secret |-> <<"pqxdh", i.provider.name, x1, kem>>]
    BY DEF encapsulatePqxdhSecret, Encapsulation, combinePqxdhSharedSecret
  <1>3. i.provider.usable /\ ~r.provider.usable => ~received.ok
    BY <1>2 DEF decapsulatePqxdhSecret, Failed
  <1>4. i.provider.usable /\ r.provider.usable =>
            received = [ok |-> TRUE, secret |-> <<"pqxdh", r.provider.name, x2, opened>>]
    <2>1. SUFFICES ASSUME i.provider.usable, r.provider.usable
          PROVE received = decapsulatePqxdhSecret(r, kem)
      BY DEF decapsulatePqxdhSecret, Decapsulation, Encapsulation, combinePqxdhSharedSecret
    <2> QED
      BY <1>2, <2>1
  <1>5. opened = kem <=> i.provider.name = r.provider.name /\ i.theirKemKey = r.kemKey
    OBVIOUS
  <1> HIDE DEF x1, x2, kem, opened, sent, received
  <1>6. agreed <=> /\ i.provider.usable /\ r.provider.usable
                   /\ i.provider.name = r.provider.name /\ x1 = x2 /\ kem = opened
    BY <1>1, <1>2, <1>3, <1>4
  <1>7. x1 = x2 <=> SameX3dh(i, r)
    BY DEF X3dhAgrees, x1, x2
  <1>8. i.provider = r.provider <=> /\ i.provider.name = r.provider.name
                                    /\ i.provider.usable = r.provider.usable
    OBVIOUS
  <1> QED
    BY <1>5, <1>6, <1>7, <1>8 DEF PqxdhAgrees, SameKem, sent, received

----------------------------------------------------------------------------
(* Ranking paths *)

LEMMA Positions ==
    /\ Transport = {"internet-direct", "relay-primary", "relay-secondary",
                    "nearby-mesh", "sms-control"}
    /\ Position("internet-direct") = 1 /\ Position("relay-primary") = 2
    /\ Position("relay-secondary") = 3 /\ Position("nearby-mesh") = 4
    /\ Position("sms-control") = 5
  <1>1. DOMAIN Transports = 1 .. 5
    BY DEF Transports
  <1>2. /\ Transports[1] = "internet-direct" /\ Transports[2] = "relay-primary"
        /\ Transports[3] = "relay-secondary" /\ Transports[4] = "nearby-mesh"
        /\ Transports[5] = "sms-control"
    BY DEF Transports
  <1>3. Transport = {"internet-direct", "relay-primary", "relay-secondary",
                    "nearby-mesh", "sms-control"}
    BY <1>1, <1>2 DEF Transport, Range
  <1>4. ASSUME NEW n \in 1 .. 5
        PROVE  Position(Transports[n]) = n
    <2>1. \A m \in 1 .. 5 : Transports[m] = Transports[n] => m = n
      BY <1>2
    <2> QED
      BY <1>1, <2>1 DEF Position
  <1> QED
    BY <1>2, <1>3, <1>4

LEMMA ScoreType ==
    ASSUME NEW t \in Transport, NEW envelope, NEW context
    PROVE  scoreTransport(t, envelope, context) \in Int
  BY Positions DEF scoreTransport, BaseScore, If

\* Any two paths are in order, and the order is strict.
LEMMA PreferredIsOrder ==
    ASSUME NEW envelope, NEW context, NEW s \in Transport, NEW t \in Transport, NEW u \in Transport
    PROVE  /\ ~Preferred(s, s, envelope, context)
           /\ s # t => Preferred(s, t, envelope, context) \/ Preferred(t, s, envelope, context)
           /\ Preferred(s, t, envelope, context) /\ Preferred(t, u, envelope, context)
              => Preferred(s, u, envelope, context)
  <1> DEFINE score(p) == scoreTransport(p, envelope, context)
  <1>1. score(s) \in Int /\ score(t) \in Int /\ score(u) \in Int
    BY ScoreType
  <1>2. /\ Position(s) \in Int /\ Position(t) \in Int /\ Position(u) \in Int
        /\ s # t => Position(s) # Position(t)
    BY Positions
  <1> HIDE DEF score
  <1>3. ASSUME NEW p, NEW q
        PROVE  Preferred(p, q, envelope, context) <=>
                   \/ score(p) > score(q)
                   \/ score(p) = score(q) /\ Position(p) < Position(q)
    BY DEF Preferred, score
  <1> QED
    BY <1>1, <1>2, <1>3

\* Every path has a place of its own, and the places are those of the list.
LEMMA Places ==
    ASSUME NEW envelope, NEW context, NEW paths, paths \subseteq Transport
    PROVE  LET place(t) == Place(t, paths, envelope, context) IN
           /\ IsFiniteSet(paths) /\ Cardinality(paths) \in Nat
           /\ \A t \in paths : place(t) \in 1 .. Cardinality(paths)
           /\ \A s, t \in paths :
                  Preferred(s, t, envelope, context) <=> place(s) < place(t)
           /\ \A n \in 1 .. Cardinality(paths) : \E t \in paths : place(t) = n
  <1> DEFINE place(t) == Place(t, paths, envelope, context)
             better(s, t) == Preferred(s, t, envelope, context)
             Ahead(t) == {s \in paths : better(s, t)}
             N == Cardinality(paths)
  <1>1. IsFiniteSet(paths) /\ N \in Nat
    <2>1. Transports \in Surjection(1 .. 5, Transport)
      <3>1. DOMAIN Transports = 1 .. 5
        BY DEF Transports
      <3>2. Transports \in [1 .. 5 -> Transport]
        <4>1. Transports = [n \in 1 .. 5 |-> Transports[n]]
          BY DEF Transports
        <4> QED
          BY <3>1, <4>1 DEF Transport, Range
      <3> QED
        BY <3>1, <3>2 DEF Surjection, Transport, Range
    <2>2. ExistsSurjection(1 .. 5, Transport)
      BY <2>1 DEF ExistsSurjection
    <2>3. IsFiniteSet(Transport)
      BY <2>2, FS_NatSurjection
    <2> QED
      BY <2>3, FS_Subset, FS_CardinalityType
  <1>2. ASSUME NEW t \in paths
        PROVE  /\ IsFiniteSet(Ahead(t)) /\ Cardinality(Ahead(t)) \in Nat
               /\ Cardinality(Ahead(t)) < N
               /\ place(t) = Cardinality(Ahead(t)) + 1
    <2>1. t \notin Ahead(t)
      BY PreferredIsOrder
    <2>2. Ahead(t) \subseteq paths /\ Ahead(t) # paths
      BY <2>1
    <2>3. IsFiniteSet(Ahead(t)) /\ Cardinality(Ahead(t)) < N
      <3> HIDE DEF Ahead, N
      <3>1. Ahead(t) \in SUBSET paths
        BY <2>2
      <3>2. /\ IsFiniteSet(Ahead(t)) /\ Cardinality(Ahead(t)) <= Cardinality(paths)
            /\ Cardinality(paths) = Cardinality(Ahead(t)) => paths = Ahead(t)
        BY <1>1, <3>1, FS_Subset
      <3>3. Cardinality(Ahead(t)) \in Nat
        BY <3>2, FS_CardinalityType
      <3> QED
        BY <1>1, <2>2, <3>2, <3>3 DEF N
    <2>4. place(t) = Cardinality(Ahead(t)) + 1
      BY DEF Place
    <2> QED
      BY <2>3, <2>4, FS_CardinalityType
  <1>3. ASSUME NEW s \in paths, NEW t \in paths, better(s, t)
        PROVE  place(s) < place(t)
    <2>1. Ahead(s) \subseteq Ahead(t)
      BY <1>3, PreferredIsOrder
    <2>2. s \in Ahead(t) /\ s \notin Ahead(s)
      BY <1>3, PreferredIsOrder
    <2>3. Cardinality(Ahead(s)) < Cardinality(Ahead(t))
      <3> HIDE DEF Ahead
      <3> QED
        BY <1>2, <2>1, <2>2, FS_Subset
    <2> HIDE DEF Ahead, place
    <2> QED
      BY <1>2, <2>3
  <1> HIDE DEF Ahead
  <1>4. \A t \in paths : place(t) \in 1 .. N
    <2> HIDE DEF place, N
    <2> QED
      BY <1>1, <1>2
  <1>5. \A s, t \in paths : better(s, t) <=> place(s) < place(t)
    <2> SUFFICES ASSUME NEW s \in paths, NEW t \in paths, place(s) < place(t), ~better(s, t)
                 PROVE  FALSE
      BY <1>3
    <2>1. s # t
      <3> HIDE DEF place
      <3> QED
        BY <1>1, <1>4
    <2>2. better(t, s)
      BY <2>1, PreferredIsOrder
    <2>3. place(t) < place(s)
      BY <1>3, <2>2
    <2> HIDE DEF place
    <2> QED
      BY <1>1, <1>4, <2>3
  <1> DEFINE f == [t \in paths |-> place(t)]
  <1>6. f \in Injection(paths, 1 .. N)
    <2>1. f \in [paths -> 1 .. N]
      BY <1>4
    <2>2. ASSUME NEW s \in paths, NEW t \in paths, f[s] = f[t]
          PROVE  s = t
      <3>1. place(s) = place(t)
        BY <2>2
      <3>2. ~better(s, t) /\ ~better(t, s)
        <4> HIDE DEF place
        <4> QED
          BY <1>1, <1>4, <1>5, <3>1
      <3> QED
        BY <3>2, PreferredIsOrder
    <2> HIDE DEF f
    <2> QED
      BY <2>1, <2>2 DEF Injection, IsInjective
  <1>7. f \in Surjection(paths, 1 .. N)
    <2>1. IsFiniteSet(1 .. N) /\ Cardinality(1 .. N) = N
      BY <1>1, FS_Interval
    <2> QED
      BY <1>6, <2>1, FS_Injection
  <1>8. \A n \in 1 .. N : \E t \in paths : place(t) = n
    BY <1>7 DEF Surjection
  <1> QED
    BY <1>1, <1>4, <1>5, <1>8

\* The list is that of the paths, each in its place.
LEMMA ListedBestFirst ==
    ASSUME NEW envelope, NEW context, NEW paths, paths \subseteq Transport
    PROVE  LET ranked == BestFirst(paths, envelope, context) IN
           /\ Range(ranked) = paths
           /\ \A m, n \in DOMAIN ranked :
                  m < n <=> Preferred(ranked[m], ranked[n], envelope, context)
  <1> DEFINE place(t) == Place(t, paths, envelope, context)
             N == Cardinality(paths)
             ranked == BestFirst(paths, envelope, context)
  <1>1. /\ N \in Nat
        /\ \A t \in paths : place(t) \in 1 .. N
        /\ \A s, t \in paths : Preferred(s, t, envelope, context) <=> place(s) < place(t)
        /\ \A n \in 1 .. N : \E t \in paths : place(t) = n
    BY Places
  <1>2. ranked = [n \in 1 .. N |-> CHOOSE t \in paths : place(t) = n]
    BY DEF BestFirst
  <1> HIDE DEF place, N, ranked
  <1>3. DOMAIN ranked = 1 .. N
    BY <1>2
  <1>4. \A n \in 1 .. N : ranked[n] \in paths /\ place(ranked[n]) = n
    BY <1>1, <1>2
  <1>5. ASSUME NEW t \in paths
        PROVE  t = ranked[place(t)]
    <2>1. place(t) \in 1 .. N
      BY <1>1
    <2>2. /\ ranked[place(t)] \in paths /\ place(ranked[place(t)]) = place(t)
      BY <1>4, <2>1
    <2>3. /\ ~Preferred(t, ranked[place(t)], envelope, context)
          /\ ~Preferred(ranked[place(t)], t, envelope, context)
      BY <1>1, <2>1, <2>2
    <2> QED
      BY <2>2, <2>3, PreferredIsOrder
  <1>6. Range(ranked) = paths
    BY <1>1, <1>3, <1>4, <1>5 DEF Range
  <1>7. \A m, n \in DOMAIN ranked :
            m < n <=> Preferred(ranked[m], ranked[n], envelope, context)
    BY <1>1, <1>3, <1>4
  <1> QED
    BY <1>6, <1>7 DEF ranked

LEMMA BaseScores ==
    /\ BaseScore("internet-direct") = 100 /\ BaseScore("relay-primary") = 85
    /\ BaseScore("relay-secondary") = 70 /\ BaseScore("nearby-mesh") = 60
    /\ BaseScore("sms-control") = 20
  BY DEF BaseScore

ScoresAre(envelope, context) ==
    LET severe == context.censorshipProfile = "severe"
        offline == context.internet = "no"
        urgent == envelope.priority = "urgent"
        score(t) == scoreTransport(t, envelope, context)
    IN /\ score("internet-direct") = IF offline THEN -1 ELSE IF severe THEN 70 ELSE 100
       /\ score("relay-primary") =
              85 + (IF severe THEN 10 ELSE 0) - (IF offline THEN 20 ELSE 0)
       /\ score("relay-secondary") =
              70 + (IF severe THEN 10 ELSE 0) - (IF offline THEN 20 ELSE 0)
       /\ context.nearbyPeers = TRUE => score("nearby-mesh") = 80 + (IF urgent THEN 10 ELSE 0)
       /\ score("sms-control") = 20 + (IF urgent THEN 30 ELSE 0)

LEMMA Scores ==
    ASSUME NEW envelope, NEW context
    PROVE  ScoresAre(envelope, context)
  BY BaseScores DEF ScoresAre, scoreTransport, If, Relays

\* Which of two paths that can be used the scores put first.
LEMMA OrderOfCandidates ==
    ASSUME NEW envelope, NEW context \in Contexts,
           NEW s \in Candidates(envelope, context), NEW t \in Candidates(envelope, context),
           Position(t) < Position(s)
    PROVE  Preferred(s, t, envelope, context) <=> Overtakes(s, t, envelope, context)
  <1>1. /\ s = "internet-direct" \/ t = "internet-direct" => context.internet = "yes"
        /\ s = "nearby-mesh" \/ t = "nearby-mesh" => context.nearbyPeers = TRUE
        /\ s \in Transport /\ t \in Transport
    BY DEF Candidates, Contexts
  <1>2. Preferred(s, t, envelope, context) <=>
            scoreTransport(s, envelope, context) > scoreTransport(t, envelope, context)
    BY <1>1, Positions, ScoreType DEF Preferred
  <1> QED
    <2> DEFINE severe == context.censorshipProfile = "severe"
               offline == context.internet = "no"
               urgent == envelope.priority = "urgent"
               score(p) == scoreTransport(p, envelope, context)
    <2>1. Overtakes(s, t, envelope, context) <=>
              \/ t = "internet-direct" /\ severe /\ s # "sms-control"
              \/ s = "nearby-mesh" /\ t = "relay-secondary" /\ (offline \/ urgent \/ ~severe)
              \/ s = "nearby-mesh" /\ t = "relay-primary" /\ (offline \/ (urgent /\ ~severe))
      BY DEF Overtakes
    <2>2. /\ score("internet-direct") = IF offline THEN -1 ELSE IF severe THEN 70 ELSE 100
          /\ score("relay-primary") =
                 85 + (IF severe THEN 10 ELSE 0) - (IF offline THEN 20 ELSE 0)
          /\ score("relay-secondary") =
                 70 + (IF severe THEN 10 ELSE 0) - (IF offline THEN 20 ELSE 0)
          /\ context.nearbyPeers = TRUE => score("nearby-mesh") = 80 + (IF urgent THEN 10 ELSE 0)
          /\ score("sms-control") = 20 + (IF urgent THEN 30 ELSE 0)
      <3>1. ScoresAre(envelope, context)
        BY Scores
      <3> QED
        BY <3>1 DEF ScoresAre
    <2>3. /\ s = "internet-direct" \/ t = "internet-direct" => ~offline
          /\ s = "nearby-mesh" \/ t = "nearby-mesh" => context.nearbyPeers = TRUE
      BY <1>1
    <2>4. Preferred(s, t, envelope, context) <=> score(s) > score(t)
      BY <1>2
    <2> HIDE DEF severe, offline, urgent, score
    <2>5. CASE t = "internet-direct"
      BY <1>1, <2>1, <2>2, <2>3, <2>4, <2>5, Positions
    <2>6. CASE t = "relay-primary"
      BY <1>1, <2>1, <2>2, <2>3, <2>4, <2>6, Positions
    <2>7. CASE t = "relay-secondary"
      BY <1>1, <2>1, <2>2, <2>3, <2>4, <2>7, Positions
    <2>8. CASE t = "nearby-mesh"
      BY <1>1, <2>1, <2>2, <2>3, <2>4, <2>8, Positions
    <2>9. CASE t = "sms-control"
      BY <1>1, <2>9, Positions
    <2> QED
      BY <1>1, <2>5, <2>6, <2>7, <2>8, <2>9, Positions

\* In every context, and for every envelope, the ranking (rankDeliveryPaths) has
\* all usable paths in the documented order but for the named cases.
THEOREM RankingIsAsDocumented ==
    ASSUME NEW envelope, NEW context \in Contexts
    PROVE  RanksAsDocumented(envelope, context)
  <1> DEFINE paths == Candidates(envelope, context)
             ranked == rankDeliveryPaths(envelope, context)
  <1>1. paths \subseteq Transport
    BY DEF Candidates
  <1>2. ASSUME NEW t \in paths
        PROVE  scoreTransport(t, envelope, context) >= 0
    <2>1. /\ t = "internet-direct" => context.internet = "yes"
          /\ t = "nearby-mesh" => context.nearbyPeers = TRUE
          /\ t \in Transport
      BY DEF Candidates, Contexts
    <2> DEFINE severe == context.censorshipProfile = "severe"
               offline == context.internet = "no"
               urgent == envelope.priority = "urgent"
               score(p) == scoreTransport(p, envelope, context)
    <2>2. /\ score("internet-direct") = IF offline THEN -1 ELSE IF severe THEN 70 ELSE 100
          /\ score("relay-primary") =
                 85 + (IF severe THEN 10 ELSE 0) - (IF offline THEN 20 ELSE 0)
          /\ score("relay-secondary") =
                 70 + (IF severe THEN 10 ELSE 0) - (IF offline THEN 20 ELSE 0)
          /\ context.nearbyPeers = TRUE => score("nearby-mesh") = 80 + (IF urgent THEN 10 ELSE 0)
          /\ score("sms-control") = 20 + (IF urgent THEN 30 ELSE 0)
      <3>1. ScoresAre(envelope, context)
        BY Scores
      <3> QED
        BY <3>1 DEF ScoresAre
    <2>3. t = "internet-direct" => ~offline
      BY <2>1
    <2> HIDE DEF severe, offline, urgent, score
    <2>4. score(t) >= 0
      BY <2>1, <2>2, <2>3, Positions
    <2> QED
      BY <2>4 DEF score
  <1>3. ranked = BestFirst(paths, envelope, context)
    <2>1. {t \in paths : scoreTransport(t, envelope, context) >= 0} = paths
      BY <1>2
    <2> QED
      BY <2>1 DEF rankDeliveryPaths
  <1> HIDE DEF paths, ranked
  <1>4. /\ Range(ranked) = paths
        /\ \A m, n \in DOMAIN ranked :
               m < n <=> Preferred(ranked[m], ranked[n], envelope, context)
    BY <1>1, <1>3, ListedBestFirst
  <1>5. \A m \in DOMAIN ranked : ranked[m] \in paths
    BY <1>4 DEF Range
  <1>6. \A m, n \in DOMAIN ranked :
            Position(ranked[n]) < Position(ranked[m]) =>
                (m < n <=> Overtakes(ranked[m], ranked[n], envelope, context))
    BY <1>4, <1>5, OrderOfCandidates DEF paths
  <1> QED
    BY <1>4, <1>6 DEF RanksAsDocumented, ranked, paths

----------------------------------------------------------------------------
(* Chunks *)

\* Dividing leaves less than the divisor.
LEMMA Division ==
    ASSUME NEW a \in Nat, NEW c \in Nat \ {0}
    PROVE  /\ a \div c \in Nat
           /\ c * (a \div c) <= a
           /\ a < c * (a \div c) + c
  OBVIOUS

LEMMA ProductGrows ==
    ASSUME NEW m \in Nat, NEW n \in Nat, NEW c \in Nat, m < n
    PROVE  m * c + c <= n * c
  <1>1. (n - m) * c >= c
    OBVIOUS
  <1> QED
    BY <1>1

\* Chunks tile a medium of any size, whatever the size of a chunk
\* (buildMediaManifest).
THEOREM ChunksTile ==
    ASSUME NEW size \in Nat \ {0}, NEW chunkSize \in Nat \ {0}
    PROVE  Tiles(size, chunkSize)
  <1> DEFINE count == chunkCount(size, chunkSize)
             chunks == buildMediaManifest(size, chunkSize)
             Holds(c, byte) == c.offset <= byte /\ byte < c.offset + c.sizeBytes
  <1>1. /\ count \in Nat
        /\ count * chunkSize <= size + chunkSize - 1
        /\ size <= count * chunkSize
    <2>1. size + chunkSize - 1 \in Nat
      OBVIOUS
    <2>2. /\ count \in Nat
          /\ chunkSize * count <= size + chunkSize - 1
          /\ size + chunkSize - 1 < chunkSize * count + chunkSize
      BY <2>1, Division DEF chunkCount
    <2> HIDE DEF count
    <2>3. chunkSize * count = count * chunkSize /\ count * chunkSize \in Nat
      BY <2>2
    <2> QED
      BY <2>2, <2>3
  <1>2. DOMAIN chunks = 0 .. count - 1
    BY DEF buildMediaManifest
  <1> HIDE DEF count
  <1>3. ASSUME NEW n \in DOMAIN chunks
        PROVE  /\ n \in Nat /\ n * chunkSize \in Nat /\ n * chunkSize < size
               /\ chunks[n].offset = n * chunkSize
               /\ chunks[n].sizeBytes = MinOf(chunkSize, size - n * chunkSize)
    <2>1. n \in Nat /\ n < count
      BY <1>1, <1>2
    <2>2. n * chunkSize + chunkSize <= count * chunkSize
      BY <1>1, <2>1, ProductGrows
    <2>3. chunks[n] = Chunk(size, chunkSize, n)
      BY DEF buildMediaManifest, count
    <2>4. n * chunkSize \in Nat /\ count * chunkSize \in Nat
      BY <1>1, <2>1
    <2> HIDE DEF chunks
    <2> QED
      BY <1>1, <2>1, <2>2, <2>3, <2>4 DEF Chunk
  <1> HIDE DEF chunks
  <1>4. ASSUME NEW n \in DOMAIN chunks
        PROVE  /\ chunks[n].sizeBytes \in 1 .. chunkSize
               /\ chunks[n].offset + chunks[n].sizeBytes <= size
    <2> DEFINE start == n * chunkSize
    <2>1. start \in Nat /\ start < size
      BY <1>3
    <2>2. chunks[n].offset = start /\ chunks[n].sizeBytes = MinOf(chunkSize, size - start)
      BY <1>3
    <2> HIDE DEF start
    <2> QED
      BY <2>1, <2>2 DEF MinOf
  <1>5. ASSUME NEW byte \in 0 .. size - 1
        PROVE  \E n \in DOMAIN chunks :
                   /\ Holds(chunks[n], byte)
                   /\ \A m \in DOMAIN chunks : Holds(chunks[m], byte) => m = n
    <2> DEFINE at == byte \div chunkSize
    <2>1. at \in Nat /\ at * chunkSize <= byte /\ byte < at * chunkSize + chunkSize
      <3>1. /\ at \in Nat /\ chunkSize * at <= byte /\ byte < chunkSize * at + chunkSize
        BY Division
      <3> HIDE DEF at
      <3>2. chunkSize * at = at * chunkSize
        BY <3>1
      <3> QED
        BY <3>1, <3>2
    <2> HIDE DEF at
    <2>2. at \in DOMAIN chunks
      <3>1. CASE at < count
        BY <1>1, <1>2, <2>1, <3>1
      <3>2. CASE at >= count
        <4>1. count * chunkSize <= at * chunkSize
          <5>1. CASE at = count
            BY <1>1, <5>1
          <5>2. CASE count < at
            <6>1. count * chunkSize + chunkSize <= at * chunkSize
              BY <1>1, <2>1, <5>2, ProductGrows
            <6>2. count * chunkSize \in Nat /\ at * chunkSize \in Nat
              BY <1>1, <2>1
            <6> QED
              BY <6>1, <6>2
          <5> QED
            BY <1>1, <2>1, <3>2, <5>1, <5>2
        <4>2. count * chunkSize \in Nat /\ at * chunkSize \in Nat
          BY <1>1, <2>1
        <4> QED
          BY <1>1, <2>1, <4>1, <4>2
      <3> QED
        BY <1>1, <2>1, <3>1, <3>2
    <2>3. Holds(chunks[at], byte)
      <3> DEFINE start == at * chunkSize
      <3>1. /\ start \in Nat /\ start < size /\ start <= byte /\ byte < start + chunkSize
            /\ chunks[at].offset = start
            /\ chunks[at].sizeBytes = MinOf(chunkSize, size - start)
        BY <1>3, <2>1, <2>2
      <3> HIDE DEF start
      <3> QED
        BY <3>1 DEF MinOf
    <2>4. ASSUME NEW m \in DOMAIN chunks, Holds(chunks[m], byte)
          PROVE  m = at
      <3>1. /\ m \in Nat /\ m * chunkSize \in Nat /\ at * chunkSize \in Nat
            /\ m * chunkSize <= byte /\ byte < m * chunkSize + chunkSize
        <4> DEFINE start == m * chunkSize
        <4>1. /\ m \in Nat /\ start \in Nat /\ start < size
              /\ chunks[m].offset = start
              /\ chunks[m].sizeBytes = MinOf(chunkSize, size - start)
          BY <1>3
        <4>2. at * chunkSize \in Nat
          BY <2>1
        <4> HIDE DEF start
        <4>3. start <= byte /\ byte < start + chunkSize
          BY <2>4, <4>1 DEF MinOf
        <4> QED
          BY <4>1, <4>2, <4>3 DEF start
      <3>2. ~(m < at)
        <4> SUFFICES ASSUME m < at PROVE FALSE
          OBVIOUS
        <4>1. m * chunkSize + chunkSize <= at * chunkSize
          BY <2>1, <3>1, ProductGrows
        <4> QED
          BY <2>1, <3>1, <4>1
      <3>3. ~(at < m)
        <4> SUFFICES ASSUME at < m PROVE FALSE
          OBVIOUS
        <4>1. at * chunkSize + chunkSize <= m * chunkSize
          BY <2>1, <3>1, ProductGrows
        <4> QED
          BY <2>1, <3>1, <4>1
      <3> QED
        BY <2>1, <3>1, <3>2, <3>3
    <2> QED
      BY <2>2, <2>3, <2>4
  <1> QED
    BY <1>4, <1>5 DEF Tiles, chunks

----------------------------------------------------------------------------
(* The theorems *)

IInv == LogInv /\ input \in Inputs

\* Everything the log's theorems rest on is inductive, and a function's input
\* stays what it was.
THEOREM Invariance == Spec => []IInv
  <1>1. Init => IInv
    BY LogInitGood DEF Init, IInv
  <1>2. IInv /\ [Next]_vars => IInv'
    <2>1. ASSUME IInv, Next
          PROVE  IInv'
      BY <2>1, LogStepKeeps DEF IInv, Next
    <2>2. ASSUME IInv, UNCHANGED vars
          PROVE  IInv'
      BY <2>2 DEF IInv, LogInv, vars
    <2> QED
      BY <2>1, <2>2
  <1> QED
    BY <1>1, <1>2, PTL DEF Spec

\* A valid log with the root hash a reader noted, where its copy ended, is the
\* copy up to there (verifyTransparencyLog), after any number of changes.
THEOREM RootCommitsToLogAlways == Spec => []RootCommitsToLog
  <1>1. IInv => RootCommitsToLog
    BY RootCommits DEF IInv, LogInv, RootCommitsToLog
  <1> QED
    BY <1>1, Invariance, PTL

\* What only the server appended to is found valid, and one change that an
\* entry follows is not (createTransparencyEntry, verifyTransparencyLog).
THEOREM ChangesAreNoticedAlways == Spec => []ChangesAreNoticed
  <1>1. IInv => ChangesAreNoticed
    BY DEF IInv, LogInv, ChangesAreNoticed
  <1> QED
    BY <1>1, Invariance, PTL

\* The two sides of every handshake, classical and combined, agree exactly
\* when they mean each other's keys.
THEOREM HandshakeAgreesAlways == Spec => []HandshakeAgrees
  <1>1. ASSUME NEW i \in Initiators, NEW r \in Responders
        PROVE  X3dhAgrees(i, r) /\ PqxdhAgrees(i, r)
    <2> DEFINE Identity == {"ia", "ib1", "ib2", "ic"}
               Ephemeral == {"ea", "ec"}
               SignedPreKey == {"sb1", "sb2"}
               OneTimePreKey == {"ob1", "ob2"}
    <2>1. /\ Identity \cap Ephemeral = {} /\ Identity \cap SignedPreKey = {}
          /\ Ephemeral \cap SignedPreKey = {} /\ Ephemeral \cap OneTimePreKey = {}
          /\ NoKey \notin OneTimePreKey
      BY DEF NoKey
    <2>2. /\ i.identity \in Identity /\ r.identity \in Identity
          /\ i.theirIdentity \in Identity /\ r.theirIdentity \in Identity
          /\ i.ephemeral \in Ephemeral /\ r.theirEphemeral \in Ephemeral
          /\ i.theirSignedPreKey \in SignedPreKey /\ r.signedPreKey \in SignedPreKey
          /\ i.theirOneTimePreKey \in OneTimePreKey \union {NoKey}
          /\ r.oneTimePreKey \in OneTimePreKey \union {NoKey}
      BY DEF Initiators, Responders
    <2> HIDE DEF Identity, Ephemeral, SignedPreKey, OneTimePreKey
    <2>3. X3dhAgrees(i, r)
      BY <2>1, <2>2, X3dhAgreement
    <2>4. /\ i.provider = [name |-> i.provider.name, usable |-> i.provider.usable]
          /\ r.provider = [name |-> r.provider.name, usable |-> r.provider.usable]
          /\ i.provider.usable \in BOOLEAN /\ r.provider.usable \in BOOLEAN
      <3> DEFINE Provider == [name : {"kem1", "kem2"}, usable : BOOLEAN]
      <3>0. /\ [name |-> "kem1", usable |-> TRUE] \in Provider
            /\ [name |-> "kem2", usable |-> TRUE] \in Provider
            /\ [name |-> "kem1", usable |-> FALSE] \in Provider
        OBVIOUS
      <3>1. i.provider \in Provider /\ r.provider \in Provider
        <4> HIDE DEF Provider
        <4> QED
          BY <3>0 DEF Initiators, Responders
      <3>2. ASSUME NEW p \in Provider
            PROVE  p = [name |-> p.name, usable |-> p.usable] /\ p.usable \in BOOLEAN
        OBVIOUS
      <3> HIDE DEF Provider
      <3> QED
        BY <3>1, <3>2
    <2> QED
      BY <2>3, <2>4, PqxdhAgreement
  <1>2. IInv => HandshakeAgrees
    <2> SUFFICES ASSUME input \in Inputs, input.for = "handshake"
                 PROVE  /\ X3dhAgrees(input.initiator, input.responder)
                        /\ PqxdhAgrees(input.initiator, input.responder)
      BY DEF IInv, HandshakeAgrees
    <2>1. input.initiator \in Initiators /\ input.responder \in Responders
      BY DEF Inputs
    <2> QED
      BY <1>1, <2>1
  <1> QED
    BY <1>2, Invariance, PTL

\* Every ranking is the documented order but for the named cases, and gives up
\* no path.
THEOREM PathsAreOrderedAlways == Spec => []PathsAreOrdered
  <1>1. IInv => PathsAreOrdered
    <2> SUFFICES ASSUME input \in Inputs, input.for = "policy"
                 PROVE  RanksAsDocumented(input.envelope, input.context)
      BY DEF IInv, PathsAreOrdered
    <2>1. input.context \in Contexts
      BY DEF Inputs
    <2> QED
      BY <2>1, RankingIsAsDocumented
  <1> QED
    BY <1>1, Invariance, PTL

\* The chunks of every medium cover it, each byte once.
THEOREM ChunksTileMediaAlways == Spec => []ChunksTileMedia
  <1>1. IInv => ChunksTileMedia
    <2> SUFFICES ASSUME input \in Inputs, input.for = "media"
                 PROVE  Tiles(input.size, input.chunkSize)
      BY DEF IInv, ChunksTileMedia
    <2>1. input.size \in 1 .. MaxSize /\ input.chunkSize \in 1 .. MaxSize + 1
      BY DEF Inputs
    <2>2. input.size \in Nat \ {0} /\ input.chunkSize \in Nat \ {0}
      BY <2>1
    <2> QED
      BY <2>2, ChunksTile
  <1> QED
    BY <1>1, Invariance, PTL
=============================================================================

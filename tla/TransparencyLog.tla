-------------------------- MODULE TransparencyLog --------------------------
(***************************************************************************)
(* The transparency log: createTransparencyEntry and                       *)
(* verifyTransparencyLog (src/server/transparency.js), a log the server    *)
(* appends to (src/server/state-store.js) and readers fetch.               *)
(*                                                                         *)
(* A hash is symbolic: two contents have one hash only if they are equal.  *)
(* What is between the server and a reader, the state file above all, may  *)
(* change: an entry is rewritten, removed, repeated or moved, and whoever  *)
(* does it may compute the entry's hash anew.                              *)
(***************************************************************************)
EXTENDS Naturals, SequencesExt

CONSTANTS
    What,       \* what an entry tells: type, account, device, payload, time
    MaxLength,  \* bound: entries appended
    MaxEdits    \* bound: changes made to the log from outside

ASSUME LogAssumption == MaxLength \in Nat /\ MaxEdits \in Nat

VARIABLES
    log,        \* state.transparency.entries
    noted,      \* the log as a reader fetched and verified it
    edits,      \* changes made from outside
    behind      \* history: entries that follow the place of the last change

logVars == <<log, noted, edits, behind>>

----------------------------------------------------------------------------

TRANSPARENCY_PROFILE == "RMP-KEY-TRANSPARENCY-V1"
NoHash == <<"null">>
sha256(content) == <<"sha256", content>>

\* Mutant: the link to the previous entry is not hashed.
HashWithoutLink(entry) ==
    sha256([profile |-> entry.profile, index |-> entry.index, what |-> entry.what,
            previousHash |-> NoHash])

computeTransparencyEntryHash(entry) ==
    sha256([profile |-> entry.profile, index |-> entry.index, what |-> entry.what,
            previousHash |-> entry.previousHash])

Rehashed(entry) == [entry EXCEPT !.entryHash = computeTransparencyEntryHash(entry)]

\* The hash of the last entry.
RootHash(entries) == IF entries = << >> THEN NoHash ELSE Last(entries).entryHash

createTransparencyEntry(entries, what) ==
    Rehashed([profile |-> TRANSPARENCY_PROFILE, index |-> Len(entries), what |-> what,
              previousHash |-> RootHash(entries), entryHash |-> NoHash])

\* Mutant: the entries are not compared with the ones before them.
verifyEachEntry(entries) ==
    \A i \in DOMAIN entries :
        /\ entries[i].profile = TRANSPARENCY_PROFILE
        /\ entries[i].index = i - 1
        /\ entries[i].entryHash = computeTransparencyEntryHash(entries[i])

\* Whether the log is found valid; entries are numbered from 0.
verifyTransparencyLog(entries) ==
    \A i \in DOMAIN entries :
        /\ entries[i].profile = TRANSPARENCY_PROFILE
        /\ entries[i].index = i - 1
        /\ entries[i].previousHash = RootHash(SubSeq(entries, 1, i - 1))
        /\ entries[i].entryHash = computeTransparencyEntryHash(entries[i])

----------------------------------------------------------------------------

LogInit == log = << >> /\ noted = << >> /\ edits = 0 /\ behind = 0

\* appendTransparencyEntry
AppendEntry(what) ==
    /\ Len(log) < MaxLength
    /\ log' = Append(log, createTransparencyEntry(log, what))
    /\ UNCHANGED <<noted, edits, behind>>

\* fetchTransparencyLog, by a reader who keeps what it is answered.
Note ==
    /\ edits = 0
    /\ verifyTransparencyLog(log)
    /\ noted' = log
    /\ UNCHANGED <<log, edits, behind>>

\* The file changes; so many entries after the change stay as they are.
EditedTo(entries, following) ==
    /\ edits < MaxEdits
    /\ entries # log
    /\ log' = entries
    /\ edits' = edits + 1
    /\ behind' = following
    /\ UNCHANGED noted

\* An entry tells something else or has another link; its hash is what it was
\* or is computed anew.
RewriteEntry(i) ==
    \E what \in What, link \in {NoHash} \union {log[j].entryHash : j \in DOMAIN log} :
        LET entry == [log[i] EXCEPT !.what = what, !.previousHash = link] IN
        \E e \in {entry, Rehashed(entry)} :
            EditedTo(ReplaceAt(log, i, e), Len(log) - i)

RemoveEntry(i) == EditedTo(RemoveAt(log, i), Len(log) - i)

RepeatEntry(i) == EditedTo(InsertAt(log, i, log[i]), Len(log) - i + 1)

SwapEntries(i) ==
    /\ i < Len(log)
    /\ EditedTo([log EXCEPT ![i] = log[i + 1], ![i + 1] = log[i]], Len(log) - i)

LogNext ==
    \/ \E what \in What : AppendEntry(what)
    \/ Note
    \/ \E i \in DOMAIN log : RewriteEntry(i) \/ RemoveEntry(i) \/ RepeatEntry(i) \/ SwapEntries(i)

----------------------------------------------------------------------------
(* Properties *)

\* One root hash, one log: a log that is found valid and has, where a reader's
\* copy ended, the root hash of that copy, is that copy up to there, whatever
\* was done to it and however many hashes were computed anew.
RootCommitsToLog ==
    LET n == Len(noted) IN
    /\ verifyTransparencyLog(log)
    /\ n \in DOMAIN log
    /\ log[n].entryHash = RootHash(noted)
    => SubSeq(log, 1, n) = noted

\* docs/crypto-roadmap.md:33, "tampering with the transparency log is
\* detectable by hash-chain verification", as far as a reader without a copy
\* can tell: a log that only the server changed is found valid, and a single
\* change is noticed if an entry follows it.  (One at the end is not: nothing
\* says how long the log was.)
ChangesAreNoticed ==
    /\ edits = 0 => verifyTransparencyLog(log)
    /\ edits = 1 /\ behind > 0 => ~verifyTransparencyLog(log)
=============================================================================

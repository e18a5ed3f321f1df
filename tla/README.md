# A TLA+ model of the Resilient Messenger Protocol

This directory models the parts of the repository that keep state and talk to
each other, and its pure algorithms. TLC checks the models on small instances;
TLAPS proves all their invariants and action properties, and both refinements,
for every value of the constants. Paths below are relative to the repository.

## 1. The system

A relay server (`src/server`) keeps one JSON document: a directory of accounts
and devices, a queue of envelopes for each device, and a transparency log. A
client (`src/client`, driven by `src/cli.js`) keeps one JSON file for each
device: its keys, a ratchet session for each remote device, and its events.
Clients call the server over HTTP and never each other.

| Component | State | Operations | What makes it correct |
|---|---|---|---|
| Account directory, `server/state-store.js` | `accounts`, `phoneIndex`, `inviteRequests`, devices and their prekeys | bootstrap, register device, create invite, complete registration (new account or reset), revoke, claim prekey | phone and account are one-to-one; accounts form a tree of invitations; at most one live invite per phone; passwords change only by a QR of the inviter; revocation is final; a prekey is handed out once |
| Enrollment, `cli.js`, `client/state.js`, `workflow.js`, `recovery.js` | the account and device part of a state file, bundles | init, link device, bootstrap, register, create and complete an invite, revoke, export, restore | the devices, phone and inviter a file names are the directory's; a device is in one account |
| Relay queues, `state-store.js`, `storage.js` | `queues` | enqueue, pull, ack, expiry | an item leaves only by ack, expiry or revocation; acked items stay gone; a pull answers exactly what waits |
| State file of the server, `state-store.js`, `create-server.js` | the file, writes under way | init, persist | what was answered survives a restart; a restart sees a past state or fails |
| Transparency log, `transparency.js` | `entries` | append, verify | a root hash commits to the log; changes are noticed |
| Ratchet, `client/ratchet.js` | root key, chains, own and remote ratchet keys, skipped keys | create session, seal, open | messages open, each under its own key, once |
| Send and sync, `client/workflow.js`, `client/state.js`, `cli.js` | sessions, outbound records, inbound events | send (lookup, claim, seal, enqueue, save), sync (pull, open, receipt, ack, save) | what is sent is received, receipts tell the truth, what is acknowledged was read |
| Handshakes, `client/x3dh.js`, `pqxdh.js` | none | initiate, respond | both sides derive one secret, or different ones if they mean different keys |
| Transport policy, `policy.js` | none | score, collect candidates, rank | no usable path is lost, the order is the documented one |
| Media manifests, `storage.js` | none | cut media into chunks | each byte in one chunk |
| Envelopes, passwords, fingerprints, HTTP, command line | none | validation, hashing, formatting | shape checks |

The server runs in one Node process. A handler runs until its first `await`;
nearly all of them change the state before it and then only wait for the file to
be written, so that their effect on memory is atomic. `pullQueue` is not: it
holds an array across the wait. Writing the file is not atomic either, and
nothing keeps the writes of two handlers apart. A client command loads the state
file, works on a copy, calls the server in between and saves the copy at the
end; so the relay learns of things the device may forget, and two commands on
one file save over each other. These facts make most of the hard behaviour:
interleavings around the pull, overlapping writes, deaths of a command between a
call and the save, refusals in the middle of a fan-out, messages that overtake a
turn of the ratchet, devices that write first at the same time, devices restored
without their sessions. `PROJECT.json` lists each hazard at its line with the
properties that watch it.

## 2. Modules

| Module | Models | Notes |
|---|---|---|
| `Directory` | the directory handlers | one action per handler; a completed registration is split by its branches, and the reset that fails half-way is an action of its own |
| `Enrollment` | the commands that bring devices into the directory | extends `Directory`: a command's call is that module's action |
| `Mailbox` | what the relay promises about an inbox | abstract |
| `RelayQueues` | `enqueueEnvelope`, `pullQueue`, `ackEnvelope` | the pull is two actions; a waiting pull either shares the array in the state or holds one that was replaced; implements `Mailbox` |
| `StorePersistence` | `init`, `persist`, handlers that wait for it, deaths, restarts | a write is open (truncate), chunks, return; the text is taken at the call; the file is made of units that know their text, so chunks of overlapping writes can mix |
| `Ratchet` | `ratchet.js` as operators on session records | keys are symbolic |
| `SecureChannel` | what the ratchet promises its two ends | abstract |
| `RatchetPair` | two devices that seal and open with `Ratchet` | any order, repetition and loss; implements `SecureChannel` |
| `Delivery` | `sendTextMessage`, `syncInboxWithApi`, as commands | uses `Ratchet`; each relay call is a step; several processes share a state file |
| `TransparencyLog` | `createTransparencyEntry`, `verifyTransparencyLog` | the log may be changed from outside |
| `Handshake` | both roles of X3DH and PQXDH | operators |
| `TransportPolicy` | `rankDeliveryPaths`, `choosePrimaryPath` | operators, with the documented order as reference |
| `MediaManifest` | `buildMediaManifest` | operators |
| `MCDirectory`, `MCEnrollment`, `MCRelayQueues`, `MCRatchetPair`, `MCDelivery`, `MCStorePersistence`, `MCFunctions` | | values and symmetry for TLC; `MCFunctions` drives the log and gives the pure functions their inputs |
| `DirectoryProofs`, `DirectoryStepProofs`, `EnrollmentProofs`, `RelayQueuesProofs`, `RatchetPairProofs`, `StorePersistenceProofs`, `DeliveryProofs`, `FunctionsProofs` | | theorems |

Correspondence. A table of the code (a JavaScript object) is a function whose
domain is the set of present keys. A timestamp in `Directory` is the position of
the log entry that the same handler appends. In `Enrollment`, `local[s]` is the
file in state directory `s`, and `answer[s]` what a running command is about to
save there; of a file's directory cache it keeps the devices listed in the record
of the file's own account. In `RelayQueues` an array is a set of items numbered in the order
they came in. In `StorePersistence` a state is the set of requests whose changes
it has, and `file` says of each unit (character) which state's text it is of. What
is left of a longer text behind a shorter one does not parse, unless it is white
space; a mixture of texts may parse (`Mixed`, `LoadsAs`), where their parts have
the same length up to the seam, and has then some of the changes of each. In `Ratchet` a key is the record of what it
is derived from, so two keys are equal exactly when their inputs are, and a
ciphertext opens under the key it was sealed with and no other; `TransparencyLog`
and `Handshake` treat hashes and secrets the same way. In `Delivery` `disk` is
the saved file, `command[p].work` the copy process `p` works on, `targets` or
`todo` what is left of its loop. `PROJECT.json` maps every definition to its
lines.

Operators whose comment begins with "Mutant:" are bugs on purpose: each is a
variant of the definition below it, and some property fails when it takes that
definition's place.

## 3. What is checked

Passing runs:

| cfg | Question | Bounds, and why they are enough |
|---|---|---|
| `MCDirectoryInvites` | do invites, phones and accounts stay consistent in any order of creation, replacement, expiry and completion? | three accounts and phones (a chain and a star of invitations), four invites (two for one phone beside one for each other) |
| `MCDirectoryDevices` | log, prekeys, passwords and revocation | two accounts with two device ids, two prekeys, two passwords, four log entries: register, revoke, try again, reset |
| `MCEnrollment` | do state files and directory agree when answers are lost, saves torn, directories linked, bundles restored? | two directories and one bundle (two files with one device), three devices and two accounts to draw, one failure, two invites (an account and a reset), three log entries (the owner's device, one more device or account, a reset) |
| `MCRelayQueues` | do queues stay exact while pulls wait? does the relay implement `Mailbox`? | two inboxes, two pulls at once, three items, an envelope enqueued twice, items before, at and after expiry |
| `MCStorePersistence` | what does a restart find? | three requests (a second overlap needs the third), texts of one and of two chunks, some as long as others, some longer or shorter by one unit or by more, two deaths (the second after a restart, each perhaps inside a chunk), one failed write |
| `MCRatchetPair` | why is a message refused; are keys used once, replays refused, skipped keys owed? does the pair implement `SecureChannel`? | four and three messages, both may start; `MaxSkip` 1: gaps below, at and above it; two turns each way |
| `MCDeliveryInterrupted` | do texts arrive and do receipts come back when commands die anywhere? | three texts to one device, two deaths of the sender's sends or the receiver's syncs |
| `MCDeliveryFailures` | what do receipts and acknowledgements mean when anything fails? | two commands at once on the sender's file, two texts to an account with two devices, one of them revocable; a send dies, a save is torn or the receiver restores |
| `MCFunctions` | does a root hash commit to its log; do handshakes agree; are paths and chunks right? | logs of four entries changed twice; every input of each function in small sets, media up to 12 bytes |

What is claimed of the code is what it does; where that is less than a document
asks, the property names the exception:

- `RefusedForAReason`: "delayed delivery and reordering"
  (`docs/protocol-v1.md:28`) is kept except for messages of a chain the receiver
  has turned away from, gaps above `MAX_SKIP`, and pairs that both wrote first.
- `SameKeyOnlyIfForgotten`: "one message key per outbound message"
  (`docs/crypto-roadmap.md:19`) is kept unless the sender forgot a message it had
  enqueued.
- `StuckOnlyIfEstranged`: a sync meets a message it cannot open only on a device
  estranged from the sender: the sender forgot a message it had enqueued, or the
  device has lost more acknowledged messages of this sender than `MAX_SKIP` (to
  syncs that died before the save, or to a restore), or it writes texts itself,
  so that both may have begun. It then throws at the same place each time.
- `HandedOutOncePerPublication`: registering again offers claimed prekeys again
  (`docs/protocol-v1.md:216`).
- `PullIsExact`: a pull that waits while its device is revoked is still answered
  (`docs/account-model.md:51`); the property says with what.
- `OneAccountUnlessReset`: only a reset brings a device into a second account.
- `ChangesAreNoticed`: a change to the log's end is not noticed by a reader
  without a copy (`docs/crypto-roadmap.md:33`); `RootCommitsToLog` says what one
  with a copy can tell.
- `RanksAsDocumented`: nearby peers may outrank relays that
  `docs/protocol-v1.md:143` puts before them; the cases are listed.
- `CausallyClosed`: `fs.writeFile` writes 512 KiB at a time, and chunks of two
  writes that overlap can leave a file that parses and was never a state of the
  server. The property says when: only while the last thing written is a part of
  a text by a write that was not alone, and from the moment such a file is loaded.
- `LocalAgreesWithDirectory`: `applyRegisteredAccount` copies `registeredAt` from
  the answer (`src/client/workflow.js:95`), which `publicDeviceSnapshot`
  (`src/server/state-store.js:56-69`) never puts into it. So no state file says that
  it is registered, and `register` prints nothing for it (`src/cli.js:123`). The
  model has no such field; no document says otherwise, so no run states it.
- `AnsweredIsOnFile`: holds while no writes overlap or fail and no death falls
  into one; otherwise `LoneWriteIsOnFile` and `CausallyClosed` are what is left.
- `LiveInviteMatchesPhone` takes it for granted that an account may create a reset
  invite for itself, which nobody can complete (`docs/account-model.md:28`).

Runs that show where the code does not do what the documents say (the findings
of `PROJECT.json` quote both):

| cfg | What TLC shows |
|---|---|
| `MCDeliverySyncWithoutEnqueue` | the `sync` command passes relay calls without `enqueueEnvelope`: it throws at its first message, each time |
| `MCDeliveryAckedIsKept` | a sync that dies before the save loses what it acknowledged |
| `MCDirectoryUsedInvitesAreLogged` | a failed reset keeps the new password and the used invite |

Refinements. `RelayQueues` implements `Mailbox` with `mail` the items of a queue
that have not expired: the waiting halves of pulls are stutters, and so is the
removal of expired items. `RatchetPair` implements `SecureChannel` with
`written` the number of sealed messages and `read` the texts that opening
returned: chains, turns and skipped keys vanish, and a text is read once.

`MaxSkip` stands for the 50 of the code; the comparison is the same. Counters
(log entries, messages, texts, deaths, the clock) are bounded by constants in
guards and named as bounds. `CHECK_DEADLOCK FALSE` stands in the runs whose
bounds let the system come to an end (no log entry, message, request or item
left, or one state that only holds an input); in `Delivery` a device can always
sync, and deadlock is checked.

Fairness. Only `Delivery` states any: a command that is running takes its next
step (`WF` of `Continue(p)`: Node runs the rest of the command once a call is
answered), and the owner of an idle device runs `sync` again (`WF` of
`SyncPull(p)`). Nothing is assumed of sends, deaths, restores or revocations.
The second is an assumption about people and not about code: without it nothing
is ever received.

## 4. What is proved

By TLAPS, for all values of the constants:

`DirectoryProofs`: `TypeCorrect`, `PhonesAreOwned`, `LiveInvitesAreAlone`,
`LiveInvitesAreCurrent`, `AccountsFormTree`, `InvitesMatchAccounts`. They follow
from one inductive invariant `IInv`, the conjunction of the type invariant and
of those properties. Alone they are not inductive: a completed invite keeps
phones one-to-one only because a live registration invite is for a phone nobody
has, which in turn needs that creating an invite replaces all live ones and that
phones, once owned, stay owned; the tree needs that sponsors of invites are in
the directory. The proof has one step lemma per handler.

`DirectoryStepProofs`: the action properties (`IdentityStays`,
`PasswordsNeedInviters`, `SpentInvitesStay`, `RevokedStays`) from `IInv`, and two
invariants on top of it. `LogIsComplete` is inductive once `IInv` is known.
`PreKeysHandedOutOnce` needs `ClaimsOfThePast`: claims were made no later than
now, so those of an earlier publication differ from any new one.

`EnrollmentProofs`, on top of both: `EnrollmentTypeCorrect`, `StatesAgree`
(`LocalAgreesWithDirectory`) and `DevicesHaveOneAccount`
(`OneAccountUnlessReset`). A command's effect on the directory is a step of the
directory (`DirectorySteps`), so its invariant holds here, too. A step changes
the kept states in one of four ways: it moves them around, it makes one with a
device never drawn before, it looks an account up, or it publishes the device of
one and adds the answer. What was agreed on stays agreed because accounts keep their
phone and inviter (`IdentityStep`) and devices are never removed. One account
for a device needs `DevicesDrawn` (a new device is new to everybody) and
`StatesMatch` (copies of a state name one account).

`RelayQueuesProofs`: `TypeCorrect`, `NoItemIsLost`, `NoItemComesBack`,
`PullsAreExact` from one `IInv`, and `RelayIsMailbox`, the refinement. The
strengthening says what a shared array is: a pull that shares the state's array
answers with the queue itself, so acknowledgements that replace the array leave
the pull its old one; ids tell items that came in since from those that waited.

`RatchetPairProofs`: `KeysAreUsedOnce`, `ReplaysAreRefused`,
`SkippedKeysAreMessages`, `RefusalsHaveReasons` (`RefusedForAReason`), and
`PairIsSecureChannel`, the refinement. The argument is an order: the root key
grows by a step at each turn and a chain by one at each message, so what a device
sealed lies behind its sending chain and what it opened behind its receiving
chain (`Before`, `Behind`). The two directions never meet because each step of a
root names its sender. `IInv` adds what a session is (`IsSession`) and that a
device's ratchet keys are its own; `Gapless` that a chain was sealed without
gaps, so that skipped keys are those of messages; `TextsMatch` that what was read
is what was opened. That a refusal has a reason relates the two sessions
(`InStep`): unless both devices started one, one of them took the last turn and
is exactly one turn `Ahead`, and the messages that are neither of the chain a
device receives on nor of the one its peer seals with are of chains it has passed
(`HasPassed`). `InOrder` says what was sealed and opened, chain by chain, and
which keys opening leaves behind; so a message of a chain at hand opens, has been
opened, or skips too much.

`StorePersistenceProofs`: `TypeCorrect`; `LoneWritesRepair` and
`AnswersAreDurable` from `Quiet`: who writes fits the phase of the server, a
write that is alone carries what is in memory and the file is as much of it as it
has written (`HasWritten`), and while nothing harmful has happened the file is
complete or a lone write is completing it. `RestartsSeePastStates`
(`CausallyClosed`) needs `Quiet` and two facts about the file: each of its units
is of a text that was once the state (`PastStates`), and a file that is not torn
begins with one text (`OneText`), so that only this text's state can be loaded
from it.

`DeliveryProofs`, from four invariants, each of which uses the ones before it:

- `AcksFollowReads` (`AckedWasRead`) from `IInv`: a sync acknowledges the item it
  stands at, so at that point of the loop the item was opened by that device or
  came from a revoked one (`ItemIsRead`).
- `DeliveredFollowsReads` (`DeliveredWasRead`) and
  `KeysAreUsedOnceUnlessForgotten` (`SameKeyOnlyIfForgotten`) from `BooksInv`:
  the sessions of any copy of a device's state are past every message that copy
  has a record of, so a key can only be used again by a copy that lacks the
  record; receipts are for messages that were read; texts and envelopes are
  unique.
- `StuckDevicesAreEstranged` (`StuckOnlyIfEstranged`) from `QueueInv` and
  `ChainInv`. `QueueInv`: a message is in its receiver's queue until it is
  acknowledged there or the receiver is revoked, a queue has the messages of one sender in the order of
  their seals, and what a sync has opened is not in front of it. `ChainInv`: to a
  device that wrote nothing, a sender that forgot nothing seals one chain without
  gaps in the order of the envelopes (`Writes`), from a root that every message
  carries the prekeys of (`Carries`); the receiver's session follows that chain
  and keeps the keys of what it skipped (`Follows`). A message that is refused is
  then more than `MAX_SKIP` beyond the receiver's place; each index in between is
  that of a message it acknowledged and has no event of; different indices are
  different messages, so more than `MAX_SKIP` were lost.

The last proof corrected the model: an earlier form of the property allowed only
for messages the sender forgot, which is true with the bounds of the runs, where
no more than `MAX_SKIP` messages can get lost, and false beyond them.

`FunctionsProofs`, about operators: for any two valid logs, `RootCommits`; for
any keys, `X3dhAgreement` and `PqxdhAgreement`; for any envelope and any
state of the transports, `RankingIsAsDocumented`; for any sizes, `ChunksTile`.
And with the state of `MCFunctions`, `RootCommitsToLogAlways`,
`ChangesAreNoticedAlways`, `HandshakeAgreesAlways`, `PathsAreOrderedAlways`,
`ChunksTileMediaAlways`, for logs of any length that are changed any number of
times. The log needs induction, which the proof does as a least counterexample:
a hash tells its contents, so at the last place where two valid logs of one root
hash differ, counted back from their ends, the next entry is the same and holds
one previous hash for both.

Assumptions: the named `ASSUME`s of the modules. The constants that count
(`MaxSkip` among them) are naturals; the null values are not among the values
they stand beside; a text of the server's state has a length of at least two (its brace and its newline);
`Alice` and `Bob` differ; the devices of an account are each listed once, as the
keys of an object are.

Only model-checked: `EventuallyDelivered`, for liveness under fairness and
`ENABLED` are out of the prover's reach, and that the three runs of the last
table in section 3 end in a violation. Every other property of a run is stated by
a theorem. Induction over data is possible only where it can be put as a smallest
number or a least counterexample; the definitions of `SelectSeq` and `SortSeq` in
the library cannot be reasoned about that way, so the models write the filter of
an array (`Filtered`, for what acknowledgements leave of a queue and for the
devices of an account that are not revoked) and the ranking of paths as functions.

## 5. What is not modelled, and why

- Cryptography below key derivation, signatures, encodings and ids: properties
  of libraries, or of formats. Recovery bundles and one-shot payload encryption
  give back what went in, or throw.
- Envelope validation, passwords and QR tokens: shape checks and comparisons;
  the models take equality of a password and possession of a token.
- Identity fingerprints and, but for the own account's record, the directory
  cache they compare with: nothing else reads them, and the keys under a device id
  do not change.
- `planReplication`: it concatenates its inputs.
- HTTP and the command line's parsing and printing; answers that are lost are
  modelled.
- A clock that goes back: `pullQueue` sorts by time, and `RelayQueues` assumes
  the sort keeps the order of arrival.
- `Delivery` reduces the relay to ordered queues without expiry; `RelayQueues`
  shows what the relay does to an item. An account that writes to itself is left
  out.
- `Enrollment` runs one calling command on a directory at a time, beside
  commands that do not call; two at once are in `Delivery`.

## 6. What is left

1. An abstract specification of the invitations (a tree that only grows at its
   leaves) implemented by `Directory`.
2. `Delivery` over relay queues that expire, in place of the reduced ones.
3. A sharper `StuckOnlyIfEstranged` for devices that write texts themselves: that
   case is proved for two devices without failures only (`RefusedForAReason`).

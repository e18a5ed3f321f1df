----------------------------- MODULE Enrollment -----------------------------
(***************************************************************************)
(* How devices come into the directory: the commands of src/cli.js that    *)
(* create a state directory, link a device, register, complete a QR        *)
(* invite, revoke, export and restore, with the directory they talk to.    *)
(*                                                                         *)
(* A command loads the state file, makes one call and saves what the       *)
(* answer makes of its copy (applyRegisteredAccount).  The call is one     *)
(* step with the loading (nothing but the call reads the directory, and    *)
(* the call does not read the file again); the saving is another, and may  *)
(* come never, if the answer is lost or the process dies, or leave a file  *)
(* that does not parse.  Meanwhile a command without a call may have       *)
(* replaced the file.                                                      *)
(*                                                                         *)
(* Sessions and events are in Delivery; here a state is what it says about *)
(* its account and device.                                                 *)
(***************************************************************************)
EXTENDS Directory

CONSTANTS
    Dir,          \* state directories
    NoPhone,      \* no phone in the local account
    MaxFailures,  \* bound: answers lost, deaths and torn saves
    MaxBundles    \* bound: recovery bundles exported

ASSUME EnrollmentAssumption ==
    NoPhone \notin Phone /\ MaxFailures \in Nat /\ MaxBundles \in Nat

VARIABLES
    local,      \* the state file of each directory
    answer,     \* what the command running on a directory is about to save
    bundles,    \* recovery bundles
    drawn,      \* ids that randomUUID has drawn
    failures,   \* answers lost, deaths and torn saves
    moved       \* history: devices a reset put into an account they did not name

clientVars == <<local, answer, bundles, drawn, failures, moved>>
allVars == <<vars, clientVars>>

----------------------------------------------------------------------------
(* Local states *)

\* listed: the devices in the record of the state's account in directoryCache.
\* device.registeredAt is left out: applyRegisteredAccount takes it from an
\* answer that does not have it (publicDeviceSnapshot), so no file ever has it.
LocalState == [account: Account, device: Device, phone: Phone \union {NoPhone},
               invitedBy: Account \union {NoAccount}, listed: SUBSET Device]

Absent == [file |-> "absent"]
Torn == [file |-> "torn"]
NoAnswer == [file |-> "none"]

Whole(s) == local[s] \notin {Absent, Torn}

NewState(a, d) ==
    [account |-> a, device |-> d, phone |-> NoPhone, invitedBy |-> NoAccount,
     listed |-> {}]

\* The devices publicAccountRecord lists for an account, after the call.
PublicDevices(a) == {d \in Device : <<a, d>> \in DOMAIN devices'}

\* Mutant: the local account id is kept.
AppliedAccountKept(state, a) ==
    [state EXCEPT !.phone = accounts'[a].phone, !.invitedBy = accounts'[a].invitedBy,
                  !.listed = PublicDevices(a)]

\* applyRegisteredAccount, with the account of the answer.
AppliedAccount(state, a) ==
    [state EXCEPT !.account = a, !.phone = accounts'[a].phone,
                  !.invitedBy = accounts'[a].invitedBy, !.listed = PublicDevices(a)]

Replace(s, state) == local' = [local EXCEPT ![s] = state]

----------------------------------------------------------------------------
(* Commands without a call *)

EnrollmentInit ==
    /\ Init
    /\ local = [s \in Dir |-> Absent]
    /\ answer = [s \in Dir |-> NoAnswer]
    /\ bundles = {}
    /\ drawn = {}
    /\ failures = 0
    /\ moved = {}

\* Mutant: a forced init keeps the device that is there.
InitStateSameDevice(s, a, d) ==
    /\ a \notin drawn
    /\ IF Whole(s) THEN Replace(s, NewState(a, local[s].device))
                   ELSE d \notin drawn /\ Replace(s, NewState(a, d))
    /\ drawn' = drawn \union {a, d}
    /\ UNCHANGED <<vars, answer, bundles, failures, moved>>

\* init; --force replaces what is there.
InitState(s, a, d) ==
    /\ a \notin drawn /\ d \notin drawn
    /\ drawn' = drawn \union {a, d}
    /\ Replace(s, NewState(a, d))
    /\ UNCHANGED <<vars, answer, bundles, failures, moved>>

\* link-device: the account and directory cache of the source, which with
\* --force may be the target, and a device of its own.
LinkDevice(s, t, d) ==
    /\ Whole(s)
    /\ d \notin drawn
    /\ drawn' = drawn \union {d}
    /\ Replace(t, [local[s] EXCEPT !.device = d])
    /\ UNCHANGED <<vars, answer, bundles, failures, moved>>

\* Mutant: a file that does not parse is exported, too.
RecoveryExportUnparsed(s) ==
    /\ local[s] # Absent
    /\ Cardinality(bundles) < MaxBundles
    /\ bundles' = bundles \union {local[s]}
    /\ UNCHANGED <<vars, local, answer, drawn, failures, moved>>

RecoveryExport(s) ==
    /\ Whole(s)
    /\ Cardinality(bundles) < MaxBundles
    /\ bundles' = bundles \union {local[s]}
    /\ UNCHANGED <<vars, local, answer, drawn, failures, moved>>

\* recovery-restore; --force replaces what is there.
RecoveryRestore(s) ==
    /\ \E state \in bundles : Replace(s, state)
    /\ UNCHANGED <<vars, answer, bundles, drawn, failures, moved>>

----------------------------------------------------------------------------
(* Commands with a call *)

Calls(s) == Whole(s) /\ answer[s] = NoAnswer

\* The answer is on its way.
Answered(s, a) ==
    /\ answer' = [answer EXCEPT ![s] = AppliedAccount(local[s], a)]
    /\ UNCHANGED <<local, bundles, drawn, failures>>

BootstrapOwner(s, p, pw) ==
    LET a == local[s].account IN
    /\ Calls(s)
    /\ BootstrapAccount(a, p, pw, local[s].device)
    /\ Answered(s, a)
    /\ UNCHANGED moved

Register(s, pw) ==
    LET a == local[s].account IN
    /\ Calls(s)
    /\ RegisterDevice(a, pw, local[s].device)
    /\ Answered(s, a)
    /\ UNCHANGED moved

\* complete-registration with a fresh phone: the account of the state file.
CompleteInvite(s, r, pw) ==
    LET a == local[s].account IN
    /\ Calls(s)
    /\ CompleteNewAccount(r, a, pw, local[s].device)
    /\ Answered(s, a)
    /\ UNCHANGED moved

\* complete-registration that resets: the account is the one of the phone.
CompletePasswordReset(s, r, a, pw) ==
    /\ Calls(s)
    /\ CompleteReset(r, a, pw, local[s].device)
    /\ Answered(s, a)
    /\ moved' = IF a = local[s].account THEN moved ELSE moved \union {local[s].device}

\* The call fails behind its effect (Directory), and nothing is saved.
CompleteRefused(s, r, a, pw) ==
    /\ Calls(s)
    /\ ResetWithRevokedDevice(r, a, pw, local[s].device)
    /\ UNCHANGED clientVars

\* send to the own account, or sync with a message from it: what they look up
\* replaces the record that is cached (mergeDirectoryRecord).
LookUpOwnAccount(s) ==
    LET a == local[s].account IN
    /\ Calls(s)
    /\ a \in DOMAIN accounts
    /\ UNCHANGED vars
    /\ answer' = [answer EXCEPT ![s] = [local[s] EXCEPT !.listed = PublicDevices(a)]]
    /\ UNCHANGED <<local, bundles, drawn, failures, moved>>

\* create-qr-invite and revoke-device save nothing.
Invite(s, r, p) ==
    /\ Calls(s)
    /\ CreateQrInvite(r, local[s].account, p)
    /\ UNCHANGED clientVars

Revoke(s, d) ==
    /\ Calls(s)
    /\ RevokeDevice(local[s].account, d)
    /\ UNCHANGED clientVars

SaveAnswer(s) ==
    /\ answer[s] # NoAnswer
    /\ Replace(s, answer[s])
    /\ answer' = [answer EXCEPT ![s] = NoAnswer]
    /\ UNCHANGED <<vars, bundles, drawn, failures, moved>>

\* The answer is lost or the command dies: before it saves, or while it does.
CommandFails(s) ==
    /\ answer[s] # NoAnswer
    /\ failures < MaxFailures
    /\ failures' = failures + 1
    /\ answer' = [answer EXCEPT ![s] = NoAnswer]
    /\ UNCHANGED local \/ Replace(s, Torn)
    /\ UNCHANGED <<vars, bundles, drawn, moved>>

EnrollmentNext ==
    \/ \E s \in Dir :
          \/ \E a \in Account, d \in Device : InitState(s, a, d)
          \/ \E t \in Dir, d \in Device : LinkDevice(s, t, d)
          \/ RecoveryExport(s) \/ RecoveryRestore(s)
          \/ \E pw \in Password :
                \/ Register(s, pw)
                \/ \E p \in Phone : BootstrapOwner(s, p, pw)
                \/ \E r \in Request :
                      \/ CompleteInvite(s, r, pw)
                      \/ \E a \in Account :
                            CompletePasswordReset(s, r, a, pw) \/ CompleteRefused(s, r, a, pw)
          \/ \E r \in Request, p \in Phone : Invite(s, r, p)
          \/ \E d \in Device : Revoke(s, d)
          \/ LookUpOwnAccount(s)
          \/ SaveAnswer(s)
          \/ CommandFails(s)
    \/ \E r \in Request : ExpireInvite(r) /\ UNCHANGED clientVars

EnrollmentSpec == EnrollmentInit /\ [][EnrollmentNext]_allVars

----------------------------------------------------------------------------
(* Properties *)

\* Types: a state that is kept parses, and names devices of this world.
EnrollmentTypeOK ==
    /\ local \in [Dir -> LocalState \union {Absent, Torn}]
    /\ answer \in [Dir -> LocalState \union {NoAnswer}]
    /\ bundles \subseteq LocalState
    /\ drawn \subseteq Account \union Device
    /\ failures \in 0..MaxFailures
    /\ moved \subseteq Device

\* The states an owner may come back to.
Kept == {local[s] : s \in {t \in Dir : Whole(t)}} \union bundles
        \union ({answer[s] : s \in Dir} \ {NoAnswer})

\* Whatever was lost, linked, forced or restored, what a state says of its
\* account is so: the directory has the devices the state lists under that
\* account (its own, if it has ever got an answer for it), and phone and inviter
\* are still those the state names.
LocalAgreesWithDirectory ==
    \A x \in Kept :
        /\ \A d \in x.listed : <<x.account, d>> \in DOMAIN devices
        /\ x.phone # NoPhone =>
              /\ x.phone \in DOMAIN phoneIndex
              /\ phoneIndex[x.phone] = x.account
              /\ accounts[x.account].invitedBy = x.invitedBy

\* A device is in two accounts, or in one its own state does not name, only if
\* a reset put it into the account of the phone: its answer was lost, its save
\* overwritten or an older bundle restored, or the device was used for another
\* account before.  Only then is the account found for an inbox
\* (findDeviceByInbox) or a registration repeated with the saved state the
\* wrong one.
OneAccountUnlessReset ==
    \A x \in DOMAIN devices : x[2] \notin moved =>
        /\ \A y \in DOMAIN devices : y[2] = x[2] => y = x
        /\ \A state \in Kept : state.device = x[2] => state.account = x[1]

=============================================================================

----------------------------- MODULE Directory -----------------------------
(***************************************************************************)
(* The account directory of the relay server: accounts, their phone        *)
(* numbers and devices, QR invites, one-time prekeys and the transparency  *)
(* log, as FileBackedStateStore keeps them (src/server/state-store.js).    *)
(*                                                                         *)
(* Node runs one handler at a time and every handler below changes the     *)
(* state before its first await, so each one is a single step.  A request  *)
(* that is rejected without changing anything is not an action; the one    *)
(* rejection that does change the state is ResetWithRevokedDevice.         *)
(* Writing the state to disk is not part of this module.                   *)
(*                                                                         *)
(* A JavaScript object used as a table is a function whose domain is the   *)
(* set of present keys.  The devices of all the accounts are one table,    *)
(* keyed by <<account, device>>.  A timestamp is the position, in the      *)
(* transparency log, of the entry the same handler appends.                *)
(***************************************************************************)
EXTENDS Naturals, Sequences, FiniteSets

CONSTANTS
    Account,      \* account ids a client may ask for
    Phone,        \* normalised phone numbers
    Device,       \* device ids
    Request,      \* invite request ids (randomUUID: never drawn twice)
    Password,     \* passwords that pass assertPasswordConfirmed
    NoAccount,    \* null where an account id may stand
    PreKeyCount,  \* one-time prekeys of a device
    MaxLog        \* bound: entries of the transparency log

ASSUME NullAssumption == NoAccount \notin Account
ASSUME CountAssumption == PreKeyCount \in Nat /\ MaxLog \in Nat

VARIABLES
    accounts,     \* directory.accounts
    phoneIndex,   \* directory.phoneIndex
    devices,      \* the devices of every account
    invites,      \* directory.inviteRequests
    expired,      \* the invites whose fifteen minutes are over
    log,          \* transparency.entries
    handedOut     \* history: the one-time prekeys claimPreKey returned

vars == <<accounts, phoneIndex, devices, invites, expired, log, handedOut>>

----------------------------------------------------------------------------
(* Records *)

Opening == {"account.bootstrap", "account.invited"}
Publishing == Opening \union {"device.registered", "account.password-reset"}

AccountRec == [phone: Phone, invitedBy: Account \union {NoAccount},
               password: Password, createdAt: Nat \ {0}]

\* revokedAt is 0 while the device has no revokedAt.
DeviceRec == [registeredAt: Nat \ {0}, revokedAt: Nat, preKeys: Seq(Nat)]

\* Nothing in the code leaves an invite "pending": they are born approved.
InviteRec == [purpose: {"registration", "password-reset"}, phone: Phone,
              sponsor: Account, status: {"approved", "used", "replaced"},
              invitee: Account \union {NoAccount}]

Entry == [type: Publishing \union {"device.revoked"},
          account: Account, device: Device]

\* A claim names the publication (registeredAt) that offered the key.
Claim == [account: Account, device: Device, key: Nat, publication: Nat]

EmptyTable == [k \in {} |-> k]

\* table[key] = value
Put(table, key, value) ==
    [k \in DOMAIN table \union {key} |-> IF k = key THEN value ELSE table[k]]

----------------------------------------------------------------------------
(* Parts of the handlers *)

Now == Len(log) + 1

RevokedAt(a, d) ==
    IF <<a, d>> \in DOMAIN devices THEN devices[<<a, d>>].revokedAt ELSE 0

IsRevoked(a, d) == RevokedAt(a, d) # 0

AppendTransparencyEntry(type, a, d) ==
    /\ Len(log) < MaxLog
    /\ log' = Append(log, [type |-> type, account |-> a, device |-> d])

\* A client publishes the whole list its device was created with, every time.
PublishedKeys == [i \in 1..PreKeyCount |-> i]

\* The part of addDeviceToActiveAccount after its check for a revoked device;
\* the fields a device already has are kept unless the client sends them.
AddDevice(a, d, type) ==
    /\ devices' = Put(devices, <<a, d>>, [registeredAt |-> Now,
                                          revokedAt |-> RevokedAt(a, d),
                                          preKeys |-> PublishedKeys])
    /\ AppendTransparencyEntry(type, a, d)

\* Mutant: the index maps the account to the phone.
OpenNewAccountSwapped(a, p, inviter, pw) ==
    /\ accounts' = Put(accounts, a, [phone |-> p, invitedBy |-> inviter,
                                     password |-> pw, createdAt |-> Now])
    /\ phoneIndex' = Put(phoneIndex, a, p)

\* Mutant: the phone index is forgotten.
OpenNewAccountUnindexed(a, p, inviter, pw) ==
    /\ accounts' = Put(accounts, a, [phone |-> p, invitedBy |-> inviter,
                                     password |-> pw, createdAt |-> Now])
    /\ UNCHANGED phoneIndex

OpenNewAccount(a, p, inviter, pw) ==
    /\ accounts' = Put(accounts, a, [phone |-> p, invitedBy |-> inviter,
                                     password |-> pw, createdAt |-> Now])
    /\ phoneIndex' = Put(phoneIndex, p, a)

Live(r) == r \in DOMAIN invites /\ invites[r].status = "approved"

\* Mutant: the earlier invites of the phone stay live.
InvalidatedNothing(p) == invites

\* invalidateActiveInvitesForPhone
Invalidated(p) ==
    [r \in DOMAIN invites |->
        IF Live(r) /\ invites[r].phone = p
        THEN [invites[r] EXCEPT !.status = "replaced"]
        ELSE invites[r]]

\* Mutant: completion does not use the invite up.
UseInviteKeptLive(r, a) == invites' = [invites EXCEPT ![r].invitee = a]

\* Mutant: completion does not record the account.
UseInviteNameless(r, a) == invites' = [invites EXCEPT ![r].status = "used"]

UseInvite(r, a) ==
    invites' = [invites EXCEPT ![r].status = "used", ![r].invitee = a]

----------------------------------------------------------------------------
(* Handlers *)

Init ==
    /\ accounts = EmptyTable
    /\ phoneIndex = EmptyTable
    /\ devices = EmptyTable
    /\ invites = EmptyTable
    /\ expired = {}
    /\ log = << >>
    /\ handedOut = {}

\* The owner's account: allowed only while there is no account.
BootstrapAccount(a, p, pw, d) ==
    /\ DOMAIN accounts = {}
    /\ OpenNewAccount(a, p, NoAccount, pw)
    /\ AddDevice(a, d, "account.bootstrap")
    /\ UNCHANGED <<invites, expired, handedOut>>

\* Mutant: no check for a revoked device.
RegisterDeviceUnchecked(a, pw, d) ==
    /\ a \in DOMAIN accounts
    /\ pw = accounts[a].password
    /\ AddDevice(a, d, "device.registered")
    /\ UNCHANGED <<accounts, phoneIndex, invites, expired, handedOut>>

\* A new device, or a known one publishing its keys again.
RegisterDevice(a, pw, d) ==
    /\ a \in DOMAIN accounts
    /\ pw = accounts[a].password
    /\ ~IsRevoked(a, d)
    /\ AddDevice(a, d, "device.registered")
    /\ UNCHANGED <<accounts, phoneIndex, invites, expired, handedOut>>

\* sponsor asks for a QR for phone p: to register it, or to reset the password
\* of its account.  The sponsor may be the inviter or the account itself.
CreateQrInvite(r, sponsor, p) ==
    /\ r \notin DOMAIN invites
    /\ sponsor \in DOMAIN accounts
    /\ p \in DOMAIN phoneIndex =>
          sponsor \in {phoneIndex[p], accounts[phoneIndex[p]].invitedBy}
    /\ invites' = Put(Invalidated(p), r,
          [purpose |-> IF p \in DOMAIN phoneIndex THEN "password-reset"
                                                  ELSE "registration",
           phone |-> p, sponsor |-> sponsor, status |-> "approved",
           invitee |-> IF p \in DOMAIN phoneIndex THEN phoneIndex[p]
                                                  ELSE NoAccount])
    /\ UNCHANGED <<accounts, phoneIndex, devices, expired, log, handedOut>>

\* Mutant: the status of the invite is not checked.
PresentableAnyStatus(r) == r \in DOMAIN invites /\ r \notin expired

\* The checks completeRegistration makes before it looks at the phone index.
Presentable(r) == Live(r) /\ r \notin expired

\* Mutant: the account id may be taken.
CompleteOverAccount(r, a, pw, d) ==
    /\ Presentable(r)
    /\ invites[r].phone \notin DOMAIN phoneIndex
    /\ OpenNewAccount(a, invites[r].phone, invites[r].sponsor, pw)
    /\ UseInvite(r, a)
    /\ AddDevice(a, d, "account.invited")
    /\ UNCHANGED <<expired, handedOut>>

\* completeRegistration for a phone nobody has.
CompleteNewAccount(r, a, pw, d) ==
    /\ Presentable(r)
    /\ invites[r].phone \notin DOMAIN phoneIndex
    /\ a \notin DOMAIN accounts
    /\ OpenNewAccount(a, invites[r].phone, invites[r].sponsor, pw)
    /\ UseInvite(r, a)
    /\ AddDevice(a, d, "account.invited")
    /\ UNCHANGED <<expired, handedOut>>

\* Mutant: any sponsor the invite was given to will do.
ReplacePasswordAnySponsor(r, a, pw) ==
    /\ Presentable(r)
    /\ invites[r].phone \in DOMAIN phoneIndex
    /\ a = phoneIndex[invites[r].phone]
    /\ invites[r].purpose = "password-reset"
    /\ accounts' = [accounts EXCEPT ![a].password = pw]
    /\ UseInvite(r, a)

\* The password-reset branch, up to the call that adds the device.
ReplacePassword(r, a, pw) ==
    /\ Presentable(r)
    /\ invites[r].phone \in DOMAIN phoneIndex
    /\ a = phoneIndex[invites[r].phone]
    /\ invites[r].purpose = "password-reset"
    /\ accounts[a].invitedBy = invites[r].sponsor
    /\ accounts' = [accounts EXCEPT ![a].password = pw]
    /\ UseInvite(r, a)

CompleteReset(r, a, pw, d) ==
    /\ ReplacePassword(r, a, pw)
    /\ ~IsRevoked(a, d)
    /\ AddDevice(a, d, "account.password-reset")
    /\ UNCHANGED <<phoneIndex, expired, handedOut>>

\* With a revoked device addDeviceToActiveAccount throws: the caller gets an
\* error, and the new password and the used invite stay.
ResetWithRevokedDevice(r, a, pw, d) ==
    /\ ReplacePassword(r, a, pw)
    /\ IsRevoked(a, d)
    /\ UNCHANGED <<phoneIndex, devices, expired, log, handedOut>>

CompleteRegistration(r, a, pw, d) ==
    \/ CompleteNewAccount(r, a, pw, d)
    \/ CompleteReset(r, a, pw, d)
    \/ ResetWithRevokedDevice(r, a, pw, d)

\* Mutant: the revocation is not logged.
RevokeDeviceUnlogged(a, d) ==
    /\ <<a, d>> \in DOMAIN devices
    /\ devices' = [devices EXCEPT ![<<a, d>>].revokedAt = Now]
    /\ UNCHANGED <<accounts, phoneIndex, invites, expired, log, handedOut>>

\* A device may be revoked again: revokedAt moves and an entry is appended.
RevokeDevice(a, d) ==
    /\ <<a, d>> \in DOMAIN devices
    /\ devices' = [devices EXCEPT ![<<a, d>>].revokedAt = Now]
    /\ AppendTransparencyEntry("device.revoked", a, d)
    /\ UNCHANGED <<accounts, phoneIndex, invites, expired, handedOut>>

\* Mutant: the key is read and not removed.
ClaimPreKeyPeek(a, d) ==
    /\ <<a, d>> \in DOMAIN devices
    /\ ~IsRevoked(a, d)
    /\ devices[<<a, d>>].preKeys # << >>
    /\ handedOut' = handedOut \union
          {[account |-> a, device |-> d, key |-> Head(devices[<<a, d>>].preKeys),
            publication |-> devices[<<a, d>>].registeredAt]}
    /\ UNCHANGED <<accounts, phoneIndex, devices, invites, expired, log>>

\* A claim on an empty list returns null and changes nothing.
ClaimPreKey(a, d) ==
    /\ <<a, d>> \in DOMAIN devices
    /\ ~IsRevoked(a, d)
    /\ devices[<<a, d>>].preKeys # << >>
    /\ devices' = [devices EXCEPT ![<<a, d>>].preKeys = Tail(@)]
    /\ handedOut' = handedOut \union
          {[account |-> a, device |-> d, key |-> Head(devices[<<a, d>>].preKeys),
            publication |-> devices[<<a, d>>].registeredAt]}
    /\ UNCHANGED <<accounts, phoneIndex, invites, expired, log>>

\* Fifteen minutes after createQrInvite the invite can no longer be completed;
\* its status does not change.
ExpireInvite(r) ==
    /\ r \in DOMAIN invites \ expired
    /\ expired' = expired \union {r}
    /\ UNCHANGED <<accounts, phoneIndex, devices, invites, log, handedOut>>

Next ==
    \/ \E a \in Account, d \in Device :
          \/ \E p \in Phone, pw \in Password : BootstrapAccount(a, p, pw, d)
          \/ \E pw \in Password : RegisterDevice(a, pw, d)
          \/ \E r \in Request, pw \in Password :
                CompleteRegistration(r, a, pw, d)
          \/ RevokeDevice(a, d)
          \/ ClaimPreKey(a, d)
    \/ \E r \in Request, sponsor \in Account, p \in Phone :
          CreateQrInvite(r, sponsor, p)
    \/ \E r \in Request : ExpireInvite(r)

Spec == Init /\ [][Next]_vars

----------------------------------------------------------------------------
(* Properties *)

\* Every table holds records of its kind, under keys of its kind.
TypeOK ==
    /\ DOMAIN accounts \subseteq Account
    /\ accounts \in [DOMAIN accounts -> AccountRec]
    /\ DOMAIN phoneIndex \subseteq Phone
    /\ phoneIndex \in [DOMAIN phoneIndex -> Account]
    /\ DOMAIN devices \subseteq Account \X Device
    /\ devices \in [DOMAIN devices -> DeviceRec]
    /\ DOMAIN invites \subseteq Request
    /\ invites \in [DOMAIN invites -> InviteRec]
    /\ expired \subseteq Request
    /\ log \in Seq(Entry)
    /\ handedOut \subseteq Claim

\* The phone index and the accounts' phone fields are written separately, in
\* two handlers; they always describe the same one-to-one relation, so login
\* by phone and the invite rules look at the right account.
PhoneOwnership ==
    /\ \A p \in DOMAIN phoneIndex :
          /\ phoneIndex[p] \in DOMAIN accounts
          /\ accounts[phoneIndex[p]].phone = p
    /\ \A a \in DOMAIN accounts :
          /\ accounts[a].phone \in DOMAIN phoneIndex
          /\ phoneIndex[accounts[a].phone] = a

\* A phone has at most one invite that may still be completed, whoever asked
\* for invites and in whatever order they were created and used.
OneLiveInvitePerPhone ==
    \A r, s \in DOMAIN invites :
        Live(r) /\ Live(s) /\ invites[r].phone = invites[s].phone => r = s

\* The purpose of an invite is fixed when it is created and read when it is
\* completed.  It never goes stale: a live registration invite is for a phone
\* nobody has, a live reset invite names the account that has the phone.  So
\* "phone is already registered" is never the answer to a valid QR.
LiveInviteMatchesPhone ==
    \A r \in DOMAIN invites : Live(r) =>
        LET p == invites[r].phone IN
        IF p \in DOMAIN phoneIndex
        THEN /\ invites[r].purpose = "password-reset"
             /\ invites[r].invitee = phoneIndex[p]
        ELSE /\ invites[r].purpose = "registration"
             /\ invites[r].invitee = NoAccount

\* The accounts form a tree under the owner's: everyone else was invited by an
\* account that is in the directory and was created earlier, and each account
\* was created with an entry of its own in the transparency log.
ReferralTree ==
    \A a \in DOMAIN accounts :
        LET rec == accounts[a] IN
        /\ rec.createdAt \in DOMAIN log
        /\ log[rec.createdAt].account = a
        /\ IF rec.invitedBy = NoAccount
           THEN /\ rec.createdAt = 1
                /\ log[1].type = "account.bootstrap"
           ELSE /\ log[rec.createdAt].type = "account.invited"
                /\ rec.invitedBy \in DOMAIN accounts
                /\ accounts[rec.invitedBy].createdAt < rec.createdAt

Opened(r, a) ==
    /\ r \in DOMAIN invites
    /\ invites[r].status = "used"
    /\ invites[r].purpose = "registration"
    /\ invites[r].invitee = a

\* Every account but the owner's was opened by exactly one registration
\* invite, made for its phone by its inviter, and no used registration invite
\* is left without the account it opened.
OneInviteOpenedAccount ==
    /\ \A a \in DOMAIN accounts : accounts[a].invitedBy # NoAccount =>
          \E r \in DOMAIN invites : Opened(r, a)
    /\ \A a \in Account, r, s \in DOMAIN invites :
          Opened(r, a) /\ Opened(s, a) => r = s
    /\ \A r \in DOMAIN invites :
          invites[r].status = "used" /\ invites[r].purpose = "registration" =>
             /\ invites[r].invitee \in DOMAIN accounts
             /\ accounts[invites[r].invitee].phone = invites[r].phone
             /\ accounts[invites[r].invitee].invitedBy = invites[r].sponsor

\* entries[i] is the last one of device <<a, d>> whose type is in types; i is 0
\* if there is none.
LastEntry(entries, i, a, d, types) ==
    LET Mine(j) == /\ entries[j].account = a
                   /\ entries[j].device = d
                   /\ entries[j].type \in types
    IN /\ i = 0 \/ (i \in DOMAIN entries /\ Mine(i))
       /\ \A j \in DOMAIN entries : Mine(j) => j <= i

\* Replaying the transparency log gives the devices the directory shows: each
\* one was last published, and last revoked, by the last entries about it, and
\* there is no entry about a device that is not in the directory.
LogExplainsDevices ==
    /\ \A x \in DOMAIN devices :
          /\ devices[x].registeredAt # 0
          /\ LastEntry(log, devices[x].registeredAt, x[1], x[2], Publishing)
          /\ LastEntry(log, devices[x].revokedAt, x[1], x[2], {"device.revoked"})
    /\ \A i \in DOMAIN log : <<log[i].account, log[i].device>> \in DOMAIN devices

\* A one-time prekey that claimPreKey has returned is not offered again until
\* the device publishes its list again.
HandedOutOncePerPublication ==
    \A x \in DOMAIN devices :
        /\ \A i, j \in DOMAIN devices[x].preKeys :
              devices[x].preKeys[i] = devices[x].preKeys[j] => i = j
        /\ \A c \in handedOut :
              /\ c.account = x[1]
              /\ c.device = x[2]
              /\ c.publication = devices[x].registeredAt
              => \A i \in DOMAIN devices[x].preKeys : devices[x].preKeys[i] # c.key

\* An account never disappears and never changes its phone, its inviter or its
\* creation, whatever its devices and its invites go through.
IdentityKept ==
    \A a \in DOMAIN accounts :
        /\ a \in DOMAIN accounts'
        /\ accounts'[a] = [accounts[a] EXCEPT !.password = accounts'[a].password]

IdentityIsPermanent == [][IdentityKept]_vars

\* A password changes only in the step that uses up a live reset invite its
\* account's inviter made, so neither the account itself nor another sponsor
\* can reset it.
InviterUsedUp ==
    \A a \in DOMAIN accounts :
        accounts'[a].password # accounts[a].password =>
            \E r \in DOMAIN invites :
                /\ Live(r) /\ ~Live(r)'
                /\ invites[r].phone = accounts[a].phone
                /\ invites[r].purpose = "password-reset"
                /\ invites[r].sponsor = accounts[a].invitedBy

PasswordChangeNeedsInviter == [][InviterUsedUp]_vars

\* A revoked device stays revoked: no registration, reset or new account brings
\* it back, and its keys are never published or claimed again.
RevokedKept ==
    \A x \in DOMAIN devices : devices[x].revokedAt # 0 =>
        /\ x \in DOMAIN devices'
        /\ devices'[x].revokedAt # 0
        /\ devices'[x].registeredAt = devices[x].registeredAt
        /\ devices'[x].preKeys = devices[x].preKeys

RevocationIsPermanent == [][RevokedKept]_vars

\* An invite that was used or replaced is frozen.
SpentKept ==
    \A r \in DOMAIN invites : ~Live(r) =>
        r \in DOMAIN invites' /\ invites'[r] = invites[r]

SpentInviteIsFrozen == [][SpentKept]_vars

----------------------------------------------------------------------------
(* What the documents promise and the code does not do *)

\* docs/account-model.md:40-42: a reset replaces the password and adds the new
\* device to the account, which is logged.  As many invites were used as there
\* are entries of a completed invite.
UsedInvitesAreLogged ==
    Cardinality({r \in DOMAIN invites : invites[r].status = "used"}) =
    Cardinality({i \in DOMAIN log :
                    log[i].type \in {"account.invited", "account.password-reset"}})
=============================================================================

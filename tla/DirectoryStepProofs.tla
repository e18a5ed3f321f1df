------------------------ MODULE DirectoryStepProofs ------------------------
(***************************************************************************)
(* What no step of the directory does, for every value of its constants,   *)
(* and what its log and its prekeys always say.  Everything stands on the  *)
(* inductive invariant of DirectoryProofs.                                 *)
(***************************************************************************)
EXTENDS DirectoryProofs

\* A completion finds a live invite and names a phone and a sponsor.
LEMMA PresentableInvite ==
    ASSUME TypeOK, NEW r \in Request, Presentable(r)
    PROVE  /\ r \in DOMAIN invites /\ Live(r)
           /\ invites[r].phone \in Phone
           /\ invites[r].sponsor \in Account
  BY DEF Presentable, Live, TypeOK, InviteRec

\* What replacing a password does to the accounts and the invites.
LEMMA ReplacePasswordEffect ==
    ASSUME TypeOK, NEW r \in Request, NEW a \in Account, NEW pw \in Password,
           ReplacePassword(r, a, pw)
    PROVE  /\ DOMAIN accounts' = DOMAIN accounts
           /\ \A b \in DOMAIN accounts : b # a => accounts'[b] = accounts[b]
           /\ \A b \in DOMAIN accounts :
                 accounts'[b] = [accounts[b] EXCEPT !.password = accounts'[b].password]
           /\ DOMAIN invites' = DOMAIN invites
           /\ invites'[r].status = "used"
           /\ \A s \in DOMAIN invites : s # r => invites'[s] = invites[s]
  <1>1. r \in DOMAIN invites /\ UseInvite(r, a)
    BY PresentableInvite DEF ReplacePassword
  <1>2. /\ DOMAIN invites' = DOMAIN invites
        /\ invites'[r].status = "used"
        /\ \A s \in DOMAIN invites : s # r => invites'[s] = invites[s]
    <2>1. invites[r] \in InviteRec
      BY <1>1 DEF TypeOK
    <2>2. /\ DOMAIN invites' = DOMAIN invites
          /\ invites'[r] = [invites[r] EXCEPT !.status = "used", !.invitee = a]
          /\ \A s \in DOMAIN invites : s # r => invites'[s] = invites[s]
      BY <1>1, UseInviteType
    <2> QED
      BY <2>1, <2>2 DEF InviteRec
  <1>3. accounts' = [accounts EXCEPT ![a].password = pw]
    BY DEF ReplacePassword
  <1>4. ASSUME NEW b \in DOMAIN accounts
        PROVE  /\ accounts[b] \in AccountRec
               /\ accounts'[b] = IF b = a THEN [accounts[b] EXCEPT !.password = pw]
                                          ELSE accounts[b]
    BY <1>3 DEF TypeOK
  <1>5. ASSUME NEW b \in DOMAIN accounts
        PROVE  accounts'[b] = [accounts[b] EXCEPT !.password = accounts'[b].password]
    BY <1>4, <1>5 DEF AccountRec
  <1> QED
    BY <1>2, <1>3, <1>4, <1>5 DEF TypeOK

----------------------------------------------------------------------------
(* Accounts *)

\* No handler removes an account or changes what it is.
LEMMA IdentityStep == IInv /\ [Next]_vars => IdentityKept
  <1> SUFFICES ASSUME IInv, [Next]_vars
               PROVE  IdentityKept
    OBVIOUS
  <1>1. ASSUME NEW b \in DOMAIN accounts
        PROVE  accounts[b] = [accounts[b] EXCEPT !.password = accounts[b].password]
    BY DEF IInv, TypeOK, AccountRec
  <1>2. UNCHANGED accounts => IdentityKept
    BY <1>1 DEF IdentityKept
  <1>3. ASSUME NEW a \in Account, NEW d \in Device, NEW p \in Phone,
               NEW pw \in Password, BootstrapAccount(a, p, pw, d)
        PROVE  IdentityKept
    BY <1>3 DEF BootstrapAccount, IdentityKept
  <1>4. ASSUME NEW r \in Request, NEW a \in Account, NEW d \in Device,
               NEW pw \in Password, CompleteNewAccount(r, a, pw, d)
        PROVE  IdentityKept
    <2>1. invites[r].phone \in Phone /\ invites[r].sponsor \in Account
      BY <1>4, PresentableInvite DEF CompleteNewAccount, IInv
    <2>2. /\ DOMAIN accounts' = DOMAIN accounts \union {a}
          /\ \A b \in DOMAIN accounts : b # a => accounts'[b] = accounts[b]
          /\ a \notin DOMAIN accounts
      BY <1>4, <2>1, OpenNewAccountEffect DEF CompleteNewAccount, IInv
    <2>3. \A b \in DOMAIN accounts : b \in DOMAIN accounts' /\ accounts'[b] = accounts[b]
      BY <2>2
    <2> QED
      BY <1>1, <2>3 DEF IdentityKept
  <1>5. ASSUME NEW r \in Request, NEW a \in Account, NEW pw \in Password,
               ReplacePassword(r, a, pw)
        PROVE  IdentityKept
    BY <1>5, ReplacePasswordEffect DEF IdentityKept, IInv
  <1>6. ASSUME NEW r \in Request, NEW a \in Account, NEW d \in Device,
               NEW pw \in Password, CompleteRegistration(r, a, pw, d)
        PROVE  IdentityKept
    BY <1>4, <1>5, <1>6 DEF CompleteRegistration, CompleteReset, ResetWithRevokedDevice
  <1> QED
    BY <1>2, <1>3, <1>6
       DEF Next, vars, RegisterDevice, RevokeDevice, ClaimPreKey, CreateQrInvite,
           ExpireInvite

\* The same of every step of the specification.
THEOREM IdentityStays == Spec => IdentityIsPermanent
  BY IdentityStep, InvariantHolds, PTL DEF Spec, IdentityIsPermanent

\* A password changes with a live reset invite of the inviter, which the step
\* uses up.
THEOREM PasswordsNeedInviters == Spec => PasswordChangeNeedsInviter
  <1>1. ASSUME IInv, [Next]_vars
        PROVE  InviterUsedUp
    <2>1. UNCHANGED accounts => InviterUsedUp
      BY DEF InviterUsedUp
    <2>2. ASSUME NEW a \in Account, NEW d \in Device, NEW p \in Phone,
                 NEW pw \in Password, BootstrapAccount(a, p, pw, d)
          PROVE  InviterUsedUp
      BY <2>2 DEF BootstrapAccount, InviterUsedUp
    <2>3. ASSUME NEW r \in Request, NEW a \in Account, NEW d \in Device,
                 NEW pw \in Password, CompleteNewAccount(r, a, pw, d)
          PROVE  InviterUsedUp
      <3>1. invites[r].phone \in Phone /\ invites[r].sponsor \in Account
        BY <1>1, <2>3, PresentableInvite DEF CompleteNewAccount, IInv
      <3>2. \A b \in DOMAIN accounts : accounts'[b] = accounts[b]
        BY <1>1, <2>3, <3>1, OpenNewAccountEffect DEF CompleteNewAccount, IInv
      <3> QED
        BY <3>2 DEF InviterUsedUp
    <2>4. ASSUME NEW r \in Request, NEW a \in Account, NEW pw \in Password,
                 ReplacePassword(r, a, pw)
          PROVE  InviterUsedUp
      <3>1. r \in DOMAIN invites /\ Live(r) /\ ~Live(r)'
        BY <1>1, <2>4, PresentableInvite, ReplacePasswordEffect
           DEF ReplacePassword, IInv, Live
      <3>2. /\ invites[r].phone = accounts[a].phone
            /\ invites[r].purpose = "password-reset"
            /\ invites[r].sponsor = accounts[a].invitedBy
        BY <1>1, <2>4 DEF ReplacePassword, IInv, PhoneOwnership
      <3>3. \A b \in DOMAIN accounts : b # a => accounts'[b] = accounts[b]
        BY <1>1, <2>4, ReplacePasswordEffect DEF IInv
      <3> QED
        BY <3>1, <3>2, <3>3 DEF InviterUsedUp
    <2> QED
      BY <1>1, <2>1, <2>2, <2>3, <2>4
         DEF Next, CompleteRegistration, vars, RegisterDevice, CompleteReset,
             ResetWithRevokedDevice, RevokeDevice, ClaimPreKey, CreateQrInvite, ExpireInvite
  <1> QED
    BY <1>1, InvariantHolds, PTL DEF Spec, PasswordChangeNeedsInviter

----------------------------------------------------------------------------
(* Invites *)

\* No handler touches an invite that was used or replaced.
THEOREM SpentInvitesStay == Spec => SpentInviteIsFrozen
  <1>1. ASSUME IInv, [Next]_vars
        PROVE  SpentKept
    <2>1. UNCHANGED invites => SpentKept
      BY DEF SpentKept
    <2>2. ASSUME NEW r \in Request, Live(r), r \in DOMAIN invites,
                 NEW a \in Account, UseInvite(r, a)
          PROVE  SpentKept
      BY <1>1, <2>2, UseInviteType DEF SpentKept, IInv
    <2>3. ASSUME NEW r \in Request, NEW sponsor \in Account, NEW p \in Phone,
                 CreateQrInvite(r, sponsor, p)
          PROVE  SpentKept
      BY <1>1, <2>3, CreateQrInviteEffect DEF SpentKept, Live, IInv
    <2>4. ASSUME NEW r \in Request, NEW a \in Account, NEW pw \in Password,
                 NEW d \in Device, CompleteRegistration(r, a, pw, d)
          PROVE  SpentKept
      <3>1. Presentable(r) /\ UseInvite(r, a)
        BY <2>4 DEF CompleteRegistration, CompleteNewAccount, CompleteReset,
                    ResetWithRevokedDevice, ReplacePassword
      <3> QED
        BY <1>1, <2>2, <3>1, PresentableInvite DEF IInv
    <2> QED
      BY <1>1, <2>1, <2>3, <2>4
         DEF Next, vars, BootstrapAccount, RegisterDevice, RevokeDevice,
             ClaimPreKey, ExpireInvite
  <1> QED
    BY <1>1, InvariantHolds, PTL DEF Spec, SpentInviteIsFrozen

----------------------------------------------------------------------------
(* Devices *)

\* What publishing does to the device it is about, and to the others.
LEMMA PublishedDevice ==
    ASSUME TypeOK, NEW a \in Account, NEW d \in Device,
           NEW type, AddDevice(a, d, type)
    PROVE  /\ DOMAIN devices' = DOMAIN devices \union {<<a, d>>}
           /\ devices'[<<a, d>>].registeredAt = Len(log) + 1
           /\ devices'[<<a, d>>].revokedAt = RevokedAt(a, d)
           /\ devices'[<<a, d>>].preKeys = PublishedKeys
           /\ \A x \in DOMAIN devices : x # <<a, d>> => devices'[x] = devices[x]
  BY DEF AddDevice, Put, Now

\* What a revocation does to them.
LEMMA RevokedDevice ==
    ASSUME TypeOK, NEW a \in Account, NEW d \in Device, RevokeDevice(a, d)
    PROVE  /\ DOMAIN devices' = DOMAIN devices
           /\ <<a, d>> \in DOMAIN devices
           /\ devices'[<<a, d>>].revokedAt = Len(log) + 1
           /\ devices'[<<a, d>>].registeredAt = devices[<<a, d>>].registeredAt
           /\ devices'[<<a, d>>].preKeys = devices[<<a, d>>].preKeys
           /\ \A x \in DOMAIN devices : x # <<a, d>> => devices'[x] = devices[x]
  <1>1. <<a, d>> \in DOMAIN devices /\ devices[<<a, d>>] \in DeviceRec
    BY DEF RevokeDevice, TypeOK
  <1>2. devices' = [devices EXCEPT ![<<a, d>>].revokedAt = Len(log) + 1]
    BY DEF RevokeDevice, Now
  <1> QED
    BY <1>1, <1>2 DEF TypeOK, DeviceRec

\* What a claim does to them.
LEMMA ClaimedDevice ==
    ASSUME TypeOK, NEW a \in Account, NEW d \in Device, ClaimPreKey(a, d)
    PROVE  /\ DOMAIN devices' = DOMAIN devices
           /\ <<a, d>> \in DOMAIN devices
           /\ devices[<<a, d>>].revokedAt = 0
           /\ devices[<<a, d>>].preKeys # << >>
           /\ devices[<<a, d>>].preKeys \in Seq(Nat)
           /\ devices'[<<a, d>>].revokedAt = devices[<<a, d>>].revokedAt
           /\ devices'[<<a, d>>].registeredAt = devices[<<a, d>>].registeredAt
           /\ devices'[<<a, d>>].preKeys = Tail(devices[<<a, d>>].preKeys)
           /\ \A x \in DOMAIN devices : x # <<a, d>> => devices'[x] = devices[x]
  <1>1. <<a, d>> \in DOMAIN devices /\ devices[<<a, d>>] \in DeviceRec
    BY DEF ClaimPreKey, TypeOK
  <1>2. devices' = [devices EXCEPT ![<<a, d>>].preKeys = Tail(@)]
    BY DEF ClaimPreKey
  <1>3. devices[<<a, d>>].revokedAt = 0 /\ devices[<<a, d>>].preKeys # << >>
    BY <1>1 DEF ClaimPreKey, IsRevoked, RevokedAt
  <1> QED
    BY <1>1, <1>2, <1>3 DEF TypeOK, DeviceRec

\* Every step publishes a device, revokes one, claims a prekey, or leaves the
\* devices and the log alone.
Published(a, d, type) == AddDevice(a, d, type) /\ (~IsRevoked(a, d) \/ a \notin DOMAIN accounts)

LEMMA DeviceSteps ==
    ASSUME IInv, [Next]_vars
    PROVE  \/ UNCHANGED <<devices, log, handedOut>>
           \/ \E a \in Account, d \in Device, type \in Publishing :
                 Published(a, d, type) /\ UNCHANGED handedOut
           \/ \E a \in Account, d \in Device : RevokeDevice(a, d)
           \/ \E a \in Account, d \in Device : ClaimPreKey(a, d)
  <1>1. ASSUME NEW a \in Account, NEW d \in Device, NEW p \in Phone,
               NEW pw \in Password, BootstrapAccount(a, p, pw, d)
        PROVE  Published(a, d, "account.bootstrap") /\ UNCHANGED handedOut
    BY <1>1 DEF BootstrapAccount, Published
  <1>2. ASSUME NEW a \in Account, NEW d \in Device, NEW pw \in Password,
               RegisterDevice(a, pw, d)
        PROVE  Published(a, d, "device.registered") /\ UNCHANGED handedOut
    BY <1>2 DEF RegisterDevice, Published
  <1>3. ASSUME NEW r \in Request, NEW a \in Account, NEW d \in Device,
               NEW pw \in Password, CompleteNewAccount(r, a, pw, d)
        PROVE  Published(a, d, "account.invited") /\ UNCHANGED handedOut
    BY <1>3 DEF CompleteNewAccount, Published
  <1>4. ASSUME NEW r \in Request, NEW a \in Account, NEW d \in Device,
               NEW pw \in Password, CompleteReset(r, a, pw, d)
        PROVE  Published(a, d, "account.password-reset") /\ UNCHANGED handedOut
    BY <1>4 DEF CompleteReset, Published
  <1>5. {"account.bootstrap", "device.registered", "account.invited",
         "account.password-reset"} \subseteq Publishing
    BY DEF Publishing, Opening
  <1> QED
    BY <1>1, <1>2, <1>3, <1>4, <1>5
       DEF Next, CompleteRegistration, vars, ResetWithRevokedDevice,
           CreateQrInvite, ExpireInvite

\* Revocation is final.
THEOREM RevokedStays == Spec => RevocationIsPermanent
  <1>1. ASSUME IInv, [Next]_vars
        PROVE  RevokedKept
    <2>1. CASE UNCHANGED devices
      BY <2>1 DEF RevokedKept
    <2>2. ASSUME NEW a \in Account, NEW d \in Device, NEW type \in Publishing,
                 Published(a, d, type)
          PROVE  RevokedKept
      <3>1. <<a, d>> \in DOMAIN devices => devices[<<a, d>>].revokedAt = 0
        BY <1>1, <2>2 DEF Published, IsRevoked, RevokedAt, IInv, AccountsKnown
      <3> QED
        BY <1>1, <2>2, <3>1, PublishedDevice DEF RevokedKept, Published, IInv
    <2>3. ASSUME NEW a \in Account, NEW d \in Device, RevokeDevice(a, d)
          PROVE  RevokedKept
      <3>1. Len(log) + 1 # 0
        BY <1>1 DEF IInv, TypeOK
      <3> QED
        BY <1>1, <2>3, <3>1, RevokedDevice DEF RevokedKept, IInv
    <2>4. ASSUME NEW a \in Account, NEW d \in Device, ClaimPreKey(a, d)
          PROVE  RevokedKept
      BY <1>1, <2>4, ClaimedDevice DEF RevokedKept, IInv
    <2> QED
      BY <1>1, <2>1, <2>2, <2>3, <2>4, DeviceSteps
  <1> QED
    BY <1>1, InvariantHolds, PTL DEF Spec, RevocationIsPermanent

----------------------------------------------------------------------------
(* The log *)

\* What an entry that is appended does to the log.
LEMMA AppendedEntry ==
    ASSUME TypeOK, NEW type, NEW a \in Account, NEW d \in Device,
           AppendTransparencyEntry(type, a, d)
    PROVE  /\ Len(log) \in Nat
           /\ DOMAIN log = 1 .. Len(log)
           /\ DOMAIN log' = 1 .. Len(log) + 1
           /\ log'[Len(log) + 1] = [type |-> type, account |-> a, device |-> d]
           /\ \A i \in DOMAIN log : log'[i] = log[i]
  BY DEF AppendTransparencyEntry, TypeOK

\* The entry that is appended is the last one of its device and its kind.
LEMMA NewEntryIsLast ==
    ASSUME TypeOK, NEW type, NEW a \in Account, NEW d \in Device, NEW types,
           AppendTransparencyEntry(type, a, d), type \in types
    PROVE  LastEntry(log', Len(log) + 1, a, d, types)
  <1>1. /\ Len(log) \in Nat
        /\ DOMAIN log' = 1 .. Len(log) + 1
        /\ log'[Len(log) + 1] = [type |-> type, account |-> a, device |-> d]
    BY AppendedEntry
  <1>2. Len(log) + 1 \in DOMAIN log'
    BY <1>1
  <1>3. \A j \in DOMAIN log' : j <= Len(log) + 1
    BY <1>1
  <1>4. /\ log'[Len(log) + 1].account = a
        /\ log'[Len(log) + 1].device = d
        /\ log'[Len(log) + 1].type \in types
    BY <1>1
  <1> QED
    BY <1>2, <1>3, <1>4 DEF LastEntry

\* For other devices and other kinds the last entry is what it was.
LEMMA LastEntryStays ==
    ASSUME TypeOK, NEW type, NEW a \in Account, NEW d \in Device,
           AppendTransparencyEntry(type, a, d),
           NEW b, NEW e, NEW types, <<a, d>> # <<b, e>> \/ type \notin types,
           NEW i \in Nat, LastEntry(log, i, b, e, types)
    PROVE  LastEntry(log', i, b, e, types)
  <1>1. /\ Len(log) \in Nat
        /\ DOMAIN log = 1 .. Len(log)
        /\ DOMAIN log' = 1 .. Len(log) + 1
        /\ log'[Len(log) + 1] = [type |-> type, account |-> a, device |-> d]
        /\ \A j \in DOMAIN log : log'[j] = log[j]
    BY AppendedEntry
  <1>2. i = 0 \/ (i \in DOMAIN log' /\ log'[i] = log[i])
    BY <1>1 DEF LastEntry
  <1>3. ASSUME NEW j \in DOMAIN log', log'[j].account = b, log'[j].device = e,
               log'[j].type \in types
        PROVE  j \in DOMAIN log /\ log'[j] = log[j]
    <2>1. j # Len(log) + 1
      BY <1>1, <1>3
    <2> QED
      BY <1>1, <2>1
  <1> QED
    BY <1>2, <1>3 DEF LastEntry

\* If the devices cover the entries, and the new entry, they cover the new log.
LEMMA EntriesCovered ==
    ASSUME TypeOK, NEW type, NEW a \in Account, NEW d \in Device,
           AppendTransparencyEntry(type, a, d), NEW D, <<a, d>> \in D,
           \A i \in DOMAIN log : <<log[i].account, log[i].device>> \in D
    PROVE  \A i \in DOMAIN log' : <<log'[i].account, log'[i].device>> \in D
  <1>1. /\ Len(log) \in Nat
        /\ DOMAIN log = 1 .. Len(log)
        /\ DOMAIN log' = 1 .. Len(log) + 1
        /\ log'[Len(log) + 1] = [type |-> type, account |-> a, device |-> d]
        /\ \A j \in DOMAIN log : log'[j] = log[j]
    BY AppendedEntry
  <1> SUFFICES ASSUME NEW i \in DOMAIN log'
               PROVE  <<log'[i].account, log'[i].device>> \in D
    OBVIOUS
  <1>2. CASE i = Len(log) + 1
    BY <1>1, <1>2
  <1>3. CASE i \in DOMAIN log
    BY <1>1, <1>3
  <1> QED
    BY <1>1, <1>2, <1>3

\* Every entry but a revocation publishes.
LEMMA RevocationIsNoPublication == "device.revoked" \notin Publishing
  BY DEF Publishing, Opening

\* The log explains the devices, across all the handlers that write both.
THEOREM LogIsComplete == Spec => []LogExplainsDevices
  <1>1. Init => LogExplainsDevices
    <2>1. Init => DOMAIN devices = {} /\ DOMAIN log = {}
      BY DEF Init, EmptyTable
    <2> QED
      BY <2>1 DEF LogExplainsDevices
  <1>2. ASSUME IInv, LogExplainsDevices, [Next]_vars
        PROVE  LogExplainsDevices'
    <2>1. CASE UNCHANGED <<devices, log, handedOut>>
      BY <1>2, <2>1 DEF LogExplainsDevices, LastEntry
    <2>2. ASSUME NEW a \in Account, NEW d \in Device, NEW type \in Publishing,
                 Published(a, d, type)
          PROVE  LogExplainsDevices'
      <3> USE <1>2 DEF IInv
      <3>1. AddDevice(a, d, type) /\ AppendTransparencyEntry(type, a, d)
        BY <2>2 DEF Published, AddDevice
      <3>2. ASSUME NEW x \in DOMAIN devices', x # <<a, d>>
            PROVE  /\ devices'[x].registeredAt # 0
                   /\ LastEntry(log', devices'[x].registeredAt, x[1], x[2], Publishing)
                   /\ LastEntry(log', devices'[x].revokedAt, x[1], x[2], {"device.revoked"})
        <4>1. x \in DOMAIN devices /\ devices'[x] = devices[x]
          BY <3>1, <3>2, PublishedDevice
        <4>2. devices[x].registeredAt \in Nat /\ devices[x].revokedAt \in Nat
              /\ x = <<x[1], x[2]>>
          BY <4>1 DEF TypeOK, DeviceRec
        <4>3. /\ devices[x].registeredAt # 0
              /\ LastEntry(log, devices[x].registeredAt, x[1], x[2], Publishing)
              /\ LastEntry(log, devices[x].revokedAt, x[1], x[2], {"device.revoked"})
          BY <4>1 DEF LogExplainsDevices
        <4>4. LastEntry(log', devices[x].registeredAt, x[1], x[2], Publishing)
              /\ LastEntry(log', devices[x].revokedAt, x[1], x[2], {"device.revoked"})
          BY <3>1, <3>2, <4>2, <4>3, LastEntryStays
        <4> QED
          BY <4>1, <4>3, <4>4
      <3>3. /\ devices'[<<a, d>>].registeredAt # 0
            /\ LastEntry(log', devices'[<<a, d>>].registeredAt, a, d, Publishing)
        <4>0. Len(log) + 1 # 0
          BY DEF TypeOK
        <4>1. devices'[<<a, d>>].registeredAt = Len(log) + 1
          BY <3>1, PublishedDevice
        <4>2. LastEntry(log', Len(log) + 1, a, d, Publishing)
          BY <3>1, NewEntryIsLast
        <4> QED
          BY <4>0, <4>1, <4>2
      <3>4. LastEntry(log', devices'[<<a, d>>].revokedAt, a, d, {"device.revoked"})
        <4>1. devices'[<<a, d>>].revokedAt = RevokedAt(a, d) /\ RevokedAt(a, d) \in Nat
          BY <3>1, PublishedDevice DEF RevokedAt, TypeOK, DeviceRec
        <4>2. LastEntry(log, RevokedAt(a, d), a, d, {"device.revoked"})
          <5>1. CASE <<a, d>> \in DOMAIN devices
            BY <5>1 DEF LogExplainsDevices, RevokedAt
          <5>2. CASE <<a, d>> \notin DOMAIN devices
            BY <5>2 DEF LogExplainsDevices, RevokedAt, LastEntry
          <5> QED
            BY <5>1, <5>2
        <4>3. type \notin {"device.revoked"}
          BY RevocationIsNoPublication
        <4>4. LastEntry(log', RevokedAt(a, d), a, d, {"device.revoked"})
          BY <3>1, <4>1, <4>2, <4>3, LastEntryStays
        <4> QED
          BY <4>1, <4>4
      <3>5. \A i \in DOMAIN log' : <<log'[i].account, log'[i].device>> \in DOMAIN devices'
        <4>1. \A i \in DOMAIN log : <<log[i].account, log[i].device>> \in DOMAIN devices'
          BY <3>1, PublishedDevice DEF LogExplainsDevices
        <4>2. <<a, d>> \in DOMAIN devices'
          BY <3>1, PublishedDevice
        <4> QED
          BY <3>1, <4>1, <4>2, EntriesCovered
      <3> QED
        BY <3>2, <3>3, <3>4, <3>5 DEF LogExplainsDevices
    <2>3. ASSUME NEW a \in Account, NEW d \in Device, RevokeDevice(a, d)
          PROVE  LogExplainsDevices'
      <3> USE <1>2 DEF IInv
      <3>1. AppendTransparencyEntry("device.revoked", a, d)
        BY <2>3 DEF RevokeDevice
      <3>2. ASSUME NEW x \in DOMAIN devices'
            PROVE  /\ x \in DOMAIN devices /\ x = <<x[1], x[2]>>
                   /\ devices'[x].registeredAt = devices[x].registeredAt
                   /\ devices[x].registeredAt # 0
                   /\ devices[x].registeredAt \in Nat /\ devices[x].revokedAt \in Nat
                   /\ LastEntry(log, devices[x].registeredAt, x[1], x[2], Publishing)
                   /\ LastEntry(log, devices[x].revokedAt, x[1], x[2], {"device.revoked"})
        <4>1. x \in DOMAIN devices /\ devices'[x].registeredAt = devices[x].registeredAt
          BY <2>3, <3>2, RevokedDevice
        <4> QED
          BY <4>1 DEF LogExplainsDevices, TypeOK, DeviceRec
      <3>3. ASSUME NEW x \in DOMAIN devices'
            PROVE  LastEntry(log', devices'[x].registeredAt, x[1], x[2], Publishing)
        <4>1. LastEntry(log', devices[x].registeredAt, x[1], x[2], Publishing)
          BY <3>1, <3>2, LastEntryStays, RevocationIsNoPublication
        <4> QED
          BY <3>2, <4>1
      <3>4. ASSUME NEW x \in DOMAIN devices'
            PROVE  LastEntry(log', devices'[x].revokedAt, x[1], x[2], {"device.revoked"})
        <4>1. CASE x = <<a, d>>
          <5>1. LastEntry(log', Len(log) + 1, a, d, {"device.revoked"})
            BY <3>1, NewEntryIsLast
          <5>2. devices'[<<a, d>>].revokedAt = Len(log) + 1
            BY <2>3, RevokedDevice
          <5> QED
            BY <4>1, <5>1, <5>2
        <4>2. CASE x # <<a, d>>
          <5>1. devices'[x] = devices[x]
            BY <2>3, <3>2, <4>2, RevokedDevice
          <5>2. LastEntry(log', devices[x].revokedAt, x[1], x[2], {"device.revoked"})
            BY <3>1, <3>2, <4>2, LastEntryStays
          <5> QED
            BY <5>1, <5>2
        <4> QED
          BY <4>1, <4>2
      <3>5. \A i \in DOMAIN log' : <<log'[i].account, log'[i].device>> \in DOMAIN devices'
        <4>1. \A i \in DOMAIN log : <<log[i].account, log[i].device>> \in DOMAIN devices'
          BY <2>3, RevokedDevice DEF LogExplainsDevices
        <4>2. <<a, d>> \in DOMAIN devices'
          BY <2>3, RevokedDevice
        <4> QED
          BY <3>1, <4>1, <4>2, EntriesCovered
      <3> QED
        BY <3>2, <3>3, <3>4, <3>5 DEF LogExplainsDevices
    <2>4. ASSUME NEW a \in Account, NEW d \in Device, ClaimPreKey(a, d)
          PROVE  LogExplainsDevices'
      <3>1. /\ DOMAIN devices' = DOMAIN devices
            /\ \A x \in DOMAIN devices :
                  /\ devices'[x].registeredAt = devices[x].registeredAt
                  /\ devices'[x].revokedAt = devices[x].revokedAt
        BY <1>2, <2>4, ClaimedDevice DEF IInv
      <3>2. log' = log
        BY <2>4 DEF ClaimPreKey
      <3> QED
        BY <1>2, <3>1, <3>2 DEF LogExplainsDevices, LastEntry
    <2> QED
      BY <1>2, <2>1, <2>2, <2>3, <2>4, DeviceSteps
  <1> QED
    BY <1>1, <1>2, InvariantHolds, PTL DEF Spec

----------------------------------------------------------------------------
(* One-time prekeys *)

\* HandedOutOncePerPublication is inductive once the claims of the past are
\* known to name publications of the past: the next one has a number of its own.
ClaimsOfThePast == \A c \in handedOut : c.publication \in 1 .. Len(log)

\* Distinct members of a list stay distinct in its tail, without the head.
LEMMA TailOfDistinct ==
    ASSUME NEW s \in Seq(Nat), s # << >>,
           \A i, j \in DOMAIN s : s[i] = s[j] => i = j
    PROVE  /\ \A i \in DOMAIN Tail(s) : i + 1 \in DOMAIN s /\ Tail(s)[i] = s[i + 1]
           /\ \A i, j \in DOMAIN Tail(s) : Tail(s)[i] = Tail(s)[j] => i = j
           /\ \A i \in DOMAIN Tail(s) : Tail(s)[i] # Head(s)
  <1>1. /\ Len(s) \in Nat \ {0}
        /\ DOMAIN s = 1 .. Len(s)
        /\ DOMAIN Tail(s) = 1 .. Len(s) - 1
        /\ Head(s) = s[1]
    OBVIOUS
  <1>2. \A i \in DOMAIN Tail(s) : i \in Nat \ {0} /\ i + 1 \in DOMAIN s
                                  /\ Tail(s)[i] = s[i + 1]
    BY <1>1
  <1>3. ASSUME NEW i \in DOMAIN Tail(s), NEW j \in DOMAIN Tail(s),
               Tail(s)[i] = Tail(s)[j]
        PROVE  i = j
    <2>1. i + 1 = j + 1
      BY <1>2, <1>3
    <2> QED
      BY <1>2, <2>1
  <1>4. ASSUME NEW i \in DOMAIN Tail(s)
        PROVE  Tail(s)[i] # Head(s)
    <2>1. i + 1 # 1 /\ 1 \in DOMAIN s
      BY <1>1, <1>2
    <2> QED
      BY <1>1, <1>2, <2>1
  <1> QED
    BY <1>2, <1>3, <1>4

\* Publishing again starts a list of distinct keys under a new number.
LEMMA PublishedIsFresh ==
    ASSUME TypeOK, ClaimsOfThePast, HandedOutOncePerPublication,
           NEW a \in Account, NEW d \in Device, NEW type \in Publishing,
           AddDevice(a, d, type), UNCHANGED handedOut
    PROVE  ClaimsOfThePast' /\ HandedOutOncePerPublication'
  <1>1. AppendTransparencyEntry(type, a, d)
    BY DEF AddDevice
  <1>2. Len(log) \in Nat /\ Len(log') = Len(log) + 1
    BY <1>1 DEF AppendTransparencyEntry, TypeOK
  <1>3. ClaimsOfThePast'
    BY <1>2 DEF ClaimsOfThePast
  <1>4. \A c \in handedOut : c.publication # Len(log) + 1
    BY <1>2 DEF ClaimsOfThePast
  <1>5. \A i, j \in DOMAIN PublishedKeys : PublishedKeys[i] = PublishedKeys[j] => i = j
    BY DEF PublishedKeys
  <1>6. ASSUME NEW x \in DOMAIN devices'
        PROVE  /\ \A i, j \in DOMAIN devices'[x].preKeys :
                     devices'[x].preKeys[i] = devices'[x].preKeys[j] => i = j
               /\ \A c \in handedOut' :
                     /\ c.account = x[1]
                     /\ c.device = x[2]
                     /\ c.publication = devices'[x].registeredAt
                     => \A i \in DOMAIN devices'[x].preKeys :
                           devices'[x].preKeys[i] # c.key
    <2>1. CASE x = <<a, d>>
      BY <1>4, <1>5, <2>1, PublishedDevice
    <2>2. CASE x # <<a, d>>
      <3>1. x \in DOMAIN devices /\ devices'[x] = devices[x]
        BY <1>6, <2>2, PublishedDevice
      <3> QED
        BY <3>1 DEF HandedOutOncePerPublication
    <2> QED
      BY <2>1, <2>2
  <1> QED
    BY <1>3, <1>6 DEF HandedOutOncePerPublication

\* A claim takes the head of the list away and remembers it.
LEMMA ClaimTakesTheHead ==
    ASSUME TypeOK, ClaimsOfThePast, HandedOutOncePerPublication,
           NEW a \in Account, NEW d \in Device, ClaimPreKey(a, d),
           devices[<<a, d>>].registeredAt \in 1 .. Len(log)
    PROVE  ClaimsOfThePast' /\ HandedOutOncePerPublication'
  <1> DEFINE claim == [account |-> a, device |-> d,
                       key |-> Head(devices[<<a, d>>].preKeys),
                       publication |-> devices[<<a, d>>].registeredAt]
  <1>1. handedOut' = handedOut \union {claim} /\ log' = log
    BY DEF ClaimPreKey
  <1>2. ClaimsOfThePast'
    BY <1>1 DEF ClaimsOfThePast
  <1>3. ASSUME NEW x \in DOMAIN devices'
        PROVE  /\ \A i, j \in DOMAIN devices'[x].preKeys :
                     devices'[x].preKeys[i] = devices'[x].preKeys[j] => i = j
               /\ \A c \in handedOut' :
                     /\ c.account = x[1]
                     /\ c.device = x[2]
                     /\ c.publication = devices'[x].registeredAt
                     => \A i \in DOMAIN devices'[x].preKeys :
                           devices'[x].preKeys[i] # c.key
    <2>1. CASE x = <<a, d>>
      <3> DEFINE s == devices[<<a, d>>].preKeys
      <3>1. /\ s \in Seq(Nat) /\ s # << >>
            /\ devices'[x].preKeys = Tail(s)
            /\ devices'[x].registeredAt = devices[<<a, d>>].registeredAt
            /\ <<a, d>> \in DOMAIN devices
        BY <2>1, ClaimedDevice
      <3>2. /\ \A i, j \in DOMAIN s : s[i] = s[j] => i = j
            /\ \A c \in handedOut :
                  /\ c.account = x[1]
                  /\ c.device = x[2]
                  /\ c.publication = devices[<<a, d>>].registeredAt
                  => \A i \in DOMAIN s : s[i] # c.key
        BY <2>1, <3>1 DEF HandedOutOncePerPublication
      <3>3. claim.key = Head(s)
        OBVIOUS
      <3> HIDE DEF s, claim
      <3>4. /\ \A i \in DOMAIN Tail(s) : i + 1 \in DOMAIN s /\ Tail(s)[i] = s[i + 1]
            /\ \A i, j \in DOMAIN Tail(s) : Tail(s)[i] = Tail(s)[j] => i = j
            /\ \A i \in DOMAIN Tail(s) : Tail(s)[i] # Head(s)
        BY <3>1, <3>2, TailOfDistinct
      <3>5. \A i, j \in DOMAIN devices'[x].preKeys :
               devices'[x].preKeys[i] = devices'[x].preKeys[j] => i = j
        BY <3>1, <3>4
      <3>6. ASSUME NEW c \in handedOut', c.account = x[1], c.device = x[2],
                   c.publication = devices'[x].registeredAt
            PROVE  \A i \in DOMAIN Tail(s) : Tail(s)[i] # c.key
        <4>1. CASE c \in handedOut
          <5>1. \A i \in DOMAIN s : s[i] # c.key
            BY <3>1, <3>2, <3>6, <4>1
          <5> QED
            BY <3>4, <5>1
        <4>2. CASE c = claim
          BY <3>3, <3>4, <4>2
        <4> QED
          BY <1>1, <3>6, <4>1, <4>2
      <3> QED
        BY <3>1, <3>5, <3>6
    <2>2. CASE x # <<a, d>>
      <3>1. x \in DOMAIN devices /\ devices'[x] = devices[x] /\ x = <<x[1], x[2]>>
        BY <1>3, <2>2, ClaimedDevice DEF TypeOK
      <3>2. ~ (claim.account = x[1] /\ claim.device = x[2])
        BY <2>2, <3>1
      <3> QED
        BY <1>1, <3>1, <3>2 DEF HandedOutOncePerPublication
    <2> QED
      BY <2>1, <2>2
  <1> QED
    BY <1>2, <1>3 DEF HandedOutOncePerPublication

\* A prekey that claimPreKey returned comes back only with a new publication.
THEOREM PreKeysHandedOutOnce == Spec => []HandedOutOncePerPublication
  <1>1. Init => ClaimsOfThePast /\ HandedOutOncePerPublication
    <2>1. Init => DOMAIN devices = {} /\ handedOut = {}
      BY DEF Init, EmptyTable
    <2> QED
      BY <2>1 DEF ClaimsOfThePast, HandedOutOncePerPublication
  <1>2. ASSUME IInv, LogExplainsDevices, ClaimsOfThePast,
               HandedOutOncePerPublication, [Next]_vars
        PROVE  ClaimsOfThePast' /\ HandedOutOncePerPublication'
    <2>1. CASE UNCHANGED <<devices, log, handedOut>>
      BY <1>2, <2>1 DEF ClaimsOfThePast, HandedOutOncePerPublication
    <2>2. ASSUME NEW a \in Account, NEW d \in Device, NEW type \in Publishing,
                 Published(a, d, type), UNCHANGED handedOut
          PROVE  ClaimsOfThePast' /\ HandedOutOncePerPublication'
      BY <1>2, <2>2, PublishedIsFresh DEF Published, IInv
    <2>3. ASSUME NEW a \in Account, NEW d \in Device, RevokeDevice(a, d)
          PROVE  ClaimsOfThePast' /\ HandedOutOncePerPublication'
      <3>1. /\ handedOut' = handedOut
            /\ Len(log) \in Nat /\ Len(log') = Len(log) + 1
        BY <1>2, <2>3 DEF RevokeDevice, AppendTransparencyEntry, IInv, TypeOK
      <3>2. /\ DOMAIN devices' = DOMAIN devices
            /\ \A x \in DOMAIN devices :
                  /\ devices'[x].registeredAt = devices[x].registeredAt
                  /\ devices'[x].preKeys = devices[x].preKeys
        BY <1>2, <2>3, RevokedDevice DEF IInv
      <3>3. ClaimsOfThePast'
        BY <1>2, <3>1 DEF ClaimsOfThePast
      <3> QED
        BY <1>2, <3>1, <3>2, <3>3 DEF HandedOutOncePerPublication
    <2>4. ASSUME NEW a \in Account, NEW d \in Device, ClaimPreKey(a, d)
          PROVE  ClaimsOfThePast' /\ HandedOutOncePerPublication'
      <3>1. <<a, d>> \in DOMAIN devices
        BY <1>2, <2>4, ClaimedDevice DEF IInv
      <3>2. devices[<<a, d>>].registeredAt \in DOMAIN log
        BY <1>2, <3>1 DEF LogExplainsDevices, LastEntry
      <3>3. DOMAIN log = 1 .. Len(log)
        BY <1>2 DEF IInv, TypeOK
      <3> QED
        BY <1>2, <2>4, <3>2, <3>3, ClaimTakesTheHead DEF IInv
    <2> QED
      BY <1>2, <2>1, <2>2, <2>3, <2>4, DeviceSteps
  <1> QED
    BY <1>1, <1>2, InvariantHolds, LogIsComplete, PTL DEF Spec
=============================================================================

-------------------------- MODULE DirectoryProofs --------------------------
(* Theorems about Directory, for every value of its constants.              *)
EXTENDS Directory, TLAPS

----------------------------------------------------------------------------
(* Tables *)

\* Writing one key of a table keeps it a table and touches no other key.
LEMMA PutLemma ==
    ASSUME NEW K, NEW V, NEW f, NEW k \in K, NEW v \in V,
           DOMAIN f \subseteq K, f \in [DOMAIN f -> V]
    PROVE  /\ DOMAIN Put(f, k, v) = DOMAIN f \union {k}
           /\ DOMAIN Put(f, k, v) \subseteq K
           /\ Put(f, k, v) \in [DOMAIN Put(f, k, v) -> V]
           /\ Put(f, k, v)[k] = v
           /\ \A x \in DOMAIN f : x # k => Put(f, k, v)[x] = f[x]
  BY DEF Put

----------------------------------------------------------------------------
(* Type correctness *)

\* The list a device publishes is a list of prekey ids.
LEMMA PublishedKeysType == PublishedKeys \in Seq(Nat)
  <1>1. PreKeyCount \in Nat
    BY CountAssumption
  <1>2. \A i \in 1..PreKeyCount : i \in Nat
    OBVIOUS
  <1> QED
    BY <1>1, <1>2 DEF PublishedKeys

\* Publishing a device keeps the tables of devices and of log entries typed.
LEMMA AddDeviceType ==
    ASSUME TypeOK, NEW a \in Account, NEW d \in Device,
           NEW type \in Publishing, AddDevice(a, d, type)
    PROVE  /\ DOMAIN devices' \subseteq Account \X Device
           /\ devices' \in [DOMAIN devices' -> DeviceRec]
           /\ log' \in Seq(Entry)
  <1> DEFINE rec == [registeredAt |-> Now, revokedAt |-> RevokedAt(a, d),
                     preKeys |-> PublishedKeys]
  <1>1. Now \in Nat \ {0}
    BY DEF TypeOK, Now
  <1>2. RevokedAt(a, d) \in Nat
    BY DEF TypeOK, RevokedAt, DeviceRec
  <1>3. rec \in DeviceRec
    BY <1>1, <1>2, PublishedKeysType DEF DeviceRec
  <1>4. devices' = Put(devices, <<a, d>>, rec)
    BY DEF AddDevice
  <1>5. <<a, d>> \in Account \X Device
    OBVIOUS
  <1>6. /\ DOMAIN devices' \subseteq Account \X Device
        /\ devices' \in [DOMAIN devices' -> DeviceRec]
    <2> HIDE DEF rec
    <2>1. DOMAIN devices \subseteq Account \X Device
          /\ devices \in [DOMAIN devices -> DeviceRec]
      BY DEF TypeOK
    <2> QED
      BY <1>3, <1>4, <1>5, <2>1, PutLemma
  <1>7. log' \in Seq(Entry)
    BY DEF TypeOK, AddDevice, AppendTransparencyEntry, Entry, Publishing, Opening
  <1> QED
    BY <1>6, <1>7

\* Opening an account keeps the accounts and the phone index typed.
LEMMA OpenNewAccountType ==
    ASSUME TypeOK, NEW a \in Account, NEW p \in Phone,
           NEW inviter \in Account \union {NoAccount}, NEW pw \in Password,
           OpenNewAccount(a, p, inviter, pw)
    PROVE  /\ DOMAIN accounts' \subseteq Account
           /\ accounts' \in [DOMAIN accounts' -> AccountRec]
           /\ DOMAIN phoneIndex' \subseteq Phone
           /\ phoneIndex' \in [DOMAIN phoneIndex' -> Account]
  <1> DEFINE rec == [phone |-> p, invitedBy |-> inviter,
                     password |-> pw, createdAt |-> Now]
  <1>1. Now \in Nat \ {0}
    BY DEF TypeOK, Now
  <1>2. rec \in AccountRec
    BY <1>1 DEF AccountRec
  <1>3. accounts' = Put(accounts, a, rec) /\ phoneIndex' = Put(phoneIndex, p, a)
    BY DEF OpenNewAccount
  <1>4. /\ DOMAIN accounts \subseteq Account
        /\ accounts \in [DOMAIN accounts -> AccountRec]
        /\ DOMAIN phoneIndex \subseteq Phone
        /\ phoneIndex \in [DOMAIN phoneIndex -> Account]
    BY DEF TypeOK
  <1> HIDE DEF rec
  <1>5. /\ DOMAIN accounts' \subseteq Account
        /\ accounts' \in [DOMAIN accounts' -> AccountRec]
    BY <1>2, <1>3, <1>4, PutLemma
  <1>6. /\ DOMAIN phoneIndex' \subseteq Phone
        /\ phoneIndex' \in [DOMAIN phoneIndex' -> Account]
    BY <1>3, <1>4, PutLemma
  <1> QED
    BY <1>5, <1>6

\* Using an invite up keeps the invites typed.
LEMMA UseInviteType ==
    ASSUME TypeOK, NEW r \in DOMAIN invites, NEW a \in Account, UseInvite(r, a)
    PROVE  /\ DOMAIN invites' = DOMAIN invites
           /\ invites' \in [DOMAIN invites' -> InviteRec]
           /\ invites'[r] = [invites[r] EXCEPT !.status = "used", !.invitee = a]
           /\ \A s \in DOMAIN invites : s # r => invites'[s] = invites[s]
  BY DEF TypeOK, UseInvite, InviteRec

\* Replacing the live invites of a phone keeps the invites typed.
LEMMA InvalidatedType ==
    ASSUME TypeOK, NEW p \in Phone
    PROVE  /\ DOMAIN Invalidated(p) = DOMAIN invites
           /\ Invalidated(p) \in [DOMAIN invites -> InviteRec]
  BY DEF TypeOK, Invalidated, InviteRec

\* Every handler keeps the types.
LEMMA TypeStep == TypeOK /\ [Next]_vars => TypeOK'
  <1> SUFFICES ASSUME TypeOK, [Next]_vars
               PROVE  TypeOK'
    OBVIOUS
  <1>1. ASSUME NEW a \in Account, NEW p \in Phone, NEW pw \in Password,
               NEW d \in Device, BootstrapAccount(a, p, pw, d)
        PROVE  TypeOK'
    <2>1. "account.bootstrap" \in Publishing
      BY DEF Publishing, Opening
    <2> QED
      BY <1>1, <2>1, OpenNewAccountType, AddDeviceType DEF BootstrapAccount, TypeOK
  <1>2. ASSUME NEW a \in Account, NEW pw \in Password, NEW d \in Device,
               RegisterDevice(a, pw, d)
        PROVE  TypeOK'
    <2>1. "device.registered" \in Publishing
      BY DEF Publishing
    <2> QED
      BY <1>2, <2>1, AddDeviceType DEF RegisterDevice, TypeOK
  <1>3. ASSUME NEW r \in Request, NEW a \in Account, NEW pw \in Password,
               NEW d \in Device, CompleteNewAccount(r, a, pw, d)
        PROVE  TypeOK'
    <2>1. "account.invited" \in Publishing
      BY DEF Publishing, Opening
    <2>2. r \in DOMAIN invites /\ invites[r].phone \in Phone
          /\ invites[r].sponsor \in Account
      BY <1>3 DEF CompleteNewAccount, Presentable, Live, TypeOK, InviteRec
    <2>3. /\ DOMAIN accounts' \subseteq Account
          /\ accounts' \in [DOMAIN accounts' -> AccountRec]
          /\ DOMAIN phoneIndex' \subseteq Phone
          /\ phoneIndex' \in [DOMAIN phoneIndex' -> Account]
      BY <1>3, <2>2, OpenNewAccountType DEF CompleteNewAccount
    <2>4. DOMAIN invites' \subseteq Request
          /\ invites' \in [DOMAIN invites' -> InviteRec]
      BY <1>3, <2>2, UseInviteType DEF CompleteNewAccount, TypeOK
    <2> QED
      BY <1>3, <2>1, <2>3, <2>4, AddDeviceType DEF CompleteNewAccount, TypeOK
  <1>4. ASSUME NEW r \in Request, NEW a \in Account, NEW pw \in Password,
               ReplacePassword(r, a, pw)
        PROVE  /\ DOMAIN accounts' \subseteq Account
               /\ accounts' \in [DOMAIN accounts' -> AccountRec]
               /\ DOMAIN invites' \subseteq Request
               /\ invites' \in [DOMAIN invites' -> InviteRec]
    <2>1. r \in DOMAIN invites
      BY <1>4 DEF ReplacePassword, Presentable, Live
    <2>2. DOMAIN invites' \subseteq Request
          /\ invites' \in [DOMAIN invites' -> InviteRec]
      BY <1>4, <2>1, UseInviteType DEF ReplacePassword, TypeOK
    <2>3. DOMAIN accounts' \subseteq Account
          /\ accounts' \in [DOMAIN accounts' -> AccountRec]
      BY <1>4 DEF ReplacePassword, TypeOK, AccountRec
    <2> QED
      BY <2>2, <2>3
  <1>5. ASSUME NEW r \in Request, NEW a \in Account, NEW pw \in Password,
               NEW d \in Device, CompleteReset(r, a, pw, d)
        PROVE  TypeOK'
    <2>1. "account.password-reset" \in Publishing
      BY DEF Publishing
    <2> QED
      BY <1>4, <1>5, <2>1, AddDeviceType DEF CompleteReset, TypeOK
  <1>6. ASSUME NEW r \in Request, NEW a \in Account, NEW pw \in Password,
               NEW d \in Device, ResetWithRevokedDevice(r, a, pw, d)
        PROVE  TypeOK'
    BY <1>4, <1>6 DEF ResetWithRevokedDevice, TypeOK
  <1>7. ASSUME NEW a \in Account, NEW d \in Device, RevokeDevice(a, d)
        PROVE  TypeOK'
    <2>1. Now \in Nat
      BY DEF TypeOK, Now
    <2>2. DOMAIN devices' = DOMAIN devices
          /\ devices' \in [DOMAIN devices' -> DeviceRec]
      BY <1>7, <2>1 DEF RevokeDevice, TypeOK, DeviceRec
    <2>3. log' \in Seq(Entry)
      BY <1>7 DEF RevokeDevice, AppendTransparencyEntry, TypeOK, Entry
    <2> QED
      BY <1>7, <2>2, <2>3 DEF RevokeDevice, TypeOK
  <1>8. ASSUME NEW a \in Account, NEW d \in Device, ClaimPreKey(a, d)
        PROVE  TypeOK'
    <2> DEFINE x == <<a, d>>
    <2>1. x \in DOMAIN devices /\ devices[x] \in DeviceRec
          /\ devices[x].preKeys # << >>
      BY <1>8 DEF ClaimPreKey, TypeOK
    <2>2. /\ devices[x].preKeys \in Seq(Nat)
          /\ devices[x].registeredAt \in Nat
      BY <2>1 DEF DeviceRec
    <2>3. Head(devices[x].preKeys) \in Nat /\ Tail(devices[x].preKeys) \in Seq(Nat)
      BY <2>1, <2>2
    <2>4. DOMAIN devices' = DOMAIN devices
          /\ devices' \in [DOMAIN devices' -> DeviceRec]
      BY <1>8, <2>1, <2>3 DEF ClaimPreKey, TypeOK, DeviceRec
    <2>5. handedOut' \subseteq Claim
      BY <1>8, <2>2, <2>3 DEF ClaimPreKey, TypeOK, Claim
    <2> QED
      BY <1>8, <2>4, <2>5 DEF ClaimPreKey, TypeOK
  <1>9. ASSUME NEW r \in Request, NEW sponsor \in Account, NEW p \in Phone,
               CreateQrInvite(r, sponsor, p)
        PROVE  TypeOK'
    <2> DEFINE known == p \in DOMAIN phoneIndex
               rec == [purpose |-> IF known THEN "password-reset"
                                            ELSE "registration",
                       phone |-> p, sponsor |-> sponsor, status |-> "approved",
                       invitee |-> IF known THEN phoneIndex[p] ELSE NoAccount]
    <2>1. rec \in InviteRec
      BY DEF TypeOK, InviteRec
    <2>2. invites' = Put(Invalidated(p), r, rec)
      BY <1>9 DEF CreateQrInvite
    <2> HIDE DEF rec
    <2>3. DOMAIN invites' \subseteq Request
          /\ invites' \in [DOMAIN invites' -> InviteRec]
      BY <2>1, <2>2, InvalidatedType, PutLemma DEF TypeOK
    <2> QED
      BY <1>9, <2>3 DEF CreateQrInvite, TypeOK
  <1>10. ASSUME NEW r \in Request, ExpireInvite(r)
         PROVE  TypeOK'
    BY <1>10 DEF ExpireInvite, TypeOK
  <1>11. CASE UNCHANGED vars
    BY <1>11 DEF vars, TypeOK
  <1> QED
    BY <1>1, <1>2, <1>3, <1>5, <1>6, <1>7, <1>8, <1>9, <1>10, <1>11
       DEF Next, CompleteRegistration

\* Types hold initially and every handler keeps them.
THEOREM TypeCorrect == Spec => []TypeOK
  <1>1. Init => TypeOK
    BY DEF Init, TypeOK, EmptyTable
  <1> QED
    BY <1>1, TypeStep, PTL DEF Spec

----------------------------------------------------------------------------
(* Phones and invites *)

\* Nothing is said of an account that is not in the directory.
AccountsKnown ==
    /\ \A r \in DOMAIN invites : invites[r].sponsor \in DOMAIN accounts
    /\ \A i \in DOMAIN log : log[i].account \in DOMAIN accounts
    /\ \A x \in DOMAIN devices : x[1] \in DOMAIN accounts

\* The inductive invariant.  ReferralTree needs AccountsKnown: only then does
\* an empty directory mean an empty log (the owner's entry is the first) and
\* the sponsor of an invite stand in the tree before the account it opens.
\* OneInviteOpenedAccount needs LiveInviteMatchesPhone (the invite that opens
\* an account is a registration invite), which needs the two others.
IInv ==
    /\ TypeOK
    /\ PhoneOwnership
    /\ OneLiveInvitePerPhone
    /\ LiveInviteMatchesPhone
    /\ AccountsKnown
    /\ ReferralTree
    /\ OneInviteOpenedAccount

\* What opening an account does to the tables.
LEMMA OpenNewAccountEffect ==
    ASSUME TypeOK, NEW a \in Account, NEW p \in Phone,
           NEW inviter \in Account \union {NoAccount}, NEW pw \in Password,
           OpenNewAccount(a, p, inviter, pw)
    PROVE  /\ DOMAIN accounts' = DOMAIN accounts \union {a}
           /\ accounts'[a] = [phone |-> p, invitedBy |-> inviter,
                              password |-> pw, createdAt |-> Now]
           /\ \A b \in DOMAIN accounts : b # a => accounts'[b] = accounts[b]
           /\ DOMAIN phoneIndex' = DOMAIN phoneIndex \union {p}
           /\ phoneIndex'[p] = a
           /\ \A q \in DOMAIN phoneIndex : q # p => phoneIndex'[q] = phoneIndex[q]
  BY DEF OpenNewAccount, Put, TypeOK

\* What publishing a device does to the devices and the log.
LEMMA AddDeviceEffect ==
    ASSUME TypeOK, NEW a \in Account, NEW d \in Device,
           NEW type, AddDevice(a, d, type)
    PROVE  /\ DOMAIN devices' = DOMAIN devices \union {<<a, d>>}
           /\ DOMAIN log = 1..Len(log)
           /\ Len(log) \in Nat
           /\ DOMAIN log' = 1..(Len(log) + 1)
           /\ log'[Len(log) + 1] = [type |-> type, account |-> a, device |-> d]
           /\ \A i \in DOMAIN log : log'[i] = log[i]
  BY DEF AddDevice, AppendTransparencyEntry, Put, Now, TypeOK

\* What a new invite does to the invites.
LEMMA CreateQrInviteEffect ==
    ASSUME TypeOK, NEW r \in Request, NEW sponsor \in Account, NEW p \in Phone,
           CreateQrInvite(r, sponsor, p)
    PROVE  /\ DOMAIN invites' = DOMAIN invites \union {r}
           /\ r \notin DOMAIN invites
           /\ invites'[r].phone = p
           /\ invites'[r].sponsor = sponsor
           /\ invites'[r].status = "approved"
           /\ IF p \in DOMAIN phoneIndex
              THEN /\ invites'[r].purpose = "password-reset"
                   /\ invites'[r].invitee = phoneIndex[p]
              ELSE /\ invites'[r].purpose = "registration"
                   /\ invites'[r].invitee = NoAccount
           /\ \A s \in DOMAIN invites :
                 invites'[s] = IF invites[s].status = "approved"
                                  /\ invites[s].phone = p
                               THEN [invites[s] EXCEPT !.status = "replaced"]
                               ELSE invites[s]
  <1>1. DOMAIN Invalidated(p) = DOMAIN invites
    BY DEF Invalidated
  <1> QED
    BY <1>1 DEF CreateQrInvite, Put, Invalidated, Live, TypeOK, InviteRec

\* The tree stands while the log only grows and the accounts keep the fields
\* it is made of.
LEMMA GrowingLogKeepsTree ==
    ASSUME IInv,
           DOMAIN accounts' = DOMAIN accounts,
           \A b \in DOMAIN accounts :
               /\ accounts'[b].createdAt = accounts[b].createdAt
               /\ accounts'[b].invitedBy = accounts[b].invitedBy,
           DOMAIN log \subseteq DOMAIN log',
           \A i \in DOMAIN log : log'[i] = log[i]
    PROVE  ReferralTree'
  BY DEF IInv, ReferralTree

\* The first account: every table holds just what belongs to it.
LEMMA BootstrapKeepsIInv ==
    ASSUME IInv, NEW a \in Account, NEW p \in Phone, NEW pw \in Password,
           NEW d \in Device, BootstrapAccount(a, p, pw, d), TypeOK'
    PROVE  IInv'
  <1> DEFINE x == <<a, d>>
  <1>1. /\ DOMAIN accounts = {} /\ DOMAIN phoneIndex = {}
        /\ DOMAIN devices = {} /\ DOMAIN invites = {} /\ DOMAIN log = {}
    BY DEF BootstrapAccount, IInv, PhoneOwnership, AccountsKnown
  <1>2. /\ DOMAIN accounts' = {a} /\ DOMAIN phoneIndex' = {p}
        /\ accounts'[a] = [phone |-> p, invitedBy |-> NoAccount,
                           password |-> pw, createdAt |-> Now]
        /\ phoneIndex'[p] = a
    BY <1>1, OpenNewAccountEffect DEF BootstrapAccount, IInv
  <1>3. /\ DOMAIN devices' = {x} /\ Now = 1 /\ DOMAIN log' = {1}
        /\ log'[1] = [type |-> "account.bootstrap", account |-> a, device |-> d]
    <2>1. TypeOK /\ AddDevice(a, d, "account.bootstrap")
      BY DEF BootstrapAccount, IInv
    <2>2. /\ DOMAIN devices' = DOMAIN devices \union {x}
          /\ DOMAIN log = 1..Len(log)
          /\ Len(log) \in Nat
          /\ DOMAIN log' = 1..(Len(log) + 1)
          /\ log'[Len(log) + 1] =
                [type |-> "account.bootstrap", account |-> a, device |-> d]
      BY <2>1, AddDeviceEffect
    <2>3. Len(log) = 0
      BY <1>1, <2>2
    <2> QED
      BY <1>1, <2>2, <2>3 DEF Now
  <1>4. DOMAIN invites' = {}
    BY <1>1 DEF BootstrapAccount
  <1>5. PhoneOwnership'
    BY <1>2 DEF PhoneOwnership
  <1>6. OneLiveInvitePerPhone' /\ LiveInviteMatchesPhone'
    BY <1>4 DEF OneLiveInvitePerPhone, LiveInviteMatchesPhone
  <1>7. AccountsKnown'
    BY <1>2, <1>3, <1>4 DEF AccountsKnown
  <1>8. ReferralTree'
    BY <1>2, <1>3 DEF ReferralTree
  <1>9. OneInviteOpenedAccount'
    BY <1>2, <1>4 DEF OneInviteOpenedAccount, Opened
  <1> QED
    BY <1>5, <1>6, <1>7, <1>8, <1>9 DEF IInv

\* Publishing a device of a known account touches no account and no invite.
LEMMA RegisterKeepsIInv ==
    ASSUME IInv, NEW a \in Account, NEW pw \in Password,
           NEW d \in Device, RegisterDevice(a, pw, d), TypeOK'
    PROVE  IInv'
  <1>1. /\ a \in DOMAIN accounts
        /\ UNCHANGED <<accounts, phoneIndex, invites, expired, handedOut>>
        /\ AddDevice(a, d, "device.registered")
    BY DEF RegisterDevice
  <1>2. /\ DOMAIN devices' = DOMAIN devices \union {<<a, d>>}
        /\ DOMAIN log = 1..Len(log) /\ Len(log) \in Nat
        /\ DOMAIN log' = 1..(Len(log) + 1)
        /\ log'[Len(log) + 1].account = a
        /\ \A i \in DOMAIN log : log'[i] = log[i]
    <2>1. TypeOK
      BY DEF IInv
    <2>2. log'[Len(log) + 1] =
             [type |-> "device.registered", account |-> a, device |-> d]
      BY <1>1, <2>1, AddDeviceEffect
    <2> QED
      BY <1>1, <2>1, <2>2, AddDeviceEffect
  <1>3. AccountsKnown'
    <2>1. \A i \in DOMAIN log' : i \in DOMAIN log \/ i = Len(log) + 1
      BY <1>2
    <2> QED
      BY <1>1, <1>2, <2>1 DEF IInv, AccountsKnown
  <1>4. ReferralTree'
    BY <1>1, <1>2, GrowingLogKeepsTree
  <1>5. /\ PhoneOwnership' /\ OneLiveInvitePerPhone' /\ LiveInviteMatchesPhone'
        /\ OneInviteOpenedAccount'
    BY <1>1 DEF IInv, PhoneOwnership, OneLiveInvitePerPhone, Live,
                LiveInviteMatchesPhone, OneInviteOpenedAccount, Opened
  <1> QED
    BY <1>3, <1>4, <1>5 DEF IInv

\* The same of a revocation.
LEMMA RevokeKeepsIInv ==
    ASSUME IInv, NEW a \in Account, NEW d \in Device, RevokeDevice(a, d), TypeOK'
    PROVE  IInv'
  <1>1. /\ <<a, d>> \in DOMAIN devices /\ DOMAIN devices' = DOMAIN devices
        /\ UNCHANGED <<accounts, phoneIndex, invites, expired, handedOut>>
    BY DEF RevokeDevice
  <1>2. a \in DOMAIN accounts
    BY <1>1 DEF IInv, AccountsKnown
  <1>3. /\ DOMAIN log = 1..Len(log) /\ Len(log) \in Nat
        /\ DOMAIN log' = 1..(Len(log) + 1)
        /\ log'[Len(log) + 1].account = a
        /\ \A i \in DOMAIN log : log'[i] = log[i]
    BY DEF RevokeDevice, AppendTransparencyEntry, IInv, TypeOK
  <1>4. AccountsKnown'
    <2>1. \A i \in DOMAIN log' : i \in DOMAIN log \/ i = Len(log) + 1
      BY <1>3
    <2> QED
      BY <1>1, <1>2, <1>3, <2>1 DEF IInv, AccountsKnown
  <1>5. ReferralTree'
    BY <1>1, <1>3, GrowingLogKeepsTree
  <1>6. /\ PhoneOwnership' /\ OneLiveInvitePerPhone' /\ LiveInviteMatchesPhone'
        /\ OneInviteOpenedAccount'
    BY <1>1 DEF IInv, PhoneOwnership, OneLiveInvitePerPhone, Live,
                LiveInviteMatchesPhone, OneInviteOpenedAccount, Opened
  <1> QED
    BY <1>4, <1>5, <1>6 DEF IInv

\* A new invite replaces the live one of its phone and fits the phone index.
LEMMA CreateKeepsIInv ==
    ASSUME IInv, NEW r \in Request, NEW sponsor \in Account, NEW p \in Phone,
           CreateQrInvite(r, sponsor, p), TypeOK'
    PROVE  IInv'
  <1>1. /\ sponsor \in DOMAIN accounts
        /\ UNCHANGED <<accounts, phoneIndex, devices, expired, log, handedOut>>
    BY DEF CreateQrInvite
  <1>2. /\ DOMAIN invites' = DOMAIN invites \union {r}
        /\ r \notin DOMAIN invites
        /\ invites'[r].phone = p
        /\ invites'[r].sponsor = sponsor
        /\ invites'[r].status = "approved"
        /\ IF p \in DOMAIN phoneIndex
           THEN /\ invites'[r].purpose = "password-reset"
                /\ invites'[r].invitee = phoneIndex[p]
           ELSE /\ invites'[r].purpose = "registration"
                /\ invites'[r].invitee = NoAccount
    BY CreateQrInviteEffect DEF IInv
  <1>3. \A s \in DOMAIN invites :
           /\ invites'[s].phone = invites[s].phone
           /\ invites'[s].sponsor = invites[s].sponsor
           /\ invites'[s].purpose = invites[s].purpose
           /\ invites'[s].invitee = invites[s].invitee
           /\ invites'[s].status = "approved" =>
                 invites[s].status = "approved" /\ invites[s].phone # p
           /\ invites'[s].status = "used" <=> invites[s].status = "used"
    <2> SUFFICES ASSUME NEW s \in DOMAIN invites
                 PROVE  /\ invites'[s].phone = invites[s].phone
                        /\ invites'[s].sponsor = invites[s].sponsor
                        /\ invites'[s].purpose = invites[s].purpose
                        /\ invites'[s].invitee = invites[s].invitee
                        /\ invites'[s].status = "approved" =>
                              invites[s].status = "approved" /\ invites[s].phone # p
                        /\ invites'[s].status = "used" <=> invites[s].status = "used"
      OBVIOUS
    <2>1. invites[s] \in InviteRec
      BY DEF IInv, TypeOK
    <2>2. invites'[s] = IF invites[s].status = "approved" /\ invites[s].phone = p
                        THEN [invites[s] EXCEPT !.status = "replaced"]
                        ELSE invites[s]
      BY CreateQrInviteEffect DEF IInv
    <2> QED
      BY <2>1, <2>2 DEF InviteRec
  <1>4. OneLiveInvitePerPhone'
    BY <1>2, <1>3 DEF IInv, OneLiveInvitePerPhone, Live
  <1>5. LiveInviteMatchesPhone'
    BY <1>1, <1>2, <1>3 DEF IInv, LiveInviteMatchesPhone, Live
  <1>6. AccountsKnown'
    BY <1>1, <1>2, <1>3 DEF IInv, AccountsKnown
  <1>7. PhoneOwnership' /\ ReferralTree'
    BY <1>1 DEF IInv, PhoneOwnership, ReferralTree
  <1>8. OneInviteOpenedAccount'
    <2>1. \A s \in DOMAIN invites', b \in Account :
             Opened(s, b)' <=> s \in DOMAIN invites /\ Opened(s, b)
      BY <1>2, <1>3 DEF Opened
    <2>2. \A s \in DOMAIN invites' :
             invites'[s].status = "used" => s \in DOMAIN invites
      BY <1>2
    <2>3. DOMAIN accounts \subseteq Account
      BY DEF IInv, TypeOK
    <2>4. \A b \in DOMAIN accounts' : accounts'[b].invitedBy # NoAccount =>
             \E s \in DOMAIN invites' : Opened(s, b)'
      BY <1>1, <1>2, <2>1, <2>3 DEF IInv, OneInviteOpenedAccount
    <2>5. \A b \in Account, s, t \in DOMAIN invites' :
             Opened(s, b)' /\ Opened(t, b)' => s = t
      BY <2>1 DEF IInv, OneInviteOpenedAccount
    <2>6. \A s \in DOMAIN invites' :
             invites'[s].status = "used" /\ invites'[s].purpose = "registration" =>
             /\ invites'[s].invitee \in DOMAIN accounts'
             /\ accounts'[invites'[s].invitee].phone = invites'[s].phone
             /\ accounts'[invites'[s].invitee].invitedBy = invites'[s].sponsor
      BY <1>1, <1>3, <2>2 DEF IInv, OneInviteOpenedAccount
    <2> QED
      BY <2>4, <2>5, <2>6 DEF OneInviteOpenedAccount
  <1> QED
    BY <1>4, <1>5, <1>6, <1>7, <1>8 DEF IInv

\* A reset keeps every account but for its password, and uses up an invite that
\* opened no account.
LEMMA ReplacePasswordKeepsInvites ==
    ASSUME IInv, NEW r \in Request, NEW a \in Account, NEW pw \in Password,
           ReplacePassword(r, a, pw), UNCHANGED phoneIndex, TypeOK'
    PROVE  /\ DOMAIN accounts' = DOMAIN accounts /\ a \in DOMAIN accounts
           /\ \A b \in DOMAIN accounts :
                 /\ accounts'[b].createdAt = accounts[b].createdAt
                 /\ accounts'[b].invitedBy = accounts[b].invitedBy
                 /\ accounts'[b].phone = accounts[b].phone
           /\ \A s \in DOMAIN invites' : invites'[s].sponsor \in DOMAIN accounts
           /\ PhoneOwnership' /\ OneLiveInvitePerPhone'
           /\ LiveInviteMatchesPhone' /\ OneInviteOpenedAccount'
  <1>1. /\ r \in DOMAIN invites /\ invites[r].status = "approved"
        /\ invites[r].phone \in DOMAIN phoneIndex
        /\ a = phoneIndex[invites[r].phone]
        /\ invites[r].purpose = "password-reset"
        /\ accounts' = [accounts EXCEPT ![a].password = pw]
        /\ UseInvite(r, a)
    BY DEF ReplacePassword, Presentable, Live
  <1>2. a \in DOMAIN accounts
    BY <1>1 DEF IInv, PhoneOwnership
  <1>3. /\ DOMAIN accounts' = DOMAIN accounts
        /\ \A b \in DOMAIN accounts :
              /\ accounts'[b].createdAt = accounts[b].createdAt
              /\ accounts'[b].invitedBy = accounts[b].invitedBy
              /\ accounts'[b].phone = accounts[b].phone
    BY <1>1 DEF IInv, TypeOK, AccountRec
  <1>4. /\ DOMAIN invites' = DOMAIN invites
        /\ invites'[r] = [invites[r] EXCEPT !.status = "used", !.invitee = a]
        /\ \A s \in DOMAIN invites : s # r => invites'[s] = invites[s]
    BY <1>1, UseInviteType DEF IInv
  <1>5. invites[r] \in InviteRec
    BY <1>1 DEF IInv, TypeOK
  <1>6. /\ invites'[r].status = "used"
        /\ invites'[r].purpose = "password-reset"
        /\ invites'[r].sponsor = invites[r].sponsor
    BY <1>1, <1>4, <1>5 DEF InviteRec
  <1>7. \A s \in DOMAIN invites' : invites'[s].sponsor \in DOMAIN accounts
    BY <1>1, <1>4, <1>6 DEF IInv, AccountsKnown
  <1>8. PhoneOwnership'
    BY <1>3 DEF IInv, PhoneOwnership
  <1>9. OneLiveInvitePerPhone'
    BY <1>4, <1>6 DEF IInv, OneLiveInvitePerPhone, Live
  <1>10. LiveInviteMatchesPhone'
    <2>1. \A s \in DOMAIN invites' : Live(s)' =>
             s \in DOMAIN invites /\ Live(s) /\ invites'[s] = invites[s]
      BY <1>4, <1>6 DEF Live
    <2>2. phoneIndex' = phoneIndex
      OBVIOUS
    <2> QED
      BY <2>1, <2>2 DEF IInv, LiveInviteMatchesPhone
  <1>11. OneInviteOpenedAccount'
    <2>1. \A s \in DOMAIN invites', b \in Account :
             Opened(s, b)' <=> s \in DOMAIN invites /\ Opened(s, b)
      BY <1>1, <1>4, <1>6 DEF Opened
    <2>2. DOMAIN accounts \subseteq Account
      BY DEF IInv, TypeOK
    <2>3. \A b \in DOMAIN accounts' : accounts'[b].invitedBy # NoAccount =>
             \E s \in DOMAIN invites' : Opened(s, b)'
      BY <1>3, <1>4, <2>1, <2>2 DEF IInv, OneInviteOpenedAccount
    <2>4. \A b \in Account, s, t \in DOMAIN invites' :
             Opened(s, b)' /\ Opened(t, b)' => s = t
      BY <2>1 DEF IInv, OneInviteOpenedAccount
    <2>5. \A s \in DOMAIN invites' :
             invites'[s].status = "used" /\ invites'[s].purpose = "registration" =>
             s # r /\ invites'[s] = invites[s]
      BY <1>4, <1>6
    <2>6. \A s \in DOMAIN invites' :
             invites'[s].status = "used" /\ invites'[s].purpose = "registration" =>
             /\ invites'[s].invitee \in DOMAIN accounts'
             /\ accounts'[invites'[s].invitee].phone = invites'[s].phone
             /\ accounts'[invites'[s].invitee].invitedBy = invites'[s].sponsor
      BY <1>3, <1>4, <2>5 DEF IInv, OneInviteOpenedAccount
    <2> QED
      BY <2>3, <2>4, <2>6 DEF OneInviteOpenedAccount
  <1> QED
    BY <1>2, <1>3, <1>7, <1>8, <1>9, <1>10, <1>11

\* The reset that goes through also publishes a device of the account.
LEMMA CompleteResetKeepsIInv ==
    ASSUME IInv, NEW r \in Request, NEW a \in Account, NEW pw \in Password,
           NEW d \in Device, CompleteReset(r, a, pw, d), TypeOK'
    PROVE  IInv'
  <1>1. /\ ReplacePassword(r, a, pw) /\ UNCHANGED phoneIndex
        /\ AddDevice(a, d, "account.password-reset")
    BY DEF CompleteReset
  <1>2. TypeOK
    BY DEF IInv
  <1>3. /\ DOMAIN devices' = DOMAIN devices \union {<<a, d>>}
        /\ DOMAIN log = 1..Len(log) /\ Len(log) \in Nat
        /\ DOMAIN log' = 1..(Len(log) + 1)
        /\ log'[Len(log) + 1] =
              [type |-> "account.password-reset", account |-> a, device |-> d]
        /\ \A i \in DOMAIN log : log'[i] = log[i]
    BY <1>1, <1>2, AddDeviceEffect
  <1>4. ReferralTree'
    BY <1>1, <1>3, ReplacePasswordKeepsInvites, GrowingLogKeepsTree
  <1>5. AccountsKnown'
    <2>1. \A i \in DOMAIN log' : i \in DOMAIN log \/ i = Len(log) + 1
      BY <1>3
    <2> QED
      BY <1>1, <1>3, <2>1, ReplacePasswordKeepsInvites DEF IInv, AccountsKnown
  <1> QED
    BY <1>1, <1>4, <1>5, ReplacePasswordKeepsInvites DEF IInv

\* The reset that fails half-way leaves the invariant standing.
LEMMA FailedResetKeepsIInv ==
    ASSUME IInv, NEW r \in Request, NEW a \in Account, NEW pw \in Password,
           NEW d \in Device, ResetWithRevokedDevice(r, a, pw, d), TypeOK'
    PROVE  IInv'
  <1>1. /\ ReplacePassword(r, a, pw)
        /\ UNCHANGED <<phoneIndex, devices, expired, log, handedOut>>
    BY DEF ResetWithRevokedDevice
  <1>2. ReferralTree'
    BY <1>1, ReplacePasswordKeepsInvites, GrowingLogKeepsTree
  <1>3. AccountsKnown'
    BY <1>1, ReplacePasswordKeepsInvites DEF IInv, AccountsKnown
  <1> QED
    BY <1>1, <1>2, <1>3, ReplacePasswordKeepsInvites DEF IInv

\* A new account: its phone and its id are free, its invite is the only live one
\* of its phone, and its inviter is already in the tree.
LEMMA CompleteNewAccountKeepsIInv ==
    ASSUME IInv, NEW r \in Request, NEW a \in Account, NEW pw \in Password,
           NEW d \in Device, CompleteNewAccount(r, a, pw, d), TypeOK'
    PROVE  IInv'
  <1> DEFINE p == invites[r].phone
             inviter == invites[r].sponsor
  <1>1. /\ r \in DOMAIN invites /\ invites[r].status = "approved"
        /\ p \notin DOMAIN phoneIndex /\ a \notin DOMAIN accounts
        /\ OpenNewAccount(a, p, inviter, pw)
        /\ UseInvite(r, a)
        /\ AddDevice(a, d, "account.invited")
    BY DEF CompleteNewAccount, Presentable, Live
  <1>2. TypeOK /\ invites[r] \in InviteRec /\ p \in Phone /\ inviter \in Account
    BY <1>1 DEF IInv, TypeOK, InviteRec
  <1>3. /\ inviter \in DOMAIN accounts /\ inviter # a /\ inviter # NoAccount
        /\ invites[r].purpose = "registration"
    BY <1>1, <1>2, NullAssumption
       DEF IInv, AccountsKnown, LiveInviteMatchesPhone, Live
  <1>4. /\ DOMAIN accounts' = DOMAIN accounts \union {a}
        /\ accounts'[a] = [phone |-> p, invitedBy |-> inviter,
                           password |-> pw, createdAt |-> Now]
        /\ \A b \in DOMAIN accounts : accounts'[b] = accounts[b]
        /\ DOMAIN phoneIndex' = DOMAIN phoneIndex \union {p}
        /\ phoneIndex'[p] = a
        /\ \A q \in DOMAIN phoneIndex : phoneIndex'[q] = phoneIndex[q]
    <2>1. inviter \in Account \union {NoAccount}
      BY <1>2
    <2> HIDE DEF p, inviter
    <2>2. /\ DOMAIN accounts' = DOMAIN accounts \union {a}
          /\ accounts'[a] = [phone |-> p, invitedBy |-> inviter,
                             password |-> pw, createdAt |-> Now]
          /\ \A b \in DOMAIN accounts : b # a => accounts'[b] = accounts[b]
          /\ DOMAIN phoneIndex' = DOMAIN phoneIndex \union {p}
          /\ phoneIndex'[p] = a
          /\ \A q \in DOMAIN phoneIndex : q # p => phoneIndex'[q] = phoneIndex[q]
      BY <1>1, <1>2, <2>1, OpenNewAccountEffect
    <2> QED
      BY <1>1, <2>2
  <1>5. /\ DOMAIN devices' = DOMAIN devices \union {<<a, d>>}
        /\ DOMAIN log = 1..Len(log) /\ Len(log) \in Nat
        /\ DOMAIN log' = 1..(Len(log) + 1)
        /\ log'[Len(log) + 1] =
              [type |-> "account.invited", account |-> a, device |-> d]
        /\ \A i \in DOMAIN log : log'[i] = log[i]
    BY <1>1, <1>2, AddDeviceEffect
  <1>6. /\ DOMAIN invites' = DOMAIN invites
        /\ invites'[r] = [invites[r] EXCEPT !.status = "used", !.invitee = a]
        /\ \A s \in DOMAIN invites : s # r => invites'[s] = invites[s]
    BY <1>1, <1>2, UseInviteType
  <1>7. /\ invites'[r].status = "used"
        /\ invites'[r].purpose = "registration"
        /\ invites'[r].sponsor = inviter
        /\ invites'[r].phone = p
        /\ invites'[r].invitee = a
    BY <1>2, <1>3, <1>6 DEF InviteRec
  <1> HIDE DEF p, inviter
  <1>8. PhoneOwnership'
    <2>1. \A q \in DOMAIN phoneIndex :
             phoneIndex[q] \in DOMAIN accounts /\ accounts[phoneIndex[q]].phone = q
      BY DEF IInv, PhoneOwnership
    <2>2. \A b \in DOMAIN accounts : /\ accounts[b].phone \in DOMAIN phoneIndex
                                    /\ phoneIndex[accounts[b].phone] = b
      BY DEF IInv, PhoneOwnership
    <2> QED
      BY <1>4, <2>1, <2>2 DEF PhoneOwnership
  <1>9. \A s \in DOMAIN invites' : Live(s)' =>
           /\ s \in DOMAIN invites /\ Live(s) /\ s # r
           /\ invites'[s] = invites[s]
           /\ invites[s].phone # p
    BY <1>1, <1>6, <1>7 DEF IInv, OneLiveInvitePerPhone, Live, p
  <1>10. OneLiveInvitePerPhone'
    BY <1>9 DEF IInv, OneLiveInvitePerPhone
  <1>11. LiveInviteMatchesPhone'
    BY <1>4, <1>9 DEF IInv, LiveInviteMatchesPhone
  <1>12. AccountsKnown'
    <2>1. \A i \in DOMAIN log' : i \in DOMAIN log \/ i = Len(log) + 1
      BY <1>5
    <2>2. \A i \in DOMAIN log' : log'[i].account \in DOMAIN accounts'
      BY <1>4, <1>5, <2>1 DEF IInv, AccountsKnown
    <2>3. \A s \in DOMAIN invites' : invites'[s].sponsor \in DOMAIN accounts'
      BY <1>3, <1>4, <1>6, <1>7 DEF IInv, AccountsKnown
    <2>4. \A x \in DOMAIN devices' : x[1] \in DOMAIN accounts'
      BY <1>4, <1>5 DEF IInv, AccountsKnown
    <2> QED
      BY <2>2, <2>3, <2>4 DEF AccountsKnown
  <1>13. ReferralTree'
    <2> DEFINE Fits(b) ==
          LET rec == accounts'[b] IN
          /\ rec.createdAt \in DOMAIN log'
          /\ log'[rec.createdAt].account = b
          /\ IF rec.invitedBy = NoAccount
             THEN /\ rec.createdAt = 1
                  /\ log'[1].type = "account.bootstrap"
             ELSE /\ log'[rec.createdAt].type = "account.invited"
                  /\ rec.invitedBy \in DOMAIN accounts'
                  /\ accounts'[rec.invitedBy].createdAt < rec.createdAt
    <2>1. ASSUME NEW b \in DOMAIN accounts
          PROVE  Fits(b)
      <3>1. /\ accounts'[b] = accounts[b]
            /\ accounts[b].createdAt \in DOMAIN log'
            /\ log'[accounts[b].createdAt] = log[accounts[b].createdAt]
        BY <1>4, <1>5 DEF IInv, ReferralTree
      <3>2. CASE accounts[b].invitedBy = NoAccount
        BY <3>1, <3>2 DEF IInv, ReferralTree
      <3>3. CASE accounts[b].invitedBy # NoAccount
        BY <1>4, <3>1, <3>3 DEF IInv, ReferralTree
      <3> QED
        BY <3>2, <3>3
    <2>2. Fits(a)
      <3>1. accounts[inviter].createdAt \in DOMAIN log
        BY <1>3 DEF IInv, ReferralTree
      <3>2. accounts'[inviter].createdAt < Len(log) + 1
        BY <1>3, <1>4, <1>5, <3>1
      <3>3. accounts'[a].createdAt = Len(log) + 1 /\ accounts'[a].invitedBy = inviter
        BY <1>4 DEF Now
      <3> QED
        BY <1>3, <1>4, <1>5, <3>2, <3>3
    <2> HIDE DEF Fits
    <2>3. \A b \in DOMAIN accounts' : Fits(b)
      BY <1>4, <2>1, <2>2
    <2> QED
      BY <2>3 DEF Fits, ReferralTree
  <1>14. OneInviteOpenedAccount'
    <2>1. \A s \in DOMAIN invites', b \in Account :
             Opened(s, b)' <=> (s = r /\ b = a) \/ (s # r /\ Opened(s, b))
      BY <1>1, <1>6, <1>7 DEF Opened
    <2>2. \A s \in DOMAIN invites : ~Opened(s, a)
      BY <1>1 DEF IInv, OneInviteOpenedAccount, Opened
    <2>3. DOMAIN accounts \subseteq Account
      BY <1>2 DEF TypeOK
    <2>4. ~\E b \in Account : Opened(r, b)
      BY <1>1 DEF Opened
    <2>5. \A b \in DOMAIN accounts' : accounts'[b].invitedBy # NoAccount =>
             \E s \in DOMAIN invites' : Opened(s, b)'
      <3>1. ASSUME NEW b \in DOMAIN accounts, accounts'[b].invitedBy # NoAccount
            PROVE  \E s \in DOMAIN invites' : Opened(s, b)'
        <4>1. b \in Account /\ b # a /\ accounts[b].invitedBy # NoAccount
          BY <1>1, <1>4, <2>3, <3>1
        <4>2. PICK s \in DOMAIN invites : Opened(s, b)
          BY <4>1 DEF IInv, OneInviteOpenedAccount
        <4>3. s # r
          BY <2>4, <4>1, <4>2
        <4> QED
          BY <1>6, <2>1, <4>1, <4>2, <4>3
      <3>2. Opened(r, a)'
        BY <1>1, <1>6, <2>1
      <3> QED
        BY <1>1, <1>4, <1>6, <3>1, <3>2
    <2>6. \A b \in Account, s, t \in DOMAIN invites' :
             Opened(s, b)' /\ Opened(t, b)' => s = t
      BY <1>6, <2>1, <2>2 DEF IInv, OneInviteOpenedAccount
    <2>7. \A s \in DOMAIN invites' :
             invites'[s].status = "used" /\ invites'[s].purpose = "registration" =>
             /\ invites'[s].invitee \in DOMAIN accounts'
             /\ accounts'[invites'[s].invitee].phone = invites'[s].phone
             /\ accounts'[invites'[s].invitee].invitedBy = invites'[s].sponsor
      <3>1. accounts'[a].phone = p /\ accounts'[a].invitedBy = inviter
        BY <1>4
      <3>2. ASSUME NEW s \in DOMAIN invites, s # r, invites[s].status = "used",
                   invites[s].purpose = "registration"
            PROVE  /\ invites[s].invitee \in DOMAIN accounts
                   /\ accounts'[invites[s].invitee].phone = invites[s].phone
                   /\ accounts'[invites[s].invitee].invitedBy = invites[s].sponsor
        BY <1>4, <3>2 DEF IInv, OneInviteOpenedAccount
      <3>3. ASSUME NEW s \in DOMAIN invites', invites'[s].status = "used",
                   invites'[s].purpose = "registration"
            PROVE  /\ invites'[s].invitee \in DOMAIN accounts'
                   /\ accounts'[invites'[s].invitee].phone = invites'[s].phone
                   /\ accounts'[invites'[s].invitee].invitedBy = invites'[s].sponsor
        <4>1. CASE s = r
          BY <1>4, <1>7, <3>1, <4>1
        <4>2. CASE s # r
          <5>1. s \in DOMAIN invites /\ invites'[s] = invites[s]
            BY <1>6, <3>3, <4>2
          <5>2. /\ invites[s].invitee \in DOMAIN accounts
                /\ accounts'[invites[s].invitee].phone = invites[s].phone
                /\ accounts'[invites[s].invitee].invitedBy = invites[s].sponsor
            BY <3>2, <3>3, <4>2, <5>1
          <5> QED
            BY <1>4, <5>1, <5>2
        <4> QED
          BY <4>1, <4>2
      <3> QED
        BY <3>3
    <2> QED
      BY <2>5, <2>6, <2>7 DEF OneInviteOpenedAccount
  <1> QED
    BY <1>8, <1>10, <1>11, <1>12, <1>13, <1>14 DEF IInv

\* A claim changes the prekeys of a device and nothing the invariant is about.
LEMMA ClaimKeepsIInv ==
    ASSUME IInv, NEW a \in Account, NEW d \in Device, ClaimPreKey(a, d), TypeOK'
    PROVE  IInv'
  <1>1. /\ DOMAIN devices' = DOMAIN devices
        /\ UNCHANGED <<accounts, phoneIndex, invites, expired, log>>
    BY DEF ClaimPreKey
  <1> QED
    BY <1>1 DEF IInv, PhoneOwnership, OneLiveInvitePerPhone, Live, AccountsKnown,
                LiveInviteMatchesPhone, ReferralTree, OneInviteOpenedAccount, Opened

\* Every step keeps the inductive invariant.
LEMMA IInvStep == IInv /\ [Next]_vars => IInv'
  <1> SUFFICES ASSUME IInv, [Next]_vars
               PROVE  IInv'
    OBVIOUS
  <1>1. TypeOK'
    BY TypeStep DEF IInv
  <1>2. ASSUME NEW r \in Request, ExpireInvite(r)
        PROVE  IInv'
    <2>1. UNCHANGED <<accounts, phoneIndex, devices, invites, log, handedOut>>
      BY <1>2 DEF ExpireInvite
    <2> QED
      BY <1>1, <2>1
         DEF IInv, PhoneOwnership, OneLiveInvitePerPhone, Live, AccountsKnown,
             LiveInviteMatchesPhone, ReferralTree, OneInviteOpenedAccount, Opened
  <1>3. CASE UNCHANGED vars
    BY <1>1, <1>3
       DEF vars, IInv, PhoneOwnership, OneLiveInvitePerPhone, Live, AccountsKnown,
           LiveInviteMatchesPhone, ReferralTree, OneInviteOpenedAccount, Opened
  <1> QED
    BY <1>1, <1>2, <1>3, BootstrapKeepsIInv, RegisterKeepsIInv,
       CreateKeepsIInv, CompleteNewAccountKeepsIInv, CompleteResetKeepsIInv,
       FailedResetKeepsIInv, RevokeKeepsIInv, ClaimKeepsIInv
       DEF Next, CompleteRegistration

\* The empty directory satisfies it.
LEMMA InitIInv == Init => IInv
  <1> SUFFICES ASSUME Init PROVE IInv
    OBVIOUS
  <1>1. TypeOK
    BY DEF Init, TypeOK, EmptyTable
  <1>2. /\ DOMAIN accounts = {} /\ DOMAIN phoneIndex = {} /\ DOMAIN log = {}
        /\ DOMAIN devices = {} /\ DOMAIN invites = {}
    BY DEF Init, EmptyTable
  <1> QED
    BY <1>1, <1>2
       DEF IInv, PhoneOwnership, OneLiveInvitePerPhone, AccountsKnown,
           LiveInviteMatchesPhone, ReferralTree, OneInviteOpenedAccount, Opened

\* The inductive invariant holds in every reachable state.
THEOREM InvariantHolds == Spec => []IInv
  BY InitIInv, IInvStep, PTL DEF Spec

----------------------------------------------------------------------------
(* What follows from the invariant *)

\* The phone index and the accounts describe one one-to-one relation: the two
\* tables completeRegistration and bootstrapAccount write never disagree.
THEOREM PhonesAreOwned == Spec => []PhoneOwnership
  <1>1. IInv => PhoneOwnership
    BY DEF IInv
  <1> QED
    BY <1>1, InvariantHolds, PTL

\* A phone has at most one live invite: createQrInvite replaces the others.
THEOREM LiveInvitesAreAlone == Spec => []OneLiveInvitePerPhone
  <1>1. IInv => OneLiveInvitePerPhone
    BY DEF IInv
  <1> QED
    BY <1>1, InvariantHolds, PTL

\* The purpose and the invitee of an invite, fixed when it was created, still
\* fit the phone index when completeRegistration reads them.
THEOREM LiveInvitesAreCurrent == Spec => []LiveInviteMatchesPhone
  <1>1. IInv => LiveInviteMatchesPhone
    BY DEF IInv
  <1> QED
    BY <1>1, InvariantHolds, PTL

\* The accounts form a tree under the owner's, in order of creation.
THEOREM AccountsFormTree == Spec => []ReferralTree
  <1>1. IInv => ReferralTree
    BY DEF IInv
  <1> QED
    BY <1>1, InvariantHolds, PTL

\* Invited accounts and used registration invites match one to one.
THEOREM InvitesMatchAccounts == Spec => []OneInviteOpenedAccount
  <1>1. IInv => OneInviteOpenedAccount
    BY DEF IInv
  <1> QED
    BY <1>1, InvariantHolds, PTL

=============================================================================

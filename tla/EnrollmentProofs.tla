-------------------------- MODULE EnrollmentProofs --------------------------
(***************************************************************************)
(* What state files and the directory know of each other, for every value  *)
(* of the constants.  A step adds few kinds of states to the ones that are *)
(* kept and few kinds of devices to the directory (KeptStep, DeviceStep);  *)
(* both invariants follow from that.                                       *)
(***************************************************************************)
EXTENDS Enrollment, DirectoryStepProofs

----------------------------------------------------------------------------
(* The directory does what it does by itself *)

\* Commands without a call, lookups, and what follows the answer, leave the
\* directory.
LEMMA SilentCommands ==
    ASSUME NEW s \in Dir
    PROVE  /\ \A a \in Account, d \in Device : InitState(s, a, d) => UNCHANGED vars
           /\ \A t \in Dir, d \in Device : LinkDevice(s, t, d) => UNCHANGED vars
           /\ RecoveryExport(s) \/ RecoveryRestore(s) => UNCHANGED vars
           /\ SaveAnswer(s) \/ CommandFails(s) => UNCHANGED vars
           /\ LookUpOwnAccount(s) => UNCHANGED vars
  BY DEF InitState, LinkDevice, RecoveryExport, RecoveryRestore, SaveAnswer, CommandFails,
         LookUpOwnAccount

\* A state that is there parses and is of this world.
LEMMA WholeStates ==
    ASSUME EnrollmentTypeOK, NEW s \in Dir
    PROVE  /\ Whole(s) => local[s] \in LocalState /\ local[s] \in Kept
           /\ answer[s] # NoAnswer => answer[s] \in LocalState /\ answer[s] \in Kept
  BY DEF EnrollmentTypeOK, Whole, Kept

\* Every state that is kept is of this world.
LEMMA KeptType == EnrollmentTypeOK => Kept \subseteq LocalState
  BY DEF EnrollmentTypeOK, Kept, Whole

\* The handlers behind the calls of a command.
LEMMA CallSteps ==
    ASSUME EnrollmentTypeOK, NEW s \in Dir
    PROVE  /\ \A p \in Phone, pw \in Password : BootstrapOwner(s, p, pw) => Next
           /\ \A pw \in Password : Register(s, pw) => Next
           /\ \A r \in Request, pw \in Password : CompleteInvite(s, r, pw) => Next
           /\ \A r \in Request, a \in Account, pw \in Password :
                 CompletePasswordReset(s, r, a, pw) \/ CompleteRefused(s, r, a, pw) => Next
           /\ \A r \in Request, p \in Phone : Invite(s, r, p) => Next
           /\ \A d \in Device : Revoke(s, d) => Next
  <1> DEFINE a == local[s].account
             d == local[s].device
  <1>1. Calls(s) => a \in Account /\ d \in Device
    BY WholeStates DEF Calls, LocalState
  <1> HIDE DEF a, d
  <1>2. ASSUME NEW r \in Request, NEW p \in Phone, Invite(s, r, p)
        PROVE  Next
    BY <1>1, <1>2 DEF Invite, Next, a
  <1>3. ASSUME NEW e \in Device, Revoke(s, e)
        PROVE  Next
    BY <1>1, <1>3 DEF Revoke, Next, a
  <1>4. ASSUME NEW p \in Phone, NEW pw \in Password, BootstrapOwner(s, p, pw)
        PROVE  Next
    BY <1>1, <1>4 DEF BootstrapOwner, Next, a, d
  <1>5. ASSUME NEW pw \in Password, Register(s, pw)
        PROVE  Next
    BY <1>1, <1>5 DEF Register, Next, a, d
  <1>6. ASSUME NEW r \in Request, NEW pw \in Password, CompleteInvite(s, r, pw)
        PROVE  Next
    BY <1>1, <1>6 DEF CompleteInvite, CompleteRegistration, Next, a, d
  <1>7. ASSUME NEW r \in Request, NEW b \in Account, NEW pw \in Password,
               CompletePasswordReset(s, r, b, pw) \/ CompleteRefused(s, r, b, pw)
        PROVE  Next
    <2>1. Calls(s) /\ CompleteRegistration(r, b, pw, d)
      BY <1>7 DEF CompletePasswordReset, CompleteRefused, CompleteRegistration, d
    <2> QED
      BY <1>1, <2>1 DEF Next
  <1> QED
    BY <1>2, <1>3, <1>4, <1>5, <1>6, <1>7

\* What a command does to the directory is a step of the directory.
LEMMA DirectorySteps == EnrollmentTypeOK /\ [EnrollmentNext]_allVars => [Next]_vars
  <1> SUFFICES ASSUME EnrollmentTypeOK, EnrollmentNext
               PROVE  Next \/ UNCHANGED vars
    BY DEF allVars
  <1>1. CASE \E r \in Request : ExpireInvite(r) /\ UNCHANGED clientVars
    BY <1>1 DEF Next
  <1> QED
    BY <1>1, SilentCommands, CallSteps DEF EnrollmentNext

----------------------------------------------------------------------------
(* What a step adds *)

\* init and link-device make a state with a device that was never drawn before,
\* that says of its account nothing or what another says.
Created(x) ==
    /\ x \in LocalState
    /\ x.device \notin drawn /\ x.device \in drawn'
    /\ \/ x.phone = NoPhone /\ x.listed = {}
       \/ \E y \in Kept : /\ x.account = y.account
                          /\ x.phone = y.phone
                          /\ x.invitedBy = y.invitedBy
                          /\ x.listed = y.listed

\* A lookup: a kept state with the devices the directory has for its account.
LookedUp(y) == [y EXCEPT !.listed = PublicDevices(y.account)]

\* A call publishes the device of a kept state under an account: that of the
\* state, or the one a reset moves the device to.
PublishedFor(y, a) ==
    /\ y \in Kept /\ a \in Account
    /\ DOMAIN devices' = DOMAIN devices \union {<<a, y.device>>}
    /\ a = y.account \/ y.device \in moved'

\* The ways the kept states and the devices of the directory change.
Unchanging == Kept' \subseteq Kept /\ DOMAIN devices' = DOMAIN devices
Creating(x) == /\ Kept' \subseteq Kept \union {x}
               /\ Created(x)
               /\ DOMAIN devices' = DOMAIN devices
Publishes(y, a) == /\ Kept' \subseteq Kept \union {AppliedAccount(y, a)}
                   /\ PublishedFor(y, a)
LooksUp(y) == /\ Kept' \subseteq Kept \union {LookedUp(y)}
              /\ DOMAIN devices' = DOMAIN devices

Change ==
    \/ Unchanging
    \/ \E x \in LocalState : Creating(x)
    \/ \E y \in Kept, a \in Account : Publishes(y, a)
    \/ \E y \in Kept : LooksUp(y)

\* Replacing a state file keeps only what it kept and the new content.
LEMMA ReplaceKeeps ==
    ASSUME EnrollmentTypeOK, NEW s \in Dir, NEW x, Replace(s, x),
           UNCHANGED bundles, UNCHANGED answer
    PROVE  /\ Kept' \subseteq Kept \union {x}
           /\ x \in {Absent, Torn} => Kept' \subseteq Kept
  BY DEF EnrollmentTypeOK, Replace, Kept, Whole

\* init makes a state of its own.
LEMMA InitCreates ==
    ASSUME EnrollmentTypeOK, NEW s \in Dir, NEW a \in Account, NEW d \in Device,
           InitState(s, a, d)
    PROVE  Creating(NewState(a, d))
  <1>1. NewState(a, d) \in LocalState
    BY DEF NewState, LocalState
  <1>2. Kept' \subseteq Kept \union {NewState(a, d)}
    BY ReplaceKeeps DEF InitState
  <1>3. DOMAIN devices' = DOMAIN devices
    BY DEF InitState, vars
  <1> QED
    BY <1>1, <1>2, <1>3 DEF Creating, Created, InitState, NewState

\* link-device copies a state under a device of its own.
LEMMA LinkCreates ==
    ASSUME EnrollmentTypeOK, NEW s \in Dir, NEW t \in Dir, NEW d \in Device,
           LinkDevice(s, t, d)
    PROVE  \E x \in LocalState : Creating(x)
  <1> DEFINE y == local[s]
             x == [y EXCEPT !.device = d]
  <1>1. y \in LocalState /\ y \in Kept
    BY WholeStates DEF LinkDevice
  <1>2. /\ x \in LocalState /\ x.device = d /\ x.listed = y.listed
        /\ x.account = y.account /\ x.phone = y.phone /\ x.invitedBy = y.invitedBy
    BY <1>1 DEF LocalState
  <1> HIDE DEF y
  <1>3. Replace(t, x) /\ UNCHANGED bundles /\ UNCHANGED answer
    BY DEF LinkDevice, y
  <1>4. d \notin drawn /\ d \in drawn' /\ DOMAIN devices' = DOMAIN devices
    BY DEF LinkDevice, vars
  <1> HIDE DEF x
  <1>5. Kept' \subseteq Kept \union {x}
    BY <1>3, ReplaceKeeps
  <1> QED
    BY <1>1, <1>2, <1>4, <1>5 DEF Creating, Created

\* Exporting, restoring, saving and failing move kept states around.
LEMMA MovesKeepKept ==
    ASSUME EnrollmentTypeOK, NEW s \in Dir,
           RecoveryExport(s) \/ RecoveryRestore(s) \/ SaveAnswer(s) \/ CommandFails(s)
    PROVE  Unchanging
  <1>1. DOMAIN devices' = DOMAIN devices
    BY SilentCommands DEF vars
  <1>2. CASE RecoveryExport(s)
    BY <1>1, <1>2, WholeStates DEF RecoveryExport, Unchanging, Kept, Whole
  <1>3. CASE RecoveryRestore(s)
    <2>1. PICK x \in bundles : Replace(s, x)
      BY <1>3 DEF RecoveryRestore
    <2>2. x \in Kept
      BY DEF Kept
    <2> QED
      BY <1>1, <1>3, <2>1, <2>2, ReplaceKeeps DEF RecoveryRestore, Unchanging
  <1>4. CASE SaveAnswer(s)
    BY <1>1, <1>4, WholeStates
       DEF SaveAnswer, Replace, Unchanging, Kept, Whole, EnrollmentTypeOK
  <1>5. CASE CommandFails(s)
    BY <1>1, <1>5 DEF CommandFails, Replace, Unchanging, Kept, Whole, EnrollmentTypeOK
  <1> QED
    BY <1>2, <1>3, <1>4, <1>5

\* A call that publishes the device brings an answer about it.
LEMMA AnswerPublishes ==
    ASSUME TypeOK, EnrollmentTypeOK, NEW s \in Dir, NEW a \in Account, NEW type,
           Calls(s), AddDevice(a, local[s].device, type), Answered(s, a),
           a = local[s].account \/ local[s].device \in moved'
    PROVE  Publishes(local[s], a)
  <1> DEFINE y == local[s]
             x == AppliedAccount(y, a)
  <1>1. y \in LocalState /\ y \in Kept /\ y.device \in Device
    BY WholeStates DEF Calls, LocalState
  <1>2. DOMAIN devices' = DOMAIN devices \union {<<a, y.device>>}
    <2> HIDE DEF y
    <2> QED
      BY <1>1, AddDeviceEffect DEF y
  <1>3. answer' = [answer EXCEPT ![s] = x] /\ UNCHANGED <<local, bundles>>
    BY DEF Answered
  <1> HIDE DEF x
  <1>4. Kept' \subseteq Kept \union {x}
    BY <1>3 DEF Kept, Whole, EnrollmentTypeOK
  <1> QED
    BY <1>1, <1>2, <1>4 DEF Publishes, PublishedFor, x

\* A lookup brings an answer with the same account and device.
LEMMA LookUpChanges ==
    ASSUME EnrollmentTypeOK, NEW s \in Dir, LookUpOwnAccount(s)
    PROVE  local[s] \in Kept /\ LooksUp(local[s])
  <1> DEFINE x == LookedUp(local[s])
  <1>1. local[s] \in Kept
    BY WholeStates DEF LookUpOwnAccount, Calls
  <1>2. /\ answer' = [answer EXCEPT ![s] = x] /\ UNCHANGED <<local, bundles>>
        /\ DOMAIN devices' = DOMAIN devices
    BY DEF LookUpOwnAccount, LookedUp, vars
  <1> HIDE DEF x
  <1>3. Kept' \subseteq Kept \union {x}
    BY <1>2 DEF Kept, Whole, EnrollmentTypeOK
  <1> QED
    BY <1>1, <1>2, <1>3 DEF LooksUp, x

\* What calls that save nothing leave alone.
LEMMA SilentCalls ==
    ASSUME UNCHANGED clientVars, DOMAIN devices' = DOMAIN devices
    PROVE  Unchanging
  BY DEF clientVars, Unchanging, Kept, Whole

\* Every step changes the kept states and the devices in one of these ways.
LEMMA ChangeStep ==
    TypeOK /\ EnrollmentTypeOK /\ [EnrollmentNext]_allVars => Change
  <1> SUFFICES ASSUME TypeOK, EnrollmentTypeOK, [EnrollmentNext]_allVars
               PROVE  Change
    OBVIOUS
  <1>1. ASSUME NEW s \in Dir, NEW a \in Account, NEW d \in Device, InitState(s, a, d)
        PROVE  Change
    BY <1>1, InitCreates DEF Change, Creating, Created
  <1>2. ASSUME NEW s \in Dir, NEW t \in Dir, NEW d \in Device, LinkDevice(s, t, d)
        PROVE  Change
    BY <1>2, LinkCreates DEF Change
  <1>3. ASSUME NEW s \in Dir,
               RecoveryExport(s) \/ RecoveryRestore(s) \/ SaveAnswer(s) \/ CommandFails(s)
        PROVE  Change
    BY <1>3, MovesKeepKept DEF Change
  <1>4. ASSUME NEW s \in Dir, Calls(s), UNCHANGED clientVars,
               DOMAIN devices' = DOMAIN devices
        PROVE  Change
    BY <1>4, SilentCalls DEF Change
  <1>5. ASSUME NEW s \in Dir, NEW a \in Account, NEW type, Calls(s),
               AddDevice(a, local[s].device, type), Answered(s, a),
               a = local[s].account \/ local[s].device \in moved'
        PROVE  Change
    <2>1. Publishes(local[s], a)
      BY <1>5, AnswerPublishes
    <2> QED
      BY <1>5, <2>1, WholeStates DEF Change, Calls
  <1>6. ASSUME NEW s \in Dir, NEW p \in Phone, NEW pw \in Password,
               BootstrapOwner(s, p, pw)
        PROVE  Change
    BY <1>5, <1>6, WholeStates DEF BootstrapOwner, BootstrapAccount, Calls, LocalState
  <1>7. ASSUME NEW s \in Dir, NEW pw \in Password, Register(s, pw)
        PROVE  Change
    BY <1>5, <1>7, WholeStates DEF Register, RegisterDevice, Calls, LocalState
  <1>8. ASSUME NEW s \in Dir, NEW r \in Request, NEW pw \in Password,
               CompleteInvite(s, r, pw)
        PROVE  Change
    BY <1>5, <1>8, WholeStates DEF CompleteInvite, CompleteNewAccount, Calls, LocalState
  <1>9. ASSUME NEW s \in Dir, NEW r \in Request, NEW a \in Account,
               NEW pw \in Password, CompletePasswordReset(s, r, a, pw)
        PROVE  Change
    <2>1. a = local[s].account \/ local[s].device \in moved'
      BY <1>9 DEF CompletePasswordReset
    <2>2. /\ Calls(s) /\ Answered(s, a)
          /\ AddDevice(a, local[s].device, "account.password-reset")
      BY <1>9 DEF CompletePasswordReset, CompleteReset
    <2> QED
      BY <1>5, <2>1, <2>2
  <1>10. ASSUME NEW s \in Dir, NEW r \in Request, NEW a \in Account,
                NEW pw \in Password, CompleteRefused(s, r, a, pw)
         PROVE  Change
    BY <1>4, <1>10 DEF CompleteRefused, ResetWithRevokedDevice
  <1>11. ASSUME NEW s \in Dir, NEW r \in Request, NEW p \in Phone, Invite(s, r, p)
         PROVE  Change
    BY <1>4, <1>11 DEF Invite, CreateQrInvite
  <1>12. ASSUME NEW s \in Dir, NEW d \in Device, Revoke(s, d)
         PROVE  Change
    BY <1>4, <1>12 DEF Revoke, RevokeDevice
  <1>13. CASE \E r \in Request : ExpireInvite(r) /\ UNCHANGED clientVars
    BY <1>13, SilentCalls DEF ExpireInvite, Change
  <1>14. CASE UNCHANGED allVars
    BY <1>14, SilentCalls DEF allVars, vars, Change
  <1>15. ASSUME NEW s \in Dir, LookUpOwnAccount(s)
         PROVE  Change
    <2>1. local[s] \in Kept /\ LooksUp(local[s])
      BY <1>15, LookUpChanges
    <2> QED
      BY <2>1 DEF Change
  <1> QED
    BY <1>1, <1>2, <1>3, <1>6, <1>7, <1>8, <1>9, <1>10, <1>11, <1>12, <1>13, <1>14, <1>15
       DEF EnrollmentNext

\* What was drawn stays drawn, and who was moved stays moved.
LEMMA HistoryGrows ==
    [EnrollmentNext]_allVars => drawn \subseteq drawn' /\ moved \subseteq moved'
  <1> SUFFICES ASSUME [EnrollmentNext]_allVars
               PROVE  drawn \subseteq drawn' /\ moved \subseteq moved'
    OBVIOUS
  <1> USE DEF clientVars, allVars
  <1>1. ASSUME NEW s \in Dir, NEW r \in Request, NEW a \in Account, NEW pw \in Password
        PROVE  CompletePasswordReset(s, r, a, pw) \/ CompleteRefused(s, r, a, pw)
                  => UNCHANGED drawn /\ moved \subseteq moved'
    BY DEF CompletePasswordReset, CompleteRefused, Answered
  <1>2. ASSUME NEW s \in Dir, NEW pw \in Password
        PROVE  /\ Register(s, pw) => UNCHANGED <<drawn, moved>>
               /\ \A p \in Phone : BootstrapOwner(s, p, pw) => UNCHANGED <<drawn, moved>>
               /\ \A r \in Request : CompleteInvite(s, r, pw) => UNCHANGED <<drawn, moved>>
    BY DEF Register, BootstrapOwner, CompleteInvite, Answered
  <1>3. ASSUME NEW s \in Dir
        PROVE  /\ \A r \in Request, p \in Phone : Invite(s, r, p) => UNCHANGED <<drawn, moved>>
               /\ \A d \in Device : Revoke(s, d) => UNCHANGED <<drawn, moved>>
               /\ \/ RecoveryExport(s) \/ RecoveryRestore(s)
                  \/ SaveAnswer(s) \/ CommandFails(s) \/ LookUpOwnAccount(s)
                  => UNCHANGED <<drawn, moved>>
    BY DEF Invite, Revoke, RecoveryExport, RecoveryRestore, SaveAnswer, CommandFails,
           LookUpOwnAccount
  <1>4. ASSUME NEW s \in Dir, NEW d \in Device
        PROVE  /\ \A a \in Account : InitState(s, a, d)
                     => drawn \subseteq drawn' /\ UNCHANGED moved
               /\ \A t \in Dir : LinkDevice(s, t, d)
                     => drawn \subseteq drawn' /\ UNCHANGED moved
    BY DEF InitState, LinkDevice
  <1> QED
    BY <1>1, <1>2, <1>3, <1>4 DEF EnrollmentNext

----------------------------------------------------------------------------
(* Type correctness *)

\* The answer of a call that published a device is a state of this world.
LEMMA AnswerType ==
    ASSUME EnrollmentTypeOK, AccountsKnown', TypeOK',
           NEW y \in Kept, NEW a \in Account, PublishedFor(y, a)
    PROVE  AppliedAccount(y, a) \in LocalState
  <1>1. y \in LocalState
    BY KeptType
  <1>2. a \in DOMAIN accounts'
    <2>1. <<a, y.device>> \in DOMAIN devices'
      BY DEF PublishedFor
    <2>2. <<a, y.device>>[1] \in DOMAIN accounts'
      BY <2>1 DEF AccountsKnown
    <2> QED
      BY <2>2
  <1>3. accounts'[a] \in AccountRec
    BY <1>2 DEF TypeOK
  <1> QED
    BY <1>1, <1>3 DEF AppliedAccount, LocalState, AccountRec, PublicDevices

\* What a lookup changes is a state of this world.
LEMMA LookedUpType ==
    ASSUME EnrollmentTypeOK, NEW y \in Kept
    PROVE  /\ LookedUp(y) \in LocalState
           /\ LookedUp(y).account = y.account /\ LookedUp(y).device = y.device
           /\ LookedUp(y).phone = y.phone /\ LookedUp(y).invitedBy = y.invitedBy
           /\ LookedUp(y).listed = PublicDevices(y.account)
  BY KeptType DEF LookedUp, LocalState, PublicDevices

\* Whatever changes, states that are kept are of this world.
LEMMA KeptStaysTyped ==
    ASSUME EnrollmentTypeOK, AccountsKnown', TypeOK', Change
    PROVE  Kept' \subseteq LocalState
  BY KeptType, AnswerType, LookedUpType DEF Change, Unchanging, Creating, Publishes, LooksUp

\* The tables of states stay tables over the directories.
TablesOK ==
    /\ local = [s \in Dir |-> local[s]]
    /\ answer = [s \in Dir |-> answer[s]]
    /\ drawn \subseteq Account \union Device
    /\ failures \in 0..MaxFailures
    /\ moved \subseteq Device

LEMMA TablesStep == EnrollmentTypeOK /\ [EnrollmentNext]_allVars => TablesOK'
  <1> SUFFICES ASSUME EnrollmentTypeOK, [EnrollmentNext]_allVars
               PROVE  TablesOK'
    OBVIOUS
  <1> USE DEF TablesOK, EnrollmentTypeOK
  <1>1. ASSUME NEW s \in Dir, NEW r \in Request, NEW a \in Account, NEW pw \in Password,
               CompletePasswordReset(s, r, a, pw) \/ CompleteRefused(s, r, a, pw)
        PROVE  TablesOK'
    <2>1. Calls(s) => local[s].device \in Device
      BY WholeStates DEF Calls, LocalState
    <2> QED
      BY <1>1, <2>1 DEF CompletePasswordReset, CompleteRefused, Answered, clientVars
  <1>2. ASSUME NEW s \in Dir, NEW pw \in Password,
               \/ Register(s, pw)
               \/ \E p \in Phone : BootstrapOwner(s, p, pw)
               \/ \E r \in Request : CompleteInvite(s, r, pw)
        PROVE  TablesOK'
    BY <1>2 DEF Register, BootstrapOwner, CompleteInvite, Answered
  <1>3. ASSUME NEW s \in Dir,
               \/ \E r \in Request, p \in Phone : Invite(s, r, p)
               \/ \E d \in Device : Revoke(s, d)
               \/ RecoveryExport(s)
               \/ RecoveryRestore(s)
               \/ SaveAnswer(s)
               \/ LookUpOwnAccount(s)
        PROVE  TablesOK'
    BY <1>3 DEF Invite, Revoke, RecoveryExport, RecoveryRestore, SaveAnswer, Replace,
                LookUpOwnAccount, clientVars
  <1>4. ASSUME NEW s \in Dir, CommandFails(s)
        PROVE  TablesOK'
    <2>1. failures' \in 0..MaxFailures
      BY <1>4, EnrollmentAssumption DEF CommandFails
    <2>2. local' = [t \in Dir |-> local'[t]]
      BY <1>4 DEF CommandFails, Replace
    <2> QED
      BY <1>4, <2>1, <2>2 DEF CommandFails
  <1>5. ASSUME NEW s \in Dir, NEW d \in Device,
               \/ \E a \in Account : InitState(s, a, d)
               \/ \E t \in Dir : LinkDevice(s, t, d)
        PROVE  TablesOK'
    BY <1>5 DEF InitState, LinkDevice, Replace
  <1>6. CASE \/ \E r \in Request : ExpireInvite(r) /\ UNCHANGED clientVars
             \/ UNCHANGED allVars
    BY <1>6 DEF clientVars, allVars
  <1> QED
    BY <1>1, <1>2, <1>3, <1>4, <1>5, <1>6 DEF EnrollmentNext

\* Tables of states that are kept are tables of states of this world.
LEMMA TablesOfKept ==
    ASSUME TablesOK', Kept' \subseteq LocalState
    PROVE  EnrollmentTypeOK'
  <1>1. \A s \in Dir : local'[s] \in LocalState \union {Absent, Torn}
    BY DEF Kept, Whole
  <1>2. \A s \in Dir : answer'[s] \in LocalState \union {NoAnswer}
    BY DEF Kept
  <1>3. bundles' \subseteq LocalState
    BY DEF Kept
  <1> QED
    BY <1>1, <1>2, <1>3 DEF TablesOK, EnrollmentTypeOK

\* What is known of the directory holds beside the commands, too.
EnrollmentInv == IInv /\ EnrollmentTypeOK

LEMMA EnrollmentInvStep ==
    EnrollmentInv /\ [EnrollmentNext]_allVars => EnrollmentInv'
  <1> SUFFICES ASSUME EnrollmentInv, [EnrollmentNext]_allVars
               PROVE  EnrollmentInv'
    OBVIOUS
  <1>1. IInv'
    BY DirectorySteps, IInvStep DEF EnrollmentInv
  <1>2. Kept' \subseteq LocalState
    BY <1>1, ChangeStep, KeptStaysTyped DEF EnrollmentInv, IInv
  <1>3. EnrollmentTypeOK'
    BY <1>2, TablesStep, TablesOfKept DEF EnrollmentInv
  <1> QED
    BY <1>1, <1>3 DEF EnrollmentInv

LEMMA EnrollmentInvInit == EnrollmentInit => EnrollmentInv
  <1> SUFFICES ASSUME EnrollmentInit
               PROVE  EnrollmentInv
    OBVIOUS
  <1>1. IInv
    BY InitIInv DEF EnrollmentInit
  <1>2. EnrollmentTypeOK
    BY EnrollmentAssumption DEF EnrollmentInit, EnrollmentTypeOK
  <1> QED
    BY <1>1, <1>2 DEF EnrollmentInv

\* State files, answers and bundles hold states of this world, or do not parse.
THEOREM EnrollmentTypeCorrect == EnrollmentSpec => []EnrollmentTypeOK
  <1>1. EnrollmentInv => EnrollmentTypeOK
    BY DEF EnrollmentInv
  <1> QED
    BY <1>1, EnrollmentInvInit, EnrollmentInvStep, PTL DEF EnrollmentSpec

----------------------------------------------------------------------------
(* What a state says is so *)

\* The directory says of this state what the state says of it.
Agrees(x) ==
    /\ \A d \in x.listed : <<x.account, d>> \in DOMAIN devices
    /\ x.phone # NoPhone =>
          /\ x.phone \in DOMAIN phoneIndex
          /\ phoneIndex[x.phone] = x.account
          /\ accounts[x.account].invitedBy = x.invitedBy

\* The directory never takes back what it said of a phone.
LEMMA PhonesStay ==
    ASSUME IInv, IInv', IdentityKept, NEW p \in DOMAIN phoneIndex
    PROVE  /\ p \in DOMAIN phoneIndex'
           /\ phoneIndex'[p] = phoneIndex[p]
           /\ accounts'[phoneIndex[p]].invitedBy = accounts[phoneIndex[p]].invitedBy
  <1> DEFINE a == phoneIndex[p]
  <1>1. a \in DOMAIN accounts /\ accounts[a].phone = p /\ accounts[a] \in AccountRec
    BY DEF IInv, PhoneOwnership, TypeOK
  <1>2. a \in DOMAIN accounts'
        /\ accounts'[a] = [accounts[a] EXCEPT !.password = accounts'[a].password]
    BY <1>1 DEF IdentityKept
  <1>3. accounts'[a].phone = p /\ accounts'[a].invitedBy = accounts[a].invitedBy
    BY <1>1, <1>2 DEF AccountRec
  <1> QED
    BY <1>2, <1>3 DEF IInv, PhoneOwnership

\* What a state said before the step, it says rightly after it.
LEMMA AgreementStays ==
    ASSUME IInv, IInv', IdentityKept, DOMAIN devices \subseteq DOMAIN devices',
           NEW x, Agrees(x)
    PROVE  Agrees(x)'
  BY PhonesStay DEF Agrees

\* The answer says what the directory says.
LEMMA AnswerAgrees ==
    ASSUME IInv', EnrollmentTypeOK, NEW y \in Kept, NEW a \in Account, PublishedFor(y, a),
           NEW x, x = AppliedAccount(y, a)
    PROVE  Agrees(x)'
  <1>1. y \in LocalState
    BY KeptType
  <1>2. <<a, y.device>> \in DOMAIN devices'
    BY DEF PublishedFor
  <1>3. a \in DOMAIN accounts'
    <2>1. <<a, y.device>>[1] \in DOMAIN accounts'
      BY <1>2 DEF IInv, AccountsKnown
    <2> QED
      BY <2>1
  <1>4. /\ x.account = a /\ x.device = y.device
        /\ x.phone = accounts'[a].phone /\ x.invitedBy = accounts'[a].invitedBy
        /\ x.listed = PublicDevices(a)
    BY <1>1 DEF AppliedAccount, LocalState
  <1>5. /\ x.phone \in DOMAIN phoneIndex'
        /\ phoneIndex'[x.phone] = a
    BY <1>3, <1>4 DEF IInv, PhoneOwnership
  <1> QED
    BY <1>4, <1>5 DEF Agrees, PublicDevices

\* A state that init or link-device makes says nothing new.
LEMMA CreatedAgrees ==
    ASSUME LocalAgreesWithDirectory, NEW x, Created(x)
    PROVE  Agrees(x)
  BY DEF LocalAgreesWithDirectory, Created, Agrees, LocalState

\* What a state lists of its account's devices, and says of its phone and
\* inviter, is so, whatever happened to it since: applyRegisteredAccount and
\* lookups write what the directory answered, under the account they asked for,
\* and the directory keeps what an answer says.
THEOREM StatesAgree == EnrollmentSpec => []LocalAgreesWithDirectory
  <1> DEFINE Inv == EnrollmentInv /\ LocalAgreesWithDirectory
  <1>1. EnrollmentInit => Inv
    BY EnrollmentInvInit DEF EnrollmentInit, LocalAgreesWithDirectory, Kept, Whole
  <1>2. Inv /\ [EnrollmentNext]_allVars => Inv'
    <2> SUFFICES ASSUME Inv, [EnrollmentNext]_allVars
                 PROVE  LocalAgreesWithDirectory'
      BY EnrollmentInvStep
    <2>1. /\ IInv /\ IInv' /\ TypeOK /\ EnrollmentTypeOK
      BY EnrollmentInvStep DEF EnrollmentInv, IInv
    <2>2. IdentityKept /\ Change
      BY <2>1, DirectorySteps, IdentityStep, ChangeStep
    <2>3. DOMAIN devices \subseteq DOMAIN devices'
      BY <2>2 DEF Change, Unchanging, Creating, Publishes, PublishedFor, LooksUp
    <2>4. ASSUME NEW x \in Kept'
          PROVE  Agrees(x)'
      <3>1. CASE x \in Kept
        <4>1. Agrees(x)
          BY <3>1 DEF LocalAgreesWithDirectory, Agrees
        <4> QED
          BY <2>1, <2>2, <2>3, <4>1, AgreementStays
      <3>2. CASE Creating(x)
        BY <2>1, <2>2, <2>3, <3>2, CreatedAgrees, AgreementStays DEF Creating
      <3>3. CASE \E y \in Kept, a \in Account :
                    x = AppliedAccount(y, a) /\ PublishedFor(y, a)
        BY <2>1, <3>3, AnswerAgrees
      <3>4. CASE \E y \in Kept : x = LookedUp(y)
        <4>1. PICK y \in Kept : x = LookedUp(y)
          BY <3>4
        <4>2. Agrees(y)'
          BY <2>1, <2>2, <2>3, AgreementStays DEF LocalAgreesWithDirectory, Agrees
        <4> QED
          BY <2>1, <4>1, <4>2, LookedUpType DEF Agrees, PublicDevices
      <3> QED
        BY <2>2, <3>1, <3>2, <3>3, <3>4 DEF Change, Unchanging, Creating, Publishes, LooksUp
    <2> QED
      BY <2>4 DEF LocalAgreesWithDirectory, Agrees
  <1> QED
    BY <1>1, <1>2, PTL DEF EnrollmentSpec

----------------------------------------------------------------------------
(* One account for a device *)

\* The devices that are known were drawn, and the states of a device that no
\* reset moved name one account.
DevicesDrawn ==
    /\ \A x \in Kept : x.device \in drawn
    /\ \A z \in DOMAIN devices : z[2] \in drawn

StatesMatch ==
    \A x, y \in Kept :
        x.device = y.device /\ x.device \notin moved => x.account = y.account

\* A device is in one account, its own, unless a reset moved it: init and
\* link-device draw new devices, and the other calls publish a device under the
\* account of its state.
THEOREM DevicesHaveOneAccount == EnrollmentSpec => []OneAccountUnlessReset
  <1> DEFINE Own == DevicesDrawn /\ StatesMatch /\ OneAccountUnlessReset
             Inv == EnrollmentInv /\ Own
  <1>1. EnrollmentInit => Inv
    <2> SUFFICES ASSUME EnrollmentInit
                 PROVE  Own
      BY EnrollmentInvInit
    <2>1. Kept = {} /\ DOMAIN devices = {}
      BY DEF EnrollmentInit, Init, EmptyTable, Kept, Whole
    <2> QED
      BY <2>1 DEF DevicesDrawn, StatesMatch, OneAccountUnlessReset
  <1>2. Inv /\ [EnrollmentNext]_allVars => Inv'
    <2> SUFFICES ASSUME Inv, [EnrollmentNext]_allVars
                 PROVE  Own'
      BY EnrollmentInvStep
    <2>1. TypeOK /\ EnrollmentTypeOK
      BY DEF EnrollmentInv, IInv
    <2>2. drawn \subseteq drawn' /\ moved \subseteq moved'
      BY HistoryGrows
    <2>3. Change
      BY <2>1, ChangeStep
    <2>4. CASE Unchanging
      BY <2>2, <2>4 DEF Unchanging, DevicesDrawn, StatesMatch, OneAccountUnlessReset
    <2>5. ASSUME NEW x \in LocalState, Creating(x)
          PROVE  Own'
      <3>1. \A y \in Kept : y.device # x.device
        BY <2>5 DEF Creating, Created, DevicesDrawn
      <3>2. \A z \in DOMAIN devices : z[2] # x.device
        BY <2>5 DEF Creating, Created, DevicesDrawn
      <3> QED
        BY <2>2, <2>5, <3>1, <3>2
           DEF Creating, Created, DevicesDrawn, StatesMatch, OneAccountUnlessReset
    <2>6. ASSUME NEW y \in Kept, NEW a \in Account, Publishes(y, a)
          PROVE  Own'
      <3> DEFINE x == AppliedAccount(y, a)
      <3>1. x.account = a /\ x.device = y.device
        BY <2>1, KeptType DEF AppliedAccount, LocalState
      <3>2. a = y.account \/ y.device \in moved'
        BY <2>6 DEF Publishes, PublishedFor
      <3>3. /\ Kept' \subseteq Kept \union {x}
            /\ DOMAIN devices' = DOMAIN devices \union {<<a, y.device>>}
        BY <2>6 DEF Publishes, PublishedFor
      <3> HIDE DEF x
      <3>4. DevicesDrawn'
        BY <2>2, <3>1, <3>3 DEF DevicesDrawn
      <3>5. StatesMatch'
        BY <2>2, <3>1, <3>2, <3>3 DEF StatesMatch
      <3>6. ASSUME NEW z \in DOMAIN devices', z[2] \notin moved'
            PROVE  /\ \A w \in DOMAIN devices' : w[2] = z[2] => w = z
                   /\ \A v \in Kept' : v.device = z[2] => v.account = z[1]
        <4> DEFINE e == <<a, y.device>>
        <4>1. e[1] = a /\ e[2] = y.device
          OBVIOUS
        <4>2. /\ \A w \in DOMAIN devices : w[2] = z[2] => w = z
              /\ \A v \in Kept : v.device = z[2] => v.account = z[1]
          <5>1. CASE z \in DOMAIN devices
            BY <2>2, <3>6, <5>1 DEF OneAccountUnlessReset
          <5>2. CASE z = e /\ y.device = z[2]
            <6>1. y.device \notin moved /\ z[1] = y.account
              BY <2>2, <3>2, <3>6, <4>1, <5>2
            <6>2. \A v \in Kept : v.device = z[2] => v.account = z[1]
              BY <5>2, <6>1 DEF StatesMatch
            <6>3. ASSUME NEW w \in DOMAIN devices, w[2] = z[2]
                  PROVE  w = z
              <7>1. w[1] = y.account
                BY <5>2, <6>1, <6>3 DEF OneAccountUnlessReset
              <7>2. w = <<w[1], w[2]>> /\ z = <<z[1], z[2]>>
                BY <2>1, <5>2 DEF TypeOK
              <7> QED
                BY <6>1, <6>3, <7>1, <7>2
            <6> QED
              BY <6>2, <6>3
          <5> QED
            BY <3>3, <4>1, <5>1, <5>2
        <4>3. y.device = z[2] => a = z[1] /\ e = z
          <5>1. z = <<z[1], z[2]>>
            BY <2>1, <3>3 DEF TypeOK
          <5> QED
            BY <3>2, <3>6, <4>2, <5>1
        <4> QED
          BY <3>1, <3>3, <4>1, <4>2, <4>3
      <3> QED
        BY <3>4, <3>5, <3>6 DEF OneAccountUnlessReset
    <2>7. ASSUME NEW y \in Kept, LooksUp(y)
          PROVE  Own'
      <3>1. /\ Kept' \subseteq Kept \union {LookedUp(y)}
            /\ DOMAIN devices' = DOMAIN devices
            /\ LookedUp(y).account = y.account /\ LookedUp(y).device = y.device
        BY <2>1, <2>7, LookedUpType DEF LooksUp
      <3>2. \A x \in Kept' : \E z \in Kept : x.device = z.device /\ x.account = z.account
        BY <3>1
      <3> QED
        BY <2>2, <3>1, <3>2 DEF DevicesDrawn, StatesMatch, OneAccountUnlessReset
    <2> QED
      BY <2>3, <2>4, <2>5, <2>6, <2>7 DEF Change
  <1> QED
    BY <1>1, <1>2, PTL DEF EnrollmentSpec

=============================================================================

------------------------- MODULE CheckoutCodes_proofs --------------------------
(***************************************************************************)
(* What holds of CheckoutCodes, and of the accounts it extends, for every   *)
(* number of users, requests in progress, codes, plans and prices.          *)
(***************************************************************************)
EXTENDS CheckoutCodes, SetLemmas, SequenceTheorems

DeletionPcs == {"cancel", "list", "destroy", "revoke", "devices", "anonymize"}

(* A request that is past its reading knows whom it is for, and only the    *)
(* deletion of an account takes the steps of one.                           *)
RequestsServeUsers ==
    \A h \in Handlers :
        /\ my[h].pc \in {"token", "upsert"} \cup DeletionPcs => my[h].user \in Users
        /\ my[h].pc \in DeletionPcs <=> my[h].cmd = "delete"

AccountsInv == AccountsTypeOK /\ RequestsServeUsers

-------------------------------------------------------------------------------
(* What a step does to the request a handler is serving.                    *)
LEMMA RestingIsTyped == Resting \in Request
BY AccountsAssumption DEF Resting, Request

(* A command that begins holds typed values.                                *)
LEMMA BeginIsTyped ==
    ASSUME AccountsInv, NEW h \in Handlers, NEW u \in Users \cup {NoUser}, NEW i \in Nat,
           NEW cmd, NEW pc, Begin(h, cmd, pc, u, i),
           \/ cmd = "send" /\ pc = "count"
           \/ cmd = "verify" /\ pc = "mark"
           \/ cmd \in {"login"} /\ pc = "token" /\ u \in Users
           \/ cmd = "register" /\ pc = "upsert" /\ u \in Users
           \/ cmd = "delete" /\ pc = "cancel" /\ u \in Users
    PROVE  my' \in [Handlers -> Request] /\ RequestsServeUsers'
<1> DEFINE new == [Resting EXCEPT !.cmd = cmd, !.pc = pc, !.user = u, !.session = i]
<1>1. /\ new \in Request
      /\ new.cmd = cmd /\ new.pc = pc /\ new.user = u
  BY RestingIsTyped DEF Resting, Request
<1>2. my' = [my EXCEPT ![h] = new]
  BY DEF Begin
<1> HIDE DEF new
<1>3. my' \in [Handlers -> Request]
  BY <1>1, <1>2 DEF AccountsInv, AccountsTypeOK
<1>4. \A k \in Handlers : my'[k] = IF k = h THEN new ELSE my[k]
  BY <1>2 DEF AccountsInv, AccountsTypeOK
<1>5. RequestsServeUsers'
  BY <1>1, <1>4 DEF AccountsInv, RequestsServeUsers, DeletionPcs
<1> QED
  BY <1>3, <1>5

(* A command that ends holds nothing.                                       *)
LEMMA EndIsTyped ==
    ASSUME AccountsInv, NEW h \in Handlers, End(h)
    PROVE  my' \in [Handlers -> Request] /\ RequestsServeUsers'
<1>1. Resting.pc = "idle" /\ Resting.cmd = "idle"
  BY DEF Resting
<1>2. my' \in [Handlers -> Request]
  BY RestingIsTyped DEF End, AccountsInv, AccountsTypeOK
<1>3. \A k \in Handlers : my'[k] = IF k = h THEN Resting ELSE my[k]
  BY DEF End, AccountsInv, AccountsTypeOK
<1>4. RequestsServeUsers'
  BY <1>1, <1>3 DEF AccountsInv, RequestsServeUsers, DeletionPcs
<1> QED
  BY <1>2, <1>4

(* A command that goes on holds typed values.                               *)
LEMMA StepIsTyped ==
    ASSUME AccountsInv, NEW h \in Handlers, NEW pc, Step(h, pc),
           \/ my[h].pc = "mark" /\ pc = "find"
           \/ my[h].pc = "find" /\ pc = "signUp"
           \/ my[h].pc \in DeletionPcs /\ pc \in DeletionPcs
    PROVE  my' \in [Handlers -> Request] /\ RequestsServeUsers'
<1> DEFINE new == [my[h] EXCEPT !.pc = pc]
<1>1. /\ my[h] \in Request /\ new \in Request
      /\ new.cmd = my[h].cmd /\ new.pc = pc /\ new.user = my[h].user
  BY DEF AccountsInv, AccountsTypeOK, Request, DeletionPcs
<1>2. my' = [my EXCEPT ![h] = new]
  BY DEF Step
<1> HIDE DEF new
<1>3. my' \in [Handlers -> Request]
  BY <1>1, <1>2 DEF AccountsInv, AccountsTypeOK
<1>4. \A k \in Handlers : my'[k] = IF k = h THEN new ELSE my[k]
  BY <1>2 DEF AccountsInv, AccountsTypeOK
<1>5. RequestsServeUsers'
  BY <1>1, <1>4 DEF AccountsInv, RequestsServeUsers, DeletionPcs
<1> QED
  BY <1>3, <1>5

(* The user whose phone it is, or who has just signed up, is given tokens.  *)
LEMMA SignsInTyped ==
    ASSUME AccountsInv, NEW h \in Handlers, NEW u \in Users,
           my[h].pc \in {"find", "signUp"},
           my' = [my EXCEPT ![h].pc = "token", ![h].user = u]
    PROVE  my' \in [Handlers -> Request] /\ RequestsServeUsers'
<1> DEFINE new == [my[h] EXCEPT !.pc = "token", !.user = u]
<1>1. my' = [my EXCEPT ![h] = new]
  OBVIOUS
<1>2. /\ new \in Request
      /\ new.cmd = my[h].cmd /\ new.pc = "token" /\ new.user = u
  BY DEF AccountsInv, AccountsTypeOK, Request
<1> HIDE DEF new
<1>3. \A k \in Handlers : my'[k] = IF k = h THEN new ELSE my[k]
  BY <1>1 DEF AccountsInv, AccountsTypeOK
<1>4. my[h].cmd # "delete"
  BY DEF AccountsInv, RequestsServeUsers, DeletionPcs
<1>5. RequestsServeUsers'
  BY <1>2, <1>3, <1>4 DEF AccountsInv, RequestsServeUsers, DeletionPcs
<1> QED
  BY <1>1, <1>2, <1>5 DEF AccountsInv, AccountsTypeOK

(* A deletion notes the addresses that are left.                            *)
LEMMA ListingIsTyped ==
    ASSUME AccountsInv, NEW h \in Handlers, NEW rest \in SUBSET Addresses,
           NEW pc \in {"destroy", "revoke"}, my[h].pc \in DeletionPcs,
           \/ my' = [my EXCEPT ![h].pc = pc, ![h].rest = rest]
           \/ my' = [my EXCEPT ![h].rest = rest, ![h].pc = pc]
    PROVE  my' \in [Handlers -> Request] /\ RequestsServeUsers'
<1> DEFINE new == [my[h] EXCEPT !.pc = pc, !.rest = rest]
<1>1. my' = [my EXCEPT ![h] = new]
  BY DEF AccountsInv, AccountsTypeOK, Request
<1>2. /\ new \in Request
      /\ new.cmd = my[h].cmd /\ new.pc = pc /\ new.user = my[h].user
  <2>1. my[h] \in Request
    BY DEF AccountsInv, AccountsTypeOK
  <2> QED
    BY ONLY <2>1, pc \in {"destroy", "revoke"}, rest \in SUBSET Addresses DEF Request
<1> HIDE DEF new
<1>3. \A k \in Handlers : my'[k] = IF k = h THEN new ELSE my[k]
  BY <1>1 DEF AccountsInv, AccountsTypeOK
<1>4. RequestsServeUsers'
  BY <1>2, <1>3 DEF AccountsInv, RequestsServeUsers, DeletionPcs
<1> QED
  BY <1>1, <1>2, <1>4 DEF AccountsInv, AccountsTypeOK

(* A user's name is put among those whose rows others wrote only if it is   *)
(* the name of a user.                                                      *)
LEMMA NoteIsTyped ==
    ASSUME AccountsInv, NEW u \in Users, Note(u)
    PROVE  written' \subseteq Users
BY DEF Note, AccountsInv, AccountsTypeOK

(* A row that is changed leaves a sequence of rows.                         *)
LEMMA ChangedRowIsTyped ==
    ASSUME NEW Rows, NEW rows \in Seq(Rows), NEW n, NEW new,
           n \in DOMAIN rows => new \in Rows
    PROVE  /\ [rows EXCEPT ![n] = new] \in Seq(Rows)
           /\ Len([rows EXCEPT ![n] = new]) = Len(rows)
<1>1. DOMAIN rows = 1 .. Len(rows)
  OBVIOUS
<1>2. CASE n \in DOMAIN rows
  BY <1>1, <1>2, ExceptSeq
<1>3. CASE n \notin DOMAIN rows
  <2>1. [rows EXCEPT ![n] = new] = rows
    BY <1>3
  <2> QED
    BY <2>1
<1> QED
  BY <1>2, <1>3

(* Every code that was sent is a typed row.                                 *)
LEMMA SessionRowsTyped ==
    ASSUME AccountsInv, NEW i \in DOMAIN otpSessions
    PROVE  otpSessions[i] \in OtpSession
BY DEF AccountsInv, AccountsTypeOK

(* Asking for a code, entering one, an administrator's password.            *)
LEMMA SignInsTyped ==
    ASSUME AccountsInv, NEW h \in Handlers, BeginSignIn(h)
    PROVE  AccountsInv'
<1> USE DEF users, signedIn, owned
<1>1. CASE BeginSendOtp(h)
  <2>1. my' \in [Handlers -> Request] /\ RequestsServeUsers'
    BY <1>1, BeginIsTyped DEF BeginSendOtp
  <2> QED
    BY <1>1, <2>1 DEF BeginSendOtp, AccountsInv, AccountsTypeOK
<1>2. CASE BeginVerifyOtp(h)
  <2>1. ActiveSessions \in SUBSET Int /\ IsFiniteSet(ActiveSessions) /\ ActiveSessions # {}
    <3>1. ActiveSessions \in SUBSET (1 .. Len(otpSessions)) /\ Len(otpSessions) \in Nat
      BY DEF ActiveSessions, AccountsInv, AccountsTypeOK
    <3>2. IsFiniteSet(1 .. Len(otpSessions))
      BY <3>1, FS_Interval
    <3>3. IsFiniteSet(ActiveSessions)
      BY <3>1, <3>2, FS_Subset
    <3> QED
      BY <1>2, <3>1, <3>3 DEF BeginVerifyOtp
  <2>2. Max(ActiveSessions) \in Nat
    <3>1. Max(ActiveSessions) \in ActiveSessions
      BY <2>1, MaxIsMember
    <3> QED
      BY <3>1 DEF ActiveSessions, AccountsInv, AccountsTypeOK
  <2>3. my' \in [Handlers -> Request] /\ RequestsServeUsers'
    BY <1>2, <2>2, BeginIsTyped DEF BeginVerifyOtp
  <2> QED
    BY <1>2, <2>3 DEF BeginVerifyOtp, AccountsInv, AccountsTypeOK
<1>3. ASSUME NEW u \in Users, BeginAdminLogin(h, u)
      PROVE  AccountsInv'
  <2>1. my' \in [Handlers -> Request] /\ RequestsServeUsers'
    BY <1>3, BeginIsTyped DEF BeginAdminLogin
  <2> QED
    BY <1>3, <2>1 DEF BeginAdminLogin, AccountsInv, AccountsTypeOK
<1> QED
  BY <1>1, <1>2, <1>3 DEF BeginSignIn

(* The commands that are over in one step.                                  *)
LEMMA SettledTyped ==
    ASSUME AccountsInv, NEW u \in Users, SettleAccount(u)
    PROVE  AccountsInv'
<1> USE DEF users, signedIn, owned
<1> SUFFICES AccountsTypeOK' /\ my' = my
  BY DEF AccountsInv, RequestsServeUsers
<1>1. CASE AdminLogout(u) \/ Logout(u)
  <2>1. tokens' \in [Users -> Nat]
    <3>1. tokens \in [Users -> Nat] /\ tokens[u] \in Nat
      BY DEF AccountsInv, AccountsTypeOK
    <3>2. tokens[u] > 0 => tokens[u] - 1 \in Nat
      BY <3>1
    <3> QED
      BY <1>1, <3>1, <3>2 DEF AdminLogout, Logout
  <2> QED
    BY <1>1, <2>1 DEF AdminLogout, Logout, AccountsInv, AccountsTypeOK
<1>2. CASE RefreshAccessToken(u) \/ AccessExpires(u)
  BY <1>2 DEF RefreshAccessToken, AccessExpires, AccountsInv, AccountsTypeOK
<1>3. ASSUME NEW l \in Addresses, SaveDeliveryLocation(u, l)
      PROVE  AccountsTypeOK' /\ my' = my
  BY <1>3, NoteIsTyped DEF SaveDeliveryLocation, AccountsInv, AccountsTypeOK
<1>4. ASSUME NEW to \in SubscriptionStatus, PlanMoves(u, to)
      PROVE  AccountsTypeOK' /\ my' = my
  <2>1. subscription' = [subscription EXCEPT ![u] = [@ EXCEPT !.status = to]]
    BY <1>4 DEF PlanMoves
  <2>2. [subscription[u] EXCEPT !.status = to] \in Subscription
    BY DEF AccountsInv, AccountsTypeOK, Subscription
  <2> QED
    BY <1>4, <2>1, <2>2, NoteIsTyped DEF PlanMoves, AccountsInv, AccountsTypeOK
<1>5. CASE GetReferral(u)
  BY <1>5, NoteIsTyped DEF GetReferral, AccountsInv, AccountsTypeOK
<1>6. CASE DeactivateCustomer(u)
  BY <1>6 DEF DeactivateCustomer, AccountsInv, AccountsTypeOK, UserStatus
<1> QED
  BY <1>1, <1>2, <1>3, <1>4, <1>5, <1>6 DEF SettleAccount

(* The steps of signing in and of registering a device.                     *)
LEMMA SignInStepsTyped ==
    ASSUME AccountsInv, NEW h \in Handlers, ContinueSignIn(h)
    PROVE  AccountsInv'
<1> USE DEF users, signedIn, owned
<1>1. CASE CountRecent(h)
  <2> DEFINE new == [my[h] EXCEPT
                 !.pc = IF MayRequestOtp(getRecentAttemptCount) THEN "create" ELSE "lock",
                 !.until = clock + OtpLock]
  <2>1. my' = [my EXCEPT ![h] = new]
    BY <1>1 DEF CountRecent
  <2>2. clock + OtpLock \in 0 .. (MaxTime + OtpLock)
    BY AccountsAssumption DEF AccountsInv, AccountsTypeOK
  <2>3. /\ new \in Request
        /\ new.cmd = my[h].cmd /\ new.pc \in {"create", "lock"} /\ my[h].pc = "count"
    BY <1>1, <2>2 DEF CountRecent, AccountsInv, AccountsTypeOK, Request
  <2> HIDE DEF new
  <2>4. \A k \in Handlers : my'[k] = IF k = h THEN new ELSE my[k]
    BY <2>1 DEF AccountsInv, AccountsTypeOK
  <2>5. RequestsServeUsers'
    BY <2>3, <2>4 DEF AccountsInv, RequestsServeUsers, DeletionPcs
  <2> QED
    BY <1>1, <2>1, <2>3, <2>5 DEF CountRecent, AccountsInv, AccountsTypeOK
<1>2. CASE CreateSession(h)
  <2>1. my' \in [Handlers -> Request] /\ RequestsServeUsers'
    BY <1>2, EndIsTyped DEF CreateSession
  <2>2. otpSessions' \in Seq(OtpSession)
    <3>1. [at |-> clock, isVerified |-> FALSE, lockedUntil |-> 0] \in OtpSession
      BY AccountsAssumption DEF OtpSession, AccountsInv, AccountsTypeOK
    <3> QED
      BY <1>2, <3>1 DEF CreateSession, AccountsInv, AccountsTypeOK
  <2> QED
    BY <1>2, <2>1, <2>2 DEF CreateSession, AccountsInv, AccountsTypeOK
<1>3. CASE LockPhone(h)
  <2>1. my' \in [Handlers -> Request] /\ RequestsServeUsers'
    BY <1>3, EndIsTyped DEF LockPhone
  <2>2. my[h].until \in 0 .. (MaxTime + OtpLock)
    BY DEF AccountsInv, AccountsTypeOK, Request
  <2>3. \A i \in DOMAIN otpSessions :
            [otpSessions[i] EXCEPT !.lockedUntil = my[h].until] \in OtpSession
    BY <2>2, SessionRowsTyped DEF OtpSession
  <2>4. otpSessions' \in Seq(OtpSession)
    BY <1>3, <2>3, ChangedRowIsTyped DEF LockPhone, AccountsInv, AccountsTypeOK
  <2> QED
    BY <1>3, <2>1, <2>4 DEF LockPhone, AccountsInv, AccountsTypeOK
<1>4. CASE MarkVerified(h)
  <2>1. my' \in [Handlers -> Request] /\ RequestsServeUsers'
    BY <1>4, StepIsTyped DEF MarkVerified
  <2>2. \A i \in DOMAIN otpSessions :
            [otpSessions[i] EXCEPT !.isVerified = TRUE] \in OtpSession
    BY SessionRowsTyped DEF OtpSession
  <2>3. otpSessions' \in Seq(OtpSession)
    BY <1>4, <2>2, ChangedRowIsTyped DEF MarkVerified, AccountsInv, AccountsTypeOK
  <2> QED
    BY <1>4, <2>1, <2>3 DEF MarkVerified, AccountsInv, AccountsTypeOK
<1>5. CASE FindUser(h)
  <2>1. CASE holder # NoUser /\ MaySignInByPhone(holder)
    BY <1>5, <2>1, SignsInTyped DEF FindUser, AccountsInv, AccountsTypeOK
  <2>2. CASE ~(holder # NoUser /\ MaySignInByPhone(holder))
    <3>1. my' \in [Handlers -> Request] /\ RequestsServeUsers'
      BY <1>5, <2>2, StepIsTyped, EndIsTyped DEF FindUser
    <3> QED
      BY <1>5, <3>1 DEF FindUser, AccountsInv, AccountsTypeOK
  <2> QED
    BY <2>1, <2>2
<1>6. ASSUME NEW u \in Users, SignUp(h, u)
      PROVE  AccountsInv'
  <2>1. status' \in [Users -> UserStatus] /\ holder' \in Users \cup {NoUser}
    BY <1>6 DEF SignUp, AccountsInv, AccountsTypeOK, UserStatus
  <2> QED
    BY <1>6, <2>1, SignsInTyped DEF SignUp, AccountsInv, AccountsTypeOK
<1>7. CASE SignUpFails(h)
  BY <1>7, EndIsTyped DEF SignUpFails, AccountsInv, AccountsTypeOK
<1>8. CASE CreateToken(h)
  <2>1. my[h].user \in Users
    BY <1>8 DEF CreateToken, AccountsInv, RequestsServeUsers
  <2> QED
    BY <1>8, <2>1, EndIsTyped, NoteIsTyped DEF CreateToken, AccountsInv, AccountsTypeOK
<1>9. CASE UpsertDevice(h)
  <2>1. my[h].user \in Users
    BY <1>9 DEF UpsertDevice, AccountsInv, RequestsServeUsers
  <2> QED
    BY <1>9, <2>1, EndIsTyped, NoteIsTyped DEF UpsertDevice, AccountsInv, AccountsTypeOK
<1> QED
  BY <1>1, <1>2, <1>3, <1>4, <1>5, <1>6, <1>7, <1>8, <1>9 DEF ContinueSignIn

(* The steps of the deletion of an account.                                 *)
LEMMA DeletionStepsTyped ==
    ASSUME AccountsInv, NEW h \in Handlers, ContinueDeletion(h)
    PROVE  AccountsInv'
<1> USE DEF users, signedIn, owned
<1>1. CASE CancelPlan(h)
  <2>1. my' \in [Handlers -> Request] /\ RequestsServeUsers'
    BY <1>1, StepIsTyped DEF CancelPlan, DeletionPcs
  <2>2. my[h].user \in Users
    BY <1>1 DEF CancelPlan, AccountsInv, RequestsServeUsers, DeletionPcs
  <2>3. \A to \in SubscriptionStatus :
            [subscription[my[h].user] EXCEPT !.status = to] \in Subscription
    BY <2>2 DEF AccountsInv, AccountsTypeOK, Subscription
  <2>4. (IF subscription[my[h].user].status \in {"active", "paused"} THEN "cancelled"
         ELSE subscription[my[h].user].status) \in SubscriptionStatus
    BY <2>2 DEF AccountsInv, AccountsTypeOK, Subscription, SubscriptionStatus
  <2>5. subscription' \in [Users -> Subscription]
    BY <1>1, <2>3, <2>4 DEF CancelPlan, AccountsInv, AccountsTypeOK
  <2> QED
    BY <1>1, <2>1, <2>5 DEF CancelPlan, AccountsInv, AccountsTypeOK
<1>2. CASE ListLocations(h)
  <2>1. locations[my[h].user] \subseteq Addresses
    BY <1>2 DEF ListLocations, AccountsInv, AccountsTypeOK, RequestsServeUsers, DeletionPcs
  <2>2. my' \in [Handlers -> Request] /\ RequestsServeUsers'
    BY <1>2, <2>1, ListingIsTyped DEF ListLocations, DeletionPcs
  <2> QED
    BY <1>2, <2>2 DEF ListLocations, AccountsInv, AccountsTypeOK
<1>3. CASE DestroyLocation(h)
  <2>1. PICK l \in my[h].rest :
            /\ locations' = [locations EXCEPT ![my[h].user] = @ \ {l}]
            /\ my' = [my EXCEPT ![h].rest = @ \ {l},
                                ![h].pc = IF my[h].rest = {l} THEN "revoke" ELSE @]
    BY <1>3 DEF DestroyLocation
  <2>2. my[h].rest \ {l} \subseteq Addresses
    BY DEF AccountsInv, AccountsTypeOK, Request
  <2>3. my' \in [Handlers -> Request] /\ RequestsServeUsers'
    BY <1>3, <2>1, <2>2, ListingIsTyped DEF DestroyLocation, DeletionPcs
  <2>4. locations' \in [Users -> SUBSET Addresses]
    BY <2>1 DEF AccountsInv, AccountsTypeOK
  <2> QED
    BY <1>3, <2>3, <2>4 DEF DestroyLocation, AccountsInv, AccountsTypeOK
<1>4. CASE RevokeAllUserTokens(h)
  <2>1. my' \in [Handlers -> Request] /\ RequestsServeUsers'
    BY <1>4, StepIsTyped DEF RevokeAllUserTokens, DeletionPcs
  <2> QED
    BY <1>4, <2>1 DEF RevokeAllUserTokens, AccountsInv, AccountsTypeOK
<1>5. CASE DeactivateAllDevices(h)
  <2>1. my' \in [Handlers -> Request] /\ RequestsServeUsers'
    BY <1>5, StepIsTyped DEF DeactivateAllDevices, DeletionPcs
  <2> QED
    BY <1>5, <2>1 DEF DeactivateAllDevices, AccountsInv, AccountsTypeOK
<1>6. CASE AnonymizeAccount(h)
  BY <1>6, EndIsTyped DEF AnonymizeAccount, AccountsInv, AccountsTypeOK, UserStatus
<1> QED
  BY <1>1, <1>2, <1>3, <1>4, <1>5, <1>6 DEF ContinueDeletion

(* Every command and step of Accounts, the clock and a crash.               *)
LEMMA AccountsTyped ==
    ASSUME AccountsInv, SignInCommand \/ AccountCommand \/ AccountStep \/ Passes \/ Crash
    PROVE  AccountsInv'
<1> USE DEF users, signedIn, owned
<1>1. CASE SignInCommand
  BY <1>1, SignInsTyped DEF SignInCommand
<1>2. ASSUME NEW h \in Handlers, NEW u \in Users, BeginRegisterDevice(h, u)
      PROVE  AccountsInv'
  <2>1. my' \in [Handlers -> Request] /\ RequestsServeUsers'
    BY <1>2, BeginIsTyped DEF BeginRegisterDevice
  <2> QED
    BY <1>2, <2>1 DEF BeginRegisterDevice, AccountsInv, AccountsTypeOK
<1>3. ASSUME NEW h \in Handlers, NEW u \in Users, BeginDeleteAccount(h, u)
      PROVE  AccountsInv'
  <2>1. my' \in [Handlers -> Request] /\ RequestsServeUsers'
    BY <1>3, BeginIsTyped DEF BeginDeleteAccount
  <2> QED
    BY <1>3, <2>1 DEF BeginDeleteAccount, AccountsInv, AccountsTypeOK
<1>4. CASE AccountCommand
  BY <1>2, <1>3, <1>4, SettledTyped DEF AccountCommand
<1>5. CASE AccountStep
  BY <1>5, SignInStepsTyped, DeletionStepsTyped DEF AccountStep
<1>6. CASE Passes
  BY <1>6, AccountsAssumption DEF Passes, AccountsInv, AccountsTypeOK, RequestsServeUsers
<1>7. CASE Crash
  <2>1. Resting.pc = "idle" /\ Resting.cmd = "idle"
    BY DEF Resting
  <2>2. my' \in [Handlers -> Request] /\ RequestsServeUsers'
    BY <1>7, <2>1, RestingIsTyped DEF Crash, RequestsServeUsers, DeletionPcs
  <2> QED
    BY <1>7, <2>2 DEF Crash, AccountsInv, AccountsTypeOK
<1> QED
  BY <1>1, <1>4, <1>5, <1>6, <1>7

-------------------------------------------------------------------------------
(* The deletion of an account: what each step has done stays done while the *)
(* request goes on, unless another command writes a row for the user, who   *)
(* is then among those written.                                             *)
DeletionHolds ==
    \A h \in Handlers :
        LET u == my[h].user IN
        my[h].cmd = "delete" /\ u \notin written =>
            /\ my[h].pc # "cancel" => subscription[u].status \notin {"active", "paused"}
            /\ my[h].pc = "destroy" => locations[u] \subseteq my[h].rest
            /\ my[h].pc \in {"revoke", "devices", "anonymize"} => locations[u] = {}
            /\ my[h].pc \in {"devices", "anonymize"} => tokens[u] = 0
            /\ my[h].pc = "anonymize" => ~devices[u]

DeletionInv == DeletionHolds /\ DeletedIsEmpty

(* Nothing of the user's is brought to life.                                *)
OnlyShrinks(u) ==
    /\ subscription'[u].status \in {"active", "paused"} =>
           subscription[u].status \in {"active", "paused"}
    /\ locations'[u] \subseteq locations[u]
    /\ tokens[u] = 0 => tokens'[u] = 0
    /\ devices'[u] => devices[u]

DeletionsStay == \A h \in Handlers : my'[h].cmd = "delete" => my'[h] = my[h]

(* A step that neither deletes an account nor advances a deletion keeps     *)
(* what the deletions in progress and those that ended rely on, if it adds  *)
(* something for a user only when that is noted or nobody relies on it.     *)
LEMMA BystandersKeep ==
    ASSUME AccountsInv, AccountsInv', DeletionInv, DeletionsStay,
           \A u \in Users : status'[u] = "deleted" =>
                                status[u] = "deleted" /\ (holder' = u => holder = u),
           \A u \in Users : \/ u \in written'
                            \/ status'[u] # "deleted" /\ ~IsDeleting(u)'
                            \/ u \notin written /\ OnlyShrinks(u)
    PROVE  DeletionInv'
<1>1. DeletionHolds'
  <2> SUFFICES ASSUME NEW h \in Handlers, my'[h].cmd = "delete", my'[h].user \notin written'
               PROVE  LET u == my'[h].user IN
                      /\ my'[h].pc # "cancel" =>
                             subscription'[u].status \notin {"active", "paused"}
                      /\ my'[h].pc = "destroy" => locations'[u] \subseteq my'[h].rest
                      /\ my'[h].pc \in {"revoke", "devices", "anonymize"} => locations'[u] = {}
                      /\ my'[h].pc \in {"devices", "anonymize"} => tokens'[u] = 0
                      /\ my'[h].pc = "anonymize" => ~devices'[u]
    BY DEF DeletionHolds
  <2>1. my'[h] = my[h] /\ my[h].cmd = "delete" /\ my[h].user \in Users
    BY DEF DeletionsStay, AccountsInv, RequestsServeUsers
  <2>2. my[h].user \notin written /\ OnlyShrinks(my[h].user)
    BY <2>1 DEF IsDeleting
  <2> QED
    BY <2>1, <2>2 DEF DeletionInv, DeletionHolds, OnlyShrinks
<1>2. DeletedIsEmpty'
  BY DEF DeletionInv, DeletedIsEmpty, OnlyShrinks
<1> QED
  BY <1>1, <1>2 DEF DeletionInv

(* A step that writes rows of one user and notes it.                        *)
LEMMA NotedKeeps ==
    ASSUME AccountsInv, AccountsInv', DeletionInv, DeletionsStay, NEW u \in Users, Note(u),
           UNCHANGED <<status, holder>>,
           \A v \in Users \ {u} :
               /\ subscription'[v] = subscription[v] /\ locations'[v] = locations[v]
               /\ tokens'[v] = tokens[v] /\ devices'[v] = devices[v]
    PROVE  DeletionInv'
<1>1. ASSUME NEW v \in Users, v \notin written', status'[v] = "deleted" \/ IsDeleting(v)'
      PROVE  v \notin written /\ OnlyShrinks(v)
  <2>1. status[v] = "deleted" \/ IsDeleting(v)
    BY <1>1 DEF DeletionsStay, IsDeleting
  <2>2. v # u /\ v \notin written
    BY <1>1, <2>1 DEF Note
  <2> QED
    BY <2>2 DEF OnlyShrinks
<1> QED
  BY <1>1, BystandersKeep

(* A step that leaves everything the users own, but for a token, or for a   *)
(* phone that finds its first user.                                         *)
LEMMA UnnotedKeeps ==
    ASSUME AccountsInv, AccountsInv', DeletionInv, DeletionsStay,
           UNCHANGED <<written, devices, locations, subscription>>,
           \A u \in Users :
               /\ tokens[u] = 0 => tokens'[u] = 0
               /\ status'[u] = "deleted" =>
                      status[u] = "deleted" /\ (holder' = u => holder = u)
    PROVE  DeletionInv'
<1>1. \A u \in Users : OnlyShrinks(u)
  BY DEF OnlyShrinks
<1> QED
  BY <1>1, BystandersKeep

(* A command that begins and deletes nothing leaves every deletion where it *)
(* is.                                                                      *)
LEMMA NewRequestsStay ==
    ASSUME AccountsInv, NEW h \in Handlers, NEW cmd, NEW pc, NEW u, NEW i,
           Begin(h, cmd, pc, u, i), cmd # "delete"
    PROVE  DeletionsStay
<1>1. my'[h].cmd = cmd /\ \A k \in Handlers \ {h} : my'[k] = my[k]
  BY DEF Begin, Resting, AccountsInv, AccountsTypeOK
<1> QED
  BY <1>1 DEF DeletionsStay

(* Asking for a code, entering one, an administrator's password.            *)
LEMMA SignInsKeepDeletions ==
    ASSUME AccountsInv, AccountsInv', DeletionInv, NEW h \in Handlers, BeginSignIn(h)
    PROVE  DeletionInv'
<1>1. \E cmd, pc, u, i : cmd # "delete" /\ Begin(h, cmd, pc, u, i)
  BY DEF BeginSignIn, BeginSendOtp, BeginVerifyOtp, BeginAdminLogin
<1>2. DeletionsStay
  BY <1>1, NewRequestsStay
<1>3. UNCHANGED <<users, signedIn, owned, written>>
  BY DEF BeginSignIn, BeginSendOtp, BeginVerifyOtp, BeginAdminLogin
<1> QED
  BY <1>2, <1>3, UnnotedKeeps DEF users, signedIn, owned

(* The commands that are over in one step.                                  *)
LEMMA SettledKeepsDeletions ==
    ASSUME AccountsInv, AccountsInv', DeletionInv, NEW u \in Users, SettleAccount(u)
    PROVE  DeletionInv'
<1> USE DEF users, signedIn, owned
<1>1. DeletionsStay
  BY DEF DeletionsStay, SettleAccount, AdminLogout, Logout, RefreshAccessToken, AccessExpires,
         SaveDeliveryLocation, PlanMoves, GetReferral, DeactivateCustomer
<1>2. CASE AdminLogout(u) \/ Logout(u) \/ RefreshAccessToken(u) \/ AccessExpires(u)
  <2>1. \A v \in Users : tokens[v] = 0 => tokens'[v] = 0
    BY <1>2 DEF AdminLogout, Logout, RefreshAccessToken, AccessExpires,
               AccountsInv, AccountsTypeOK
  <2> QED
    BY <1>1, <1>2, <2>1, UnnotedKeeps
       DEF AdminLogout, Logout, RefreshAccessToken, AccessExpires
<1>3. ASSUME NEW l \in Addresses, SaveDeliveryLocation(u, l)
      PROVE  DeletionInv'
  BY <1>1, <1>3, NotedKeeps DEF SaveDeliveryLocation, AccountsInv, AccountsTypeOK
<1>4. ASSUME NEW to \in SubscriptionStatus, PlanMoves(u, to)
      PROVE  DeletionInv'
  BY <1>1, <1>4, NotedKeeps DEF PlanMoves, AccountsInv, AccountsTypeOK
<1>5. CASE GetReferral(u)
  BY <1>1, <1>5, NotedKeeps DEF GetReferral
<1>6. CASE DeactivateCustomer(u)
  <2>1. \A v \in Users : status'[v] = "deleted" => status[v] = "deleted"
    BY <1>6 DEF DeactivateCustomer, AccountsInv, AccountsTypeOK
  <2> QED
    BY <1>1, <1>6, <2>1, UnnotedKeeps DEF DeactivateCustomer
<1> QED
  BY <1>2, <1>3, <1>4, <1>5, <1>6 DEF SettleAccount

(* The steps of signing in and of registering a device.                     *)
LEMMA SignInStepsKeepDeletions ==
    ASSUME AccountsInv, AccountsInv', DeletionInv, NEW h \in Handlers, ContinueSignIn(h)
    PROVE  DeletionInv'
<1> USE DEF users, signedIn, owned
<1>1. DeletionsStay
  <2>1. my[h].pc \in {"count", "create", "lock", "mark", "find", "signUp", "token", "upsert"}
    BY DEF ContinueSignIn, CountRecent, CreateSession, LockPhone, MarkVerified, FindUser,
           SignUp, SignUpFails, CreateToken, UpsertDevice
  <2>2. my[h].cmd # "delete"
    BY <2>1 DEF AccountsInv, RequestsServeUsers, DeletionPcs
  <2>3. \A k \in Handlers \ {h} : my'[k] = my[k]
    BY DEF ContinueSignIn, CountRecent, CreateSession, LockPhone, MarkVerified, FindUser,
           SignUp, SignUpFails, CreateToken, UpsertDevice, End, Step,
           AccountsInv, AccountsTypeOK
  <2>4. my'[h].cmd \in {my[h].cmd, "idle"}
    <3>1. my[h] \in Request /\ h \in DOMAIN my /\ Resting.cmd = "idle"
      BY DEF AccountsInv, AccountsTypeOK, Resting
    <3>2. CASE CountRecent(h) \/ MarkVerified(h) \/ CreateSession(h) \/ LockPhone(h)
      BY <3>1, <3>2 DEF CountRecent, MarkVerified, CreateSession, LockPhone, End, Step, Request
    <3>3. CASE FindUser(h) \/ SignUpFails(h)
      BY <3>1, <3>3 DEF FindUser, SignUpFails, End, Step, Request
    <3>4. ASSUME NEW u \in Users, SignUp(h, u)
          PROVE  my'[h].cmd \in {my[h].cmd, "idle"}
      BY <3>1, <3>4 DEF SignUp, Request
    <3>5. CASE CreateToken(h) \/ UpsertDevice(h)
      BY <3>1, <3>5 DEF CreateToken, UpsertDevice, End
    <3> QED
      BY <3>2, <3>3, <3>4, <3>5 DEF ContinueSignIn
  <2> QED
    BY <2>2, <2>3, <2>4 DEF DeletionsStay
<1>2. CASE CountRecent(h) \/ CreateSession(h) \/ LockPhone(h) \/ MarkVerified(h)
              \/ FindUser(h) \/ SignUpFails(h)
  BY <1>1, <1>2, UnnotedKeeps DEF CountRecent, CreateSession, LockPhone, MarkVerified, FindUser,
                                 SignUpFails
<1>3. ASSUME NEW u \in Users, SignUp(h, u)
      PROVE  DeletionInv'
  <2>1. \A v \in Users : status'[v] = "deleted" =>
                             status[v] = "deleted" /\ (holder' = v => holder = v)
    BY <1>3 DEF SignUp, AccountsInv, AccountsTypeOK
  <2> QED
    BY <1>1, <1>3, <2>1, UnnotedKeeps DEF SignUp
<1>4. CASE CreateToken(h) \/ UpsertDevice(h)
  <2>1. my[h].user \in Users
    BY <1>4 DEF CreateToken, UpsertDevice, AccountsInv, RequestsServeUsers
  <2> QED
    BY <1>1, <1>4, <2>1, NotedKeeps DEF CreateToken, UpsertDevice, AccountsInv, AccountsTypeOK
<1> QED
  BY <1>2, <1>3, <1>4 DEF ContinueSignIn

(* The request begins: nobody relies on anything yet.                       *)
LEMMA BeginDeletionKeeps ==
    ASSUME AccountsInv, AccountsInv', DeletionInv, NEW h \in Handlers, NEW u \in Users,
           BeginDeleteAccount(h, u)
    PROVE  DeletionInv'
<1> USE DEF users, signedIn, owned
<1>1. /\ my'[h].cmd = "delete" /\ my'[h].pc = "cancel" /\ my'[h].user = u
      /\ \A k \in Handlers \ {h} : my'[k] = my[k]
  BY DEF BeginDeleteAccount, Begin, Resting, AccountsInv, AccountsTypeOK
<1>2. UNCHANGED <<status, holder, tokens, devices, locations, subscription>>
  BY DEF BeginDeleteAccount
<1>3. DeletionHolds'
  <2>1. ASSUME NEW k \in Handlers \ {h}, my[k].cmd = "delete", my[k].user \notin written'
        PROVE  my[k].user \notin written
    BY <2>1 DEF BeginDeleteAccount, IsDeleting
  <2> QED
    BY <1>1, <1>2, <2>1 DEF DeletionInv, DeletionHolds
<1>4. DeletedIsEmpty'
  BY <1>2 DEF BeginDeleteAccount, DeletionInv, DeletedIsEmpty
<1> QED
  BY <1>3, <1>4 DEF DeletionInv

(* Each step of a deletion establishes what the next ones rely on, and      *)
(* takes nothing from another deletion of the same account.                 *)
LEMMA DeletionStepsKeep ==
    ASSUME AccountsInv, AccountsInv', DeletionInv, NEW h \in Handlers, ContinueDeletion(h)
    PROVE  DeletionInv'
<1> USE DEF users, signedIn, owned
<1> DEFINE u == my[h].user
<1>1. /\ my[h].cmd = "delete" /\ u \in Users /\ my[h] \in Request
      /\ written' = written
  BY DEF ContinueDeletion, CancelPlan, ListLocations, DestroyLocation, RevokeAllUserTokens,
         DeactivateAllDevices, AnonymizeAccount, AccountsInv, AccountsTypeOK,
         RequestsServeUsers, DeletionPcs
<1>2. CASE CancelPlan(h)
  <2>1. /\ my'[h].cmd = "delete" /\ my'[h].pc = "list" /\ my'[h].user = u
        /\ \A k \in Handlers \ {h} : my'[k] = my[k]
    BY <1>1, <1>2 DEF CancelPlan, Step, AccountsInv, AccountsTypeOK, Request
  <2>2. /\ subscription'[u].status \notin {"active", "paused"}
        /\ \A v \in Users \ {u} : subscription'[v] = subscription[v]
    BY <1>1, <1>2 DEF CancelPlan, AccountsInv, AccountsTypeOK, Subscription
  <2>3. UNCHANGED <<status, holder, tokens, devices, locations>>
    BY <1>2 DEF CancelPlan
  <2>4. DeletionHolds'
    BY <1>1, <2>1, <2>2, <2>3 DEF DeletionInv, DeletionHolds, AccountsInv, RequestsServeUsers
  <2>5. DeletedIsEmpty'
    BY <1>1, <2>2, <2>3 DEF DeletionInv, DeletedIsEmpty
  <2> QED
    BY <2>4, <2>5 DEF DeletionInv
<1>3. CASE ListLocations(h)
  <2>1. /\ my'[h].cmd = "delete" /\ my'[h].user = u /\ my'[h].rest = locations[u]
        /\ my'[h].pc = IF locations[u] = {} THEN "revoke" ELSE "destroy"
        /\ \A k \in Handlers \ {h} : my'[k] = my[k]
    BY <1>1, <1>3 DEF ListLocations, AccountsInv, AccountsTypeOK, Request
  <2>2. UNCHANGED <<status, holder, tokens, devices, locations, subscription>> /\ my[h].pc = "list"
    BY <1>3 DEF ListLocations
  <2>3. DeletionHolds'
    BY <1>1, <2>1, <2>2 DEF DeletionInv, DeletionHolds
  <2> QED
    BY <1>1, <2>2, <2>3 DEF DeletionInv, DeletedIsEmpty
<1>4. CASE DestroyLocation(h)
  <2>1. PICK l \in my[h].rest :
            /\ locations' = [locations EXCEPT ![u] = @ \ {l}]
            /\ my' = [my EXCEPT ![h].rest = @ \ {l},
                                ![h].pc = IF my[h].rest = {l} THEN "revoke" ELSE @]
    BY <1>4 DEF DestroyLocation
  <2>2. /\ my'[h].cmd = "delete" /\ my'[h].user = u /\ my'[h].rest = my[h].rest \ {l}
        /\ my'[h].pc = IF my[h].rest = {l} THEN "revoke" ELSE "destroy"
        /\ \A k \in Handlers \ {h} : my'[k] = my[k]
    BY <1>1, <1>4, <2>1 DEF DestroyLocation, AccountsInv, AccountsTypeOK, Request
  <2>3. /\ locations'[u] = locations[u] \ {l}
        /\ \A v \in Users \ {u} : locations'[v] = locations[v]
    BY <1>1, <2>1 DEF AccountsInv, AccountsTypeOK
  <2>4. UNCHANGED <<status, holder, tokens, devices, subscription>> /\ my[h].pc = "destroy"
    BY <1>4 DEF DestroyLocation
  <2>5. DeletionHolds'
    BY <1>1, <2>2, <2>3, <2>4 DEF DeletionInv, DeletionHolds, AccountsInv, RequestsServeUsers
  <2> QED
    BY <1>1, <2>3, <2>4, <2>5 DEF DeletionInv, DeletedIsEmpty
<1>5. CASE RevokeAllUserTokens(h)
  <2>1. /\ my'[h].cmd = "delete" /\ my'[h].pc = "devices" /\ my'[h].user = u
        /\ \A k \in Handlers \ {h} : my'[k] = my[k]
    BY <1>1, <1>5 DEF RevokeAllUserTokens, Step, AccountsInv, AccountsTypeOK, Request
  <2>2. tokens'[u] = 0 /\ \A v \in Users \ {u} : tokens'[v] = tokens[v]
    BY <1>1, <1>5 DEF RevokeAllUserTokens, AccountsInv, AccountsTypeOK
  <2>3. UNCHANGED <<status, holder, devices, locations, subscription>> /\ my[h].pc = "revoke"
    BY <1>5 DEF RevokeAllUserTokens
  <2>4. DeletionHolds'
    BY <1>1, <2>1, <2>2, <2>3 DEF DeletionInv, DeletionHolds, AccountsInv, RequestsServeUsers
  <2> QED
    BY <1>1, <2>2, <2>3, <2>4 DEF DeletionInv, DeletedIsEmpty
<1>6. CASE DeactivateAllDevices(h)
  <2>1. /\ my'[h].cmd = "delete" /\ my'[h].pc = "anonymize" /\ my'[h].user = u
        /\ \A k \in Handlers \ {h} : my'[k] = my[k]
    BY <1>1, <1>6 DEF DeactivateAllDevices, Step, AccountsInv, AccountsTypeOK, Request
  <2>2. ~devices'[u] /\ \A v \in Users \ {u} : devices'[v] = devices[v]
    BY <1>1, <1>6 DEF DeactivateAllDevices, AccountsInv, AccountsTypeOK
  <2>3. UNCHANGED <<status, holder, tokens, locations, subscription>> /\ my[h].pc = "devices"
    BY <1>6 DEF DeactivateAllDevices
  <2>4. DeletionHolds'
    BY <1>1, <2>1, <2>2, <2>3 DEF DeletionInv, DeletionHolds, AccountsInv, RequestsServeUsers
  <2> QED
    BY <1>1, <2>2, <2>3, <2>4 DEF DeletionInv, DeletedIsEmpty
<1>7. CASE AnonymizeAccount(h)
  <2>1. my'[h].cmd # "delete" /\ \A k \in Handlers \ {h} : my'[k] = my[k]
    BY <1>1, <1>7 DEF AnonymizeAccount, End, Resting, AccountsInv, AccountsTypeOK
  <2>2. /\ \A v \in Users \ {u} : status'[v] = status[v]
        /\ holder' # u /\ \A v \in Users : holder' = v => holder = v
    BY <1>1, <1>7, AccountsAssumption DEF AnonymizeAccount, AccountsInv, AccountsTypeOK
  <2>3. UNCHANGED <<tokens, devices, locations, subscription>> /\ my[h].pc = "anonymize"
    BY <1>7 DEF AnonymizeAccount
  <2>4. u \notin written => /\ subscription[u].status \notin {"active", "paused"}
                            /\ locations[u] = {} /\ tokens[u] = 0 /\ ~devices[u]
    BY <1>1, <2>3 DEF DeletionInv, DeletionHolds
  <2>5. DeletionHolds'
    BY <1>1, <2>1, <2>3 DEF DeletionInv, DeletionHolds
  <2>6. DeletedIsEmpty'
    BY <1>1, <2>2, <2>3, <2>4 DEF DeletionInv, DeletedIsEmpty
  <2> QED
    BY <2>5, <2>6 DEF DeletionInv
<1> QED
  BY <1>2, <1>3, <1>4, <1>5, <1>6, <1>7 DEF ContinueDeletion

(* Every command and step of Accounts, the clock and a crash.               *)
LEMMA AccountsKeepDeletions ==
    ASSUME AccountsInv, AccountsInv', DeletionInv,
           SignInCommand \/ AccountCommand \/ AccountStep \/ Passes \/ Crash
    PROVE  DeletionInv'
<1> USE DEF users, signedIn, owned
<1>1. CASE SignInCommand
  BY <1>1, SignInsKeepDeletions DEF SignInCommand
<1>2. ASSUME NEW h \in Handlers, NEW u \in Users, BeginRegisterDevice(h, u)
      PROVE  DeletionInv'
  <2>1. DeletionsStay
    BY <1>2, NewRequestsStay DEF BeginRegisterDevice
  <2> QED
    BY <1>2, <2>1, UnnotedKeeps DEF BeginRegisterDevice
<1>3. CASE AccountCommand
  BY <1>2, <1>3, BeginDeletionKeeps, SettledKeepsDeletions DEF AccountCommand
<1>4. CASE AccountStep
  BY <1>4, SignInStepsKeepDeletions, DeletionStepsKeep DEF AccountStep
<1>5. CASE Passes
  BY <1>5, UnnotedKeeps DEF Passes, DeletionsStay
<1>6. CASE Crash
  <2>1. DeletionsStay
    BY <1>6 DEF Crash, DeletionsStay, Resting
  <2> QED
    BY <1>6, <2>1, UnnotedKeeps DEF Crash
<1> QED
  BY <1>1, <1>3, <1>4, <1>5, <1>6

-------------------------------------------------------------------------------
(* One-time codes.  A request that has counted and will send a code has one *)
(* of the places below the limit, or one of those the handlers make up for; *)
(* a request that will lock the phone has seen a full window.               *)
Sent(rows, from, to) == Cardinality({ i \in DOMAIN rows : rows[i].at \in from .. to })
Creators == { h \in Handlers : my[h].pc = "create" }

CodesAreOfThePast == \A i \in DOMAIN otpSessions : otpSessions[i].at <= clock

PlacesAreLimited ==
    Sent(otpSessions, clock - OtpWindow, clock) + Cardinality(Creators)
        < MaxRequests + Cardinality(Handlers)

WindowsAreLimited ==
    \A t \in 0 .. clock :
        Sent(otpSessions, t - OtpWindow, t) < MaxRequests + Cardinality(Handlers)

Full(rows, until) == Sent(rows, until - OtpLock - OtpWindow, until - OtpLock) >= MaxRequests

LocksAreEarned ==
    /\ \A h \in Handlers : my[h].pc = "lock" => Full(otpSessions, my[h].until)
    /\ \A i \in DOMAIN otpSessions :
           otpSessions[i].lockedUntil # 0 => Full(otpSessions, otpSessions[i].lockedUntil)

CodesInv == CodesAreOfThePast /\ PlacesAreLimited /\ WindowsAreLimited /\ LocksAreEarned

(* The codes sent in a window are finitely many, so their count is a        *)
(* number.                                                                  *)
LEMMA SentIsNat ==
    ASSUME NEW rows \in Seq(OtpSession), NEW from, NEW to
    PROVE  /\ IsFiniteSet({ i \in DOMAIN rows : rows[i].at \in from .. to })
           /\ Sent(rows, from, to) \in Nat
<1>1. IsFiniteSet(DOMAIN rows)
  <2>1. DOMAIN rows = 1 .. Len(rows) /\ Len(rows) \in Nat
    OBVIOUS
  <2> QED
    BY <2>1, FS_Interval
<1>2. IsFiniteSet({ i \in DOMAIN rows : rows[i].at \in from .. to })
  BY <1>1, FS_Subset
<1> QED
  BY <1>2, FS_CardinalityType DEF Sent

(* Marking or locking a row sends no code.                                  *)
LEMMA SameCodes ==
    ASSUME NEW rows, NEW new, DOMAIN new = DOMAIN rows,
           \A i \in DOMAIN rows : new[i].at = rows[i].at, NEW from, NEW to
    PROVE  Sent(new, from, to) = Sent(rows, from, to)
BY DEF Sent

(* So are the commands about to insert a code.                              *)
LEMMA CreatorsFinite ==
    /\ IsFiniteSet(Creators) /\ Cardinality(Creators) \in Nat
    /\ Cardinality(Handlers) \in Nat /\ Cardinality(Creators) <= Cardinality(Handlers)
BY AccountsAssumption, FS_Subset, FS_CardinalityType DEF Creators

(* The clock, the limits, the locks and the times of codes are numbers.     *)
LEMMA TimesAreNumbers ==
    ASSUME AccountsInv
    PROVE  /\ clock \in Nat /\ OtpWindow \in Nat /\ OtpLock \in Nat /\ MaxRequests \in Nat
           /\ \A h \in Handlers : my[h].until \in Nat
           /\ \A i \in DOMAIN otpSessions :
                  otpSessions[i].at \in Nat /\ otpSessions[i].lockedUntil \in Nat
<1>1. clock \in Nat /\ \A h \in Handlers : my[h].until \in Nat
  BY AccountsAssumption DEF AccountsInv, AccountsTypeOK, Request
<1>2. \A i \in DOMAIN otpSessions :
          otpSessions[i].at \in Nat /\ otpSessions[i].lockedUntil \in Nat
  BY AccountsAssumption, SessionRowsTyped DEF OtpSession
<1> QED
  BY <1>1, <1>2, AccountsAssumption

(* A step that sends no code and after which no more requests are to send   *)
(* one or to lock the phone.                                                *)
LEMMA NoCodeKeeps ==
    ASSUME AccountsInv, CodesInv, clock' = clock,
           DOMAIN otpSessions' = DOMAIN otpSessions,
           \A i \in DOMAIN otpSessions :
               /\ otpSessions'[i].at = otpSessions[i].at
               /\ \/ otpSessions'[i].lockedUntil = otpSessions[i].lockedUntil
                  \/ Full(otpSessions, otpSessions'[i].lockedUntil),
           \A h \in Handlers : my'[h].pc \in {"create", "lock"} => my'[h] = my[h]
    PROVE  CodesInv'
<1>1. \A from, to : Sent(otpSessions', from, to) = Sent(otpSessions, from, to)
  BY SameCodes
<1>2. CodesAreOfThePast'
  BY DEF CodesInv, CodesAreOfThePast
<1>3. PlacesAreLimited'
  <2>1. Creators' \subseteq Creators
    BY DEF Creators
  <2>2. Cardinality(Creators') \in Nat /\ Cardinality(Creators') <= Cardinality(Creators)
    BY <2>1, CreatorsFinite, FS_Subset, FS_CardinalityType
  <2>3. Sent(otpSessions, clock - OtpWindow, clock) \in Nat
    BY SentIsNat DEF AccountsInv, AccountsTypeOK
  <2> QED
    BY <1>1, <2>2, <2>3, CreatorsFinite, TimesAreNumbers DEF CodesInv, PlacesAreLimited
<1>4. WindowsAreLimited'
  BY <1>1 DEF CodesInv, WindowsAreLimited
<1>5. LocksAreEarned'
  BY <1>1 DEF CodesInv, LocksAreEarned, Full
<1> QED
  BY <1>2, <1>3, <1>4, <1>5 DEF CodesInv

(* The count: below the limit a place is left for the code, at the limit    *)
(* the window is full.                                                      *)
LEMMA CountKeeps ==
    ASSUME AccountsInv, CodesInv, NEW h \in Handlers, CountRecent(h)
    PROVE  CodesInv'
<1> DEFINE count == Sent(otpSessions, clock - OtpWindow, clock)
<1>1. getRecentAttemptCount = count
  <2>1. { i \in DOMAIN otpSessions : otpSessions[i].at + OtpWindow >= clock }
            = { i \in DOMAIN otpSessions : otpSessions[i].at \in clock - OtpWindow .. clock }
    BY TimesAreNumbers DEF CodesInv, CodesAreOfThePast
  <2> QED
    BY <2>1 DEF getRecentAttemptCount, Sent
<1> DEFINE pc == IF MayRequestOtp(getRecentAttemptCount) THEN "create" ELSE "lock"
<1>2. /\ my'[h].pc = pc /\ my'[h].until = clock + OtpLock
      /\ \A k \in Handlers \ {h} : my'[k] = my[k]
      /\ my[h].pc = "count" /\ clock' = clock /\ otpSessions' = otpSessions
  BY DEF CountRecent, AccountsInv, AccountsTypeOK, Request
<1>3. count \in Nat
  BY SentIsNat DEF AccountsInv, AccountsTypeOK
<1>4. \/ pc = "create" /\ count < MaxRequests
      \/ pc = "lock" /\ count >= MaxRequests
  <2>1. pc = IF count < MaxRequests THEN "create" ELSE "lock"
    BY <1>1 DEF MayRequestOtp
  <2> HIDE DEF pc, count
  <2> QED
    BY <1>3, <2>1, TimesAreNumbers
<1> HIDE DEF pc
<1>5. PlacesAreLimited'
  <2>1. CASE pc = "create"
    <3>1. Cardinality(Creators') \in Nat /\ Cardinality(Creators') <= Cardinality(Handlers)
      BY AccountsAssumption, FS_Subset, FS_CardinalityType DEF Creators
    <3> QED
      BY <1>2, <1>3, <1>4, <2>1, <3>1, CreatorsFinite, TimesAreNumbers DEF PlacesAreLimited
  <2>2. CASE pc = "lock"
    <3>1. Creators' = Creators
      BY <1>2, <2>2 DEF Creators
    <3> QED
      BY <1>2, <3>1 DEF CodesInv, PlacesAreLimited
  <2> QED
    BY <1>4, <2>1, <2>2
<1>6. LocksAreEarned'
  <2>1. ASSUME pc = "lock"
        PROVE  Full(otpSessions, clock + OtpLock)
    <3>1. (clock + OtpLock) - OtpLock = clock
      BY TimesAreNumbers
    <3> QED
      BY <1>4, <2>1, <3>1 DEF Full
  <2> QED
    BY <1>2, <2>1 DEF CodesInv, LocksAreEarned
<1>7. CodesAreOfThePast' /\ WindowsAreLimited'
  BY <1>2 DEF CodesInv, CodesAreOfThePast, WindowsAreLimited
<1> QED
  BY <1>5, <1>6, <1>7 DEF CodesInv

(* The code that is sent takes the place its request had.                   *)
LEMMA CreateKeeps ==
    ASSUME AccountsInv, AccountsInv', CodesInv, NEW h \in Handlers, CreateSession(h)
    PROVE  CodesInv'
<1> DEFINE n == Len(otpSessions)
           Rows(from, to) == { i \in DOMAIN otpSessions : otpSessions[i].at \in from .. to }
<1>1. /\ n \in Nat /\ DOMAIN otpSessions = 1 .. n /\ DOMAIN otpSessions' = 1 .. n + 1
      /\ \A i \in 1 .. n : otpSessions'[i] = otpSessions[i]
      /\ otpSessions'[n + 1].at = clock /\ otpSessions'[n + 1].lockedUntil = 0
      /\ clock' = clock
  BY DEF CreateSession, AccountsInv, AccountsTypeOK
<1>2. \A k \in Handlers : my'[k] = IF k = h THEN Resting ELSE my[k]
  BY DEF CreateSession, End, AccountsInv, AccountsTypeOK
<1> HIDE DEF n
<1>3. ASSUME NEW from \in Int, NEW to \in Int
      PROVE  /\ clock \in from .. to =>
                    Sent(otpSessions', from, to) = Sent(otpSessions, from, to) + 1
             /\ clock \notin from .. to =>
                    Sent(otpSessions', from, to) = Sent(otpSessions, from, to)
  <2>1. IsFiniteSet(Rows(from, to)) /\ n + 1 \notin Rows(from, to)
    <3>1. otpSessions \in Seq(OtpSession)
      BY DEF AccountsInv, AccountsTypeOK
    <3>2. IsFiniteSet(Rows(from, to))
      BY <3>1, SentIsNat
    <3> QED
      BY <1>1, <3>2
  <2>2. { i \in DOMAIN otpSessions' : otpSessions'[i].at \in from .. to }
            = IF clock \in from .. to THEN Rows(from, to) \cup {n + 1} ELSE Rows(from, to)
    BY <1>1
  <2> HIDE DEF Rows
  <2>3. Cardinality(Rows(from, to) \cup {n + 1}) = Cardinality(Rows(from, to)) + 1
    BY <2>1, FS_AddElement
  <2> QED
    BY <2>2, <2>3 DEF Sent, Rows
<1>4. CodesAreOfThePast'
  BY <1>1, TimesAreNumbers DEF CodesInv, CodesAreOfThePast
<1>5. PlacesAreLimited'
  <2>1. Creators' = Creators \ {h} /\ h \in Creators
    BY <1>2 DEF Creators, CreateSession, Resting
  <2>2. Cardinality(Creators') = Cardinality(Creators) - 1
    BY <2>1, CreatorsFinite, FS_RemoveElement
  <2>3. Sent(otpSessions', clock - OtpWindow, clock)
            = Sent(otpSessions, clock - OtpWindow, clock) + 1
    BY <1>3, TimesAreNumbers
  <2>4. Sent(otpSessions, clock - OtpWindow, clock) \in Nat
    BY SentIsNat DEF AccountsInv, AccountsTypeOK
  <2> QED
    BY <1>1, <2>2, <2>3, <2>4, CreatorsFinite, TimesAreNumbers DEF CodesInv, PlacesAreLimited
<1>6. WindowsAreLimited'
  <2> SUFFICES ASSUME NEW t \in 0 .. clock
               PROVE  Sent(otpSessions', t - OtpWindow, t) < MaxRequests + Cardinality(Handlers)
    BY <1>1 DEF WindowsAreLimited
  <2>1. CASE t = clock
    <3>1. Cardinality(Creators') \in Nat
      BY AccountsAssumption, FS_Subset, FS_CardinalityType DEF Creators
    <3>2. Sent(otpSessions', clock - OtpWindow, clock) \in Nat
      BY SentIsNat DEF AccountsInv, AccountsTypeOK
    <3> QED
      BY <1>1, <1>5, <2>1, <3>1, <3>2, CreatorsFinite, TimesAreNumbers DEF PlacesAreLimited
  <2>2. CASE t # clock
    <3>1. Sent(otpSessions', t - OtpWindow, t) = Sent(otpSessions, t - OtpWindow, t)
      BY <1>3, <2>2, TimesAreNumbers
    <3> QED
      BY <3>1 DEF CodesInv, WindowsAreLimited
  <2> QED
    BY <2>1, <2>2
<1>7. LocksAreEarned'
  <2>1. ASSUME NEW until \in Nat, Full(otpSessions, until)
        PROVE  Full(otpSessions', until)
    <3> DEFINE from == until - OtpLock - OtpWindow
               to == until - OtpLock
    <3>1. from \in Int /\ to \in Int
      BY TimesAreNumbers
    <3>2. Sent(otpSessions, from, to) \in Nat
      BY SentIsNat DEF AccountsInv, AccountsTypeOK
    <3> HIDE DEF from, to
    <3>3. Sent(otpSessions', from, to) >= Sent(otpSessions, from, to)
             /\ Sent(otpSessions', from, to) \in Nat
      BY <1>3, <3>1, <3>2
    <3>4. Sent(otpSessions', from, to) >= MaxRequests
      BY <2>1, <3>2, <3>3, TimesAreNumbers DEF Full, from, to
    <3> QED
      BY <3>4 DEF Full, from, to
  <2>2. \A k \in Handlers : my'[k].pc = "lock" => my'[k] = my[k]
    BY <1>2 DEF Resting
  <2> QED
    BY <1>1, <2>1, <2>2, TimesAreNumbers DEF CodesInv, LocksAreEarned
<1> QED
  BY <1>4, <1>5, <1>6, <1>7 DEF CodesInv

(* When the clock goes on, no window holds more than the last one did.      *)
LEMMA PassesKeeps ==
    ASSUME AccountsInv, CodesInv, Passes
    PROVE  CodesInv'
<1>1. clock' = clock + 1 /\ otpSessions' = otpSessions /\ my' = my
  BY DEF Passes
<1>2. Creators' = Creators
  BY <1>1 DEF Creators
<1>3. /\ Sent(otpSessions, clock' - OtpWindow, clock') \in Nat
      /\ Sent(otpSessions, clock' - OtpWindow, clock')
             <= Sent(otpSessions, clock - OtpWindow, clock)
  <2> DEFINE new == { i \in DOMAIN otpSessions : otpSessions[i].at \in clock' - OtpWindow .. clock' }
             old == { i \in DOMAIN otpSessions : otpSessions[i].at \in clock - OtpWindow .. clock }
  <2>1. new \subseteq old
    BY <1>1, TimesAreNumbers DEF CodesInv, CodesAreOfThePast
  <2>2. IsFiniteSet(old)
    BY SentIsNat DEF AccountsInv, AccountsTypeOK
  <2>3. Sent(otpSessions, clock' - OtpWindow, clock') = Cardinality(new)
           /\ Sent(otpSessions, clock - OtpWindow, clock) = Cardinality(old)
    BY DEF Sent
  <2> HIDE DEF new, old
  <2> QED
    BY <2>1, <2>2, <2>3, FS_Subset, FS_CardinalityType
<1>4. Sent(otpSessions, clock - OtpWindow, clock) \in Nat
  BY SentIsNat DEF AccountsInv, AccountsTypeOK
<1>5. PlacesAreLimited'
  BY <1>1, <1>2, <1>3, <1>4, CreatorsFinite, TimesAreNumbers DEF CodesInv, PlacesAreLimited
<1>6. WindowsAreLimited'
  <2>1. Sent(otpSessions, clock' - OtpWindow, clock') < MaxRequests + Cardinality(Handlers)
    BY <1>1, <1>2, <1>3, <1>5, CreatorsFinite, TimesAreNumbers DEF PlacesAreLimited
  <2>2. ASSUME NEW t \in 0 .. clock'
        PROVE  t \in 0 .. clock \/ t = clock'
    BY <1>1, TimesAreNumbers
  <2> QED
    BY <1>1, <2>1, <2>2 DEF CodesInv, WindowsAreLimited
<1>7. CodesAreOfThePast'
  BY <1>1, TimesAreNumbers DEF CodesInv, CodesAreOfThePast
<1>8. LocksAreEarned'
  BY <1>1 DEF CodesInv, LocksAreEarned
<1> QED
  BY <1>5, <1>6, <1>7, <1>8 DEF CodesInv

(* Every command and step of Accounts, the clock and a crash.               *)
LEMMA AccountsKeepCodes ==
    ASSUME AccountsInv, AccountsInv', CodesInv,
           SignInCommand \/ AccountCommand \/ AccountStep \/ Passes \/ Crash
    PROVE  CodesInv'
<1>1. ASSUME UNCHANGED <<clock, otpSessions, my>>
      PROVE  CodesInv'
  BY <1>1, NoCodeKeeps
<1>2. ASSUME NEW h \in Handlers, NEW cmd, NEW pc, NEW u, NEW i, Begin(h, cmd, pc, u, i),
             pc \notin {"create", "lock"}, UNCHANGED <<clock, otpSessions>>
      PROVE  CodesInv'
  <2>1. my'[h].pc = pc /\ \A k \in Handlers \ {h} : my'[k] = my[k]
    BY <1>2 DEF Begin, Resting, AccountsInv, AccountsTypeOK
  <2> QED
    BY <1>2, <2>1, NoCodeKeeps
<1>3. ASSUME NEW h \in Handlers, UNCHANGED <<clock, otpSessions>>,
             \/ End(h)
             \/ \E pc \in {"signUp"} \cup DeletionPcs : Step(h, pc)
             \/ my'[h].pc \notin {"create", "lock"} /\ \A k \in Handlers \ {h} : my'[k] = my[k]
      PROVE  CodesInv'
  <2>1. my'[h].pc \notin {"create", "lock"} /\ \A k \in Handlers \ {h} : my'[k] = my[k]
    BY <1>3 DEF End, Step, Resting, DeletionPcs, AccountsInv, AccountsTypeOK, Request
  <2> QED
    BY <1>3, <2>1, NoCodeKeeps
<1>4. CASE SignInCommand
  BY <1>2, <1>4 DEF SignInCommand, BeginSignIn, BeginSendOtp, BeginVerifyOtp, BeginAdminLogin
<1>5. CASE AccountCommand
  <2>1. ASSUME NEW h \in Handlers, NEW u \in Users,
               BeginRegisterDevice(h, u) \/ BeginDeleteAccount(h, u)
        PROVE  CodesInv'
    BY <1>2, <2>1 DEF BeginRegisterDevice, BeginDeleteAccount
  <2>2. ASSUME NEW u \in Users, SettleAccount(u)
        PROVE  CodesInv'
    <3>1. UNCHANGED <<clock, otpSessions, my>>
      BY <2>2 DEF SettleAccount, AdminLogout, Logout, RefreshAccessToken, AccessExpires,
                 SaveDeliveryLocation, PlanMoves, GetReferral, DeactivateCustomer
    <3> QED
      BY <1>1, <3>1
  <2> QED
    BY <1>5, <2>1, <2>2 DEF AccountCommand
<1>6. ASSUME NEW h \in Handlers, ContinueSignIn(h)
      PROVE  CodesInv'
  <2>1. CASE CountRecent(h)
    BY <2>1, CountKeeps
  <2>2. CASE CreateSession(h)
    BY <2>2, CreateKeeps
  <2>3. CASE LockPhone(h)
    <3>1. Full(otpSessions, my[h].until)
      BY <2>3 DEF LockPhone, CodesInv, LocksAreEarned
    <3>2. /\ DOMAIN otpSessions' = DOMAIN otpSessions
          /\ \A i \in DOMAIN otpSessions :
                 /\ otpSessions'[i].at = otpSessions[i].at
                 /\ otpSessions'[i].lockedUntil \in {otpSessions[i].lockedUntil, my[h].until}
      BY <2>3, SessionRowsTyped DEF LockPhone, OtpSession
    <3>3. \A k \in Handlers : my'[k] = IF k = h THEN Resting ELSE my[k]
      BY <2>3 DEF LockPhone, End, AccountsInv, AccountsTypeOK
    <3> QED
      BY <2>3, <3>1, <3>2, <3>3, NoCodeKeeps DEF LockPhone, Resting
  <2>4. CASE MarkVerified(h)
    <3>1. /\ DOMAIN otpSessions' = DOMAIN otpSessions
          /\ \A i \in DOMAIN otpSessions :
                 /\ otpSessions'[i].at = otpSessions[i].at
                 /\ otpSessions'[i].lockedUntil = otpSessions[i].lockedUntil
      BY <2>4, SessionRowsTyped DEF MarkVerified, OtpSession
    <3>2. /\ my'[h].pc = "find"
          /\ \A k \in Handlers \ {h} : my'[k] = my[k]
      BY <2>4 DEF MarkVerified, Step, AccountsInv, AccountsTypeOK, Request
    <3> QED
      BY <2>4, <3>1, <3>2, NoCodeKeeps DEF MarkVerified
  <2>5. CASE FindUser(h)
    <3>1. CASE holder # NoUser /\ MaySignInByPhone(holder)
      <4>1. my'[h].pc = "token" /\ \A k \in Handlers \ {h} : my'[k] = my[k]
        BY <2>5, <3>1 DEF FindUser, AccountsInv, AccountsTypeOK, Request
      <4> QED
        BY <1>3, <2>5, <4>1 DEF FindUser
    <3>2. CASE ~(holder # NoUser /\ MaySignInByPhone(holder))
      BY <1>3, <2>5, <3>2 DEF FindUser
    <3> QED
      BY <3>1, <3>2
  <2>6. ASSUME NEW u \in Users, SignUp(h, u)
        PROVE  CodesInv'
    <3>1. my'[h].pc = "token" /\ \A k \in Handlers \ {h} : my'[k] = my[k]
      BY <2>6 DEF SignUp, AccountsInv, AccountsTypeOK, Request
    <3> QED
      BY <1>3, <2>6, <3>1 DEF SignUp
  <2>7. CASE SignUpFails(h) \/ CreateToken(h) \/ UpsertDevice(h)
    BY <1>3, <2>7 DEF SignUpFails, CreateToken, UpsertDevice
  <2> QED
    BY <1>6, <2>1, <2>2, <2>3, <2>4, <2>5, <2>6, <2>7 DEF ContinueSignIn
<1>7. ASSUME NEW h \in Handlers, ContinueDeletion(h)
      PROVE  CodesInv'
  <2>1. UNCHANGED <<clock, otpSessions>>
    BY <1>7 DEF ContinueDeletion, CancelPlan, ListLocations, DestroyLocation,
               RevokeAllUserTokens, DeactivateAllDevices, AnonymizeAccount
  <2>2. CASE ListLocations(h) \/ DestroyLocation(h)
    <3>1. /\ my'[h].pc \in {"destroy", "revoke"}
          /\ \A k \in Handlers \ {h} : my'[k] = my[k]
      <4>1. my[h] \in Request /\ h \in DOMAIN my
        BY DEF AccountsInv, AccountsTypeOK
      <4>2. CASE ListLocations(h)
        BY <4>1, <4>2 DEF ListLocations, AccountsInv, AccountsTypeOK, Request
      <4>3. CASE DestroyLocation(h)
        <5>1. PICK l \in my[h].rest :
                  my' = [my EXCEPT ![h].rest = @ \ {l},
                                   ![h].pc = IF my[h].rest = {l} THEN "revoke" ELSE @]
          BY <4>3 DEF DestroyLocation
        <5>2. my'[h].pc = IF my[h].rest = {l} THEN "revoke" ELSE my[h].pc
          BY <4>1, <5>1 DEF Request
        <5>3. \A k \in Handlers \ {h} : my'[k] = my[k]
          BY <4>1, <5>1 DEF AccountsInv, AccountsTypeOK
        <5> QED
          BY <4>3, <5>2, <5>3 DEF DestroyLocation
      <4> QED
        BY <2>2, <4>2, <4>3
    <3> QED
      BY <1>3, <2>1, <3>1
  <2>3. CASE ~(ListLocations(h) \/ DestroyLocation(h))
    <3>1. \/ End(h)
          \/ \E pc \in {"signUp"} \cup DeletionPcs : Step(h, pc)
      BY <1>7, <2>3 DEF ContinueDeletion, CancelPlan, RevokeAllUserTokens,
                        DeactivateAllDevices, AnonymizeAccount, DeletionPcs
    <3> QED
      BY <1>3, <2>1, <3>1
  <2> QED
    BY <2>2, <2>3
<1>8. CASE AccountStep
  BY <1>6, <1>7, <1>8 DEF AccountStep
<1>9. CASE Passes
  BY <1>9, PassesKeeps
<1>10. CASE Crash
  BY <1>10, NoCodeKeeps DEF Crash, Resting
<1> QED
  BY <1>4, <1>5, <1>8, <1>9, <1>10

-------------------------------------------------------------------------------
(* Checkout sessions.  A session never spends more of the wallet than its   *)
(* price, less the credit for the plan it replaces.                         *)
CheckoutTyped ==
    /\ sessions \in Seq(Session) /\ balance \in Nat
    /\ payments \subseteq [session: Nat, row: Session]
    /\ orders \subseteq Codes \cup {NoCode} /\ fulfilled \subseteq Nat /\ raced \subseteq Nat
    /\ cart \in [Handlers -> Cart]

WalletsFit == \A i \in DOMAIN sessions : sessions[i].wallet <= Cap(sessions[i])
PaymentsHaveSessions == \A pay \in payments : pay.session \in DOMAIN sessions

CheckoutInv == CheckoutTyped /\ WalletsFit /\ PaymentsHaveSessions

(* What is taken for a session is no more than its price, less the credit,  *)
(* the wallet and the code on it.                                           *)
IsNotTooMuch(s) ==
    s.wallet <= Cap(s) /\ s.due <= Monus(Cap(s), s.wallet + s.discount)
NobodyPaysTooMuch == \A pay \in payments : IsNotTooMuch(pay.row)

(* What may be charged at most: no more than the price of the plan.         *)
LEMMA CapIsPrice ==
    ASSUME NEW s \in Session
    PROVE  Cap(s) \in Nat /\ Cap(s) <= s.base
<1>1. s.base \in Nat /\ s.prior \in Nat
  BY DEF Session
<1> QED
  BY <1>1 DEF Cap, Monus

(* What computeCheckoutWalletAndDue returns.                                *)
LEMMA AmountsAreNumbers ==
    ASSUME balance \in Nat, NEW s \in Session
    PROVE  LET new == computeCheckoutWalletAndDue(s) IN
           /\ new.wallet \in Nat /\ new.wallet <= Cap(s) /\ new.due \in Nat
           /\ new.due = Monus(Cap(s), new.wallet + s.discount)
           /\ new.wallet = AtMost(balance, Cap(s))
<1>1. Cap(s) \in Nat /\ s.discount \in Nat
  BY CapIsPrice DEF Session
<1>2. AtMost(balance, Cap(s)) \in Nat /\ AtMost(balance, Cap(s)) <= Cap(s)
  BY <1>1 DEF AtMost
<1>3. Monus(Cap(s), AtMost(balance, Cap(s)) + s.discount) \in Nat
  BY <1>1, <1>2 DEF Monus
<1> QED
  BY <1>1, <1>2, <1>3 DEF computeCheckoutWalletAndDue

(* A session whose wallet part is computed anew is typed, and is not        *)
(* charged too much if the balance covers that part.                        *)
LEMMA RefreshedIsTyped ==
    ASSUME balance \in Nat, NEW s \in Session, s.wallet <= Cap(s)
    PROVE  /\ Refreshed(s) \in Session
           /\ Refreshed(s).wallet <= Cap(Refreshed(s))
           /\ balance >= Refreshed(s).wallet => IsNotTooMuch(Refreshed(s))
<1> DEFINE new == computeCheckoutWalletAndDue(s)
           changed == [s EXCEPT !.wallet = new.wallet, !.due = new.due]
<1>1. /\ new.wallet \in Nat /\ new.wallet <= Cap(s) /\ new.due \in Nat
      /\ new.due = Monus(Cap(s), new.wallet + s.discount)
      /\ new.wallet = AtMost(balance, Cap(s))
  BY AmountsAreNumbers
<1>2. Refreshed(s) = IF new.wallet > s.wallet \/ new.due < s.due THEN changed ELSE s
  BY DEF Refreshed, shouldRefreshCheckoutWallet
<1> HIDE DEF new
<1>3. changed \in Session /\ changed.wallet = new.wallet /\ changed.due = new.due
         /\ changed.discount = s.discount /\ changed.base = s.base
         /\ changed.prior = s.prior /\ changed.promotion = s.promotion
  BY <1>1 DEF Session
<1>4. Cap(changed) = Cap(s)
  BY <1>3 DEF Cap
<1> HIDE DEF changed
<1>5. CASE new.wallet > s.wallet \/ new.due < s.due
  <2>1. changed.due <= Monus(Cap(s), changed.wallet + changed.discount)
    BY <1>1, <1>3
  <2> QED
    BY <1>1, <1>2, <1>3, <1>4, <1>5, <2>1 DEF IsNotTooMuch
<1>6. CASE ~(new.wallet > s.wallet \/ new.due < s.due)
  <2>1. s.wallet \in Nat /\ s.due \in Nat /\ Cap(s) \in Nat
    BY CapIsPrice DEF Session
  <2>2. ASSUME balance >= s.wallet
        PROVE  s.due <= Monus(Cap(s), s.wallet + s.discount)
    <3>1. new.wallet = s.wallet
      BY <1>1, <1>6, <2>1, <2>2 DEF AtMost
    <3> QED
      BY <1>1, <1>6, <2>1, <3>1
  <2> QED
    BY <1>2, <1>6, <2>2 DEF IsNotTooMuch
<1> QED
  BY <1>5, <1>6

(* A row that is changed stays a row whose wallet part fits.                *)
LEMMA ChangedSessionFits ==
    ASSUME CheckoutInv, NEW i, NEW new,
           i \in DOMAIN sessions => new \in Session /\ new.wallet <= Cap(new),
           sessions' = [sessions EXCEPT ![i] = new]
    PROVE  /\ sessions' \in Seq(Session) /\ DOMAIN sessions' = DOMAIN sessions
           /\ WalletsFit'
<1>1. sessions' \in Seq(Session) /\ DOMAIN sessions' = DOMAIN sessions
  BY ChangedRowIsTyped DEF CheckoutInv, CheckoutTyped
<1>2. \A j \in DOMAIN sessions : sessions'[j] = IF j = i THEN new ELSE sessions[j]
  OBVIOUS
<1>3. WalletsFit'
  <2> SUFFICES ASSUME NEW j \in DOMAIN sessions
               PROVE  sessions'[j].wallet <= Cap(sessions'[j])
    BY <1>1 DEF WalletsFit
  <2> QED
    BY <1>2 DEF CheckoutInv, WalletsFit
<1> QED
  BY <1>1, <1>3

(* Every checkout session is a typed row, its wallet part within its price. *)
LEMMA SessionsTyped ==
    ASSUME CheckoutInv, NEW i \in DOMAIN sessions
    PROVE  /\ sessions[i] \in Session /\ i \in Nat
           /\ sessions[i].wallet <= Cap(sessions[i])
<1>1. sessions[i] \in Session /\ i \in Nat
  BY DEF CheckoutInv, CheckoutTyped
<1> QED
  BY <1>1 DEF CheckoutInv, WalletsFit

(* The amounts of a new session fit its price.                              *)
LEMMA CreatedSessionFits ==
    ASSUME AccountsInv, CheckoutInv, NEW p \in Plans, CreateCheckoutSession(p)
    PROVE  CheckoutInv'
<1> DEFINE blank == [plan |-> p, base |-> Price(p), wallet |-> 0, discount |-> 0,
                     due |-> 0, code |-> NoCode, attempts |-> 0, locked |-> FALSE,
                     status |-> "active", onTime |-> TRUE,
                     promotion |-> IF IsLive THEN mine.id ELSE 0,
                     prior |-> IF IsLive THEN mine.paid ELSE 0]
           amounts == computeCheckoutWalletAndDue(blank)
           new == [blank EXCEPT !.wallet = amounts.wallet, !.due = amounts.due]
           older == [i \in DOMAIN sessions |->
                        IF sessions[i].status = "active"
                        THEN [sessions[i] EXCEPT !.status = "expired"] ELSE sessions[i]]
<1>1. sessions' = Append(older, new)
  BY Zenon DEF CreateCheckoutSession
<1>2. UNCHANGED <<balance, payments, orders, fulfilled, raced, cart>>
  BY DEF CreateCheckoutSession
<1>3. blank \in Session
  <2>1. mine.id \in Nat /\ mine.paid \in Nat
    BY CheckoutCodesAssumption DEF mine, AccountsInv, AccountsTypeOK, Subscription
  <2>2. Price(p) \in Nat
    BY CheckoutCodesAssumption
  <2> QED
    BY <2>1, <2>2 DEF Session
<1>4. /\ amounts.wallet \in Nat /\ amounts.due \in Nat
      /\ amounts.wallet <= Cap(blank)
  <2> HIDE DEF blank
  <2> QED
    BY <1>3, AmountsAreNumbers DEF CheckoutInv, CheckoutTyped
<1>5. new \in Session /\ new.wallet <= Cap(new)
  <2> HIDE DEF blank, amounts
  <2>1. /\ new \in Session /\ new.wallet = amounts.wallet /\ new.base = blank.base
        /\ new.prior = blank.prior /\ new.promotion = blank.promotion
    BY <1>3, <1>4 DEF Session
  <2> QED
    BY <1>4, <2>1 DEF Cap
<1>6. \A i \in DOMAIN sessions :
          older[i] \in Session /\ older[i].wallet <= Cap(older[i])
  <2> SUFFICES ASSUME NEW i \in DOMAIN sessions
               PROVE  older[i] \in Session /\ older[i].wallet <= Cap(older[i])
    OBVIOUS
  <2>1. /\ older[i] \in Session /\ older[i].wallet = sessions[i].wallet
        /\ older[i].base = sessions[i].base /\ older[i].prior = sessions[i].prior
        /\ older[i].promotion = sessions[i].promotion
    BY SessionsTyped DEF Session
  <2> HIDE DEF older
  <2> QED
    BY <2>1, SessionsTyped DEF Cap
<1> HIDE DEF blank, amounts, new
<1>7. /\ older \in Seq(Session) /\ Len(older) = Len(sessions) /\ Len(sessions) \in Nat
      /\ DOMAIN sessions = 1 .. Len(sessions)
  BY <1>6 DEF CheckoutInv, CheckoutTyped
<1> HIDE DEF older
<1>8. /\ sessions' \in Seq(Session) /\ DOMAIN sessions' = 1 .. Len(sessions) + 1
      /\ \A i \in DOMAIN sessions : sessions'[i] = older[i]
      /\ sessions'[Len(sessions) + 1] = new
  BY <1>1, <1>5, <1>7
<1>9. WalletsFit'
  BY <1>5, <1>6, <1>7, <1>8 DEF WalletsFit
<1> QED
  BY <1>2, <1>7, <1>8, <1>9 DEF CheckoutInv, CheckoutTyped, PaymentsHaveSessions

(* What a request on a code will write is an amount.                        *)
LEMMA BeginCodeFits ==
    ASSUME CheckoutInv, NEW h \in Handlers, NEW i \in DOMAIN sessions,
           BeginRemovePromoCode(h, i) \/ \E c \in Codes : BeginApplyPromoCode(h, i, c)
    PROVE  CheckoutInv'
<1>1. /\ sessions[i] \in Session /\ i \in Nat
      /\ sessions[i].wallet \in Nat /\ sessions[i].base \in Nat
      /\ sessions[i].wallet <= sessions[i].base
      /\ sessions[i].attempts + 1 \in Nat /\ sessions[i].plan \in Plans
  BY SessionsTyped, CapIsPrice DEF Session
<1>2. UNCHANGED checkout
  BY DEF BeginRemovePromoCode, BeginApplyPromoCode
<1>3. CASE BeginRemovePromoCode(h, i)
  <2>1. [EmptyCart EXCEPT !.pc = "price", !.session = i,
                          !.due = sessions[i].base - sessions[i].wallet] \in Cart
    <3>1. sessions[i].base - sessions[i].wallet \in Nat
      BY <1>1
    <3> QED
      BY <1>1, <3>1 DEF EmptyCart, Cart
  <2>2. cart' \in [Handlers -> Cart]
    BY <1>3, <2>1 DEF BeginRemovePromoCode, CheckoutInv, CheckoutTyped
  <2> QED
    BY <1>2, <2>2 DEF checkout, CheckoutInv, CheckoutTyped, WalletsFit, PaymentsHaveSessions
<1>4. ASSUME NEW c \in Codes, BeginApplyPromoCode(h, i, c)
      PROVE  CheckoutInv'
  <2> DEFINE off == DiscountOn(c, sessions[i].plan)
             verdict == Verdict(c, sessions[i].plan)
             new == [pc |-> verdict, session |-> i, code |-> c, discount |-> off,
                     due |-> Monus(sessions[i].base, sessions[i].wallet + off),
                     attempts |-> sessions[i].attempts + 1]
  <2>1. cart' = [cart EXCEPT ![h] = new] /\ verdict # "refuse"
    BY <1>4 DEF BeginApplyPromoCode
  <2>2. verdict \in {"fail", "price"}
    BY <2>1 DEF Verdict
  <2>3. off \in Nat
    <3>1. Price(sessions[i].plan) \in Nat /\ Discount(c) \in Nat
      BY <1>1, CheckoutCodesAssumption
    <3>2. referralFriendDiscountSar(Price(sessions[i].plan)) \in Nat
      BY <3>1 DEF referralFriendDiscountSar
    <3> QED
      BY <3>1, <3>2 DEF DiscountOn
  <2> HIDE DEF off, verdict
  <2>4. Monus(sessions[i].base, sessions[i].wallet + off) \in Nat
    BY <1>1, <2>3 DEF Monus
  <2>5. new \in Cart
    BY <1>1, <2>2, <2>3, <2>4 DEF Cart
  <2>6. cart' \in [Handlers -> Cart]
    BY <2>1, <2>5 DEF CheckoutInv, CheckoutTyped
  <2> QED
    BY <1>2, <2>6 DEF checkout, CheckoutInv, CheckoutTyped, WalletsFit, PaymentsHaveSessions
<1> QED
  BY <1>3, <1>4

(* So do those of a session a code is written to.                           *)
LEMMA WrittenCodeFits ==
    ASSUME CheckoutInv, NEW h \in Handlers, WriteAttempt(h) \/ WritePrice(h)
    PROVE  CheckoutInv'
<1>1. EmptyCart \in Cart
  BY DEF EmptyCart, Cart
<1>2. cart' \in [Handlers -> Cart] /\ UNCHANGED <<balance, payments, orders, fulfilled, raced>>
  BY <1>1 DEF WriteAttempt, WritePrice, CheckoutInv, CheckoutTyped
<1>3. cart[h] \in Cart
  BY DEF CheckoutInv, CheckoutTyped
<1> DEFINE i == cart[h].session
<1>4. sessions' \in Seq(Session) /\ DOMAIN sessions' = DOMAIN sessions /\ WalletsFit'
  <2>1. CASE WriteAttempt(h)
    <3> DEFINE new == [sessions[i] EXCEPT !.attempts = cart[h].attempts,
                                          !.locked = cart[h].attempts >= MaxPromoAttempts]
    <3>1. sessions' = [sessions EXCEPT ![i] = new]
      BY <2>1 DEF WriteAttempt
    <3>2. ASSUME i \in DOMAIN sessions
          PROVE  /\ new \in Session /\ new.wallet = sessions[i].wallet
                 /\ new.base = sessions[i].base /\ new.prior = sessions[i].prior
                 /\ new.promotion = sessions[i].promotion
      <4>1. /\ sessions[i] \in Session /\ cart[h].attempts \in Nat
            /\ (cart[h].attempts >= MaxPromoAttempts) \in BOOLEAN
        BY <1>3, <3>2, SessionsTyped DEF Cart
      <4> QED
        BY ONLY <4>1 DEF Session
    <3> HIDE DEF new
    <3>3. i \in DOMAIN sessions => new \in Session /\ new.wallet <= Cap(new)
      BY <3>2, SessionsTyped DEF Cap
    <3> HIDE DEF i
    <3> QED
      BY <3>1, <3>3, ChangedSessionFits
  <2>2. CASE WritePrice(h)
    <3> DEFINE new == [sessions[i] EXCEPT !.code = cart[h].code, !.discount = cart[h].discount,
                                          !.due = cart[h].due]
    <3>1. sessions' = [sessions EXCEPT ![i] = new]
      BY <2>2 DEF WritePrice
    <3>2. ASSUME i \in DOMAIN sessions
          PROVE  /\ new \in Session /\ new.wallet = sessions[i].wallet
                 /\ new.base = sessions[i].base /\ new.prior = sessions[i].prior
                 /\ new.promotion = sessions[i].promotion
      <4>1. /\ sessions[i] \in Session /\ cart[h].code \in Codes \cup {NoCode}
            /\ cart[h].discount \in Nat /\ cart[h].due \in Nat
        BY <1>3, <3>2, SessionsTyped DEF Cart
      <4> QED
        BY ONLY <4>1 DEF Session
    <3> HIDE DEF new
    <3>3. i \in DOMAIN sessions => new \in Session /\ new.wallet <= Cap(new)
      BY <3>2, SessionsTyped DEF Cap
    <3> HIDE DEF i
    <3> QED
      BY <3>1, <3>3, ChangedSessionFits
  <2> QED
    BY <2>1, <2>2
<1> QED
  BY <1>2, <1>4 DEF CheckoutInv, CheckoutTyped, PaymentsHaveSessions

(* Sessions that expire keep their amounts.                                 *)
LEMMA ExpiryFits ==
    ASSUME CheckoutInv, NEW i \in DOMAIN sessions, SessionExpires(i)
    PROVE  CheckoutInv'
<1> DEFINE new == [sessions[i] EXCEPT !.onTime = FALSE]
<1>1. sessions' = [sessions EXCEPT ![i] = new]
  BY DEF SessionExpires
<1>2. /\ new \in Session /\ new.wallet = sessions[i].wallet /\ new.base = sessions[i].base
      /\ new.prior = sessions[i].prior /\ new.promotion = sessions[i].promotion
  BY SessionsTyped DEF Session
<1> HIDE DEF new
<1>3. new.wallet <= Cap(new)
  BY <1>2, SessionsTyped DEF Cap
<1> QED
  BY <1>1, <1>2, <1>3, ChangedSessionFits
     DEF SessionExpires, CheckoutInv, CheckoutTyped, PaymentsHaveSessions

(* A payment is taken with the row as it is after the last refresh, and     *)
(* only if the wallet covers its part: so it is not too much.               *)
LEMMA OrderFits ==
    ASSUME CheckoutInv, NobodyPaysTooMuch, NEW i \in DOMAIN sessions,
           NEW outcome \in {"paid", "declined", "refused"}, CreateOrder(i, outcome)
    PROVE  CheckoutInv' /\ NobodyPaysTooMuch'
<1> DEFINE s == Refreshed(sessions[i])
           new == IF outcome = "refused" THEN s ELSE [s EXCEPT !.status = "confirmed"]
<1>1. /\ sessions' = [sessions EXCEPT ![i] = new]
      /\ outcome = "paid" => balance >= s.wallet
      /\ payments' = IF outcome # "paid" THEN payments
                     ELSE payments \cup {[session |-> i, row |-> sessions'[i]]}
      /\ raced' \subseteq raced \cup {i}
      /\ UNCHANGED <<balance, orders, fulfilled, cart>>
  BY DEF CreateOrder, MayOrder
<1>2. /\ i \in Nat /\ s \in Session /\ s.wallet <= Cap(s)
      /\ outcome = "paid" => IsNotTooMuch(s)
  BY <1>1, SessionsTyped, RefreshedIsTyped DEF CheckoutInv, CheckoutTyped
<1> HIDE DEF s
<1>3. /\ new \in Session /\ new.wallet = s.wallet /\ new.base = s.base /\ new.due = s.due
      /\ new.discount = s.discount /\ new.prior = s.prior /\ new.promotion = s.promotion
  BY <1>2 DEF Session
<1> HIDE DEF new
<1>4. Cap(new) = Cap(s)
  BY <1>3 DEF Cap
<1>5. sessions' \in Seq(Session) /\ DOMAIN sessions' = DOMAIN sessions /\ WalletsFit'
  BY <1>1, <1>2, <1>3, <1>4, ChangedSessionFits
<1>6. sessions'[i] = new
  BY <1>1
<1>7. payments' \subseteq [session: Nat, row: Session]
  BY <1>1, <1>2, <1>3, <1>6 DEF CheckoutInv, CheckoutTyped
<1>8. outcome = "paid" => IsNotTooMuch(new)
  BY <1>2, <1>3, <1>4 DEF IsNotTooMuch
<1>9. CheckoutInv'
  BY <1>1, <1>2, <1>5, <1>7 DEF CheckoutInv, CheckoutTyped, PaymentsHaveSessions
<1>10. NobodyPaysTooMuch'
  BY <1>1, <1>6, <1>8 DEF NobodyPaysTooMuch
<1> QED
  BY <1>9, <1>10

(* The wallet is spent, the order and the plan are written.                 *)
LEMMA FulfilmentFits ==
    ASSUME AccountsInv, CheckoutInv, NEW pay \in payments, FulfillPaidCheckout(pay)
    PROVE  AccountsInv' /\ CheckoutInv'
<1>1. /\ pay.session \in Nat /\ pay.row \in Session
      /\ sessions[pay.session] \in Session
  BY SessionsTyped DEF CheckoutInv, CheckoutTyped, PaymentsHaveSessions
<1>2. PICK row \in Session :
          /\ balance >= row.wallet
          /\ balance' = balance - row.wallet
          /\ orders' = orders \cup {row.code}
          /\ subscription' =
                 IF row.promotion = 0
                 THEN [subscription EXCEPT ![Shopper] =
                          [id |-> @.id + 1, status |-> "active", plan |-> row.plan,
                           paid |-> row.due]]
                 ELSE IF row.promotion # mine.id THEN subscription
                 ELSE [subscription EXCEPT
                          ![Shopper].status = IF @ = "cancelled" THEN "active" ELSE @,
                          ![Shopper].plan = row.plan, ![Shopper].paid = row.due]
  BY <1>1, Zenon DEF FulfillPaidCheckout
<1>3. /\ row.wallet \in Nat /\ row.code \in Codes \cup {NoCode} /\ row.plan \in Plans
      /\ row.due \in Nat
  BY DEF Session
<1>4. Shopper \in Users /\ subscription[Shopper] \in Subscription
  BY CheckoutCodesAssumption DEF AccountsInv, AccountsTypeOK
<1>5. subscription' \in [Users -> Subscription]
  <2> DEFINE started == [id |-> subscription[Shopper].id + 1, status |-> "active",
                         plan |-> row.plan, paid |-> row.due]
             upgraded == [subscription[Shopper] EXCEPT
                             !.status = IF @ = "cancelled" THEN "active" ELSE @,
                             !.plan = row.plan, !.paid = row.due]
  <2>1. started \in Subscription
    BY <1>3, <1>4 DEF Subscription, SubscriptionStatus
  <2>2. upgraded \in Subscription
    BY <1>3, <1>4 DEF Subscription, SubscriptionStatus
  <2>3. \/ subscription' = [subscription EXCEPT ![Shopper] = started]
        \/ subscription' = subscription
        \/ subscription' = [subscription EXCEPT ![Shopper] = upgraded]
    BY <1>2, <1>4 DEF AccountsInv, AccountsTypeOK
  <2> HIDE DEF started, upgraded
  <2> QED
    BY <2>1, <2>2, <2>3 DEF AccountsInv, AccountsTypeOK
<1>6. UNCHANGED <<clock, otpSessions, users, signedIn, devices, locations, my,
                  sessions, payments, raced, cart>>
  BY DEF FulfillPaidCheckout
<1>7. written' \subseteq Users
  BY <1>4, NoteIsTyped DEF FulfillPaidCheckout
<1>8. AccountsInv'
  BY <1>5, <1>6, <1>7 DEF AccountsInv, AccountsTypeOK, RequestsServeUsers, users, signedIn
<1>9. balance' \in Nat /\ orders' \subseteq Codes \cup {NoCode} /\ fulfilled' \subseteq Nat
  <2>1. balance \in Nat
    BY DEF CheckoutInv, CheckoutTyped
  <2>2. balance' \in Nat
    BY <1>2, <1>3, <2>1
  <2> QED
    BY <1>1, <1>2, <1>3, <2>2 DEF FulfillPaidCheckout, CheckoutInv, CheckoutTyped
<1>10. CheckoutInv'
  BY <1>6, <1>9 DEF CheckoutInv, CheckoutTyped, WalletsFit, PaymentsHaveSessions
<1> QED
  BY <1>8, <1>10

(* A plan that is bought or changed for a user whose account is being       *)
(* deleted is noted.                                                        *)
LEMMA FulfilmentKeepsDeletions ==
    ASSUME AccountsInv, AccountsInv', DeletionInv, NEW pay \in payments,
           FulfillPaidCheckout(pay)
    PROVE  DeletionInv'
<1>1. UNCHANGED <<users, signedIn, devices, locations, my>> /\ Note(Shopper)
  BY DEF FulfillPaidCheckout
<1>2. Shopper \in Users
  BY CheckoutCodesAssumption
<1>3. \A v \in Users \ {Shopper} : subscription'[v] = subscription[v]
  BY <1>2 DEF FulfillPaidCheckout, AccountsInv, AccountsTypeOK
<1>4. DeletionsStay
  BY <1>1 DEF DeletionsStay
<1> QED
  BY <1>1, <1>2, <1>3, <1>4, NotedKeeps DEF users, signedIn

-------------------------------------------------------------------------------
(* The inductive invariant of the whole specification.                      *)
AccountsAndCheckout ==
    AccountsInv /\ DeletionInv /\ CodesInv /\ CheckoutInv /\ NobodyPaysTooMuch

(* The invariant holds at the start.                                        *)
LEMMA InitHolds == Init => AccountsAndCheckout
<1> SUFFICES ASSUME Init PROVE AccountsAndCheckout
  OBVIOUS
<1>1. PICK start \in Starts :
          /\ status = start.status /\ holder = start.holder /\ access = start.access
          /\ locations = start.locations /\ subscription = start.subscription
          /\ issued = start.issued
          /\ orders = IF subscription[Shopper].id = 0 THEN {} ELSE {NoCode}
  BY DEF Init
<1>2. /\ status \in [Users -> UserStatus \ {"deleted"}]
      /\ holder \in Users \cup {NoUser} /\ issued \subseteq Users
      /\ access \in [Users -> BOOLEAN] /\ locations \in [Users -> SUBSET Addresses]
      /\ subscription \in [Users -> Subscription]
  BY <1>1, StartsAssumption
<1>3. /\ clock = 0 /\ otpSessions = <<>> /\ written = {}
      /\ tokens \in [Users -> Nat] /\ devices \in [Users -> BOOLEAN]
      /\ my = [h \in Handlers |-> Resting] /\ cart = [h \in Handlers |-> EmptyCart]
      /\ sessions = <<>> /\ balance = 0 /\ payments = {} /\ fulfilled = {} /\ raced = {}
  BY DEF Init
<1>4. Resting.pc = "idle" /\ Resting.cmd = "idle"
  BY DEF Resting
<1>5. AccountsInv
  BY <1>2, <1>3, <1>4, RestingIsTyped, AccountsAssumption
     DEF AccountsInv, AccountsTypeOK, RequestsServeUsers, DeletionPcs
<1>6. DeletionInv
  BY <1>2, <1>3, <1>4 DEF DeletionInv, DeletionHolds, DeletedIsEmpty
<1>7. CodesInv
  <2>1. Creators = {}
    BY <1>3, <1>4 DEF Creators
  <2>2. \A from, to : Sent(otpSessions, from, to) = 0
    <3>1. \A from, to : { i \in DOMAIN otpSessions : otpSessions[i].at \in from .. to } = {}
      BY <1>3
    <3> QED
      BY <3>1, FS_EmptySet DEF Sent
  <2>3. Cardinality(Creators) = 0 /\ 0 < MaxRequests + Cardinality(Handlers)
    BY <2>1, FS_EmptySet, CreatorsFinite, AccountsAssumption
  <2>4. PlacesAreLimited /\ WindowsAreLimited
    BY <2>2, <2>3 DEF PlacesAreLimited, WindowsAreLimited
  <2> QED
    BY <1>3, <1>4, <2>4 DEF CodesInv, CodesAreOfThePast, LocksAreEarned
<1>8. CheckoutInv
  <2>1. EmptyCart \in Cart
    BY DEF EmptyCart, Cart
  <2> QED
    BY <1>1, <1>3, <2>1 DEF CheckoutInv, CheckoutTyped, WalletsFit, PaymentsHaveSessions
<1>9. NobodyPaysTooMuch
  BY <1>3 DEF NobodyPaysTooMuch
<1> QED
  BY <1>5, <1>6, <1>7, <1>8, <1>9 DEF AccountsAndCheckout

(* Every step keeps it.                                                     *)
LEMMA NextHolds == AccountsAndCheckout /\ [Next]_vars => AccountsAndCheckout'
<1> SUFFICES ASSUME AccountsAndCheckout, [Next]_vars PROVE AccountsAndCheckout'
  OBVIOUS
<1> USE DEF AccountsAndCheckout
<1>1. ASSUME SignInCommand \/ AccountCommand \/ AccountStep \/ Passes, UNCHANGED <<checkout, cart>>
      PROVE  AccountsAndCheckout'
  <2>1. AccountsInv' /\ DeletionInv' /\ CodesInv'
    BY <1>1, AccountsTyped, AccountsKeepDeletions, AccountsKeepCodes
  <2>2. CheckoutInv' /\ NobodyPaysTooMuch'
    BY <1>1 DEF checkout, CheckoutInv, CheckoutTyped, WalletsFit, PaymentsHaveSessions,
               NobodyPaysTooMuch
  <2> QED
    BY <2>1, <2>2
<1>2. ASSUME UNCHANGED accounts
      PROVE  AccountsInv' /\ DeletionInv' /\ CodesInv'
  <2>1. UNCHANGED <<clock, otpSessions, status, holder, issued, tokens, access, devices,
                    locations, subscription, my, written>>
    BY <1>2 DEF accounts, users, signedIn, owned
  <2>2. AccountsInv'
    BY <2>1 DEF AccountsInv, AccountsTypeOK, RequestsServeUsers
  <2>3. DeletionInv'
    BY <2>1, <2>2, UnnotedKeeps DEF DeletionsStay
  <2>4. CodesInv'
    BY <2>1, NoCodeKeeps
  <2> QED
    BY <2>2, <2>3, <2>4
<1>3. CASE CheckoutCommand
  <2>1. UNCHANGED accounts
    BY <1>3 DEF CheckoutCommand, CreateCheckoutSession, SessionExpires, CreateOrder,
               BeginRemovePromoCode, BeginApplyPromoCode, AdminCreditWallet
  <2>2. CheckoutInv' /\ NobodyPaysTooMuch'
    <3>1. ASSUME NEW p \in Plans, CreateCheckoutSession(p)
          PROVE  CheckoutInv' /\ NobodyPaysTooMuch'
      BY <3>1, CreatedSessionFits DEF CreateCheckoutSession, NobodyPaysTooMuch
    <3>2. ASSUME NEW i \in DOMAIN sessions, SessionExpires(i)
          PROVE  CheckoutInv' /\ NobodyPaysTooMuch'
      BY <3>2, ExpiryFits DEF SessionExpires, NobodyPaysTooMuch
    <3>3. ASSUME NEW i \in DOMAIN sessions, NEW outcome \in {"paid", "declined", "refused"},
                 CreateOrder(i, outcome)
          PROVE  CheckoutInv' /\ NobodyPaysTooMuch'
      BY <3>3, OrderFits
    <3>4. ASSUME NEW i \in DOMAIN sessions, NEW h \in Handlers,
                 BeginRemovePromoCode(h, i) \/ \E c \in Codes : BeginApplyPromoCode(h, i, c)
          PROVE  CheckoutInv' /\ NobodyPaysTooMuch'
      <4>1. payments' = payments
        BY <3>4 DEF BeginRemovePromoCode, BeginApplyPromoCode, checkout
      <4> QED
        BY <3>4, <4>1, BeginCodeFits DEF NobodyPaysTooMuch
    <3>5. ASSUME NEW n \in Credits, AdminCreditWallet(n)
          PROVE  CheckoutInv' /\ NobodyPaysTooMuch'
      <4>1. balance' \in Nat
        BY <3>5, CheckoutCodesAssumption DEF AdminCreditWallet, CheckoutInv, CheckoutTyped
      <4> QED
        BY <3>5, <4>1 DEF AdminCreditWallet, CheckoutInv, CheckoutTyped, WalletsFit,
                         PaymentsHaveSessions, NobodyPaysTooMuch
    <3> QED
      BY <1>3, <3>1, <3>2, <3>3, <3>4, <3>5 DEF CheckoutCommand
  <2> QED
    BY <1>2, <2>1, <2>2
<1>4. CASE Command
  BY <1>1, <1>3, <1>4 DEF Command
<1>5. ASSUME NEW h \in Handlers, WriteAttempt(h) \/ WritePrice(h)
      PROVE  AccountsAndCheckout'
  <2>1. UNCHANGED accounts /\ UNCHANGED payments
    BY <1>5 DEF WriteAttempt, WritePrice
  <2> QED
    BY <1>2, <1>5, <2>1, WrittenCodeFits DEF NobodyPaysTooMuch
<1>6. ASSUME NEW pay \in payments, FulfillPaidCheckout(pay)
      PROVE  AccountsAndCheckout'
  <2>1. AccountsInv' /\ CheckoutInv'
    BY <1>6, FulfilmentFits
  <2>2. DeletionInv'
    BY <1>6, <2>1, FulfilmentKeepsDeletions
  <2>3. UNCHANGED <<clock, otpSessions, my, payments>>
    BY <1>6 DEF FulfillPaidCheckout
  <2>4. CodesInv'
    BY <2>3, NoCodeKeeps
  <2> QED
    BY <2>1, <2>2, <2>3, <2>4 DEF NobodyPaysTooMuch
<1>7. CASE Continue
  BY <1>1, <1>5, <1>6, <1>7 DEF Continue
<1>8. CASE Restart
  <2>1. AccountsInv' /\ DeletionInv' /\ CodesInv'
    BY <1>8, AccountsTyped, AccountsKeepDeletions, AccountsKeepCodes DEF Restart
  <2>2. EmptyCart \in Cart
    BY DEF EmptyCart, Cart
  <2>3. CheckoutInv' /\ NobodyPaysTooMuch'
    BY <1>8, <2>2 DEF Restart, checkout, CheckoutInv, CheckoutTyped, WalletsFit,
                     PaymentsHaveSessions, NobodyPaysTooMuch
  <2> QED
    BY <2>1, <2>3
<1>9. CASE UNCHANGED vars
  <2>1. UNCHANGED accounts /\ UNCHANGED <<checkout, cart>>
    BY <1>9 DEF vars
  <2>2. CheckoutInv' /\ NobodyPaysTooMuch'
    BY <2>1 DEF checkout, CheckoutInv, CheckoutTyped, WalletsFit, PaymentsHaveSessions,
               NobodyPaysTooMuch
  <2> QED
    BY <1>2, <2>1, <2>2
<1> QED
  BY <1>4, <1>7, <1>8, <1>9 DEF Next

(* So it holds in every state.                                              *)
LEMMA InvHolds == Spec => []AccountsAndCheckout
BY InitHolds, NextHolds, PTL DEF Spec

(* The rows and the requests in progress are what their types say: above    *)
(* all no amount, balance or count of tokens falls below zero, whatever     *)
(* codes come and go while the wallet changes.                              *)
THEOREM Typing == Spec => []TypeOK
<1>1. AccountsAndCheckout => TypeOK
  BY DEF AccountsAndCheckout, AccountsInv, CheckoutInv, CheckoutTyped, TypeOK
<1> QED
  BY <1>1, InvHolds, PTL

(* An account that says it is deleted owns nothing in use, except what      *)
(* others wrote for it since its deletion began: for every number of        *)
(* requests for the deletion, cut short and repeated at any step            *)
(* (DeleteAccount).                                                         *)
THEOREM DeletedAccountsAreEmpty == Spec => []DeletedIsEmpty
<1>1. AccountsAndCheckout => DeletedIsEmpty
  BY DEF AccountsAndCheckout, DeletionInv
<1> QED
  BY <1>1, InvHolds, PTL

(* In any ten minutes a phone is sent no more codes than the limit and the  *)
(* requests that were being served, and it is locked only after as many as  *)
(* the limit allows, although SendOtp counts first and writes afterwards.   *)
THEOREM CodesStayLimited == Spec => []CodesAreLimited
<1>1. AccountsAndCheckout => CodesAreLimited
  BY DEF AccountsAndCheckout, CodesInv, WindowsAreLimited, LocksAreEarned, Full, Sent,
         CodesAreLimited, CodesWithin
<1> QED
  BY <1>1, InvHolds, PTL

(* Nobody pays more than the price, less the credit, the wallet and the     *)
(* code, each once: whatever a stale request on a code has written, the     *)
(* refresh before the payment lowers an amount that is too high, and the    *)
(* wallet must cover its part (CreateOrder).                                *)
THEOREM PaymentsAreNotTooMuch == Spec => []NobodyPaysTooMuch
<1>1. AccountsAndCheckout => NobodyPaysTooMuch
  BY DEF AccountsAndCheckout
<1> QED
  BY <1>1, InvHolds, PTL

-------------------------------------------------------------------------------
(* What is taken is no less than the price, less the credit, the wallet and *)
(* the code, unless a refresh has overtaken a request on a code.            *)
Fair(s) == Monus(Cap(s), s.wallet + s.discount)

(* What an open session asks for, and what a request on its code is going   *)
(* to write, are no less, as long as no wallet part has been taken back.    *)
CartAsksEnough(c) ==
    c.pc = "price" =>
        /\ c.session \in DOMAIN sessions
        /\ c.session \notin raced =>
               c.due >= Monus(Cap(sessions[c.session]), sessions[c.session].wallet + c.discount)
PricesInv ==
    /\ \A i \in DOMAIN sessions : i \notin raced => sessions[i].due >= Fair(sessions[i])
    /\ \A h \in Handlers : CartAsksEnough(cart[h])
    /\ \A pay \in payments : pay.session \notin raced => pay.row.due >= Fair(pay.row)

(* A larger wallet part leaves no more to pay.                              *)
LEMMA WalletLowersPrice ==
    ASSUME NEW c \in Nat, NEW v \in Nat, NEW w \in Nat, v <= w
    PROVE  Monus(c, w) \in Nat /\ Monus(c, w) <= Monus(c, v)
BY DEF Monus

(* What is fair depends on a session's amounts alone.                       *)
SameAmounts(s, t) ==
    /\ t.wallet = s.wallet /\ t.discount = s.discount /\ t.due = s.due
    /\ t.base = s.base /\ t.prior = s.prior /\ t.promotion = s.promotion

(* Sessions of equal amounts have the same cap and the same fair price.     *)
LEMMA SameIsFair ==
    ASSUME NEW s, NEW t, SameAmounts(s, t)
    PROVE  Cap(t) = Cap(s) /\ Fair(t) = Fair(s)
BY DEF SameAmounts, Cap, Fair

(* What is fair is an amount, of a session and of what a request holds.     *)
LEMMA FairIsAmount ==
    ASSUME NEW s \in Session, NEW d \in Nat
    PROVE  Fair(s) \in Nat /\ Cap(s) \in Nat /\ Monus(Cap(s), s.wallet + d) \in Nat
<1>1. Cap(s) \in Nat /\ s.wallet \in Nat /\ s.discount \in Nat
  BY CapIsPrice DEF Session
<1> QED
  BY <1>1 DEF Fair, Monus

(* Steps that change neither the amounts of a session nor what is to be     *)
(* written, and take no payment.                                            *)
LEMMA PricesStay ==
    ASSUME PricesInv, DOMAIN sessions' = DOMAIN sessions,
           \A i \in DOMAIN sessions : SameAmounts(sessions[i], sessions'[i]),
           \A h \in Handlers : cart'[h] = cart[h] \/ cart'[h].pc # "price",
           payments' = payments, raced' = raced
    PROVE  PricesInv'
<1>1. ASSUME NEW i \in DOMAIN sessions, i \notin raced PROVE sessions'[i].due >= Fair(sessions'[i])
  <2>1. sessions'[i].due = sessions[i].due /\ Fair(sessions'[i]) = Fair(sessions[i])
    BY SameIsFair DEF SameAmounts
  <2> QED
    BY <1>1, <2>1 DEF PricesInv
<1>2. ASSUME NEW h \in Handlers PROVE CartAsksEnough(cart[h])'
  <2>1. CASE cart'[h].pc # "price"
    BY <2>1 DEF CartAsksEnough
  <2>2. CASE cart'[h] = cart[h] /\ cart[h].pc = "price"
    <3>1. PICK i : i = cart[h].session
      OBVIOUS
    <3>2. CartAsksEnough(cart[h])
      BY DEF PricesInv
    <3>3. i \in DOMAIN sessions
      BY <2>2, <3>1, <3>2 DEF CartAsksEnough
    <3>4. sessions'[i].wallet = sessions[i].wallet /\ Cap(sessions'[i]) = Cap(sessions[i])
      BY <3>3, SameIsFair DEF SameAmounts
    <3> QED
      BY <2>2, <3>1, <3>2, <3>3, <3>4 DEF CartAsksEnough
  <2> QED
    BY <2>1, <2>2
<1> QED
  BY <1>1, <1>2 DEF PricesInv, Fair, Cap

(* A new session asks for what is fair, and no request is on it yet.        *)
LEMMA CreatedPrices ==
    ASSUME AccountsInv, CheckoutInv, CheckoutInv', PricesInv, NEW p \in Plans,
           CreateCheckoutSession(p)
    PROVE  PricesInv'
<1> DEFINE blank == [plan |-> p, base |-> Price(p), wallet |-> 0, discount |-> 0,
                     due |-> 0, code |-> NoCode, attempts |-> 0, locked |-> FALSE,
                     status |-> "active", onTime |-> TRUE,
                     promotion |-> IF IsLive THEN mine.id ELSE 0,
                     prior |-> IF IsLive THEN mine.paid ELSE 0]
           amounts == computeCheckoutWalletAndDue(blank)
           new == [blank EXCEPT !.wallet = amounts.wallet, !.due = amounts.due]
           older == [i \in DOMAIN sessions |->
                        IF sessions[i].status = "active"
                        THEN [sessions[i] EXCEPT !.status = "expired"] ELSE sessions[i]]
<1>1. sessions' = Append(older, new)
  BY Zenon DEF CreateCheckoutSession
<1>2. UNCHANGED <<payments, raced, cart>>
  BY DEF CreateCheckoutSession
<1>3. blank \in Session /\ blank.discount = 0
  <2>1. mine.id \in Nat /\ mine.paid \in Nat
    BY CheckoutCodesAssumption DEF mine, AccountsInv, AccountsTypeOK, Subscription
  <2>2. Price(p) \in Nat
    BY CheckoutCodesAssumption
  <2> QED
    BY <2>1, <2>2 DEF Session
<1>4. amounts.wallet \in Nat /\ amounts.due = Monus(Cap(blank), amounts.wallet + 0)
      /\ amounts.due \in Nat
  <2> HIDE DEF blank
  <2> QED
    BY <1>3, AmountsAreNumbers DEF CheckoutInv, CheckoutTyped
<1>5. new.due >= Fair(new)
  <2> HIDE DEF blank, amounts
  <2>1. /\ new.wallet = amounts.wallet /\ new.base = blank.base /\ new.due = amounts.due
        /\ new.prior = blank.prior /\ new.promotion = blank.promotion /\ new.discount = 0
    BY <1>3, <1>4 DEF Session
  <2>2. Cap(new) = Cap(blank)
    BY <2>1 DEF Cap
  <2>3. Fair(new) = new.due
    BY <1>4, <2>1, <2>2 DEF Fair
  <2> QED
    BY <1>4, <2>1, <2>3
<1>6. \A i \in DOMAIN sessions : SameAmounts(sessions[i], older[i])
  <2> SUFFICES ASSUME NEW i \in DOMAIN sessions
               PROVE  SameAmounts(sessions[i], older[i])
    OBVIOUS
  <2> QED
    BY SessionsTyped DEF Session, SameAmounts
<1>7. \A i \in DOMAIN sessions : older[i] \in Session
  BY SessionsTyped DEF Session
<1> HIDE DEF blank, amounts, new
<1>8. /\ older \in Seq(Session) /\ Len(older) = Len(sessions) /\ Len(sessions) \in Nat
      /\ DOMAIN sessions = 1 .. Len(sessions)
  BY <1>7 DEF CheckoutInv, CheckoutTyped
<1> HIDE DEF older
<1>9. /\ DOMAIN sessions' = 1 .. Len(sessions) + 1
      /\ \A i \in DOMAIN sessions : sessions'[i] = older[i]
      /\ sessions'[Len(sessions) + 1] = new
  BY <1>1, <1>8
<1>10. ASSUME NEW i \in DOMAIN sessions', i \notin raced
       PROVE  sessions'[i].due >= Fair(sessions'[i])
  <2>1. CASE i = Len(sessions) + 1
    BY <1>5, <1>9, <2>1
  <2>2. CASE i \in DOMAIN sessions
    <3>1. /\ sessions'[i].due = sessions[i].due /\ Fair(sessions'[i]) = Fair(sessions[i])
      BY <1>6, <1>9, <2>2, SameIsFair DEF SameAmounts
    <3> QED
      BY <1>10, <2>2, <3>1 DEF PricesInv
  <2> QED
    BY <1>8, <1>9, <2>1, <2>2
<1>11. ASSUME NEW h \in Handlers, cart[h].pc = "price" PROVE CartAsksEnough(cart[h])'
  <2>1. PICK i : i = cart[h].session
    OBVIOUS
  <2>2. CartAsksEnough(cart[h]) /\ i \in DOMAIN sessions
    BY <1>11, <2>1 DEF PricesInv, CartAsksEnough
  <2>3. /\ sessions'[i].wallet = sessions[i].wallet /\ Cap(sessions'[i]) = Cap(sessions[i])
        /\ i \in DOMAIN sessions'
    BY <1>6, <1>8, <1>9, <2>2, SameIsFair DEF SameAmounts
  <2> QED
    BY <1>2, <2>1, <2>2, <2>3 DEF CartAsksEnough
<1>12. \A h \in Handlers : CartAsksEnough(cart[h])'
  BY <1>2, <1>11 DEF CartAsksEnough
<1> QED
  BY <1>2, <1>10, <1>12 DEF PricesInv, Fair, Cap

(* A request that reads a session computes from the wallet part it finds.   *)
LEMMA BegunPrices ==
    ASSUME CheckoutInv, PricesInv, NEW h \in Handlers, NEW i \in DOMAIN sessions,
           BeginRemovePromoCode(h, i) \/ \E c \in Codes : BeginApplyPromoCode(h, i, c)
    PROVE  PricesInv'
<1>1. PICK s : s = sessions[i]
  OBVIOUS
<1>2. /\ s \in Session /\ s.wallet \in Nat /\ s.base \in Nat /\ s.wallet <= s.base
      /\ Cap(s) \in Nat /\ Cap(s) <= s.base /\ s.plan \in Plans
  BY <1>1, SessionsTyped, CapIsPrice DEF Session
<1>3. UNCHANGED checkout /\ cart \in [Handlers -> Cart]
  BY DEF BeginRemovePromoCode, BeginApplyPromoCode, CheckoutInv, CheckoutTyped
<1>4. PICK v : /\ cart' = [cart EXCEPT ![h] = v]
               /\ v.pc = "price" => /\ v.session = i /\ v.discount \in Nat
                                    /\ v.due >= Monus(Cap(s), s.wallet + v.discount)
  <2>1. CASE BeginRemovePromoCode(h, i)
    <3>1. PICK v : v = [EmptyCart EXCEPT !.pc = "price", !.session = i,
                                         !.due = s.base - s.wallet]
      OBVIOUS
    <3>2. v.session = i /\ v.discount = 0 /\ v.due = s.base - s.wallet
      BY <3>1 DEF EmptyCart
    <3>3. v.due >= Monus(Cap(s), s.wallet + v.discount)
      BY <1>2, <3>2 DEF Monus
    <3>4. cart' = [cart EXCEPT ![h] = v]
      BY <1>1, <2>1, <3>1 DEF BeginRemovePromoCode
    <3>5. v.discount \in Nat
      BY <3>2
    <3> QED
      BY <3>2, <3>3, <3>4, <3>5, Zenon
  <2>2. ASSUME NEW c \in Codes, BeginApplyPromoCode(h, i, c)
        PROVE  \E v : /\ cart' = [cart EXCEPT ![h] = v]
                      /\ v.pc = "price" =>
                             /\ v.session = i /\ v.discount \in Nat
                             /\ v.due >= Monus(Cap(s), s.wallet + v.discount)
    <3>1. PICK off : off = DiscountOn(c, s.plan)
      OBVIOUS
    <3>2. PICK verdict : verdict = Verdict(c, s.plan)
      OBVIOUS
    <3>3. PICK v : v = [pc |-> verdict, session |-> i, code |-> c, discount |-> off,
                        due |-> Monus(s.base, s.wallet + off), attempts |-> s.attempts + 1]
      OBVIOUS
    <3>4. cart' = [cart EXCEPT ![h] = v]
      BY <1>1, <2>2, <3>1, <3>2, <3>3 DEF BeginApplyPromoCode
    <3>5. off \in Nat
      <4>1. Price(s.plan) \in Nat /\ Discount(c) \in Nat
        BY <1>2, CheckoutCodesAssumption
      <4>2. referralFriendDiscountSar(Price(s.plan)) \in Nat
        BY <4>1 DEF referralFriendDiscountSar
      <4> QED
        BY <3>1, <4>1, <4>2 DEF DiscountOn
    <3>6. v.session = i /\ v.discount = off /\ v.due = Monus(s.base, s.wallet + off)
      BY <3>3
    <3>7. Monus(s.base, s.wallet + off) >= Monus(Cap(s), s.wallet + off)
      BY <1>2, <3>5 DEF Monus
    <3> QED
      BY <3>4, <3>5, <3>6, <3>7
  <2> QED
    BY <2>1, <2>2
<1>5. \A k \in Handlers : cart'[k] = IF k = h THEN v ELSE cart[k]
  BY <1>3, <1>4
<1>6. UNCHANGED <<sessions, payments, raced>>
  BY <1>3 DEF checkout
<1>7. ASSUME NEW k \in Handlers PROVE CartAsksEnough(cart[k])'
  <2>1. CASE k = h
    BY <1>1, <1>4, <1>5, <1>6, <2>1 DEF CartAsksEnough, Cap
  <2>2. CASE k # h
    BY <1>5, <1>6, <2>2 DEF PricesInv, CartAsksEnough, Cap
  <2> QED
    BY <2>1, <2>2
<1> QED
  BY <1>6, <1>7 DEF PricesInv, Fair, Cap

(* A price that is written is one a request has computed.                   *)
LEMMA WrittenPrices ==
    ASSUME CheckoutInv, PricesInv, NEW h \in Handlers, WriteAttempt(h) \/ WritePrice(h)
    PROVE  PricesInv'
<1>1. PICK v : v = cart[h]
  OBVIOUS
<1>2. PICK i : i = v.session
  OBVIOUS
<1>3. cart \in [Handlers -> Cart] /\ v \in Cart /\ CartAsksEnough(v) /\ EmptyCart.pc = "idle"
  BY <1>1 DEF CheckoutInv, CheckoutTyped, PricesInv, EmptyCart
<1>4. \A k \in Handlers : cart'[k] = cart[k] \/ cart'[k].pc # "price"
  BY <1>3 DEF WriteAttempt, WritePrice
<1>5. payments' = payments /\ raced' = raced
  BY DEF WriteAttempt, WritePrice
<1>6. CASE WriteAttempt(h)
  <2>1. PICK t : t = [sessions[i] EXCEPT !.attempts = v.attempts,
                                         !.locked = v.attempts >= MaxPromoAttempts]
    OBVIOUS
  <2>2. sessions' = [sessions EXCEPT ![i] = t]
    BY <1>1, <1>2, <1>6, <2>1 DEF WriteAttempt
  <2>3. DOMAIN sessions' = DOMAIN sessions
    BY <2>2
  <2>4. ASSUME NEW j \in DOMAIN sessions PROVE SameAmounts(sessions[j], sessions'[j])
    <3>1. CASE j = i
      <4>1. sessions[i] \in Session
        BY <3>1, SessionsTyped
      <4>2. SameAmounts(sessions[i], t)
        BY <2>1, <4>1 DEF Session, SameAmounts
      <4> QED
        BY <2>2, <3>1, <4>2
    <3>2. CASE j # i
      BY <2>2, <3>2 DEF SameAmounts
    <3> QED
      BY <3>1, <3>2
  <2> QED
    BY <1>4, <1>5, <2>3, <2>4, PricesStay
<1>7. CASE WritePrice(h)
  <2>1. i \in DOMAIN sessions /\ v.pc = "price"
    BY <1>1, <1>2, <1>3, <1>7 DEF WritePrice, CartAsksEnough
  <2>2. PICK s : s = sessions[i]
    OBVIOUS
  <2>3. s \in Session
    BY <2>1, <2>2, SessionsTyped
  <2>4. PICK t : t = [s EXCEPT !.code = v.code, !.discount = v.discount, !.due = v.due]
    OBVIOUS
  <2>5. sessions' = [sessions EXCEPT ![i] = t]
    BY <1>1, <1>2, <1>7, <2>2, <2>4 DEF WritePrice
  <2>6. /\ t.wallet = s.wallet /\ t.discount = v.discount /\ t.due = v.due
        /\ t.base = s.base /\ t.prior = s.prior /\ t.promotion = s.promotion
    BY <2>3, <2>4 DEF Session
  <2>7. Cap(t) = Cap(s)
    BY <2>6 DEF Cap
  <2>8. i \notin raced => t.due >= Fair(t)
    BY <1>2, <1>3, <2>1, <2>2, <2>6, <2>7 DEF CartAsksEnough, Fair
  <2>9. \A j \in DOMAIN sessions : sessions'[j] = IF j = i THEN t ELSE sessions[j]
    BY <2>5
  <2>10. DOMAIN sessions' = DOMAIN sessions
    BY <2>5
  <2>11. ASSUME NEW j \in DOMAIN sessions, j \notin raced
         PROVE  sessions'[j].due >= Fair(sessions'[j])
    BY <2>8, <2>9, <2>11 DEF PricesInv
  <2>12. ASSUME NEW k \in Handlers PROVE CartAsksEnough(cart[k])'
    <3>1. CASE cart'[k].pc # "price"
      BY <3>1 DEF CartAsksEnough
    <3>2. CASE cart'[k] = cart[k] /\ cart[k].pc = "price"
      <4>1. PICK j : j = cart[k].session
        OBVIOUS
      <4>2. CartAsksEnough(cart[k]) /\ j \in DOMAIN sessions
        BY <3>2, <4>1 DEF PricesInv, CartAsksEnough
      <4>3. sessions'[j].wallet = sessions[j].wallet /\ Cap(sessions'[j]) = Cap(sessions[j])
        BY <2>2, <2>6, <2>7, <2>9, <4>2
      <4> QED
        BY <1>5, <2>10, <3>2, <4>1, <4>2, <4>3 DEF CartAsksEnough
    <3> QED
      BY <1>4, <3>1, <3>2
  <2> QED
    BY <1>5, <2>10, <2>11, <2>12 DEF PricesInv, Fair, Cap
<1> QED
  BY <1>6, <1>7

(* A refresh computes the amounts anew or leaves them.                      *)
LEMMA RefreshedIsFair ==
    ASSUME balance \in Nat, NEW s \in Session
    PROVE  LET r == Refreshed(s) IN
           /\ r = s \/ r.due >= Fair(r)
           /\ r.wallet \in Nat /\ r.discount = s.discount /\ Cap(r) = Cap(s)
<1>1. PICK new : new = computeCheckoutWalletAndDue(s)
  OBVIOUS
<1>2. /\ new.wallet \in Nat /\ new.due \in Nat
      /\ new.due = Monus(Cap(s), new.wallet + s.discount)
  BY <1>1, AmountsAreNumbers
<1>3. PICK r : r = [s EXCEPT !.wallet = new.wallet, !.due = new.due]
  OBVIOUS
<1>4. Refreshed(s) = r \/ Refreshed(s) = s
  BY <1>1, <1>3 DEF Refreshed
<1>5. /\ r.wallet = new.wallet /\ r.due = new.due /\ r.discount = s.discount
      /\ r.base = s.base /\ r.prior = s.prior /\ r.promotion = s.promotion
  BY <1>2, <1>3 DEF Session
<1>6. Cap(r) = Cap(s)
  BY <1>5 DEF Cap
<1>7. r.due >= Fair(r)
  BY <1>2, <1>5, <1>6 DEF Fair
<1>8. s.wallet \in Nat
  BY DEF Session
<1> QED
  BY <1>2, <1>4, <1>5, <1>6, <1>7, <1>8

(* A refresh that lowers the wallet part under a request is noted; any      *)
(* other leaves what the request holds high enough.                         *)
LEMMA OrderedPrices ==
    ASSUME CheckoutInv, PricesInv, NEW i \in DOMAIN sessions,
           NEW outcome \in {"paid", "declined", "refused"}, CreateOrder(i, outcome)
    PROVE  PricesInv'
<1>1. PICK o : o = sessions[i]
  OBVIOUS
<1>2. PICK s : s = Refreshed(o)
  OBVIOUS
<1>3. PICK new : new = IF outcome = "refused" THEN s ELSE [s EXCEPT !.status = "confirmed"]
  OBVIOUS
<1>4. /\ sessions' = [sessions EXCEPT ![i] = new]
      /\ payments' = IF outcome # "paid" THEN payments
                     ELSE payments \cup {[session |-> i, row |-> sessions'[i]]}
      /\ raced' = IF Overtakes(i, s) THEN raced \cup {i} ELSE raced
      /\ cart' = cart
  BY <1>1, <1>2, <1>3 DEF CreateOrder
<1>5. /\ o \in Session /\ s \in Session /\ o.wallet \in Nat /\ s.wallet \in Nat
      /\ balance \in Nat
  BY <1>1, <1>2, SessionsTyped, RefreshedIsTyped DEF CheckoutInv, CheckoutTyped, Session
<1>6. /\ s = o \/ s.due >= Fair(s)
      /\ s.discount = o.discount /\ Cap(s) = Cap(o)
  BY <1>2, <1>5, RefreshedIsFair
<1>7. SameAmounts(s, new)
  BY <1>3, <1>5 DEF Session, SameAmounts
<1>8. new.due = s.due /\ new.wallet = s.wallet /\ Cap(new) = Cap(s) /\ Fair(new) = Fair(s)
  BY <1>7, SameIsFair DEF SameAmounts
<1>9. i \notin raced => new.due >= Fair(new)
  BY <1>1, <1>6, <1>8 DEF PricesInv
<1>10. /\ \A j \in DOMAIN sessions : sessions'[j] = IF j = i THEN new ELSE sessions[j]
       /\ DOMAIN sessions' = DOMAIN sessions
  BY <1>4
<1>11. raced \subseteq raced'
  BY <1>4
<1>12. ASSUME NEW j \in DOMAIN sessions, j \notin raced'
       PROVE  sessions'[j].due >= Fair(sessions'[j])
  BY <1>9, <1>10, <1>11, <1>12 DEF PricesInv
<1>13. ASSUME NEW h \in Handlers, cart[h].pc = "price" PROVE CartAsksEnough(cart[h])'
  <2>1. PICK v : v = cart[h]
    OBVIOUS
  <2>2. CartAsksEnough(v) /\ v \in Cart
    BY <2>1 DEF PricesInv, CheckoutInv, CheckoutTyped
  <2>3. v.session \in DOMAIN sessions /\ v.due \in Nat /\ v.discount \in Nat
    BY <1>13, <2>1, <2>2 DEF CartAsksEnough, Cart
  <2>4. CASE v.session # i
    BY <1>4, <1>10, <1>11, <2>1, <2>2, <2>3, <2>4 DEF CartAsksEnough, Cap
  <2>5. CASE v.session = i /\ i \in raced'
    BY <1>4, <1>10, <2>1, <2>3, <2>5 DEF CartAsksEnough
  <2>6. CASE v.session = i /\ i \notin raced'
    <3>1. ~Overtakes(i, s) /\ i \notin raced
      BY <1>4, <2>6
    <3>2. s.wallet >= o.wallet
      BY <1>1, <1>5, <1>13, <2>1, <2>6, <3>1 DEF Overtakes
    <3>3. v.due >= Monus(Cap(o), o.wallet + v.discount)
      BY <1>1, <1>13, <2>1, <2>2, <2>6, <3>1 DEF CartAsksEnough
    <3>4. Cap(o) \in Nat
      BY <1>5, CapIsPrice
    <3>5. PICK a \in Nat : a = o.wallet + v.discount
      BY <1>5, <2>3
    <3>6. PICK b \in Nat : b = s.wallet + v.discount
      BY <1>5, <2>3
    <3>7. a <= b
      BY <1>5, <2>3, <3>2, <3>5, <3>6
    <3>8. Monus(Cap(o), b) <= Monus(Cap(o), a) /\ Monus(Cap(o), b) \in Nat
          /\ Monus(Cap(o), a) \in Nat
      BY <3>4, <3>7, WalletLowersPrice
    <3>9. v.due >= Monus(Cap(new), new.wallet + v.discount)
      BY <1>6, <1>8, <2>3, <3>3, <3>5, <3>6, <3>8
    <3>10. v.session \in DOMAIN sessions' /\ sessions'[v.session] = new
      BY <1>10, <2>6
    <3> QED
      BY <1>4, <2>1, <3>9, <3>10 DEF CartAsksEnough
  <2> QED
    BY <2>4, <2>5, <2>6
<1>14. \A h \in Handlers : CartAsksEnough(cart[h])'
  BY <1>4, <1>13 DEF CartAsksEnough
<1>15. ASSUME NEW pay \in payments', pay.session \notin raced'
       PROVE  pay.row.due >= Fair(pay.row)
  <2>1. CASE pay \in payments
    BY <1>11, <1>15, <2>1 DEF PricesInv
  <2>2. CASE pay = [session |-> i, row |-> sessions'[i]]
    <3>1. pay.session = i /\ pay.row = new
      BY <1>10, <2>2
    <3> QED
      BY <1>9, <1>11, <1>15, <3>1
  <2> QED
    BY <1>4, <2>1, <2>2
<1> QED
  BY <1>10, <1>12, <1>14, <1>15 DEF PricesInv, Fair, Cap

(* Every step keeps it.                                                     *)
LEMMA PricesStep ==
    ASSUME AccountsAndCheckout, AccountsAndCheckout', PricesInv, [Next]_vars
    PROVE  PricesInv'
<1>1. AccountsInv /\ CheckoutInv /\ CheckoutInv'
  BY DEF AccountsAndCheckout
<1>2. ASSUME UNCHANGED <<sessions, payments, raced>>,
             \A h \in Handlers : cart'[h] = cart[h] \/ cart'[h].pc # "price"
      PROVE  PricesInv'
  BY <1>2, PricesStay DEF SameAmounts
<1>3. ASSUME NEW p \in Plans, CreateCheckoutSession(p) PROVE PricesInv'
  BY <1>1, <1>3, CreatedPrices
<1>4. ASSUME NEW i \in DOMAIN sessions, SessionExpires(i) PROVE PricesInv'
  <2>1. PICK t : t = [sessions[i] EXCEPT !.onTime = FALSE]
    OBVIOUS
  <2>2. sessions' = [sessions EXCEPT ![i] = t] /\ UNCHANGED <<payments, raced, cart>>
    BY <1>4, <2>1 DEF SessionExpires
  <2>3. SameAmounts(sessions[i], t)
    BY <1>1, <2>1, SessionsTyped DEF Session, SameAmounts
  <2>4. DOMAIN sessions' = DOMAIN sessions
        /\ \A j \in DOMAIN sessions : SameAmounts(sessions[j], sessions'[j])
    BY <2>2, <2>3 DEF SameAmounts
  <2> QED
    BY <2>2, <2>4, PricesStay
<1>5. ASSUME NEW i \in DOMAIN sessions, NEW outcome \in {"paid", "declined", "refused"},
             CreateOrder(i, outcome)
      PROVE  PricesInv'
  BY <1>1, <1>5, OrderedPrices
<1>6. ASSUME NEW i \in DOMAIN sessions, NEW h \in Handlers,
             BeginRemovePromoCode(h, i) \/ \E c \in Codes : BeginApplyPromoCode(h, i, c)
      PROVE  PricesInv'
  BY <1>1, <1>6, BegunPrices
<1>7. ASSUME NEW n \in Credits, AdminCreditWallet(n) PROVE PricesInv'
  BY <1>2, <1>7 DEF AdminCreditWallet
<1>8. CASE CheckoutCommand
  BY <1>3, <1>4, <1>5, <1>6, <1>7, <1>8 DEF CheckoutCommand
<1>9. CASE UNCHANGED <<checkout, cart>>
  BY <1>2, <1>9 DEF checkout
<1>10. CASE Command
  BY <1>8, <1>9, <1>10 DEF Command
<1>11. CASE Continue
  <2>1. ASSUME NEW h \in Handlers, WriteAttempt(h) \/ WritePrice(h) PROVE PricesInv'
    BY <1>1, <2>1, WrittenPrices
  <2>2. ASSUME NEW pay \in payments, FulfillPaidCheckout(pay) PROVE PricesInv'
    <3>1. UNCHANGED <<sessions, payments, raced, cart>>
      BY <2>2 DEF FulfillPaidCheckout
    <3> QED
      BY <1>2, <3>1
  <2> QED
    BY <1>9, <1>11, <2>1, <2>2 DEF Continue
<1>12. CASE Restart
  <2>1. EmptyCart.pc # "price"
    BY DEF EmptyCart
  <2> QED
    BY <1>2, <1>12, <2>1 DEF Restart, checkout
<1>13. CASE UNCHANGED vars
  BY <1>9, <1>13 DEF vars
<1> QED
  BY <1>10, <1>11, <1>12, <1>13 DEF Next

(* At the start there is nothing to pay for.                                *)
LEMMA PricesStart == Init => PricesInv
<1> SUFFICES ASSUME Init PROVE PricesInv
  OBVIOUS
<1>1. /\ sessions = <<>> /\ payments = {}
      /\ cart = [h \in Handlers |-> EmptyCart] /\ EmptyCart.pc = "idle"
  BY DEF Init, EmptyCart
<1> QED
  BY <1>1 DEF PricesInv, CartAsksEnough

(* A user who has had a plan has one of those for sale.                     *)
HasPlan(plan) == plan.status # "none" => plan.plan \in Plans
PlansAreKnown == \A u \in Users : HasPlan(subscription[u])

(* Only a fulfilment changes which plan it is, and it is one for sale.      *)
LEMMA PlansStayKnown ==
    ASSUME AccountsAndCheckout, PlansAreKnown, [Next]_vars
    PROVE  PlansAreKnown'
<1>1. AccountsInv /\ CheckoutInv
  BY DEF AccountsAndCheckout
<1>2. subscription \in [Users -> Subscription]
  BY <1>1 DEF AccountsInv, AccountsTypeOK
<1>3. CASE UNCHANGED subscription
  BY <1>3 DEF PlansAreKnown, HasPlan
<1>4. ASSUME NEW u \in Users, NEW to,
             subscription' = [subscription EXCEPT ![u].status = to],
             to # "none" => subscription[u].status # "none"
      PROVE  PlansAreKnown'
  <2>1. PICK plan : plan = [subscription[u] EXCEPT !.status = to]
    OBVIOUS
  <2>2. plan.status = to /\ plan.plan = subscription[u].plan
    BY <1>2, <2>1 DEF Subscription
  <2>3. \A v \in Users : subscription'[v] = IF v = u THEN plan ELSE subscription[v]
    BY <1>2, <1>4, <2>1
  <2> QED
    BY <1>4, <2>2, <2>3 DEF PlansAreKnown, HasPlan
<1>5. ASSUME NEW u \in Users, SettleAccount(u) PROVE PlansAreKnown'
  <2>1. ASSUME NEW to \in SubscriptionStatus, PlanMoves(u, to) PROVE PlansAreKnown'
    BY <1>4, <2>1 DEF PlanMoves
  <2>2. CASE AdminLogout(u) \/ Logout(u) \/ RefreshAccessToken(u) \/ AccessExpires(u)
             \/ GetReferral(u) \/ DeactivateCustomer(u)
             \/ \E l \in Addresses : SaveDeliveryLocation(u, l)
    <3>1. UNCHANGED subscription
      BY <2>2 DEF AdminLogout, Logout, RefreshAccessToken, AccessExpires, GetReferral,
                  DeactivateCustomer, SaveDeliveryLocation, owned
    <3> QED
      BY <1>3, <3>1
  <2> QED
    BY <1>5, <2>1, <2>2 DEF SettleAccount
<1>6. ASSUME NEW h \in Handlers, CancelPlan(h) PROVE PlansAreKnown'
  <2>1. PICK u : u = my[h].user
    OBVIOUS
  <2>2. u \in Users
    BY <1>1, <1>6, <2>1 DEF CancelPlan, AccountsInv, RequestsServeUsers, DeletionPcs
  <2>3. PICK to : to = IF subscription[u].status \in {"active", "paused"} THEN "cancelled"
                       ELSE subscription[u].status
    OBVIOUS
  <2>4. subscription' = [subscription EXCEPT ![u].status = to]
    BY <1>2, <1>6, <2>1, <2>2, <2>3 DEF CancelPlan
  <2> QED
    BY <1>4, <2>2, <2>3, <2>4
<1>7. CASE SignInCommand \/ AccountCommand \/ Passes \/ AccountStep
  <2>1. CASE SignInCommand
    BY <1>3, <2>1 DEF SignInCommand, BeginSignIn, BeginSendOtp, BeginVerifyOtp,
                      BeginAdminLogin, owned
  <2>2. CASE AccountCommand
    BY <1>3, <1>5, <2>2 DEF AccountCommand, BeginRegisterDevice, BeginDeleteAccount, owned
  <2>3. CASE Passes
    BY <1>3, <2>3 DEF Passes, owned
  <2>4. ASSUME NEW h \in Handlers, ContinueSignIn(h) PROVE PlansAreKnown'
    <3>1. UNCHANGED subscription
      BY <2>4 DEF ContinueSignIn, CountRecent, CreateSession, LockPhone, MarkVerified,
                  FindUser, SignUpFails, SignUp, CreateToken, UpsertDevice, owned
    <3> QED
      BY <1>3, <3>1
  <2>5. ASSUME NEW h \in Handlers, ContinueDeletion(h) PROVE PlansAreKnown'
    <3>1. CASE ListLocations(h) \/ DestroyLocation(h) \/ RevokeAllUserTokens(h)
               \/ DeactivateAllDevices(h) \/ AnonymizeAccount(h)
      BY <1>3, <3>1 DEF ListLocations, DestroyLocation, RevokeAllUserTokens,
                        DeactivateAllDevices, AnonymizeAccount, owned
    <3> QED
      BY <1>6, <2>5, <3>1 DEF ContinueDeletion
  <2> QED
    BY <1>7, <2>1, <2>2, <2>3, <2>4, <2>5 DEF AccountStep
<1>8. CASE CheckoutCommand
  <2>1. UNCHANGED subscription
    BY <1>8 DEF CheckoutCommand, CreateCheckoutSession, SessionExpires, CreateOrder,
                BeginRemovePromoCode, BeginApplyPromoCode, AdminCreditWallet, accounts, owned
  <2> QED
    BY <1>3, <2>1
<1>9. ASSUME NEW pay \in payments, FulfillPaidCheckout(pay) PROVE PlansAreKnown'
  <2>1. pay.row \in Session /\ sessions[pay.session] \in Session
    BY <1>1, SessionsTyped DEF CheckoutInv, CheckoutTyped, PaymentsHaveSessions
  <2>2. PICK row \in Session :
            subscription' =
                 IF row.promotion = 0
                 THEN [subscription EXCEPT ![Shopper] =
                          [id |-> @.id + 1, status |-> "active", plan |-> row.plan,
                           paid |-> row.due]]
                 ELSE IF row.promotion # mine.id THEN subscription
                 ELSE [subscription EXCEPT
                          ![Shopper].status = IF @ = "cancelled" THEN "active" ELSE @,
                          ![Shopper].plan = row.plan, ![Shopper].paid = row.due]
    BY <1>9, <2>1, Zenon DEF FulfillPaidCheckout
  <2>3. Shopper \in Users /\ subscription[Shopper] \in Subscription /\ row.plan \in Plans
    BY <1>2, CheckoutCodesAssumption DEF Session
  <2> DEFINE started == [id |-> subscription[Shopper].id + 1, status |-> "active",
                         plan |-> row.plan, paid |-> row.due]
             upgraded == [subscription[Shopper] EXCEPT
                             !.status = IF @ = "cancelled" THEN "active" ELSE @,
                             !.plan = row.plan, !.paid = row.due]
  <2>4. started.plan \in Plans /\ upgraded.plan \in Plans
    BY <2>3 DEF Subscription
  <2>5. \/ subscription' = [subscription EXCEPT ![Shopper] = started]
        \/ subscription' = subscription
        \/ subscription' = [subscription EXCEPT ![Shopper] = upgraded]
    BY <1>2, <2>2, <2>3
  <2> HIDE DEF started, upgraded
  <2> QED
    BY <1>2, <2>4, <2>5 DEF PlansAreKnown, HasPlan
<1>10. ASSUME NEW h \in Handlers, WriteAttempt(h) \/ WritePrice(h) PROVE PlansAreKnown'
  BY <1>3, <1>10 DEF WriteAttempt, WritePrice, accounts, owned
<1>11. CASE Restart
  BY <1>3, <1>11 DEF Restart, Crash, owned
<1>12. CASE UNCHANGED vars
  BY <1>3, <1>12 DEF vars, accounts, owned
<1>13. CASE Command
  BY <1>7, <1>8, <1>13 DEF Command
<1>14. CASE Continue
  BY <1>7, <1>9, <1>10, <1>14 DEF Continue
<1> QED
  BY <1>11, <1>12, <1>13, <1>14 DEF Next

(* A code the app was told is valid is applied, and a plan it was offered   *)
(* may be checked out.                                                      *)
LEMMA OfferedCodesAndPlans ==
    ASSUME PlansAreKnown
    PROVE  /\ \A c \in Codes, p \in Plans :
                  ValidateReferral(c, p).valid => Verdict(c, p) = "price"
           /\ \A p \in GetPlanChangeOptions \cap Plans : MayStartCheckout(p)
<1>1. ASSUME NEW c \in Codes, NEW p \in Plans, ValidateReferral(c, p).valid
      PROVE  Verdict(c, p) = "price"
  BY <1>1 DEF ValidateReferral, Verdict
<1>2. ASSUME NEW p \in GetPlanChangeOptions \cap Plans PROVE MayStartCheckout(p)
  <2>1. canUpgradeSubscriptionPlan /\ p \in PROMOTION_TARGETS[mine.plan]
    BY <1>2 DEF GetPlanChangeOptions
  <2>2. mine.plan \in {"try_it", "week", "month", "quarterly"}
    BY <2>1, CheckoutCodesAssumption
       DEF PlansAreKnown, HasPlan, mine, canUpgradeSubscriptionPlan
  <2>3. PICK from : from = mine.plan
    OBVIOUS
  <2>4. \/ from = "try_it" /\ p \in {"week", "month", "quarterly"}
        \/ from = "week" /\ p \in {"month", "quarterly"}
        \/ from = "month" /\ p = "quarterly"
    BY <2>1, <2>2, <2>3 DEF PROMOTION_TARGETS
  <2>5. canPromote(from, p)
    BY <2>4 DEF PLAN_TIER_RANK, canPromote
  <2> QED
    BY <2>1, <2>3, <2>5 DEF MayStartCheckout
<1> QED
  BY <1>1, <1>2

(* What is taken for a session is its price less the credit, the wallet and *)
(* the code, each once; only a session whose wallet part was taken back     *)
(* under a request on a code may have paid less, and none has paid more.    *)
THEOREM PaymentsAreFair == Spec => []PricesAreFair
<1> DEFINE Inv == AccountsAndCheckout /\ PricesInv /\ PlansAreKnown
<1>1. Inv => PricesAreFair
  <2> SUFFICES ASSUME AccountsAndCheckout, PricesInv, PlansAreKnown PROVE PricesAreFair
    OBVIOUS
  <2>1. ASSUME NEW pay \in payments
        PROVE  LET s == pay.row
                   fair == Monus(Cap(s), s.wallet + s.discount)
               IN  s.wallet <= Cap(s) /\ s.due <= fair
                   /\ (pay.session \notin raced => s.due = fair)
    <3>1. PICK s : s = pay.row
      OBVIOUS
    <3>2. s \in Session /\ IsNotTooMuch(s)
      BY <3>1 DEF AccountsAndCheckout, CheckoutInv, CheckoutTyped, NobodyPaysTooMuch
    <3>3. s.due \in Nat /\ Fair(s) \in Nat
      BY <3>2, FairIsAmount DEF Session
    <3>4. pay.session \notin raced => s.due >= Fair(s)
      BY <3>1 DEF PricesInv
    <3> QED
      BY <3>1, <3>2, <3>3, <3>4 DEF IsNotTooMuch, Fair
  <2>2. \A i \in DOMAIN sessions : sessions[i].plan \in Plans
    BY SessionsTyped DEF AccountsAndCheckout, Session
  <2>3. /\ \A i \in DOMAIN sessions, c \in Codes :
               ValidateReferral(c, sessions[i].plan).valid =>
                   Verdict(c, sessions[i].plan) = "price"
        /\ \A p \in GetPlanChangeOptions \cap Plans : MayStartCheckout(p)
    BY <2>2, OfferedCodesAndPlans DEF AccountsAndCheckout
  <2> QED
    BY <2>1, <2>3 DEF PricesAreFair
<1>2. Inv /\ [Next]_vars => Inv'
  BY NextHolds, PricesStep, PlansStayKnown
<1>3. Init => Inv
  <2>1. Init => PlansAreKnown
    BY StartsAssumption DEF Init, PlansAreKnown, HasPlan
  <2> QED
    BY <2>1, InitHolds, PricesStart
<1> QED
  BY <1>1, <1>2, <1>3, PTL DEF Spec
================================================================================

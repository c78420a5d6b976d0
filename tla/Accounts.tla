------------------------------- MODULE Accounts -------------------------------
(***************************************************************************)
(* Who may use the kitchen: the one-time codes sent to a phone, the rows of *)
(* users, the tokens and devices that hang from them, and the deletion of   *)
(* an account with everything it owns.  A command reads and writes one row  *)
(* at a time, with no transaction, and may be cut short between two of them.*)
(***************************************************************************)
EXTENDS Integers, Sequences, FiniteSetsExt

CONSTANTS
    Users,
    NoUser,
    Role(_),         \* CUSTOMER, DRIVER or ADMIN (an OPS account is as ADMIN)
    Addresses,       \* ids of delivery_locations
    Plans, NoPlan,
    Handlers,        \* requests in progress at once
    MaxRequests,     \* codes a phone may ask for in a window: 3
    OtpExpiry,       \* how long a code can be used: 120 seconds
    OtpWindow,       \* the window in which requests are counted: 10 minutes
    OtpLock,         \* how long a phone that asked too often is locked: 30 minutes
    MaxTime          \* bound on the clock

ASSUME AccountsAssumption ==
    /\ NoUser \notin Users /\ NoPlan \notin Plans
    /\ \A u \in Users : Role(u) \in {"CUSTOMER", "DRIVER", "ADMIN"}
    /\ IsFiniteSet(Handlers)
    /\ MaxRequests \in Nat \ {0} /\ MaxTime \in Nat
    /\ OtpExpiry \in Nat /\ OtpWindow \in Nat /\ OtpLock \in Nat

VARIABLES
    clock,
    otpSessions,     \* the rows of otp_sessions of one phone, in order of creation
    status,          \* the row of a user
    holder,          \* the user whose row holds that phone
    issued,          \* the users whose row has a referral code
    tokens,          \* how many refresh tokens of the user are not revoked
    access,          \* whether the user holds an access token that is still taken
    devices,         \* whether the user has an active row of user_devices
    locations,       \* the user's rows of delivery_locations
    subscription,    \* the user's latest subscription
    my,              \* the request a handler is serving
    written          \* users for whom others wrote rows since their deletion began

users == <<status, holder, issued>>
signedIn == <<tokens, access>>
owned == <<devices, locations, subscription>>
accounts == <<clock, otpSessions, users, signedIn, owned, my, written>>

UserStatus == {"absent", "active", "inactive", "deleted"}
SubscriptionStatus == {"none", "active", "paused", "cancelled", "over", "expired"}
OtpSession == [at: 0 .. MaxTime, isVerified: BOOLEAN,
               lockedUntil: 0 .. (MaxTime + OtpLock)]
Subscription == [id: Nat, status: SubscriptionStatus, plan: Plans \cup {NoPlan}, paid: Nat]
Request == [cmd: {"idle", "send", "verify", "login", "register", "delete"},
            pc: {"idle", "count", "create", "lock", "mark", "find", "signUp", "token",
                 "upsert", "cancel", "list", "destroy", "revoke", "devices", "anonymize"},
            user: Users \cup {NoUser}, session: Nat, until: 0 .. (MaxTime + OtpLock),
            rest: SUBSET Addresses]
Resting == [cmd |-> "idle", pc |-> "idle", user |-> NoUser, session |-> 0,
            until |-> 0, rest |-> {}]

-----------------------------------------------------------------------------
Begin(h, cmd, pc, u, i) ==
    /\ my[h].cmd = "idle"
    /\ my' = [my EXCEPT ![h] = [Resting EXCEPT !.cmd = cmd, !.pc = pc, !.user = u,
                                               !.session = i]]
Step(h, pc) == my' = [my EXCEPT ![h].pc = pc]
End(h) == my' = [my EXCEPT ![h] = Resting]

IsDeleting(u) == \E h \in Handlers : my[h].cmd = "delete" /\ my[h].user = u

(* A row of the user's is written by a command other than the deletion.     *)
Note(u) == written' = IF status[u] = "deleted" \/ IsDeleting(u)
                      THEN written \cup {u} ELSE written

-----------------------------------------------------------------------------
(* One-time codes.                                                          *)
getLockedSession == \E i \in DOMAIN otpSessions : otpSessions[i].lockedUntil > clock
getRecentAttemptCount ==
    Cardinality({ i \in DOMAIN otpSessions : otpSessions[i].at + OtpWindow >= clock })
IsActiveSession(i) == ~otpSessions[i].isVerified /\ otpSessions[i].at + OtpExpiry > clock
ActiveSessions == { i \in DOMAIN otpSessions : IsActiveSession(i) }

BeginSendOtp(h) ==
    /\ ~getLockedSession
    /\ Begin(h, "send", "count", NoUser, 0)
    /\ UNCHANGED <<clock, otpSessions, users, signedIn, owned, written>>

MayRequestOtp_oneMore(count) == count <= MaxRequests

MayRequestOtp(count) == count < MaxRequests
CountRecent(h) ==
    /\ my[h].pc = "count"
    /\ my' = [my EXCEPT ![h].pc = IF MayRequestOtp(getRecentAttemptCount)
                                  THEN "create" ELSE "lock",
                        ![h].until = clock + OtpLock]
    /\ UNCHANGED <<clock, otpSessions, users, signedIn, owned, written>>

CreateSession(h) ==
    /\ my[h].pc = "create"
    /\ otpSessions' = Append(otpSessions,
                             [at |-> clock, isVerified |-> FALSE, lockedUntil |-> 0])
    /\ End(h)
    /\ UNCHANGED <<clock, users, signedIn, owned, written>>

(* The lock is put on the phone's latest session.                           *)
LockPhone(h) ==
    /\ my[h].pc = "lock"
    /\ otpSessions' = [otpSessions EXCEPT ![Len(otpSessions)].lockedUntil = my[h].until]
    /\ End(h)
    /\ UNCHANGED <<clock, users, signedIn, owned, written>>

(* Only the latest code that is neither used nor too old is compared.       *)
BeginVerifyOtp(h) ==
    /\ ActiveSessions # {}
    /\ Begin(h, "verify", "mark", NoUser, Max(ActiveSessions))
    /\ UNCHANGED <<clock, otpSessions, users, signedIn, owned, written>>

MarkVerified(h) ==
    /\ my[h].pc = "mark"
    /\ otpSessions' = [otpSessions EXCEPT ![my[h].session].isVerified = TRUE]
    /\ Step(h, "find")
    /\ UNCHANGED <<clock, users, signedIn, owned, written>>

MaySignInByPhone(u) == Role(u) # "ADMIN" /\ status[u] = "active"

FindUser(h) ==
    /\ my[h].pc = "find"
    /\ IF holder = NoUser THEN Step(h, "signUp")
       ELSE IF MaySignInByPhone(holder)
            THEN my' = [my EXCEPT ![h].pc = "token", ![h].user = holder]
            ELSE End(h)
    /\ UNCHANGED <<clock, otpSessions, users, signedIn, owned, written>>

(* The phone is unique: of two requests that found no user one fails.       *)
SignUp(h, u) ==
    /\ my[h].pc = "signUp" /\ holder = NoUser
    /\ status[u] = "absent" /\ Role(u) = "CUSTOMER"
    /\ status' = [status EXCEPT ![u] = "active"] /\ holder' = u
    /\ my' = [my EXCEPT ![h].pc = "token", ![h].user = u]
    /\ UNCHANGED <<clock, otpSessions, issued, signedIn, owned, written>>

SignUpFails(h) ==
    /\ my[h].pc = "signUp" /\ holder # NoUser
    /\ End(h)
    /\ UNCHANGED <<clock, otpSessions, users, signedIn, owned, written>>

-----------------------------------------------------------------------------
(* Tokens and devices.  An access token is taken at its word: no row of     *)
(* users is read.  That of a phone lasts a hundred years.                   *)
CreateToken(h) ==
    /\ my[h].pc = "token"
    /\ LET u == my[h].user IN
       /\ tokens' = [tokens EXCEPT ![u] = @ + 1]
       /\ access' = [access EXCEPT ![u] = TRUE]
       /\ Note(u)
    /\ End(h)
    /\ UNCHANGED <<clock, otpSessions, users, owned>>

BeginAdminLogin(h, u) ==
    /\ Role(u) = "ADMIN" /\ status[u] = "active"
    /\ Begin(h, "login", "token", u, 0)
    /\ UNCHANGED <<clock, otpSessions, users, signedIn, owned, written>>

AdminLogout(u) ==
    /\ Role(u) = "ADMIN" /\ access[u]
    /\ tokens' = [tokens EXCEPT ![u] = 0]
    /\ UNCHANGED <<clock, otpSessions, users, access, owned, my, written>>

Logout(u) ==
    /\ tokens[u] > 0
    /\ tokens' = [tokens EXCEPT ![u] = @ - 1]
    /\ UNCHANGED <<clock, otpSessions, users, access, owned, my, written>>

RefreshAccessToken(u) ==
    /\ tokens[u] > 0 /\ status[u] = "active"
    /\ access' = [access EXCEPT ![u] = TRUE]
    /\ UNCHANGED <<clock, otpSessions, users, tokens, owned, my, written>>

AccessExpires(u) ==
    /\ Role(u) = "ADMIN" /\ access[u]
    /\ access' = [access EXCEPT ![u] = FALSE]
    /\ UNCHANGED <<clock, otpSessions, users, tokens, owned, my, written>>

BeginRegisterDevice(h, u) ==
    /\ access[u] /\ Role(u) # "ADMIN"
    /\ Begin(h, "register", "upsert", u, 0)
    /\ UNCHANGED <<clock, otpSessions, users, signedIn, owned, written>>

UpsertDevice(h) ==
    /\ my[h].pc = "upsert"
    /\ devices' = [devices EXCEPT ![my[h].user] = TRUE]
    /\ Note(my[h].user) /\ End(h)
    /\ UNCHANGED <<clock, otpSessions, users, signedIn, locations, subscription>>

(* A referral code is issued when its owner first looks at it.              *)
GetReferral(u) ==
    /\ access[u] /\ Role(u) = "CUSTOMER"
    /\ issued' = issued \cup {u}
    /\ Note(u)
    /\ UNCHANGED <<clock, otpSessions, status, holder, signedIn, owned, my>>

(* The customer's other commands, of which Addresses and Subscriptions tell *)
(* more: one more address; a plan that is paused, resumed, cancelled, runs  *)
(* past its end date, and is marked expired by the job of the next night.   *)
SaveDeliveryLocation(u, l) ==
    /\ access[u] /\ Role(u) = "CUSTOMER" /\ l \notin locations[u]
    /\ locations' = [locations EXCEPT ![u] = @ \cup {l}]
    /\ Note(u)
    /\ UNCHANGED <<clock, otpSessions, users, signedIn, devices, subscription, my>>

PlanMoves(u, to) ==
    /\ \/ subscription[u].status \in {"active", "cancelled"} /\ to = "paused"
       \/ subscription[u].status = "paused" /\ to = "active"
       \/ subscription[u].status = "active" /\ to = "cancelled"
       \/ subscription[u].status \in {"active", "paused", "cancelled"} /\ to = "over"
       \/ subscription[u].status = "over" /\ to = "expired"
    /\ subscription' = [subscription EXCEPT ![u].status = to]
    /\ Note(u)
    /\ UNCHANGED <<clock, otpSessions, users, signedIn, devices, locations, my>>

DeactivateCustomer(u) ==
    /\ Role(u) = "CUSTOMER" /\ status[u] \in {"active", "inactive"}
    /\ status' = [status EXCEPT ![u] = "inactive"]
    /\ UNCHANGED <<clock, otpSessions, holder, issued, signedIn, owned, my, written>>

-----------------------------------------------------------------------------
(* The deletion of an account.  A request that was cut short is repeated.   *)
BeginDeleteAccount(h, u) ==
    /\ access[u] /\ Role(u) # "ADMIN"
    /\ status[u] \in {"active", "inactive"}
    /\ written' = IF IsDeleting(u) THEN written ELSE written \ {u}
    /\ Begin(h, "delete", "cancel", u, 0)
    /\ UNCHANGED <<clock, otpSessions, users, signedIn, owned>>

CancelPlan_activeOnly(h) ==
    /\ my[h].pc = "cancel"
    /\ subscription' = [subscription EXCEPT ![my[h].user].status =
                            IF @ = "active" THEN "cancelled" ELSE @]
    /\ Step(h, "list")
    /\ UNCHANGED <<clock, otpSessions, users, signedIn, devices, locations, written>>

CancelPlan(h) ==
    /\ my[h].pc = "cancel"
    /\ subscription' = [subscription EXCEPT ![my[h].user].status =
                            IF @ \in {"active", "paused"} THEN "cancelled" ELSE @]
    /\ Step(h, "list")
    /\ UNCHANGED <<clock, otpSessions, users, signedIn, devices, locations, written>>

ListLocations(h) ==
    /\ my[h].pc = "list"
    /\ my' = [my EXCEPT ![h].pc = IF locations[my[h].user] = {} THEN "revoke" ELSE "destroy",
                        ![h].rest = locations[my[h].user]]
    /\ UNCHANGED <<clock, otpSessions, users, signedIn, owned, written>>

DestroyLocation(h) ==
    /\ my[h].pc = "destroy"
    /\ \E l \in my[h].rest :
          /\ locations' = [locations EXCEPT ![my[h].user] = @ \ {l}]
          /\ my' = [my EXCEPT ![h].rest = @ \ {l},
                              ![h].pc = IF my[h].rest = {l} THEN "revoke" ELSE @]
    /\ UNCHANGED <<clock, otpSessions, users, signedIn, devices, subscription, written>>

RevokeAllUserTokens(h) ==
    /\ my[h].pc = "revoke"
    /\ tokens' = [tokens EXCEPT ![my[h].user] = 0]
    /\ Step(h, "devices")
    /\ UNCHANGED <<clock, otpSessions, users, access, owned, written>>

DeactivateAllDevices(h) ==
    /\ my[h].pc = "devices"
    /\ devices' = [devices EXCEPT ![my[h].user] = FALSE]
    /\ Step(h, "anonymize")
    /\ UNCHANGED <<clock, otpSessions, users, signedIn, locations, subscription, written>>

(* The row is kept, but gives up its phone and its referral code.           *)
AnonymizeAccount(h) ==
    /\ my[h].pc = "anonymize"
    /\ status' = [status EXCEPT ![my[h].user] = "deleted"]
    /\ holder' = IF holder = my[h].user THEN NoUser ELSE holder
    /\ issued' = issued \ {my[h].user}
    /\ End(h)
    /\ UNCHANGED <<clock, otpSessions, signedIn, owned, written>>

-----------------------------------------------------------------------------
Passes ==
    /\ clock < MaxTime
    /\ clock' = clock + 1
    /\ UNCHANGED <<otpSessions, users, signedIn, owned, my, written>>

(* Every request in progress is cut short.                                  *)
Crash ==
    /\ \E h \in Handlers : my[h].cmd # "idle"
    /\ my' = [h \in Handlers |-> Resting]
    /\ UNCHANGED <<clock, otpSessions, users, signedIn, owned, written>>

BeginSignIn(h) ==
    \/ BeginSendOtp(h)
    \/ BeginVerifyOtp(h)
    \/ \E u \in Users : BeginAdminLogin(h, u)

SettleAccount(u) ==
    \/ AdminLogout(u) \/ Logout(u) \/ RefreshAccessToken(u) \/ AccessExpires(u)
    \/ \E l \in Addresses : SaveDeliveryLocation(u, l)
    \/ \E to \in SubscriptionStatus : PlanMoves(u, to)
    \/ GetReferral(u) \/ DeactivateCustomer(u)

SignInCommand == \E h \in Handlers : BeginSignIn(h)

AccountCommand ==
    \/ \E h \in Handlers, u \in Users : BeginRegisterDevice(h, u) \/ BeginDeleteAccount(h, u)
    \/ \E u \in Users : SettleAccount(u)

ContinueSignIn(h) ==
    \/ CountRecent(h) \/ CreateSession(h) \/ LockPhone(h)
    \/ MarkVerified(h) \/ FindUser(h) \/ SignUpFails(h)
    \/ \E u \in Users : SignUp(h, u)
    \/ CreateToken(h) \/ UpsertDevice(h)

ContinueDeletion(h) ==
    \/ CancelPlan(h) \/ ListLocations(h) \/ DestroyLocation(h)
    \/ RevokeAllUserTokens(h) \/ DeactivateAllDevices(h) \/ AnonymizeAccount(h)

AccountStep == \E h \in Handlers : ContinueSignIn(h) \/ ContinueDeletion(h)

-----------------------------------------------------------------------------
AccountsTypeOK ==
    /\ clock \in 0 .. MaxTime
    /\ otpSessions \in Seq(OtpSession)
    /\ status \in [Users -> UserStatus] /\ holder \in Users \cup {NoUser}
    /\ issued \subseteq Users
    /\ tokens \in [Users -> Nat] /\ access \in [Users -> BOOLEAN]
    /\ devices \in [Users -> BOOLEAN]
    /\ locations \in [Users -> SUBSET Addresses]
    /\ subscription \in [Users -> Subscription]
    /\ my \in [Handlers -> Request] /\ written \subseteq Users

CodesWithin(from, to) ==
    Cardinality({ i \in DOMAIN otpSessions : otpSessions[i].at \in from .. to })

(* However many requests arrive at once, a phone is sent no more codes in   *)
(* ten minutes than the limit and the requests that were being served, and  *)
(* it is locked only after as many requests as the limit allows (SendOtp    *)
(* counts first and writes afterwards).                                     *)
CodesAreLimited ==
    /\ \A t \in 0 .. clock :
          CodesWithin(t - OtpWindow, t) < MaxRequests + Cardinality(Handlers)
    /\ \A i \in DOMAIN otpSessions :
          LET until == otpSessions[i].lockedUntil IN
          until # 0 => CodesWithin(until - OtpLock - OtpWindow, until - OtpLock) >= MaxRequests

(* An account that says it is deleted owns nothing that is still in use:    *)
(* no plan that delivers, address, token or device - whatever crash came in *)
(* between and however often the request was repeated - except what other   *)
(* commands wrote for it since the deletion began (DeleteAccount).          *)
DeletedIsEmpty ==
    \A u \in Users : status[u] = "deleted" /\ u \notin written =>
        /\ subscription[u].status \notin {"active", "paused"}
        /\ locations[u] = {} /\ tokens[u] = 0 /\ ~devices[u]
        /\ holder # u
==============================================================================

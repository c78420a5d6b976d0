----------------------------- MODULE CheckoutCodes -----------------------------
(***************************************************************************)
(* What a checkout session asks for: the plan's price, less the credit for  *)
(* the plan it replaces, the wallet and a promo or referral code.  Codes    *)
(* are applied and removed, the wallet grows and the plan changes while the *)
(* session is open; a payment settles what the session says at that moment. *)
(* The wire to the payment gateway is in PaidCheckout; here a payment is    *)
(* taken in one step and fulfilled, if at all, in a later one.              *)
(***************************************************************************)
EXTENDS Accounts

CONSTANTS
    Price(_),        \* of a plan
    Shopper,         \* the customer who checks out
    Codes, NoCode,
    CodeType(_),     \* promo or referral
    Discount(_),     \* of a promo code
    ValidFor(_),     \* the only plan a code is for, or NoPlan
    Owner(_),        \* of a referral code
    Retired,         \* promo codes that are inactive or used up
    MaxPromoAttempts,\* wrong codes a session takes: 5
    Credits,         \* what an administrator may add to the wallet
    MaxSessions,     \* bound on the checkout sessions
    Starts,          \* the rows to start with
    Allotments       \* bounds on the commands of each kind and on the clock

ASSUME CheckoutCodesAssumption ==
    /\ Shopper \in Users /\ Role(Shopper) = "CUSTOMER" /\ NoCode \notin Codes
    /\ Plans \subseteq {"try_it", "week", "month", "quarterly"}
    /\ \A p \in Plans : Price(p) \in Nat
    /\ \A c \in Codes : /\ Discount(c) \in Nat /\ ValidFor(c) \in Plans \cup {NoPlan}
                        /\ CodeType(c) = "referral" => Owner(c) \in Users
    /\ MaxPromoAttempts \in Nat \ {0} /\ Credits \subseteq Nat

(* The rows there at the start: no account has been deleted yet.            *)
ASSUME StartsAssumption ==
    \A start \in Starts :
        /\ start.status \in [Users -> UserStatus \ {"deleted"}]
        /\ start.holder \in Users \cup {NoUser} /\ start.issued \subseteq Users
        /\ start.access \in [Users -> BOOLEAN]
        /\ start.locations \in [Users -> SUBSET Addresses]
        /\ start.subscription \in [Users -> Subscription]
        /\ \A u \in Users : start.subscription[u].status # "none" =>
                               start.subscription[u].plan \in Plans

VARIABLES
    sessions,        \* the shopper's rows of checkout_sessions
    balance,         \* the shopper's wallet
    payments,        \* what was taken for a session
    orders,          \* the codes on the shopper's confirmed orders
    fulfilled,       \* the sessions whose payment has become an order
    raced,           \* sessions whose wallet part fell under a request on a code
    cart,            \* what a request on a code has read and will write
    left             \* commands the bound still allows

checkout == <<sessions, balance, payments, orders, fulfilled, raced>>
vars == <<accounts, checkout, cart, left>>

Session == [plan: Plans, base: Nat, wallet: Nat, discount: Nat, due: Nat,
            code: Codes \cup {NoCode}, attempts: Nat, locked: BOOLEAN,
            status: {"active", "confirmed", "expired"}, onTime: BOOLEAN,
            promotion: Nat, prior: Nat]
Cart == [pc: {"idle", "fail", "price"}, session: Nat, code: Codes \cup {NoCode},
         discount: Nat, due: Nat, attempts: Nat]
EmptyCart == [pc |-> "idle", session |-> 0, code |-> NoCode, discount |-> 0,
              due |-> 0, attempts |-> 0]

Monus_belowZero(a, b) == a - b
Monus(a, b) == IF a > b THEN a - b ELSE 0
AtMost(a, b) == IF a < b THEN a ELSE b

-----------------------------------------------------------------------------
(* Which plans may follow which.                                            *)
PLAN_TIER_RANK == [try_it |-> 1, week |-> 2, month |-> 3, quarterly |-> 4]
PROMOTION_TARGETS == [try_it |-> {"week", "month", "quarterly"},
                      week |-> {"month", "quarterly"}, month |-> {"quarterly"},
                      quarterly |-> {}]
canPromote(from, to) == PLAN_TIER_RANK[to] > PLAN_TIER_RANK[from]

mine == subscription[Shopper]
IsLive == mine.status \in {"active", "paused", "cancelled", "over"}
canUpgradeSubscriptionPlan == mine.status \in {"active", "cancelled"}
GetPlanChangeOptions == IF canUpgradeSubscriptionPlan THEN PROMOTION_TARGETS[mine.plan] ELSE {}
MayStartCheckout(p) ==
    IsLive => canUpgradeSubscriptionPlan /\ canPromote(mine.plan, p)

-----------------------------------------------------------------------------
(* Prices.                                                                  *)
Cap(s) == IF s.promotion = 0 THEN s.base ELSE Monus(s.base, s.prior)
computeCheckoutWalletAndDue(s) ==
    LET wallet == AtMost(balance, Cap(s)) IN
    [wallet |-> wallet, due |-> Monus(Cap(s), wallet + s.discount)]

shouldRefreshCheckoutWallet_walletOnly(s, new) == new.wallet > s.wallet

shouldRefreshCheckoutWallet(s, new) == new.wallet > s.wallet \/ new.due < s.due
Refreshed(s) ==
    LET new == computeCheckoutWalletAndDue(s) IN
    IF shouldRefreshCheckoutWallet(s, new)
    THEN [s EXCEPT !.wallet = new.wallet, !.due = new.due] ELSE s

referralFriendDiscountSar(price) == (price * 15 + 50) \div 100
DiscountOn(c, p) == IF CodeType(c) = "referral"
                    THEN referralFriendDiscountSar(Price(p)) ELSE Discount(c)

CreateCheckoutSession(p) ==
    /\ access[Shopper] /\ MayStartCheckout(p)
    /\ Len(sessions) < MaxSessions
    /\ LET blank == [plan |-> p, base |-> Price(p), wallet |-> 0, discount |-> 0,
                     due |-> 0, code |-> NoCode, attempts |-> 0, locked |-> FALSE,
                     status |-> "active", onTime |-> TRUE,
                     promotion |-> IF IsLive THEN mine.id ELSE 0,
                     prior |-> IF IsLive THEN mine.paid ELSE 0]
           amounts == computeCheckoutWalletAndDue(blank)
           expireAllUserSessions ==
               [i \in DOMAIN sessions |->
                    IF sessions[i].status = "active"
                    THEN [sessions[i] EXCEPT !.status = "expired"] ELSE sessions[i]]
       IN  sessions' = Append(expireAllUserSessions,
                              [blank EXCEPT !.wallet = amounts.wallet, !.due = amounts.due])
    /\ UNCHANGED <<accounts, balance, payments, orders, fulfilled, raced, cart>>

SessionExpires(i) ==
    /\ i \in DOMAIN sessions /\ sessions[i].onTime
    /\ sessions' = [sessions EXCEPT ![i].onTime = FALSE]
    /\ UNCHANGED <<accounts, balance, payments, orders, fulfilled, raced, cart>>

-----------------------------------------------------------------------------
(* Codes.  The lookup falls back to the code on its owner's row.            *)
getPromoByCode(c) == IF CodeType(c) = "referral" THEN Owner(c) \in issued
                     ELSE c \notin Retired
IsOwn(c) == CodeType(c) = "referral" /\ Owner(c) = Shopper
PlanMatches(c, p) == ValidFor(c) \in {NoPlan, p}
NotNewUser(c) == CodeType(c) = "referral" /\ orders # {}

(* What the app is told of a code before it is applied.                     *)
ValidateReferral(c, p) ==
    [valid |-> /\ getPromoByCode(c) /\ ~IsOwn(c) /\ c \notin orders
               /\ PlanMatches(c, p) /\ ~NotNewUser(c),
     discount |-> DiscountOn(c, p)]

(* What becomes of a code that is applied: it may cost the session one of   *)
(* its attempts.                                                            *)
Verdict(c, p) ==
    IF ~getPromoByCode(c) THEN "fail"
    ELSE IF IsOwn(c) THEN "refuse"
    ELSE IF ~PlanMatches(c, p) THEN "fail"
    ELSE IF NotNewUser(c) THEN "refuse" ELSE "price"

(* A confirmed session is not told from an active one.                      *)
IsUsable(i) == i \in DOMAIN sessions /\ sessions[i].status # "expired" /\ sessions[i].onTime

BeginApplyPromoCode(h, i, c) ==
    /\ IsUsable(i) /\ ~sessions[i].locked /\ cart[h].pc = "idle"
    /\ LET s == sessions[i]
           off == DiscountOn(c, s.plan)
       IN  /\ Verdict(c, s.plan) # "refuse"
           /\ cart' = [cart EXCEPT ![h] =
                  [pc |-> Verdict(c, s.plan), session |-> i, code |-> c, discount |-> off,
                   due |-> Monus(s.base, s.wallet + off), attempts |-> s.attempts + 1]]
    /\ UNCHANGED <<accounts, checkout>>

BeginRemovePromoCode(h, i) ==
    /\ IsUsable(i) /\ cart[h].pc = "idle"
    /\ cart' = [cart EXCEPT ![h] = [EmptyCart EXCEPT !.pc = "price", !.session = i,
                                        !.due = sessions[i].base - sessions[i].wallet]]
    /\ UNCHANGED <<accounts, checkout>>

WriteAttempt(h) ==
    /\ cart[h].pc = "fail"
    /\ sessions' = [sessions EXCEPT
           ![cart[h].session].attempts = cart[h].attempts,
           ![cart[h].session].locked = cart[h].attempts >= MaxPromoAttempts]
    /\ cart' = [cart EXCEPT ![h] = EmptyCart]
    /\ UNCHANGED <<accounts, balance, payments, orders, fulfilled, raced>>

WritePrice(h) ==
    /\ cart[h].pc = "price"
    /\ sessions' = [sessions EXCEPT
           ![cart[h].session].code = cart[h].code,
           ![cart[h].session].discount = cart[h].discount,
           ![cart[h].session].due = cart[h].due]
    /\ cart' = [cart EXCEPT ![h] = EmptyCart]
    /\ UNCHANGED <<accounts, balance, payments, orders, fulfilled, raced>>

-----------------------------------------------------------------------------
(* Paying.  A payment is declined, or a way to pay is missing, only if money *)
(* is due at all; the wallet must cover its part, and the plan that is      *)
(* replaced must still be the same.  A refusal leaves the session refreshed. *)
MayOrder(s) ==
    /\ IF s.promotion = 0 THEN ~IsLive
       ELSE IsLive /\ mine.id = s.promotion /\ canUpgradeSubscriptionPlan
    /\ balance >= s.wallet

(* A request that has read the session counts on the wallet part it read.   *)
Overtakes(i, s) ==
    /\ s.wallet < sessions[i].wallet
    /\ \E h \in Handlers : cart[h].pc = "price" /\ cart[h].session = i

CreateOrder(i, outcome) ==
    /\ IsUsable(i) /\ sessions[i].status = "active"
    /\ LET s == Refreshed(sessions[i]) IN
       /\ outcome = "declined" => s.due > 0
       /\ outcome = "refused" => s.due > 0 \/ ~MayOrder(s)
       /\ outcome \in {"paid", "declined"} => MayOrder(s)
       /\ sessions' = [sessions EXCEPT ![i] =
              IF outcome = "refused" THEN s ELSE [s EXCEPT !.status = "confirmed"]]
       /\ payments' = IF outcome # "paid" THEN payments
                      ELSE payments \cup {[session |-> i, row |-> sessions'[i]]}
       /\ raced' = IF Overtakes(i, s) THEN raced \cup {i} ELSE raced
    /\ UNCHANGED <<accounts, balance, orders, fulfilled, cart>>

(* The request fulfils with the row it read; the webhook and the            *)
(* reconciliation job read the row again.                                   *)
FulfillPaidCheckout(pay) ==
    /\ pay \in payments /\ pay.session \notin fulfilled
    /\ \E row \in {pay.row, sessions[pay.session]} :
          /\ balance >= row.wallet
          /\ balance' = balance - row.wallet
          /\ orders' = orders \cup {row.code}
          /\ subscription' =
                 IF row.promotion = 0
                 THEN [subscription EXCEPT ![Shopper] =
                          [id |-> @.id + 1, status |-> "active", plan |-> row.plan,
                           paid |-> row.due]]
                 ELSE IF row.promotion # mine.id THEN subscription
                 ELSE [subscription EXCEPT
                          ![Shopper].status = IF @ = "cancelled" THEN "active" ELSE @,
                          ![Shopper].plan = row.plan, ![Shopper].paid = row.due]
    /\ fulfilled' = fulfilled \cup {pay.session}
    /\ Note(Shopper)
    /\ UNCHANGED <<clock, otpSessions, users, signedIn, devices, locations, my,
                   sessions, payments, raced, cart>>

AdminCreditWallet(n) ==
    /\ status[Shopper] # "absent"
    /\ balance' = balance + n
    /\ UNCHANGED <<accounts, sessions, payments, orders, fulfilled, raced, cart>>

-----------------------------------------------------------------------------
CheckoutCommand ==
    \/ \E p \in Plans : CreateCheckoutSession(p)
    \/ \E i \in DOMAIN sessions :
          \/ SessionExpires(i)
          \/ \E outcome \in {"paid", "declined", "refused"} : CreateOrder(i, outcome)
          \/ \E h \in Handlers : \/ BeginRemovePromoCode(h, i)
                                 \/ \E c \in Codes : BeginApplyPromoCode(h, i, c)
    \/ \E n \in Credits : AdminCreditWallet(n)

Allowed(kind) == left[kind] > 0 /\ left' = [left EXCEPT ![kind] = @ - 1]

Command ==
    \/ /\ \/ Allowed("signIns") /\ SignInCommand
          \/ Allowed("accounts") /\ AccountCommand
          \/ Allowed("ticks") /\ Passes
       /\ UNCHANGED <<checkout, cart>>
    \/ Allowed("checkouts") /\ CheckoutCommand

Continue ==
    /\ \/ AccountStep /\ UNCHANGED <<checkout, cart>>
       \/ \E h \in Handlers : WriteAttempt(h) \/ WritePrice(h)
       \/ \E pay \in payments : FulfillPaidCheckout(pay)
    /\ UNCHANGED left

Restart ==
    /\ Crash
    /\ cart' = [h \in Handlers |-> EmptyCart]
    /\ UNCHANGED <<checkout, left>>

Init ==
    /\ \E start \in Starts :
          /\ status = start.status /\ holder = start.holder /\ access = start.access
          /\ locations = start.locations /\ subscription = start.subscription
          /\ issued = start.issued
          /\ orders = IF subscription[Shopper].id = 0 THEN {} ELSE {NoCode}
    /\ clock = 0 /\ otpSessions = <<>> /\ written = {}
    /\ tokens = [u \in Users |-> IF access[u] THEN 1 ELSE 0]
    /\ devices = [u \in Users |-> FALSE]
    /\ my = [h \in Handlers |-> Resting] /\ cart = [h \in Handlers |-> EmptyCart]
    /\ sessions = <<>> /\ balance = 0 /\ payments = {} /\ fulfilled = {} /\ raced = {}
    /\ left \in Allotments

Next == Command \/ Continue \/ Restart

Spec == Init /\ [][Next]_vars

-----------------------------------------------------------------------------
TypeOK ==
    /\ AccountsTypeOK
    /\ sessions \in Seq(Session) /\ balance \in Nat
    /\ payments \subseteq [session: Nat, row: Session]
    /\ orders \subseteq Codes \cup {NoCode} /\ fulfilled \subseteq Nat
    /\ raced \subseteq Nat
    /\ cart \in [Handlers -> Cart]

(* What is taken for a session is the plan's price less the prior credit,   *)
(* the wallet and the code on it, each once, however codes came and went    *)
(* and the wallet grew in between (ApplyPromoCode, RemovePromoCode and      *)
(* CreateCheckoutSession each compute the amount in their own way).  It is  *)
(* less only where a refresh has taken back part of the wallet from a       *)
(* session that a request on a code had read.  A code the app was told is   *)
(* valid is accepted with the same discount (ValidateReferral), and so is a *)
(* plan it was offered (GetPlanChangeOptions).                              *)
PricesAreFair ==
    /\ \A pay \in payments :
          LET s == pay.row
              fair == Monus(Cap(s), s.wallet + s.discount)
          IN  s.wallet <= Cap(s) /\ s.due <= fair
              /\ (pay.session \notin raced => s.due = fair)
    /\ \A i \in DOMAIN sessions, c \in Codes :
          ValidateReferral(c, sessions[i].plan).valid => Verdict(c, sessions[i].plan) = "price"
    /\ \A p \in GetPlanChangeOptions \cap Plans : MayStartCheckout(p)
==============================================================================

----------------------------- MODULE PaidCheckout -----------------------------
(***************************************************************************)
(* One customer pays for a meal plan.  The handlers of                      *)
(* core/usecases/commands that touch a payment run side by side on one      *)
(* Postgres database, without a transaction around them:                    *)
(*                                                                         *)
(*   Checkouts   calls of CreateCheckoutSession (a call names its session)  *)
(*   Requests    calls of CreateOrder (a call names the row it inserts)     *)
(*   Hooks       deliveries of Moyasar's webhook, repeated and late ones    *)
(*   Jobs        runs of SyncPendingPayments, started again and again       *)
(*                                                                         *)
(* An action is one await: a statement that reads or writes the database or *)
(* a call of the gateway, with the local computation up to the next await.  *)
(* What a handler has read is in my[h] and may be stale when it is used.    *)
(***************************************************************************)
EXTENDS PaymentGateway, Sequences

CONSTANTS
    Checkouts, Hooks, Jobs,
    None,            \* no session, no payment row
    Price,           \* amount to cover: plan price, or what an upgrade costs
    Balances,        \* wallet balances a behaviour may start with
    MaxTopUps,       \* bound on credits an admin adds to the wallet
    MaxFaults,       \* bound on crashes, failed statements and lost replies
    Overlap,         \* may two handlers be under way at the same time?
    CardKept,        \* does the saved card still exist when a payment resumes?
    ReferralCode     \* was a friend's referral code applied to the session?

Handlers == Checkouts \cup Requests \cup Hooks \cup Jobs

ASSUME CheckoutAssumption ==
    /\ Price \in Nat \ {0}
    /\ Balances \subseteq Nat
    /\ MaxTopUps \in Nat /\ MaxFaults \in Nat
    /\ {Overlap, CardKept, ReferralCode} \subseteq BOOLEAN
    /\ None \notin Checkouts \cup Requests
    /\ Checkouts \cap Requests = {} /\ Checkouts \cap Hooks = {}
    /\ Checkouts \cap Jobs = {} /\ Requests \cap Hooks = {}
    /\ Requests \cap Jobs = {} /\ Hooks \cap Jobs = {}

VARIABLES
    sess,       \* checkout_sessions: [Checkouts -> row]
    tx,         \* payment_transactions: [Requests -> row]
    born,       \* ids of the payment rows, in the order of their insertion
    orders,     \* orders, in the order of their insertion
    subs,       \* subscriptions of the customer, all of them live
    balance,    \* SUM(amount_sar) of the customer's wallet ledger
    topups,     \* credits added so far
    referred,   \* is there a user_referrals row for the customer?
    rewards,    \* credits the owner of the referral code has received
    faults,     \* faults so far
    pc,         \* the await each handler is at
    my          \* what each handler has read

ledger  == <<balance, topups>>
friends == <<referred, rewards>>
store   == <<tx, born>>
vars == <<gateway, sess, store, orders, subs, ledger, friends, faults, pc, my>>

SessionStatus == {"none", "active", "confirmed", "expired"}
TxStatus == {"none", "INITIATED", "PAID_UNFULFILLED", "FULFILLING", "SUCCESS", "FAILED"}
Gid == {"none", "card", "wallet"}     \* gatewayPaymentId: null, t, wallet:t

SessionRow == [status: SessionStatus, live: BOOLEAN, wallet: Nat, due: Nat,
               promo: Nat, code: BOOLEAN]
TxRow  == [sess: Checkouts \cup {None}, status: TxStatus, amount: Nat,
           gid: Gid, stale: BOOLEAN]
OrderRow == [tx: Requests \cup {None}, gid: Gid, sub: Nat, debit: Nat, first: BOOLEAN]
SubRow == [order: Nat, days: Nat, ended: BOOLEAN, upgraded: BOOLEAN]
Item == [t: Requests, seen: TxStatus, gid: Gid, walletOnly: BOOLEAN]
Local == [s: Checkouts \cup {None}, status: SessionStatus, wallet: Nat, due: Nat,
          bal: Nat, t: Requests \cup {None}, seen: TxStatus, stale: BOOLEAN,
          gid: Gid, o: Nat, linked: Nat, first: BOOLEAN, sub: Nat,
          todo: SUBSET Item]

Blank == [s |-> None, status |-> "none", wallet |-> 0, due |-> 0, bal |-> 0,
          t |-> None, seen |-> "none", stale |-> FALSE, gid |-> "none", o |-> 0,
          linked |-> 0, first |-> FALSE, sub |-> 0, todo |-> {}]

(* awaits of fulfillBody: an exception at one of them lands in the catch   *)
Body == {"load", "cover", "is_new", "create_order", "promo_days", "promo_plan",
         "promo_order", "confirm", "debit", "relink", "live", "create_sub",
         "days", "end_date", "link", "referred", "reward", "referral", "success"}
PC == Body \cup
      {"idle", "done", "c_balance", "c_expire", "c_create", "balance", "refresh",
       "intent", "linked_order", "guard", "claim", "insert", "wallet_settle",
       "fetch", "recheck", "post", "reply", "settle", "fail", "unsure", "reopen",
       "cas", "lost", "lost_success", "catch", "hook_settle", "resume",
       "job_paid", "job_busy", "job_next", "job_wallet", "job_fetch", "job_settle"}

TypeOK ==
    /\ GatewayTypeOK
    /\ sess \in [Checkouts -> SessionRow]
    /\ tx \in [Requests -> TxRow]
    /\ born \in Seq(Requests)
    /\ orders \in Seq(OrderRow)
    /\ subs \in Seq(SubRow)
    /\ balance \in Nat /\ topups \in Nat
    /\ referred \in BOOLEAN /\ rewards \in Nat
    /\ faults \in Nat
    /\ pc \in [Handlers -> PC]
    /\ my \in [Handlers -> Local]

-------------------------------------------------------------------------------
(* The customer is new, or owns a plan that may be upgraded.               *)
OldOrder == [tx |-> None, gid |-> "none", sub |-> 1, debit |-> 0, first |-> TRUE]
OldPlan  == [order |-> 1, days |-> 1, ended |-> TRUE, upgraded |-> FALSE]

Init ==
    /\ GatewayInit
    /\ sess = [s \in Checkouts |-> [status |-> "none", live |-> FALSE, wallet |-> 0,
                                    due |-> 0, promo |-> 0, code |-> FALSE]]
    /\ tx = [t \in Requests |-> [sess |-> None, status |-> "none", amount |-> 0,
                                 gid |-> "none", stale |-> FALSE]]
    /\ born = << >>
    /\ \/ orders = << >> /\ subs = << >>
       \/ orders = <<OldOrder>> /\ subs = <<OldPlan>>
    /\ balance \in Balances /\ topups = 0
    /\ referred = FALSE /\ rewards = 0
    /\ faults = 0
    /\ pc = [h \in Handlers |-> "idle"]
    /\ my = [h \in Handlers |-> Blank]

-------------------------------------------------------------------------------
(* How handlers advance.                                                   *)
Running(h) == pc[h] \notin {"idle", "done"}
MayStart == Overlap \/ \A h \in Handlers : ~Running(h)

At(h, l) == pc[h] = l
Goto(h, l) == pc' = [pc EXCEPT ![h] = l] /\ UNCHANGED my
Load(h, l, m) == pc' = [pc EXCEPT ![h] = l] /\ my' = [my EXCEPT ![h] = m]
(* a call returns or throws; a job goes on with its next row               *)
Leave(h) == Load(h, IF h \in Jobs THEN "job_next" ELSE "done",
                 [Blank EXCEPT !.todo = my[h].todo])
Fault == faults < MaxFaults /\ faults' = faults + 1

Least(a, b) == IF a <= b THEN a ELSE b
WalletPart(b) == Least(b, Price)
WalletCovers(bal, amount) == amount <= bal

(* updateTransaction overwrites by id (its findByPk and UPDATE are one step *)
(* here); a row that changes is fresh again                                *)
UpdateTx(t, st, g) ==
    /\ UNCHANGED born
    /\ tx' = [tx EXCEPT ![t] = [@ EXCEPT !.status = st, !.gid = g,
                 !.stale = @ /\ tx[t].status = st /\ tx[t].gid = g]]
UpdateSession(s, st) == sess' = [sess EXCEPT ![s].status = st]

(* getActiveSubscriptionByUserId: the newest live one, 0 when there is none *)
LiveSub == Len(subs)
OrderOf_mutant(t, g) == {}                       \* orders are never looked up
(* loadOrder: the oldest order carrying that payment id, if there is an id *)
OrderOf(t, g) ==
    {i \in DOMAIN orders :
        /\ g # "none" /\ orders[i].tx = t /\ orders[i].gid = g
        /\ \A k \in DOMAIN orders : orders[k].tx = t /\ orders[k].gid = g => i <= k}
Finished_mutant(t, g) == OrderOf(t, g) # {}      \* an order is enough
Finished(t, g) == \E i \in OrderOf(t, g) : orders[i].sub # 0

-------------------------------------------------------------------------------
(* CreateCheckoutSession                                                   *)
CheckoutReadSub(c) ==
    /\ At(c, "idle") /\ MayStart
    /\ LiveSub > 0 => ~subs[LiveSub].upgraded      \* assertCanPromote
    /\ Load(c, "c_balance", [Blank EXCEPT !.sub = LiveSub])
    /\ UNCHANGED <<gateway, sess, store, orders, subs, ledger, friends, faults>>

CheckoutReadBalance(c) ==
    /\ At(c, "c_balance")
    /\ Load(c, "c_expire", [my[c] EXCEPT !.bal = balance])
    /\ UNCHANGED <<gateway, sess, store, orders, subs, ledger, friends, faults>>

CheckoutExpireOthers(c) ==
    /\ At(c, "c_expire")
    /\ sess' = [s \in Checkouts |-> IF sess[s].status = "active"
                                    THEN [sess[s] EXCEPT !.status = "expired"]
                                    ELSE sess[s]]
    /\ Goto(c, "c_create")
    /\ UNCHANGED <<gateway, store, orders, subs, ledger, friends, faults>>

CheckoutCreate(c) ==
    /\ At(c, "c_create")
    /\ sess' = [sess EXCEPT ![c] =
          [status |-> "active", live |-> TRUE, wallet |-> WalletPart(my[c].bal),
           due |-> Price - WalletPart(my[c].bal), promo |-> my[c].sub,
           code |-> ReferralCode /\ my[c].sub = 0]]
    /\ Leave(c)
    /\ UNCHANGED <<gateway, store, orders, subs, ledger, friends, faults>>

CreateCheckoutSession(c) ==
    \/ CheckoutReadSub(c) \/ CheckoutReadBalance(c)
    \/ CheckoutExpireOthers(c) \/ CheckoutCreate(c)

-------------------------------------------------------------------------------
(* CreateOrder: from the session to the settled payment                    *)
PaidStatus == {"SUCCESS", "FULFILLING", "PAID_UNFULFILLED"}    \* resumingSettled
Rank_mutant(st) ==                               \* open attempts are forgotten
    CASE st = "SUCCESS" -> 4 [] st = "FULFILLING" -> 3
      [] st = "PAID_UNFULFILLED" -> 2 [] OTHER -> 0
Rank(st) == CASE st = "SUCCESS" -> 4 [] st = "FULFILLING" -> 3
              [] st = "PAID_UNFULFILLED" -> 2 [] st = "INITIATED" -> 1
              [] OTHER -> 0
Older(t, u) ==
    \E i, j \in DOMAIN born : i < j /\ born[i] = t /\ born[j] = u
(* pickPaymentIntent over the rows of a session, newest first              *)
Open(s) == {t \in Requests : tx[t].sess = s /\ Rank(tx[t].status) > 0}
PaymentIntent(s) ==
    {t \in Open(s) : \A u \in Open(s) :
        \/ Rank(tx[u].status) < Rank(tx[t].status)
        \/ tx[u].status = tx[t].status /\ ~Older(t, u)}

(* fulfillPaidCheckout is entered past its compare-and-set for a row that  *)
(* somebody left FULFILLING two minutes ago                                *)
Dispatch(m) ==
    IF m.seen \in PaidStatus
    THEN IF m.seen = "FULFILLING" /\ m.stale THEN "load" ELSE "cas"
    ELSE IF m.due = 0 THEN "wallet_settle"
    ELSE IF m.seen = "INITIATED" THEN "fetch" ELSE "post"
AfterClaim(m) == IF m.seen = "none" THEN "insert" ELSE Dispatch(m)
AfterGuard(m) == IF m.status = "active" THEN "claim" ELSE AfterClaim(m)

ReadSession(r) ==
    /\ At(r, "idle") /\ MayStart
    /\ \E s \in Checkouts :
          /\ sess[s].status \in {"active", "confirmed"}
          /\ sess[s].status = "active" => sess[s].live
          /\ Load(r, IF sess[s].status = "active" THEN "balance" ELSE "intent",
                  [Blank EXCEPT !.s = s, !.status = sess[s].status,
                                !.wallet = sess[s].wallet, !.due = sess[s].due])
    /\ UNCHANGED <<gateway, sess, store, orders, subs, ledger, friends, faults>>

ReadBalance(r) ==
    /\ At(r, "balance")
    /\ LET w == WalletPart(balance) IN
       IF w > my[r].wallet \/ Price - w < my[r].due          \* shouldRefresh
       THEN Load(r, "refresh", [my[r] EXCEPT !.bal = balance, !.wallet = w,
                                             !.due = Price - w])
       ELSE Load(r, "intent", [my[r] EXCEPT !.bal = balance])
    /\ UNCHANGED <<gateway, sess, store, orders, subs, ledger, friends, faults>>

RefreshSession(r) ==
    /\ At(r, "refresh")
    /\ sess' = [sess EXCEPT ![my[r].s] = [@ EXCEPT !.wallet = my[r].wallet,
                                                    !.due = my[r].due]]
    /\ Goto(r, "intent")
    /\ UNCHANGED <<gateway, store, orders, subs, ledger, friends, faults>>

ReadIntent(r) ==
    /\ At(r, "intent")
    /\ \/ \E t \in PaymentIntent(my[r].s) :
             LET m == [my[r] EXCEPT !.t = t, !.seen = tx[t].status,
                                    !.gid = tx[t].gid, !.stale = tx[t].stale]
             IN Load(r, CASE m.seen = "SUCCESS"  -> "linked_order"
                          [] m.seen = "INITIATED" -> "guard"
                          [] OTHER               -> AfterGuard(m), m)
       \/ /\ Open(my[r].s) = {}
          /\ IF my[r].status = "confirmed" THEN Leave(r) ELSE Goto(r, "guard")
       \/ ~CardKept /\ my[r].due > 0 /\ Leave(r)     \* resolveCheckoutPaymentMethod
    /\ UNCHANGED <<gateway, sess, store, orders, subs, ledger, friends, faults>>

ReadLinkedOrder(r) ==      \* a SUCCESS row with a subscription is all done
    /\ At(r, "linked_order")
    /\ IF Finished(my[r].t, my[r].gid)
       THEN Leave(r) ELSE Goto(r, AfterGuard(my[r]))
    /\ UNCHANGED <<gateway, sess, store, orders, subs, ledger, friends, faults>>

(* The subscription must be the one being upgraded, or there must be none; *)
(* a new attempt also needs the wallet to cover its part.                  *)
GuardSubscription(r) ==
    /\ At(r, "guard")
    /\ IF /\ LiveSub = sess[my[r].s].promo
          /\ my[r].seen = "none" => WalletCovers(my[r].bal, my[r].wallet)
       THEN Goto(r, AfterGuard(my[r])) ELSE Leave(r)
    /\ UNCHANGED <<gateway, sess, store, orders, subs, ledger, friends, faults>>

Claimable(s) == sess[s].status = "active" /\ sess[s].live

ClaimSession(r) ==
    /\ At(r, "claim")
    /\ \/ /\ Claimable(my[r].s)
          /\ UpdateSession(my[r].s, "confirmed")
          /\ Goto(r, AfterClaim(my[r]))
       \/ /\ ~Claimable(my[r].s)
          /\ Leave(r)
          /\ UNCHANGED sess
    /\ UNCHANGED <<gateway, store, orders, subs, ledger, friends, faults>>

CreateTransaction(r) ==
    /\ At(r, "insert")
    /\ tx' = [tx EXCEPT ![r] = [sess |-> my[r].s, status |-> "INITIATED",
                                amount |-> my[r].due, gid |-> "none", stale |-> FALSE]]
    /\ born' = Append(born, r)
    /\ Load(r, Dispatch(my[r]), [my[r] EXCEPT !.t = r])
    /\ UNCHANGED <<gateway, sess, orders, subs, ledger, friends, faults>>

SettleByWallet(r) ==
    /\ At(r, "wallet_settle")
    /\ UpdateTx(my[r].t, "PAID_UNFULFILLED", "wallet")
    /\ Load(r, "cas", [my[r] EXCEPT !.gid = "wallet"])
    /\ UNCHANGED <<gateway, sess, orders, subs, ledger, friends, faults>>

(* A row that is already INITIATED is looked up before it is charged again *)
FetchReused(r) ==
    /\ At(r, "fetch")
    /\ \/ Settled(pay[my[r].t]) /\ Goto(r, "settle") /\ UNCHANGED faults
       \/ pay[my[r].t] = "failed" /\ Goto(r, "fail") /\ UNCHANGED faults
       \/ /\ pay[my[r].t] = "initiated" /\ ~Settled(pay[my[r].t])
          /\ Goto(r, "unsure") /\ UNCHANGED faults
       \/ /\ pay[my[r].t] = "none" /\ UNCHANGED faults        \* not_found
          /\ Goto(r, IF my[r].wallet = 0 THEN "post" ELSE "recheck")
       \/ /\ Fault                                           \* error
          /\ Goto(r, IF my[r].wallet = 0 THEN "post" ELSE "recheck")
    /\ UNCHANGED <<gateway, sess, store, orders, subs, ledger, friends>>

(* The balance read at the start is used when there is one.                *)
Recheck(r) ==
    /\ At(r, "recheck")
    /\ IF WalletCovers(IF my[r].status = "active" THEN my[r].bal ELSE balance,
                       my[r].wallet)
       THEN Goto(r, "post") ELSE Leave(r)
    /\ UNCHANGED <<gateway, sess, store, orders, subs, ledger, friends, faults>>

PostCharge(r) ==
    /\ At(r, "post")
    /\ Post(my[r].t, my[r].due)
    /\ Goto(r, "reply")
    /\ UNCHANGED <<sess, store, orders, subs, ledger, friends, faults>>

ReadReply(r) ==
    /\ At(r, "reply")
    /\ \/ /\ \E a \in ChargeReplies(my[r].t) :
                Goto(r, CASE a = "paid" -> "settle" [] a = "failed" -> "fail"
                          [] OTHER -> "unsure")
          /\ UNCHANGED faults
       \/ Fault /\ Goto(r, "unsure")             \* timeouts, no answer to recover
    /\ UNCHANGED <<gateway, sess, store, orders, subs, ledger, friends>>

MarkPaid(r) ==
    /\ At(r, "settle")
    /\ UpdateTx(my[r].t, "PAID_UNFULFILLED", "card")
    /\ Load(r, "cas", [my[r] EXCEPT !.gid = "card"])
    /\ UNCHANGED <<gateway, sess, orders, subs, ledger, friends, faults>>

(* A declined or unknown charge reopens the session for another try.  The  *)
(* webhook and the job reach MarkFailed and Reopen too.                    *)
MarkFailed(h) ==
    /\ At(h, "fail")
    /\ UpdateTx(my[h].t, "FAILED", tx[my[h].t].gid)
    /\ Goto(h, "reopen")
    /\ UNCHANGED <<gateway, sess, orders, subs, ledger, friends, faults>>

MarkUnsure(r) ==
    /\ At(r, "unsure")
    /\ UpdateTx(my[r].t, "INITIATED", "card")
    /\ Goto(r, "reopen")
    /\ UNCHANGED <<gateway, sess, orders, subs, ledger, friends, faults>>

Reopen(h) ==
    /\ At(h, "reopen")
    /\ UpdateSession(my[h].s, "active")
    /\ Leave(h)
    /\ UNCHANGED <<gateway, store, orders, subs, ledger, friends, faults>>

CreateOrder(r) ==
    \/ ReadSession(r) \/ ReadBalance(r) \/ RefreshSession(r) \/ ReadIntent(r)
    \/ ReadLinkedOrder(r) \/ GuardSubscription(r) \/ ClaimSession(r)
    \/ CreateTransaction(r) \/ SettleByWallet(r) \/ FetchReused(r) \/ Recheck(r)
    \/ PostCharge(r) \/ ReadReply(r) \/ MarkPaid(r) \/ MarkUnsure(r)

-------------------------------------------------------------------------------
(* fulfillPaidCheckout, entered by CreateOrder, the webhook and the job    *)
Fulfillable == {"PAID_UNFULFILLED", "INITIATED"}

BeginFulfilment(h) ==                       \* compareAndSetStatus
    /\ At(h, "cas")
    /\ IF tx[my[h].t].status \in Fulfillable
       THEN UpdateTx(my[h].t, "FULFILLING", tx[my[h].t].gid) /\ Goto(h, "load")
       ELSE Goto(h, "lost") /\ UNCHANGED store
    /\ UNCHANGED <<gateway, sess, orders, subs, ledger, friends, faults>>

LostFulfilment(h) ==
    /\ At(h, "lost")
    /\ IF Finished(my[h].t, my[h].gid)
       THEN Goto(h, "lost_success")
       ELSE Leave(h)                        \* "already in progress"
    /\ UNCHANGED <<gateway, sess, store, orders, subs, ledger, friends, faults>>

MarkSuccess(h) ==
    /\ pc[h] \in {"success", "lost_success"}
    /\ UpdateTx(my[h].t, "SUCCESS", my[h].gid)
    /\ Leave(h)
    /\ UNCHANGED <<gateway, sess, orders, subs, ledger, friends, faults>>

Promo(h) == sess[my[h].s].promo

(* where a body goes on once it holds an order                             *)
WithOrder(h) == IF Promo(h) # 0 THEN "promo_days" ELSE "confirm"
NoOrder(h) == IF Promo(h) # 0 THEN "create_order" ELSE "is_new"

LoadOrder(h) ==
    /\ At(h, "load")
    /\ \/ \E i \in OrderOf(my[h].t, my[h].gid) :
             Load(h, WithOrder(h), [my[h] EXCEPT !.o = i, !.linked = orders[i].sub,
                                                 !.first = orders[i].first])
       \/ /\ OrderOf(my[h].t, my[h].gid) = {}
          /\ Goto(h, IF my[h].wallet > 0 THEN "cover" ELSE NoOrder(h))
    /\ UNCHANGED <<gateway, sess, store, orders, subs, ledger, friends, faults>>

CheckCover(h) ==
    /\ At(h, "cover")
    /\ Goto(h, IF WalletCovers(balance, my[h].wallet) THEN NoOrder(h) ELSE "catch")
    /\ UNCHANGED <<gateway, sess, store, orders, subs, ledger, friends, faults>>

ReadIsNew(h) ==
    /\ At(h, "is_new")
    /\ Load(h, "create_order", [my[h] EXCEPT !.first = (orders = << >>)])
    /\ UNCHANGED <<gateway, sess, store, orders, subs, ledger, friends, faults>>

InsertOrder(h) ==
    /\ At(h, "create_order")
    /\ orders' = Append(orders, [tx |-> my[h].t, gid |-> my[h].gid, sub |-> Promo(h),
                                 debit |-> 0, first |-> my[h].first])
    /\ Load(h, WithOrder(h), [my[h] EXCEPT !.o = Len(orders) + 1, !.linked = Promo(h)])
    /\ UNCHANGED <<gateway, sess, store, subs, ledger, friends, faults>>

(* promoteSubscriptionInPlace: the new calendar, then the plan, then the   *)
(* order the subscription points to                                        *)
PromoteDays(h) ==
    /\ At(h, "promo_days")
    /\ subs' = [subs EXCEPT ![Promo(h)].days = 1]
    /\ Goto(h, "promo_plan")
    /\ UNCHANGED <<gateway, sess, store, orders, ledger, friends, faults>>

PromotePlan(h) ==
    /\ At(h, "promo_plan")
    /\ subs' = [subs EXCEPT ![Promo(h)].upgraded = TRUE]
    /\ Goto(h, "promo_order")
    /\ UNCHANGED <<gateway, sess, store, orders, ledger, friends, faults>>

PromoteOrder(h) ==
    /\ At(h, "promo_order")
    /\ subs' = [subs EXCEPT ![Promo(h)].order = my[h].o]
    /\ Goto(h, "confirm")
    /\ UNCHANGED <<gateway, sess, store, orders, ledger, friends, faults>>

(* finalizePaidCheckout                                                    *)
AfterDebit(h) ==
    IF Promo(h) # 0 THEN "success" ELSE IF my[h].linked # 0 THEN "relink" ELSE "live"

DebitsWallet_mutant(h) == my[h].wallet > 0 /\ my[h].due = 0
DebitsWallet(h) == my[h].wallet > 0

ConfirmSession(h) ==
    /\ At(h, "confirm")
    /\ UpdateSession(my[h].s, "confirmed")
    /\ Goto(h, IF DebitsWallet(h) THEN "debit" ELSE AfterDebit(h))
    /\ UNCHANGED <<gateway, store, orders, subs, ledger, friends, faults>>

Debited_mutant(o) == FALSE                       \* no look at the reference id
Debited(o) == orders[o].debit > 0
Sufficient_mutant(amount) == amount >= 0         \* the balance is not compared
Sufficient(amount) == amount <= balance
(* createDebitIfSufficient, one database transaction under a lock per user *)
DebitWallet(h) ==
    /\ At(h, "debit")
    /\ \/ /\ Debited(my[h].o)
          /\ Goto(h, AfterDebit(h)) /\ UNCHANGED <<orders, balance>>
       \/ /\ ~Debited(my[h].o) /\ Sufficient(my[h].wallet)
          /\ balance' = balance - my[h].wallet
          /\ orders' = [orders EXCEPT ![my[h].o].debit = @ + my[h].wallet]
          /\ Goto(h, AfterDebit(h))
       \/ /\ ~Debited(my[h].o) /\ ~Sufficient(my[h].wallet)
          /\ Goto(h, "catch") /\ UNCHANGED <<orders, balance>>
    /\ UNCHANGED <<gateway, sess, store, subs, topups, friends, faults>>

(* ensureNewSubscription                                                   *)
AfterEnsure(h) ==
    IF sess[my[h].s].code /\ my[h].first THEN "referred" ELSE "success"

RelinkSubscription(h) ==      \* the order already had a subscription
    /\ At(h, "relink")
    /\ IF subs[my[h].linked].days = 0
       THEN Load(h, "days", [my[h] EXCEPT !.sub = my[h].linked])
       ELSE Goto(h, AfterEnsure(h))
    /\ UNCHANGED <<gateway, sess, store, orders, subs, ledger, friends, faults>>

SecondPlan_mutant(o) == FALSE                    \* nothing is refused
SecondPlan(o) == LiveSub # 0 /\ subs[LiveSub].order # o
OwnPlan(o) == LiveSub # 0 /\ subs[LiveSub].order = o

ReadLive(h) ==
    /\ At(h, "live")
    /\ IF SecondPlan(my[h].o) THEN Goto(h, "catch")    \* "Refusing to create ..."
       ELSE IF OwnPlan(my[h].o)
       THEN Load(h, "link", [my[h] EXCEPT !.sub = LiveSub])
       ELSE Goto(h, "create_sub")
    /\ UNCHANGED <<gateway, sess, store, orders, subs, ledger, friends, faults>>

CreateSubscription(h) ==
    /\ At(h, "create_sub")
    /\ subs' = Append(subs, [order |-> my[h].o, days |-> 0, ended |-> FALSE,
                             upgraded |-> FALSE])
    /\ Load(h, "days", [my[h] EXCEPT !.sub = Len(subs) + 1])
    /\ UNCHANGED <<gateway, sess, store, orders, ledger, friends, faults>>

WriteDays(h) ==
    /\ At(h, "days")
    /\ subs' = [subs EXCEPT ![my[h].sub].days = @ + 1]
    /\ Goto(h, IF my[h].linked # 0 THEN AfterEnsure(h) ELSE "end_date")
    /\ UNCHANGED <<gateway, sess, store, orders, ledger, friends, faults>>

WriteEndDate(h) ==
    /\ At(h, "end_date")
    /\ subs' = [subs EXCEPT ![my[h].sub].ended = TRUE]
    /\ Goto(h, "link")
    /\ UNCHANGED <<gateway, sess, store, orders, ledger, friends, faults>>

LinkOrder(h) ==
    /\ At(h, "link")
    /\ orders' = [orders EXCEPT ![my[h].o].sub = my[h].sub]
    /\ Goto(h, AfterEnsure(h))
    /\ UNCHANGED <<gateway, sess, store, subs, ledger, friends, faults>>

(* applyReferralRewardIfEligible                                           *)
ReadReferred(h) ==
    /\ At(h, "referred")
    /\ Goto(h, IF referred THEN "success" ELSE "reward")
    /\ UNCHANGED <<gateway, sess, store, orders, subs, ledger, friends, faults>>

CreditReferrer(h) ==
    /\ At(h, "reward")
    /\ rewards' = rewards + 1
    /\ Goto(h, "referral")
    /\ UNCHANGED <<gateway, sess, store, orders, subs, ledger, referred, faults>>

CreateReferral(h) ==
    /\ At(h, "referral")
    /\ referred' = TRUE
    /\ Goto(h, "success")
    /\ UNCHANGED <<gateway, sess, store, orders, subs, ledger, rewards, faults>>

BodyThrows(h) ==
    /\ pc[h] \in Body /\ Fault
    /\ Goto(h, "catch")
    /\ UNCHANGED <<gateway, sess, store, orders, subs, ledger, friends>>

Catch(h) ==
    /\ At(h, "catch")
    /\ UpdateTx(my[h].t, "PAID_UNFULFILLED", my[h].gid)
    /\ Leave(h)
    /\ UNCHANGED <<gateway, sess, orders, subs, ledger, friends, faults>>

FulfillPaidCheckout(h) ==
    \/ BeginFulfilment(h) \/ LostFulfilment(h) \/ LoadOrder(h) \/ CheckCover(h)
    \/ ReadIsNew(h) \/ InsertOrder(h) \/ PromoteDays(h) \/ PromotePlan(h)
    \/ PromoteOrder(h) \/ ConfirmSession(h) \/ DebitWallet(h)
    \/ RelinkSubscription(h) \/ ReadLive(h) \/ CreateSubscription(h) \/ WriteDays(h)
    \/ WriteEndDate(h) \/ LinkOrder(h) \/ ReadReferred(h) \/ CreditReferrer(h)
    \/ CreateReferral(h) \/ MarkSuccess(h) \/ BodyThrows(h) \/ Catch(h)

-------------------------------------------------------------------------------
(* resumePaidCheckout: the session is read afresh; the saved card must     *)
(* still be there                                                          *)
Resume(h) ==
    /\ At(h, "resume")
    /\ \/ Load(h, IF my[h].seen = "FULFILLING" THEN "load" ELSE "cas",
               [my[h] EXCEPT !.s = tx[my[h].t].sess,
                             !.wallet = sess[tx[my[h].t].sess].wallet,
                             !.due = sess[tx[my[h].t].sess].due])
       \/ ~CardKept /\ Leave(h)
    /\ UNCHANGED <<gateway, sess, store, orders, subs, ledger, friends, faults>>

NothingLeft_mutant(seen) == FALSE                \* duplicates are settled again
NothingLeft(seen) == seen = "SUCCESS"

(* HandleMoyasarWebhook: a paid or failed event about payment t arrives    *)
WebhookArrives(k) ==
    /\ At(k, "idle") /\ MayStart
    /\ \E t \in Requests :
          LET m == [Blank EXCEPT !.t = t, !.s = tx[t].sess, !.seen = tx[t].status,
                                 !.gid = tx[t].gid]
          IN \/ pay[t] = "paid" /\ ~NothingLeft(m.seen) /\ Load(k, "hook_settle", m)
             \/ pay[t] = "failed" /\ m.seen = "INITIATED" /\ Load(k, "fail", m)
    /\ UNCHANGED <<gateway, sess, store, orders, subs, ledger, friends, faults>>

HookStatus(seen) == IF seen = "FULFILLING" THEN seen ELSE "PAID_UNFULFILLED"

WebhookSettles(k) ==
    /\ At(k, "hook_settle")
    /\ UpdateTx(my[k].t, HookStatus(my[k].seen), "card")
    /\ Load(k, "resume", [my[k] EXCEPT !.seen = HookStatus(my[k].seen), !.gid = "card"])
    /\ UNCHANGED <<gateway, sess, orders, subs, ledger, friends, faults>>

HandleMoyasarWebhook(k) == WebhookArrives(k) \/ WebhookSettles(k)

-------------------------------------------------------------------------------
(* SyncPendingPayments: three lists are read, then their rows are handled  *)
InList_mutant(t, st) == tx[t].status = st /\ st # "FULFILLING"
InList(t, st) == tx[t].status = st /\ (st = "FULFILLING" => tx[t].stale)
Rows(st) ==
    {[t |-> t, seen |-> st, gid |-> tx[t].gid,
      walletOnly |-> tx[t].amount = 0 \/ tx[t].gid = "wallet"] :
        t \in {u \in Requests : InList(u, st)}}

JobList(j, from, st, to) ==
    /\ At(j, from)
    /\ Load(j, to, [my[j] EXCEPT !.todo = @ \cup Rows(st)])
    /\ UNCHANGED <<gateway, sess, store, orders, subs, ledger, friends, faults>>

JobReadInitiated(j) == MayStart /\ JobList(j, "idle", "INITIATED", "job_paid")
JobReadPaid(j) == JobList(j, "job_paid", "PAID_UNFULFILLED", "job_busy")
JobReadFulfilling(j) == JobList(j, "job_busy", "FULFILLING", "job_next")

JobPhase(st) == CASE st = "INITIATED" -> 1 [] st = "PAID_UNFULFILLED" -> 2 [] OTHER -> 3
Before(a, b) ==
    \/ JobPhase(a.seen) < JobPhase(b.seen)
    \/ a.seen = b.seen /\ Older(a.t, b.t)

JobTakesRow(j) ==
    /\ At(j, "job_next")
    /\ \E i \in my[j].todo :
          /\ \A k \in my[j].todo : ~Before(k, i)
          /\ Load(j, IF i.seen # "INITIATED" THEN "resume"
                     ELSE IF i.walletOnly THEN "job_wallet" ELSE "job_fetch",
                  [my[j] EXCEPT !.t = i.t, !.s = tx[i.t].sess, !.seen = i.seen,
                                !.gid = i.gid, !.todo = @ \ {i}])
    /\ UNCHANGED <<gateway, sess, store, orders, subs, ledger, friends, faults>>

JobEnds(j) ==
    /\ At(j, "job_next") /\ my[j].todo = {}
    /\ Load(j, "idle", Blank)
    /\ UNCHANGED <<gateway, sess, store, orders, subs, ledger, friends, faults>>

JobSettlesWallet(j) ==
    /\ At(j, "job_wallet")
    /\ LET g == IF my[j].gid = "none" THEN "wallet" ELSE my[j].gid IN
       /\ UpdateTx(my[j].t, "PAID_UNFULFILLED", g)
       /\ Load(j, "resume", [my[j] EXCEPT !.seen = "PAID_UNFULFILLED", !.gid = g])
    /\ UNCHANGED <<gateway, sess, orders, subs, ledger, friends, faults>>

JobFetches(j) ==
    /\ At(j, "job_fetch")
    /\ \/ Settled(pay[my[j].t]) /\ Goto(j, "job_settle") /\ UNCHANGED faults
       \/ pay[my[j].t] = "failed" /\ Goto(j, "fail") /\ UNCHANGED faults
       \/ pay[my[j].t] \in {"none", "initiated"} /\ Leave(j) /\ UNCHANGED faults
       \/ Fault /\ Leave(j)
    /\ UNCHANGED <<gateway, sess, store, orders, subs, ledger, friends>>

JobSettles(j) ==
    /\ At(j, "job_settle")
    /\ UpdateTx(my[j].t, "PAID_UNFULFILLED", "card")
    /\ Load(j, "resume", [my[j] EXCEPT !.seen = "PAID_UNFULFILLED", !.gid = "card"])
    /\ UNCHANGED <<gateway, sess, orders, subs, ledger, friends, faults>>

SyncPendingPayments(j) ==
    \/ JobReadInitiated(j) \/ JobReadPaid(j) \/ JobReadFulfilling(j) \/ JobTakesRow(j)
    \/ JobEnds(j) \/ JobSettlesWallet(j) \/ JobFetches(j) \/ JobSettles(j)

-------------------------------------------------------------------------------
(* The environment: a handler dies at an await, time passes, an admin adds *)
(* money to the wallet, Moyasar works                                      *)
Crash(h) ==
    /\ Running(h) /\ Fault
    /\ Load(h, IF h \in Jobs THEN "idle" ELSE "done", Blank)
    /\ UNCHANGED <<gateway, sess, store, orders, subs, ledger, friends>>

TenMinutesPass(s) ==
    /\ sess[s].live
    /\ sess' = [sess EXCEPT ![s].live = FALSE]
    /\ UNCHANGED <<gateway, store, orders, subs, ledger, friends, faults, pc, my>>

(* two minutes without a write to a FULFILLING row; a fulfilment under way *)
(* takes that long only when handlers may overlap                          *)
TwoMinutesPass(t) ==
    /\ tx[t].status = "FULFILLING" /\ ~tx[t].stale
    /\ Overlap \/ \A h \in Handlers : my[h].t # t
    /\ tx' = [tx EXCEPT ![t].stale = TRUE]
    /\ UNCHANGED <<gateway, sess, born, orders, subs, ledger, friends, faults, pc, my>>

TopUp ==
    /\ topups < MaxTopUps
    /\ topups' = topups + 1 /\ balance' = balance + 1
    /\ UNCHANGED <<gateway, sess, store, orders, subs, friends, faults, pc, my>>

Moyasar ==
    /\ GatewayNext
    /\ UNCHANGED <<sess, store, orders, subs, ledger, friends, faults, pc, my>>

Step(h) ==
    \/ FulfillPaidCheckout(h) \/ Resume(h) \/ MarkFailed(h) \/ Reopen(h)
    \/ h \in Checkouts /\ CreateCheckoutSession(h)
    \/ h \in Requests /\ CreateOrder(h)
    \/ h \in Hooks /\ HandleMoyasarWebhook(h)
    \/ h \in Jobs /\ SyncPendingPayments(h)

Environment ==
    \/ \E h \in Handlers : Crash(h)
    \/ \E s \in Checkouts : TenMinutesPass(s)
    \/ \E t \in Requests : TwoMinutesPass(t)
    \/ TopUp \/ Moyasar

Next == Environment \/ \E h \in Handlers : Step(h)

Spec == Init /\ [][Next]_vars

(* A handler that runs goes on (Node awaits resolve or reject); the job is  *)
(* called again and again by its scheduler; clocks advance; Moyasar answers *)
(* a POST.  Customers and webhooks owe nothing.                             *)
Fairness ==
    /\ \A h \in Handlers : WF_vars(Running(h) /\ Step(h))
    /\ \A j \in Jobs : WF_vars(Step(j))
    /\ \A t \in Requests : WF_vars(TwoMinutesPass(t))
    /\ WF_vars(Moyasar /\ posts # {})
FairSpec == Spec /\ Fairness

-------------------------------------------------------------------------------
(* Correctness                                                             *)
Paid(t) == pay[t] = "paid"
SessionOf(i) == IF orders[i].tx = None THEN None ELSE tx[orders[i].tx].sess
CardPart(t) == IF t # None /\ Paid(t) THEN charged[t] ELSE 0
NewPurchase(t) == tx[t].sess # None /\ sess[tx[t].sess].promo = 0
OrderServes(i, t) == orders[i].tx = t /\ orders[i].sub \in DOMAIN subs

(* An order that names a card payment exists only when Moyasar holds the    *)
(* money: no path of CreateOrder, the webhook or the job creates an order   *)
(* on a row that asks for money while its charge is unknown or has failed.  *)
(* It needs either one handler at a time or a single CreateOrder call: with *)
(* a credit between overlapping calls, one can settle by wallet alone the   *)
(* row for which another still writes down an undecided card charge.       *)
NoOrderWithoutPayment ==
    \A i \in DOMAIN orders : orders[i].gid = "card" =>
        Paid(orders[i].tx) \/ tx[orders[i].tx].amount = 0

(* A payment marked SUCCESS, by whichever of the racing handlers, has an    *)
(* order, and the order a subscription.                                     *)
SuccessIsServed ==
    \A t \in Requests : tx[t].status = "SUCCESS" =>
        \E i \in DOMAIN orders : OrderServes(i, t)

(* ... and, for a new purchase, card and wallet together covered its price. *)
SuccessIsPaidInFull ==
    \A t \in Requests : tx[t].status = "SUCCESS" /\ NewPurchase(t) =>
        \E i \in DOMAIN orders :
            OrderServes(i, t) /\ orders[i].debit + CardPart(t) >= Price

(* However many fulfilments race on an order, its wallet part is taken once *)
DebitedOnce == \A i \in DOMAIN orders : orders[i].debit <= Price

(* Two payment rows of one checkout are never both charged.                 *)
OneChargePerSession ==
    \A t, u \in Requests :
        t # u /\ tx[t].sess = tx[u].sess /\ Paid(t) => ~Paid(u)

(* Money was not taken on a row given up as FAILED, which no reconciliation *)
(* run looks at again.                                                      *)
FailedIsNotCharged == \A t \in Requests : tx[t].status = "FAILED" => ~Paid(t)

(* However often a checkout is retried, resumed or reconciled, it has one   *)
(* order.                                                                   *)
OneOrderPerSession ==
    \A i, k \in DOMAIN orders :
        SessionOf(i) = SessionOf(k) /\ SessionOf(i) # None => i = k

(* Card and wallet together never take more than the price of a checkout.   *)
NeverPaysTwice ==
    \A i \in DOMAIN orders : \A t \in Requests :
        SessionOf(i) # None /\ tx[t].sess = SessionOf(i) =>
            orders[i].debit + CardPart(t) <= Price

(* The customer never holds two subscriptions.                              *)
OneSubscription == Len(subs) <= 1

(* A finished payment is never opened again.                                *)
SuccessIsFinal ==
    [][\A t \in Requests : tx[t].status = "SUCCESS" => tx'[t].status = "SUCCESS"]_vars

(* A new purchase that succeeded has its delivery days and its end date.    *)
SuccessHasDays ==
    \A t \in Requests : tx[t].status = "SUCCESS" /\ NewPurchase(t) =>
        \E i \in DOMAIN orders :
            /\ OrderServes(i, t)
            /\ subs[orders[i].sub].days = 1 /\ subs[orders[i].sub].ended

(* Money Moyasar has taken ends in a finished order.                        *)
PaidIsServed ==
    \A t \in Requests : Paid(t) ~> tx[t].status = "SUCCESS"
==============================================================================

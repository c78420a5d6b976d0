---------------------- MODULE PaidCheckoutOrders_proofs -----------------------
(***************************************************************************)
(* What holds of the orders of PaidCheckout however handlers overlap.       *)
(*                                                                         *)
(* A payment row is marked SUCCESS by an unguarded update, and five kinds   *)
(* of racing handlers may reach that statement.  It is safe because the     *)
(* handler then holds an order of that row that is linked to a plan, and    *)
(* no step unlinks an order or changes the row it belongs to.               *)
(*                                                                         *)
(* The wallet part of an order is taken under a lock per user, after a look *)
(* for a debit with the order's reference.  With the bound every session    *)
(* and every handler puts on the wallet part, that look is enough.          *)
(***************************************************************************)
EXTENDS PaidCheckout_proofs

-------------------------------------------------------------------------------
(* SUCCESS has an order with a plan                                        *)
Plans == 0..Len(subs)
Linked(i, t) == i \in DOMAIN orders /\ orders[i].tx = t /\ orders[i].sub # 0

(* The awaits past createOrder, and those past the link to the plan        *)
LinkedAt == {"referred", "reward", "referral", "success"}
WithOrderAt == LinkedAt \cup
    {"promo_days", "promo_plan", "promo_order", "confirm", "debit", "relink", "live",
     "create_sub", "days", "end_date", "link"}
WithPlanAt == {"days", "end_date", "link"}
Promoting == {"c_balance", "c_expire", "c_create"}

(* What a handler knows of orders and plans at an await l, having read m   *)
Serves(h, l, m) ==
    /\ l \in Promoting => m.sub \in Plans
    /\ l \in WithOrderAt =>
          /\ m.o \in DOMAIN orders /\ orders[m.o].tx = m.t
          /\ m.linked \in Plans
          /\ m.linked # 0 => orders[m.o].sub # 0
    /\ l = "relink" => m.linked # 0
    /\ l \in WithPlanAt => m.sub \in Plans \ {0}
    /\ l \in LinkedAt => orders[m.o].sub # 0
    /\ l = "lost_success" => \E i \in DOMAIN orders : Linked(i, m.t)

(* The order of an upgrade is linked from the start.                       *)
OrdersOK ==
    \A i \in DOMAIN orders :
        /\ orders[i].sub \in Plans
        /\ orders[i].tx # None =>
              /\ KnownRow(orders[i].tx)
              /\ sess[tx[orders[i].tx].sess].promo # 0 => orders[i].sub # 0
PromosOK == \A s \in Checkouts : sess[s].promo \in Plans

ServeInv ==
    /\ PromosOK /\ OrdersOK /\ SuccessIsServed
    /\ \A h \in Handlers : Serves(h, pc[h], my[h])

-------------------------------------------------------------------------------
(* What no step takes back                                                 *)
OrdersKept ==
    /\ Len(subs) <= Len(subs')
    /\ \A i \in DOMAIN orders :
          /\ i \in DOMAIN orders' /\ orders'[i].tx = orders[i].tx
          /\ orders[i].sub # 0 => orders'[i].sub # 0

(* A row becomes SUCCESS only when an order of it is linked.               *)
SuccessEarned ==
    \A t \in Requests : tx'[t].status = "SUCCESS" =>
        tx[t].status = "SUCCESS" \/ \E i \in DOMAIN orders : Linked(i, t)

(* Orders and plans are sequences.                                          *)
LEMMA Lengths ==
  ASSUME TypeInv
  PROVE  /\ Len(subs) \in Nat /\ Len(orders) \in Nat
         /\ DOMAIN subs = 1..Len(subs) /\ DOMAIN orders = 1..Len(orders)
BY DEF TypeInv, TypeOK

(* What a handler knows of orders and plans survives every step that keeps  *)
(* orders.                                                                  *)
LEMMA ServesKept ==
  ASSUME TypeInv, TypeInv', OrdersKept, NEW h, NEW l, NEW m, Serves(h, l, m)
  PROVE  Serves(h, l, m)'
<1>1. Plans \subseteq Plans'
  BY Lengths DEF OrdersKept, Plans, TypeInv, TypeOK
<1>2. \A i, t : Linked(i, t) => Linked(i, t)'
  BY DEF OrdersKept, Linked
<1>3. LinkedAt \subseteq WithOrderAt
  BY DEF WithOrderAt
<1>. QED BY <1>1, <1>2, <1>3 DEF Serves, OrdersKept

(* SuccessIsServed survives such a step if no SUCCESS appears unearned.     *)
LEMMA SuccessKept ==
  ASSUME TypeInv, TypeInv', OrdersKept, OrdersOK, OrdersOK', SuccessIsServed, SuccessEarned
  PROVE  SuccessIsServed'
<1>1. \A i \in DOMAIN orders' : \A t : Linked(i, t)' => OrderServes(i, t)'
  BY Lengths DEF Linked, OrderServes, OrdersOK, Plans, TypeInv, TypeOK
<1>2. \A i \in DOMAIN orders : \A t : Linked(i, t) => i \in DOMAIN orders' /\ Linked(i, t)'
  BY DEF Linked, OrdersKept
<1>3. \A i \in DOMAIN orders : \A t : OrderServes(i, t) => Linked(i, t)
  BY Lengths DEF OrderServes, Linked
<1>4. ASSUME NEW t \in Requests, tx'[t].status = "SUCCESS"
      PROVE  \E i \in DOMAIN orders : Linked(i, t)
  BY <1>3, <1>4 DEF SuccessEarned, SuccessIsServed
<1>. QED BY <1>1, <1>2, <1>4 DEF SuccessIsServed

(* A step of h: other handlers are undisturbed; h and the tables are left.  *)
LEMMA ServeStepOf ==
  ASSUME TypeInv, TypeInv', ServeInv, NEW h \in Handlers, NEW l, NEW m,
         Load(h, l, m), Serves(h, l, m)', OrdersKept, SuccessEarned, PromosOK', OrdersOK'
  PROVE  ServeInv'
<1>1. pc' = [pc EXCEPT ![h] = l] /\ my' = [my EXCEPT ![h] = m]
      /\ pc \in [Handlers -> PC] /\ my \in [Handlers -> Local]
  BY DEF Load, TypeInv, TypeOK
<1>2. ASSUME NEW g \in Handlers PROVE Serves(g, pc[g], my[g])'
  <2>1. CASE g = h
    <3>1. pc'[g] = l /\ my'[g] = m
      BY <1>1, <2>1
    <3>. QED BY <3>1, <2>1 DEF Serves, Linked, Plans
  <2>2. CASE g # h
    <3>1. pc'[g] = pc[g] /\ my'[g] = my[g]
      BY <1>1, <2>2
    <3>2. Serves(g, pc[g], my[g])
      BY DEF ServeInv
    <3>3. PICK k, n : k = pc[g] /\ n = my[g] /\ Serves(g, k, n)'
      BY <3>2, ServesKept
    <3>. QED BY <3>1, <3>3 DEF Serves, Linked, Plans
  <2>. QED BY <2>1, <2>2
<1>. QED BY <1>2, SuccessKept DEF ServeInv

(* A step that writes neither orders nor plans keeps them in order.         *)
LEMMA OrdersStay ==
  ASSUME TypeInv, TypeInv', Kept, OrdersOK, UNCHANGED <<orders, subs>>
  PROVE  OrdersKept /\ OrdersOK'
<1>1. OrdersKept
  BY Lengths DEF OrdersKept
<1>2. ASSUME NEW i \in DOMAIN orders, orders[i].tx # None
      PROVE  /\ KnownRow(orders[i].tx)'
             /\ sess'[tx'[orders[i].tx].sess].promo = sess[tx[orders[i].tx].sess].promo
  <2>1. KnownRow(orders[i].tx) /\ KnownSession(tx[orders[i].tx].sess)
    BY <1>2 DEF OrdersOK, TypeInv, RowsOK, KnownRow
  <2>. QED BY <2>1 DEF Kept, KnownRow, KnownSession
<1>. QED BY <1>1, <1>2 DEF OrdersOK, Plans

(* Such a step of h needs only what h knows before it.                      *)
LEMMA ServeQuiet ==
  ASSUME TypeInv, TypeInv', Kept, ServeInv, NEW h \in Handlers, NEW l, NEW m,
         Load(h, l, m), Serves(h, l, m), UNCHANGED <<orders, subs>>,
         PromosOK', SuccessEarned
  PROVE  ServeInv'
<1>1. OrdersKept /\ OrdersOK'
  BY OrdersStay DEF ServeInv
<1>2. Serves(h, l, m)'
  BY <1>1, ServesKept
<1>. QED BY <1>1, <1>2, ServeStepOf

(* Awaits at which a handler needs to know nothing of orders and plans     *)
Plain(l) == l \notin Promoting \cup WithOrderAt \cup {"lost_success"}

(* At a plain await there is nothing to know.                               *)
LEMMA ServePlain ==
  ASSUME TypeInv, TypeInv', Kept, ServeInv, NEW h \in Handlers, NEW l, NEW m,
         Load(h, l, m), Plain(l), UNCHANGED <<orders, subs>>, SuccessEarned,
         \A s \in Checkouts : sess'[s].promo = sess[s].promo
  PROVE  ServeInv'
<1>1. Serves(h, l, m)
  BY DEF Serves, Plain, WithOrderAt, WithPlanAt
<1>2. PromosOK'
  BY DEF ServeInv, PromosOK, Plans
<1>. QED BY <1>1, <1>2, ServeQuiet

(* A handler that returns is at a plain await.                              *)
LEMMA LeavePlain ==
  ASSUME NEW h, Leave(h)
  PROVE  \E l, m : Plain(l) /\ Load(h, l, m)
BY DEF Leave, Plain, Promoting, WithOrderAt, LinkedAt

(* Going on without reading, with what was read under a name of its own.    *)
LEMMA GotoAny == ASSUME TypeInv, NEW h \in Handlers, NEW l, Goto(h, l)
                 PROVE  \E m : m = my[h] /\ Load(h, l, m)
BY GotoLoads

(* An update to another status earns no SUCCESS.                           *)
LEMMA NotSuccess ==
  ASSUME TypeInv, NEW t, NEW st, NEW g, UpdateTx(t, st, g), st # "SUCCESS"
  PROVE  SuccessEarned
BY DEF TypeInv, TypeOK, TxRow, UpdateTx, SuccessEarned

(* A step that writes no payment row earns no SUCCESS.                      *)
LEMMA SuccessUnchanged == ASSUME UNCHANGED tx PROVE SuccessEarned
BY DEF SuccessEarned

(* A session keeps the plan it upgrades.                                    *)
LEMMA PromosStay ==
  ASSUME TypeInv,
         \/ UNCHANGED sess
         \/ \E s, st : UpdateSession(s, st)
  PROVE  \A s \in Checkouts : sess'[s].promo = sess[s].promo
BY DEF TypeInv, TypeOK, SessionRow, UpdateSession

(* CreateCheckoutSession records a plan that exists.                        *)
LEMMA CheckoutServes ==
  ASSUME TypeInv, TypeInv', Kept, ServeInv, NEW c \in Checkouts, CreateCheckoutSession(c)
  PROVE  ServeInv'
<1>. USE DEF Promoting
<1>0. c \in Handlers /\ Serves(c, pc[c], my[c]) /\ my[c] \in Local
      /\ sess \in [Checkouts -> SessionRow] /\ PromosOK
  BY DEF Handlers, ServeInv, TypeInv, TypeOK
<1>1. CASE CheckoutReadSub(c)
  <2>. DEFINE m == [Blank EXCEPT !.sub = LiveSub]
  <2>1. m.sub \in Plans
    BY Lengths DEF Blank, LiveSub, Plans
  <2>2. Load(c, "c_balance", m)
    BY <1>1 DEF CheckoutReadSub
  <2>. HIDE DEF m
  <2>3. Serves(c, "c_balance", m)
    BY <2>1 DEF Serves, WithOrderAt, LinkedAt, WithPlanAt
  <2>. QED BY <1>0, <1>1, <2>2, <2>3, ServeQuiet, SuccessUnchanged
           DEF CheckoutReadSub, PromosOK, Plans, store
<1>2. CASE CheckoutReadBalance(c)
  <2>. DEFINE m == [my[c] EXCEPT !.bal = balance]
  <2>1. m.sub \in Plans
    BY <1>0, <1>2 DEF Serves, CheckoutReadBalance, At, Local
  <2>2. Load(c, "c_expire", m)
    BY <1>2 DEF CheckoutReadBalance
  <2>. HIDE DEF m
  <2>3. Serves(c, "c_expire", m)
    BY <2>1 DEF Serves, WithOrderAt, LinkedAt, WithPlanAt
  <2>. QED BY <1>0, <1>2, <2>2, <2>3, ServeQuiet, SuccessUnchanged
           DEF CheckoutReadBalance, PromosOK, Plans, store
<1>3. CASE CheckoutExpireOthers(c)
  <2>1. PICK m : m = my[c] /\ Load(c, "c_create", m)
    BY <1>0, <1>3, GotoAny DEF CheckoutExpireOthers
  <2>2. Serves(c, "c_create", m)
    BY <1>0, <1>3, <2>1 DEF Serves, CheckoutExpireOthers, At, WithOrderAt, LinkedAt, WithPlanAt
  <2>3. \A s \in Checkouts : sess'[s].promo = sess[s].promo
    BY <1>0, <1>3 DEF CheckoutExpireOthers, SessionRow
  <2>. QED BY <1>0, <1>3, <2>1, <2>2, <2>3, ServeQuiet, SuccessUnchanged
           DEF CheckoutExpireOthers, PromosOK, Plans, store
<1>4. CASE CheckoutCreate(c)
  <2>1. my[c].sub \in Plans
    BY <1>0, <1>4 DEF Serves, CheckoutCreate, At
  <2>2. PromosOK'
    BY <1>0, <1>4, <2>1 DEF CheckoutCreate, PromosOK, Plans
  <2>3. PICK l, m : Plain(l) /\ Load(c, l, m)
    BY <1>4, LeavePlain DEF CheckoutCreate
  <2>4. Serves(c, l, m)
    BY <2>3 DEF Serves, Plain, WithOrderAt, WithPlanAt
  <2>. QED BY <1>0, <1>4, <2>2, <2>3, <2>4, ServeQuiet, SuccessUnchanged
           DEF CheckoutCreate, store
<1>. QED BY <1>1, <1>2, <1>3, <1>4 DEF CreateCheckoutSession

(* CreateOrder, up to the settled payment, touches no order and no plan.    *)
LEMMA RequestServes ==
  ASSUME TypeInv, TypeInv', Kept, ServeInv, NEW r \in Requests, CreateOrder(r)
  PROVE  ServeInv'
<1>. USE DEF Plain, Promoting, WithOrderAt, LinkedAt
<1>0. r \in Handlers
  BY DEF Handlers
<1>a. \A m : /\ Plain(AfterGuard(m)) /\ Plain(AfterClaim(m)) /\ Plain(Dispatch(m))
  BY DEF AfterGuard, AfterClaim, Dispatch
<1>1. \E l, m : Plain(l) /\ Load(r, l, m)
  <2>1. CASE ReadSession(r)
    BY <2>1 DEF ReadSession
  <2>2. CASE ReadBalance(r)
    BY <2>2 DEF ReadBalance
  <2>3. CASE ReadIntent(r)
    BY <2>3, <1>0, <1>a, GotoAny, LeavePlain DEF ReadIntent
  <2>4. CASE RefreshSession(r) \/ ReadLinkedOrder(r) \/ GuardSubscription(r) \/ ClaimSession(r)
    BY <2>4, <1>0, <1>a, GotoAny, LeavePlain
       DEF RefreshSession, ReadLinkedOrder, GuardSubscription, ClaimSession
  <2>5. CASE CreateTransaction(r) \/ SettleByWallet(r) \/ MarkPaid(r)
    BY <2>5, <1>a DEF CreateTransaction, SettleByWallet, MarkPaid
  <2>6. CASE FetchReused(r) \/ Recheck(r) \/ PostCharge(r) \/ ReadReply(r) \/ MarkUnsure(r)
    BY <2>6, <1>0, GotoAny, LeavePlain DEF FetchReused, Recheck, PostCharge, ReadReply, MarkUnsure
  <2>. QED BY <2>1, <2>2, <2>3, <2>4, <2>5, <2>6 DEF CreateOrder
<1>2. UNCHANGED <<orders, subs>>
  BY DEF CreateOrder, ReadSession, ReadBalance, RefreshSession, ReadIntent, ReadLinkedOrder,
         GuardSubscription, ClaimSession, CreateTransaction, SettleByWallet, FetchReused,
         Recheck, PostCharge, ReadReply, MarkPaid, MarkUnsure
<1>3. \A s \in Checkouts : sess'[s].promo = sess[s].promo
  <2>1. CASE RefreshSession(r)
    BY <2>1 DEF RefreshSession, TypeInv, TypeOK, SessionRow
  <2>. QED BY <2>1, PromosStay
       DEF CreateOrder, ReadSession, ReadBalance, ReadIntent, ReadLinkedOrder,
           GuardSubscription, ClaimSession, CreateTransaction, SettleByWallet, FetchReused,
           Recheck, PostCharge, ReadReply, MarkPaid, MarkUnsure
<1>4. SuccessEarned
  <2>1. CASE CreateTransaction(r)
    BY <2>1 DEF CreateTransaction, SuccessEarned, TypeInv, TypeOK
  <2>. QED BY <2>1, SuccessUnchanged, NotSuccess
       DEF CreateOrder, ReadSession, ReadBalance, RefreshSession, ReadIntent, ReadLinkedOrder,
           GuardSubscription, ClaimSession, SettleByWallet, FetchReused,
           Recheck, PostCharge, ReadReply, MarkPaid, MarkUnsure, store
<1>. QED BY <1>0, <1>1, <1>2, <1>3, <1>4, ServePlain

(* Nor do the webhook, the job and the ends of a fulfilment.                *)
LEMMA PlainSteps ==
  ASSUME TypeInv, TypeInv', Kept, ServeInv, NEW h \in Handlers,
         \/ Resume(h) \/ MarkFailed(h) \/ Reopen(h)
         \/ HandleMoyasarWebhook(h) \/ SyncPendingPayments(h)
         \/ BeginFulfilment(h) \/ CheckCover(h) \/ ReadIsNew(h) \/ BodyThrows(h) \/ Catch(h)
  PROVE  ServeInv'
<1>. USE DEF Plain, Promoting, WithOrderAt, LinkedAt
<1>1. \E l, m : Plain(l) /\ Load(h, l, m)
  <2>1. CASE Resume(h) \/ MarkFailed(h) \/ Reopen(h)
    BY <2>1, GotoAny, LeavePlain DEF Resume, MarkFailed, Reopen
  <2>2. CASE HandleMoyasarWebhook(h)
    BY <2>2 DEF HandleMoyasarWebhook, WebhookArrives, WebhookSettles
  <2>3. CASE JobReadInitiated(h) \/ JobReadPaid(h) \/ JobReadFulfilling(h)
    BY <2>3 DEF JobReadInitiated, JobReadPaid, JobReadFulfilling, JobList
  <2>4. CASE JobTakesRow(h) \/ JobEnds(h) \/ JobSettlesWallet(h) \/ JobSettles(h)
    BY <2>4 DEF JobTakesRow, JobEnds, JobSettlesWallet, JobSettles
  <2>5. CASE JobFetches(h)
    BY <2>5, GotoAny, LeavePlain DEF JobFetches
  <2>6. CASE BeginFulfilment(h) \/ CheckCover(h) \/ BodyThrows(h) \/ Catch(h)
    BY <2>6, GotoAny, LeavePlain DEF BeginFulfilment, CheckCover, NoOrder, BodyThrows, Catch
  <2>7. CASE ReadIsNew(h)
    BY <2>7 DEF ReadIsNew
  <2>. QED BY <2>1, <2>2, <2>3, <2>4, <2>5, <2>6, <2>7 DEF SyncPendingPayments
<1>2. UNCHANGED <<orders, subs>>
  BY DEF Resume, MarkFailed, Reopen, HandleMoyasarWebhook, WebhookArrives, WebhookSettles,
         SyncPendingPayments, JobReadInitiated, JobReadPaid, JobReadFulfilling, JobList,
         JobTakesRow, JobEnds, JobSettlesWallet, JobFetches, JobSettles,
         BeginFulfilment, CheckCover, ReadIsNew, BodyThrows, Catch
<1>3. \A s \in Checkouts : sess'[s].promo = sess[s].promo
  BY PromosStay
     DEF Resume, MarkFailed, Reopen, HandleMoyasarWebhook, WebhookArrives, WebhookSettles,
         SyncPendingPayments, JobReadInitiated, JobReadPaid, JobReadFulfilling, JobList,
         JobTakesRow, JobEnds, JobSettlesWallet, JobFetches, JobSettles,
         BeginFulfilment, CheckCover, ReadIsNew, BodyThrows, Catch
<1>4. SuccessEarned
  BY SuccessUnchanged, NotSuccess
     DEF Resume, MarkFailed, Reopen, HandleMoyasarWebhook, WebhookArrives, WebhookSettles,
         HookStatus,
         SyncPendingPayments, JobReadInitiated, JobReadPaid, JobReadFulfilling, JobList,
         JobTakesRow, JobEnds, JobSettlesWallet, JobFetches, JobSettles,
         BeginFulfilment, CheckCover, ReadIsNew, BodyThrows, Catch, store
<1>. QED BY <1>1, <1>2, <1>3, <1>4, ServePlain

(* Steps that write the plans but no order                                 *)
LEMMA PlansGrow ==
  ASSUME TypeInv, TypeInv', Kept, ServeInv, NEW h \in Handlers, NEW l, NEW m,
         Load(h, l, m), Serves(h, l, m)', Len(subs) <= Len(subs'),
         UNCHANGED <<orders, sess, tx>>
  PROVE  ServeInv'
<1>1. OrdersKept
  BY DEF OrdersKept
<1>2. Plans \subseteq Plans'
  BY Lengths DEF Plans, TypeInv, TypeOK
<1>3. OrdersOK' /\ PromosOK'
  BY <1>2 DEF OrdersOK, PromosOK, KnownRow, ServeInv
<1>. QED BY <1>1, <1>3, SuccessUnchanged, ServeStepOf

(* Steps that write other columns of the orders                            *)
LEMMA OrdersUpdated ==
  ASSUME TypeInv, TypeInv', Kept, ServeInv, NEW h \in Handlers, NEW l, NEW m,
         Load(h, l, m), Serves(h, l, m), DOMAIN orders' = DOMAIN orders,
         \A i \in DOMAIN orders : orders'[i].tx = orders[i].tx /\ orders'[i].sub = orders[i].sub,
         UNCHANGED <<subs, sess, tx>>
  PROVE  ServeInv'
<1>1. OrdersKept
  BY Lengths DEF OrdersKept
<1>2. OrdersOK' /\ PromosOK'
  BY DEF OrdersOK, PromosOK, KnownRow, Plans, ServeInv
<1>. QED BY <1>1, <1>2, SuccessUnchanged, ServesKept, ServeStepOf

(* The fulfilment holds an order of its row from LoadOrder or InsertOrder   *)
(* on, and a linked one when it reaches MarkSuccess.                        *)
LEMMA FulfilServes ==
  ASSUME TypeInv, TypeInv', Kept, ServeInv, NEW h \in Handlers, FulfillPaidCheckout(h)
  PROVE  ServeInv'
<1>. USE DEF Promoting, WithOrderAt, LinkedAt, WithPlanAt
<1>0. /\ Serves(h, pc[h], my[h]) /\ Knows(h, pc[h], my[h]) /\ my[h] \in Local
      /\ sess \in [Checkouts -> SessionRow] /\ PromosOK /\ OrdersOK /\ RowsOK
  BY Facts DEF ServeInv, TypeInv, TypeOK
<1>a. ASSUME pc[h] \in WithOrderAt
      PROVE  /\ my[h].o \in DOMAIN orders /\ orders[my[h].o].tx = my[h].t
             /\ my[h].t \in Requests
             /\ Promo(h) # 0 \/ my[h].linked # 0 => orders[my[h].o].sub # 0
  <2>1. KnownRow(my[h].t) /\ tx[my[h].t].sess = my[h].s
    BY <1>0, <1>a DEF Knows, NoRow, NoSession, Opening
  <2>2. my[h].t # None
    BY <2>1, CheckoutAssumption DEF KnownRow
  <2>. QED BY <1>0, <1>a, <2>1, <2>2 DEF Serves, OrdersOK, Promo, KnownRow
<1>b. ASSUME NEW l, Goto(h, l), Serves(h, l, my[h]), UNCHANGED <<orders, subs>>,
             UNCHANGED tx, \A s \in Checkouts : sess'[s].promo = sess[s].promo
      PROVE  ServeInv'
  BY <1>0, <1>b, GotoAny, ServeQuiet, SuccessUnchanged DEF PromosOK, Plans
<1>c. ASSUME pc[h] \in WithOrderAt, NEW l \in {"promo_plan", "promo_order", "confirm", "debit",
                                               "live", "create_sub"}
      PROVE  Serves(h, l, my[h])
  BY <1>0, <1>c DEF Serves
<1>d. ASSUME NEW l, l = AfterDebit(h), pc[h] \in WithOrderAt PROVE Serves(h, l, my[h])
  BY <1>0, <1>a, <1>d DEF Serves, AfterDebit
<1>e. ASSUME NEW l, l = AfterEnsure(h), pc[h] \in WithOrderAt, orders[my[h].o].sub # 0
      PROVE  Serves(h, l, my[h])
  BY <1>0, <1>e DEF Serves, AfterEnsure
<1>1. CASE BeginFulfilment(h) \/ CheckCover(h) \/ ReadIsNew(h) \/ BodyThrows(h) \/ Catch(h)
  BY <1>1, PlainSteps
<1>2. CASE LostFulfilment(h)
  <2>1. CASE Leave(h)
    BY <1>2, <2>1, LeavePlain, ServePlain, SuccessUnchanged DEF LostFulfilment, store
  <2>2. CASE Finished(my[h].t, my[h].gid) /\ Goto(h, "lost_success")
    <3>1. Serves(h, "lost_success", my[h])
      BY <2>2 DEF Serves, Finished, OrderOf, Linked
    <3>. QED BY <1>2, <2>2, <3>1, <1>b DEF LostFulfilment, store
  <2>. QED BY <1>2, <2>1, <2>2 DEF LostFulfilment
<1>3. CASE LoadOrder(h)
  <2>1. CASE \E l : Goto(h, l) /\ l \in {"cover", "create_order", "is_new"}
    BY <1>3, <2>1, GotoAny, ServePlain, SuccessUnchanged DEF LoadOrder, Plain, store
  <2>2. ASSUME NEW i \in OrderOf(my[h].t, my[h].gid), NEW l \in {"promo_days", "confirm"},
               Load(h, l, [my[h] EXCEPT !.o = i, !.linked = orders[i].sub,
                                        !.first = orders[i].first])
        PROVE  ServeInv'
    <3>. DEFINE m == [my[h] EXCEPT !.o = i, !.linked = orders[i].sub,
                                   !.first = orders[i].first]
    <3>1. i \in DOMAIN orders /\ orders[i].tx = my[h].t /\ orders[i].sub \in Plans
      BY <1>0 DEF OrderOf, OrdersOK
    <3>2. m.o = i /\ m.linked = orders[i].sub /\ m.t = my[h].t
      BY <1>0 DEF Local
    <3>3. Load(h, l, m)
      BY <2>2
    <3>. HIDE DEF m
    <3>4. Serves(h, l, m)
      BY <3>1, <3>2 DEF Serves
    <3>. QED BY <1>0, <1>3, <3>3, <3>4, ServeQuiet, SuccessUnchanged
             DEF LoadOrder, PromosOK, Plans, store
  <2>. QED BY <1>3, <2>1, <2>2 DEF LoadOrder, WithOrder, NoOrder
<1>4. CASE InsertOrder(h)
  <2>. DEFINE i == Len(orders) + 1
              row == [tx |-> my[h].t, gid |-> my[h].gid, sub |-> Promo(h),
                      debit |-> 0, first |-> my[h].first]
  <2>1. /\ KnownRow(my[h].t) /\ tx[my[h].t].sess = my[h].s /\ KnownSession(my[h].s)
        /\ my[h].t # None
    BY <1>0, <1>4, CheckoutAssumption DEF Knows, InsertOrder, At, NoRow, NoSession, Opening, KnownRow
  <2>2. Promo(h) \in Plans
    BY <1>0, <2>1 DEF Promo, PromosOK, KnownSession
  <2>3. /\ i \in DOMAIN orders' /\ orders'[i] = row
        /\ \A k \in DOMAIN orders : k \in DOMAIN orders' /\ orders'[k] = orders[k]
        /\ \A k \in DOMAIN orders' : k \in DOMAIN orders \/ k = i
    <3>1. orders' = Append(orders, row) /\ orders \in Seq(OrderRow)
      BY <1>4 DEF InsertOrder, TypeInv, TypeOK
    <3>. HIDE DEF row
    <3>. QED BY <3>1, Lengths
  <2>4. UNCHANGED <<subs, sess, tx>>
    BY <1>4 DEF InsertOrder, store
  <2>5. PICK l, m :
          l \in {"promo_days", "confirm"} /\ Load(h, l, m) /\ m.o = i /\ m.linked = Promo(h) /\ m.t = my[h].t
    <3>1. PICK m : m = [my[h] EXCEPT !.o = i, !.linked = Promo(h)]
      OBVIOUS
    <3>2. Load(h, WithOrder(h), m)
      BY <1>4, <3>1 DEF InsertOrder
    <3>3. m.o = i /\ m.linked = Promo(h) /\ m.t = my[h].t
      BY <1>0, <3>1 DEF Local
    <3>. QED BY <3>2, <3>3 DEF WithOrder
  <2>6. row.tx = my[h].t /\ row.sub = Promo(h)
    OBVIOUS
  <2>. HIDE DEF i, row
  <2>7. OrdersKept
    BY <2>3, <2>4, Lengths DEF OrdersKept
  <2>8. Plans' = Plans
    BY <2>4 DEF Plans
  <2>9. Promo(h) = sess[my[h].s].promo
    BY DEF Promo
  <2>10. OrdersOK'
    BY <1>0, <2>1, <2>2, <2>3, <2>4, <2>6, <2>8, <2>9 DEF OrdersOK, KnownRow
  <2>11. Serves(h, l, m)'
    BY <2>2, <2>3, <2>5, <2>6, <2>8 DEF Serves
  <2>. QED BY <1>0, <2>4, <2>5, <2>7, <2>8, <2>10, <2>11, ServeStepOf, SuccessUnchanged
           DEF PromosOK
<1>5. CASE PromoteDays(h) \/ PromotePlan(h) \/ PromoteOrder(h)
  <2>1. PICK l, m :
          l \in {"promo_plan", "promo_order", "confirm"} /\ m = my[h] /\ Load(h, l, m) /\ Serves(h, l, m)
    BY <1>5, <1>c, GotoAny DEF PromoteDays, PromotePlan, PromoteOrder, At
  <2>2. Len(subs') = Len(subs) /\ UNCHANGED <<orders, sess, tx>>
    <3>1. subs \in Seq(SubRow) /\ subs' \in Seq(SubRow) /\ DOMAIN subs' = DOMAIN subs
      BY <1>5 DEF PromoteDays, PromotePlan, PromoteOrder, TypeInv, TypeOK
    <3>. QED BY <1>5, <3>1, Lengths DEF PromoteDays, PromotePlan, PromoteOrder, store
  <2>3. OrdersKept
    BY <2>2, Lengths DEF OrdersKept
  <2>. QED BY <2>1, <2>2, <2>3, ServesKept, PlansGrow, Lengths
<1>6. CASE ConfirmSession(h)
  <2>1. \E l : Goto(h, l) /\ Serves(h, l, my[h])
    BY <1>6, <1>c, <1>d DEF ConfirmSession, At
  <2>. QED BY <1>6, <2>1, <1>b, PromosStay DEF ConfirmSession, store
<1>7. CASE DebitWallet(h)
  <2>1. CASE UNCHANGED orders
    <3>1. CASE Goto(h, "catch")
      BY <1>7, <2>1, <3>1, GotoAny, ServePlain, SuccessUnchanged DEF DebitWallet, Plain, store
    <3>2. CASE Goto(h, AfterDebit(h))
      BY <1>7, <2>1, <3>2, <1>b, <1>d DEF DebitWallet, At, store
    <3>. QED BY <1>7, <3>1, <3>2 DEF DebitWallet
  <2>2. CASE /\ orders' = [orders EXCEPT ![my[h].o].debit = @ + my[h].wallet]
             /\ Goto(h, AfterDebit(h))
    <3>1. PICK l, m : l = AfterDebit(h) /\ m = my[h] /\ Load(h, l, m) /\ Serves(h, l, m)
      BY <1>7, <2>2, <1>d, GotoAny DEF DebitWallet, At
    <3>2. UNCHANGED <<subs, sess, tx>>
      BY <1>7 DEF DebitWallet, store
    <3>3. /\ DOMAIN orders' = DOMAIN orders
          /\ \A i \in DOMAIN orders : orders'[i].tx = orders[i].tx /\ orders'[i].sub = orders[i].sub
      <4>. DEFINE e == [orders[my[h].o] EXCEPT !.debit = @ + my[h].wallet]
      <4>1. orders \in Seq(OrderRow) /\ my[h].o \in DOMAIN orders
            /\ orders[my[h].o] \in OrderRow
        BY <1>a, <1>7 DEF DebitWallet, At, TypeInv, TypeOK
      <4>2. e.tx = orders[my[h].o].tx /\ e.sub = orders[my[h].o].sub
        BY <4>1 DEF OrderRow
      <4>3. orders' = [orders EXCEPT ![my[h].o] = e]
        BY <2>2
      <4>. HIDE DEF e
      <4>. QED BY <4>1, <4>2, <4>3
    <3>. QED BY <3>1, <3>2, <3>3, OrdersUpdated
  <2>. QED BY <1>7, <2>1, <2>2 DEF DebitWallet
<1>8. CASE RelinkSubscription(h)
  <2>1. pc[h] \in WithOrderAt /\ my[h].linked # 0 /\ orders[my[h].o].sub # 0
        /\ my[h].linked \in Plans
    BY <1>0, <1>8 DEF Serves, RelinkSubscription, At
  <2>2. CASE Goto(h, AfterEnsure(h))
    BY <1>8, <2>1, <2>2, <1>b, <1>e DEF RelinkSubscription, store
  <2>3. CASE Load(h, "days", [my[h] EXCEPT !.sub = my[h].linked])
    <3>. DEFINE m == [my[h] EXCEPT !.sub = my[h].linked]
    <3>1. m.sub = my[h].linked /\ m.o = my[h].o /\ m.t = my[h].t /\ m.linked = my[h].linked
      BY <1>0 DEF Local
    <3>2. Load(h, "days", m)
      BY <2>3
    <3>. HIDE DEF m
    <3>3. Serves(h, "days", m)
      BY <1>0, <2>1, <3>1 DEF Serves
    <3>. QED BY <1>0, <1>8, <3>2, <3>3, ServeQuiet, SuccessUnchanged
             DEF RelinkSubscription, PromosOK, Plans, store
  <2>. QED BY <1>8, <2>2, <2>3 DEF RelinkSubscription
<1>9. CASE ReadLive(h)
  <2>1. CASE Goto(h, "catch")
    BY <1>9, <2>1, GotoAny, ServePlain, SuccessUnchanged DEF ReadLive, Plain, store
  <2>2. CASE Goto(h, "create_sub")
    BY <1>9, <2>2, <1>b, <1>c DEF ReadLive, At, store
  <2>3. CASE OwnPlan(my[h].o) /\ Load(h, "link", [my[h] EXCEPT !.sub = LiveSub])
    <3>. DEFINE m == [my[h] EXCEPT !.sub = LiveSub]
    <3>1. m.sub = Len(subs) /\ m.o = my[h].o /\ m.t = my[h].t /\ m.linked = my[h].linked
      BY <1>0 DEF Local, LiveSub
    <3>2. Load(h, "link", m) /\ Len(subs) # 0
      BY <2>3 DEF OwnPlan, LiveSub
    <3>. HIDE DEF m
    <3>3. Serves(h, "link", m)
      BY <1>0, <1>9, <3>1, <3>2, Lengths DEF Serves, ReadLive, At, Plans
    <3>. QED BY <1>0, <1>9, <3>2, <3>3, ServeQuiet, SuccessUnchanged
             DEF ReadLive, PromosOK, Plans, store
  <2>. QED BY <1>9, <2>1, <2>2, <2>3 DEF ReadLive
<1>10. CASE CreateSubscription(h)
  <2>1. PICK m : m = [my[h] EXCEPT !.sub = Len(subs) + 1]
    OBVIOUS
  <2>2. Load(h, "days", m) /\ UNCHANGED <<orders, sess, tx>>
    BY <1>10, <2>1 DEF CreateSubscription, store
  <2>3. m.sub = Len(subs) + 1 /\ m.o = my[h].o /\ m.t = my[h].t /\ m.linked = my[h].linked
    BY <1>0, <2>1 DEF Local
  <2>4. Len(subs') = Len(subs) + 1
    BY <1>10 DEF CreateSubscription, TypeInv, TypeOK
  <2>5. Serves(h, "days", m)'
    BY <1>0, <1>10, <2>2, <2>3, <2>4, Lengths DEF Serves, CreateSubscription, At, Plans
  <2>. QED BY <2>2, <2>4, <2>5, PlansGrow, Lengths
<1>11. CASE WriteDays(h) \/ WriteEndDate(h)
  <2>1. PICK l, m : m = my[h] /\ Load(h, l, m) /\ Serves(h, l, m)
    <3>1. CASE WriteEndDate(h)
      <4>1. Serves(h, "link", my[h])
        BY <1>0, <3>1 DEF Serves, WriteEndDate, At
      <4>. QED BY <3>1, <4>1, GotoAny DEF WriteEndDate
    <3>2. CASE WriteDays(h)
      <4>1. Serves(h, "end_date", my[h])
        BY <1>0, <3>2 DEF Serves, WriteDays, At
      <4>2. my[h].linked # 0 => orders[my[h].o].sub # 0
        BY <1>a, <3>2 DEF WriteDays, At
      <4>. QED BY <3>2, <4>1, <4>2, <1>e, GotoAny DEF WriteDays, At
    <3>. QED BY <1>11, <3>1, <3>2
  <2>2. Len(subs') = Len(subs) /\ UNCHANGED <<orders, sess, tx>>
    <3>1. subs \in Seq(SubRow) /\ subs' \in Seq(SubRow) /\ DOMAIN subs' = DOMAIN subs
      BY <1>11 DEF WriteDays, WriteEndDate, TypeInv, TypeOK
    <3>. QED BY <1>11, <3>1, Lengths DEF WriteDays, WriteEndDate, store
  <2>3. OrdersKept
    BY <2>2, Lengths DEF OrdersKept
  <2>. QED BY <2>1, <2>2, <2>3, ServesKept, PlansGrow, Lengths
<1>12. CASE LinkOrder(h)
  <2>1. pc[h] = "link" /\ my[h].sub \in Plans \ {0} /\ my[h].o \in DOMAIN orders
    BY <1>0, <1>12 DEF Serves, LinkOrder, At
  <2>2. PICK l, m : l = AfterEnsure(h) /\ m = my[h] /\ Load(h, l, m)
    BY <1>12, GotoAny DEF LinkOrder
  <2>3. UNCHANGED <<subs, sess, tx>>
    BY <1>12 DEF LinkOrder, store
  <2>4. /\ DOMAIN orders' = DOMAIN orders
        /\ \A i \in DOMAIN orders :
              /\ orders'[i].tx = orders[i].tx
              /\ orders'[i].sub = IF i = my[h].o THEN my[h].sub ELSE orders[i].sub
    <3>. DEFINE e == [orders[my[h].o] EXCEPT !.sub = my[h].sub]
    <3>1. orders \in Seq(OrderRow) /\ orders[my[h].o] \in OrderRow
      BY <2>1 DEF TypeInv, TypeOK
    <3>2. e.tx = orders[my[h].o].tx /\ e.sub = my[h].sub
      BY <3>1 DEF OrderRow
    <3>3. orders' = [orders EXCEPT ![my[h].o] = e]
      BY <1>12 DEF LinkOrder
    <3>. HIDE DEF e
    <3>. QED BY <2>1, <3>1, <3>2, <3>3
  <2>5. OrdersKept /\ OrdersOK'
    BY <1>0, <2>1, <2>3, <2>4, Lengths DEF OrdersKept, OrdersOK, KnownRow, Plans
  <2>6. Serves(h, l, m)'
    BY <1>0, <2>1, <2>2, <2>3, <2>4 DEF Serves, AfterEnsure, Plans
  <2>. QED BY <1>0, <2>2, <2>3, <2>5, <2>6, ServeStepOf, SuccessUnchanged DEF PromosOK, Plans
<1>13. CASE ReadReferred(h) \/ CreditReferrer(h) \/ CreateReferral(h)
  <2>1. pc[h] \in LinkedAt
    BY <1>13 DEF ReadReferred, CreditReferrer, CreateReferral, At
  <2>2. \A l \in LinkedAt : Serves(h, l, my[h])
    BY <1>0, <2>1 DEF Serves
  <2>3. \E l \in LinkedAt : Goto(h, l)
    BY <1>13 DEF ReadReferred, CreditReferrer, CreateReferral
  <2>. QED BY <1>13, <2>2, <2>3, <1>b DEF ReadReferred, CreditReferrer, CreateReferral, store
<1>14. CASE MarkSuccess(h)
  <2>1. \E i \in DOMAIN orders : Linked(i, my[h].t)
    BY <1>0, <1>14 DEF Serves, MarkSuccess, Linked
  <2>2. SuccessEarned
    BY <1>14, <2>1 DEF SuccessEarned, MarkSuccess, UpdateTx, TypeInv, TypeOK, TxRow
  <2>. QED BY <1>14, <2>2, LeavePlain, ServePlain DEF MarkSuccess
<1>. QED BY <1>1, <1>2, <1>3, <1>4, <1>5, <1>6, <1>7, <1>8, <1>9, <1>10, <1>11, <1>12,
            <1>13, <1>14 DEF FulfillPaidCheckout

(* Crashes, clocks, credits and Moyasar write no order and no plan.         *)
LEMMA EnvironmentServes ==
  ASSUME TypeInv, TypeInv', Kept, ServeInv, Environment
  PROVE  ServeInv'
<1>1. ASSUME NEW h \in Handlers, Crash(h) PROVE ServeInv'
  <2>1. \E l, m : Plain(l) /\ Load(h, l, m)
    BY <1>1 DEF Crash, Plain, Promoting, WithOrderAt, LinkedAt
  <2>. QED BY <1>1, <2>1, ServePlain, SuccessUnchanged DEF Crash, store
<1>2. CASE \/ TopUp \/ Moyasar
           \/ \E s \in Checkouts : TenMinutesPass(s)
           \/ \E t \in Requests : TwoMinutesPass(t)
  <2>1. UNCHANGED <<orders, subs, pc, my>>
    BY <1>2 DEF TopUp, Moyasar, TenMinutesPass, TwoMinutesPass
  <2>2. \A s \in Checkouts : sess'[s].promo = sess[s].promo
    <3>1. CASE \E s \in Checkouts : TenMinutesPass(s)
      BY <3>1 DEF TenMinutesPass, TypeInv, TypeOK, SessionRow
    <3>. QED BY <1>2, <3>1 DEF TopUp, Moyasar, TwoMinutesPass
  <2>3. \A t \in Requests : tx'[t].status = tx[t].status
    BY <1>2 DEF TopUp, Moyasar, TenMinutesPass, TwoMinutesPass, TypeInv, TypeOK, TxRow, store
  <2>4. OrdersOK' /\ PromosOK'
    BY <2>1, <2>2, OrdersStay DEF ServeInv, PromosOK, Plans
  <2>5. SuccessIsServed' /\ \A h \in Handlers : Serves(h, pc[h], my[h])'
    BY <2>1, <2>3 DEF ServeInv, SuccessIsServed, OrderServes, Serves, Linked, Plans
  <2>. QED BY <2>4, <2>5 DEF ServeInv
<1>. QED BY <1>1, <1>2 DEF Environment

(* At first no row is SUCCESS, and an old order has its plan.               *)
LEMMA InitServes == Init => ServeInv
<1>. SUFFICES ASSUME Init PROVE ServeInv
  OBVIOUS
<1>1. /\ PromosOK /\ SuccessIsServed
  <2>1. Len(subs) \in Nat
    BY InitTyped, Lengths
  <2>. QED BY <2>1 DEF Init, PromosOK, SuccessIsServed, Plans
<1>2. OrdersOK
  <2>1. \/ orders = << >>
        \/ orders = <<OldOrder>> /\ subs = <<OldPlan>>
    BY DEF Init
  <2>2. OldOrder.tx = None /\ OldOrder.sub = 1
    BY DEF OldOrder
  <2>. QED BY <2>1, <2>2 DEF OrdersOK, Plans
<1>3. \A h \in Handlers : Serves(h, pc[h], my[h])
  BY DEF Init, Serves, Promoting, WithOrderAt, LinkedAt, WithPlanAt
<1>. QED BY <1>1, <1>2, <1>3 DEF ServeInv

(* Every step keeps ServeInv.                                               *)
LEMMA ServeStep == TypeInv /\ ServeInv /\ [Next]_vars => ServeInv'
<1>. SUFFICES ASSUME TypeInv, ServeInv, [Next]_vars PROVE ServeInv'
  OBVIOUS
<1>0. TypeInv' /\ Kept
  BY TypeStep
<1>1. CASE Environment
  BY <1>0, <1>1, EnvironmentServes
<1>2. ASSUME NEW h \in Handlers, Step(h) PROVE ServeInv'
  BY <1>0, <1>2, FulfilServes, PlainSteps, CheckoutServes, RequestServes DEF Step
<1>3. CASE UNCHANGED vars
  BY <1>3 DEF vars, store, ServeInv, PromosOK, OrdersOK, SuccessIsServed, OrderServes, Serves,
              Linked, Plans, KnownRow
<1>. QED BY <1>1, <1>2, <1>3 DEF Next

(* A payment row marked SUCCESS, by whichever of any number of racing       *)
(* requests, webhooks and reconciliation runs, after whatever crashes,      *)
(* retries and credits, has an order that is linked to a subscription.     *)
THEOREM PaidRowsAreServed == Spec => []SuccessIsServed
<1>1. ServeInv => SuccessIsServed
  BY DEF ServeInv
<1>. QED BY <1>1, InitTyped, InitServes, TypeStep, ServeStep, PTL DEF Spec

-------------------------------------------------------------------------------
(* The wallet part is taken once                                           *)
SessionWallets == \A s \in Checkouts : sess[s].wallet <= Price
HandlerWallets == \A h \in Handlers : my[h].wallet <= Price
DebitInv == SessionWallets /\ HandlerWallets /\ DebitedOnce

(* The wallet part computed from any balance is within the price.           *)
LEMMA WalletParts == \A b \in Nat : WalletPart(b) \in Nat /\ WalletPart(b) <= Price
BY CheckoutAssumption DEF WalletPart, Least

(* Nothing read is within the price.                                        *)
LEMMA BlankWallet == Blank.wallet = 0 /\ 0 <= Price
BY CheckoutAssumption DEF Blank

(* How a step of h leaves what h has read of the wallet                    *)
SameWallet(h) == \E l, m : Load(h, l, m) /\ m.wallet <= Price
SameOrders == UNCHANGED orders
SameSessions == \A s \in Checkouts : sess'[s].wallet = sess[s].wallet

(* A handler that reads nothing, or returns, keeps its bound.               *)
LEMMA GotoKeepsWallet ==
  ASSUME TypeInv, DebitInv, NEW h \in Handlers, NEW l, Goto(h, l) PROVE SameWallet(h)
BY GotoLoads DEF DebitInv, HandlerWallets, SameWallet

(* The same for one that returns.                                           *)
LEMMA LeaveKeepsWallet == ASSUME NEW h, Leave(h) PROVE SameWallet(h)
BY BlankWallet DEF Leave, SameWallet, Blank

(* A step of h changes what h has read, and nobody else.                    *)
LEMMA HandlersKeepWallet ==
  ASSUME TypeInv, DebitInv, NEW h \in Handlers, SameWallet(h)
  PROVE  HandlerWallets'
BY DEF TypeInv, TypeOK, DebitInv, HandlerWallets, SameWallet, Load

(* CreateCheckoutSession writes a wallet part within the price.             *)
LEMMA CheckoutDebits ==
  ASSUME TypeInv, DebitInv, NEW c \in Checkouts, CreateCheckoutSession(c)
  PROVE  DebitInv'
<1>0. c \in Handlers /\ my[c] \in Local /\ my[c].wallet <= Price /\ balance \in Nat
      /\ sess \in [Checkouts -> SessionRow]
  BY DEF Handlers, TypeInv, TypeOK, DebitInv, HandlerWallets
<1>1. SameWallet(c)
  <2>1. CASE CheckoutReadSub(c)
    BY <2>1, BlankWallet DEF CheckoutReadSub, SameWallet, Blank
  <2>2. CASE CheckoutReadBalance(c)
    BY <1>0, <2>2 DEF CheckoutReadBalance, SameWallet, Local
  <2>3. CASE CheckoutExpireOthers(c) \/ CheckoutCreate(c)
    BY <1>0, <2>3, GotoKeepsWallet, LeaveKeepsWallet DEF CheckoutExpireOthers, CheckoutCreate
  <2>. QED BY <2>1, <2>2, <2>3 DEF CreateCheckoutSession
<1>2. SessionWallets'
  <2>1. CASE CheckoutCreate(c)
    <3>1. WalletPart(my[c].bal) <= Price
      BY <1>0, WalletParts DEF Local
    <3>. QED BY <1>0, <2>1, <3>1 DEF CheckoutCreate, SessionWallets, DebitInv
  <2>2. CASE CheckoutExpireOthers(c)
    BY <1>0, <2>2 DEF CheckoutExpireOthers, SessionWallets, DebitInv, SessionRow
  <2>. QED BY <2>1, <2>2 DEF CreateCheckoutSession, CheckoutReadSub, CheckoutReadBalance,
                             SessionWallets, DebitInv
<1>3. UNCHANGED orders
  BY DEF CreateCheckoutSession, CheckoutReadSub, CheckoutReadBalance, CheckoutExpireOthers,
         CheckoutCreate
<1>. QED BY <1>0, <1>1, <1>2, <1>3, HandlersKeepWallet DEF DebitInv, DebitedOnce

(* CreateOrder reads one from its session, or computes it afresh.           *)
LEMMA RequestDebits ==
  ASSUME TypeInv, DebitInv, NEW r \in Requests, CreateOrder(r)
  PROVE  DebitInv'
<1>0. r \in Handlers /\ my[r] \in Local /\ my[r].wallet <= Price /\ balance \in Nat
      /\ sess \in [Checkouts -> SessionRow] /\ SessionWallets
  BY DEF Handlers, TypeInv, TypeOK, DebitInv, HandlerWallets
<1>1. SameWallet(r)
  <2>1. CASE ReadSession(r)
    <3>1. PICK s, l :
             /\ s \in Checkouts
             /\ Load(r, l, [Blank EXCEPT !.s = s, !.status = sess[s].status,
                                         !.wallet = sess[s].wallet, !.due = sess[s].due])
      BY <2>1 DEF ReadSession
    <3>2. PICK m : m = [Blank EXCEPT !.s = s, !.status = sess[s].status,
                                     !.wallet = sess[s].wallet, !.due = sess[s].due]
      OBVIOUS
    <3>3. m.wallet = sess[s].wallet
      BY <3>2 DEF Blank
    <3>. QED BY <1>0, <3>1, <3>2, <3>3 DEF SameWallet, SessionWallets
  <2>2. CASE ReadBalance(r)
    <3>1. PICK w : w = WalletPart(balance) /\ w <= Price
      BY <1>0, WalletParts
    <3>2. PICK m1, m2 : /\ m1 = [my[r] EXCEPT !.bal = balance, !.wallet = w, !.due = Price - w]
                        /\ m2 = [my[r] EXCEPT !.bal = balance]
      OBVIOUS
    <3>3. Load(r, "refresh", m1) \/ Load(r, "intent", m2)
      BY <2>2, <3>1, <3>2 DEF ReadBalance
    <3>4. m1.wallet <= Price /\ m2.wallet <= Price
      BY <1>0, <3>1, <3>2 DEF Local
    <3>. QED BY <3>3, <3>4 DEF SameWallet
  <2>3. CASE ReadIntent(r)
    <3>1. CASE Leave(r) \/ Goto(r, "guard")
      BY <1>0, <3>1, LeaveKeepsWallet, GotoKeepsWallet
    <3>2. ASSUME NEW t, NEW l, NEW m, Load(r, l, m),
                 m = [my[r] EXCEPT !.t = t, !.seen = tx[t].status,
                                   !.gid = tx[t].gid, !.stale = tx[t].stale]
          PROVE  SameWallet(r)
      <4>1. m.wallet = my[r].wallet
        BY <1>0, <3>2 DEF Local
      <4>. QED BY <1>0, <3>2, <4>1 DEF SameWallet
    <3>. QED BY <2>3, <3>1, <3>2 DEF ReadIntent
  <2>4. CASE CreateTransaction(r) \/ SettleByWallet(r) \/ MarkPaid(r)
    BY <1>0, <2>4 DEF CreateTransaction, SettleByWallet, MarkPaid, SameWallet, Local
  <2>. QED BY <1>0, <2>1, <2>2, <2>3, <2>4, LeaveKeepsWallet, GotoKeepsWallet
           DEF CreateOrder, RefreshSession, ReadLinkedOrder, GuardSubscription, ClaimSession,
               FetchReused, Recheck, PostCharge, ReadReply, MarkUnsure
<1>2. SessionWallets'
  <2>1. CASE RefreshSession(r)
    BY <1>0, <2>1 DEF RefreshSession, SessionWallets, SessionRow
  <2>2. CASE ClaimSession(r)
    BY <1>0, <2>2 DEF ClaimSession, UpdateSession, SessionWallets, SessionRow
  <2>. QED BY <1>0, <2>1, <2>2
       DEF CreateOrder, ReadSession, ReadBalance, ReadIntent, ReadLinkedOrder, GuardSubscription,
           CreateTransaction, SettleByWallet, FetchReused, Recheck, PostCharge, ReadReply,
           MarkPaid, MarkUnsure, SessionWallets
<1>3. UNCHANGED orders
  BY DEF CreateOrder, ReadSession, ReadBalance, RefreshSession, ReadIntent, ReadLinkedOrder,
         GuardSubscription, ClaimSession, CreateTransaction, SettleByWallet, FetchReused,
         Recheck, PostCharge, ReadReply, MarkPaid, MarkUnsure
<1>. QED BY <1>0, <1>1, <1>2, <1>3, HandlersKeepWallet DEF DebitInv, DebitedOnce

(* The fulfilment debits an order only when nothing was debited for it.     *)
LEMMA FulfilDebits ==
  ASSUME TypeInv, DebitInv, NEW h \in Handlers, FulfillPaidCheckout(h)
  PROVE  DebitInv'
<1>0. /\ my[h] \in Local /\ my[h].wallet <= Price /\ sess \in [Checkouts -> SessionRow]
      /\ orders \in Seq(OrderRow) /\ SessionWallets /\ DebitedOnce
  BY DEF TypeInv, TypeOK, DebitInv, HandlerWallets
<1>1. SameWallet(h)
  <2>1. CASE LoadOrder(h)
    <3>1. ASSUME NEW i, NEW l, NEW m, Load(h, l, m),
                 m = [my[h] EXCEPT !.o = i, !.linked = orders[i].sub, !.first = orders[i].first]
          PROVE  SameWallet(h)
      <4>1. m.wallet = my[h].wallet
        BY <1>0, <3>1 DEF Local
      <4>. QED BY <1>0, <3>1, <4>1 DEF SameWallet
    <3>. QED BY <2>1, <3>1, GotoKeepsWallet DEF LoadOrder
  <2>2. CASE ReadIsNew(h) \/ InsertOrder(h) \/ CreateSubscription(h)
    <3>1. ASSUME NEW l, NEW m, Load(h, l, m), NEW x,
                 m = [my[h] EXCEPT !.first = x] \/ m = [my[h] EXCEPT !.sub = x]
          PROVE  SameWallet(h)
      <4>1. m.wallet = my[h].wallet
        BY <1>0, <3>1 DEF Local
      <4>. QED BY <1>0, <3>1, <4>1 DEF SameWallet
    <3>2. CASE ReadIsNew(h)
      BY <3>1, <3>2 DEF ReadIsNew
    <3>3. CASE InsertOrder(h)
      <4>1. PICK n : n = [my[h] EXCEPT !.o = Len(orders) + 1, !.linked = Promo(h)]
        OBVIOUS
      <4>2. Load(h, WithOrder(h), n)
        BY <3>3, <4>1 DEF InsertOrder
      <4>3. n.wallet = my[h].wallet
        BY <1>0, <4>1 DEF Local
      <4>. QED BY <1>0, <4>2, <4>3 DEF SameWallet
    <3>4. CASE CreateSubscription(h)
      BY <3>1, <3>4 DEF CreateSubscription
    <3>. QED BY <2>2, <3>2, <3>3, <3>4
  <2>3. CASE RelinkSubscription(h) \/ ReadLive(h)
    <3>1. ASSUME NEW l, NEW x, Load(h, l, [my[h] EXCEPT !.sub = x]) PROVE SameWallet(h)
      BY <1>0, <3>1 DEF SameWallet, Local
    <3>. QED BY <2>3, <3>1, GotoKeepsWallet DEF RelinkSubscription, ReadLive
  <2>. QED BY <2>1, <2>2, <2>3, GotoKeepsWallet, LeaveKeepsWallet
           DEF FulfillPaidCheckout, BeginFulfilment, LostFulfilment, CheckCover, PromoteDays,
               PromotePlan, PromoteOrder, ConfirmSession, DebitWallet, WriteDays, WriteEndDate,
               LinkOrder, ReadReferred, CreditReferrer, CreateReferral, MarkSuccess,
               BodyThrows, Catch
<1>2. SessionWallets'
  <2>1. CASE ConfirmSession(h)
    BY <1>0, <2>1 DEF ConfirmSession, UpdateSession, SessionWallets, SessionRow
  <2>. QED BY <1>0, <2>1
       DEF FulfillPaidCheckout, BeginFulfilment, LostFulfilment, LoadOrder, CheckCover, ReadIsNew,
           InsertOrder, PromoteDays, PromotePlan, PromoteOrder, DebitWallet,
           RelinkSubscription, ReadLive, CreateSubscription, WriteDays, WriteEndDate, LinkOrder,
           ReadReferred, CreditReferrer, CreateReferral, MarkSuccess, BodyThrows, Catch,
           SessionWallets
<1>3. DebitedOnce'
  <2>1. CASE InsertOrder(h)
    <3>. DEFINE row == [tx |-> my[h].t, gid |-> my[h].gid, sub |-> Promo(h),
                        debit |-> 0, first |-> my[h].first]
    <3>1. orders' = Append(orders, row) /\ row.debit = 0
      BY <2>1 DEF InsertOrder
    <3>. HIDE DEF row
    <3>. QED BY <1>0, <3>1, BlankWallet DEF DebitedOnce
  <2>2. ASSUME orders' = [orders EXCEPT ![my[h].o].debit = @ + my[h].wallet],
               ~Debited(my[h].o)
        PROVE  DebitedOnce'
    <3>. DEFINE i == my[h].o
                e == [orders[i] EXCEPT !.debit = @ + my[h].wallet]
    <3>1. orders' = [orders EXCEPT ![i] = e]
      BY <2>2
    <3>2. i \in DOMAIN orders => e.debit <= Price
      <4>1. i \in DOMAIN orders => orders[i] \in OrderRow
        BY <1>0
      <4>. QED BY <1>0, <2>2, <4>1 DEF Debited, OrderRow, Local
    <3>. HIDE DEF i, e
    <3>. QED BY <1>0, <3>1, <3>2 DEF DebitedOnce
  <2>3. CASE LinkOrder(h)
    <3>. DEFINE i == my[h].o
                e == [orders[i] EXCEPT !.sub = my[h].sub]
    <3>1. orders' = [orders EXCEPT ![i] = e]
      BY <2>3 DEF LinkOrder
    <3>2. i \in DOMAIN orders => e.debit = orders[i].debit
      <4>1. i \in DOMAIN orders => orders[i] \in OrderRow
        BY <1>0
      <4>. QED BY <4>1 DEF OrderRow
    <3>. HIDE DEF i, e
    <3>. QED BY <1>0, <3>1, <3>2 DEF DebitedOnce
  <2>4. CASE UNCHANGED orders
    BY <1>0, <2>4 DEF DebitedOnce
  <2>. QED BY <2>1, <2>2, <2>3, <2>4
       DEF FulfillPaidCheckout, BeginFulfilment, LostFulfilment, LoadOrder, CheckCover, ReadIsNew,
           PromoteDays, PromotePlan, PromoteOrder, ConfirmSession, DebitWallet,
           RelinkSubscription, ReadLive, CreateSubscription, WriteDays, WriteEndDate,
           ReadReferred, CreditReferrer, CreateReferral, MarkSuccess, BodyThrows, Catch
<1>. QED BY <1>1, <1>2, <1>3, HandlersKeepWallet DEF DebitInv

(* Nothing else touches an order or a wallet part.                          *)
LEMMA OtherDebits ==
  ASSUME TypeInv, DebitInv, NEW h \in Handlers,
         \/ Resume(h) \/ MarkFailed(h) \/ Reopen(h)
         \/ HandleMoyasarWebhook(h) \/ SyncPendingPayments(h) \/ Crash(h)
  PROVE  DebitInv'
<1>0. /\ my[h] \in Local /\ my[h].wallet <= Price /\ sess \in [Checkouts -> SessionRow]
      /\ SessionWallets /\ Knows(h, pc[h], my[h]) /\ RowsOK
  BY DEF TypeInv, TypeOK, DebitInv, HandlerWallets
<1>1. SameWallet(h)
  <2>1. CASE Resume(h)
    <3>1. CASE Leave(h)
      BY <3>1, LeaveKeepsWallet
    <3>2. ASSUME NEW l, NEW m, Load(h, l, m),
                 m = [my[h] EXCEPT !.s = tx[my[h].t].sess,
                                   !.wallet = sess[tx[my[h].t].sess].wallet,
                                   !.due = sess[tx[my[h].t].sess].due]
          PROVE  SameWallet(h)
      <4>1. KnownSession(tx[my[h].t].sess)
        BY <1>0, <2>1 DEF Knows, Resume, At, NoRow, NoSession, Opening
      <4>2. m.wallet = sess[tx[my[h].t].sess].wallet
        BY <1>0, <3>2 DEF Local
      <4>. QED BY <1>0, <3>2, <4>1, <4>2 DEF SameWallet, SessionWallets, KnownSession
    <3>. QED BY <2>1, <3>1, <3>2 DEF Resume
  <2>2. CASE MarkFailed(h) \/ Reopen(h)
    BY <2>2, GotoKeepsWallet, LeaveKeepsWallet DEF MarkFailed, Reopen
  <2>3. CASE WebhookArrives(h)
    <3>1. ASSUME NEW t, NEW l, NEW m, Load(h, l, m),
                 m = [Blank EXCEPT !.t = t, !.s = tx[t].sess, !.seen = tx[t].status,
                                   !.gid = tx[t].gid]
          PROVE  SameWallet(h)
      <4>1. m.wallet = 0
        BY <3>1 DEF Blank
      <4>. QED BY <3>1, <4>1, BlankWallet DEF SameWallet
    <3>. QED BY <2>3, <3>1 DEF WebhookArrives
  <2>4. CASE WebhookSettles(h) \/ JobSettlesWallet(h) \/ JobSettles(h)
    <3>1. ASSUME NEW m, Load(h, "resume", m), NEW x, NEW y,
                 m = [my[h] EXCEPT !.seen = x, !.gid = y]
          PROVE  SameWallet(h)
      <4>1. m.wallet = my[h].wallet
        BY <1>0, <3>1 DEF Local
      <4>. QED BY <1>0, <3>1, <4>1 DEF SameWallet
    <3>. QED BY <2>4, <3>1 DEF WebhookSettles, JobSettlesWallet, JobSettles
  <2>5. CASE JobReadInitiated(h) \/ JobReadPaid(h) \/ JobReadFulfilling(h)
    BY <1>0, <2>5 DEF JobReadInitiated, JobReadPaid, JobReadFulfilling, JobList, SameWallet, Local
  <2>6. CASE JobTakesRow(h)
    <3>1. ASSUME NEW i, NEW l, NEW m, Load(h, l, m),
                 m = [my[h] EXCEPT !.t = i.t, !.s = tx[i.t].sess, !.seen = i.seen,
                                   !.gid = i.gid, !.todo = @ \ {i}]
          PROVE  SameWallet(h)
      <4>1. m.wallet = my[h].wallet
        BY <1>0, <3>1 DEF Local
      <4>. QED BY <1>0, <3>1, <4>1 DEF SameWallet
    <3>. QED BY <2>6, <3>1 DEF JobTakesRow
  <2>7. CASE JobEnds(h) \/ JobFetches(h)
    BY <2>7, BlankWallet, GotoKeepsWallet, LeaveKeepsWallet DEF JobEnds, JobFetches, SameWallet
  <2>8. CASE Crash(h)
    BY <2>8, BlankWallet DEF Crash, SameWallet
  <2>. QED BY <2>1, <2>2, <2>3, <2>4, <2>5, <2>6, <2>7, <2>8
           DEF HandleMoyasarWebhook, SyncPendingPayments
<1>2. SessionWallets'
  <2>1. CASE Reopen(h)
    BY <1>0, <2>1 DEF Reopen, UpdateSession, SessionWallets, SessionRow
  <2>. QED BY <1>0, <2>1
       DEF Resume, MarkFailed, HandleMoyasarWebhook, WebhookArrives, WebhookSettles,
           SyncPendingPayments, JobReadInitiated, JobReadPaid, JobReadFulfilling, JobList,
           JobTakesRow, JobEnds, JobSettlesWallet, JobFetches, JobSettles, Crash, SessionWallets
<1>3. UNCHANGED orders
  BY DEF Resume, MarkFailed, Reopen, HandleMoyasarWebhook, WebhookArrives, WebhookSettles,
         SyncPendingPayments, JobReadInitiated, JobReadPaid, JobReadFulfilling, JobList,
         JobTakesRow, JobEnds, JobSettlesWallet, JobFetches, JobSettles, Crash
<1>. QED BY <1>1, <1>2, <1>3, HandlersKeepWallet DEF DebitInv, DebitedOnce

(* At first nothing is debited.                                             *)
LEMMA InitDebits == Init => DebitInv
<1>. SUFFICES ASSUME Init PROVE DebitInv
  OBVIOUS
<1>1. SessionWallets /\ HandlerWallets
  BY BlankWallet DEF Init, SessionWallets, HandlerWallets
<1>2. DebitedOnce
  <2>1. orders = << >> \/ orders = <<OldOrder>>
    BY DEF Init
  <2>2. OldOrder.debit = 0
    BY DEF OldOrder
  <2>. QED BY <2>1, <2>2, BlankWallet DEF DebitedOnce
<1>. QED BY <1>1, <1>2 DEF DebitInv

(* Every step keeps DebitInv.                                               *)
LEMMA DebitStep == TypeInv /\ DebitInv /\ [Next]_vars => DebitInv'
<1>. SUFFICES ASSUME TypeInv, DebitInv, [Next]_vars PROVE DebitInv'
  OBVIOUS
<1>1. CASE Environment
  <2>1. ASSUME NEW h \in Handlers, Crash(h) PROVE DebitInv'
    BY <2>1, OtherDebits
  <2>2. CASE \E s \in Checkouts : TenMinutesPass(s)
    BY <2>2 DEF TenMinutesPass, DebitInv, SessionWallets, HandlerWallets, DebitedOnce,
                TypeInv, TypeOK, SessionRow
  <2>3. CASE TopUp \/ Moyasar \/ \E t \in Requests : TwoMinutesPass(t)
    BY <2>3 DEF TopUp, Moyasar, TwoMinutesPass, DebitInv, SessionWallets, HandlerWallets,
                DebitedOnce
  <2>. QED BY <1>1, <2>1, <2>2, <2>3 DEF Environment
<1>2. ASSUME NEW h \in Handlers, Step(h) PROVE DebitInv'
  BY <1>2, FulfilDebits, OtherDebits, CheckoutDebits, RequestDebits DEF Step
<1>3. CASE UNCHANGED vars
  BY <1>3 DEF vars, DebitInv, SessionWallets, HandlerWallets, DebitedOnce
<1>. QED BY <1>1, <1>2, <1>3 DEF Next

(* However many fulfilments of one order race, and however often each is    *)
(* started again, its wallet part is taken at most once.                   *)
THEOREM WalletIsDebitedOnce == Spec => []DebitedOnce
<1>1. DebitInv => DebitedOnce
  BY DEF DebitInv
<1>. QED BY <1>1, InitTyped, InitDebits, TypeStep, DebitStep, PTL DEF Spec
===============================================================================

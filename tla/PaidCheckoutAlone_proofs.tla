----------------------- MODULE PaidCheckoutAlone_proofs -----------------------
(***************************************************************************)
(* What holds of PaidCheckout as long as no two handlers are under way at   *)
(* once (Overlap = FALSE), for every number of checkouts, requests,         *)
(* webhooks, jobs, crashes, failed statements and lost replies: what a      *)
(* handler left behind half done is found by a later one, and Moyasar may   *)
(* settle a charge at any time.                                             *)
(*                                                                         *)
(* With nobody else under way, what a handler has read of its session and   *)
(* its row is still so when it writes (Sees).  The tables themselves keep   *)
(* the promises of Tables: a checkout has one row that is not given up, an  *)
(* order only rows that are paid for, a debit only a confirmed session.     *)
(* Some hold only if no credit reaches the wallet (MaxTopUps = 0): then a   *)
(* session's split into wallet and card never changes (SplitIsFixed).       *)
(***************************************************************************)
EXTENDS PaidCheckoutOrders_proofs, CheckoutSales, FiniteSetTheorems

Alone == \A g, h \in Handlers : Running(g) /\ Running(h) => g = h

-------------------------------------------------------------------------------
(* The tables                                                              *)
OpenRow(t) == tx[t].status \notin {"none", "FAILED"}
GivenUp(t) == pay[t] = "failed" \/ (pay[t] = "none" /\ ~Outstanding(t))
DueOf(t) == sess[tx[t].sess].due
PaidFor(t, g) == g = "card" => Paid(t) \/ tx[t].amount = 0

OneOpenRow ==
    \A t, u \in Requests : OpenRow(t) /\ OpenRow(u) /\ tx[t].sess = tx[u].sess => t = u

RowsInv ==
    \A t \in Requests : IF tx[t].status = "none" THEN tx[t].sess = None ELSE
        /\ tx[t].status = "FAILED" => GivenUp(t)
        /\ tx[t].status \in PaidStatus => tx[t].gid # "none" /\ PaidFor(t, tx[t].gid)
        /\ tx[t].gid = "wallet" => DueOf(t) = 0
        /\ tx[t].amount >= DueOf(t)

ChargesInv ==
    /\ \A t \in Requests : pay[t] # "none" => charged[t] > 0 /\ charged[t] >= DueOf(t)
    /\ \A p \in posts : p.amount > 0 /\ p.amount >= DueOf(p.key)

SplitsInv ==
    \A s \in Checkouts : sess[s].status # "none" => sess[s].wallet + sess[s].due = Price

(* Is there an order of that key, and is it linked to a plan?               *)
HasOrder(t, g) == \E i \in DOMAIN orders : orders[i].tx = t /\ orders[i].gid = g
Done(t, g) == \E i \in DOMAIN orders : orders[i].tx = t /\ orders[i].gid = g /\ orders[i].sub # 0

KeysInv ==
    /\ \A i \in DOMAIN orders : orders[i].tx = None => orders[i].gid = "none"
    /\ \A i, k \in DOMAIN orders :
          orders[i].tx # None /\ orders[i].tx = orders[k].tx /\ orders[i].gid = orders[k].gid
              => i = k

OrdersInv ==
    \A i \in DOMAIN orders : orders[i].tx # None =>
        LET t == orders[i].tx
            row == sess[tx[t].sess]
        IN  /\ tx[t].status \in PaidStatus
            /\ orders[i].gid # "none" /\ PaidFor(t, orders[i].gid)
            /\ orders[i].debit > 0 => row.status = "confirmed" /\ orders[i].debit = row.wallet
            /\ orders[i].sub # 0 /\ row.promo = 0 =>
                   row.status = "confirmed" /\ orders[i].debit = row.wallet

SuccessIsDone == \A t \in Requests : tx[t].status = "SUCCESS" => Done(t, tx[t].gid)

(* Without credits the part the card pays never changes, and whether there  *)
(* is one decides which id a paid row carries.                              *)
SplitIsFixed ==
    /\ \A s \in Checkouts : sess[s].status # "none" => WalletPart(balance) <= sess[s].wallet
    /\ \A t \in Requests : tx[t].status # "none" =>
           /\ tx[t].amount = DueOf(t)
           /\ tx[t].gid = "card" => DueOf(t) > 0
           /\ pay[t] # "none" => charged[t] = DueOf(t)
    /\ \A p \in posts : p.amount = DueOf(p.key)
    /\ \A i \in DOMAIN orders : orders[i].tx # None =>
           orders[i].gid = IF DueOf(orders[i].tx) > 0 THEN "card" ELSE "wallet"

Tables ==
    /\ OneOpenRow /\ RowsInv /\ ChargesInv /\ SplitsInv
    /\ KeysInv /\ OrdersInv /\ SuccessIsDone /\ OneSubscription
    /\ MaxTopUps = 0 => SplitIsFixed

-------------------------------------------------------------------------------
(* What a handler has read and relies on                                   *)
NoneOpen(s) == \A t \in Requests : tx[t].sess = s => tx[t].status = "FAILED"
Unpaid(s) == \A t \in Requests : tx[t].sess = s => tx[t].status \in {"FAILED", "INITIATED"}

OfSession == {"balance", "refresh", "intent"}
OfIntent == {"linked_order", "guard", "claim"}
Unsettled == {"wallet_settle", "fetch", "recheck", "post", "reply", "settle", "fail", "unsure",
              "job_wallet", "job_fetch", "job_settle"}
OnCard == {"fetch", "recheck", "post", "reply", "settle", "unsure"}
Fulfilling == Body \cup {"catch", "lost", "lost_success"}
Splitting == {"balance", "intent", "insert", "wallet_settle", "fetch", "recheck", "post", "reply",
              "settle", "cas"} \cup OfIntent \cup Fulfilling
AfterDebitAt == LinkedAt \cup {"relink", "live", "create_sub", "days", "end_date", "link"}

SeesSession(l, m) ==
    /\ l \in OfSession => sess[m.s].status = m.status
    /\ l \in {"balance", "refresh"} => m.status = "active"
    /\ l \in Splitting => m.wallet = sess[m.s].wallet /\ m.due = sess[m.s].due
    /\ l = "refresh" => m.wallet + m.due = Price /\ m.due <= sess[m.s].due
    /\ l \in {"debit"} \cup AfterDebitAt => sess[m.s].status = "confirmed"
    /\ MaxTopUps = 0 => /\ l # "refresh"
                        /\ l \in {"c_expire", "c_create"} => balance <= m.bal

SeesRow(l, m) ==
    /\ l \in OfIntent /\ m.seen # "none" => tx[m.t].status = m.seen /\ tx[m.t].gid = m.gid
    /\ l \in {"guard", "claim"} => m.seen # "SUCCESS"
    /\ l = "linked_order" => m.seen = "SUCCESS"
    /\ l \in OfIntent => m.seen # "FAILED"
    /\ l = "insert" => m.seen = "none"
    /\ l \in {"guard", "claim", "insert"} /\ m.seen = "none" => NoneOpen(m.s)
    /\ l \in Unsettled => tx[m.t].status = "INITIATED"
    /\ l \in OnCard => m.due > 0
    /\ l = "wallet_settle" => m.due = 0
    /\ l \in {"settle", "job_settle", "hook_settle"} => Paid(m.t)
    /\ l = "fail" => GivenUp(m.t)
    /\ l = "unsure" => DueOf(m.t) > 0
    /\ l = "reopen" => Unpaid(m.s)
    /\ l = "job_wallet" => /\ tx[m.t].gid = m.gid
                           /\ tx[m.t].amount = 0 \/ m.gid = "wallet"
    /\ l \in {"hook_settle", "resume"} => tx[m.t].status = m.seen
    /\ l = "hook_settle" => m.seen \in {"INITIATED", "PAID_UNFULFILLED", "FULFILLING"}
    /\ l = "resume" => m.seen \in {"PAID_UNFULFILLED", "FULFILLING"}
    /\ l = "cas" => tx[m.t].status \in {"PAID_UNFULFILLED", "FULFILLING"}
    /\ l \in Fulfilling => tx[m.t].status = "FULFILLING"
    /\ l \in {"resume", "cas"} \cup Fulfilling => tx[m.t].gid = m.gid

SeesOrder(l, m) ==
    /\ l \in {"cover", "is_new", "create_order"} => ~HasOrder(m.t, m.gid)
    /\ l \in WithOrderAt => orders[m.o].gid = m.gid
    /\ l \in AfterDebitAt => orders[m.o].debit = sess[m.s].wallet
    /\ l = "create_sub" => Len(subs) = 0
    /\ l = "lost_success" => Done(m.t, m.gid)

(* The rows a job has still to take, as it listed them                      *)
Listing == {"idle", "done", "job_paid", "job_busy", "job_next"}
SeesList(h, l, m) ==
    /\ h \notin Jobs \/ l \in {"idle", "done"} => m.todo = {}
    /\ l \in Listing => m.t = None
    /\ \A i \in m.todo :
          /\ i.t # m.t
          /\ i.seen = tx[i.t].status /\ i.gid = tx[i.t].gid
          /\ i.seen \in {"INITIATED", "PAID_UNFULFILLED", "FULFILLING"}
          /\ i.walletOnly <=> tx[i.t].amount = 0 \/ i.gid = "wallet"

Acts(l, m) == SeesSession(l, m) /\ SeesRow(l, m) /\ SeesOrder(l, m)
Sees(h, l, m) == Acts(l, m) /\ SeesList(h, l, m)

AloneInv == Alone /\ Tables /\ \A h \in Handlers : Sees(h, pc[h], my[h])

-------------------------------------------------------------------------------
(* Who acts, and what it takes to keep the invariant                       *)
OnlyOne(h) == \A g \in Handlers \ {h} : ~Running(g)

(* A finished payment is not opened again by this step.                     *)
SuccessStays ==
    \A t \in Requests : tx[t].status = "SUCCESS" => tx'[t].status = "SUCCESS"

(* A handler that acts is the one under way, or starts when none is.        *)
LEMMA OneActs ==
  ASSUME Alone, ~Overlap, NEW h \in Handlers, Step(h)
  PROVE  OnlyOne(h)
<1>1. Running(h) \/ MayStart
  <2>1. CASE h \in Checkouts /\ CreateCheckoutSession(h)
    BY <2>1 DEF CreateCheckoutSession, CheckoutReadSub, CheckoutReadBalance, CheckoutExpireOthers,
                CheckoutCreate, At, Running
  <2>2. CASE h \in Requests /\ CreateOrder(h)
    BY <2>2 DEF CreateOrder, ReadSession, ReadBalance, RefreshSession, ReadIntent, ReadLinkedOrder,
                GuardSubscription, ClaimSession, CreateTransaction, SettleByWallet, FetchReused,
                Recheck, PostCharge, ReadReply, MarkPaid, MarkUnsure, At, Running
  <2>3. CASE h \in Hooks /\ HandleMoyasarWebhook(h)
    BY <2>3 DEF HandleMoyasarWebhook, WebhookArrives, WebhookSettles, At, Running
  <2>4. CASE h \in Jobs /\ SyncPendingPayments(h)
    BY <2>4 DEF SyncPendingPayments, JobReadInitiated, JobReadPaid, JobReadFulfilling, JobList,
                JobTakesRow, JobEnds, JobSettlesWallet, JobFetches, JobSettles, At, Running
  <2>5. CASE Resume(h) \/ MarkFailed(h) \/ Reopen(h)
    BY <2>5 DEF Resume, MarkFailed, Reopen, At, Running
  <2>6. CASE FulfillPaidCheckout(h)
    BY <2>6 DEF FulfillPaidCheckout, BeginFulfilment, LostFulfilment, LoadOrder, CheckCover,
                ReadIsNew, InsertOrder, PromoteDays, PromotePlan, PromoteOrder, ConfirmSession,
                DebitWallet, RelinkSubscription, ReadLive, CreateSubscription, WriteDays,
                WriteEndDate, LinkOrder, ReadReferred, CreditReferrer, CreateReferral, MarkSuccess,
                BodyThrows, Catch, Body, At, Running
  <2>. QED BY <2>1, <2>2, <2>3, <2>4, <2>5, <2>6 DEF Step
<1>. QED BY <1>1 DEF OnlyOne, Alone, MayStart

(* The others rest; it is left to show what h sees, and the tables.         *)
LEMMA AloneStepOf ==
  ASSUME TypeInv, AloneInv, NEW h \in Handlers, OnlyOne(h), NEW l, NEW m,
         Load(h, l, m), Tables', Sees(h, l, m)'
  PROVE  AloneInv'
<1>1. /\ pc' = [pc EXCEPT ![h] = l] /\ my' = [my EXCEPT ![h] = m]
      /\ pc \in [Handlers -> PC] /\ my \in [Handlers -> Local]
  BY DEF Load, TypeInv, TypeOK
<1>2. Alone'
  BY <1>1 DEF OnlyOne, Alone, Running
<1>3. ASSUME NEW g \in Handlers PROVE Sees(g, pc[g], my[g])'
  <2>1. CASE g = h
    <3>1. pc'[g] = l /\ my'[g] = m
      BY <1>1, <2>1
    <3>. QED BY <3>1, <2>1 DEF Sees, Acts, SeesSession, SeesRow, SeesOrder, SeesList, DueOf, Paid,
                               GivenUp, Outstanding, HasOrder, Done, NoneOpen, Unpaid
  <2>2. CASE g # h
    <3>1. pc'[g] = pc[g] /\ my'[g] = my[g]
      BY <1>1, <2>2
    <3>2. pc[g] \in {"idle", "done"}
      BY <2>2 DEF OnlyOne, Running
    <3>3. SeesList(g, pc[g], my[g])
      BY DEF AloneInv, Sees
    <3>4. my[g].todo = {} /\ my[g].t = None
      BY <3>2, <3>3 DEF SeesList, Listing
    <3>5. SeesList(g, pc[g], my[g])'
      BY <3>1, <3>4 DEF SeesList
    <3>6. Acts(pc[g], my[g])'
      BY <3>1, <3>2 DEF Acts, SeesSession, SeesRow, SeesOrder, OfSession, OfIntent, Unsettled, OnCard,
                        Fulfilling, Splitting, AfterDebitAt, LinkedAt, WithOrderAt, Body
    <3>. QED BY <3>5, <3>6 DEF Sees
  <2>. QED BY <2>1, <2>2
<1>. QED BY <1>2, <1>3 DEF AloneInv

(* What a handler h at await l has read and knows.                          *)
LEMMA Here ==
  ASSUME TypeInv, ServeInv, AloneInv, NEW h \in Handlers, NEW l, pc[h] = l
  PROVE  \E m \in Local : /\ m = my[h] /\ Knows(h, l, m) /\ Serves(h, l, m)
                          /\ Acts(l, m) /\ SeesList(h, l, m)
BY DEF TypeInv, TypeOK, ServeInv, AloneInv, Sees

(* The list of a job stays right while only its own row is written.         *)
LEMMA ListStays ==
  ASSUME NEW h, NEW k, NEW n \in Local, SeesList(h, k, n), NEW l, NEW m,
         m.todo = n.todo, m.t \in {n.t, None} \/ h \notin Jobs,
         l \in Listing => m.t = None,
         l \in {"idle", "done"} => h \notin Jobs,
         h \in Jobs => \A u \in Requests \ {n.t} :
             tx'[u].status = tx[u].status /\ tx'[u].gid = tx[u].gid /\ tx'[u].amount = tx[u].amount
  PROVE  SeesList(h, l, m)'
<1>1. \A i \in n.todo : i.t \in Requests /\ i.t # None
  BY CheckoutAssumption DEF Local, Item
<1>2. CASE h \notin Jobs
  BY <1>2 DEF SeesList
<1>3. CASE h \in Jobs
  BY <1>1, <1>3 DEF SeesList
<1>. QED BY <1>2, <1>3

(* At these awaits a handler sees nothing but its list.                     *)
LEMMA NothingSeen ==
  ASSUME NEW l \in Listing \cup {"c_balance"}, NEW m
  PROVE  Acts(l, m) /\ Acts(l, m)'
BY DEF Listing, Acts, SeesSession, SeesRow, SeesOrder, OfSession, OfIntent, Unsettled, OnCard,
       Fulfilling, Splitting, AfterDebitAt, LinkedAt, WithOrderAt, Body

(* A handler that returns forgets what it has read, but for its list.       *)
LEMMA LeaveForgets ==
  ASSUME TypeInv, NEW h \in Handlers, NEW k, NEW n, n = my[h], SeesList(h, k, n), Leave(h)
  PROVE  \E l, m : /\ Load(h, l, m) /\ l \in Listing \ {"idle"}
                   /\ m.t = None /\ m.todo = n.todo
                   /\ l = "done" => h \notin Jobs
<1>. DEFINE l == IF h \in Jobs THEN "job_next" ELSE "done"
            m == [Blank EXCEPT !.todo = my[h].todo]
<1>1. Load(h, l, m)
  BY DEF Leave
<1>2. m.t = None /\ m.todo = n.todo
  BY DEF Blank
<1>3. l \in Listing \ {"idle"} /\ (l = "done" => h \notin Jobs)
  BY DEF Listing
<1>. QED BY <1>1, <1>2, <1>3

-------------------------------------------------------------------------------
(* The tables after a step                                                 *)

(* Orders are typed rows.                                                   *)
LEMMA OrdersTyped ==
  ASSUME TypeInv
  PROVE  \A i \in DOMAIN orders : orders[i] \in OrderRow /\ orders[i].tx \in Requests \cup {None}
<1>1. orders \in Seq(OrderRow)
  BY DEF TypeInv, TypeOK
<1>2. \A i \in DOMAIN orders : orders[i] \in OrderRow
  BY <1>1
<1>. QED BY <1>2 DEF OrderRow

(* Rows, orders and charges stay; the status of a session may change, but a *)
(* confirmed one is left only while nothing is paid; credits are excluded   *)
(* where they matter.                                                       *)
LEMMA StatusesMayChange ==
  ASSUME TypeInv, Tables, UNCHANGED <<gateway, orders>>, OneSubscription',
         MaxTopUps = 0 => balance' \in Nat /\ balance' <= balance,
         \A t \in Requests : /\ tx'[t].status = tx[t].status /\ tx'[t].sess = tx[t].sess
                             /\ tx'[t].gid = tx[t].gid /\ tx'[t].amount = tx[t].amount,
         \A s \in Checkouts : /\ sess'[s].wallet = sess[s].wallet /\ sess'[s].due = sess[s].due
                              /\ sess'[s].promo = sess[s].promo
                              /\ sess'[s].status = "none" <=> sess[s].status = "none"
                              /\ sess[s].status = "confirmed" =>
                                     sess'[s].status = "confirmed" \/ Unpaid(s)
  PROVE  Tables'
<1>0. UNCHANGED <<pay, posts, charged, orders>>
  BY DEF gateway
<1>1. \A t \in Requests : tx[t].status # "none" => tx[t].sess \in Checkouts /\ DueOf(t)' = DueOf(t)
  BY DEF TypeInv, RowsOK, KnownSession, DueOf
<1>2. \A t \in Requests : Paid(t)' = Paid(t) /\ GivenUp(t)' = GivenUp(t)
  BY <1>0 DEF Paid, GivenUp, Outstanding
<1>3. \A i \in DOMAIN orders : orders[i].tx \in Requests \cup {None}
  BY OrdersTyped
<1>4. OneOpenRow' /\ RowsInv'
  BY <1>1, <1>2 DEF Tables, OneOpenRow, OpenRow, RowsInv, PaidFor
<1>5. ChargesInv'
  BY <1>0, <1>1 DEF Tables, ChargesInv, TypeInv, TypeOK, GatewayTypeOK, PaymentsOK
<1>6. SplitsInv' /\ KeysInv' /\ SuccessIsDone'
  BY <1>0 DEF Tables, SplitsInv, KeysInv, SuccessIsDone, Done
<1>7. OrdersInv'
  <2>. SUFFICES ASSUME NEW i \in DOMAIN orders, orders[i].tx # None
                PROVE  LET t == orders[i].tx
                           row == sess'[tx'[t].sess]
                       IN  /\ tx'[t].status \in PaidStatus
                           /\ orders[i].gid # "none" /\ PaidFor(t, orders[i].gid)'
                           /\ orders[i].debit > 0 => row.status = "confirmed" /\ orders[i].debit = row.wallet
                           /\ orders[i].sub # 0 /\ row.promo = 0 =>
                                  row.status = "confirmed" /\ orders[i].debit = row.wallet
    BY <1>0 DEF OrdersInv, PaidFor, Paid
  <2>1. PICK t \in Requests : t = orders[i].tx
    BY <1>3
  <2>2. tx[t].status \in PaidStatus
    BY <2>1 DEF Tables, OrdersInv
  <2>3. PICK s \in Checkouts : s = tx[t].sess
    BY <1>1, <2>2 DEF PaidStatus
  <2>4. ~Unpaid(s)
    BY <2>2, <2>3 DEF Unpaid, PaidStatus
  <2>5. /\ PaidFor(t, orders[i].gid) /\ orders[i].gid # "none"
        /\ orders[i].debit > 0 => sess[s].status = "confirmed" /\ orders[i].debit = sess[s].wallet
        /\ orders[i].sub # 0 /\ sess[s].promo = 0 =>
               sess[s].status = "confirmed" /\ orders[i].debit = sess[s].wallet
    BY <2>1, <2>3 DEF Tables, OrdersInv
  <2>6. PaidFor(t, orders[i].gid)'
    BY <2>5, <1>0, <1>2 DEF PaidFor
  <2>. QED BY <2>1, <2>2, <2>3, <2>4, <2>5, <2>6
<1>8. ASSUME MaxTopUps = 0 PROVE SplitIsFixed'
  <2>1. SplitIsFixed
    BY <1>8 DEF Tables
  <2>2. \A s \in Checkouts : sess'[s].status # "none" => WalletPart(balance)' <= sess'[s].wallet
    BY <1>8, <2>1, CheckoutAssumption
       DEF SplitIsFixed, WalletPart, Least, TypeInv, TypeOK, SessionRow
  <2>3. \A i \in DOMAIN orders : orders[i].tx # None =>
            orders[i].tx \in Requests /\ tx[orders[i].tx].status # "none"
    BY <1>3 DEF Tables, OrdersInv, PaidStatus
  <2>4. \A t \in Requests : tx'[t].status # "none" =>
            /\ tx'[t].amount = DueOf(t)'
            /\ tx'[t].gid = "card" => DueOf(t)' > 0
            /\ pay'[t] # "none" => charged'[t] = DueOf(t)'
    BY <1>0, <1>1, <2>1 DEF SplitIsFixed
  <2>5. \A p \in posts : p.key \in Requests /\ tx[p.key].status # "none"
    BY DEF TypeInv, TypeOK, GatewayTypeOK, PaymentsOK
  <2>6. \A p \in posts' : p.amount = DueOf(p.key)'
    BY <1>0, <1>1, <2>1, <2>5 DEF SplitIsFixed
  <2>7. \A i \in DOMAIN orders' : orders'[i].tx # None =>
            orders'[i].gid = IF DueOf(orders[i].tx)' > 0 THEN "card" ELSE "wallet"
    BY <1>0, <1>1, <2>1, <2>3 DEF SplitIsFixed
  <2>. QED BY <2>2, <2>4, <2>6, <2>7 DEF SplitIsFixed, DueOf
<1>. QED BY <1>4, <1>5, <1>6, <1>7, <1>8 DEF Tables

(* A handler writes the row t, which is not given up and not finished.      *)
LEMMA RowMayChange ==
  ASSUME TypeInv, Tables, NEW t, KnownRow(t), NEW st \in TxStatus \ {"none"}, NEW g \in Gid,
         UpdateTx(t, st, g), UNCHANGED <<gateway, sess, orders, subs, balance>>,
         tx[t].status \in {"INITIATED", "PAID_UNFULFILLED", "FULFILLING"},
         st \in {"FAILED", "INITIATED"} => tx[t].status = "INITIATED",
         st = "FAILED" => GivenUp(t),
         st \in PaidStatus => g # "none" /\ PaidFor(t, g),
         st = "SUCCESS" => Done(t, g),
         g = "wallet" => DueOf(t) = 0,
         MaxTopUps = 0 /\ g = "card" => DueOf(t) > 0
  PROVE  Tables' /\ SuccessStays
<1>0. UNCHANGED <<pay, posts, charged, sess, orders, subs, balance>> /\ t \in Requests
  BY DEF gateway, KnownRow
<1>1. \A u \in Requests :
         /\ tx'[u].sess = tx[u].sess /\ tx'[u].amount = tx[u].amount
         /\ tx'[u].status = (IF u = t THEN st ELSE tx[u].status)
         /\ tx'[u].gid = (IF u = t THEN g ELSE tx[u].gid)
  BY <1>0 DEF UpdateTx, TypeInv, TypeOK, TxRow
<1>2. \A u \in Requests : DueOf(u)' = DueOf(u)
  BY <1>0, <1>1 DEF DueOf
<1>3. \A u \in Requests : Paid(u)' = Paid(u) /\ GivenUp(u)' = GivenUp(u)
  BY <1>0 DEF Paid, GivenUp, Outstanding
<1>4. \A i \in DOMAIN orders : orders[i].tx \in Requests \cup {None}
  BY OrdersTyped
<1>5. OneOpenRow'
  BY <1>1 DEF Tables, OneOpenRow, OpenRow
<1>6. RowsInv'
  <2>. SUFFICES ASSUME NEW u \in Requests
                PROVE  IF tx'[u].status = "none" THEN tx'[u].sess = None ELSE
                         /\ tx'[u].status = "FAILED" => GivenUp(u)
                         /\ tx'[u].status \in PaidStatus => tx'[u].gid # "none" /\ PaidFor(u, tx'[u].gid)
                         /\ tx'[u].gid = "wallet" => DueOf(u) = 0
                         /\ tx'[u].amount >= DueOf(u)
    BY <1>1, <1>2, <1>3 DEF RowsInv, PaidFor
  <2>1. RowsInv
    BY DEF Tables
  <2>2. CASE u = t
    BY <1>1, <2>1, <2>2 DEF RowsInv
  <2>3. CASE u # t
    BY <1>1, <2>1, <2>3 DEF RowsInv
  <2>. QED BY <2>2, <2>3
<1>7. ChargesInv'
  BY <1>0, <1>2 DEF Tables, ChargesInv, TypeInv, TypeOK, GatewayTypeOK
<1>8. SplitsInv' /\ KeysInv' /\ OneSubscription'
  BY <1>0 DEF Tables, SplitsInv, KeysInv, OneSubscription
<1>9. SuccessIsDone'
  BY <1>0, <1>1 DEF Tables, SuccessIsDone, Done
<1>10. OrdersInv'
  <2>. SUFFICES ASSUME NEW i \in DOMAIN orders, orders[i].tx # None
                PROVE  /\ tx'[orders[i].tx].status \in PaidStatus
                       /\ tx'[orders[i].tx].sess = tx[orders[i].tx].sess
                       /\ tx'[orders[i].tx].amount = tx[orders[i].tx].amount
    BY <1>0 DEF Tables, OrdersInv, PaidFor, Paid
  <2>1. orders[i].tx \in Requests /\ tx[orders[i].tx].status \in PaidStatus
    BY <1>4 DEF Tables, OrdersInv
  <2>2. tx[t].status \in PaidStatus => st \in PaidStatus
    BY DEF PaidStatus, TxStatus
  <2>. QED BY <1>1, <2>1, <2>2
<1>11. ASSUME MaxTopUps = 0 PROVE SplitIsFixed'
  <2>1. SplitIsFixed
    BY <1>11 DEF Tables
  <2>2. WalletPart(balance)' = WalletPart(balance)
    BY <1>0 DEF WalletPart
  <2>3. \A u \in Requests : tx'[u].status # "none" => tx[u].status # "none"
    BY <1>0, <1>1
  <2>4. \A u \in Requests : tx'[u].status # "none" =>
            /\ tx'[u].amount = DueOf(u)
            /\ tx'[u].gid = "card" => DueOf(u) > 0
            /\ pay[u] # "none" => charged[u] = DueOf(u)
    <3>. TAKE u \in Requests
    <3>. HAVE tx'[u].status # "none"
    <3>1. /\ tx[u].amount = DueOf(u)
          /\ tx[u].gid = "card" => DueOf(u) > 0
          /\ pay[u] # "none" => charged[u] = DueOf(u)
      BY <2>1, <2>3 DEF SplitIsFixed
    <3>. QED BY <1>1, <1>11, <3>1
  <2>. QED BY <1>0, <1>2, <1>4, <2>1, <2>2, <2>4
           DEF SplitIsFixed, TypeInv, TypeOK, GatewayTypeOK
<1>12. SuccessStays
  BY <1>1 DEF SuccessStays
<1>. QED BY <1>5, <1>6, <1>7, <1>8, <1>9, <1>10, <1>11, <1>12 DEF Tables

-------------------------------------------------------------------------------
(* The step of a handler that reads, and writes at most a plan.             *)
LEMMA ReadAlone ==
  ASSUME TypeInv, AloneInv, NEW h \in Handlers, OnlyOne(h), NEW l, NEW m,
         Load(h, l, m), Acts(l, m), SeesList(h, l, m),
         UNCHANGED <<gateway, sess, tx, orders, balance>>,
         Len(subs') <= 1, UNCHANGED subs \/ l # "create_sub"
  PROVE  AloneInv' /\ SuccessStays
<1>0. UNCHANGED <<pay, posts, charged, sess, tx, orders, balance>>
  BY DEF gateway
<1>1. Tables'
  <2>1. balance' \in Nat /\ balance' <= balance
    BY <1>0 DEF TypeInv, TypeOK
  <2>2. OneSubscription'
    BY DEF OneSubscription
  <2>. QED BY <1>0, <2>1, <2>2, StatusesMayChange DEF AloneInv
<1>2. Acts(l, m)' /\ SeesList(h, l, m)'
  BY <1>0 DEF Acts, SeesSession, SeesRow, SeesOrder, SeesList, DueOf, Paid, GivenUp, Outstanding,
              HasOrder, Done, NoneOpen, Unpaid
<1>3. SuccessStays
  BY <1>0 DEF SuccessStays
<1>. QED BY <1>1, <1>2, <1>3, AloneStepOf DEF Sees

(* ... and one of a handler that touches no table at all.                   *)
LEMMA QuietAlone ==
  ASSUME TypeInv, AloneInv, NEW h \in Handlers, OnlyOne(h), NEW l, NEW m,
         Load(h, l, m), Acts(l, m), SeesList(h, l, m),
         UNCHANGED <<gateway, sess, store, orders, subs, ledger>>
  PROVE  AloneInv' /\ SuccessStays
<1>1. Len(subs') <= 1
  BY DEF AloneInv, Tables, OneSubscription
<1>. QED BY <1>1, ReadAlone DEF store, ledger

(* The step of a handler that returns, having written nothing but its row.  *)
LEMMA LeaveAlone ==
  ASSUME TypeInv, AloneInv, NEW h \in Handlers, OnlyOne(h), Leave(h), Tables',
         h \in Jobs => \A u \in Requests \ {my[h].t} :
             tx'[u].status = tx[u].status /\ tx'[u].gid = tx[u].gid /\ tx'[u].amount = tx[u].amount
  PROVE  AloneInv'
<1>1. PICK k \in PC, n \in Local : k = pc[h] /\ n = my[h] /\ SeesList(h, k, n)
  BY DEF AloneInv, Sees, TypeInv, TypeOK
<1>2. PICK l, m : /\ Load(h, l, m) /\ l \in Listing \ {"idle"}
                  /\ m.t = None /\ m.todo = n.todo
                  /\ l = "done" => h \notin Jobs
  BY <1>1, LeaveForgets
<1>3. SeesList(h, l, m)'
  BY <1>1, <1>2, ListStays
<1>4. Acts(l, m)'
  BY <1>2, NothingSeen
<1>. QED BY <1>2, <1>3, <1>4, AloneStepOf DEF Sees

(* A handler that returns, or that has nothing to do, changes no row.  No   *)
(* credit can reach the wallet with it.                                     *)
LEMMA LeaveQuietly ==
  ASSUME TypeInv, AloneInv, NEW h \in Handlers, OnlyOne(h), Leave(h),
         UNCHANGED <<gateway, sess, store, orders, subs, ledger>>
  PROVE  AloneInv' /\ SuccessStays
<1>0. UNCHANGED <<pay, posts, charged, sess, tx, orders, subs, balance>>
  BY DEF gateway, store, ledger
<1>1. Tables'
  <2>1. balance' \in Nat /\ balance' <= balance
    BY <1>0 DEF TypeInv, TypeOK
  <2>2. OneSubscription'
    BY <1>0 DEF AloneInv, Tables, OneSubscription
  <2>. QED BY <1>0, <2>1, <2>2, StatusesMayChange DEF AloneInv, gateway
<1>2. SuccessStays
  BY <1>0 DEF SuccessStays
<1>. QED BY <1>0, <1>1, <1>2, LeaveAlone

(* An update of one row leaves the rows of a job's list alone.              *)
LEMMA RowList ==
  ASSUME TypeInv, NEW h \in Handlers, NEW k, NEW n \in Local, SeesList(h, k, n),
         NEW st, NEW g, UpdateTx(n.t, st, g),
         NEW l, NEW m, m.todo = n.todo, m.t = n.t, l \notin Listing
  PROVE  SeesList(h, l, m)'
<1>1. \A u \in Requests \ {n.t} : tx'[u] = tx[u]
  BY DEF UpdateTx, TypeInv, TypeOK
<1>. QED BY <1>1, ListStays DEF Listing

(* The awaits that rely on the status of the session they have read.        *)
SeesStatus == OfSession \cup {"debit"} \cup AfterDebitAt

(* A change to the statuses of sessions is not seen but where the status of *)
(* the session counts.                                                      *)
LEMMA StatusAlone ==
  ASSUME TypeInv, AloneInv, NEW h \in Handlers, OnlyOne(h), NEW l, NEW m,
         Load(h, l, m), Acts(l, m), SeesList(h, l, m), l \notin SeesStatus,
         l \notin Splitting \/ m.s \in Checkouts,
         UNCHANGED <<gateway, store, orders, subs, balance>>,
         \A s \in Checkouts : /\ sess'[s].wallet = sess[s].wallet /\ sess'[s].due = sess[s].due
                              /\ sess'[s].promo = sess[s].promo
                              /\ sess'[s].status = "none" <=> sess[s].status = "none"
                              /\ sess[s].status = "confirmed" =>
                                     sess'[s].status = "confirmed" \/ Unpaid(s),
         l = "unsure" => tx[m.t].sess \in Checkouts
  PROVE  AloneInv' /\ SuccessStays
<1>0. UNCHANGED <<pay, posts, charged, tx, orders, subs, balance>>
  BY DEF gateway, store
<1>1. Tables'
  <2>1. balance' \in Nat /\ balance' <= balance
    BY <1>0 DEF TypeInv, TypeOK
  <2>2. OneSubscription'
    BY <1>0 DEF AloneInv, Tables, OneSubscription
  <2>. QED BY <1>0, <2>1, <2>2, StatusesMayChange DEF AloneInv
<1>2. SeesSession(l, m)'
  BY <1>0 DEF Acts, SeesSession, SeesStatus, OfSession
<1>3. SeesRow(l, m)' /\ SeesOrder(l, m)' /\ SeesList(h, l, m)'
  <2>1. SeesRow(l, m)'
    BY <1>0 DEF Acts, SeesRow, DueOf, Paid, GivenUp, Outstanding, NoneOpen, Unpaid
  <2>2. SeesOrder(l, m)' /\ SeesList(h, l, m)'
    BY <1>0 DEF Acts, SeesOrder, SeesList, SeesStatus, HasOrder, Done
  <2>. QED BY <2>1, <2>2
<1>4. SuccessStays
  BY <1>0 DEF SuccessStays
<1>. QED BY <1>1, <1>2, <1>3, <1>4, AloneStepOf DEF Sees, Acts

-------------------------------------------------------------------------------
(* CreateCheckoutSession: the session it inserts belongs to no row yet.     *)
LEMMA NewSession ==
  ASSUME TypeInv, TypeInv', AloneInv, NEW c \in Checkouts, sess[c].status = "none",
         NEW b \in Nat, MaxTopUps = 0 => balance <= b,
         NEW p, NEW k,
         sess' = [sess EXCEPT ![c] =
            [status |-> "active", live |-> TRUE, wallet |-> WalletPart(b),
             due |-> Price - WalletPart(b), promo |-> p, code |-> k]],
         UNCHANGED <<gateway, store, orders, subs, balance>>
  PROVE  Tables'
<1>0. /\ UNCHANGED <<pay, posts, charged, tx, orders, subs, balance>>
      /\ sess \in [Checkouts -> SessionRow] /\ balance \in Nat /\ Price \in Nat /\ Tables
  BY CheckoutAssumption DEF gateway, store, TypeInv, TypeOK, AloneInv
<1>1. /\ \A s \in Checkouts \ {c} : sess'[s] = sess[s]
      /\ sess'[c].wallet = WalletPart(b) /\ sess'[c].due = Price - WalletPart(b)
  BY <1>0
<1>2. \A t \in Requests : tx[t].status # "none" =>
          tx[t].sess \in Checkouts \ {c} /\ DueOf(t)' = DueOf(t)
  BY <1>0, <1>1 DEF TypeInv, RowsOK, KnownSession, DueOf
<1>3. \A t \in Requests : Paid(t)' = Paid(t) /\ GivenUp(t)' = GivenUp(t)
  BY <1>0 DEF Paid, GivenUp, Outstanding
<1>4. \A i \in DOMAIN orders : orders[i].tx # None =>
          /\ orders[i].tx \in Requests /\ tx[orders[i].tx].status # "none"
          /\ tx[orders[i].tx].sess \in Checkouts \ {c}
  BY <1>0, <1>2, OrdersTyped DEF Tables, OrdersInv, PaidStatus
<1>5. \A q \in posts : q.key \in Requests /\ tx[q.key].status # "none"
  BY DEF TypeInv, TypeOK, GatewayTypeOK, PaymentsOK
<1>6. OneOpenRow' /\ KeysInv' /\ SuccessIsDone' /\ OneSubscription'
  BY <1>0 DEF Tables, OneOpenRow, OpenRow, KeysInv, SuccessIsDone, Done, OneSubscription
<1>7. RowsInv'
  BY <1>0, <1>2, <1>3 DEF Tables, RowsInv, PaidFor
<1>8. ChargesInv'
  BY <1>0, <1>2, <1>5 DEF Tables, ChargesInv, TypeInv, PaymentsOK
<1>9. SplitsInv'
  <2>1. WalletPart(b) + (Price - WalletPart(b)) = Price
    BY <1>0 DEF WalletPart, Least
  <2>. QED BY <1>0, <1>1, <2>1 DEF Tables, SplitsInv
<1>10. OrdersInv'
  <2>1. \A i \in DOMAIN orders : orders[i].tx # None =>
            sess'[tx[orders[i].tx].sess] = sess[tx[orders[i].tx].sess]
    BY <1>1, <1>4
  <2>2. \A i \in DOMAIN orders : orders[i].tx # None =>
            PaidFor(orders[i].tx, orders[i].gid)' = PaidFor(orders[i].tx, orders[i].gid)
    BY <1>0 DEF PaidFor, Paid
  <2>. QED BY <1>0, <2>1, <2>2 DEF Tables, OrdersInv
<1>11. ASSUME MaxTopUps = 0 PROVE SplitIsFixed'
  <2>1. SplitIsFixed
    BY <1>0, <1>11 DEF Tables
  <2>2. WalletPart(balance) <= WalletPart(b)
    BY <1>0, <1>11 DEF WalletPart, Least
  <2>3. \A s \in Checkouts : sess'[s].status # "none" => WalletPart(balance)' <= sess'[s].wallet
    BY <1>0, <1>1, <2>1, <2>2 DEF SplitIsFixed, WalletPart
  <2>4. \A t \in Requests : tx'[t].status # "none" =>
            /\ tx'[t].amount = DueOf(t)'
            /\ tx'[t].gid = "card" => DueOf(t)' > 0
            /\ pay'[t] # "none" => charged'[t] = DueOf(t)'
    BY <1>0, <1>2, <2>1 DEF SplitIsFixed
  <2>5. \A q \in posts' : q.amount = DueOf(q.key)'
    BY <1>0, <1>2, <1>5, <2>1 DEF SplitIsFixed
  <2>6. \A i \in DOMAIN orders' : orders'[i].tx # None =>
            orders'[i].gid = IF DueOf(orders[i].tx)' > 0 THEN "card" ELSE "wallet"
    BY <1>0, <1>2, <1>4, <2>1 DEF SplitIsFixed
  <2>. QED BY <2>3, <2>4, <2>5, <2>6 DEF SplitIsFixed, DueOf
<1>. QED BY <1>6, <1>7, <1>8, <1>9, <1>10, <1>11 DEF Tables

(* The awaits of CreateCheckoutSession: the session that is inserted has no *)
(* row yet and its split adds up to the price.                              *)
LEMMA CheckoutAlone ==
  ASSUME TypeInv, TypeInv', ServeInv, AloneInv, NEW c \in Checkouts, OnlyOne(c),
         CreateCheckoutSession(c)
  PROVE  AloneInv' /\ SuccessStays
<1>0. /\ c \in Handlers /\ c \notin Jobs
      /\ sess \in [Checkouts -> SessionRow] /\ balance \in Nat
  BY CheckoutAssumption DEF Handlers, TypeInv, TypeOK
<1>1. CASE CheckoutReadSub(c)
  <2>. DEFINE m == [Blank EXCEPT !.sub = LiveSub]
  <2>1. Load(c, "c_balance", m)
    BY <1>1 DEF CheckoutReadSub
  <2>2. SeesList(c, "c_balance", m)
    BY <1>0 DEF SeesList, Blank, Listing
  <2>. HIDE DEF m
  <2>. QED BY <1>0, <1>1, <2>1, <2>2, NothingSeen, QuietAlone DEF CheckoutReadSub
<1>2. CASE CheckoutReadBalance(c)
  <2>1. PICK n \in Local : n = my[c] /\ SeesList(c, "c_balance", n)
    BY <1>0, <1>2, Here DEF CheckoutReadBalance, At
  <2>. DEFINE m == [n EXCEPT !.bal = balance]
  <2>2. Load(c, "c_expire", m)
    BY <1>2, <2>1 DEF CheckoutReadBalance
  <2>3. m.bal = balance /\ m.todo = n.todo /\ m.t = n.t
    BY <2>1 DEF Local
  <2>. HIDE DEF m
  <2>4. Acts("c_expire", m) /\ SeesList(c, "c_expire", m)
    BY <1>0, <2>1, <2>3
       DEF Acts, SeesSession, SeesRow, SeesOrder, SeesList, OfSession, OfIntent, Unsettled, OnCard,
           Fulfilling, Splitting, AfterDebitAt, LinkedAt, WithOrderAt, Body, Listing
  <2>. QED BY <1>0, <1>2, <2>2, <2>4, QuietAlone DEF CheckoutReadBalance
<1>3. CASE CheckoutExpireOthers(c)
  <2>1. PICK n \in Local : n = my[c] /\ Acts("c_expire", n) /\ SeesList(c, "c_expire", n)
    BY <1>0, <1>3, Here DEF CheckoutExpireOthers, At
  <2>2. Load(c, "c_create", n)
    BY <1>0, <1>3, <2>1, GotoAny DEF CheckoutExpireOthers
  <2>3. Acts("c_create", n) /\ SeesList(c, "c_create", n)
    BY <1>0, <2>1
       DEF Acts, SeesSession, SeesRow, SeesOrder, SeesList, OfSession, OfIntent, Unsettled, OnCard,
           Fulfilling, Splitting, AfterDebitAt, LinkedAt, WithOrderAt, Body, Listing
  <2>4. \A s \in Checkouts : /\ sess'[s].wallet = sess[s].wallet /\ sess'[s].due = sess[s].due
                             /\ sess'[s].promo = sess[s].promo
                             /\ sess'[s].status = "none" <=> sess[s].status = "none"
                             /\ sess[s].status = "confirmed" => sess'[s].status = "confirmed"
    BY <1>0, <1>3 DEF CheckoutExpireOthers, SessionRow
  <2>5. "c_create" \notin SeesStatus \cup Splitting
    BY DEF SeesStatus, OfSession, AfterDebitAt, LinkedAt, Splitting, OfIntent, Fulfilling, Body
  <2>. QED BY <1>0, <1>3, <2>2, <2>3, <2>4, <2>5, StatusAlone DEF CheckoutExpireOthers, ledger
<1>4. CASE CheckoutCreate(c)
  <2>1. PICK n \in Local : n = my[c] /\ Acts("c_create", n) /\ Knows(c, "c_create", n)
    BY <1>0, <1>4, Here DEF CheckoutCreate, At
  <2>2. sess[c].status = "none" /\ n.bal \in Nat /\ (MaxTopUps = 0 => balance <= n.bal)
    BY <2>1 DEF Knows, Opening, Acts, SeesSession, Local
  <2>3. Tables'
    BY <1>4, <2>1, <2>2, NewSession DEF CheckoutCreate, ledger
  <2>4. SuccessStays
    BY <1>4 DEF CheckoutCreate, SuccessStays, store
  <2>. QED BY <1>0, <1>4, <2>3, <2>4, LeaveAlone DEF CheckoutCreate, store
<1>. QED BY <1>1, <1>2, <1>3, <1>4 DEF CreateCheckoutSession

-------------------------------------------------------------------------------
(* CreateOrder                                                             *)

(* A session that was split anew asks the card for no more than before, and *)
(* no order has been debited while it is active.                           *)
LEMMA SplitAnew ==
  ASSUME TypeInv, Tables, NEW s, KnownSession(s), sess[s].status = "active",
         NEW w \in Nat, NEW d \in Nat, w + d = Price, d <= sess[s].due, MaxTopUps # 0,
         sess' = [sess EXCEPT ![s] = [@ EXCEPT !.wallet = w, !.due = d]],
         UNCHANGED <<gateway, store, orders, subs, balance>>
  PROVE  Tables'
<1>0. /\ UNCHANGED <<pay, posts, charged, tx, orders, subs, balance>>
      /\ sess \in [Checkouts -> SessionRow] /\ s \in Checkouts
  BY DEF gateway, store, TypeInv, TypeOK, KnownSession
<1>1. /\ \A c \in Checkouts \ {s} : sess'[c] = sess[c]
      /\ sess'[s].wallet = w /\ sess'[s].due = d
      /\ sess'[s].status = sess[s].status /\ sess'[s].promo = sess[s].promo
  BY <1>0 DEF SessionRow
<1>2. \A t \in Requests : tx[t].status # "none" =>
          /\ tx[t].sess \in Checkouts
          /\ DueOf(t) \in Nat /\ DueOf(t)' \in Nat /\ DueOf(t)' <= DueOf(t)
  <2>. TAKE t \in Requests
  <2>. HAVE tx[t].status # "none"
  <2>1. tx[t].sess \in Checkouts /\ sess[tx[t].sess].due \in Nat
    BY <1>0 DEF TypeInv, RowsOK, KnownSession, SessionRow
  <2>. QED BY <1>0, <1>1, <2>1 DEF DueOf
<1>3. \A t \in Requests : Paid(t)' = Paid(t) /\ GivenUp(t)' = GivenUp(t)
  BY <1>0 DEF Paid, GivenUp, Outstanding
<1>4. \A i \in DOMAIN orders : orders[i].tx # None =>
          /\ orders[i].tx \in Requests /\ tx[orders[i].tx].status # "none"
          /\ tx[orders[i].tx].sess \in Checkouts /\ orders[i].debit \in Nat
  BY <1>0, <1>2, OrdersTyped DEF Tables, OrdersInv, PaidStatus, OrderRow
<1>5. \A q \in posts : q.key \in Requests /\ tx[q.key].status # "none" /\ q.amount \in Nat
  BY DEF TypeInv, TypeOK, GatewayTypeOK, PaymentsOK
<1>6. OneOpenRow' /\ KeysInv' /\ SuccessIsDone' /\ OneSubscription'
  BY <1>0 DEF Tables, OneOpenRow, OpenRow, KeysInv, SuccessIsDone, Done, OneSubscription
<1>7. RowsInv'
  <2>1. \A t \in Requests : tx[t].amount \in Nat
    BY DEF TypeInv, TypeOK, TxRow
  <2>. QED BY <1>0, <1>2, <1>3, <2>1 DEF Tables, RowsInv, PaidFor
<1>8. ChargesInv'
  <2>1. \A t \in Requests : pay[t] # "none" => tx[t].status # "none" /\ charged[t] \in Nat
    BY DEF TypeInv, TypeOK, GatewayTypeOK, PaymentsOK
  <2>. QED BY <1>0, <1>2, <1>5, <2>1 DEF Tables, ChargesInv
<1>9. SplitsInv'
  BY <1>0, <1>1 DEF Tables, SplitsInv
<1>10. OrdersInv'
  <2>1. \A i \in DOMAIN orders : orders[i].tx # None =>
            PaidFor(orders[i].tx, orders[i].gid)' = PaidFor(orders[i].tx, orders[i].gid)
    BY <1>0 DEF PaidFor, Paid
  <2>2. \A i \in DOMAIN orders : orders[i].tx # None =>
            \/ tx[orders[i].tx].sess # s
            \/ ~(orders[i].debit > 0) /\ (sess[s].promo # 0 \/ orders[i].sub = 0)
    BY <1>4 DEF Tables, OrdersInv
  <2>. QED BY <1>0, <1>1, <1>4, <2>1, <2>2 DEF Tables, OrdersInv
<1>. QED BY <1>6, <1>7, <1>8, <1>9, <1>10 DEF Tables

(* A new row for a session all of whose rows are given up.                  *)
LEMMA NewRow ==
  ASSUME TypeInv, Tables, NEW r \in Requests, tx[r].status = "none",
         NEW s, KnownSession(s), NoneOpen(s),
         tx' = [tx EXCEPT ![r] = [sess |-> s, status |-> "INITIATED",
                                  amount |-> sess[s].due, gid |-> "none", stale |-> FALSE]],
         UNCHANGED <<gateway, sess, orders, subs, balance>>
  PROVE  Tables' /\ SuccessStays
<1>0. /\ UNCHANGED <<pay, posts, charged, sess, orders, subs, balance>>
      /\ tx \in [Requests -> TxRow] /\ s \in Checkouts /\ s # None /\ sess[s].due \in Nat
  BY CheckoutAssumption DEF gateway, TypeInv, TypeOK, KnownSession, SessionRow
<1>1. /\ \A t \in Requests \ {r} : tx'[t] = tx[t] /\ DueOf(t)' = DueOf(t)
      /\ tx'[r].sess = s /\ tx'[r].status = "INITIATED" /\ tx'[r].amount = sess[s].due
      /\ tx'[r].gid = "none" /\ DueOf(r)' = sess[s].due
  BY <1>0 DEF DueOf
<1>3. \A t \in Requests : Paid(t)' = Paid(t) /\ GivenUp(t)' = GivenUp(t)
  BY <1>0 DEF Paid, GivenUp, Outstanding
<1>4. \A i \in DOMAIN orders : orders[i].tx # None => orders[i].tx \in Requests \ {r}
  BY <1>0, OrdersTyped DEF Tables, OrdersInv, PaidStatus
<1>5. pay[r] = "none" /\ \A q \in posts : q.key \in Requests \ {r}
  BY DEF TypeInv, TypeOK, GatewayTypeOK, PaymentsOK
<1>6. OneOpenRow'
  BY <1>0, <1>1 DEF Tables, OneOpenRow, OpenRow, NoneOpen
<1>7. RowsInv'
  BY <1>0, <1>1, <1>3 DEF Tables, RowsInv, PaidFor, PaidStatus
<1>8. ChargesInv'
  BY <1>0, <1>1, <1>5 DEF Tables, ChargesInv
<1>9. SplitsInv' /\ KeysInv' /\ OneSubscription'
  BY <1>0 DEF Tables, SplitsInv, KeysInv, OneSubscription
<1>10. SuccessIsDone' /\ SuccessStays
  BY <1>0, <1>1 DEF Tables, SuccessIsDone, SuccessStays, Done
<1>11. OrdersInv'
  <2>1. \A i \in DOMAIN orders : orders[i].tx # None =>
            PaidFor(orders[i].tx, orders[i].gid)' = PaidFor(orders[i].tx, orders[i].gid)
    BY <1>0, <1>1, <1>4 DEF PaidFor, Paid
  <2>. QED BY <1>0, <1>1, <1>4, <2>1 DEF Tables, OrdersInv
<1>12. ASSUME MaxTopUps = 0 PROVE SplitIsFixed'
  <2>1. SplitIsFixed
    BY <1>12 DEF Tables
  <2>2. \A c \in Checkouts : sess'[c].status # "none" => WalletPart(balance)' <= sess'[c].wallet
    BY <1>0, <2>1 DEF SplitIsFixed, WalletPart
  <2>3. \A t \in Requests : tx'[t].status # "none" =>
            /\ tx'[t].amount = DueOf(t)'
            /\ tx'[t].gid = "card" => DueOf(t)' > 0
            /\ pay'[t] # "none" => charged'[t] = DueOf(t)'
    BY <1>0, <1>1, <1>5, <2>1 DEF SplitIsFixed
  <2>4. \A q \in posts' : q.amount = DueOf(q.key)'
    BY <1>0, <1>1, <1>5, <2>1 DEF SplitIsFixed
  <2>5. \A i \in DOMAIN orders' : orders'[i].tx # None =>
            orders'[i].gid = IF DueOf(orders[i].tx)' > 0 THEN "card" ELSE "wallet"
    BY <1>0, <1>1, <1>4, <2>1 DEF SplitIsFixed
  <2>. QED BY <2>2, <2>3, <2>4, <2>5 DEF SplitIsFixed, DueOf
<1>. QED BY <1>6, <1>7, <1>8, <1>9, <1>10, <1>11, <1>12 DEF Tables

(* A charge is posted for a row that is open.                              *)
LEMMA NewPost ==
  ASSUME TypeInv, Tables, NEW t \in Requests, tx[t].status = "INITIATED",
         NEW d \in Nat, d > 0, d = DueOf(t), Post(t, d),
         UNCHANGED <<sess, tx, orders, subs, balance>>
  PROVE  Tables'
<1>0. pay' = pay /\ charged' = charged /\ posts' = posts \cup {[key |-> t, amount |-> d]}
  BY DEF Post
<1>1. \A u \in Requests : DueOf(u)' = DueOf(u) /\ Paid(u)' = Paid(u)
  BY <1>0 DEF DueOf, Paid
<1>2. \A u \in Requests \ {t} : GivenUp(u)' = GivenUp(u)
  BY <1>0 DEF GivenUp, Outstanding
<1>3. OneOpenRow' /\ SplitsInv' /\ KeysInv' /\ OneSubscription' /\ SuccessIsDone'
  BY DEF Tables, OneOpenRow, OpenRow, SplitsInv, KeysInv, OneSubscription, SuccessIsDone, Done
<1>4. RowsInv'
  BY <1>1, <1>2 DEF Tables, RowsInv, PaidFor
<1>5. ChargesInv'
  <2>1. \A u \in Requests : pay'[u] # "none" => charged'[u] > 0 /\ charged'[u] >= DueOf(u)'
    BY <1>0, <1>1 DEF Tables, ChargesInv
  <2>2. \A p \in posts' : p.amount > 0 /\ p.amount >= DueOf(p.key)'
    <3>. TAKE p \in posts'
    <3>1. CASE p \in posts
      <4>1. p.key \in Requests
        BY <3>1 DEF TypeInv, TypeOK, GatewayTypeOK
      <4>. QED BY <1>1, <3>1, <4>1 DEF Tables, ChargesInv
    <3>2. CASE p = [key |-> t, amount |-> d]
      BY <1>1, <3>2
    <3>. QED BY <1>0, <3>1, <3>2
  <2>. QED BY <2>1, <2>2 DEF ChargesInv
<1>6. OrdersInv'
  BY <1>0 DEF Tables, OrdersInv, PaidFor, Paid
<1>7. ASSUME MaxTopUps = 0 PROVE SplitIsFixed'
  <2>1. SplitIsFixed
    BY <1>7 DEF Tables
  <2>2. \A p \in posts' : p.amount = DueOf(p.key)'
    <3>. TAKE p \in posts'
    <3>1. CASE p \in posts
      <4>1. p.key \in Requests
        BY <3>1 DEF TypeInv, TypeOK, GatewayTypeOK
      <4>. QED BY <1>1, <2>1, <3>1, <4>1 DEF SplitIsFixed
    <3>2. CASE p = [key |-> t, amount |-> d]
      BY <1>1, <3>2
    <3>. QED BY <1>0, <3>1, <3>2
  <2>3. /\ \A s \in Checkouts : sess'[s].status # "none" => WalletPart(balance)' <= sess'[s].wallet
        /\ \A i \in DOMAIN orders' : orders'[i].tx # None =>
               orders'[i].gid = IF DueOf(orders[i].tx)' > 0 THEN "card" ELSE "wallet"
    BY <1>0, <2>1 DEF SplitIsFixed, WalletPart, DueOf
  <2>4. \A u \in Requests : tx'[u].status # "none" =>
            /\ tx'[u].amount = DueOf(u)'
            /\ tx'[u].gid = "card" => DueOf(u)' > 0
            /\ pay'[u] # "none" => charged'[u] = DueOf(u)'
    BY <1>0, <1>1, <2>1 DEF SplitIsFixed
  <2>. QED BY <2>2, <2>3, <2>4 DEF SplitIsFixed, DueOf
<1>. QED BY <1>3, <1>4, <1>5, <1>6, <1>7 DEF Tables

(* A handler that is not a job has no list.                                 *)
LEMMA NoList ==
  ASSUME NEW h, h \notin Jobs, NEW k, NEW n, SeesList(h, k, n),
         NEW l, l \notin Listing, NEW m, m.todo = n.todo
  PROVE  SeesList(h, l, m) /\ SeesList(h, l, m)'
BY DEF SeesList, Listing

(* Where a request goes with the row it picked, or with none.               *)
Picked(m) ==
    /\ m.wallet = sess[m.s].wallet /\ m.due = sess[m.s].due
    /\ \/ m.seen = "none" /\ NoneOpen(m.s)
       \/ /\ m.seen \in {"INITIATED", "PAID_UNFULFILLED", "FULFILLING"}
          /\ tx[m.t].status = m.seen /\ tx[m.t].gid = m.gid

(* What a request does with the row it picked: an INITIATED one is paid, a  *)
(* paid one is fulfilled, without one the row is inserted.                  *)
LEMMA AfterClaimSees ==
  ASSUME NEW m \in Local, Picked(m)
  PROVE  /\ Acts(AfterClaim(m), m)
         /\ AfterClaim(m) \in {"insert", "load", "cas", "wallet_settle", "fetch"}
<1>. USE DEF Acts, SeesSession, SeesRow, SeesOrder, OfSession, OfIntent, Unsettled, OnCard,
             Fulfilling, Splitting, AfterDebitAt, LinkedAt, WithOrderAt, Body
<1>1. CASE m.seen = "none"
  <2>1. AfterClaim(m) = "insert"
    BY <1>1 DEF AfterClaim
  <2>. QED BY <1>1, <2>1 DEF Picked
<1>2. CASE m.seen = "INITIATED" /\ m.due = 0
  <2>1. AfterClaim(m) = "wallet_settle"
    BY <1>2 DEF AfterClaim, Dispatch, PaidStatus
  <2>. QED BY <1>2, <2>1 DEF Picked
<1>3. CASE m.seen = "INITIATED" /\ m.due # 0
  <2>1. AfterClaim(m) = "fetch" /\ m.due > 0
    BY <1>3 DEF AfterClaim, Dispatch, PaidStatus, Local
  <2>. QED BY <1>3, <2>1 DEF Picked
<1>4. CASE m.seen = "FULFILLING" /\ m.stale
  <2>1. AfterClaim(m) = "load"
    BY <1>4 DEF AfterClaim, Dispatch, PaidStatus
  <2>. QED BY <1>4, <2>1 DEF Picked
<1>5. CASE m.seen = "PAID_UNFULFILLED" \/ (m.seen = "FULFILLING" /\ ~m.stale)
  <2>1. AfterClaim(m) = "cas"
    BY <1>5 DEF AfterClaim, Dispatch, PaidStatus
  <2>. QED BY <1>5, <2>1 DEF Picked
<1>. QED BY ONLY <1>1, <1>2, <1>3, <1>4, <1>5, Picked(m) DEF Picked

(* The same, after the plan has been looked for.                            *)
LEMMA AfterGuardSees ==
  ASSUME NEW m \in Local, Picked(m)
  PROVE  /\ Acts(AfterGuard(m), m) /\ Acts("guard", m)
         /\ AfterGuard(m) \in {"claim", "insert", "load", "cas", "wallet_settle", "fetch"}
<1>1. Acts("guard", m) /\ Acts("claim", m)
  BY DEF Picked, Acts, SeesSession, SeesRow, SeesOrder, OfSession, OfIntent, Unsettled, OnCard,
         Fulfilling, Splitting, AfterDebitAt, LinkedAt, WithOrderAt, Body
<1>. QED BY <1>1, AfterClaimSees DEF AfterGuard

(* Looking an order up by its key finds it: there is only one.              *)
LEMMA LookedUp ==
  ASSUME TypeInv, Tables, NEW t \in Requests, NEW g, g # "none"
  PROVE  /\ Finished(t, g) <=> Done(t, g)
         /\ OrderOf(t, g) = {} <=> ~HasOrder(t, g)
<1>1. DOMAIN orders \subseteq Nat /\ t # None
  BY Lengths, CheckoutAssumption
<1>2. \A i \in DOMAIN orders : orders[i].tx = t /\ orders[i].gid = g =>
          \A k \in DOMAIN orders : orders[k].tx = t /\ orders[k].gid = g => i <= k
  BY <1>1 DEF Tables, KeysInv
<1>3. OrderOf(t, g) = {i \in DOMAIN orders : orders[i].tx = t /\ orders[i].gid = g}
  BY <1>2 DEF OrderOf
<1>. QED BY <1>3 DEF Finished, Done, HasOrder

(* The awaits up to the claim of the session.                               *)
LEMMA RequestReads ==
  ASSUME TypeInv, TypeInv', ServeInv, AloneInv, NEW r \in Requests, OnlyOne(r),
         ReadSession(r) \/ ReadBalance(r) \/ RefreshSession(r)
  PROVE  AloneInv' /\ SuccessStays
<1>. USE DEF OfSession, OfIntent, Unsettled, OnCard,
             Fulfilling, Splitting, AfterDebitAt, LinkedAt, WithOrderAt, Body
<1>0. /\ r \in Handlers /\ r \notin Jobs /\ balance \in Nat /\ Price \in Nat
      /\ sess \in [Checkouts -> SessionRow] /\ Tables
  BY CheckoutAssumption DEF Handlers, TypeInv, TypeOK, AloneInv
<1>1. CASE ReadSession(r)
  <2>1. PICK s \in Checkouts :
          /\ sess[s].status \in {"active", "confirmed"}
          /\ Load(r, IF sess[s].status = "active" THEN "balance" ELSE "intent",
                  [Blank EXCEPT !.s = s, !.status = sess[s].status,
                                !.wallet = sess[s].wallet, !.due = sess[s].due])
    BY <1>1 DEF ReadSession
  <2>. DEFINE l == IF sess[s].status = "active" THEN "balance" ELSE "intent"
              m == [Blank EXCEPT !.s = s, !.status = sess[s].status,
                                 !.wallet = sess[s].wallet, !.due = sess[s].due]
  <2>2. /\ m.s = s /\ m.status = sess[s].status /\ m.wallet = sess[s].wallet /\ m.due = sess[s].due
        /\ m.todo = {}
    BY DEF Blank
  <2>3. Load(r, l, m)
    BY <2>1
  <2>4. l \in {"balance", "intent"} /\ (l = "balance" => sess[s].status = "active")
    OBVIOUS
  <2>. HIDE DEF l, m
  <2>5. Acts(l, m)
    BY <2>2, <2>4 DEF Acts, SeesSession, SeesRow, SeesOrder
  <2>6. SeesList(r, l, m)
    BY <1>0, <2>2, <2>4 DEF SeesList, Listing
  <2>. QED BY <1>0, <1>1, <2>3, <2>5, <2>6, QuietAlone DEF ReadSession
<1>2. CASE ReadBalance(r)
  <2>1. PICK n \in Local : /\ n = my[r] /\ Knows(r, "balance", n) /\ Acts("balance", n)
                           /\ SeesList(r, "balance", n)
    BY <1>0, <1>2, Here DEF ReadBalance, At
  <2>2. PICK w \in Nat : w = WalletPart(balance) /\ w <= Price
    BY <1>0 DEF WalletPart, Least
  <2>3. /\ n.status = "active" /\ sess[n.s].status = "active"
        /\ n.wallet = sess[n.s].wallet /\ n.due = sess[n.s].due
        /\ n.wallet \in Nat /\ n.due \in Nat /\ n.s \in Checkouts
    BY <2>1 DEF Acts, SeesSession, Local, Knows, NoSession, Opening, KnownSession
  <2>4. n.wallet + n.due = Price
    BY <1>0, <2>3 DEF Tables, SplitsInv
  <2>5. CASE w > n.wallet \/ Price - w < n.due
    <3>. DEFINE m == [n EXCEPT !.bal = balance, !.wallet = w, !.due = Price - w]
    <3>1. /\ m.s = n.s /\ m.status = n.status /\ m.wallet = w /\ m.due = Price - w
          /\ m.todo = n.todo
      BY <2>1 DEF Local
    <3>2. Load(r, "refresh", m)
      BY <1>2, <2>1, <2>2, <2>5 DEF ReadBalance
    <3>. HIDE DEF m
    <3>3. MaxTopUps # 0
      <4>1. SUFFICES ASSUME SplitIsFixed PROVE FALSE
        BY <1>0 DEF Tables
      <4>2. w <= n.wallet
        BY <2>2, <2>3, <4>1 DEF SplitIsFixed
      <4>. QED BY <1>0, <2>2, <2>3, <2>4, <2>5, <4>2
    <3>4. m.wallet + m.due = Price /\ m.due <= n.due
      BY <1>0, <2>2, <2>3, <2>4, <2>5, <3>1
    <3>5. Acts("refresh", m)
      BY <2>3, <3>1, <3>3, <3>4 DEF Acts, SeesSession, SeesRow, SeesOrder
    <3>6. SeesList(r, "refresh", m)
      BY <1>0, <2>1, <3>1, NoList DEF Listing
    <3>. QED BY <1>0, <1>2, <3>2, <3>5, <3>6, QuietAlone DEF ReadBalance
  <2>6. CASE ~(w > n.wallet \/ Price - w < n.due)
    <3>. DEFINE m == [n EXCEPT !.bal = balance]
    <3>1. /\ m.s = n.s /\ m.status = n.status /\ m.wallet = n.wallet /\ m.due = n.due
          /\ m.todo = n.todo
      BY <2>1 DEF Local
    <3>2. Load(r, "intent", m)
      BY <1>2, <2>1, <2>2, <2>6 DEF ReadBalance
    <3>. HIDE DEF m
    <3>3. Acts("intent", m)
      BY <2>3, <3>1 DEF Acts, SeesSession, SeesRow, SeesOrder
    <3>4. SeesList(r, "intent", m)
      BY <1>0, <2>1, <3>1, NoList DEF Listing
    <3>. QED BY <1>0, <1>2, <3>2, <3>3, <3>4, QuietAlone DEF ReadBalance
  <2>. QED BY <2>5, <2>6
<1>3. CASE RefreshSession(r)
  <2>1. PICK n \in Local : /\ n = my[r] /\ Knows(r, "refresh", n) /\ Acts("refresh", n)
                           /\ SeesList(r, "refresh", n)
    BY <1>0, <1>3, Here DEF RefreshSession, At
  <2>2. /\ sess[n.s].status = "active" /\ n.status = "active" /\ KnownSession(n.s)
        /\ n.wallet \in Nat /\ n.due \in Nat /\ n.s \in Checkouts
        /\ n.wallet + n.due = Price /\ n.due <= sess[n.s].due /\ MaxTopUps # 0
    BY <2>1 DEF Acts, SeesSession, Local, Knows, NoSession, Opening, KnownSession
  <2>3. Load(r, "intent", n)
    BY <1>0, <1>3, <2>1, GotoAny DEF RefreshSession
  <2>4. sess' = [sess EXCEPT ![n.s] = [@ EXCEPT !.wallet = n.wallet, !.due = n.due]]
        /\ UNCHANGED <<gateway, store, orders, subs, balance>>
    BY <1>3, <2>1 DEF RefreshSession, ledger
  <2>5. Tables'
    BY <1>0, <2>2, <2>4, SplitAnew
  <2>6. /\ sess'[n.s].status = n.status /\ sess'[n.s].wallet = n.wallet
        /\ sess'[n.s].due = n.due
    BY <1>0, <2>2, <2>4 DEF SessionRow
  <2>7. Acts("intent", n)'
    BY <2>2, <2>6 DEF Acts, SeesSession, SeesRow, SeesOrder
  <2>8. SeesList(r, "intent", n)'
    BY <1>0, <2>1, NoList DEF Listing
  <2>9. SuccessStays
    BY <2>4 DEF SuccessStays, store
  <2>. QED BY <1>0, <2>3, <2>5, <2>7, <2>8, <2>9, AloneStepOf DEF Sees
<1>. QED BY <1>1, <1>2, <1>3

(* What an update does to its row.                                          *)
LEMMA RowUpdated ==
  ASSUME TypeInv, NEW t, KnownRow(t), NEW st, NEW g, UpdateTx(t, st, g)
  PROVE  /\ tx'[t].status = st /\ tx'[t].gid = g
         /\ \A u \in Requests : tx'[u].sess = tx[u].sess /\ tx'[u].amount = tx[u].amount
         /\ \A u \in Requests \ {t} : tx'[u] = tx[u]
BY DEF TypeInv, TypeOK, TxRow, UpdateTx, KnownRow

(* The rows a handler may write, and what it may write                     *)
MayWrite(t, st, g) ==
    /\ tx[t].status \in {"INITIATED", "PAID_UNFULFILLED", "FULFILLING"}
    /\ st \in {"FAILED", "INITIATED"} => tx[t].status = "INITIATED"
    /\ st = "FAILED" => GivenUp(t)
    /\ st \in PaidStatus => g # "none" /\ PaidFor(t, g)
    /\ st = "SUCCESS" => Done(t, g)
    /\ g = "wallet" => DueOf(t) = 0
    /\ MaxTopUps = 0 /\ g = "card" => DueOf(t) > 0

(* A handler writes its row and goes on.                                    *)
LEMMA WriteAlone ==
  ASSUME TypeInv, AloneInv, NEW h \in Handlers, OnlyOne(h),
         NEW k, NEW n \in Local, SeesList(h, k, n), KnownRow(n.t),
         NEW l, NEW m, Load(h, l, m), m.todo = n.todo, m.t = n.t, l \notin Listing,
         NEW st \in TxStatus \ {"none"}, NEW g \in Gid,
         MayWrite(n.t, st, g), UpdateTx(n.t, st, g),
         UNCHANGED <<gateway, sess, orders, subs, ledger>>, Acts(l, m)'
  PROVE  AloneInv' /\ SuccessStays
<1>1. Tables' /\ SuccessStays
  BY RowMayChange DEF AloneInv, ledger, MayWrite
<1>2. SeesList(h, l, m)'
  BY RowList
<1>. QED BY <1>1, <1>2, AloneStepOf DEF Sees

(* A handler writes its row and returns.                                    *)
LEMMA WriteAndLeave ==
  ASSUME TypeInv, AloneInv, NEW h \in Handlers, OnlyOne(h), Leave(h),
         NEW n \in Local, n = my[h], KnownRow(n.t),
         NEW st \in TxStatus \ {"none"}, NEW g \in Gid,
         MayWrite(n.t, st, g), UpdateTx(n.t, st, g),
         UNCHANGED <<gateway, sess, orders, subs, ledger>>
  PROVE  AloneInv' /\ SuccessStays
<1>1. Tables' /\ SuccessStays
  BY RowMayChange DEF AloneInv, ledger, MayWrite
<1>2. \A u \in Requests \ {my[h].t} : tx'[u] = tx[u]
  BY RowUpdated
<1>. QED BY <1>1, <1>2, LeaveAlone

(* The awaits from the choice of a row to the claim of the session.         *)
LEMMA RequestPicks ==
  ASSUME TypeInv, TypeInv', ServeInv, AloneInv, NEW r \in Requests, OnlyOne(r),
         ReadIntent(r) \/ ReadLinkedOrder(r) \/ GuardSubscription(r) \/ ClaimSession(r)
  PROVE  AloneInv' /\ SuccessStays
<1>. USE DEF OfSession, OfIntent, Unsettled, OnCard,
             Fulfilling, Splitting, AfterDebitAt, LinkedAt, WithOrderAt, Body
<1>0. /\ r \in Handlers /\ r \notin Jobs /\ Tables
      /\ sess \in [Checkouts -> SessionRow] /\ tx \in [Requests -> TxRow]
  BY CheckoutAssumption DEF Handlers, TypeInv, TypeOK, AloneInv
<1>1. CASE ReadIntent(r)
  <2>1. PICK n \in Local : /\ n = my[r] /\ Knows(r, "intent", n) /\ Acts("intent", n)
                           /\ SeesList(r, "intent", n)
    BY <1>0, <1>1, Here DEF ReadIntent, At
  <2>2. /\ n.s \in Checkouts /\ n.s # None /\ n.seen = "none"
        /\ n.wallet = sess[n.s].wallet /\ n.due = sess[n.s].due
    BY <2>1, CheckoutAssumption DEF Acts, SeesSession, Knows, NoSession, Opening, KnownSession
  <2>3. CASE Leave(r)
    BY <1>0, <1>1, <2>3, LeaveQuietly DEF ReadIntent
  <2>4. CASE Open(n.s) = {} /\ Goto(r, "guard")
    <3>1. NoneOpen(n.s)
      BY <1>0, <2>2, <2>4 DEF NoneOpen, Open, Rank, Tables, RowsInv, TxRow, TxStatus
    <3>2. Acts("guard", n)
      BY <2>1, <2>2, <3>1, AfterGuardSees DEF Picked
    <3>3. SeesList(r, "guard", n)
      BY <1>0, <2>1, NoList DEF Listing
    <3>4. Load(r, "guard", n)
      BY <1>0, <2>1, <2>4, GotoAny
    <3>. QED BY <1>0, <1>1, <3>2, <3>3, <3>4, QuietAlone DEF ReadIntent
  <2>5. ASSUME NEW t \in PaymentIntent(n.s), NEW l, NEW m,
               m = [n EXCEPT !.t = t, !.seen = tx[t].status, !.gid = tx[t].gid, !.stale = tx[t].stale],
               l = CASE m.seen = "SUCCESS"  -> "linked_order"
                     [] m.seen = "INITIATED" -> "guard"
                     [] OTHER               -> AfterGuard(m),
               Load(r, l, m)
        PROVE  AloneInv' /\ SuccessStays
    <3>1. /\ t \in Requests /\ tx[t].sess = n.s
          /\ tx[t].status \in {"SUCCESS", "FULFILLING", "PAID_UNFULFILLED", "INITIATED"}
          /\ tx[t].gid \in Gid /\ tx[t].stale \in BOOLEAN
      BY <1>0, <2>5 DEF PaymentIntent, Open, Rank, TxRow, TxStatus
    <3>2. /\ m \in Local /\ m.s = n.s /\ m.t = t /\ m.seen = tx[t].status /\ m.gid = tx[t].gid
          /\ m.wallet = n.wallet /\ m.due = n.due /\ m.todo = n.todo
      BY <2>1, <2>5, <3>1 DEF Local, TxStatus
    <3>3. Acts(l, m) /\ l \notin Listing
      <4>1. CASE m.seen = "SUCCESS"
        <5>1. l = "linked_order"
          BY <2>5, <4>1
        <5>. QED BY <2>2, <3>1, <3>2, <4>1, <5>1 DEF Acts, SeesSession, SeesRow, SeesOrder, Listing
      <4>2. CASE m.seen # "SUCCESS"
        <5>1. Picked(m)
          BY <2>2, <3>1, <3>2, <4>2 DEF Picked
        <5>2. l \in {"guard", AfterGuard(m)}
          BY <2>5, <4>2
        <5>. QED BY <3>2, <5>1, <5>2, AfterGuardSees DEF Listing
      <4>. QED BY <4>1, <4>2
    <3>4. SeesList(r, l, m)
      BY <1>0, <2>1, <3>2, <3>3, NoList
    <3>. QED BY <1>0, <1>1, <2>5, <3>3, <3>4, QuietAlone DEF ReadIntent
  <2>. QED BY <1>1, <2>1, <2>3, <2>4, <2>5 DEF ReadIntent
<1>2. CASE ReadLinkedOrder(r)
  <2>1. PICK n \in Local : /\ n = my[r] /\ Knows(r, "linked_order", n) /\ Acts("linked_order", n)
    BY <1>0, <1>2, Here DEF ReadLinkedOrder, At
  <2>2. /\ n.t \in Requests /\ tx[n.t].status = "SUCCESS" /\ tx[n.t].gid = n.gid
    BY <2>1 DEF Acts, SeesRow, Knows, NoRow, NoSession, Opening, KnownRow
  <2>3. n.gid # "none" /\ Done(n.t, n.gid)
    BY <1>0, <2>2 DEF Tables, SuccessIsDone, RowsInv, PaidStatus
  <2>4. Finished(n.t, n.gid)
    BY <1>0, <2>2, <2>3, LookedUp
  <2>. QED BY <1>0, <1>2, <2>1, <2>4, LeaveQuietly DEF ReadLinkedOrder
<1>3. CASE GuardSubscription(r)
  <2>1. PICK n \in Local : /\ n = my[r] /\ Acts("guard", n) /\ SeesList(r, "guard", n)
    BY <1>0, <1>3, Here DEF GuardSubscription, At
  <2>2. Picked(n)
    BY <2>1 DEF Acts, SeesSession, SeesRow, Picked, Local, TxStatus
  <2>3. CASE Leave(r)
    BY <1>0, <1>3, <2>3, LeaveQuietly DEF GuardSubscription
  <2>4. CASE Goto(r, AfterGuard(my[r]))
    <3>1. PICK l : l = AfterGuard(n)
      OBVIOUS
    <3>2. Load(r, l, n)
      BY <1>0, <2>1, <2>4, <3>1, GotoAny
    <3>3. Acts(l, n) /\ l \notin Listing
      BY <2>2, <3>1, AfterGuardSees DEF Listing
    <3>4. SeesList(r, l, n)
      BY <1>0, <2>1, <3>3, NoList
    <3>. QED BY <1>0, <1>3, <3>2, <3>3, <3>4, QuietAlone DEF GuardSubscription
  <2>. QED BY <1>3, <2>3, <2>4 DEF GuardSubscription
<1>4. CASE ClaimSession(r)
  <2>1. PICK n \in Local : /\ n = my[r] /\ Acts("claim", n) /\ SeesList(r, "claim", n)
                           /\ Knows(r, "claim", n)
    BY <1>0, <1>4, Here DEF ClaimSession, At
  <2>2. Picked(n) /\ n.s \in Checkouts /\ sess[n.s].status # "none"
    BY <2>1 DEF Acts, SeesSession, SeesRow, Picked, Local, TxStatus, Knows, NoSession, Opening,
                KnownSession
  <2>3. CASE Leave(r) /\ UNCHANGED sess
    BY <1>0, <1>4, <2>3, LeaveQuietly DEF ClaimSession
  <2>4. CASE UpdateSession(n.s, "confirmed") /\ Goto(r, AfterClaim(my[r]))
    <3>1. PICK l : l = AfterClaim(n)
      OBVIOUS
    <3>2. Load(r, l, n)
      BY <1>0, <2>1, <2>4, <3>1, GotoAny
    <3>3. Acts(l, n) /\ l \in {"insert", "load", "cas", "wallet_settle", "fetch"}
      BY <2>2, <3>1, AfterClaimSees
    <3>4. SeesList(r, l, n)
      BY <1>0, <2>1, <3>3, NoList DEF Listing
    <3>5. \A s \in Checkouts : /\ sess'[s].wallet = sess[s].wallet /\ sess'[s].due = sess[s].due
                               /\ sess'[s].promo = sess[s].promo
                               /\ sess'[s].status = "none" <=> sess[s].status = "none"
                               /\ sess[s].status = "confirmed" => sess'[s].status = "confirmed"
      BY <1>0, <2>2, <2>4 DEF UpdateSession, SessionRow
    <3>6. l \notin SeesStatus /\ l # "unsure"
      BY <3>3 DEF SeesStatus
    <3>. QED BY <1>0, <1>4, <2>2, <3>2, <3>3, <3>4, <3>5, <3>6, StatusAlone DEF ClaimSession, ledger
  <2>. QED BY <1>4, <2>1, <2>3, <2>4 DEF ClaimSession
<1>. QED BY <1>1, <1>2, <1>3, <1>4

(* The awaits from the new row to the settled, failed or unknown charge.    *)
LEMMA RequestPays ==
  ASSUME TypeInv, TypeInv', ServeInv, AloneInv, NEW r \in Requests, OnlyOne(r),
         \/ CreateTransaction(r) \/ SettleByWallet(r) \/ FetchReused(r) \/ Recheck(r)
         \/ PostCharge(r) \/ ReadReply(r) \/ MarkPaid(r) \/ MarkUnsure(r)
  PROVE  AloneInv' /\ SuccessStays
<1>. USE DEF OfSession, OfIntent, Unsettled, OnCard,
             Fulfilling, Splitting, AfterDebitAt, LinkedAt, WithOrderAt, Body
<1>0. /\ r \in Handlers /\ r \notin Jobs /\ Tables
      /\ sess \in [Checkouts -> SessionRow] /\ tx \in [Requests -> TxRow]
  BY CheckoutAssumption DEF Handlers, TypeInv, TypeOK, AloneInv
<1>a. ASSUME NEW k, pc[r] = k, k \notin NoRow
      PROVE  \E n \in Local : /\ n = my[r] /\ Acts(k, n) /\ SeesList(r, k, n)
                              /\ KnownRow(n.t) /\ KnownSession(n.s) /\ DueOf(n.t) = sess[n.s].due
  <2>1. PICK n \in Local : /\ n = my[r] /\ Knows(r, k, n) /\ Acts(k, n) /\ SeesList(r, k, n)
    BY <1>0, <1>a, Here
  <2>. QED BY <1>a, <2>1 DEF Knows, NoRow, DueOf
<1>. DEFINE Card == {"fetch", "recheck", "post", "reply"}
<1>b. ASSUME NEW k \in Card, pc[r] = k
      PROVE  /\ \A l \in {"recheck", "post", "reply", "unsure"} :
                   Goto(r, l) /\ UNCHANGED <<gateway, sess, store, orders, subs, ledger>>
                       => AloneInv' /\ SuccessStays
             /\ Goto(r, "settle") /\ Paid(my[r].t) /\ UNCHANGED <<gateway, sess, store, orders, subs, ledger>>
                       => AloneInv' /\ SuccessStays
             /\ Goto(r, "fail") /\ GivenUp(my[r].t) /\ UNCHANGED <<gateway, sess, store, orders, subs, ledger>>
                       => AloneInv' /\ SuccessStays
  <2>1. PICK n \in Local : /\ n = my[r] /\ Acts(k, n) /\ SeesList(r, k, n)
                           /\ KnownRow(n.t) /\ DueOf(n.t) = sess[n.s].due
    BY <1>a, <1>b DEF NoRow, NoSession, Opening
  <2>2. ASSUME NEW l \in {"recheck", "post", "reply", "unsure", "settle", "fail"}
        PROVE  /\ SeesList(r, l, n)
               /\ (l = "settle" => Paid(n.t)) /\ (l = "fail" => GivenUp(n.t)) => Acts(l, n)
               /\ Goto(r, l) => Load(r, l, n)
    <3>1. SeesList(r, l, n)
      BY <1>0, <2>1, NoList DEF Listing
    <3>2. Goto(r, l) => Load(r, l, n)
      BY <1>0, <2>1, GotoAny
    <3>3. (l = "settle" => Paid(n.t)) /\ (l = "fail" => GivenUp(n.t)) => Acts(l, n)
      BY <1>b, <2>1 DEF Acts, SeesSession, SeesRow, SeesOrder
    <3>. QED BY <3>1, <3>2, <3>3
  <2>. QED BY <1>0, <2>1, <2>2, QuietAlone
<1>1. CASE CreateTransaction(r)
  <2>1. PICK n \in Local : /\ n = my[r] /\ Knows(r, "insert", n) /\ Acts("insert", n)
                           /\ SeesList(r, "insert", n)
    BY <1>0, <1>1, Here DEF CreateTransaction, At
  <2>2. /\ KnownSession(n.s) /\ NoneOpen(n.s) /\ n.seen = "none" /\ tx[r].status = "none"
        /\ n.wallet = sess[n.s].wallet /\ n.due = sess[n.s].due
    BY <1>0, <2>1 DEF Acts, SeesSession, SeesRow, Knows, NoSession, Opening, Early
  <2>3. tx' = [tx EXCEPT ![r] = [sess |-> n.s, status |-> "INITIATED",
                                 amount |-> n.due, gid |-> "none", stale |-> FALSE]]
    BY <1>1, <2>1 DEF CreateTransaction
  <2>4. Tables' /\ SuccessStays
    BY <1>0, <1>1, <2>2, <2>3, NewRow DEF CreateTransaction, ledger
  <2>. DEFINE m == [n EXCEPT !.t = r]
  <2>5. /\ m.t = r /\ m.s = n.s /\ m.wallet = n.wallet /\ m.due = n.due /\ m.seen = n.seen
        /\ m.todo = n.todo /\ m.due \in Nat
    BY <2>1 DEF Local
  <2>6. PICK l : l = Dispatch(n) /\ Load(r, l, m)
    BY <1>1, <2>1 DEF CreateTransaction
  <2>. HIDE DEF m
  <2>7. l = IF m.due = 0 THEN "wallet_settle" ELSE "post"
    BY <2>2, <2>5, <2>6 DEF Dispatch, PaidStatus
  <2>8. tx'[r].status = "INITIATED" /\ sess' = sess
    BY <1>0, <1>1, <2>3 DEF CreateTransaction
  <2>9. Acts(l, m)'
    BY <2>2, <2>5, <2>7, <2>8 DEF Acts, SeesSession, SeesRow, SeesOrder
  <2>10. SeesList(r, l, m)'
    BY <1>0, <2>1, <2>5, <2>7, NoList DEF Listing
  <2>. QED BY <1>0, <2>4, <2>6, <2>9, <2>10, AloneStepOf DEF Sees
<1>2. CASE SettleByWallet(r)
  <2>1. PICK n \in Local : /\ n = my[r] /\ Acts("wallet_settle", n) /\ SeesList(r, "wallet_settle", n)
                           /\ KnownRow(n.t) /\ KnownSession(n.s) /\ DueOf(n.t) = sess[n.s].due
    BY <1>2, <1>a DEF SettleByWallet, At, NoRow, NoSession, Opening
  <2>2. MayWrite(n.t, "PAID_UNFULFILLED", "wallet")
    BY <2>1 DEF MayWrite, Acts, SeesSession, SeesRow, PaidStatus, PaidFor
  <2>. DEFINE m == [n EXCEPT !.gid = "wallet"]
  <2>3. /\ m.t = n.t /\ m.s = n.s /\ m.todo = n.todo /\ m.gid = "wallet"
        /\ m.wallet = n.wallet /\ m.due = n.due
    BY <2>1 DEF Local
  <2>4. Load(r, "cas", m) /\ UpdateTx(n.t, "PAID_UNFULFILLED", "wallet")
    BY <1>2, <2>1 DEF SettleByWallet
  <2>. HIDE DEF m
  <2>5. tx'[n.t].status = "PAID_UNFULFILLED" /\ tx'[n.t].gid = "wallet" /\ sess' = sess
    BY <1>2, <2>1, <2>4, RowUpdated DEF SettleByWallet
  <2>6. Acts("cas", m)'
    BY <2>1, <2>3, <2>5 DEF Acts, SeesSession, SeesRow, SeesOrder
  <2>. QED BY <1>0, <1>2, <2>1, <2>2, <2>3, <2>4, <2>6, WriteAlone
           DEF SettleByWallet, Listing, TxStatus, Gid
<1>3. CASE FetchReused(r)
  <2>1. pc[r] = "fetch" /\ UNCHANGED <<gateway, sess, store, orders, subs, ledger>>
    BY <1>3 DEF FetchReused, At
  <2>2. \/ \E l \in {"recheck", "post", "unsure"} : Goto(r, l)
        \/ Goto(r, "settle") /\ Paid(my[r].t)
        \/ Goto(r, "fail") /\ GivenUp(my[r].t)
    BY <1>3 DEF FetchReused, Settled, Paid, GivenUp
  <2>. QED BY <1>b, <2>1, <2>2
<1>4. CASE Recheck(r)
  <2>1. pc[r] = "recheck" /\ UNCHANGED <<gateway, sess, store, orders, subs, ledger>>
    BY <1>4 DEF Recheck, At
  <2>2. Goto(r, "post") \/ Leave(r)
    BY <1>4 DEF Recheck
  <2>. QED BY <1>0, <1>b, <2>1, <2>2, LeaveQuietly
<1>5. CASE PostCharge(r)
  <2>1. PICK n \in Local : /\ n = my[r] /\ Acts("post", n) /\ SeesList(r, "post", n)
                           /\ KnownRow(n.t) /\ KnownSession(n.s) /\ DueOf(n.t) = sess[n.s].due
    BY <1>5, <1>a DEF PostCharge, At, NoRow, NoSession, Opening
  <2>2. Tables'
    BY <1>0, <1>5, <2>1, NewPost
       DEF PostCharge, store, ledger, Acts, SeesSession, SeesRow, KnownRow, Local
  <2>3. Load(r, "reply", n) /\ sess' = sess /\ tx' = tx
    BY <1>0, <1>5, <2>1, GotoAny DEF PostCharge, store
  <2>4. Acts("reply", n)'
    BY <2>1, <2>3 DEF Acts, SeesSession, SeesRow, SeesOrder
  <2>5. SeesList(r, "reply", n)'
    BY <1>0, <2>1, NoList DEF Listing
  <2>6. SuccessStays
    BY <2>3 DEF SuccessStays
  <2>. QED BY <1>0, <2>2, <2>3, <2>4, <2>5, <2>6, AloneStepOf DEF Sees
<1>6. CASE ReadReply(r)
  <2>1. pc[r] = "reply" /\ UNCHANGED <<gateway, sess, store, orders, subs, ledger>>
    BY <1>6 DEF ReadReply, At
  <2>2. CASE Goto(r, "unsure")
    BY <1>b, <2>1, <2>2
  <2>3. ASSUME NEW a \in ChargeReplies(my[r].t),
               Goto(r, CASE a = "paid" -> "settle" [] a = "failed" -> "fail" [] OTHER -> "unsure")
        PROVE  AloneInv' /\ SuccessStays
    <3>1. /\ a \in {"paid", "failed", "unknown"}
          /\ a = "paid" => Paid(my[r].t)
          /\ a = "failed" => GivenUp(my[r].t)
      <4>1. my[r].t \in Requests
        BY <1>a, <2>1 DEF NoRow, NoSession, Opening, KnownRow
      <4>2. pay[my[r].t] \in PayStatus
        BY <4>1 DEF TypeInv, TypeOK, GatewayTypeOK
      <4>. QED BY <2>3, <4>2 DEF ChargeReplies, Settled, Paid, GivenUp, PayStatus
    <3>. QED BY <1>b, <2>1, <2>3, <3>1
  <2>. QED BY <1>6, <2>2, <2>3 DEF ReadReply
<1>7. CASE MarkPaid(r)
  <2>1. PICK n \in Local : /\ n = my[r] /\ Acts("settle", n) /\ SeesList(r, "settle", n)
                           /\ KnownRow(n.t) /\ KnownSession(n.s) /\ DueOf(n.t) = sess[n.s].due
    BY <1>7, <1>a DEF MarkPaid, At, NoRow, NoSession, Opening
  <2>2. MayWrite(n.t, "PAID_UNFULFILLED", "card")
    BY <2>1 DEF MayWrite, Acts, SeesSession, SeesRow, PaidStatus, PaidFor
  <2>. DEFINE m == [n EXCEPT !.gid = "card"]
  <2>3. /\ m.t = n.t /\ m.s = n.s /\ m.todo = n.todo /\ m.gid = "card"
        /\ m.wallet = n.wallet /\ m.due = n.due
    BY <2>1 DEF Local
  <2>4. Load(r, "cas", m) /\ UpdateTx(n.t, "PAID_UNFULFILLED", "card")
    BY <1>7, <2>1 DEF MarkPaid
  <2>. HIDE DEF m
  <2>5. tx'[n.t].status = "PAID_UNFULFILLED" /\ tx'[n.t].gid = "card" /\ sess' = sess
    BY <1>7, <2>1, <2>4, RowUpdated DEF MarkPaid
  <2>6. Acts("cas", m)'
    BY <2>1, <2>3, <2>5 DEF Acts, SeesSession, SeesRow, SeesOrder
  <2>. QED BY <1>0, <1>7, <2>1, <2>2, <2>3, <2>4, <2>6, WriteAlone
           DEF MarkPaid, Listing, TxStatus, Gid
<1>8. CASE MarkUnsure(r)
  <2>1. PICK n \in Local : /\ n = my[r] /\ Acts("unsure", n) /\ SeesList(r, "unsure", n)
                           /\ KnownRow(n.t) /\ tx[n.t].sess = n.s /\ KnownSession(n.s)
    <3>1. PICK n \in Local : /\ n = my[r] /\ Knows(r, "unsure", n) /\ Acts("unsure", n)
                             /\ SeesList(r, "unsure", n)
      BY <1>0, <1>8, Here DEF MarkUnsure, At
    <3>. QED BY <3>1 DEF Knows, NoRow, NoSession, Opening
  <2>2. MayWrite(n.t, "INITIATED", "card") /\ OpenRow(n.t)
    BY <2>1 DEF MayWrite, Acts, SeesRow, PaidStatus, OpenRow
  <2>3. Load(r, "reopen", n) /\ UpdateTx(n.t, "INITIATED", "card")
    BY <1>0, <1>8, <2>1, GotoAny DEF MarkUnsure
  <2>4. Unpaid(n.s)'
    <3>1. n.s # None /\ n.t \in Requests
      BY <2>1, CheckoutAssumption DEF KnownSession, KnownRow
    <3>2. \A t \in Requests \ {n.t} : tx[t].sess = n.s => tx[t].status = "FAILED"
      BY <1>0, <2>1, <2>2, <3>1 DEF Tables, OneOpenRow, OpenRow, RowsInv
    <3>. QED BY <2>1, <2>3, <3>1, <3>2, RowUpdated DEF Unpaid
  <2>5. Acts("reopen", n)'
    BY <2>4 DEF Acts, SeesSession, SeesRow, SeesOrder
  <2>. QED BY <1>0, <1>8, <2>1, <2>2, <2>3, <2>5, WriteAlone DEF MarkUnsure, Listing, TxStatus, Gid
<1>. QED BY <1>1, <1>2, <1>3, <1>4, <1>5, <1>6, <1>7, <1>8

(* Every step of POST /orders.                                              *)
LEMMA RequestAlone ==
  ASSUME TypeInv, TypeInv', ServeInv, AloneInv, NEW r \in Requests, OnlyOne(r), CreateOrder(r)
  PROVE  AloneInv' /\ SuccessStays
BY RequestReads, RequestPicks, RequestPays DEF CreateOrder

-------------------------------------------------------------------------------
(* The ends of an attempt, and the way back to a paid row                  *)

(* Going on with the same row, a handler keeps its list.                    *)
LEMMA SameList ==
  ASSUME NEW h, NEW k, NEW n, SeesList(h, k, n), NEW l, NEW m, l \notin Listing,
         m.todo = n.todo, m.t = n.t
  PROVE  SeesList(h, l, m)
BY DEF SeesList, Listing

(* What a handler with a row in hand has read and knows.                    *)
LEMMA WithRow ==
  ASSUME TypeInv, ServeInv, AloneInv, NEW h \in Handlers, NEW k, pc[h] = k, k \notin NoRow
  PROVE  \E n \in Local : /\ n = my[h] /\ Acts(k, n) /\ SeesList(h, k, n)
                          /\ KnownRow(n.t) /\ KnownSession(n.s) /\ tx[n.t].sess = n.s
                          /\ DueOf(n.t) = sess[n.s].due /\ Serves(h, k, n)
<1>1. PICK n \in Local : /\ n = my[h] /\ Knows(h, k, n) /\ Acts(k, n) /\ SeesList(h, k, n)
                         /\ Serves(h, k, n)
  BY Here
<1>. QED BY <1>1 DEF Knows, NoRow, DueOf

(* The steps that more than one kind of handler takes.                      *)
LEMMA SharedAlone ==
  ASSUME TypeInv, TypeInv', ServeInv, AloneInv, NEW h \in Handlers, OnlyOne(h),
         Resume(h) \/ MarkFailed(h) \/ Reopen(h)
  PROVE  AloneInv' /\ SuccessStays
<1>. USE DEF OfSession, OfIntent, Unsettled, OnCard,
             Fulfilling, Splitting, AfterDebitAt, LinkedAt, WithOrderAt, Body
<1>0. /\ Tables /\ sess \in [Checkouts -> SessionRow] /\ tx \in [Requests -> TxRow]
      /\ balance \in Nat
  BY DEF TypeInv, TypeOK, AloneInv
<1>1. CASE Resume(h)
  <2>1. PICK n \in Local : /\ n = my[h] /\ Acts("resume", n) /\ SeesList(h, "resume", n)
                           /\ KnownRow(n.t) /\ KnownSession(n.s) /\ tx[n.t].sess = n.s
    BY <1>1, WithRow DEF Resume, At, NoRow, NoSession, Opening
  <2>2. CASE Leave(h)
    BY <1>1, <2>2, LeaveQuietly DEF Resume
  <2>3. CASE Load(h, IF my[h].seen = "FULFILLING" THEN "load" ELSE "cas",
                  [my[h] EXCEPT !.s = tx[my[h].t].sess,
                                !.wallet = sess[tx[my[h].t].sess].wallet,
                                !.due = sess[tx[my[h].t].sess].due])
    <3>. DEFINE l == IF n.seen = "FULFILLING" THEN "load" ELSE "cas"
                m == [n EXCEPT !.s = tx[n.t].sess, !.wallet = sess[tx[n.t].sess].wallet,
                               !.due = sess[tx[n.t].sess].due]
    <3>1. Load(h, l, m)
      BY <2>1, <2>3
    <3>2. /\ m.t = n.t /\ m.s = n.s /\ m.todo = n.todo /\ m.gid = n.gid /\ m.seen = n.seen
          /\ m.wallet = sess[n.s].wallet /\ m.due = sess[n.s].due
      BY <2>1 DEF Local
    <3>3. /\ l \in {"load", "cas"} /\ (l = "load" => n.seen = "FULFILLING")
      OBVIOUS
    <3>. HIDE DEF l, m
    <3>4. Acts(l, m)
      BY <2>1, <3>2, <3>3 DEF Acts, SeesSession, SeesRow, SeesOrder
    <3>5. SeesList(h, l, m)
      BY <2>1, <3>2, <3>3, SameList DEF Listing
    <3>. QED BY <1>1, <3>1, <3>4, <3>5, QuietAlone DEF Resume
  <2>. QED BY <1>1, <2>2, <2>3 DEF Resume
<1>2. CASE MarkFailed(h)
  <2>1. PICK n \in Local : /\ n = my[h] /\ Acts("fail", n) /\ SeesList(h, "fail", n)
                           /\ KnownRow(n.t) /\ KnownSession(n.s) /\ tx[n.t].sess = n.s
    BY <1>2, WithRow DEF MarkFailed, At, NoRow, NoSession, Opening
  <2>2. PICK g \in Gid : g = tx[n.t].gid
    BY <1>0, <2>1 DEF TxRow, KnownRow
  <2>3. MayWrite(n.t, "FAILED", g)
    BY <1>0, <2>1, <2>2 DEF MayWrite, Acts, SeesRow, PaidStatus, KnownRow, Tables, RowsInv, SplitIsFixed
  <2>4. Load(h, "reopen", n) /\ UpdateTx(n.t, "FAILED", g)
    BY <1>2, <2>1, <2>2, GotoAny DEF MarkFailed
  <2>5. Unpaid(n.s)'
    <3>1. n.s # None /\ n.t \in Requests /\ OpenRow(n.t)
      BY <2>1, CheckoutAssumption DEF KnownSession, KnownRow, OpenRow, Acts, SeesRow
    <3>2. \A t \in Requests \ {n.t} : tx[t].sess = n.s => tx[t].status = "FAILED"
      BY <1>0, <2>1, <3>1 DEF Tables, OneOpenRow, OpenRow, RowsInv
    <3>. QED BY <2>1, <2>4, <3>1, <3>2, RowUpdated DEF Unpaid
  <2>6. Acts("reopen", n)'
    BY <2>5 DEF Acts, SeesSession, SeesRow, SeesOrder
  <2>. QED BY <1>2, <2>1, <2>3, <2>4, <2>6, WriteAlone DEF MarkFailed, Listing, TxStatus
<1>3. CASE Reopen(h)
  <2>1. PICK n \in Local : n = my[h] /\ Acts("reopen", n) /\ KnownSession(n.s)
    BY <1>3, WithRow DEF Reopen, At, NoRow, NoSession, Opening
  <2>2. \A s \in Checkouts : /\ sess'[s].wallet = sess[s].wallet /\ sess'[s].due = sess[s].due
                             /\ sess'[s].promo = sess[s].promo
                             /\ sess'[s].status = "none" <=> sess[s].status = "none"
                             /\ sess[s].status = "confirmed" =>
                                    sess'[s].status = "confirmed" \/ Unpaid(s)
    BY <1>0, <1>3, <2>1 DEF Reopen, UpdateSession, SessionRow, KnownSession, Acts, SeesRow
  <2>3. Tables'
    BY <1>0, <1>3, <2>2, StatusesMayChange DEF Reopen, store, ledger, Tables, OneSubscription
  <2>4. SuccessStays
    BY <1>3 DEF Reopen, store, SuccessStays
  <2>. QED BY <1>3, <2>3, <2>4, LeaveAlone DEF Reopen, store
<1>. QED BY <1>1, <1>2, <1>3

(* The webhook acts on a row that is not finished, and not given up.        *)
LEMMA HookAlone ==
  ASSUME TypeInv, TypeInv', ServeInv, AloneInv, NEW k \in Hooks, OnlyOne(k),
         HandleMoyasarWebhook(k)
  PROVE  AloneInv' /\ SuccessStays
<1>. USE DEF OfSession, OfIntent, Unsettled, OnCard,
             Fulfilling, Splitting, AfterDebitAt, LinkedAt, WithOrderAt, Body
<1>0. /\ k \in Handlers /\ k \notin Jobs /\ Tables /\ tx \in [Requests -> TxRow]
  BY CheckoutAssumption DEF Handlers, TypeInv, TypeOK, AloneInv
<1>1. CASE WebhookArrives(k)
  <2>1. PICK t \in Requests :
          \E m : /\ m = [Blank EXCEPT !.t = t, !.s = tx[t].sess, !.seen = tx[t].status,
                                      !.gid = tx[t].gid]
                 /\ \/ pay[t] = "paid" /\ ~NothingLeft(m.seen) /\ Load(k, "hook_settle", m)
                    \/ pay[t] = "failed" /\ m.seen = "INITIATED" /\ Load(k, "fail", m)
    BY <1>1 DEF WebhookArrives
  <2>2. PICK m : /\ m = [Blank EXCEPT !.t = t, !.s = tx[t].sess, !.seen = tx[t].status,
                                      !.gid = tx[t].gid]
                 /\ \/ pay[t] = "paid" /\ ~NothingLeft(m.seen) /\ Load(k, "hook_settle", m)
                    \/ pay[t] = "failed" /\ m.seen = "INITIATED" /\ Load(k, "fail", m)
    BY <2>1
  <2>3. m.t = t /\ m.seen = tx[t].status /\ m.gid = tx[t].gid /\ m.todo = {}
    BY <2>2 DEF Blank
  <2>4. \A l \in {"hook_settle", "fail"} : SeesList(k, l, m)
    BY <1>0, <2>3 DEF SeesList, Listing
  <2>5. CASE pay[t] = "paid" /\ ~NothingLeft(m.seen) /\ Load(k, "hook_settle", m)
    <3>1. tx[t].status \in {"INITIATED", "PAID_UNFULFILLED", "FULFILLING"}
      <4>1. tx[t].status # "none"
        BY <2>5 DEF TypeInv, PaymentsOK
      <4>2. tx[t].status # "FAILED"
        BY <1>0, <2>5, <4>1 DEF Tables, RowsInv, GivenUp
      <4>. QED BY <1>0, <2>3, <2>5, <4>1, <4>2 DEF NothingLeft, TxRow, TxStatus
    <3>2. Acts("hook_settle", m)
      BY <2>3, <2>5, <3>1 DEF Acts, SeesSession, SeesRow, SeesOrder, Paid
    <3>. QED BY <1>0, <1>1, <2>4, <2>5, <3>2, QuietAlone DEF WebhookArrives
  <2>6. CASE pay[t] = "failed" /\ m.seen = "INITIATED" /\ Load(k, "fail", m)
    <3>1. Acts("fail", m)
      BY <2>3, <2>6 DEF Acts, SeesSession, SeesRow, SeesOrder, GivenUp
    <3>. QED BY <1>0, <1>1, <2>4, <2>6, <3>1, QuietAlone DEF WebhookArrives
  <2>. QED BY <2>2, <2>5, <2>6
<1>2. CASE WebhookSettles(k)
  <2>1. PICK n \in Local : /\ n = my[k] /\ Acts("hook_settle", n) /\ SeesList(k, "hook_settle", n)
                           /\ KnownRow(n.t)
    BY <1>0, <1>2, WithRow DEF WebhookSettles, At, NoRow, NoSession, Opening
  <2>2. PICK st \in {"FULFILLING", "PAID_UNFULFILLED"} : st = HookStatus(n.seen)
    BY DEF HookStatus
  <2>3. MayWrite(n.t, st, "card")
    <3>1. MaxTopUps = 0 => DueOf(n.t) > 0
      BY <1>0, <2>1 DEF Acts, SeesRow, Paid, KnownRow, Tables, SplitIsFixed, ChargesInv
    <3>. QED BY <2>1, <2>2, <3>1 DEF MayWrite, Acts, SeesRow, PaidStatus, PaidFor
  <2>. DEFINE m == [n EXCEPT !.seen = st, !.gid = "card"]
  <2>4. m.t = n.t /\ m.todo = n.todo /\ m.gid = "card" /\ m.seen = st
    BY <2>1 DEF Local
  <2>5. Load(k, "resume", m) /\ UpdateTx(n.t, st, "card")
    BY <1>2, <2>1, <2>2 DEF WebhookSettles
  <2>. HIDE DEF m
  <2>6. tx'[n.t].status = st /\ tx'[n.t].gid = "card"
    BY <2>1, <2>5, RowUpdated
  <2>7. Acts("resume", m)'
    BY <2>2, <2>4, <2>6 DEF Acts, SeesSession, SeesRow, SeesOrder
  <2>. QED BY <1>0, <1>2, <2>1, <2>3, <2>4, <2>5, <2>7, WriteAlone
           DEF WebhookSettles, Listing, TxStatus, Gid
<1>. QED BY <1>1, <1>2 DEF HandleMoyasarWebhook

(* The job works through rows that are still as it listed them.             *)
LEMMA JobAlone ==
  ASSUME TypeInv, TypeInv', ServeInv, AloneInv, NEW j \in Jobs, OnlyOne(j),
         SyncPendingPayments(j)
  PROVE  AloneInv' /\ SuccessStays
<1>. USE DEF OfSession, OfIntent, Unsettled, OnCard,
             Fulfilling, Splitting, AfterDebitAt, LinkedAt, WithOrderAt, Body
<1>0. /\ j \in Handlers /\ Tables /\ tx \in [Requests -> TxRow]
  BY DEF Handlers, TypeInv, TypeOK, AloneInv
<1>1. ASSUME NEW from \in Listing \ {"done"}, NEW st \in {"INITIATED", "PAID_UNFULFILLED", "FULFILLING"},
             NEW to \in {"job_paid", "job_busy", "job_next"}, JobList(j, from, st, to)
      PROVE  AloneInv' /\ SuccessStays
  <2>1. PICK n \in Local : n = my[j] /\ SeesList(j, from, n)
    BY <1>0, <1>1, Here DEF JobList, At
  <2>. DEFINE m == [n EXCEPT !.todo = @ \cup Rows(st)]
  <2>2. m.t = n.t /\ m.todo = n.todo \cup Rows(st)
    BY <2>1 DEF Local
  <2>3. Load(j, to, m)
    BY <1>1, <2>1 DEF JobList
  <2>. HIDE DEF m
  <2>4. \A i \in Rows(st) :
           /\ i.t \in Requests /\ i.t # None
           /\ i.seen = tx[i.t].status /\ i.gid = tx[i.t].gid /\ i.seen = st
           /\ i.walletOnly <=> tx[i.t].amount = 0 \/ i.gid = "wallet"
    <3>. TAKE i \in Rows(st)
    <3>1. PICK t \in Requests :
            /\ InList(t, st)
            /\ i = [t |-> t, seen |-> st, gid |-> tx[t].gid,
                    walletOnly |-> tx[t].amount = 0 \/ tx[t].gid = "wallet"]
      BY DEF Rows
    <3>2. t # None /\ tx[t].status = st
      BY <3>1, CheckoutAssumption DEF InList
    <3>. QED BY <3>1, <3>2
  <2>5. SeesList(j, to, m)
    BY <2>1, <2>2, <2>4 DEF SeesList, Listing
  <2>6. Acts(to, m)
    BY NothingSeen DEF Listing
  <2>. QED BY <1>0, <1>1, <2>3, <2>5, <2>6, QuietAlone DEF JobList
<1>2. CASE JobReadInitiated(j) \/ JobReadPaid(j) \/ JobReadFulfilling(j)
  BY <1>1, <1>2 DEF JobReadInitiated, JobReadPaid, JobReadFulfilling, Listing
<1>3. CASE JobTakesRow(j)
  <2>1. PICK n \in Local : n = my[j] /\ SeesList(j, "job_next", n)
    BY <1>0, <1>3, Here DEF JobTakesRow, At
  <2>2. PICK i \in n.todo :
          Load(j, IF i.seen # "INITIATED" THEN "resume"
                  ELSE IF i.walletOnly THEN "job_wallet" ELSE "job_fetch",
               [n EXCEPT !.t = i.t, !.s = tx[i.t].sess, !.seen = i.seen,
                         !.gid = i.gid, !.todo = @ \ {i}])
    BY <1>3, <2>1 DEF JobTakesRow
  <2>. DEFINE l == IF i.seen # "INITIATED" THEN "resume"
                   ELSE IF i.walletOnly THEN "job_wallet" ELSE "job_fetch"
              m == [n EXCEPT !.t = i.t, !.s = tx[i.t].sess, !.seen = i.seen,
                             !.gid = i.gid, !.todo = @ \ {i}]
  <2>3. m.t = i.t /\ m.seen = i.seen /\ m.gid = i.gid /\ m.todo = n.todo \ {i}
    BY <2>1 DEF Local
  <2>4. Load(j, l, m)
    BY <2>2
  <2>5. /\ i.seen = tx[i.t].status /\ i.gid = tx[i.t].gid
        /\ i.seen \in {"INITIATED", "PAID_UNFULFILLED", "FULFILLING"}
        /\ i.walletOnly <=> tx[i.t].amount = 0 \/ i.gid = "wallet"
    BY <2>1, <2>2 DEF SeesList
  <2>6. /\ l \in {"resume", "job_wallet", "job_fetch"}
        /\ l = "resume" => i.seen # "INITIATED"
        /\ l \in {"job_wallet", "job_fetch"} => i.seen = "INITIATED"
        /\ l = "job_wallet" => i.walletOnly
    OBVIOUS
  <2>. HIDE DEF l, m
  <2>7. Acts(l, m)
    BY <2>3, <2>5, <2>6 DEF Acts, SeesSession, SeesRow, SeesOrder
  <2>8. SeesList(j, l, m)
    <3>1. ASSUME NEW k \in n.todo \ {i} PROVE k.t # i.t
      <4>1. k \in Item /\ i \in Item
        BY <2>1 DEF Local
      <4>2. /\ k.seen = tx[k.t].status /\ k.gid = tx[k.t].gid
            /\ k.walletOnly <=> tx[k.t].amount = 0 \/ k.gid = "wallet"
        BY <2>1, <3>1 DEF SeesList
      <4>. SUFFICES ASSUME k.t = i.t PROVE k = i
        BY <3>1
      <4>3. k.seen = i.seen /\ k.gid = i.gid /\ k.walletOnly = i.walletOnly
        BY <2>5, <4>1, <4>2 DEF Item
      <4>. QED BY <4>1, <4>3 DEF Item
    <3>. QED BY <2>1, <2>3, <2>6, <3>1 DEF SeesList, Listing
  <2>. QED BY <1>0, <1>3, <2>4, <2>7, <2>8, QuietAlone DEF JobTakesRow
<1>4. CASE JobEnds(j)
  <2>1. Blank.t = None /\ Blank.todo = {}
    BY DEF Blank
  <2>2. SeesList(j, "idle", Blank) /\ Acts("idle", Blank)
    BY <2>1, NothingSeen DEF SeesList, Listing
  <2>. QED BY <1>0, <1>4, <2>2, QuietAlone DEF JobEnds
<1>5. CASE JobSettlesWallet(j)
  <2>1. PICK n \in Local : /\ n = my[j] /\ Acts("job_wallet", n) /\ SeesList(j, "job_wallet", n)
                           /\ KnownRow(n.t)
    BY <1>0, <1>5, WithRow DEF JobSettlesWallet, At, NoRow, NoSession, Opening
  <2>2. PICK g \in Gid : g = IF n.gid = "none" THEN "wallet" ELSE n.gid
    BY DEF Gid, Local
  <2>3. MayWrite(n.t, "PAID_UNFULFILLED", g)
    <3>1. /\ n.t \in Requests /\ tx[n.t].status = "INITIATED" /\ tx[n.t].gid = n.gid
          /\ tx[n.t].amount = 0 \/ n.gid = "wallet"
      BY <2>1 DEF Acts, SeesRow, KnownRow
    <3>2. tx[n.t].amount >= DueOf(n.t) /\ (n.gid = "wallet" => DueOf(n.t) = 0)
      BY <1>0, <3>1 DEF Tables, RowsInv
    <3>3. DueOf(n.t) \in Nat
      BY <3>1 DEF DueOf, TypeInv, TypeOK, RowsOK, KnownSession, SessionRow
    <3>4. MaxTopUps = 0 /\ n.gid = "card" => DueOf(n.t) > 0
      BY <1>0, <3>1 DEF Tables, SplitIsFixed
    <3>. QED BY <2>2, <3>1, <3>2, <3>3, <3>4 DEF MayWrite, PaidStatus, PaidFor, Gid
  <2>. DEFINE m == [n EXCEPT !.seen = "PAID_UNFULFILLED", !.gid = g]
  <2>4. m.t = n.t /\ m.todo = n.todo /\ m.gid = g /\ m.seen = "PAID_UNFULFILLED"
    BY <2>1 DEF Local
  <2>5. Load(j, "resume", m) /\ UpdateTx(n.t, "PAID_UNFULFILLED", g)
    BY <1>5, <2>1, <2>2 DEF JobSettlesWallet
  <2>. HIDE DEF m
  <2>6. tx'[n.t].status = "PAID_UNFULFILLED" /\ tx'[n.t].gid = g
    BY <2>1, <2>5, RowUpdated
  <2>7. Acts("resume", m)'
    BY <2>4, <2>6 DEF Acts, SeesSession, SeesRow, SeesOrder
  <2>. QED BY <1>0, <1>5, <2>1, <2>3, <2>4, <2>5, <2>7, WriteAlone
           DEF JobSettlesWallet, Listing, TxStatus
<1>6. CASE JobFetches(j)
  <2>1. PICK n \in Local : /\ n = my[j] /\ Acts("job_fetch", n) /\ SeesList(j, "job_fetch", n)
    BY <1>0, <1>6, Here DEF JobFetches, At
  <2>2. CASE Leave(j)
    BY <1>0, <1>6, <2>2, LeaveQuietly DEF JobFetches
  <2>3. CASE Settled(pay[my[j].t]) /\ Goto(j, "job_settle")
    <3>1. Load(j, "job_settle", n)
      BY <1>0, <2>1, <2>3, GotoAny
    <3>2. Acts("job_settle", n)
      BY <2>1, <2>3 DEF Acts, SeesSession, SeesRow, SeesOrder, Settled, Paid
    <3>. QED BY <1>0, <1>6, <2>1, <3>1, <3>2, SameList, QuietAlone DEF JobFetches, Listing
  <2>4. CASE pay[my[j].t] = "failed" /\ Goto(j, "fail")
    <3>1. Load(j, "fail", n)
      BY <1>0, <2>1, <2>4, GotoAny
    <3>2. Acts("fail", n)
      BY <2>1, <2>4 DEF Acts, SeesSession, SeesRow, SeesOrder, GivenUp
    <3>. QED BY <1>0, <1>6, <2>1, <3>1, <3>2, SameList, QuietAlone DEF JobFetches, Listing
  <2>. QED BY <1>6, <2>2, <2>3, <2>4 DEF JobFetches
<1>7. CASE JobSettles(j)
  <2>1. PICK n \in Local : /\ n = my[j] /\ Acts("job_settle", n) /\ SeesList(j, "job_settle", n)
                           /\ KnownRow(n.t)
    BY <1>0, <1>7, WithRow DEF JobSettles, At, NoRow, NoSession, Opening
  <2>2. MayWrite(n.t, "PAID_UNFULFILLED", "card")
    <3>1. MaxTopUps = 0 => DueOf(n.t) > 0
      BY <1>0, <2>1 DEF Acts, SeesRow, Paid, KnownRow, Tables, SplitIsFixed, ChargesInv
    <3>. QED BY <2>1, <3>1 DEF MayWrite, Acts, SeesRow, PaidStatus, PaidFor
  <2>. DEFINE m == [n EXCEPT !.seen = "PAID_UNFULFILLED", !.gid = "card"]
  <2>3. m.t = n.t /\ m.todo = n.todo /\ m.gid = "card" /\ m.seen = "PAID_UNFULFILLED"
    BY <2>1 DEF Local
  <2>4. Load(j, "resume", m) /\ UpdateTx(n.t, "PAID_UNFULFILLED", "card")
    BY <1>7, <2>1 DEF JobSettles
  <2>. HIDE DEF m
  <2>5. tx'[n.t].status = "PAID_UNFULFILLED" /\ tx'[n.t].gid = "card"
    BY <2>1, <2>4, RowUpdated
  <2>6. Acts("resume", m)'
    BY <2>3, <2>5 DEF Acts, SeesSession, SeesRow, SeesOrder
  <2>. QED BY <1>0, <1>7, <2>1, <2>2, <2>3, <2>4, <2>6, WriteAlone
           DEF JobSettles, Listing, TxStatus, Gid
<1>. QED BY <1>2, <1>3, <1>4, <1>5, <1>6, <1>7 DEF SyncPendingPayments

-------------------------------------------------------------------------------
(* fulfillPaidCheckout                                                     *)

(* A first order for a paid row under that payment id.                      *)
LEMMA NewOrder ==
  ASSUME TypeInv, Tables, NEW t \in Requests, NEW g \in Gid, NEW e,
         tx[t].status = "FULFILLING", tx[t].gid = g, ~HasOrder(t, g),
         e.tx = t, e.gid = g, e.debit = 0, e.sub = sess[tx[t].sess].promo,
         DOMAIN orders' = 1..(Len(orders) + 1), orders'[Len(orders) + 1] = e,
         \A i \in DOMAIN orders : orders'[i] = orders[i],
         UNCHANGED <<gateway, sess, tx, subs, balance>>
  PROVE  Tables'
<1>0. /\ UNCHANGED <<pay, posts, charged, sess, tx, subs, balance>>
      /\ DOMAIN orders = 1..Len(orders) /\ Len(orders) \in Nat /\ t # None
  BY Lengths, CheckoutAssumption DEF gateway
<1>1. PICK n \in Nat : n = Len(orders) + 1 /\ n \notin DOMAIN orders /\ DOMAIN orders' = DOMAIN orders \cup {n}
  BY <1>0
<1>2. orders'[n] = e
  BY <1>1
<1>3. \A u \in Requests : Paid(u)' = Paid(u) /\ GivenUp(u)' = GivenUp(u) /\ DueOf(u)' = DueOf(u)
  BY <1>0 DEF Paid, GivenUp, Outstanding, DueOf
<1>4. OneOpenRow' /\ SplitsInv' /\ OneSubscription'
  BY <1>0 DEF Tables, OneOpenRow, OpenRow, SplitsInv, OneSubscription
<1>5. RowsInv' /\ ChargesInv'
  <2>1. RowsInv'
    BY <1>0, <1>3 DEF Tables, RowsInv, PaidFor
  <2>2. ChargesInv'
    BY <1>0 DEF Tables, ChargesInv, DueOf
  <2>. QED BY <2>1, <2>2
<1>6. KeysInv'
  <2>1. \A i \in DOMAIN orders : ~(orders'[i].tx = orders'[n].tx /\ orders'[i].gid = orders'[n].gid)
    BY <1>2 DEF HasOrder
  <2>2. \A i, j \in DOMAIN orders :
            orders'[i].tx # None /\ orders'[i].tx = orders'[j].tx /\ orders'[i].gid = orders'[j].gid
                => i = j
    BY DEF Tables, KeysInv
  <2>3. \A i \in DOMAIN orders' : orders'[i].tx = None => orders'[i].gid = "none"
    BY <1>0, <1>1, <1>2 DEF Tables, KeysInv
  <2>. QED BY <1>1, <2>1, <2>2, <2>3 DEF KeysInv
<1>7. SuccessIsDone'
  BY <1>0, <1>1 DEF Tables, SuccessIsDone, Done
<1>8. g # "none" /\ PaidFor(t, g) /\ (g = "wallet" => DueOf(t) = 0)
  BY DEF Tables, RowsInv, PaidStatus
<1>9. OrdersInv'
  <2>. SUFFICES ASSUME NEW i \in DOMAIN orders', orders'[i].tx # None
                PROVE  LET u == orders'[i].tx
                           row == sess[tx[u].sess]
                       IN  /\ tx[u].status \in PaidStatus
                           /\ orders'[i].gid # "none" /\ PaidFor(u, orders'[i].gid)
                           /\ orders'[i].debit > 0 => row.status = "confirmed" /\ orders'[i].debit = row.wallet
                           /\ orders'[i].sub # 0 /\ row.promo = 0 =>
                                  row.status = "confirmed" /\ orders'[i].debit = row.wallet
    BY <1>0 DEF OrdersInv, PaidFor, Paid
  <2>1. CASE i \in DOMAIN orders
    BY <2>1 DEF Tables, OrdersInv
  <2>2. CASE i = n
    BY <1>2, <1>8, <2>2 DEF PaidStatus
  <2>. QED BY <1>1, <2>1, <2>2
<1>10. ASSUME MaxTopUps = 0 PROVE SplitIsFixed'
  <2>1. SplitIsFixed
    BY <1>10 DEF Tables
  <2>2. g = IF DueOf(t) > 0 THEN "card" ELSE "wallet"
    BY <1>8, <2>1 DEF SplitIsFixed, Gid
  <2>3. \A i \in DOMAIN orders' : orders'[i].tx # None =>
            orders'[i].gid = IF DueOf(orders'[i].tx) > 0 THEN "card" ELSE "wallet"
    <3>. TAKE i \in DOMAIN orders'
    <3>1. CASE i \in DOMAIN orders
      BY <2>1, <3>1 DEF SplitIsFixed
    <3>2. CASE i = n
      BY <1>2, <2>2, <3>2
    <3>. QED BY <1>1, <3>1, <3>2
  <2>. QED BY <1>0, <2>1, <2>3 DEF SplitIsFixed, DueOf, WalletPart
<1>. QED BY <1>4, <1>5, <1>6, <1>7, <1>9, <1>10 DEF Tables

(* An order of a confirmed session gets its debit, or its link to a plan.   *)
LEMMA OrderMayChange ==
  ASSUME TypeInv, Tables, NEW o \in DOMAIN orders, NEW t \in Requests, orders[o].tx = t,
         DOMAIN orders' = DOMAIN orders,
         \A i \in DOMAIN orders : /\ orders'[i].tx = orders[i].tx /\ orders'[i].gid = orders[i].gid
                                  /\ orders[i].sub # 0 => orders'[i].sub # 0,
         \A i \in DOMAIN orders : i # o => orders'[i] = orders[i],
         sess[tx[t].sess].status = "confirmed", orders'[o].debit = sess[tx[t].sess].wallet,
         balance' \in Nat, balance' <= balance,
         UNCHANGED <<gateway, sess, tx, subs>>
  PROVE  Tables'
<1>0. /\ UNCHANGED <<pay, posts, charged, sess, tx, subs>> /\ balance \in Nat /\ Price \in Nat
  BY CheckoutAssumption DEF gateway, TypeInv, TypeOK
<1>3. \A u \in Requests : Paid(u)' = Paid(u) /\ GivenUp(u)' = GivenUp(u) /\ DueOf(u)' = DueOf(u)
  BY <1>0 DEF Paid, GivenUp, Outstanding, DueOf
<1>4. OneOpenRow' /\ SplitsInv' /\ OneSubscription' /\ KeysInv'
  BY <1>0 DEF Tables, OneOpenRow, OpenRow, SplitsInv, OneSubscription, KeysInv
<1>5. RowsInv' /\ ChargesInv'
  <2>1. RowsInv'
    BY <1>0, <1>3 DEF Tables, RowsInv, PaidFor
  <2>2. ChargesInv'
    BY <1>0 DEF Tables, ChargesInv, DueOf
  <2>. QED BY <2>1, <2>2
<1>6. SuccessIsDone'
  BY <1>0 DEF Tables, SuccessIsDone, Done
<1>7. OrdersInv'
  <2>. SUFFICES ASSUME NEW i \in DOMAIN orders, orders[i].tx # None
                PROVE  LET u == orders[i].tx
                           row == sess[tx[u].sess]
                       IN  /\ tx[u].status \in PaidStatus
                           /\ orders[i].gid # "none" /\ PaidFor(u, orders[i].gid)
                           /\ orders'[i].debit > 0 => row.status = "confirmed" /\ orders'[i].debit = row.wallet
                           /\ orders'[i].sub # 0 /\ row.promo = 0 =>
                                  row.status = "confirmed" /\ orders'[i].debit = row.wallet
    BY <1>0 DEF OrdersInv, PaidFor, Paid
  <2>1. CASE i # o
    BY <2>1 DEF Tables, OrdersInv
  <2>2. CASE i = o
    BY <2>2 DEF Tables, OrdersInv
  <2>. QED BY <2>1, <2>2
<1>8. ASSUME MaxTopUps = 0 PROVE SplitIsFixed'
  <2>1. SplitIsFixed
    BY <1>8 DEF Tables
  <2>2. WalletPart(balance)' <= WalletPart(balance)
    BY <1>0 DEF WalletPart, Least
  <2>3. \A s \in Checkouts : sess'[s].status # "none" => WalletPart(balance)' <= sess'[s].wallet
    <3>. TAKE s \in Checkouts
    <3>. HAVE sess'[s].status # "none"
    <3>1. WalletPart(balance) <= sess[s].wallet /\ sess[s].wallet \in Nat
      BY <1>0, <2>1 DEF SplitIsFixed, TypeInv, TypeOK, SessionRow
    <3>2. WalletPart(balance) \in Nat /\ WalletPart(balance)' \in Nat
      BY <1>0 DEF WalletPart, Least
    <3>. QED BY <1>0, <2>2, <3>1, <3>2
  <2>4. \A i \in DOMAIN orders' : orders'[i].tx # None =>
            orders'[i].gid = IF DueOf(orders'[i].tx) > 0 THEN "card" ELSE "wallet"
    BY <2>1 DEF SplitIsFixed
  <2>. QED BY <1>0, <2>1, <2>3, <2>4 DEF SplitIsFixed, DueOf
<1>. QED BY <1>4, <1>5, <1>6, <1>7, <1>8 DEF Tables

(* From one await of the fulfilment to another, its row and its session     *)
(* stay the same: what is left to show is about its order.                  *)
LEMMA InBody ==
  ASSUME NEW k \in Fulfilling, NEW n, Acts(k, n), NEW l \in Fulfilling, NEW m,
         m.s = n.s, m.t = n.t, m.gid = n.gid, m.wallet = n.wallet, m.due = n.due,
         SeesOrder(l, m),
         l \in {"debit"} \cup AfterDebitAt => sess[n.s].status = "confirmed"
  PROVE  Acts(l, m) /\ l \notin Listing
BY DEF Acts, SeesSession, SeesRow, OfSession, OfIntent, Unsettled, OnCard, Fulfilling, Splitting,
       AfterDebitAt, LinkedAt, Body, Listing

(* A step from one await of fulfilPaidCheckout to another one that writes no*)
(* order, no row of a payment and no session.                               *)
LEMMA BodyAlone ==
  ASSUME TypeInv, AloneInv, NEW h \in Handlers, OnlyOne(h),
         NEW k \in Fulfilling, NEW n, Acts(k, n), SeesList(h, k, n),
         NEW l \in Fulfilling, NEW m, Load(h, l, m),
         m.s = n.s, m.t = n.t, m.gid = n.gid, m.wallet = n.wallet, m.due = n.due,
         m.todo = n.todo, SeesOrder(l, m),
         l \in {"debit"} \cup AfterDebitAt => sess[n.s].status = "confirmed",
         UNCHANGED <<gateway, sess, tx, orders, balance>>,
         Len(subs') <= 1, UNCHANGED subs \/ l # "create_sub"
  PROVE  AloneInv' /\ SuccessStays
<1>1. Acts(l, m) /\ l \notin Listing
  BY InBody
<1>2. SeesList(h, l, m)
  BY <1>1, SameList
<1>. QED BY <1>1, <1>2, ReadAlone

(* A fulfilment up to its order.                                            *)
LEMMA FulfilBegins ==
  ASSUME TypeInv, TypeInv', ServeInv, AloneInv, NEW h \in Handlers, OnlyOne(h),
         \/ BeginFulfilment(h) \/ LostFulfilment(h) \/ LoadOrder(h) \/ CheckCover(h)
         \/ ReadIsNew(h) \/ InsertOrder(h) \/ MarkSuccess(h) \/ BodyThrows(h) \/ Catch(h)
  PROVE  AloneInv' /\ SuccessStays
<1>. USE DEF Fulfilling, Body
<1>0. /\ Tables /\ tx \in [Requests -> TxRow] /\ Len(subs) <= 1
  BY DEF TypeInv, TypeOK, AloneInv, Tables, OneSubscription
<1>a. ASSUME NEW k, pc[h] = k, k \in Fulfilling \cup {"cas"}
      PROVE  \E n \in Local : /\ n = my[h] /\ Acts(k, n) /\ SeesList(h, k, n) /\ Serves(h, k, n)
                              /\ KnownRow(n.t) /\ n.t \in Requests /\ n.gid \in Gid /\ n.gid # "none"
                              /\ tx[n.t].gid = n.gid /\ tx[n.t].sess = n.s
                              /\ tx[n.t].status \in {"PAID_UNFULFILLED", "FULFILLING"}
                              /\ k \in Fulfilling => tx[n.t].status = "FULFILLING"
  <2>1. PICK n \in Local : /\ n = my[h] /\ Acts(k, n) /\ SeesList(h, k, n) /\ Serves(h, k, n)
                           /\ KnownRow(n.t) /\ tx[n.t].sess = n.s
    BY <1>a, WithRow DEF NoRow, NoSession, Opening
  <2>2. /\ tx[n.t].gid = n.gid /\ tx[n.t].status \in {"PAID_UNFULFILLED", "FULFILLING"}
        /\ k \in Fulfilling => tx[n.t].status = "FULFILLING"
    BY <1>a, <2>1 DEF Acts, SeesRow
  <2>3. n.t \in Requests /\ n.gid # "none" /\ n.gid \in Gid
    BY <1>0, <2>1, <2>2 DEF KnownRow, Tables, RowsInv, PaidStatus, Local
  <2>. QED BY <2>1, <2>2, <2>3
<1>b. ASSUME NEW t \in Requests, NEW g, g = tx[t].gid, tx[t].status \in {"PAID_UNFULFILLED", "FULFILLING"},
             NEW st \in PaidStatus, st = "SUCCESS" => Done(t, g)
      PROVE  MayWrite(t, st, g)
  BY <1>0, <1>b DEF MayWrite, Tables, RowsInv, SplitIsFixed, PaidStatus
<1>1. CASE BeginFulfilment(h)
  <2>1. PICK n \in Local : /\ n = my[h] /\ Acts("cas", n) /\ SeesList(h, "cas", n)
                           /\ KnownRow(n.t) /\ n.t \in Requests /\ n.gid \in Gid /\ tx[n.t].gid = n.gid
                           /\ tx[n.t].status \in {"PAID_UNFULFILLED", "FULFILLING"}
    BY <1>1, <1>a DEF BeginFulfilment, At
  <2>2. CASE UpdateTx(n.t, "FULFILLING", n.gid) /\ Goto(h, "load")
    <3>1. MayWrite(n.t, "FULFILLING", n.gid)
      BY <1>b, <2>1 DEF PaidStatus
    <3>2. Load(h, "load", n)
      BY <2>1, <2>2, GotoAny
    <3>3. tx'[n.t].status = "FULFILLING" /\ tx'[n.t].gid = n.gid /\ sess' = sess
      BY <1>1, <2>1, <2>2, RowUpdated DEF BeginFulfilment
    <3>4. Acts("load", n)'
      BY <2>1, <3>3 DEF Acts, SeesSession, SeesRow, SeesOrder, OfSession, OfIntent, Unsettled, OnCard,
             Splitting, AfterDebitAt, LinkedAt, WithOrderAt
    <3>. QED BY <1>1, <2>1, <2>2, <3>1, <3>2, <3>4, WriteAlone
             DEF BeginFulfilment, Listing, TxStatus
  <2>3. CASE tx[n.t].status = "FULFILLING" /\ Goto(h, "lost") /\ UNCHANGED store
    <3>1. Load(h, "lost", n)
      BY <2>1, <2>3, GotoAny
    <3>2. Acts("lost", n)
      BY <2>1, <2>3 DEF Acts, SeesSession, SeesRow, SeesOrder, OfSession, OfIntent, Unsettled, OnCard,
             Splitting, AfterDebitAt, LinkedAt, WithOrderAt
    <3>3. SeesList(h, "lost", n)
      BY <2>1, SameList DEF Listing
    <3>. QED BY <1>1, <2>3, <3>1, <3>2, <3>3, QuietAlone DEF BeginFulfilment
  <2>. QED BY <1>1, <2>1, <2>2, <2>3 DEF BeginFulfilment, Fulfillable
<1>2. CASE LostFulfilment(h)
  <2>1. PICK n \in Local : /\ n = my[h] /\ Acts("lost", n) /\ SeesList(h, "lost", n)
                           /\ n.t \in Requests /\ n.gid # "none"
    BY <1>2, <1>a DEF LostFulfilment, At
  <2>2. CASE Leave(h)
    BY <1>2, <2>2, LeaveQuietly DEF LostFulfilment
  <2>3. CASE Finished(n.t, n.gid) /\ Goto(h, "lost_success")
    <3>1. Load(h, "lost_success", n)
      BY <2>1, <2>3, GotoAny
    <3>2. SeesOrder("lost_success", n)
      BY <1>0, <2>1, <2>3, LookedUp DEF SeesOrder, WithOrderAt, LinkedAt, AfterDebitAt
    <3>. QED BY <1>0, <1>2, <2>1, <3>1, <3>2, BodyAlone
             DEF LostFulfilment, store, ledger, AfterDebitAt, LinkedAt
  <2>. QED BY <1>2, <2>1, <2>2, <2>3 DEF LostFulfilment
<1>3. CASE LoadOrder(h)
  <2>1. PICK n \in Local : /\ n = my[h] /\ Acts("load", n) /\ SeesList(h, "load", n)
                           /\ n.t \in Requests /\ n.gid # "none"
    BY <1>3, <1>a DEF LoadOrder, At
  <2>2. CASE \E i \in OrderOf(n.t, n.gid) :
               Load(h, WithOrder(h), [n EXCEPT !.o = i, !.linked = orders[i].sub,
                                               !.first = orders[i].first])
    <3>1. PICK i \in OrderOf(n.t, n.gid) :
               Load(h, WithOrder(h), [n EXCEPT !.o = i, !.linked = orders[i].sub,
                                               !.first = orders[i].first])
      BY <2>2
    <3>. DEFINE m == [n EXCEPT !.o = i, !.linked = orders[i].sub, !.first = orders[i].first]
    <3>2. PICK l \in {"promo_days", "confirm"} : Load(h, l, m)
      BY <3>1 DEF WithOrder
    <3>3. /\ m.s = n.s /\ m.t = n.t /\ m.gid = n.gid /\ m.wallet = n.wallet /\ m.due = n.due
          /\ m.todo = n.todo /\ m.o = i
      BY <2>1 DEF Local
    <3>. HIDE DEF m
    <3>4. SeesOrder(l, m)
      BY <3>1, <3>3 DEF SeesOrder, OrderOf, AfterDebitAt, LinkedAt
    <3>. QED BY <1>0, <1>3, <2>1, <3>2, <3>3, <3>4, BodyAlone
             DEF LoadOrder, store, ledger, AfterDebitAt, LinkedAt
  <2>3. CASE /\ OrderOf(n.t, n.gid) = {}
             /\ Goto(h, IF n.wallet > 0 THEN "cover" ELSE NoOrder(h))
    <3>1. PICK l \in {"cover", "create_order", "is_new"} : Load(h, l, n)
      BY <2>1, <2>3, GotoAny DEF NoOrder
    <3>2. SeesOrder(l, n)
      BY <1>0, <2>1, <2>3, LookedUp DEF SeesOrder, WithOrderAt, LinkedAt, AfterDebitAt
    <3>. QED BY <1>0, <1>3, <2>1, <3>1, <3>2, BodyAlone
             DEF LoadOrder, store, ledger, AfterDebitAt, LinkedAt
  <2>. QED BY <1>3, <2>1, <2>2, <2>3 DEF LoadOrder
<1>4. CASE CheckCover(h)
  <2>1. PICK n \in Local : /\ n = my[h] /\ Acts("cover", n) /\ SeesList(h, "cover", n)
    BY <1>4, <1>a DEF CheckCover, At
  <2>2. PICK l \in {"catch", "create_order", "is_new"} : Load(h, l, n)
    BY <1>4, <2>1, GotoAny DEF CheckCover, NoOrder
  <2>3. SeesOrder(l, n)
    BY <2>1 DEF Acts, SeesOrder, WithOrderAt, LinkedAt, AfterDebitAt
  <2>. QED BY <1>0, <1>4, <2>1, <2>2, <2>3, BodyAlone
           DEF CheckCover, store, ledger, AfterDebitAt, LinkedAt
<1>5. CASE ReadIsNew(h)
  <2>1. PICK n \in Local : /\ n = my[h] /\ Acts("is_new", n) /\ SeesList(h, "is_new", n)
    BY <1>5, <1>a DEF ReadIsNew, At
  <2>. DEFINE m == [n EXCEPT !.first = (orders = << >>)]
  <2>2. Load(h, "create_order", m)
    BY <1>5, <2>1 DEF ReadIsNew
  <2>3. /\ m.s = n.s /\ m.t = n.t /\ m.gid = n.gid /\ m.wallet = n.wallet /\ m.due = n.due
        /\ m.todo = n.todo
    BY <2>1 DEF Local
  <2>. HIDE DEF m
  <2>4. SeesOrder("create_order", m)
    BY <2>1, <2>3 DEF Acts, SeesOrder, WithOrderAt, LinkedAt, AfterDebitAt
  <2>. QED BY <1>0, <1>5, <2>1, <2>2, <2>3, <2>4, BodyAlone
           DEF ReadIsNew, store, ledger, AfterDebitAt, LinkedAt
<1>6. CASE InsertOrder(h)
  <2>1. PICK n \in Local : /\ n = my[h] /\ Acts("create_order", n) /\ SeesList(h, "create_order", n)
                           /\ n.t \in Requests /\ n.gid \in Gid /\ n.gid # "none"
                           /\ tx[n.t].gid = n.gid /\ tx[n.t].sess = n.s
                           /\ tx[n.t].status = "FULFILLING"
    BY <1>6, <1>a DEF InsertOrder, At
  <2>2. PICK e : e = [tx |-> n.t, gid |-> n.gid, sub |-> sess[n.s].promo, debit |-> 0,
                      first |-> n.first]
    OBVIOUS
  <2>3. PICK m : m = [n EXCEPT !.o = Len(orders) + 1, !.linked = sess[n.s].promo]
    OBVIOUS
  <2>11. PICK l \in {"promo_days", "confirm"} : Load(h, l, m)
    BY <1>6, <2>1, <2>3 DEF InsertOrder, WithOrder, Promo
  <2>12. orders' = Append(orders, e) /\ UNCHANGED <<gateway, sess, tx, subs, balance>>
    BY <1>6, <2>1, <2>2 DEF InsertOrder, Promo, store, ledger
  <2>4. /\ e.tx = n.t /\ e.gid = n.gid /\ e.debit = 0 /\ e.sub = sess[tx[n.t].sess].promo
        /\ m.s = n.s /\ m.t = n.t /\ m.gid = n.gid /\ m.wallet = n.wallet /\ m.due = n.due
        /\ m.todo = n.todo /\ m.o = Len(orders) + 1
    BY <2>1, <2>2, <2>3 DEF Local
  <2>5. /\ DOMAIN orders' = 1..(Len(orders) + 1) /\ orders'[Len(orders) + 1] = e
        /\ \A i \in DOMAIN orders : orders'[i] = orders[i]
    <3>1. orders \in Seq(OrderRow)
      BY DEF TypeInv, TypeOK
    <3>. QED BY <2>12, <3>1
  <2>6. ~HasOrder(n.t, n.gid)
    BY <2>1 DEF Acts, SeesOrder
  <2>7. Tables'
    BY <1>0, <2>1, <2>4, <2>5, <2>6, <2>12, NewOrder
  <2>8. Acts(l, m)'
    <3>1. orders'[m.o].gid = m.gid
      BY <2>4, <2>5
    <3>2. tx'[m.t].status = "FULFILLING" /\ tx'[m.t].gid = m.gid
          /\ m.wallet = sess'[m.s].wallet /\ m.due = sess'[m.s].due
      BY <2>1, <2>12, <2>4 DEF Acts, SeesSession, Splitting
    <3>. QED BY <2>11, <3>1, <3>2
         DEF Acts, SeesSession, SeesRow, SeesOrder, OfSession, OfIntent, Unsettled, OnCard,
             Splitting, AfterDebitAt, LinkedAt, WithOrderAt
  <2>9. SeesList(h, l, m)'
    BY <2>1, <2>4, <2>11, <2>12, ListStays DEF Listing
  <2>10. SuccessStays
    BY <2>12 DEF SuccessStays
  <2>. QED BY <2>11, <2>7, <2>8, <2>9, <2>10, AloneStepOf DEF Sees
<1>7. CASE MarkSuccess(h)
  <2>1. PICK k \in {"success", "lost_success"} : pc[h] = k
    BY <1>7 DEF MarkSuccess
  <2>2. PICK n \in Local : /\ n = my[h] /\ Acts(k, n) /\ SeesList(h, k, n) /\ Serves(h, k, n)
                           /\ KnownRow(n.t) /\ n.t \in Requests /\ n.gid \in Gid
                           /\ tx[n.t].gid = n.gid
                           /\ tx[n.t].status \in {"PAID_UNFULFILLED", "FULFILLING"}
    BY <2>1, <1>a
  <2>3. Done(n.t, n.gid)
    BY <2>2 DEF Done, Acts, SeesOrder, Serves, WithOrderAt, LinkedAt
  <2>4. MayWrite(n.t, "SUCCESS", n.gid)
    BY <1>b, <2>2, <2>3 DEF PaidStatus
  <2>. QED BY <1>7, <2>2, <2>4, WriteAndLeave DEF MarkSuccess, TxStatus
<1>8. CASE BodyThrows(h)
  <2>1. PICK k \in Body, n \in Local : /\ n = my[h] /\ Acts(k, n) /\ SeesList(h, k, n)
    BY <1>8, <1>a DEF BodyThrows
  <2>2. Load(h, "catch", n)
    BY <1>8, <2>1, GotoAny DEF BodyThrows
  <2>3. SeesOrder("catch", n)
    BY DEF SeesOrder, WithOrderAt, LinkedAt, AfterDebitAt
  <2>. QED BY <1>0, <1>8, <2>1, <2>2, <2>3, BodyAlone
           DEF BodyThrows, store, ledger, AfterDebitAt, LinkedAt
<1>9. CASE Catch(h)
  <2>1. PICK n \in Local : /\ n = my[h] /\ KnownRow(n.t) /\ n.t \in Requests /\ n.gid \in Gid
                           /\ tx[n.t].gid = n.gid
                           /\ tx[n.t].status \in {"PAID_UNFULFILLED", "FULFILLING"}
    BY <1>9, <1>a DEF Catch, At
  <2>2. MayWrite(n.t, "PAID_UNFULFILLED", n.gid)
    BY <1>b, <2>1 DEF PaidStatus
  <2>. QED BY <1>9, <2>1, <2>2, WriteAndLeave DEF Catch, TxStatus
<1>. QED BY <1>1, <1>2, <1>3, <1>4, <1>5, <1>6, <1>7, <1>8, <1>9

(* A fulfilment from its order on.                                          *)
LEMMA FulfilEnds ==
  ASSUME TypeInv, TypeInv', ServeInv, AloneInv, NEW h \in Handlers, OnlyOne(h),
         \/ PromoteDays(h) \/ PromotePlan(h) \/ PromoteOrder(h) \/ ConfirmSession(h)
         \/ DebitWallet(h) \/ RelinkSubscription(h) \/ ReadLive(h) \/ CreateSubscription(h)
         \/ WriteDays(h) \/ WriteEndDate(h) \/ LinkOrder(h)
         \/ ReadReferred(h) \/ CreditReferrer(h) \/ CreateReferral(h)
  PROVE  AloneInv' /\ SuccessStays
<1>. USE DEF Fulfilling, Body
<1>0. /\ Tables /\ tx \in [Requests -> TxRow] /\ Len(subs) <= 1
      /\ sess \in [Checkouts -> SessionRow] /\ balance \in Nat
  BY DEF TypeInv, TypeOK, AloneInv, Tables, OneSubscription
(* what a handler with an order in hand has read and knows                 *)
<1>a. ASSUME NEW k, pc[h] = k, k \in WithOrderAt
      PROVE  \E n \in Local :
               /\ n = my[h] /\ Acts(k, n) /\ SeesList(h, k, n) /\ Serves(h, k, n) /\ k \in Fulfilling
               /\ n.t \in Requests /\ tx[n.t].sess = n.s /\ n.s \in Checkouts
               /\ sess[n.s].status # "none"
               /\ n.o \in DOMAIN orders /\ orders[n.o].tx = n.t /\ orders[n.o].gid = n.gid
               /\ orders[n.o].debit \in Nat
               /\ n.wallet = sess[n.s].wallet /\ n.due = sess[n.s].due
               /\ k \in {"debit"} \cup AfterDebitAt => sess[n.s].status = "confirmed"
               /\ k \in AfterDebitAt => orders[n.o].debit = sess[n.s].wallet
  <2>1. k \in Fulfilling /\ k \notin NoRow
    BY <1>a DEF WithOrderAt, LinkedAt, NoRow, NoSession, Opening
  <2>2. PICK n \in Local : /\ n = my[h] /\ Acts(k, n) /\ SeesList(h, k, n) /\ Serves(h, k, n)
                           /\ KnownRow(n.t) /\ KnownSession(n.s) /\ tx[n.t].sess = n.s
    BY <1>a, <2>1, WithRow
  <2>3. n.o \in DOMAIN orders /\ orders[n.o].tx = n.t /\ orders[n.o].gid = n.gid
    BY <1>a, <2>2 DEF Serves, Acts, SeesOrder
  <2>4. orders[n.o].debit \in Nat
    BY <2>3, OrdersTyped DEF OrderRow
  <2>5. /\ n.wallet = sess[n.s].wallet /\ n.due = sess[n.s].due
        /\ k \in {"debit"} \cup AfterDebitAt => sess[n.s].status = "confirmed"
        /\ k \in AfterDebitAt => orders[n.o].debit = sess[n.s].wallet
    BY <2>1, <2>2 DEF Acts, SeesSession, SeesOrder, Splitting
  <2>. QED BY <2>1, <2>2, <2>3, <2>4, <2>5 DEF KnownRow, KnownSession
(* going on with the same order                                            *)
<1>b. ASSUME NEW k \in WithOrderAt, pc[h] = k,
             NEW l \in (WithOrderAt \ {"create_sub"}) \cup {"catch"}, NEW m, Load(h, l, m),
             m.s = my[h].s, m.t = my[h].t, m.gid = my[h].gid, m.wallet = my[h].wallet,
             m.due = my[h].due, m.o = my[h].o, m.todo = my[h].todo,
             l \in {"debit"} => k = "debit",
             l \in AfterDebitAt => k \in AfterDebitAt \/ (k = "debit" /\ orders[my[h].o].debit > 0),
             UNCHANGED <<gateway, sess, tx, orders, balance>>, Len(subs') <= 1
      PROVE  AloneInv' /\ SuccessStays
  <2>1. PICK n \in Local :
               /\ n = my[h] /\ Acts(k, n) /\ SeesList(h, k, n) /\ k \in Fulfilling
               /\ n.t \in Requests /\ tx[n.t].sess = n.s
               /\ n.o \in DOMAIN orders /\ orders[n.o].tx = n.t /\ orders[n.o].gid = n.gid
               /\ k \in {"debit"} \cup AfterDebitAt => sess[n.s].status = "confirmed"
               /\ k \in AfterDebitAt => orders[n.o].debit = sess[n.s].wallet
    BY <1>b, <1>a
  <2>2. l \in AfterDebitAt => orders[n.o].debit = sess[n.s].wallet
    <3>1. orders[n.o].debit > 0 => orders[n.o].debit = sess[n.s].wallet
      <4>1. n.t # None
        BY <2>1, CheckoutAssumption
      <4>. QED BY <1>0, <2>1, <4>1 DEF Tables, OrdersInv
    <3>. QED BY <1>b, <2>1, <3>1
  <2>3. SeesOrder(l, m)
    BY <1>b, <2>1, <2>2 DEF SeesOrder, WithOrderAt, LinkedAt
  <2>4. l \in {"debit"} \cup AfterDebitAt => sess[n.s].status = "confirmed"
    BY <1>b, <2>1
  <2>5. l \in Fulfilling /\ l # "create_sub"
    BY <1>b DEF WithOrderAt, LinkedAt
  <2>. QED BY <1>b, <2>1, <2>3, <2>4, <2>5, BodyAlone
<1>c. ASSUME NEW l, Goto(h, l)
      PROVE  \E m : m = my[h] /\ Load(h, l, m)
  BY <1>c, GotoAny
<1>1. CASE PromoteDays(h) \/ PromotePlan(h) \/ PromoteOrder(h)
  <2>1. PICK k \in {"promo_days", "promo_plan", "promo_order"},
             l \in {"promo_plan", "promo_order", "confirm"} : pc[h] = k /\ Goto(h, l)
    BY <1>1 DEF PromoteDays, PromotePlan, PromoteOrder, At
  <2>2. Len(subs') = Len(subs) /\ UNCHANGED <<gateway, sess, tx, orders, balance>>
    <3>1. subs \in Seq(SubRow) /\ subs' \in Seq(SubRow) /\ DOMAIN subs' = DOMAIN subs
      BY <1>1 DEF PromoteDays, PromotePlan, PromoteOrder, TypeInv, TypeOK
    <3>. QED BY <1>1, <3>1, Lengths DEF PromoteDays, PromotePlan, PromoteOrder, store, ledger
  <2>3. PICK m : m = my[h] /\ Load(h, l, m)
    BY <1>c, <2>1
  <2>. QED BY <1>0, <1>b, <2>1, <2>2, <2>3 DEF WithOrderAt, LinkedAt, AfterDebitAt
<1>2. CASE ConfirmSession(h)
  <2>1. PICK n \in Local :
               /\ n = my[h] /\ Acts("confirm", n) /\ SeesList(h, "confirm", n)
               /\ n.t \in Requests /\ tx[n.t].sess = n.s /\ n.s \in Checkouts
               /\ sess[n.s].status # "none"
               /\ n.o \in DOMAIN orders /\ orders[n.o].tx = n.t /\ orders[n.o].gid = n.gid
               /\ orders[n.o].debit \in Nat /\ n.wallet = sess[n.s].wallet
    BY <1>2, <1>a DEF ConfirmSession, At, WithOrderAt
  <2>2. PICK l \in {"debit", "success", "relink", "live"} :
               Load(h, l, n) /\ (l # "debit" => ~(n.wallet > 0))
    <3>1. PICK l \in {"debit", "success", "relink", "live"} :
               Goto(h, l) /\ (l # "debit" => ~(n.wallet > 0))
      BY <1>2, <2>1 DEF ConfirmSession, DebitsWallet, AfterDebit
    <3>. QED BY <2>1, <3>1, <1>c
  <2>3. /\ sess' = [sess EXCEPT ![n.s].status = "confirmed"]
        /\ UNCHANGED <<gateway, store, orders, subs, balance>>
    BY <1>2, <2>1 DEF ConfirmSession, UpdateSession, ledger
  <2>4. /\ \A s \in Checkouts : /\ sess'[s].wallet = sess[s].wallet /\ sess'[s].due = sess[s].due
                                /\ sess'[s].promo = sess[s].promo
                                /\ sess'[s].status = "none" <=> sess[s].status = "none"
                                /\ sess[s].status = "confirmed" => sess'[s].status = "confirmed"
        /\ sess'[n.s].status = "confirmed"
    BY <1>0, <2>1, <2>3 DEF SessionRow
  <2>5. Tables'
    BY <1>0, <2>3, <2>4, StatusesMayChange DEF store, Tables, OneSubscription
  <2>6. l # "debit" => orders[n.o].debit = n.wallet
    <3>1. orders[n.o].debit > 0 => orders[n.o].debit = n.wallet
      <4>1. n.t # None
        BY <2>1, CheckoutAssumption
      <4>. QED BY <1>0, <2>1, <4>1 DEF Tables, OrdersInv
    <3>. QED BY <2>1, <2>2, <3>1 DEF Local
  <2>7. SeesSession(l, n)' /\ SeesRow(l, n)'
    BY <2>1, <2>2, <2>3, <2>4
       DEF Acts, SeesSession, SeesRow, OfSession, OfIntent, Unsettled, OnCard, Splitting,
           AfterDebitAt, LinkedAt, store
  <2>8. SeesOrder(l, n)'
    BY <2>1, <2>2, <2>3, <2>4, <2>6 DEF SeesOrder, AfterDebitAt, LinkedAt, WithOrderAt
  <2>9. SeesList(h, l, n)'
    BY <2>1, <2>2, <2>3, ListStays DEF Listing, store
  <2>10. SuccessStays
    BY <2>3 DEF SuccessStays, store
  <2>. QED BY <2>2, <2>5, <2>7, <2>8, <2>9, <2>10, AloneStepOf DEF Sees, Acts
<1>3. CASE DebitWallet(h)
  <2>0. pc[h] = "debit" /\ "debit" \in WithOrderAt
    BY <1>3 DEF DebitWallet, At, WithOrderAt
  <2>1. PICK n \in Local :
               /\ n = my[h] /\ Acts("debit", n) /\ SeesList(h, "debit", n)
               /\ n.t \in Requests /\ tx[n.t].sess = n.s /\ n.s \in Checkouts
               /\ n.o \in DOMAIN orders /\ orders[n.o].tx = n.t /\ orders[n.o].gid = n.gid
               /\ orders[n.o].debit \in Nat /\ n.wallet = sess[n.s].wallet
               /\ sess[n.s].status = "confirmed"
    BY <2>0, <1>a
  <2>2. CASE Debited(n.o) /\ Goto(h, AfterDebit(h)) /\ UNCHANGED <<orders, balance>>
    <3>1. PICK l \in {"success", "relink", "live"} : l = AfterDebit(h)
      BY DEF AfterDebit
    <3>2. Load(h, l, n)
      BY <2>1, <2>2, <3>1, <1>c
    <3>3. Len(subs') <= 1 /\ UNCHANGED <<gateway, sess, tx>>
      BY <1>0, <1>3 DEF DebitWallet, store
    <3>. QED BY <1>b, <2>0, <2>1, <2>2, <3>2, <3>3 DEF WithOrderAt, LinkedAt, AfterDebitAt, Debited
  <2>3. CASE /\ ~Debited(n.o) /\ Sufficient(n.wallet)
             /\ balance' = balance - n.wallet
             /\ orders' = [orders EXCEPT ![n.o].debit = @ + n.wallet]
             /\ Goto(h, AfterDebit(h))
    <3>1. PICK l \in {"success", "relink", "live"} : l = AfterDebit(h)
      BY DEF AfterDebit
    <3>2. Load(h, l, n) /\ UNCHANGED <<gateway, sess, tx, subs>>
      BY <1>3, <2>1, <2>3, <3>1, <1>c DEF DebitWallet, store
    <3>3. balance' \in Nat /\ balance' <= balance /\ n.wallet \in Nat
      BY <1>0, <2>1, <2>3 DEF Sufficient, Local
    <3>4. /\ DOMAIN orders' = DOMAIN orders
          /\ \A i \in DOMAIN orders : orders'[i].tx = orders[i].tx /\ orders'[i].gid = orders[i].gid
                                      /\ orders'[i].sub = orders[i].sub
          /\ \A i \in DOMAIN orders : i # n.o => orders'[i] = orders[i]
          /\ orders'[n.o].debit = n.wallet
      <4>1. PICK e : e = [orders[n.o] EXCEPT !.debit = @ + n.wallet]
        OBVIOUS
      <4>2. /\ e.tx = orders[n.o].tx /\ e.gid = orders[n.o].gid /\ e.sub = orders[n.o].sub
            /\ e.debit = n.wallet
        BY <2>1, <2>3, <3>3, <4>1, OrdersTyped DEF OrderRow, Debited
      <4>3. orders' = [orders EXCEPT ![n.o] = e] /\ orders \in Seq(OrderRow)
        BY <2>3, <4>1 DEF TypeInv, TypeOK
      <4>. QED BY <2>1, <4>2, <4>3
    <3>5. Tables'
      BY <1>0, <2>1, <3>2, <3>3, <3>4, OrderMayChange
    <3>6. SeesSession(l, n)' /\ SeesRow(l, n)' /\ SeesOrder(l, n)'
      <4>1. l \in AfterDebitAt \cap WithOrderAt \cap Fulfilling
        BY <3>1 DEF AfterDebitAt, WithOrderAt, LinkedAt
      <4>2. /\ tx'[n.t].status = "FULFILLING" /\ tx'[n.t].gid = n.gid
            /\ n.wallet = sess'[n.s].wallet /\ n.due = sess'[n.s].due
            /\ sess'[n.s].status = "confirmed"
        BY <2>1, <3>2 DEF Acts, SeesSession, SeesRow, Splitting
      <4>3. orders'[n.o].gid = n.gid /\ orders'[n.o].debit = sess'[n.s].wallet
        BY <2>1, <3>2, <3>4
      <4>. QED BY <3>1, <4>1, <4>2, <4>3
           DEF SeesSession, SeesRow, SeesOrder, OfSession, OfIntent, Unsettled, OnCard
    <3>7. SeesList(h, l, n)'
      BY <2>1, <3>1, <3>2, ListStays DEF Listing
    <3>8. SuccessStays
      BY <3>2 DEF SuccessStays
    <3>. QED BY <3>2, <3>5, <3>6, <3>7, <3>8, AloneStepOf DEF Sees, Acts
  <2>4. CASE Goto(h, "catch") /\ UNCHANGED <<orders, balance>>
    <3>1. Load(h, "catch", n)
      BY <2>1, <2>4, <1>c
    <3>2. Len(subs') <= 1 /\ UNCHANGED <<gateway, sess, tx>>
      BY <1>0, <1>3 DEF DebitWallet, store
    <3>. QED BY <1>b, <2>0, <2>1, <2>4, <3>1, <3>2 DEF AfterDebitAt, LinkedAt
  <2>. QED BY <1>3, <2>1, <2>2, <2>3, <2>4 DEF DebitWallet
<1>d. ASSUME NEW x, NEW m, m = [my[h] EXCEPT !.sub = x]
      PROVE  /\ m.s = my[h].s /\ m.t = my[h].t /\ m.gid = my[h].gid /\ m.wallet = my[h].wallet
             /\ m.due = my[h].due /\ m.o = my[h].o /\ m.todo = my[h].todo
  BY <1>d DEF TypeInv, TypeOK, Local
<1>4. CASE RelinkSubscription(h)
  <2>0. /\ pc[h] = "relink" /\ Len(subs') <= 1
        /\ UNCHANGED <<gateway, sess, tx, orders, balance>>
    BY <1>0, <1>4 DEF RelinkSubscription, At, store, ledger
  <2>1. CASE Load(h, "days", [my[h] EXCEPT !.sub = my[h].linked])
    <3>1. PICK m : m = [my[h] EXCEPT !.sub = my[h].linked]
      OBVIOUS
    <3>. QED BY <1>b, <1>d, <2>0, <2>1, <3>1 DEF WithOrderAt, LinkedAt, AfterDebitAt
  <2>2. CASE Goto(h, AfterEnsure(h))
    <3>1. PICK l \in {"referred", "success"} : Goto(h, l)
      BY <2>2 DEF AfterEnsure
    <3>2. PICK m : m = my[h] /\ Load(h, l, m)
      BY <1>c, <3>1
    <3>. QED BY <1>b, <2>0, <3>2 DEF WithOrderAt, LinkedAt, AfterDebitAt
  <2>. QED BY <1>4, <2>1, <2>2 DEF RelinkSubscription
<1>5. CASE ReadLive(h)
  <2>0. /\ pc[h] = "live" /\ Len(subs') <= 1
        /\ UNCHANGED <<gateway, sess, tx, orders, balance, subs>>
    BY <1>0, <1>5 DEF ReadLive, At, store, ledger
  <2>1. CASE Goto(h, "catch")
    <3>1. PICK m : m = my[h] /\ Load(h, "catch", m)
      BY <1>c, <2>1
    <3>. QED BY <1>b, <2>0, <3>1 DEF WithOrderAt, LinkedAt, AfterDebitAt
  <2>2. CASE Load(h, "link", [my[h] EXCEPT !.sub = LiveSub])
    <3>1. PICK m : m = [my[h] EXCEPT !.sub = LiveSub]
      OBVIOUS
    <3>. QED BY <1>b, <1>d, <2>0, <2>2, <3>1 DEF WithOrderAt, LinkedAt, AfterDebitAt
  <2>3. CASE ~SecondPlan(my[h].o) /\ ~OwnPlan(my[h].o) /\ Goto(h, "create_sub")
    <3>1. PICK n \in Local :
               /\ n = my[h] /\ Acts("live", n) /\ SeesList(h, "live", n)
               /\ orders[n.o].gid = n.gid
               /\ sess[n.s].status = "confirmed" /\ orders[n.o].debit = sess[n.s].wallet
      BY <2>0, <1>a DEF WithOrderAt, AfterDebitAt
    <3>2. Len(subs) = 0
      BY <2>3 DEF SecondPlan, OwnPlan, LiveSub
    <3>3. SeesOrder("create_sub", n)
      BY <3>1, <3>2 DEF SeesOrder, WithOrderAt, LinkedAt
    <3>4. Load(h, "create_sub", n)
      BY <2>3, <3>1, <1>c
    <3>. QED BY <2>0, <3>1, <3>3, <3>4, BodyAlone
  <2>. QED BY <1>5, <2>1, <2>2, <2>3 DEF ReadLive
<1>6. CASE CreateSubscription(h)
  <2>1. PICK n \in Local : n = my[h] /\ Acts("create_sub", n)
    BY <1>6, <1>a DEF CreateSubscription, At, WithOrderAt
  <2>2. Len(subs') <= 1
    <3>1. Len(subs) = 0 /\ subs \in Seq(SubRow)
      BY <2>1 DEF Acts, SeesOrder, TypeInv, TypeOK
    <3>2. PICK e : subs' = Append(subs, e)
      BY <1>6 DEF CreateSubscription
    <3>3. Len(subs') = 1
      BY <3>1, <3>2 DEF TypeInv, TypeOK
    <3>. QED BY <3>3
  <2>3. PICK m : m = [my[h] EXCEPT !.sub = Len(subs) + 1]
    OBVIOUS
  <2>4. /\ pc[h] = "create_sub" /\ Load(h, "days", m)
        /\ UNCHANGED <<gateway, sess, tx, orders, balance>>
    BY <1>6, <2>3 DEF CreateSubscription, At, store, ledger
  <2>. QED BY <1>b, <1>d, <2>2, <2>3, <2>4 DEF WithOrderAt, LinkedAt, AfterDebitAt
<1>7. CASE WriteDays(h) \/ WriteEndDate(h)
  <2>1. PICK k \in {"days", "end_date"}, l \in {"end_date", "link", "referred", "success"} :
             pc[h] = k /\ Goto(h, l)
    BY <1>7 DEF WriteDays, WriteEndDate, At, AfterEnsure
  <2>2. Len(subs') = Len(subs) /\ UNCHANGED <<gateway, sess, tx, orders, balance>>
    <3>1. subs \in Seq(SubRow) /\ subs' \in Seq(SubRow) /\ DOMAIN subs' = DOMAIN subs
      BY <1>7 DEF WriteDays, WriteEndDate, TypeInv, TypeOK
    <3>. QED BY <1>7, <3>1, Lengths DEF WriteDays, WriteEndDate, store, ledger
  <2>3. PICK m : m = my[h] /\ Load(h, l, m)
    BY <1>c, <2>1
  <2>. QED BY <1>0, <1>b, <2>1, <2>2, <2>3 DEF WithOrderAt, LinkedAt, AfterDebitAt
<1>8. CASE LinkOrder(h)
  <2>0. pc[h] = "link" /\ "link" \in WithOrderAt \cap AfterDebitAt
    BY <1>8 DEF LinkOrder, At, WithOrderAt, AfterDebitAt
  <2>1. PICK n \in Local :
               /\ n = my[h] /\ Acts("link", n) /\ SeesList(h, "link", n) /\ Serves(h, "link", n)
               /\ n.t \in Requests /\ tx[n.t].sess = n.s /\ n.s \in Checkouts
               /\ n.o \in DOMAIN orders /\ orders[n.o].tx = n.t /\ orders[n.o].gid = n.gid
               /\ sess[n.s].status = "confirmed" /\ orders[n.o].debit = sess[n.s].wallet
    BY <2>0, <1>a
  <2>2. PICK l \in {"referred", "success"} : Load(h, l, n)
    <3>1. PICK l \in {"referred", "success"} : Goto(h, l)
      BY <1>8 DEF LinkOrder, AfterEnsure
    <3>. QED BY <2>1, <3>1, <1>c
  <2>3. UNCHANGED <<gateway, sess, tx, subs, balance>>
    BY <1>8 DEF LinkOrder, store, ledger
  <2>4. /\ DOMAIN orders' = DOMAIN orders
        /\ \A i \in DOMAIN orders : orders'[i].tx = orders[i].tx /\ orders'[i].gid = orders[i].gid
        /\ \A i \in DOMAIN orders : orders[i].sub # 0 => orders'[i].sub # 0
        /\ \A i \in DOMAIN orders : i # n.o => orders'[i] = orders[i]
        /\ orders'[n.o].debit = orders[n.o].debit
    <3>1. PICK e : e = [orders[n.o] EXCEPT !.sub = n.sub]
      OBVIOUS
    <3>2. /\ e.tx = orders[n.o].tx /\ e.gid = orders[n.o].gid /\ e.debit = orders[n.o].debit
          /\ e.sub = n.sub /\ n.sub # 0
      BY <2>1, <3>1, OrdersTyped DEF OrderRow, Serves, WithPlanAt
    <3>3. orders' = [orders EXCEPT ![n.o] = e] /\ orders \in Seq(OrderRow)
      BY <1>8, <2>1, <3>1 DEF LinkOrder, TypeInv, TypeOK
    <3>. QED BY <2>1, <3>2, <3>3
  <2>5. Tables'
    BY <1>0, <2>1, <2>3, <2>4, OrderMayChange
  <2>6. SeesSession(l, n)' /\ SeesRow(l, n)' /\ SeesOrder(l, n)'
    <3>1. l \in LinkedAt \cap AfterDebitAt \cap WithOrderAt \cap Fulfilling
      BY DEF AfterDebitAt, WithOrderAt, LinkedAt
    <3>2. /\ tx'[n.t].status = "FULFILLING" /\ tx'[n.t].gid = n.gid
          /\ n.wallet = sess'[n.s].wallet /\ n.due = sess'[n.s].due
          /\ sess'[n.s].status = "confirmed"
      BY <2>1, <2>3 DEF Acts, SeesSession, SeesRow, Splitting
    <3>3. orders'[n.o].gid = n.gid /\ orders'[n.o].debit = sess'[n.s].wallet
      BY <2>1, <2>3, <2>4
    <3>. QED BY <2>2, <3>1, <3>2, <3>3
         DEF SeesSession, SeesRow, SeesOrder, OfSession, OfIntent, Unsettled, OnCard
  <2>7. SeesList(h, l, n)'
    BY <2>1, <2>2, <2>3, ListStays DEF Listing
  <2>8. SuccessStays
    BY <2>3 DEF SuccessStays
  <2>. QED BY <2>2, <2>5, <2>6, <2>7, <2>8, AloneStepOf DEF Sees, Acts
<1>9. CASE ReadReferred(h) \/ CreditReferrer(h) \/ CreateReferral(h)
  <2>1. PICK k \in {"referred", "reward", "referral"}, l \in {"reward", "referral", "success"} :
             pc[h] = k /\ Goto(h, l)
    BY <1>9 DEF ReadReferred, CreditReferrer, CreateReferral, At
  <2>2. Len(subs') <= 1 /\ UNCHANGED <<gateway, sess, tx, orders, balance>>
    BY <1>0, <1>9 DEF ReadReferred, CreditReferrer, CreateReferral, store, ledger
  <2>3. PICK m : m = my[h] /\ Load(h, l, m)
    BY <1>c, <2>1
  <2>. QED BY <1>b, <2>1, <2>2, <2>3 DEF WithOrderAt, LinkedAt, AfterDebitAt
<1>. QED BY <1>1, <1>2, <1>3, <1>4, <1>5, <1>6, <1>7, <1>8, <1>9
(* Every step of a fulfilment.                                              *)
LEMMA FulfilAlone ==
  ASSUME TypeInv, TypeInv', ServeInv, AloneInv, NEW h \in Handlers, OnlyOne(h),
         FulfillPaidCheckout(h)
  PROVE  AloneInv' /\ SuccessStays
BY FulfilBegins, FulfilEnds DEF FulfillPaidCheckout

-------------------------------------------------------------------------------
(* The environment                                                         *)

(* A step around the handlers: it is left to show the tables, and what each *)
(* handler sees.                                                            *)
LEMMA AroundAlone ==
  ASSUME AloneInv, UNCHANGED <<pc, my>>, Tables',
         \A h \in Handlers : Sees(h, pc[h], my[h]) => Sees(h, pc[h], my[h])'
  PROVE  AloneInv'
BY DEF AloneInv, Alone, Running

(* A handler holds a session and a row that exist, where it looks at them.  *)
LEMMA Holds ==
  ASSUME TypeInv, NEW h \in Handlers, NEW l, l = pc[h]
  PROVE  /\ l \in OfSession \cup Splitting \cup {"debit"} \cup AfterDebitAt => my[h].s \in Checkouts
         /\ l \notin NoRow \/ (l \in {"guard", "claim"} /\ my[h].seen # "none") =>
                my[h].t \in Requests /\ tx[my[h].t].sess \in Checkouts
         /\ \A i \in my[h].todo : i.t \in Requests
<1>1. Knows(h, l, my[h]) /\ RowsOK
  BY DEF TypeInv
<1>2. l \in OfSession \cup Splitting \cup {"debit"} \cup AfterDebitAt => l \notin NoSession
  BY DEF OfSession, OfIntent, Splitting, Fulfilling, AfterDebitAt, LinkedAt, Body, NoSession, Opening
<1>. QED BY <1>1, <1>2 DEF Knows, KnownSession, KnownRow, RowsOK

(* What Moyasar does: it settles charges for good, and charges what it was  *)
(* asked to.                                                                *)
LEMMA GatewayMoves ==
  ASSUME TypeInv, GatewayNext
  PROVE  /\ posts' \subseteq posts
         /\ \A t \in Requests : (Paid(t) => Paid(t)') /\ (GivenUp(t) => GivenUp(t)')
         /\ \A t \in Requests : pay'[t] # "none" =>
                \/ pay[t] # "none" /\ charged'[t] = charged[t]
                \/ \E p \in posts : p.key = t /\ charged'[t] = p.amount
<1>0. /\ pay \in [Requests -> PayStatus] /\ charged \in [Requests -> Nat]
      /\ \A p \in posts : p.key \in Requests
  BY DEF TypeInv, TypeOK, GatewayTypeOK
<1>1. ASSUME NEW p \in posts, Accept(p) \/ Refuse(p)
      PROVE  /\ posts' \subseteq posts
             /\ \A t \in Requests : (Paid(t) => Paid(t)') /\ (GivenUp(t) => GivenUp(t)')
             /\ \A t \in Requests : pay'[t] # "none" =>
                    \/ pay[t] # "none" /\ charged'[t] = charged[t]
                    \/ p.key = t /\ charged'[t] = p.amount
  <2>1. posts' \subseteq posts
    BY <1>1 DEF Accept, Refuse
  <2>2. CASE UNCHANGED <<pay, charged>>
    BY <2>1, <2>2 DEF Paid, GivenUp, Outstanding
  <2>3. CASE Create(p)
    <3>1. PICK st \in {"initiated", "paid", "failed"} :
               /\ pay[p.key] = "none" /\ pay' = [pay EXCEPT ![p.key] = st]
               /\ charged' = [charged EXCEPT ![p.key] = p.amount]
      BY <2>3 DEF Create
    <3>2. Outstanding(p.key)
      BY DEF Outstanding
    <3>. QED BY <1>0, <2>1, <3>1, <3>2 DEF Paid, GivenUp, Outstanding
  <2>. QED BY <1>1, <2>2, <2>3 DEF Accept, Refuse
<1>2. ASSUME NEW u \in Requests, Settle(u)
      PROVE  /\ posts' = posts /\ charged' = charged
             /\ \A t \in Requests : (Paid(t) => Paid(t)') /\ (GivenUp(t) => GivenUp(t)')
             /\ \A t \in Requests : pay'[t] # "none" => pay[t] # "none"
  BY <1>0, <1>2 DEF Settle, Paid, GivenUp, Outstanding
<1>3. CASE \E p \in posts : Accept(p) \/ Refuse(p)
  BY <1>1, <1>3
<1>4. CASE \E u \in Requests : Settle(u)
  BY <1>2, <1>4
<1>. QED BY <1>3, <1>4 DEF GatewayNext

(* Moyasar charges a card or refuses it while a handler is waiting, or later.*)
LEMMA MoyasarAlone ==
  ASSUME TypeInv, AloneInv, Moyasar
  PROVE  AloneInv' /\ SuccessStays
<1>0. /\ GatewayNext /\ Tables
      /\ UNCHANGED <<sess, tx, orders, subs, balance, pc, my>>
  BY DEF Moyasar, store, ledger, AloneInv
<1>1. /\ posts' \subseteq posts
      /\ \A t \in Requests : (Paid(t) => Paid(t)') /\ (GivenUp(t) => GivenUp(t)')
      /\ \A t \in Requests : pay'[t] # "none" =>
             \/ pay[t] # "none" /\ charged'[t] = charged[t]
             \/ \E p \in posts : p.key = t /\ charged'[t] = p.amount
  BY <1>0, GatewayMoves
<1>2. OneOpenRow' /\ SplitsInv' /\ KeysInv' /\ SuccessIsDone' /\ OneSubscription'
  BY <1>0 DEF Tables, OneOpenRow, OpenRow, SplitsInv, KeysInv, SuccessIsDone, Done,
              OneSubscription
<1>3. RowsInv'
  BY <1>0, <1>1 DEF Tables, RowsInv, PaidFor, DueOf
<1>4. ChargesInv'
  BY <1>0, <1>1 DEF Tables, ChargesInv, DueOf
<1>5. OrdersInv'
  <2>1. \A i \in DOMAIN orders : orders[i].tx # None => orders[i].tx \in Requests
    BY OrdersTyped
  <2>. QED BY <1>0, <1>1, <2>1 DEF Tables, OrdersInv, PaidFor
<1>6. ASSUME MaxTopUps = 0 PROVE SplitIsFixed'
  <2>1. SplitIsFixed
    BY <1>0, <1>6 DEF Tables
  <2>2. \A t \in Requests : tx[t].status # "none" => (pay'[t] # "none" => charged'[t] = DueOf(t))
    BY <1>1, <2>1 DEF SplitIsFixed
  <2>. QED BY <1>0, <1>1, <2>1, <2>2 DEF SplitIsFixed, DueOf, WalletPart
<1>7. ASSUME NEW h \in Handlers, Sees(h, pc[h], my[h]) PROVE Sees(h, pc[h], my[h])'
  <2>1. PICK l, m : l = pc[h] /\ m = my[h]
    OBVIOUS
  <2>2. l \notin NoRow => m.t \in Requests
    BY <2>1, Holds
  <2>3. SeesSession(l, m)' /\ SeesOrder(l, m)' /\ SeesList(h, l, m)'
    BY <1>0, <1>7, <2>1 DEF Sees, Acts, SeesSession, SeesOrder, SeesList, HasOrder, Done
  <2>4. SeesRow(l, m)'
    BY <1>0, <1>1, <1>7, <2>1, <2>2
       DEF Sees, Acts, SeesRow, NoRow, NoSession, Opening, NoneOpen, Unpaid, DueOf
  <2>. QED BY <1>0, <2>1, <2>3, <2>4 DEF Sees, Acts
<1>8. SuccessStays
  BY <1>0 DEF SuccessStays
<1>. QED BY <1>0, <1>2, <1>3, <1>4, <1>5, <1>6, <1>7, <1>8, AroundAlone DEF Tables

(* Time passes: what it changes, nothing of the invariant looks at.         *)
LEMMA TimeAlone ==
  ASSUME TypeInv, AloneInv,
         (\E s \in Checkouts : TenMinutesPass(s)) \/ (\E t \in Requests : TwoMinutesPass(t))
  PROVE  AloneInv' /\ SuccessStays
<1>0. /\ UNCHANGED <<gateway, orders, subs, balance, pc, my>>
      /\ balance \in Nat /\ Tables
      /\ sess \in [Checkouts -> SessionRow] /\ tx \in [Requests -> TxRow]
  BY DEF TenMinutesPass, TwoMinutesPass, ledger, TypeInv, TypeOK, AloneInv
<1>1. \A s \in Checkouts : /\ sess'[s].wallet = sess[s].wallet /\ sess'[s].due = sess[s].due
                           /\ sess'[s].promo = sess[s].promo /\ sess'[s].status = sess[s].status
  BY <1>0 DEF TenMinutesPass, TwoMinutesPass, SessionRow
<1>2. \A t \in Requests : /\ tx'[t].status = tx[t].status /\ tx'[t].sess = tx[t].sess
                          /\ tx'[t].gid = tx[t].gid /\ tx'[t].amount = tx[t].amount
  BY <1>0 DEF TenMinutesPass, TwoMinutesPass, TxRow, store
<1>3. Tables'
  <2>1. OneSubscription'
    BY <1>0 DEF Tables, OneSubscription
  <2>. QED BY <1>0, <1>1, <1>2, <2>1, StatusesMayChange
<1>4. ASSUME NEW h \in Handlers, Sees(h, pc[h], my[h]) PROVE Sees(h, pc[h], my[h])'
  <2>0. UNCHANGED <<pay, posts, charged>>
    BY <1>0 DEF gateway
  <2>1. PICK l, m : l = pc[h] /\ m = my[h]
    OBVIOUS
  <2>2. /\ l \in OfSession \cup Splitting \cup {"debit"} \cup AfterDebitAt => m.s \in Checkouts
        /\ l \notin NoRow \/ (l \in {"guard", "claim"} /\ m.seen # "none") =>
               m.t \in Requests /\ tx[m.t].sess \in Checkouts
        /\ \A i \in m.todo : i.t \in Requests
    BY <2>1, Holds
  <2>3. SeesSession(l, m)'
    <3>1. SeesSession(l, m) /\ balance' = balance
      BY <1>0, <1>4, <2>1 DEF Sees, Acts
    <3>2. CASE m.s \in Checkouts
      BY <1>1, <3>1, <3>2 DEF SeesSession
    <3>3. CASE m.s \notin Checkouts
      BY <2>2, <3>1, <3>3 DEF SeesSession, OfSession
    <3>. QED BY <3>2, <3>3
  <2>4. SeesRow(l, m)'
    BY <1>0, <1>1, <1>2, <1>4, <2>0, <2>1, <2>2
       DEF Sees, Acts, SeesRow, NoRow, NoSession, Opening, NoneOpen, Unpaid, DueOf, OfIntent,
           Unsettled, OnCard, Fulfilling, Body, Paid, GivenUp, Outstanding
  <2>5. SeesOrder(l, m)'
    BY <1>0, <1>1, <1>4, <2>1, <2>2 DEF Sees, Acts, SeesOrder, HasOrder, Done
  <2>6. SeesList(h, l, m)'
    BY <1>0, <1>2, <1>4, <2>1, <2>2 DEF Sees, SeesList
  <2>. QED BY <1>0, <2>1, <2>3, <2>4, <2>5, <2>6 DEF Sees, Acts
<1>5. SuccessStays
  BY <1>2 DEF SuccessStays
<1>. QED BY <1>0, <1>3, <1>4, <1>5, AroundAlone

(* A credit reaches the wallet.                                             *)
LEMMA TopUpAlone ==
  ASSUME TypeInv, AloneInv, TopUp
  PROVE  AloneInv' /\ SuccessStays
<1>0. /\ UNCHANGED <<pay, posts, charged, gateway, sess, tx, orders, subs, pc, my>>
      /\ Tables /\ MaxTopUps # 0
  BY CheckoutAssumption DEF TopUp, gateway, store, AloneInv, TypeInv, TypeOK
<1>1. Tables'
  <2>1. OneSubscription'
    BY <1>0 DEF Tables, OneSubscription
  <2>. QED BY <1>0, <2>1, StatusesMayChange
<1>2. ASSUME NEW h \in Handlers, Sees(h, pc[h], my[h]) PROVE Sees(h, pc[h], my[h])'
  BY <1>0, <1>2 DEF Sees, Acts, SeesSession, SeesRow, SeesOrder, SeesList, DueOf, Paid, GivenUp,
                    Outstanding, HasOrder, Done, NoneOpen, Unpaid
<1>3. SuccessStays
  BY <1>0 DEF SuccessStays
<1>. QED BY <1>0, <1>1, <1>2, <1>3, AroundAlone

(* A handler dies; nobody else is under way.                                *)
LEMMA CrashAlone ==
  ASSUME TypeInv, AloneInv, NEW h \in Handlers, Crash(h)
  PROVE  AloneInv' /\ SuccessStays
<1>1. PICK l \in {"idle", "done"} : Load(h, l, Blank)
  BY DEF Crash
<1>2. OnlyOne(h)
  BY DEF Crash, AloneInv, Alone, OnlyOne
<1>3. Blank.t = None /\ Blank.todo = {}
  BY DEF Blank
<1>4. Acts(l, Blank) /\ SeesList(h, l, Blank)
  BY <1>3, NothingSeen DEF SeesList, Listing
<1>. QED BY <1>1, <1>2, <1>4, QuietAlone DEF Crash

(* Every step that no handler takes.                                        *)
LEMMA EnvironmentAlone ==
  ASSUME TypeInv, AloneInv, Environment
  PROVE  AloneInv' /\ SuccessStays
BY CrashAlone, TimeAlone, TopUpAlone, MoyasarAlone DEF Environment

-------------------------------------------------------------------------------
(* The invariant, and what follows from it                                 *)

(* At the start there are no sessions, no rows and no charges.              *)
LEMMA InitAlone == Init => AloneInv
<1>. SUFFICES ASSUME Init PROVE AloneInv
  OBVIOUS
<1>0. /\ \A t \in Requests : tx[t].status = "none" /\ tx[t].sess = None /\ pay[t] = "none"
      /\ \A s \in Checkouts : sess[s].status = "none"
      /\ posts = {} /\ \A h \in Handlers : pc[h] = "idle" /\ my[h] = Blank
  BY DEF Init, GatewayInit
<1>1. \A i \in DOMAIN orders : orders[i].tx = None /\ orders[i].gid = "none"
  BY DEF Init, OldOrder
<1>2. Len(subs) <= 1
  <2>1. subs = << >> \/ subs = <<OldPlan>>
    BY DEF Init
  <2>2. CASE subs = << >>
    BY <2>2
  <2>3. CASE subs = <<OldPlan>>
    <3>1. Len(<<OldPlan>>) = 1
      OBVIOUS
    <3>. QED BY <2>3, <3>1
  <2>. QED BY <2>1, <2>2, <2>3
<1>3. Tables
  BY <1>0, <1>1, <1>2
     DEF Tables, OneOpenRow, OpenRow, RowsInv, ChargesInv, SplitsInv, KeysInv, OrdersInv,
         SuccessIsDone, OneSubscription, SplitIsFixed
<1>4. ASSUME NEW h \in Handlers PROVE Sees(h, pc[h], my[h])
  <2>1. pc[h] = "idle" /\ my[h].t = None /\ my[h].todo = {}
    BY <1>0 DEF Blank
  <2>. QED BY <2>1, NothingSeen DEF Sees, SeesList, Listing
<1>5. Alone
  BY <1>0 DEF Alone, Running
<1>. QED BY <1>3, <1>4, <1>5 DEF AloneInv

(* Every step keeps the invariant, and no SUCCESS is taken back.            *)
LEMMA AloneStep ==
  ASSUME ~Overlap, TypeInv, ServeInv, AloneInv, [Next]_vars
  PROVE  AloneInv' /\ SuccessStays
<1>0. TypeInv'
  BY TypeStep
<1>1. CASE Environment
  BY <1>1, EnvironmentAlone
<1>2. ASSUME NEW h \in Handlers, Step(h) PROVE AloneInv' /\ SuccessStays
  <2>1. OnlyOne(h)
    BY <1>2, OneActs DEF AloneInv
  <2>. QED BY <1>0, <1>2, <2>1, FulfilAlone, SharedAlone, CheckoutAlone, RequestAlone, HookAlone,
              JobAlone DEF Step
<1>3. CASE UNCHANGED vars
  <2>1. UNCHANGED <<pay, posts, charged, gateway, sess, tx, orders, subs, balance, pc, my>>
    BY <1>3 DEF vars, gateway, store, ledger
  <2>2. Tables'
    BY <2>1 DEF AloneInv, Tables, OneOpenRow, OpenRow, RowsInv, PaidFor, DueOf, Paid, GivenUp,
                Outstanding, ChargesInv, SplitsInv, KeysInv, OrdersInv, SuccessIsDone, Done,
                OneSubscription, SplitIsFixed, WalletPart
  <2>3. ASSUME NEW h \in Handlers, Sees(h, pc[h], my[h]) PROVE Sees(h, pc[h], my[h])'
    BY <2>1, <2>3 DEF Sees, Acts, SeesSession, SeesRow, SeesOrder, SeesList, DueOf, Paid, GivenUp,
                      Outstanding, HasOrder, Done, NoneOpen, Unpaid
  <2>4. SuccessStays
    BY <2>1 DEF SuccessStays
  <2>. QED BY <2>1, <2>2, <2>3, <2>4, AroundAlone
<1>. QED BY <1>1, <1>2, <1>3 DEF Next
-------------------------------------------------------------------------------
(* Behaviours                                                              *)

(* While handlers do not overlap, all the invariants hold together.         *)
LEMMA AloneAlways ==
  ASSUME ~Overlap
  PROVE  Spec => [](TypeInv /\ ServeInv /\ AloneInv)
<1>1. Init => TypeInv /\ ServeInv /\ AloneInv
  BY InitTyped, InitServes, InitAlone
<1>2. TypeInv /\ ServeInv /\ AloneInv /\ [Next]_vars => (TypeInv /\ ServeInv /\ AloneInv)'
  BY TypeStep, ServeStep, AloneStep
<1>. QED BY <1>1, <1>2, PTL DEF Spec

(* An order with a card payment is one Moyasar holds the money for: no way   *)
(* through CreateOrder, the webhook or the job, with crashes and late        *)
(* answers in between, creates one on a charge that is unknown or failed.    *)
THEOREM OrdersArePaidFor ==
  ASSUME ~Overlap
  PROVE  Spec => []NoOrderWithoutPayment
<1>1. TypeInv /\ ServeInv /\ AloneInv => NoOrderWithoutPayment
  BY DEF AloneInv, Tables, KeysInv, OrdersInv, PaidFor, NoOrderWithoutPayment
<1>. QED BY <1>1, AloneAlways, PTL

(* A row that CreateOrder, the webhook or the job gave up as FAILED is never *)
(* charged, although no reconciliation run looks at it again.                *)
THEOREM FailedIsNeverCharged ==
  ASSUME ~Overlap
  PROVE  Spec => []FailedIsNotCharged
<1>1. TypeInv /\ ServeInv /\ AloneInv => FailedIsNotCharged
  BY DEF AloneInv, Tables, RowsInv, GivenUp, Paid, FailedIsNotCharged
<1>. QED BY <1>1, AloneAlways, PTL

(* Of the payment rows of one checkout, however often it is retried after    *)
(* failures, crashes and lost replies, at most one is ever charged.          *)
THEOREM SessionsAreChargedOnce ==
  ASSUME ~Overlap
  PROVE  Spec => []OneChargePerSession
<1>1. TypeInv /\ ServeInv /\ AloneInv => OneChargePerSession
  <2>. SUFFICES ASSUME TypeInv, AloneInv, NEW t \in Requests, NEW u \in Requests,
                       tx[t].sess = tx[u].sess, Paid(t), Paid(u)
                PROVE  t = u
    BY DEF OneChargePerSession
  <2>1. ASSUME NEW v \in Requests, Paid(v) PROVE OpenRow(v)
    BY <2>1 DEF AloneInv, Tables, RowsInv, GivenUp, OpenRow, Paid, TypeInv, PaymentsOK
  <2>. QED BY <2>1 DEF AloneInv, Tables, OneOpenRow
<1>. QED BY <1>1, AloneAlways, PTL

(* The customer never gets a second subscription: ensureNewSubscription      *)
(* finds the one that is there.                                              *)
THEOREM SubscribedOnce ==
  ASSUME ~Overlap
  PROVE  Spec => []OneSubscription
<1>1. TypeInv /\ ServeInv /\ AloneInv => OneSubscription
  BY DEF AloneInv, Tables
<1>. QED BY <1>1, AloneAlways, PTL

(* When a new purchase is marked SUCCESS, card and wallet together have      *)
(* covered the price of the plan, even if a credit changed the split of the  *)
(* session between two attempts to pay.                                      *)
THEOREM SuccessCoversThePrice ==
  ASSUME ~Overlap
  PROVE  Spec => []SuccessIsPaidInFull
<1>1. TypeInv /\ ServeInv /\ AloneInv => SuccessIsPaidInFull
  <2>. SUFFICES ASSUME TypeInv, ServeInv, AloneInv,
                       NEW t \in Requests, tx[t].status = "SUCCESS", NewPurchase(t)
                PROVE  \E i \in DOMAIN orders :
                           OrderServes(i, t) /\ orders[i].debit + CardPart(t) >= Price
    BY DEF SuccessIsPaidInFull
  <2>1. PICK s \in Checkouts : s = tx[t].sess /\ sess[s].status # "none" /\ sess[s].promo = 0
    BY DEF TypeInv, RowsOK, KnownSession, NewPurchase
  <2>2. PICK i \in DOMAIN orders : /\ orders[i].tx = t /\ orders[i].gid = tx[t].gid
                                   /\ orders[i].sub # 0
    BY DEF AloneInv, Tables, SuccessIsDone, Done
  <2>3. t # None /\ sess[s].wallet \in Nat /\ sess[s].due \in Nat /\ Price \in Nat
        /\ charged[t] \in Nat /\ tx[t].amount \in Nat
    BY CheckoutAssumption DEF TypeInv, TypeOK, GatewayTypeOK, SessionRow, TxRow
  <2>4. OrderServes(i, t)
    BY <2>2, Lengths DEF ServeInv, OrdersOK, Plans, OrderServes
  <2>5. orders[i].debit = sess[s].wallet /\ sess[s].wallet + sess[s].due = Price
    BY <2>1, <2>2, <2>3 DEF AloneInv, Tables, OrdersInv, SplitsInv
  <2>6. DueOf(t) = sess[s].due
    BY <2>1 DEF DueOf
  <2>7. CardPart(t) \in Nat /\ CardPart(t) >= sess[s].due
    <3>1. CASE Paid(t)
      BY <2>3, <2>6, <3>1 DEF AloneInv, Tables, ChargesInv, Paid, CardPart
    <3>2. CASE ~Paid(t)
      <4>1. tx[t].gid \in {"card", "wallet"}
        BY DEF AloneInv, Tables, RowsInv, PaidStatus, TypeInv, TypeOK, TxRow, Gid
      <4>2. sess[s].due = 0
        BY <2>3, <2>6, <3>2, <4>1 DEF AloneInv, Tables, RowsInv, PaidFor, PaidStatus
      <4>. QED BY <3>2, <4>2 DEF CardPart
    <3>. QED BY <3>1, <3>2
  <2>. QED BY <2>3, <2>4, <2>5, <2>7
<1>. QED BY <1>1, AloneAlways, PTL

(* A finished payment is not opened again by a webhook that arrives late or  *)
(* a job that works through an old list.                                     *)
THEOREM SuccessStaysFinal ==
  ASSUME ~Overlap
  PROVE  Spec => SuccessIsFinal
<1>1. TypeInv /\ ServeInv /\ AloneInv /\ [Next]_vars => SuccessStays
  BY AloneStep
<1>. QED BY <1>1, AloneAlways, PTL DEF Spec, SuccessIsFinal, SuccessStays

(* As long as no credit reaches the wallet between attempts to pay, a        *)
(* checkout has one order, whoever creates it.                               *)
THEOREM SessionsHaveOneOrder ==
  ASSUME ~Overlap, MaxTopUps = 0
  PROVE  Spec => []OneOrderPerSession
<1>1. TypeInv /\ ServeInv /\ AloneInv => OneOrderPerSession
  <2>. SUFFICES ASSUME TypeInv, AloneInv, NEW i \in DOMAIN orders, NEW k \in DOMAIN orders,
                       SessionOf(i) = SessionOf(k), SessionOf(i) # None
                PROVE  i = k
    BY DEF OneOrderPerSession
  <2>1. /\ orders[i].tx \in Requests /\ orders[k].tx \in Requests
        /\ orders[i].tx # None /\ orders[k].tx # None
        /\ tx[orders[i].tx].sess = tx[orders[k].tx].sess
    BY OrdersTyped DEF SessionOf
  <2>2. orders[i].tx = orders[k].tx
    BY <2>1 DEF AloneInv, Tables, OneOpenRow, OpenRow, OrdersInv, PaidStatus
  <2>3. orders[i].gid = orders[k].gid
    BY <2>1, <2>2 DEF AloneInv, Tables, SplitIsFixed
  <2>. QED BY <2>1, <2>2, <2>3 DEF AloneInv, Tables, KeysInv
<1>. QED BY <1>1, AloneAlways, PTL

(* ... and card and wallet together never take more than its price.          *)
THEOREM NobodyPaysTwice ==
  ASSUME ~Overlap, MaxTopUps = 0
  PROVE  Spec => []NeverPaysTwice
<1>1. TypeInv /\ ServeInv /\ AloneInv => NeverPaysTwice
  <2>. SUFFICES ASSUME TypeInv, AloneInv, NEW i \in DOMAIN orders, NEW t \in Requests,
                       SessionOf(i) # None, tx[t].sess = SessionOf(i)
                PROVE  orders[i].debit + CardPart(t) <= Price
    BY DEF NeverPaysTwice
  <2>1. /\ orders[i].tx \in Requests /\ orders[i].tx # None
        /\ tx[orders[i].tx].sess = tx[t].sess
    BY OrdersTyped DEF SessionOf
  <2>2. PICK s \in Checkouts : s = tx[t].sess /\ sess[s].status # "none"
    BY <2>1 DEF AloneInv, Tables, OrdersInv, PaidStatus, TypeInv, RowsOK, KnownSession
  <2>3. /\ sess[s].wallet \in Nat /\ sess[s].due \in Nat /\ Price \in Nat
        /\ orders[i].debit \in Nat /\ sess[s].wallet + sess[s].due = Price
    BY <2>2, OrdersTyped, CheckoutAssumption
       DEF AloneInv, Tables, SplitsInv, OrderRow, TypeInv, TypeOK, SessionRow
  <2>4. orders[i].debit <= sess[s].wallet
    BY <2>1, <2>2, <2>3 DEF AloneInv, Tables, OrdersInv
  <2>5. CardPart(t) \in Nat /\ CardPart(t) <= sess[s].due
    <3>1. CASE Paid(t)
      <4>1. tx[t].status # "none" /\ pay[t] # "none"
        BY <3>1 DEF TypeInv, PaymentsOK, Paid
      <4>2. charged[t] = DueOf(t) /\ DueOf(t) = sess[s].due
        BY <2>2, <4>1 DEF AloneInv, Tables, SplitIsFixed, DueOf
      <4>. QED BY <2>3, <3>1, <4>2, CheckoutAssumption DEF CardPart
    <3>2. CASE ~Paid(t)
      BY <2>3, <3>2 DEF CardPart
    <3>. QED BY <3>1, <3>2
  <2>. QED BY <2>3, <2>4, <2>5
<1>. QED BY <1>1, AloneAlways, PTL

-------------------------------------------------------------------------------
(* The refinement to Purchase.  Without credits the split of a session is   *)
(* fixed, so what was taken for it is known from whether its card was       *)
(* charged, whether it has an order and whether that order was debited.     *)
IsCharged(s) == \E t \in RowsOf(s) : Paid(t)
IsOrdered(s) == OrdersOf(s) # {}
IsDebited(s) == \E i \in OrdersOf(s) : orders[i].debit > 0
IsDone(s) == \E t \in RowsOf(s) : tx[t].status = "SUCCESS" /\ NewPurchase(t)

(* The sum over a set all of whose money is with one member                 *)
LEMMA MoneyOfOne ==
  ASSUME NEW x, NEW n \in Nat
  PROVE  Cardinality({x} \X (1 .. n)) = n
<1>1. IsFiniteSet({x}) /\ Cardinality({x}) = 1
  BY FS_Singleton
<1>2. IsFiniteSet(1 .. n) /\ Cardinality(1 .. n) = n
  BY FS_Interval
<1>3. Cardinality({x} \X (1 .. n)) = 1 * n
  BY <1>1, <1>2, FS_Product
<1>. QED BY <1>3

(* The card paid nothing for a session, or its due.                         *)
LEMMA CardOfSale ==
  ASSUME MaxTopUps = 0, TypeInv, AloneInv, NEW s \in Checkouts
  PROVE  /\ IsCharged(s) => Cardinality(CardMoney(s)) = sess[s].due /\ sess[s].due > 0
         /\ ~IsCharged(s) => Cardinality(CardMoney(s)) = 0
<1>0. /\ pay \in [Requests -> PayStatus] /\ charged \in [Requests -> Nat]
      /\ None \notin Requests /\ sess[s].due \in Nat
  BY CheckoutAssumption DEF TypeInv, TypeOK, GatewayTypeOK, SessionRow
<1>1. CASE ~IsCharged(s)
  <2>1. \A t \in RowsOf(s) : CardPart(t) = 0
    BY <1>1 DEF IsCharged, CardPart
  <2>2. CardMoney(s) = {}
    BY <2>1 DEF CardMoney
  <2>. QED BY <1>1, <2>2, FS_EmptySet
<1>2. CASE IsCharged(s)
  <2>1. PICK t \in RowsOf(s) : Paid(t)
    BY <1>2 DEF IsCharged
  <2>2. ASSUME NEW u \in RowsOf(s), Paid(u) PROVE OpenRow(u) /\ tx[u].sess = s
    BY <2>2 DEF AloneInv, Tables, RowsInv, GivenUp, OpenRow, Paid, TypeInv, PaymentsOK, RowsOf
  <2>3. \A u \in RowsOf(s) : Paid(u) => u = t
    BY <2>1, <2>2 DEF AloneInv, Tables, OneOpenRow, RowsOf
  <2>4. CardPart(t) = sess[s].due /\ sess[s].due > 0
    BY <1>0, <2>1, <2>2
       DEF AloneInv, Tables, SplitIsFixed, ChargesInv, DueOf, CardPart, Paid, RowsOf, OpenRow
  <2>5. \A u \in RowsOf(s) \ {t} : 1 .. CardPart(u) = {}
    BY <2>3 DEF CardPart
  <2>6. CardMoney(s) = {t} \X (1 .. CardPart(t))
    <3>1. \A u \in RowsOf(s) \ {t} : {u} \X (1 .. CardPart(u)) = {}
      BY <2>5
    <3>. QED BY <2>1, <3>1 DEF CardMoney
  <2>7. Cardinality({t} \X (1 .. CardPart(t))) = CardPart(t)
    BY <1>0, <2>4, MoneyOfOne
  <2>. QED BY <1>2, <2>4, <2>6, <2>7
<1>. QED BY <1>1, <1>2

(* An order's row is settled, whose due, if any, its card was charged.      *)
LEMMA OrderedIsCharged ==
  ASSUME MaxTopUps = 0, TypeInv, ServeInv, AloneInv, NEW s \in Checkouts, IsOrdered(s)
  PROVE  /\ sess[s].status # "none"
         /\ sess[s].due > 0 => IsCharged(s)
<1>1. PICK i \in OrdersOf(s) : TRUE
  BY DEF IsOrdered
<1>2. /\ i \in DOMAIN orders /\ None \notin Checkouts
      /\ orders[i].tx \in Requests /\ orders[i].tx # None /\ tx[orders[i].tx].sess = s
  BY OrdersTyped, CheckoutAssumption DEF OrdersOf, SessionOf
<1>3. PICK t \in Requests : t = orders[i].tx /\ tx[t].sess = s /\ t \in RowsOf(s)
  BY <1>2 DEF RowsOf
<1>4. tx[t].status \in PaidStatus /\ PaidFor(t, orders[i].gid)
  BY <1>2, <1>3 DEF AloneInv, Tables, OrdersInv
<1>5. sess[s].status # "none"
  BY <1>3, <1>4 DEF PaidStatus, TypeInv, RowsOK, KnownSession
<1>6. ASSUME sess[s].due > 0 PROVE IsCharged(s)
  <2>1. orders[i].gid = "card" /\ tx[t].amount = sess[s].due
    BY <1>2, <1>3, <1>4, <1>6 DEF AloneInv, Tables, SplitIsFixed, DueOf, PaidStatus
  <2>2. Paid(t)
    BY <1>4, <1>6, <2>1 DEF PaidFor
  <2>. QED BY <1>3, <2>2 DEF IsCharged
<1>. QED BY <1>5, <1>6

(* A session has one order at most, and the wallet paid its part or nothing.*)
LEMMA OrdersOfSale ==
  ASSUME MaxTopUps = 0, TypeInv, ServeInv, AloneInv, NEW s \in Checkouts
  PROVE  /\ \A i, k \in OrdersOf(s) : i = k
         /\ Cardinality(OrdersOf(s)) = IF IsOrdered(s) THEN 1 ELSE 0
         /\ IsDebited(s) => IsOrdered(s) /\ Cardinality(WalletMoney(s)) = sess[s].wallet
         /\ ~IsDebited(s) => Cardinality(WalletMoney(s)) = 0
<1>0. /\ sess[s].wallet \in Nat /\ None \notin Checkouts
      /\ \A i \in OrdersOf(s) : /\ i \in DOMAIN orders /\ orders[i].debit \in Nat
                                /\ orders[i].tx \in Requests /\ orders[i].tx # None
                                /\ tx[orders[i].tx].sess = s
  BY OrdersTyped, CheckoutAssumption DEF OrdersOf, SessionOf, TypeInv, TypeOK, SessionRow, OrderRow
<1>1. \A i, k \in OrdersOf(s) : i = k
  <2>. SUFFICES ASSUME NEW i \in OrdersOf(s), NEW k \in OrdersOf(s) PROVE i = k
    OBVIOUS
  <2>1. orders[i].tx = orders[k].tx
    BY <1>0 DEF AloneInv, Tables, OneOpenRow, OpenRow, OrdersInv, PaidStatus
  <2>2. orders[i].gid = orders[k].gid
    BY <1>0, <2>1 DEF AloneInv, Tables, SplitIsFixed
  <2>. QED BY <1>0, <2>1, <2>2 DEF AloneInv, Tables, KeysInv
<1>2. Cardinality(OrdersOf(s)) = IF IsOrdered(s) THEN 1 ELSE 0
  <2>1. CASE IsOrdered(s)
    <3>1. PICK i : OrdersOf(s) = {i}
      BY <1>1, <2>1 DEF IsOrdered
    <3>. QED BY <2>1, <3>1, FS_Singleton
  <2>2. CASE ~IsOrdered(s)
    BY <2>2, FS_EmptySet DEF IsOrdered
  <2>. QED BY <2>1, <2>2
<1>3. CASE ~IsDebited(s)
  <2>1. \A i \in OrdersOf(s) : orders[i].debit = 0
    BY <1>0, <1>3 DEF IsDebited
  <2>2. WalletMoney(s) = {}
    BY <2>1 DEF WalletMoney
  <2>. QED BY <1>1, <1>2, <1>3, <2>2, FS_EmptySet
<1>4. CASE IsDebited(s)
  <2>1. PICK i \in OrdersOf(s) : orders[i].debit > 0
    BY <1>4 DEF IsDebited
  <2>2. OrdersOf(s) = {i}
    BY <1>1, <2>1
  <2>3. WalletMoney(s) = {i} \X (1 .. orders[i].debit)
    BY <2>2 DEF WalletMoney
  <2>4. orders[i].debit = sess[s].wallet
    BY <1>0, <2>1 DEF AloneInv, Tables, OrdersInv
  <2>5. Cardinality({i} \X (1 .. orders[i].debit)) = orders[i].debit
    BY <1>0, <2>1, MoneyOfOne
  <2>6. IsOrdered(s)
    BY <2>1 DEF IsOrdered
  <2>. QED BY <1>1, <1>2, <1>4, <2>3, <2>4, <2>5, <2>6
<1>. QED BY <1>3, <1>4

(* A sale that is done has its order, and all that it costs has been taken. *)
LEMMA DoneIsPaid ==
  ASSUME MaxTopUps = 0, TypeInv, ServeInv, AloneInv, NEW s \in Checkouts, IsDone(s)
  PROVE  /\ IsOrdered(s)
         /\ ~IsDebited(s) => sess[s].wallet = 0
<1>1. PICK t \in RowsOf(s) : tx[t].status = "SUCCESS" /\ NewPurchase(t)
  BY DEF IsDone
<1>2. t \in Requests /\ tx[t].sess = s /\ t # None
  BY <1>1, CheckoutAssumption DEF RowsOf
<1>3. PICK i \in DOMAIN orders : orders[i].tx = t /\ orders[i].sub # 0
  BY <1>1, <1>2 DEF AloneInv, Tables, SuccessIsDone, Done
<1>4. i \in OrdersOf(s)
  BY <1>2, <1>3 DEF OrdersOf, SessionOf
<1>5. orders[i].debit = sess[s].wallet
  BY <1>1, <1>2, <1>3 DEF AloneInv, Tables, OrdersInv, NewPurchase
<1>6. sess[s].wallet \in Nat
  BY DEF TypeInv, TypeOK, SessionRow
<1>. QED BY <1>4, <1>5, <1>6 DEF IsOrdered, IsDebited

-------------------------------------------------------------------------------
(* What a sale is, between two steps                                       *)
SplitInv == MaxTopUps = 0 /\ TypeInv /\ ServeInv /\ AloneInv

SaleHolds(s) ==
    /\ sess[s].wallet \in Nat /\ sess[s].due \in Nat /\ Price \in Nat
    /\ Cardinality(CardMoney(s)) = IF IsCharged(s) THEN sess[s].due ELSE 0
    /\ Cardinality(WalletMoney(s)) = IF IsDebited(s) THEN sess[s].wallet ELSE 0
    /\ Cardinality(OrdersOf(s)) = IF IsOrdered(s) THEN 1 ELSE 0
    /\ IsCharged(s) \/ IsOrdered(s) =>
           sess[s].status # "none" /\ sess[s].wallet + sess[s].due = Price
    /\ IsCharged(s) => sess[s].due > 0
    /\ IsOrdered(s) /\ sess[s].due > 0 => IsCharged(s)
    /\ IsDebited(s) => IsOrdered(s)
    /\ IsDone(s) => IsOrdered(s) /\ (~IsDebited(s) => sess[s].wallet = 0)
    /\ \A i, k \in OrdersOf(s) : i = k
SalesHold == \A s \in Checkouts : SaleHolds(s)

(* All of it follows from the invariant.                                    *)
LEMMA SalesAlways == SplitInv => SalesHold
<1>. SUFFICES ASSUME SplitInv, NEW s \in Checkouts PROVE SaleHolds(s)
  BY DEF SalesHold
<1>0. MaxTopUps = 0 /\ TypeInv /\ ServeInv /\ AloneInv
  BY DEF SplitInv
<1>1. sess[s].wallet \in Nat /\ sess[s].due \in Nat /\ Price \in Nat
  BY <1>0, CheckoutAssumption DEF TypeInv, TypeOK, SessionRow
<1>2. IsCharged(s) => sess[s].status # "none"
  BY <1>0 DEF IsCharged, RowsOf, Paid, TypeInv, PaymentsOK, RowsOK, KnownSession
<1>3. IsOrdered(s) => sess[s].status # "none" /\ (sess[s].due > 0 => IsCharged(s))
  BY <1>0, OrderedIsCharged
<1>4. sess[s].status # "none" => sess[s].wallet + sess[s].due = Price
  BY <1>0 DEF AloneInv, Tables, SplitsInv
<1>5. IsDone(s) => IsOrdered(s) /\ (~IsDebited(s) => sess[s].wallet = 0)
  BY <1>0, DoneIsPaid
<1>6. /\ IsCharged(s) => Cardinality(CardMoney(s)) = sess[s].due /\ sess[s].due > 0
      /\ ~IsCharged(s) => Cardinality(CardMoney(s)) = 0
  BY <1>0, CardOfSale
<1>7. /\ \A i, k \in OrdersOf(s) : i = k
      /\ Cardinality(OrdersOf(s)) = IF IsOrdered(s) THEN 1 ELSE 0
      /\ IsDebited(s) => IsOrdered(s) /\ Cardinality(WalletMoney(s)) = sess[s].wallet
      /\ ~IsDebited(s) => Cardinality(WalletMoney(s)) = 0
  BY <1>0, OrdersOfSale
<1>. QED BY <1>1, <1>2, <1>3, <1>4, <1>5, <1>6, <1>7 DEF SaleHolds

-------------------------------------------------------------------------------
(* How a step may move a sale                                              *)
SplitStays ==
    \A s \in Checkouts : sess[s].status # "none" =>
        sess'[s].wallet = sess[s].wallet /\ sess'[s].due = sess[s].due

SameCharged(s) == IsCharged(s)' <=> IsCharged(s)
SameOrdered(s) == IsOrdered(s)' <=> IsOrdered(s)
SameDebited(s) == IsDebited(s)' <=> IsDebited(s)
SameDone(s) == IsDone(s)' <=> IsDone(s)
SameSale(s) == SameCharged(s) /\ SameOrdered(s) /\ SameDebited(s) /\ SameDone(s)

(* The fields of a sale                                                     *)
LEMMA SaleFields ==
  ASSUME NEW s
  PROVE  /\ SaleOf(s) = [card |-> Cardinality(CardMoney(s)), wallet |-> Cardinality(WalletMoney(s)),
                         orders |-> Cardinality(OrdersOf(s)), done |-> IsDone(s)]
         /\ SaleOf(s)' = [card |-> Cardinality(CardMoney(s))', wallet |-> Cardinality(WalletMoney(s))',
                          orders |-> Cardinality(OrdersOf(s))', done |-> IsDone(s)']
BY DEF SaleOf, IsDone

(* Nothing of the sale changes.                                             *)
LEMMA SaleStays ==
  ASSUME SalesHold, SalesHold', SplitStays, NEW s \in Checkouts, SameSale(s)
  PROVE  SaleOf(s)' = SaleOf(s)
<1>1. SaleHolds(s) /\ SaleHolds(s)'
  BY DEF SalesHold
<1>2. /\ Cardinality(CardMoney(s))' = Cardinality(CardMoney(s))
      /\ Cardinality(WalletMoney(s))' = Cardinality(WalletMoney(s))
      /\ Cardinality(OrdersOf(s))' = Cardinality(OrdersOf(s))
  BY <1>1 DEF SaleHolds, SplitStays, SameSale, SameCharged, SameOrdered, SameDebited
<1>3. IsDone(s)' = IsDone(s)
  BY DEF SameSale, SameDone, IsDone
<1>. QED BY <1>2, <1>3, SaleFields

(* The card is charged, before there is an order.                           *)
LEMMA SaleCharged ==
  ASSUME SalesHold, SalesHold', SplitStays, NEW s \in Checkouts,
         ~IsCharged(s), IsCharged(s)', sess[s].status # "none",
         SameOrdered(s), SameDebited(s), SameDone(s),
         \A u \in Checkouts : u # s => SameSale(u)
  PROVE  Sales!ChargeCard(s)
<1>1. SaleHolds(s) /\ SaleHolds(s)'
  BY DEF SalesHold
<1>2. sess'[s].wallet = sess[s].wallet /\ sess'[s].due = sess[s].due
  BY DEF SplitStays
<1>3. ~IsOrdered(s) /\ sess[s].due \in 1 .. Price
  BY <1>1, <1>2 DEF SaleHolds
<1>4. /\ Cardinality(CardMoney(s)) = 0 /\ Cardinality(CardMoney(s))' = sess[s].due
      /\ Cardinality(WalletMoney(s))' = Cardinality(WalletMoney(s))
      /\ Cardinality(OrdersOf(s)) = 0 /\ Cardinality(OrdersOf(s))' = 0
  BY <1>1, <1>2, <1>3 DEF SaleHolds, SameOrdered, SameDebited
<1>5. IsDone(s)' = IsDone(s)
  BY DEF SameDone, IsDone
<1>6. SaleOf(s).card = 0 /\ SaleOf(s).orders = 0
  BY <1>4, SaleFields
<1>7. SaleOf(s)' = [SaleOf(s) EXCEPT !.card = sess[s].due]
  BY <1>4, <1>5, SaleFields
<1>8. \A u \in Checkouts : u # s => SaleOf(u)' = SaleOf(u)
  BY SaleStays
<1>9. [x \in Checkouts |-> SaleOf(x)]'
          = [[x \in Checkouts |-> SaleOf(x)] EXCEPT ![s].card = sess[s].due]
  BY <1>7, <1>8
<1>. QED BY <1>3, <1>6, <1>9 DEF Sales!ChargeCard

(* An order is placed.                                                      *)
LEMMA SaleOrdered ==
  ASSUME SalesHold, SalesHold', SplitStays, NEW s \in Checkouts,
         ~IsOrdered(s), IsOrdered(s)',
         SameCharged(s), SameDebited(s), SameDone(s),
         \A u \in Checkouts : u # s => SameSale(u)
  PROVE  Sales!PlaceOrder(s)
<1>1. SaleHolds(s) /\ SaleHolds(s)'
  BY DEF SalesHold
<1>2. /\ Cardinality(CardMoney(s))' = Cardinality(CardMoney(s))
      /\ Cardinality(WalletMoney(s)) = 0 /\ Cardinality(WalletMoney(s))' = 0
      /\ Cardinality(OrdersOf(s)) = 0 /\ Cardinality(OrdersOf(s))' = 1
  BY <1>1 DEF SaleHolds, SplitStays, SameCharged, SameDebited
<1>3. IsDone(s)' = IsDone(s)
  BY DEF SameDone, IsDone
<1>4. SaleOf(s).orders = 0
  BY <1>2, SaleFields
<1>5. SaleOf(s)' = [SaleOf(s) EXCEPT !.orders = 1]
  BY <1>2, <1>3, SaleFields
<1>6. \A u \in Checkouts : u # s => SaleOf(u)' = SaleOf(u)
  BY SaleStays
<1>7. [x \in Checkouts |-> SaleOf(x)]'
          = [[x \in Checkouts |-> SaleOf(x)] EXCEPT ![s].orders = 1]
  BY <1>5, <1>6
<1>. QED BY <1>4, <1>7 DEF Sales!PlaceOrder

(* The wallet pays what the card did not.                                   *)
LEMMA SaleDebited ==
  ASSUME SalesHold, SalesHold', SplitStays, NEW s \in Checkouts,
         ~IsDebited(s), IsDebited(s)',
         SameCharged(s), SameOrdered(s), SameDone(s),
         \A u \in Checkouts : u # s => SameSale(u)
  PROVE  Sales!DebitWallet(s)
<1>1. SaleHolds(s) /\ SaleHolds(s)'
  BY DEF SalesHold
<1>2. IsOrdered(s) /\ IsOrdered(s)'
  BY <1>1 DEF SaleHolds, SameOrdered
<1>3. /\ Cardinality(CardMoney(s)) = sess[s].due /\ Cardinality(CardMoney(s))' = sess[s].due
      /\ Cardinality(WalletMoney(s)) = 0 /\ Cardinality(WalletMoney(s))' = Price - sess[s].due
      /\ Cardinality(OrdersOf(s)) = 1 /\ Cardinality(OrdersOf(s))' = 1
  BY <1>1, <1>2 DEF SaleHolds, SplitStays, SameCharged
<1>4. IsDone(s)' = IsDone(s)
  BY DEF SameDone, IsDone
<1>5. SaleOf(s).orders = 1 /\ SaleOf(s).wallet = 0 /\ SaleOf(s).card = sess[s].due
  BY <1>3, SaleFields
<1>6. SaleOf(s)' = [SaleOf(s) EXCEPT !.wallet = Price - sess[s].due]
  BY <1>3, <1>4, SaleFields
<1>7. \A u \in Checkouts : u # s => SaleOf(u)' = SaleOf(u)
  BY SaleStays
<1>8. [x \in Checkouts |-> SaleOf(x)]'
          = [[x \in Checkouts |-> SaleOf(x)] EXCEPT ![s].wallet = Price - sess[s].due]
  BY <1>6, <1>7
<1>. QED BY <1>5, <1>8 DEF Sales!DebitWallet

(* The sale is done, when both have paid their part.                        *)
LEMMA SaleDone ==
  ASSUME SalesHold, SalesHold', SplitStays, NEW s \in Checkouts,
         ~IsDone(s), IsDone(s)',
         SameCharged(s), SameOrdered(s), SameDebited(s),
         \A u \in Checkouts : u # s => SameSale(u)
  PROVE  Sales!Finish(s)
<1>1. SaleHolds(s) /\ SaleHolds(s)'
  BY DEF SalesHold
<1>2. IsOrdered(s) /\ (~IsDebited(s) => sess[s].wallet = 0)
  BY <1>1 DEF SaleHolds, SplitStays, SameOrdered, SameDebited
<1>3. /\ Cardinality(CardMoney(s)) = sess[s].due /\ Cardinality(CardMoney(s))' = sess[s].due
      /\ Cardinality(WalletMoney(s)) = sess[s].wallet
      /\ Cardinality(WalletMoney(s))' = sess[s].wallet
      /\ Cardinality(OrdersOf(s)) = 1 /\ Cardinality(OrdersOf(s))' = 1
  BY <1>1, <1>2 DEF SaleHolds, SplitStays, SameCharged, SameOrdered, SameDebited
<1>4. sess[s].due + sess[s].wallet = Price
  BY <1>1, <1>2 DEF SaleHolds
<1>5. IsDone(s)' = TRUE /\ IsDone(s) = FALSE
  BY DEF IsDone
<1>6. /\ SaleOf(s).orders = 1 /\ ~SaleOf(s).done
      /\ SaleOf(s).card = sess[s].due /\ SaleOf(s).wallet = sess[s].wallet
  BY <1>3, <1>5, SaleFields
<1>7. SaleOf(s)' = [SaleOf(s) EXCEPT !.done = TRUE]
  BY <1>3, <1>5, SaleFields
<1>8. \A u \in Checkouts : u # s => SaleOf(u)' = SaleOf(u)
  BY SaleStays
<1>9. [x \in Checkouts |-> SaleOf(x)]'
          = [[x \in Checkouts |-> SaleOf(x)] EXCEPT ![s].done = TRUE]
  BY <1>7, <1>8
<1>. QED BY <1>4, <1>6, <1>9 DEF Sales!Finish

Selling == [x \in Checkouts |-> SaleOf(x)]
SaleMoves == Sales!Next \/ Selling' = Selling

(* Every sale stays as it is.                                               *)
LEMMA SalesStay ==
  ASSUME SalesHold, SalesHold', SplitStays, \A s \in Checkouts : SameSale(s)
  PROVE  SaleMoves
<1>1. \A s \in Checkouts : SaleOf(s)' = SaleOf(s)
  BY SaleStays
<1>. QED BY <1>1 DEF SaleMoves, Selling

(* Moyasar: one payment is captured, and none is taken back.                *)
LEMMA PaymentMoves ==
  ASSUME SalesHold, SalesHold', TypeInv, UNCHANGED <<sess, tx, orders>>,
         \A t \in Requests : Paid(t) => Paid(t)',
         NEW v, \A t \in Requests : t # v => pay'[t] = pay[t]
  PROVE  SaleMoves
<1>1. SplitStays
  BY DEF SplitStays
<1>2. \A s \in Checkouts : RowsOf(s)' = RowsOf(s) /\ OrdersOf(s)' = OrdersOf(s)
  BY DEF RowsOf, OrdersOf, SessionOf
<1>3. \A s \in Checkouts : SameOrdered(s) /\ SameDebited(s) /\ SameDone(s)
  BY <1>2 DEF SameOrdered, SameDebited, SameDone, IsOrdered, IsDebited, IsDone, NewPurchase
<1>4. \A s \in Checkouts : IsCharged(s) => IsCharged(s)'
  BY <1>2 DEF IsCharged, RowsOf
<1>5. CASE \E s \in Checkouts : IsCharged(s)' /\ ~IsCharged(s)
  <2>1. PICK s \in Checkouts : IsCharged(s)' /\ ~IsCharged(s)
    BY <1>5
  <2>2. PICK t \in RowsOf(s) : Paid(t)' /\ ~Paid(t)
    BY <1>2, <2>1 DEF IsCharged
  <2>3. t = v /\ t \in Requests /\ tx[t].sess = s
    BY <2>2 DEF RowsOf, Paid
  <2>4. \A u \in Checkouts : u # s => SameCharged(u)
    BY <1>2, <2>3 DEF SameCharged, IsCharged, RowsOf, Paid
  <2>5. sess[s].status # "none"
    BY <1>1, <2>1 DEF SalesHold, SaleHolds
  <2>6. \A u \in Checkouts : u # s => SameSale(u)
    BY <1>3, <2>4 DEF SameSale
  <2>7. Sales!ChargeCard(s)
    BY <1>1, <1>3, <2>1, <2>5, <2>6, SaleCharged
  <2>. QED BY <2>7 DEF SaleMoves, Sales!Next
<1>6. CASE ~\E s \in Checkouts : IsCharged(s)' /\ ~IsCharged(s)
  <2>1. \A s \in Checkouts : SameSale(s)
    BY <1>3, <1>4, <1>6 DEF SameSale, SameCharged
  <2>. QED BY <1>1, <2>1, SalesStay
<1>. QED BY <1>5, <1>6

(* One payment row is written at most, and it stays with its session.       *)
LEMMA RowMoves ==
  ASSUME SalesHold, SalesHold', TypeInv, ServeInv, Kept, SplitStays, SuccessStays,
         UNCHANGED <<pay, orders>>,
         NEW v, \A t \in Requests : t # v => tx'[t] = tx[t]
  PROVE  SaleMoves
<1>1. \A t \in Requests, s \in Checkouts : Paid(t) => (t \in RowsOf(s)' <=> t \in RowsOf(s))
  BY DEF RowsOf, Paid, TypeInv, PaymentsOK, Kept
<1>2. \A s \in Checkouts : SameCharged(s)
  BY <1>1 DEF SameCharged, IsCharged, RowsOf, Paid
<1>3. \A s \in Checkouts : OrdersOf(s)' = OrdersOf(s)
  <2>1. \A i \in DOMAIN orders : orders[i].tx # None => KnownRow(orders[i].tx)
    BY DEF ServeInv, OrdersOK
  <2>2. \A i \in DOMAIN orders : SessionOf(i)' = SessionOf(i)
    BY <2>1 DEF SessionOf, KnownRow, Kept
  <2>. QED BY <2>2 DEF OrdersOf
<1>4. \A s \in Checkouts : SameOrdered(s) /\ SameDebited(s)
  BY <1>3 DEF SameOrdered, SameDebited, IsOrdered, IsDebited
<1>5. ASSUME NEW t \in Requests, tx[t].status = "SUCCESS"
      PROVE  /\ tx'[t].status = "SUCCESS" /\ tx'[t].sess = tx[t].sess
             /\ NewPurchase(t)' <=> NewPurchase(t)
  BY <1>5, CheckoutAssumption DEF SuccessStays, Kept, TypeInv, RowsOK, KnownSession, NewPurchase
<1>6. \A s \in Checkouts : IsDone(s) => IsDone(s)'
  BY <1>5 DEF IsDone, RowsOf
<1>7. CASE \E s \in Checkouts : IsDone(s)' /\ ~IsDone(s)
  <2>1. PICK s \in Checkouts : IsDone(s)' /\ ~IsDone(s)
    BY <1>7
  <2>2. ASSUME NEW u \in Checkouts, IsDone(u)', ~IsDone(u) PROVE tx'[v].sess = u
    <3>1. PICK t \in Requests : /\ tx'[t].sess = u /\ tx'[t].status = "SUCCESS"
                                /\ NewPurchase(t)'
      BY <2>2 DEF IsDone, RowsOf
    <3>2. tx[t].status # "SUCCESS"
      BY <1>5, <2>2, <3>1 DEF IsDone, RowsOf
    <3>. QED BY <3>1, <3>2
  <2>3. \A u \in Checkouts : u # s => SameDone(u)
    BY <1>6, <2>1, <2>2 DEF SameDone
  <2>4. \A u \in Checkouts : u # s => SameSale(u)
    BY <1>2, <1>4, <2>3 DEF SameSale
  <2>5. Sales!Finish(s)
    BY <1>2, <1>4, <2>1, <2>4, SaleDone
  <2>. QED BY <2>5 DEF SaleMoves, Sales!Next
<1>8. CASE ~\E s \in Checkouts : IsDone(s)' /\ ~IsDone(s)
  <2>1. \A s \in Checkouts : SameSale(s)
    BY <1>2, <1>4, <1>6, <1>8 DEF SameSale, SameDone
  <2>. QED BY <2>1, SalesStay
<1>. QED BY <1>7, <1>8

(* A step that only writes orders moves neither charges nor what is done.   *)
LEMMA OrdersOnly ==
  ASSUME UNCHANGED <<sess, tx, pay>>, NEW s \in Checkouts
  PROVE  SameCharged(s) /\ SameDone(s)
BY DEF SameCharged, SameDone, IsCharged, IsDone, RowsOf, Paid, NewPurchase

(* An order is inserted, its wallet part still to be taken.                 *)
LEMMA OrderPlaced ==
  ASSUME SalesHold, SalesHold', TypeInv, UNCHANGED <<sess, tx, pay>>,
         NEW new \in OrderRow, new.debit = 0, orders' = Append(orders, new)
  PROVE  SaleMoves
<1>a. PICK k, of : /\ k = Len(orders) + 1
                   /\ of = IF new.tx = None THEN None ELSE tx[new.tx].sess
  OBVIOUS
<1>0. /\ k \notin DOMAIN orders /\ DOMAIN orders' = DOMAIN orders \cup {k}
      /\ \A i \in DOMAIN orders : orders'[i] = orders[i]
      /\ orders'[k] = new
  <2>1. Len(orders) \in Nat /\ DOMAIN orders = 1 .. Len(orders)
    BY DEF TypeInv, TypeOK
  <2>2. /\ DOMAIN orders' = 1 .. Len(orders) + 1
        /\ \A i \in DOMAIN orders : orders'[i] = orders[i]
        /\ orders'[Len(orders) + 1] = new
    BY DEF TypeInv, TypeOK
  <2>. QED BY <1>a, <2>1, <2>2
<1>1. /\ \A i \in DOMAIN orders : SessionOf(i)' = SessionOf(i)
      /\ SessionOf(k)' = of
  BY <1>0, <1>a DEF SessionOf
<1>2. SplitStays
  BY DEF SplitStays
<1>3. \A s \in Checkouts : s # of => OrdersOf(s)' = OrdersOf(s)
  BY <1>0, <1>1 DEF OrdersOf
<1>4. \A s \in Checkouts : s # of => SameSale(s)
  <2>. SUFFICES ASSUME NEW s \in Checkouts, s # of PROVE SameSale(s)
    OBVIOUS
  <2>1. OrdersOf(s)' = OrdersOf(s)
    BY <1>3
  <2>2. \A i \in OrdersOf(s) : orders'[i] = orders[i]
    BY <1>0 DEF OrdersOf
  <2>3. SameOrdered(s) /\ SameDebited(s)
    BY <2>1, <2>2 DEF SameOrdered, SameDebited, IsOrdered, IsDebited
  <2>. QED BY <2>3, OrdersOnly DEF SameSale
<1>5. CASE of \notin Checkouts
  <2>1. \A s \in Checkouts : SameSale(s)
    BY <1>4, <1>5
  <2>. QED BY <1>2, <2>1, SalesStay
<1>6. CASE of \in Checkouts
  <2>1. k \in OrdersOf(of)'
    BY <1>0, <1>1 DEF OrdersOf
  <2>2. \A i \in OrdersOf(of) : i \in OrdersOf(of)' /\ i # k
    BY <1>0, <1>1 DEF OrdersOf
  <2>3. \A i, j \in OrdersOf(of)' : i = j
    BY <1>6 DEF SalesHold, SaleHolds
  <2>4. OrdersOf(of) = {} /\ OrdersOf(of)' = {k}
    BY <2>1, <2>2, <2>3
  <2>5. ~IsOrdered(of) /\ IsOrdered(of)'
    BY <2>4 DEF IsOrdered
  <2>6. ~IsDebited(of) /\ ~IsDebited(of)'
    BY <1>0, <2>4 DEF IsDebited
  <2>7. SameDebited(of) /\ SameCharged(of) /\ SameDone(of)
    BY <1>6, <2>6, OrdersOnly DEF SameDebited
  <2>8. Sales!PlaceOrder(of)
    BY <1>2, <1>4, <1>6, <2>5, <2>7, SaleOrdered
  <2>. QED BY <1>6, <2>8 DEF SaleMoves, Sales!Next
<1>. QED BY <1>5, <1>6

(* An order is written that is there: its debit may be entered.             *)
LEMMA OrderWritten ==
  ASSUME SalesHold, SalesHold', TypeInv, UNCHANGED <<sess, tx, pay>>,
         DOMAIN orders' = DOMAIN orders,
         \A i \in DOMAIN orders : /\ orders'[i].tx = orders[i].tx
                                  /\ orders[i].debit > 0 => orders'[i].debit > 0,
         NEW k, \A i \in DOMAIN orders : i # k => orders'[i].debit = orders[i].debit
  PROVE  SaleMoves
<1>1. SplitStays
  BY DEF SplitStays
<1>2. \A s \in Checkouts : OrdersOf(s)' = OrdersOf(s)
  BY DEF OrdersOf, SessionOf
<1>3. \A s \in Checkouts : SameOrdered(s) /\ SameCharged(s) /\ SameDone(s)
  BY <1>2, OrdersOnly DEF SameOrdered, IsOrdered
<1>4. \A s \in Checkouts : \A i \in OrdersOf(s) : i \in DOMAIN orders
  BY DEF OrdersOf
<1>5. \A s \in Checkouts : IsDebited(s) => IsDebited(s)'
  BY <1>2, <1>4 DEF IsDebited
<1>6. CASE \E s \in Checkouts : IsDebited(s)' /\ ~IsDebited(s)
  <2>1. PICK s \in Checkouts : IsDebited(s)' /\ ~IsDebited(s)
    BY <1>6
  <2>2. ASSUME NEW u \in Checkouts, IsDebited(u)', ~IsDebited(u) PROVE k \in OrdersOf(u)
    BY <1>2, <1>4, <2>2 DEF IsDebited
  <2>3. \A u \in Checkouts : k \in OrdersOf(u) => u = SessionOf(k)
    BY DEF OrdersOf
  <2>4. \A u \in Checkouts : u # s => SameSale(u)
    BY <1>3, <1>5, <2>1, <2>2, <2>3 DEF SameSale, SameDebited
  <2>5. Sales!DebitWallet(s)
    BY <1>1, <1>3, <2>1, <2>4, SaleDebited
  <2>. QED BY <2>5 DEF SaleMoves, Sales!Next
<1>7. CASE ~\E s \in Checkouts : IsDebited(s)' /\ ~IsDebited(s)
  <2>1. \A s \in Checkouts : SameSale(s)
    BY <1>3, <1>5, <1>7 DEF SameSale, SameDebited
  <2>. QED BY <1>1, <2>1, SalesStay
<1>. QED BY <1>6, <1>7

-------------------------------------------------------------------------------
(* The steps                                                               *)

(* A step that may only write one payment row, or sessions                  *)
OneRow == UNCHANGED <<pay, orders>> /\ \E v : \A t \in Requests : t # v => tx'[t] = tx[t]

(* An update of a payment row writes that one.                              *)
LEMMA UpdateIsOneRow ==
  ASSUME TypeInv, NEW t, NEW st, NEW g, UpdateTx(t, st, g), UNCHANGED <<gateway, orders>>
  PROVE  OneRow
BY DEF TypeInv, TypeOK, UpdateTx, OneRow, gateway

(* So does a step that writes none.                                         *)
LEMMA NoRowIsOneRow ==
  ASSUME UNCHANGED <<pay, tx, orders>>
  PROVE  OneRow
BY DEF OneRow

(* The split of a session is not written after its creation.                *)
LEMMA SplitsStay ==
  ASSUME SplitInv, [Next]_vars
  PROVE  SplitStays
<1>0. MaxTopUps = 0 /\ TypeInv /\ AloneInv /\ sess \in [Checkouts -> SessionRow]
  BY DEF SplitInv, TypeInv, TypeOK
<1>1. ASSUME NEW s, NEW st, UpdateSession(s, st) PROVE SplitStays
  BY <1>0, <1>1 DEF UpdateSession, SplitStays, SessionRow
<1>2. ASSUME NEW c \in Checkouts, CreateCheckoutSession(c) PROVE SplitStays
  <2>1. CASE CheckoutExpireOthers(c)
    BY <1>0, <2>1 DEF CheckoutExpireOthers, SplitStays, SessionRow
  <2>2. CASE CheckoutCreate(c)
    <3>1. Knows(c, pc[c], my[c]) /\ pc[c] = "c_create"
      BY <1>0, <2>2, Facts DEF CheckoutCreate, At, Handlers
    <3>2. sess[c].status = "none"
      BY <3>1 DEF Knows, Opening
    <3>. QED BY <1>0, <2>2, <3>2 DEF CheckoutCreate, SplitStays
  <2>. QED BY <1>2, <2>1, <2>2 DEF CreateCheckoutSession, CheckoutReadSub, CheckoutReadBalance,
                                   SplitStays
<1>3. ASSUME NEW r \in Requests, CreateOrder(r) PROVE SplitStays
  <2>1. ~RefreshSession(r)
    <3>1. pc[r] # "refresh"
      BY <1>0 DEF AloneInv, Sees, Acts, SeesSession, Handlers
    <3>. QED BY <3>1 DEF RefreshSession, At
  <2>2. UNCHANGED sess \/ UpdateSession(my[r].s, "confirmed")
    BY <1>3, <2>1 DEF CreateOrder, ReadSession, ReadBalance, ReadIntent, ReadLinkedOrder,
         GuardSubscription, ClaimSession, CreateTransaction, SettleByWallet, FetchReused, Recheck,
         PostCharge, ReadReply, MarkPaid, MarkUnsure
  <2>. QED BY <1>1, <2>2 DEF SplitStays
<1>4. ASSUME NEW h \in Handlers, \/ FulfillPaidCheckout(h) \/ Resume(h) \/ MarkFailed(h)
                                 \/ Reopen(h) \/ HandleMoyasarWebhook(h) \/ SyncPendingPayments(h)
      PROVE  SplitStays
  <2>1. UNCHANGED sess \/ \E s, st : UpdateSession(s, st)
    BY <1>4 DEF FulfillPaidCheckout, BeginFulfilment, LostFulfilment, LoadOrder, CheckCover,
         ReadIsNew, InsertOrder, PromoteDays, PromotePlan, PromoteOrder, ConfirmSession,
         DebitWallet, RelinkSubscription, ReadLive, CreateSubscription, WriteDays, WriteEndDate,
         LinkOrder, ReadReferred, CreditReferrer, CreateReferral, MarkSuccess, BodyThrows, Catch,
         Resume, MarkFailed, Reopen, HandleMoyasarWebhook, WebhookArrives, WebhookSettles,
         SyncPendingPayments, JobReadInitiated, JobReadPaid, JobReadFulfilling, JobList,
         JobTakesRow, JobEnds, JobSettlesWallet, JobFetches, JobSettles
  <2>. QED BY <1>1, <2>1 DEF SplitStays
<1>5. CASE Environment
  <2>1. CASE \E s \in Checkouts : TenMinutesPass(s)
    BY <1>0, <2>1 DEF TenMinutesPass, SplitStays, SessionRow
  <2>. QED BY <1>5, <2>1 DEF Environment, Crash, TwoMinutesPass, TopUp, Moyasar, SplitStays
<1>6. CASE UNCHANGED vars
  BY <1>6 DEF vars, SplitStays
<1>. QED BY <1>2, <1>3, <1>4, <1>5, <1>6 DEF Next, Step

(* What a step of a handler writes: one payment row or none, or an order.   *)
LEMMA HandlerWrites ==
  ASSUME TypeInv, NEW h \in Handlers, Step(h)
  PROVE  OneRow \/ InsertOrder(h) \/ DebitWallet(h) \/ LinkOrder(h)
<1>1. CASE \E t, st, g : UpdateTx(t, st, g) /\ UNCHANGED <<gateway, orders>>
  BY <1>1, UpdateIsOneRow
<1>2. CASE UNCHANGED <<pay, tx, orders>>
  BY <1>2, NoRowIsOneRow
<1>3. ASSUME FulfillPaidCheckout(h), ~InsertOrder(h), ~DebitWallet(h), ~LinkOrder(h)
      PROVE  \/ UNCHANGED <<pay, tx, orders>>
             \/ \E t, st, g : UpdateTx(t, st, g) /\ UNCHANGED <<gateway, orders>>
  BY <1>3 DEF FulfillPaidCheckout, BeginFulfilment, LostFulfilment, LoadOrder, CheckCover,
       ReadIsNew, PromoteDays, PromotePlan, PromoteOrder, ConfirmSession, RelinkSubscription,
       ReadLive, CreateSubscription, WriteDays, WriteEndDate, ReadReferred, CreditReferrer,
       CreateReferral, MarkSuccess, BodyThrows, Catch, gateway, store
<1>4. ASSUME \/ Resume(h) \/ MarkFailed(h) \/ Reopen(h)
             \/ HandleMoyasarWebhook(h) \/ SyncPendingPayments(h)
      PROVE  \/ UNCHANGED <<pay, tx, orders>>
             \/ \E t, st, g : UpdateTx(t, st, g) /\ UNCHANGED <<gateway, orders>>
  BY <1>4 DEF Resume, MarkFailed, Reopen, HandleMoyasarWebhook, WebhookArrives, WebhookSettles,
       SyncPendingPayments, JobReadInitiated, JobReadPaid, JobReadFulfilling, JobList,
       JobTakesRow, JobEnds, JobSettlesWallet, JobFetches, JobSettles, gateway, store
<1>5. ASSUME CreateCheckoutSession(h) PROVE UNCHANGED <<pay, tx, orders>>
  BY <1>5 DEF CreateCheckoutSession, CheckoutReadSub, CheckoutReadBalance, CheckoutExpireOthers,
       CheckoutCreate, gateway, store
<1>6. ASSUME CreateOrder(h), ~CreateTransaction(h)
      PROVE  \/ UNCHANGED <<pay, tx, orders>>
             \/ \E t, st, g : UpdateTx(t, st, g) /\ UNCHANGED <<gateway, orders>>
  BY <1>6 DEF CreateOrder, ReadSession, ReadBalance, RefreshSession, ReadIntent, ReadLinkedOrder,
       GuardSubscription, ClaimSession, SettleByWallet, FetchReused, Recheck, PostCharge, Post,
       ReadReply, MarkPaid, MarkUnsure, gateway, store
<1>7. CASE CreateTransaction(h)
  <2>1. \A t \in Requests : t # h => tx'[t] = tx[t]
    BY <1>7 DEF CreateTransaction, TypeInv, TypeOK
  <2>. QED BY <1>7, <2>1 DEF CreateTransaction, OneRow, gateway
<1>. QED BY <1>1, <1>2, <1>3, <1>4, <1>5, <1>6, <1>7 DEF Step

(* Without overlap and credits, every step is one of Purchase or none.      *)
LEMMA SaleStep ==
  ASSUME ~Overlap
  PROVE  SplitInv /\ [Next]_vars => SaleMoves
<1>1. SplitInv /\ [Next]_vars => SplitInv' /\ Kept /\ SuccessStays /\ SplitStays
  <2>. SUFFICES ASSUME SplitInv, [Next]_vars
                PROVE  SplitInv' /\ Kept /\ SuccessStays /\ SplitStays
    OBVIOUS
  <2>1. SplitStays
    BY SplitsStay
  <2>2. MaxTopUps = 0 /\ TypeInv /\ ServeInv /\ AloneInv
    BY DEF SplitInv
  <2>3. TypeInv' /\ Kept /\ ServeInv'
    BY <2>2, TypeStep, ServeStep
  <2>4. AloneInv' /\ SuccessStays
    BY <2>2, AloneStep
  <2>. QED BY <2>1, <2>2, <2>3, <2>4 DEF SplitInv
<1>2. SplitInv => SalesHold
  BY SalesAlways
<1>3. SplitInv' => SalesHold'
  BY SalesAlways, PTL
<1>. SUFFICES ASSUME SplitInv, [Next]_vars PROVE SaleMoves
  OBVIOUS
<1>4. /\ SalesHold /\ SalesHold' /\ TypeInv /\ ServeInv
      /\ Kept /\ SuccessStays /\ SplitStays
  BY <1>1, <1>2, <1>3 DEF SplitInv
<1>5. CASE OneRow
  <2>1. PICK v : \A t \in Requests : t # v => tx'[t] = tx[t]
    BY <1>5 DEF OneRow
  <2>. QED BY <1>4, <1>5, <2>1, RowMoves DEF OneRow
<1>6. ASSUME NEW h \in Handlers, InsertOrder(h) PROVE SaleMoves
  <2>1. Knows(h, pc[h], my[h]) /\ my[h] \in Local /\ sess \in [Checkouts -> SessionRow]
    BY <1>4, Facts DEF StoreTyped
  <2>2. my[h].t \in Requests /\ my[h].s \in Checkouts
    BY <1>6, <2>1 DEF InsertOrder, At, Knows, NoRow, NoSession, Opening, KnownRow, KnownSession
  <2>. DEFINE new == [tx |-> my[h].t, gid |-> my[h].gid, sub |-> Promo(h), debit |-> 0,
                      first |-> my[h].first]
  <2>3. new \in OrderRow /\ new.debit = 0
    BY <2>1, <2>2 DEF OrderRow, Local, Promo, SessionRow
  <2>4. orders' = Append(orders, new) /\ UNCHANGED <<sess, tx, pay>>
    BY <1>6 DEF InsertOrder, store, gateway
  <2>. HIDE DEF new
  <2>. QED BY <1>4, <2>3, <2>4, OrderPlaced
<1>7. ASSUME NEW h \in Handlers, DebitWallet(h) \/ LinkOrder(h) PROVE SaleMoves
  <2>0. /\ my[h].wallet \in Nat /\ orders \in Seq(OrderRow)
        /\ \A i \in DOMAIN orders : orders[i] \in OrderRow
        /\ UNCHANGED <<sess, tx, pay>>
    BY <1>4, <1>7, Facts DEF TypeInv, TypeOK, Local, DebitWallet, LinkOrder, store, gateway
  <2>. DEFINE o == my[h].o
  <2>1. CASE UNCHANGED orders
    BY <1>4, <2>0, <2>1, OrderWritten
  <2>2. CASE orders' = [orders EXCEPT ![o].debit = @ + my[h].wallet]
    <3>1. PICK k : k = o
      OBVIOUS
    <3>2. /\ DOMAIN orders' = DOMAIN orders
          /\ \A i \in DOMAIN orders : i # k => orders'[i] = orders[i]
          /\ k \in DOMAIN orders => /\ orders'[k].tx = orders[k].tx
                                    /\ orders'[k].debit = orders[k].debit + my[h].wallet
      BY <2>0, <2>2, <3>1 DEF OrderRow
    <3>3. \A i \in DOMAIN orders : /\ orders'[i].tx = orders[i].tx
                                   /\ orders[i].debit > 0 => orders'[i].debit > 0
      BY <2>0, <3>2 DEF OrderRow
    <3>. QED BY <1>4, <2>0, <3>2, <3>3, OrderWritten
  <2>3. CASE orders' = [orders EXCEPT ![o].sub = my[h].sub]
    <3>1. /\ DOMAIN orders' = DOMAIN orders
          /\ \A i \in DOMAIN orders : /\ orders'[i].tx = orders[i].tx
                                      /\ orders'[i].debit = orders[i].debit
      BY <2>0, <2>3 DEF OrderRow
    <3>. QED BY <1>4, <2>0, <3>1, OrderWritten
  <2>. QED BY <1>7, <2>1, <2>2, <2>3 DEF DebitWallet, LinkOrder
<1>8. CASE Moyasar
  <2>1. UNCHANGED <<sess, tx, orders>> /\ \A t \in Requests : Paid(t) => Paid(t)'
    BY <1>4, <1>8, GatewayMoves DEF Moyasar, store
  <2>2. \E v : \A t \in Requests : t # v => pay'[t] = pay[t]
    <3>1. pay \in [Requests -> PayStatus]
      BY <1>4 DEF TypeInv, TypeOK, GatewayTypeOK
    <3>. QED BY <1>8, <3>1 DEF Moyasar, GatewayNext, Accept, Create, Refuse, Settle
  <2>. QED BY <1>4, <2>1, <2>2, PaymentMoves
<1>9. CASE Environment /\ ~Moyasar
  <2>1. UNCHANGED <<pay, orders>>
    BY <1>9 DEF Environment, Crash, TenMinutesPass, TwoMinutesPass, TopUp, gateway
  <2>2. \E v : \A t \in Requests : t # v => tx'[t] = tx[t]
    <3>1. tx \in [Requests -> TxRow]
      BY <1>4 DEF TypeInv, TypeOK
    <3>. QED BY <1>9, <3>1 DEF Environment, Crash, TenMinutesPass, TwoMinutesPass, TopUp, store
  <2>. QED BY <1>5, <2>1, <2>2 DEF OneRow
<1>10. CASE UNCHANGED vars
  BY <1>5, <1>10, NoRowIsOneRow DEF vars, gateway, store
<1>. QED BY <1>4, <1>5, <1>6, <1>7, <1>8, <1>9, <1>10, HandlerWrites DEF Next

(* While no two handlers overlap and no credit reaches the wallet, whatever *)
(* requests, webhooks and jobs do, with crashes and lost replies, amounts   *)
(* to a Purchase: each sale is charged, ordered, debited and finished once, *)
(* in an order that Purchase allows.                                        *)
THEOREM PurchaseImplemented ==
  ASSUME ~Overlap, MaxTopUps = 0
  PROVE  Spec => ImplementsPurchase
<1>1. Init => Sales!Init
  <2>. SUFFICES ASSUME Init PROVE Selling = [s \in Checkouts |-> [card |-> 0, wallet |-> 0,
                                                orders |-> 0, done |-> FALSE]]
    BY DEF Sales!Init, Selling
  <2>1. /\ \A t \in Requests : tx[t].sess = None
        /\ \A i \in DOMAIN orders : SessionOf(i) = None
    BY DEF Init, OldOrder, SessionOf
  <2>2. \A s \in Checkouts : RowsOf(s) = {} /\ OrdersOf(s) = {}
    BY <2>1, CheckoutAssumption DEF RowsOf, OrdersOf
  <2>3. ASSUME NEW s \in Checkouts
        PROVE  SaleOf(s) = [card |-> 0, wallet |-> 0, orders |-> 0, done |-> FALSE]
    <3>1. CardMoney(s) = {} /\ WalletMoney(s) = {} /\ IsDone(s) = FALSE
      BY <2>2 DEF CardMoney, WalletMoney, IsDone
    <3>. QED BY <2>2, <3>1, FS_EmptySet, SaleFields
  <2>. QED BY <2>3 DEF Selling
<1>2. Init => SplitInv
  BY InitTyped, InitServes, InitAlone DEF SplitInv
<1>3. SplitInv /\ [Next]_vars => SplitInv'
  BY TypeStep, ServeStep, AloneStep DEF SplitInv
<1>4. SplitInv /\ [Next]_vars => [Sales!Next]_[s \in Checkouts |-> SaleOf(s)]
  BY SaleStep DEF SaleMoves, Selling
<1>. QED BY <1>1, <1>2, <1>3, <1>4, PTL DEF Spec, ImplementsPurchase, Sales!Spec
===============================================================================

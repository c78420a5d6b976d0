------------------------- MODULE PaidCheckout_proofs --------------------------
(***************************************************************************)
(* What holds of PaidCheckout for every number of checkouts, requests,      *)
(* webhooks and jobs, every interleaving of them, and every number of       *)
(* crashes, failed statements and credits.                                  *)
(*                                                                         *)
(* The argument is the same throughout.  A handler acts on what it read     *)
(* earlier.  That is safe because some facts about the store are never      *)
(* taken back: a row keeps its session, a session the plan it upgrades      *)
(* (Kept, here), an order its payment row and its link to a plan            *)
(* (OrdersKept, in PaidCheckoutOrders_proofs).  What a handler knows at an  *)
(* await (Knows here, Serves there) is made of such facts only.  A step has *)
(* two things to show: what it keeps, and what its own handler knows then.  *)
(***************************************************************************)
EXTENDS PaidCheckout, SequenceTheorems, TLAPS

KnownSession(s) == s \in Checkouts /\ sess[s].status # "none"
KnownRow(t) == t \in Requests /\ tx[t].status # "none"

(* The awaits before a session, or a row, is inserted                      *)
Opening == {"idle", "c_balance", "c_expire", "c_create"}
Early == {"idle", "balance", "refresh", "intent", "linked_order", "guard",
          "claim", "insert"}
(* The awaits at which a handler does not hold a session, or a row         *)
NoSession == Opening \cup {"done", "job_paid", "job_busy", "job_next"}
NoRow == NoSession \cup {"balance", "refresh", "intent", "guard", "claim", "insert"}

(* What a handler knows at an await l, having read m                      *)
Knows(h, l, m) ==
    /\ h \in Checkouts /\ l \in Opening => sess[h].status = "none"
    /\ h \in Requests /\ l \in Early => tx[h].status = "none"
    /\ l \notin NoSession => KnownSession(m.s)
    /\ l \in {"balance", "refresh", "intent"} => m.seen = "none"
    /\ l \notin NoRow \/ (l \in {"guard", "claim"} /\ m.seen # "none") =>
          KnownRow(m.t) /\ tx[m.t].sess = m.s
    /\ \A i \in m.todo : KnownRow(i.t)

RowsOK == \A t \in Requests : tx[t].status # "none" => KnownSession(tx[t].sess)
PaymentsOK ==
    /\ \A t \in Requests : pay[t] # "none" => tx[t].status # "none"
    /\ \A p \in posts : tx[p.key].status # "none"

TypeInv ==
    /\ TypeOK /\ RowsOK /\ PaymentsOK
    /\ \A h \in Handlers : Knows(h, pc[h], my[h])

StoreTyped ==
    /\ GatewayTypeOK
    /\ sess \in [Checkouts -> SessionRow] /\ tx \in [Requests -> TxRow]
    /\ born \in Seq(Requests) /\ orders \in Seq(OrderRow) /\ subs \in Seq(SubRow)
    /\ balance \in Nat /\ topups \in Nat
    /\ referred \in BOOLEAN /\ rewards \in Nat /\ faults \in Nat

-------------------------------------------------------------------------------
(* What a step of h keeps: sessions and rows other than its own appear     *)
(* nowhere, and those that exist keep what others rely on.                 *)
Kept ==
    /\ \A s \in Checkouts : sess[s].status # "none" =>
          sess'[s].status # "none" /\ sess'[s].promo = sess[s].promo
    /\ \A t \in Requests : tx[t].status # "none" =>
          tx'[t].status # "none" /\ tx'[t].sess = tx[t].sess
Keeps(h) ==
    /\ Kept
    /\ \A s \in Checkouts \ {h} : sess[s].status = "none" => sess'[s].status = "none"
    /\ \A t \in Requests \ {h} : tx[t].status = "none" => tx'[t].status = "none"

(* What g knows survives a step of another handler.                         *)
LEMMA KnowsKept ==
  ASSUME NEW h, NEW g, g # h, NEW l, NEW m, Knows(g, l, m), Keeps(h)
  PROVE  Knows(g, l, m)'
BY DEF Knows, Keeps, Kept, KnownSession, KnownRow

(* A step of h disturbs no other handler; it is left to show what h knows.  *)
LEMMA HandlersKept ==
  ASSUME TypeInv, NEW h \in Handlers, NEW l \in PC, NEW m \in Local,
         Load(h, l, m), Keeps(h), Knows(h, l, m)'
  PROVE  /\ pc' \in [Handlers -> PC] /\ my' \in [Handlers -> Local]
         /\ \A g \in Handlers : Knows(g, pc[g], my[g])'
         /\ Kept
<1>1. /\ pc \in [Handlers -> PC] /\ my \in [Handlers -> Local]
      /\ pc' = [pc EXCEPT ![h] = l] /\ my' = [my EXCEPT ![h] = m]
  BY DEF TypeInv, TypeOK, Load
<1>2. pc' \in [Handlers -> PC] /\ my' \in [Handlers -> Local]
  BY <1>1
<1>3. ASSUME NEW g \in Handlers PROVE Knows(g, pc[g], my[g])'
  <2>1. CASE g = h
    <3>1. pc'[g] = l /\ my'[g] = m
      BY <1>1, <2>1
    <3>. QED BY <3>1, <2>1 DEF Knows, KnownSession, KnownRow
  <2>2. CASE g # h
    <3>1. pc'[g] = pc[g] /\ my'[g] = my[g]
      BY <1>1, <2>2
    <3>2. Knows(g, pc[g], my[g])
      BY DEF TypeInv
    <3>. QED BY <3>1, <3>2, <2>2 DEF Knows, Keeps, Kept, KnownSession, KnownRow
  <2>. QED BY <2>1, <2>2
<1>. QED BY <1>2, <1>3 DEF Keeps

(* A step of h that leaves sessions, rows and payments alone.              *)
LEMMA Elsewhere ==
  ASSUME TypeInv, NEW h \in Handlers, NEW l \in PC, NEW m \in Local,
         Load(h, l, m), Knows(h, l, m), UNCHANGED <<gateway, sess, tx>>, StoreTyped'
  PROVE  TypeInv' /\ Kept
<1>1. Keeps(h) /\ Knows(h, l, m)'
  BY DEF Keeps, Kept, Knows, KnownSession, KnownRow
<1>2. RowsOK' /\ PaymentsOK'
  BY DEF TypeInv, RowsOK, PaymentsOK, KnownSession, gateway
<1>. QED BY <1>1, <1>2, HandlersKept DEF TypeInv, TypeOK, StoreTyped

(* A step of h that writes no table, except perhaps the count of faults.    *)
LEMMA Quiet ==
  ASSUME TypeInv, NEW h \in Handlers, NEW l \in PC, NEW m \in Local,
         Load(h, l, m), Knows(h, l, m), faults' \in Nat,
         UNCHANGED <<gateway, sess, store, orders, subs, ledger, friends>>
  PROVE  TypeInv' /\ Kept
<1>1. StoreTyped'
  BY DEF TypeInv, TypeOK, StoreTyped, GatewayTypeOK, gateway, store, ledger, friends
<1>. QED BY <1>1, Elsewhere DEF store

(* Going on without reading is going on with what was read before.          *)
LEMMA GotoLoads ==
  ASSUME TypeInv, NEW h \in Handlers, NEW l, Goto(h, l)
  PROVE  Load(h, l, my[h]) /\ my[h] \in Local
BY DEF TypeInv, TypeOK, Goto, Load

(* What a handler holds before it has read anything.                        *)
LEMMA BlankTyped == Blank \in Local /\ Blank.todo = {} /\ Blank.seen = "none"
BY DEF Blank, Local, SessionStatus, TxStatus, Gid

(* A handler that returns, or goes on with its job's list, may do so.       *)
LEMMA LeaveLoads ==
  ASSUME TypeInv, NEW h \in Handlers, Leave(h)
  PROVE  \E l \in {"job_next", "done"} \cap PC, m \in Local :
             Load(h, l, m) /\ Knows(h, l, m)
<1>. DEFINE l == IF h \in Jobs THEN "job_next" ELSE "done"
            m == [Blank EXCEPT !.todo = my[h].todo]
<1>1. my[h] \in Local /\ Knows(h, pc[h], my[h])
  BY DEF TypeInv, TypeOK
<1>2. l \in PC /\ m \in Local
  BY <1>1 DEF PC, Local, Blank, SessionStatus, TxStatus, Gid
<1>3. m.todo = my[h].todo /\ l \in NoSession \cap NoRow /\ l \notin Opening \cup Early
  BY BlankTyped DEF Local, NoSession, NoRow, Opening, Early
<1>4. Knows(h, l, m)
  BY <1>1, <1>3 DEF Knows, NoRow, NoSession
<1>. QED BY <1>2, <1>4 DEF Leave

(* Quiet, for a step that reads nothing,                                    *)
LEMMA GotoQuiet ==
  ASSUME TypeInv, NEW h \in Handlers, NEW l \in PC,
         Goto(h, l), Knows(h, l, my[h]), faults' \in Nat,
         UNCHANGED <<gateway, sess, store, orders, subs, ledger, friends>>
  PROVE  TypeInv' /\ Kept
BY GotoLoads, Quiet

(* and for one that returns.                                                *)
LEMMA LeaveQuiet ==
  ASSUME TypeInv, NEW h \in Handlers, Leave(h), faults' \in Nat,
         UNCHANGED <<gateway, sess, store, orders, subs, ledger, friends>>
  PROVE  TypeInv' /\ Kept
BY LeaveLoads, Quiet

(* Updating a sequence at i, which may lie outside it.                     *)
LEMMA SeqUpdated ==
  ASSUME NEW S, NEW seq \in Seq(S), NEW i, NEW e, i \in DOMAIN seq => e \in S
  PROVE  /\ [seq EXCEPT ![i] = e] \in Seq(S)
         /\ Len([seq EXCEPT ![i] = e]) = Len(seq)
         /\ \A j \in DOMAIN seq : [seq EXCEPT ![i] = e][j] = IF j = i THEN e ELSE seq[j]
<1>0. DOMAIN seq = 1..Len(seq)
  OBVIOUS
<1>1. CASE i \in DOMAIN seq
  BY <1>0, <1>1, ExceptSeq
<1>2. CASE i \notin DOMAIN seq
  <2>1. seq \in [DOMAIN seq -> S]
    BY <1>0
  <2>2. [seq EXCEPT ![i] = e] = seq
    BY <1>2, <2>1
  <2>. QED BY <1>2, <2>2
<1>. QED BY <1>1, <1>2

(* The count of faults stays a number.                                      *)
LEMMA FaultCounted == ASSUME TypeInv, Fault \/ UNCHANGED faults PROVE faults' \in Nat
BY DEF TypeInv, TypeOK, Fault

(* A step of h that updates a row that is there.                           *)
LEMMA RowWritten ==
  ASSUME TypeInv, NEW t, KnownRow(t), NEW st \in TxStatus \ {"none"}, NEW g \in Gid,
         UpdateTx(t, st, g), UNCHANGED <<gateway, sess>>
  PROVE  /\ tx' \in [Requests -> TxRow] /\ born' \in Seq(Requests)
         /\ RowsOK' /\ PaymentsOK'
         /\ \A h : Keeps(h)
         /\ \A h, l, m : Knows(h, l, m) => Knows(h, l, m)'
<1>1. tx \in [Requests -> TxRow] /\ born \in Seq(Requests) /\ RowsOK /\ PaymentsOK
      /\ posts \in SUBSET [key: Requests, amount: Nat]
  BY DEF TypeInv, TypeOK, GatewayTypeOK
<1>2. t \in Requests /\ tx[t].status # "none"
  BY DEF KnownRow
<1>3. born' = born
  BY DEF UpdateTx
<1>5. tx' \in [Requests -> TxRow]
  BY <1>1, <1>2 DEF UpdateTx, TxRow
<1>6. \A u \in Requests : /\ tx'[u].sess = tx[u].sess
                          /\ tx'[u].status = "none" <=> tx[u].status = "none"
  BY <1>1, <1>2 DEF UpdateTx, TxRow
<1>7. RowsOK' /\ PaymentsOK'
  BY <1>1, <1>6 DEF RowsOK, PaymentsOK, KnownSession, gateway
<1>8. \A h : Keeps(h)
  BY <1>6 DEF Keeps, Kept
<1>9. \A h, l, m : Knows(h, l, m) => Knows(h, l, m)'
  BY <1>6 DEF Knows, KnownSession, KnownRow
<1>. QED BY <1>1, <1>3, <1>5, <1>7, <1>8, <1>9

(* RowWritten, as the step of a handler that goes on to await l.            *)
LEMMA WriteRow ==
  ASSUME TypeInv, NEW h \in Handlers, NEW l \in PC, NEW m \in Local,
         Load(h, l, m), Knows(h, l, m),
         NEW t, KnownRow(t), NEW st \in TxStatus \ {"none"}, NEW g \in Gid,
         UpdateTx(t, st, g),
         UNCHANGED <<gateway, sess, orders, subs, ledger, friends, faults>>
  PROVE  TypeInv' /\ Kept
<1>1. /\ tx' \in [Requests -> TxRow] /\ born' \in Seq(Requests)
      /\ RowsOK' /\ PaymentsOK' /\ Keeps(h) /\ Knows(h, l, m)'
  BY RowWritten
<1>2. StoreTyped'
  BY <1>1 DEF TypeInv, TypeOK, StoreTyped, GatewayTypeOK, gateway, ledger, friends
<1>. QED BY <1>1, <1>2, HandlersKept DEF TypeInv, TypeOK, StoreTyped

(* A step of h that updates a session that is there.                       *)
LEMMA WriteSession ==
  ASSUME TypeInv, NEW h \in Handlers, NEW l \in PC, NEW m \in Local,
         Load(h, l, m), Knows(h, l, m),
         NEW s, KnownSession(s), NEW row \in SessionRow, row.status # "none",
         row.promo = sess[s].promo, sess' = [sess EXCEPT ![s] = row],
         UNCHANGED <<gateway, store, orders, subs, ledger, friends, faults>>
  PROVE  TypeInv' /\ Kept
<1>1. sess \in [Checkouts -> SessionRow] /\ s \in Checkouts /\ sess[s].status # "none"
  BY DEF TypeInv, TypeOK, KnownSession
<1>2. sess' \in [Checkouts -> SessionRow]
  BY <1>1
<1>3. \A c \in Checkouts : /\ sess'[c].promo = sess[c].promo
                           /\ sess'[c].status = "none" <=> sess[c].status = "none"
  BY <1>1
<1>4. Keeps(h) /\ Knows(h, l, m)'
  BY <1>3 DEF Keeps, Kept, Knows, KnownSession, KnownRow, store
<1>5. RowsOK' /\ PaymentsOK'
  BY <1>3 DEF TypeInv, RowsOK, PaymentsOK, KnownSession, gateway, store
<1>6. StoreTyped'
  BY <1>2 DEF TypeInv, TypeOK, StoreTyped, GatewayTypeOK, gateway, store, ledger, friends
<1>. QED BY <1>4, <1>5, <1>6, HandlersKept DEF TypeInv, TypeOK, StoreTyped

(* What TypeInv says of one handler.                                        *)
LEMMA Facts ==
  ASSUME TypeInv, NEW h \in Handlers
  PROVE  my[h] \in Local /\ Knows(h, pc[h], my[h]) /\ StoreTyped
BY DEF TypeInv, TypeOK, StoreTyped

-------------------------------------------------------------------------------
(* The actions, one handler at a time                                      *)

(* CreateCheckoutSession writes its own session, which nobody holds yet.    *)
LEMMA CheckoutStep ==
  ASSUME TypeInv, NEW c \in Checkouts, CreateCheckoutSession(c)
  PROVE  TypeInv' /\ Kept
<1>0. /\ c \in Handlers /\ c \notin Jobs /\ c \notin Requests
      /\ my[c] \in Local /\ Knows(c, pc[c], my[c]) /\ StoreTyped
  BY CheckoutAssumption, Facts DEF Handlers
<1>1. CASE CheckoutReadSub(c)
  <2>. DEFINE m == [Blank EXCEPT !.sub = LiveSub]
  <2>1. m \in Local /\ m.todo = {} /\ "c_balance" \in PC
    <3>1. LiveSub \in Nat
      BY <1>0 DEF LiveSub, StoreTyped
    <3>. QED BY <3>1, BlankTyped DEF Local, PC
  <2>2. Knows(c, "c_balance", m)
    BY <1>0, <1>1, <2>1 DEF Knows, CheckoutReadSub, At, NoSession, NoRow, Opening
  <2>. QED BY <1>0, <1>1, <2>1, <2>2, Quiet DEF CheckoutReadSub, StoreTyped
<1>2. CASE CheckoutReadBalance(c)
  <2>. DEFINE m == [my[c] EXCEPT !.bal = balance]
  <2>1. m \in Local /\ m.todo = my[c].todo /\ "c_expire" \in PC
    BY <1>0 DEF Local, PC, StoreTyped
  <2>2. Knows(c, "c_expire", m)
    BY <1>0, <1>2, <2>1 DEF Knows, CheckoutReadBalance, At, NoSession, NoRow, Opening
  <2>. QED BY <1>0, <1>2, <2>1, <2>2, Quiet DEF CheckoutReadBalance, StoreTyped
<1>3. CASE CheckoutExpireOthers(c)
  <2>1. sess' \in [Checkouts -> SessionRow]
    BY <1>0, <1>3 DEF CheckoutExpireOthers, StoreTyped, SessionRow, SessionStatus
  <2>2. \A s \in Checkouts : /\ sess'[s].promo = sess[s].promo
                             /\ sess'[s].status = "none" <=> sess[s].status = "none"
    BY <1>0, <1>3 DEF CheckoutExpireOthers, StoreTyped, SessionRow
  <2>3. PICK m \in Local : Load(c, "c_create", m) /\ m = my[c]
    BY <1>0, <1>3, GotoLoads DEF CheckoutExpireOthers
  <2>4. Keeps(c)
    BY <1>3, <2>2 DEF Keeps, Kept, CheckoutExpireOthers, store
  <2>5. Knows(c, "c_create", m)' /\ "c_create" \in PC
    BY <1>0, <1>3, <2>2, <2>3 DEF PC, Knows, KnownRow, CheckoutExpireOthers, At, store, NoSession, NoRow, Opening
  <2>6. RowsOK' /\ PaymentsOK'
    BY <1>3, <2>2 DEF TypeInv, RowsOK, PaymentsOK, KnownSession, CheckoutExpireOthers, gateway, store
  <2>7. StoreTyped'
    BY <1>0, <1>3, <2>1 DEF StoreTyped, GatewayTypeOK, CheckoutExpireOthers, gateway, store, ledger, friends
  <2>. QED BY <1>0, <2>3, <2>4, <2>5, <2>6, <2>7, HandlersKept DEF TypeInv, TypeOK, StoreTyped
<1>4. CASE CheckoutCreate(c)
  <2>1. /\ WalletPart(my[c].bal) \in Nat /\ Price - WalletPart(my[c].bal) \in Nat
        /\ my[c].sub \in Nat
    BY <1>0, CheckoutAssumption DEF Local, WalletPart, Least
  <2>2. sess' \in [Checkouts -> SessionRow] /\ sess'[c].status = "active"
    BY <1>0, <1>4, <2>1, CheckoutAssumption DEF CheckoutCreate, StoreTyped, SessionRow, SessionStatus
  <2>3. \A s \in Checkouts \ {c} : sess'[s] = sess[s]
    BY <1>0, <1>4 DEF CheckoutCreate, StoreTyped
  <2>4. sess[c].status = "none"
    BY <1>0, <1>4 DEF Knows, CheckoutCreate, At, Opening
  <2>5. PICK l \in {"job_next", "done"} \cap PC, m \in Local :
            Load(c, l, m) /\ Knows(c, l, m)
    BY <1>0, <1>4, LeaveLoads DEF CheckoutCreate
  <2>6. Keeps(c)
    BY <1>0, <1>4, <2>2, <2>3, <2>4 DEF Keeps, Kept, CheckoutCreate, store
  <2>7. Knows(c, l, m)'
    BY <1>0, <1>4, <2>5 DEF Knows, KnownRow, CheckoutCreate, store, Opening, NoSession, NoRow
  <2>8. RowsOK' /\ PaymentsOK'
    BY <1>4, <2>2, <2>3 DEF TypeInv, RowsOK, PaymentsOK, KnownSession, CheckoutCreate, gateway, store
  <2>9. StoreTyped'
    BY <1>0, <1>4, <2>2 DEF StoreTyped, GatewayTypeOK, CheckoutCreate, gateway, store, ledger, friends
  <2>. QED BY <1>0, <2>5, <2>6, <2>7, <2>8, <2>9, HandlersKept DEF TypeInv, TypeOK, StoreTyped
<1>. QED BY <1>1, <1>2, <1>3, <1>4 DEF CreateCheckoutSession

(* CreateOrder works on a session it has read and on a row it inserted, or  *)
(* found among the rows of that session.                                    *)
LEMMA RequestStep ==
  ASSUME TypeInv, NEW r \in Requests, CreateOrder(r)
  PROVE  TypeInv' /\ Kept
<1>. USE DEF NoSession, NoRow, Opening, Early
<1>0. /\ r \in Handlers /\ r \notin Jobs /\ r \notin Checkouts
      /\ my[r] \in Local /\ Knows(r, pc[r], my[r]) /\ StoreTyped
  BY CheckoutAssumption, Facts DEF Handlers
<1>a. {"balance", "refresh", "intent", "linked_order", "guard", "claim", "insert",
       "wallet_settle", "fetch", "recheck", "post", "reply", "settle", "fail",
       "unsure", "reopen", "cas", "load"} \subseteq PC
  BY DEF PC, Body
<1>b. \A m : /\ AfterGuard(m) \in {"claim", "insert", "load", "cas", "wallet_settle",
                                    "fetch", "post"}
             /\ AfterClaim(m) \in {"insert", "load", "cas", "wallet_settle", "fetch", "post"}
             /\ Dispatch(m) \in {"load", "cas", "wallet_settle", "fetch", "post"}
             /\ m.seen = "none" => AfterClaim(m) = "insert"
             /\ m.seen = "none" => AfterGuard(m) \in {"claim", "insert"}
  BY DEF AfterGuard, AfterClaim, Dispatch
<1>1. CASE ReadSession(r)
  <2>1. PICK s \in Checkouts :
          /\ sess[s].status \in {"active", "confirmed"}
          /\ Load(r, IF sess[s].status = "active" THEN "balance" ELSE "intent",
                  [Blank EXCEPT !.s = s, !.status = sess[s].status,
                                !.wallet = sess[s].wallet, !.due = sess[s].due])
    BY <1>1 DEF ReadSession
  <2>. DEFINE m == [Blank EXCEPT !.s = s, !.status = sess[s].status,
                                 !.wallet = sess[s].wallet, !.due = sess[s].due]
              l == IF sess[s].status = "active" THEN "balance" ELSE "intent"
  <2>2. sess[s] \in SessionRow
    BY <1>0 DEF StoreTyped
  <2>3. m \in Local /\ m.s = s /\ m.todo = {} /\ m.seen = "none"
    BY <2>2, BlankTyped DEF Local, SessionRow
  <2>4. l \in {"balance", "intent"}
    OBVIOUS
  <2>. HIDE DEF m, l
  <2>5. Knows(r, l, m)
    BY <1>0, <1>1, <2>1, <2>3, <2>4 DEF Knows, ReadSession, At, KnownSession
  <2>6. Load(r, l, m)
    BY <2>1 DEF l, m
  <2>. QED BY <1>0, <1>1, <1>a, <2>3, <2>4, <2>5, <2>6, Quiet DEF ReadSession, StoreTyped
<1>2. CASE ReadBalance(r)
  <2>1. WalletPart(balance) \in Nat /\ Price - WalletPart(balance) \in Nat
    BY <1>0, CheckoutAssumption DEF StoreTyped, WalletPart, Least
  <2>2. \E l \in {"refresh", "intent"}, m \in Local :
           Load(r, l, m) /\ m.s = my[r].s /\ m.todo = my[r].todo /\ m.seen = my[r].seen
    <3>. DEFINE m1 == [my[r] EXCEPT !.bal = balance, !.wallet = WalletPart(balance),
                                    !.due = Price - WalletPart(balance)]
                m2 == [my[r] EXCEPT !.bal = balance]
    <3>1. m1 \in Local /\ m1.s = my[r].s /\ m1.todo = my[r].todo /\ m1.seen = my[r].seen
      BY <1>0, <2>1 DEF Local, StoreTyped
    <3>2. m2 \in Local /\ m2.s = my[r].s /\ m2.todo = my[r].todo /\ m2.seen = my[r].seen
      BY <1>0 DEF Local, StoreTyped
    <3>3. Load(r, "refresh", m1) \/ Load(r, "intent", m2)
      BY <1>2 DEF ReadBalance
    <3>. HIDE DEF m1, m2
    <3>. QED BY <3>1, <3>2, <3>3
  <2>3. PICK l \in {"refresh", "intent"}, m \in Local :
           Load(r, l, m) /\ m.s = my[r].s /\ m.todo = my[r].todo /\ m.seen = my[r].seen
    BY <2>2
  <2>4. Knows(r, l, m)
    BY <1>0, <1>2, <2>3 DEF Knows, ReadBalance, At
  <2>. QED BY <1>0, <1>2, <1>a, <2>3, <2>4, Quiet DEF ReadBalance, StoreTyped
<1>3. CASE RefreshSession(r)
  <2>. DEFINE s == my[r].s
              row == [sess[s] EXCEPT !.wallet = my[r].wallet, !.due = my[r].due]
  <2>1. KnownSession(s)
    BY <1>0, <1>3 DEF Knows, RefreshSession, At
  <2>2. row \in SessionRow /\ row.status = sess[s].status /\ row.promo = sess[s].promo
    BY <1>0, <2>1 DEF SessionRow, Local, StoreTyped, KnownSession
  <2>3. sess' = [sess EXCEPT ![s] = row]
    BY <1>3 DEF RefreshSession
  <2>4. Knows(r, "intent", my[r])
    BY <1>0, <1>3 DEF Knows, RefreshSession, At
  <2>5. Load(r, "intent", my[r])
    BY <1>0, <1>3, GotoLoads DEF RefreshSession
  <2>. HIDE DEF s, row
  <2>. QED BY <1>0, <1>3, <1>a, <2>1, <2>2, <2>3, <2>4, <2>5, WriteSession
           DEF RefreshSession, KnownSession
<1>4. CASE ReadIntent(r)
  <2>0. UNCHANGED <<gateway, sess, store, orders, subs, ledger, friends>> /\ faults' \in Nat
    BY <1>0, <1>4 DEF ReadIntent, StoreTyped
  <2>1. CASE Leave(r)
    BY <1>0, <2>0, <2>1, LeaveQuiet
  <2>2. CASE Goto(r, "guard") /\ Open(my[r].s) = {} /\ my[r].seen = "none"
    <3>1. Knows(r, "guard", my[r])
      BY <1>0, <1>4, <2>2 DEF Knows, ReadIntent, At
    <3>. QED BY <1>0, <1>a, <2>0, <2>2, <3>1, GotoQuiet
  <2>3. ASSUME NEW t \in PaymentIntent(my[r].s), NEW m, NEW l,
               m = [my[r] EXCEPT !.t = t, !.seen = tx[t].status,
                                 !.gid = tx[t].gid, !.stale = tx[t].stale],
               l = CASE m.seen = "SUCCESS"  -> "linked_order"
                     [] m.seen = "INITIATED" -> "guard"
                     [] OTHER               -> AfterGuard(m),
               Load(r, l, m)
        PROVE  TypeInv' /\ Kept
    <3>1. t \in Requests /\ tx[t].sess = my[r].s /\ tx[t] \in TxRow /\ tx[t].status # "none"
      BY <1>0 DEF PaymentIntent, Open, Rank, StoreTyped
    <3>2. m \in Local /\ m.s = my[r].s /\ m.t = t /\ m.todo = my[r].todo
      BY <1>0, <2>3, <3>1 DEF Local, TxRow
    <3>3. /\ l \in {"linked_order", "guard", "claim", "insert", "load", "cas",
                    "wallet_settle", "fetch", "post"}
      BY <1>b, <2>3
    <3>4. Knows(r, l, m)
      BY <1>0, <1>4, <3>1, <3>2, <3>3 DEF Knows, ReadIntent, At, KnownRow
    <3>. QED BY <1>0, <1>a, <2>0, <2>3, <3>2, <3>3, <3>4, Quiet
  <2>4. my[r].seen = "none"
    BY <1>0, <1>4 DEF Knows, ReadIntent, At
  <2>. QED BY <1>4, <2>1, <2>2, <2>3, <2>4 DEF ReadIntent
<1>5. CASE ReadLinkedOrder(r)
  <2>1. \A l \in {"claim", "insert", "load", "cas", "wallet_settle", "fetch", "post"} :
           l = AfterGuard(my[r]) => Knows(r, l, my[r])
    BY <1>0, <1>5 DEF Knows, ReadLinkedOrder, At
  <2>2. CASE Goto(r, AfterGuard(my[r]))
    BY <1>0, <1>5, <1>a, <1>b, <2>1, <2>2, GotoQuiet DEF ReadLinkedOrder, StoreTyped
  <2>. QED BY <1>0, <1>5, <2>2, LeaveQuiet DEF ReadLinkedOrder, StoreTyped
<1>6. CASE GuardSubscription(r)
  <2>1. \A l \in {"claim", "insert", "load", "cas", "wallet_settle", "fetch", "post"} :
           l = AfterGuard(my[r]) => Knows(r, l, my[r])
    BY <1>0, <1>6, <1>b DEF Knows, GuardSubscription, At
  <2>2. CASE Goto(r, AfterGuard(my[r]))
    BY <1>0, <1>6, <1>a, <1>b, <2>1, <2>2, GotoQuiet DEF GuardSubscription, StoreTyped
  <2>. QED BY <1>0, <1>6, <2>2, LeaveQuiet DEF GuardSubscription, StoreTyped
<1>7. CASE ClaimSession(r)
  <2>1. CASE Leave(r) /\ UNCHANGED sess
    BY <1>0, <1>7, <2>1, LeaveQuiet DEF ClaimSession, StoreTyped
  <2>2. CASE UpdateSession(my[r].s, "confirmed") /\ Goto(r, AfterClaim(my[r]))
    <3>. DEFINE s == my[r].s
                row == [sess[s] EXCEPT !.status = "confirmed"]
                l == AfterClaim(my[r])
    <3>1. KnownSession(s)
      BY <1>0, <1>7 DEF Knows, ClaimSession, At
    <3>2. row \in SessionRow /\ row.status = "confirmed" /\ row.promo = sess[s].promo
      BY <1>0, <3>1 DEF SessionRow, SessionStatus, StoreTyped, KnownSession
    <3>3. sess' = [sess EXCEPT ![s] = row]
      BY <2>2 DEF UpdateSession
    <3>4. l \in {"insert", "load", "cas", "wallet_settle", "fetch", "post"}
          /\ (my[r].seen = "none" => l = "insert")
      BY <1>b
    <3>5. Load(r, l, my[r])
      BY <1>0, <2>2, GotoLoads
    <3>. HIDE DEF s, row, l
    <3>6. Knows(r, l, my[r])
      BY <1>0, <1>7, <3>4 DEF Knows, ClaimSession, At
    <3>. QED BY <1>0, <1>7, <1>a, <3>1, <3>2, <3>3, <3>4, <3>5, <3>6, WriteSession
             DEF ClaimSession
  <2>. QED BY <1>7, <2>1, <2>2 DEF ClaimSession
<1>8. CASE CreateTransaction(r)
  <2>1. PICK l \in {"load", "cas", "wallet_settle", "fetch", "post"}, m \in Local :
            Load(r, l, m) /\ m.t = r /\ m.s = my[r].s /\ m.todo = my[r].todo
    <3>1. [my[r] EXCEPT !.t = r] \in Local
      BY <1>0 DEF Local
    <3>. QED BY <1>0, <1>8, <1>b, <3>1 DEF CreateTransaction, Local
  <2>3. /\ tx[r].status = "none" /\ KnownSession(my[r].s)
        /\ \A i \in my[r].todo : KnownRow(i.t)
    BY <1>0, <1>8 DEF Knows, CreateTransaction, At
  <2>4. /\ tx' \in [Requests -> TxRow] /\ tx'[r].status = "INITIATED"
        /\ tx'[r].sess = my[r].s /\ \A t \in Requests \ {r} : tx'[t] = tx[t]
    BY <1>0, <1>8 DEF CreateTransaction, StoreTyped, TxRow, TxStatus, Gid, Local
  <2>5. Keeps(r)
    BY <1>0, <1>8, <2>3, <2>4 DEF Keeps, Kept, CreateTransaction
  <2>6. Knows(r, l, m)'
    BY <1>0, <1>8, <2>1, <2>3, <2>4 DEF Knows, KnownRow, KnownSession, CreateTransaction
  <2>7. RowsOK' /\ PaymentsOK'
    BY <1>8, <2>3, <2>4 DEF TypeInv, RowsOK, PaymentsOK, KnownSession, CreateTransaction, gateway
  <2>8. born' \in Seq(Requests)
    BY <1>0, <1>8 DEF StoreTyped, CreateTransaction
  <2>9. StoreTyped'
    BY <1>0, <1>8, <2>4, <2>8 DEF StoreTyped, GatewayTypeOK, CreateTransaction, gateway, ledger, friends
  <2>. QED BY <1>0, <1>a, <2>1, <2>5, <2>6, <2>7, <2>9, HandlersKept DEF TypeInv, TypeOK, StoreTyped
<1>9. CASE SettleByWallet(r)
  <2>. DEFINE m == [my[r] EXCEPT !.gid = "wallet"]
  <2>1. m \in Local /\ m.s = my[r].s /\ m.t = my[r].t /\ m.todo = my[r].todo
    BY <1>0 DEF Local, Gid
  <2>2. KnownRow(my[r].t)
    BY <1>0, <1>9 DEF Knows, SettleByWallet, At
  <2>3. Load(r, "cas", m)
    BY <1>9 DEF SettleByWallet
  <2>. HIDE DEF m
  <2>4. Knows(r, "cas", m)
    BY <1>0, <1>9, <2>1 DEF Knows, SettleByWallet, At
  <2>. QED BY <1>0, <1>9, <1>a, <2>1, <2>2, <2>3, <2>4, WriteRow DEF SettleByWallet, TxStatus, Gid
<1>10. CASE FetchReused(r)
  <2>1. /\ \A l \in {"settle", "fail", "unsure", "post", "recheck"} : Knows(r, l, my[r])
        /\ faults' \in Nat
    BY <1>0, <1>10, FaultCounted DEF Knows, FetchReused, At
  <2>2. \E l \in {"settle", "fail", "unsure", "post", "recheck"} : Goto(r, l)
    BY <1>10 DEF FetchReused
  <2>. QED BY <1>0, <1>10, <1>a, <2>1, <2>2, GotoQuiet DEF FetchReused
<1>11. CASE Recheck(r)
  <2>1. Knows(r, "post", my[r]) /\ faults' \in Nat
    BY <1>0, <1>11 DEF Knows, Recheck, At, StoreTyped
  <2>. QED BY <1>0, <1>11, <1>a, <2>1, GotoQuiet, LeaveQuiet DEF Recheck
<1>12. CASE PostCharge(r)
  <2>1. KnownRow(my[r].t) /\ Knows(r, "reply", my[r])
    BY <1>0, <1>12 DEF Knows, PostCharge, At
  <2>2. PICK m \in Local : Load(r, "reply", m) /\ m = my[r]
    BY <1>0, <1>12, GotoLoads DEF PostCharge
  <2>3. posts' = posts \cup {[key |-> my[r].t, amount |-> my[r].due]} /\ UNCHANGED <<pay, charged>>
    BY <1>12 DEF PostCharge, Post
  <2>4. [key |-> my[r].t, amount |-> my[r].due] \in [key: Requests, amount: Nat]
    BY <1>0, <2>1 DEF KnownRow, Local
  <2>5. StoreTyped'
    BY <1>0, <1>12, <2>3, <2>4 DEF StoreTyped, GatewayTypeOK, PostCharge, store, ledger, friends
  <2>6. RowsOK' /\ PaymentsOK'
    BY <1>12, <2>1, <2>3 DEF TypeInv, RowsOK, PaymentsOK, KnownSession, KnownRow, PostCharge, store
  <2>7. Keeps(r) /\ Knows(r, "reply", m)'
    BY <1>12, <2>1, <2>2 DEF Keeps, Kept, Knows, KnownRow, KnownSession, PostCharge, store
  <2>. QED BY <1>0, <1>a, <2>2, <2>5, <2>6, <2>7, HandlersKept DEF TypeInv, TypeOK, StoreTyped
<1>13. CASE ReadReply(r)
  <2>1. /\ \A l \in {"settle", "fail", "unsure"} : Knows(r, l, my[r])
        /\ faults' \in Nat
    BY <1>0, <1>13, FaultCounted DEF Knows, ReadReply, At
  <2>2. \E l \in {"settle", "fail", "unsure"} : Goto(r, l)
    BY <1>13 DEF ReadReply
  <2>. QED BY <1>0, <1>13, <1>a, <2>1, <2>2, GotoQuiet DEF ReadReply
<1>14. CASE MarkPaid(r)
  <2>. DEFINE m == [my[r] EXCEPT !.gid = "card"]
  <2>1. m \in Local /\ m.s = my[r].s /\ m.t = my[r].t /\ m.todo = my[r].todo
    BY <1>0 DEF Local, Gid
  <2>2. KnownRow(my[r].t)
    BY <1>0, <1>14 DEF Knows, MarkPaid, At
  <2>3. Load(r, "cas", m)
    BY <1>14 DEF MarkPaid
  <2>. HIDE DEF m
  <2>4. Knows(r, "cas", m)
    BY <1>0, <1>14, <2>1 DEF Knows, MarkPaid, At
  <2>. QED BY <1>0, <1>14, <1>a, <2>1, <2>2, <2>3, <2>4, WriteRow DEF MarkPaid, TxStatus, Gid
<1>15. CASE MarkUnsure(r)
  <2>1. KnownRow(my[r].t) /\ Knows(r, "reopen", my[r])
    BY <1>0, <1>15 DEF Knows, MarkUnsure, At
  <2>2. Load(r, "reopen", my[r])
    BY <1>0, <1>15, GotoLoads DEF MarkUnsure
  <2>. QED BY <1>0, <1>15, <1>a, <2>1, <2>2, WriteRow DEF MarkUnsure, TxStatus, Gid
<1>. QED BY <1>1, <1>2, <1>3, <1>4, <1>5, <1>6, <1>7, <1>8, <1>9, <1>10, <1>11, <1>12,
            <1>13, <1>14, <1>15 DEF CreateOrder

(* A step of h that updates a plan, or an order and the wallet.            *)
LEMMA WritePlan ==
  ASSUME TypeInv, NEW h \in Handlers, NEW l \in PC, Goto(h, l), Knows(h, l, my[h]),
         NEW i, NEW e, i \in DOMAIN subs => e \in SubRow, subs' = [subs EXCEPT ![i] = e],
         UNCHANGED <<gateway, sess, store, orders, ledger, friends, faults>>
  PROVE  TypeInv' /\ Kept
<1>1. StoreTyped
  BY Facts
<1>2. subs' \in Seq(SubRow)
  BY <1>1, SeqUpdated DEF StoreTyped
<1>3. StoreTyped'
  BY <1>1, <1>2 DEF StoreTyped, GatewayTypeOK, gateway, store, ledger, friends
<1>. QED BY <1>3, GotoLoads, Elsewhere DEF store

(* ... and one that updates an order and the wallet.                        *)
LEMMA WriteOrder ==
  ASSUME TypeInv, NEW h \in Handlers, NEW l \in PC, Goto(h, l), Knows(h, l, my[h]),
         NEW i, NEW e, i \in DOMAIN orders => e \in OrderRow,
         orders' = [orders EXCEPT ![i] = e], balance' \in Nat,
         UNCHANGED <<gateway, sess, store, subs, topups, friends, faults>>
  PROVE  TypeInv' /\ Kept
<1>1. StoreTyped
  BY Facts
<1>2. orders' \in Seq(OrderRow)
  BY <1>1, SeqUpdated DEF StoreTyped
<1>3. StoreTyped'
  BY <1>1, <1>2 DEF StoreTyped, GatewayTypeOK, gateway, store, friends
<1>. QED BY <1>3, GotoLoads, Elsewhere DEF store

(* The fulfilment, whoever entered it, has a row and that row's session.    *)
LEMMA FulfilStep ==
  ASSUME TypeInv, NEW h \in Handlers, FulfillPaidCheckout(h)
  PROVE  TypeInv' /\ Kept
<1>. USE DEF NoSession, NoRow, Opening, Early
<1>0. my[h] \in Local /\ Knows(h, pc[h], my[h]) /\ StoreTyped
  BY Facts
<1>a. Body \cup {"cas", "lost", "lost_success", "catch"} \subseteq PC
  BY DEF PC
<1>b. ASSUME pc[h] \in Body \cup {"cas", "lost", "lost_success", "catch"}
      PROVE  /\ KnownSession(my[h].s) /\ KnownRow(my[h].t)
             /\ \A l \in Body \cup {"lost", "lost_success", "catch"}, m \in Local :
                   m.s = my[h].s /\ m.t = my[h].t /\ m.todo = my[h].todo => Knows(h, l, m)
  BY <1>0, <1>b DEF Knows, Body
<1>c. ASSUME pc[h] \in Body \cup {"cas", "lost", "lost_success", "catch"},
             NEW l \in Body \cup {"lost", "lost_success", "catch"}, Goto(h, l)
      PROVE  Load(h, l, my[h]) /\ Knows(h, l, my[h])
  BY <1>0, <1>b, <1>c, GotoLoads
<1>d. Promo(h) \in Nat \/ ~KnownSession(my[h].s)
  BY <1>0 DEF Promo, KnownSession, StoreTyped, SessionRow
<1>e. ASSUME NEW i \in DOMAIN subs PROVE subs[i] \in SubRow
  BY <1>0 DEF StoreTyped
<1>f. ASSUME NEW i \in DOMAIN orders PROVE orders[i] \in OrderRow
  BY <1>0 DEF StoreTyped
<1>1. CASE BeginFulfilment(h)
  <2>1. CASE Goto(h, "lost") /\ UNCHANGED store
    BY <1>0, <1>1, <2>1, <1>a, <1>c, Quiet DEF BeginFulfilment, StoreTyped, At
  <2>2. CASE UpdateTx(my[h].t, "FULFILLING", tx[my[h].t].gid) /\ Goto(h, "load")
    <3>1. KnownRow(my[h].t) /\ tx[my[h].t].gid \in Gid
      BY <1>0, <1>1, <1>b DEF BeginFulfilment, At, KnownRow, StoreTyped, TxRow
    <3>2. Load(h, "load", my[h]) /\ Knows(h, "load", my[h])
      BY <1>1, <2>2, <1>c DEF BeginFulfilment, At, Body
    <3>. QED BY <1>0, <1>1, <2>2, <1>a, <3>1, <3>2, WriteRow DEF BeginFulfilment, TxStatus, Body
  <2>. QED BY <1>1, <2>1, <2>2 DEF BeginFulfilment
<1>2. CASE LostFulfilment(h)
  BY <1>0, <1>2, <1>a, <1>c, Quiet, LeaveQuiet DEF LostFulfilment, At, StoreTyped
<1>3. CASE LoadOrder(h)
  <2>1. CASE \E l \in {"cover", "create_order", "is_new"} : Goto(h, l)
    BY <1>0, <1>3, <2>1, <1>a, <1>c, Quiet DEF LoadOrder, At, StoreTyped, Body
  <2>2. ASSUME NEW i \in OrderOf(my[h].t, my[h].gid),
               Load(h, WithOrder(h), [my[h] EXCEPT !.o = i, !.linked = orders[i].sub,
                                                 !.first = orders[i].first])
        PROVE  TypeInv' /\ Kept
    <3>. DEFINE m == [my[h] EXCEPT !.o = i, !.linked = orders[i].sub,
                                   !.first = orders[i].first]
    <3>1. i \in DOMAIN orders /\ i \in Nat /\ orders[i] \in OrderRow
      BY <1>0 DEF OrderOf, StoreTyped
    <3>2. m \in Local /\ m.s = my[h].s /\ m.t = my[h].t /\ m.todo = my[h].todo
      BY <1>0, <3>1 DEF Local, OrderRow
    <3>3. WithOrder(h) \in {"promo_days", "confirm"}
      BY DEF WithOrder
    <3>4. Load(h, WithOrder(h), m)
      BY <2>2
    <3>. HIDE DEF m
    <3>5. Knows(h, WithOrder(h), m)
      BY <1>3, <1>b, <3>2, <3>3 DEF LoadOrder, At, Body
    <3>. QED BY <1>0, <1>3, <1>a, <3>2, <3>3, <3>4, <3>5, Quiet DEF LoadOrder, StoreTyped, Body
  <2>. QED BY <1>3, <2>1, <2>2 DEF LoadOrder, NoOrder
<1>4. CASE CheckCover(h)
  BY <1>0, <1>4, <1>a, <1>c, Quiet DEF CheckCover, At, StoreTyped, Body, NoOrder
<1>5. CASE ReadIsNew(h)
  <2>. DEFINE m == [my[h] EXCEPT !.first = (orders = << >>)]
  <2>1. m \in Local /\ m.s = my[h].s /\ m.t = my[h].t /\ m.todo = my[h].todo
    BY <1>0 DEF Local
  <2>2. Load(h, "create_order", m)
    BY <1>5 DEF ReadIsNew
  <2>. HIDE DEF m
  <2>3. Knows(h, "create_order", m)
    BY <1>5, <1>b, <2>1 DEF ReadIsNew, At, Body
  <2>. QED BY <1>0, <1>5, <1>a, <2>1, <2>2, <2>3, Quiet DEF ReadIsNew, StoreTyped, Body
<1>6. CASE InsertOrder(h)
  <2>. DEFINE m == [my[h] EXCEPT !.o = Len(orders) + 1, !.linked = Promo(h)]
              row == [tx |-> my[h].t, gid |-> my[h].gid, sub |-> Promo(h),
                      debit |-> 0, first |-> my[h].first]
  <2>0. KnownSession(my[h].s) /\ KnownRow(my[h].t) /\ Promo(h) \in Nat
    BY <1>6, <1>b, <1>d DEF InsertOrder, At, Body
  <2>1. m \in Local /\ m.s = my[h].s /\ m.t = my[h].t /\ m.todo = my[h].todo
    <3>1. Len(orders) + 1 \in Nat
      BY <1>0 DEF StoreTyped
    <3>. QED BY <1>0, <2>0, <3>1 DEF Local
  <2>2. row \in OrderRow
    BY <1>0, <2>0 DEF Local, OrderRow, KnownRow
  <2>3. orders' = Append(orders, row) /\ Load(h, WithOrder(h), m)
    BY <1>6 DEF InsertOrder
  <2>. HIDE DEF m, row
  <2>4. Knows(h, WithOrder(h), m) /\ WithOrder(h) \in PC
    BY <1>6, <1>a, <1>b, <2>1 DEF InsertOrder, At, Body, WithOrder
  <2>5. StoreTyped'
    BY <1>0, <1>6, <2>2, <2>3 DEF StoreTyped, GatewayTypeOK, InsertOrder, gateway, store, ledger, friends
  <2>. QED BY <1>6, <2>1, <2>3, <2>4, <2>5, Elsewhere DEF InsertOrder, store
<1>7. CASE PromoteDays(h)
  <2>. DEFINE i == Promo(h)
              e == [subs[i] EXCEPT !.days = 1]
  <2>1. i \in DOMAIN subs => e \in SubRow
    BY <1>e DEF SubRow
  <2>2. subs' = [subs EXCEPT ![i] = e]
    BY <1>7 DEF PromoteDays
  <2>. HIDE DEF i, e
  <2>. QED BY <1>7, <1>a, <1>c, <2>1, <2>2, WritePlan DEF PromoteDays, At, Body
<1>8. CASE PromotePlan(h)
  <2>. DEFINE i == Promo(h)
              e == [subs[i] EXCEPT !.upgraded = TRUE]
  <2>1. i \in DOMAIN subs => e \in SubRow
    BY <1>e DEF SubRow
  <2>2. subs' = [subs EXCEPT ![i] = e]
    BY <1>8 DEF PromotePlan
  <2>. HIDE DEF i, e
  <2>. QED BY <1>8, <1>a, <1>c, <2>1, <2>2, WritePlan DEF PromotePlan, At, Body
<1>9. CASE PromoteOrder(h)
  <2>. DEFINE i == Promo(h)
              e == [subs[i] EXCEPT !.order = my[h].o]
  <2>1. i \in DOMAIN subs => e \in SubRow
    BY <1>0, <1>e DEF SubRow, Local
  <2>2. subs' = [subs EXCEPT ![i] = e]
    BY <1>9 DEF PromoteOrder
  <2>. HIDE DEF i, e
  <2>. QED BY <1>9, <1>a, <1>c, <2>1, <2>2, WritePlan DEF PromoteOrder, At, Body
<1>10. CASE ConfirmSession(h)
  <2>. DEFINE s == my[h].s
              row == [sess[s] EXCEPT !.status = "confirmed"]
              l == IF DebitsWallet(h) THEN "debit" ELSE AfterDebit(h)
  <2>1. KnownSession(s)
    BY <1>10, <1>b DEF ConfirmSession, At, Body
  <2>2. row \in SessionRow /\ row.status = "confirmed" /\ row.promo = sess[s].promo
    BY <1>0, <2>1 DEF SessionRow, SessionStatus, StoreTyped, KnownSession
  <2>3. sess' = [sess EXCEPT ![s] = row] /\ Goto(h, l)
    BY <1>10 DEF UpdateSession, ConfirmSession
  <2>4. l \in Body
    BY DEF AfterDebit, Body
  <2>. HIDE DEF s, row, l
  <2>5. Load(h, l, my[h]) /\ Knows(h, l, my[h])
    BY <1>10, <1>c, <2>3, <2>4 DEF ConfirmSession, At, Body
  <2>. QED BY <1>0, <1>10, <1>a, <2>1, <2>2, <2>3, <2>4, <2>5, WriteSession DEF ConfirmSession
<1>11. CASE DebitWallet(h)
  <2>1. AfterDebit(h) \in Body
    BY DEF AfterDebit, Body
  <2>2. CASE UNCHANGED <<orders, balance>>
    BY <1>0, <1>11, <1>a, <1>c, <2>1, <2>2, Quiet DEF DebitWallet, At, Body, StoreTyped, ledger
  <2>3. CASE /\ Sufficient(my[h].wallet) /\ balance' = balance - my[h].wallet
             /\ orders' = [orders EXCEPT ![my[h].o].debit = @ + my[h].wallet]
             /\ Goto(h, AfterDebit(h))
    <3>. DEFINE i == my[h].o
                e == [orders[i] EXCEPT !.debit = @ + my[h].wallet]
    <3>1. i \in DOMAIN orders => e \in OrderRow
      BY <1>0, <1>f DEF OrderRow, Local
    <3>2. orders' = [orders EXCEPT ![i] = e]
      BY <2>3
    <3>3. balance' \in Nat
      BY <1>0, <2>3 DEF Sufficient, StoreTyped, Local
    <3>. HIDE DEF i, e
    <3>. QED BY <1>11, <1>a, <1>c, <2>1, <2>3, <3>1, <3>2, <3>3, WriteOrder
             DEF DebitWallet, At, Body
  <2>. QED BY <1>11, <2>2, <2>3 DEF DebitWallet
<1>12. CASE RelinkSubscription(h)
  <2>1. AfterEnsure(h) \in Body
    BY DEF AfterEnsure, Body
  <2>2. CASE Goto(h, AfterEnsure(h))
    BY <1>0, <1>12, <1>a, <1>c, <2>1, <2>2, Quiet DEF RelinkSubscription, At, Body, StoreTyped
  <2>3. CASE Load(h, "days", [my[h] EXCEPT !.sub = my[h].linked])
    <3>. DEFINE m == [my[h] EXCEPT !.sub = my[h].linked]
    <3>1. m \in Local /\ m.s = my[h].s /\ m.t = my[h].t /\ m.todo = my[h].todo
      BY <1>0 DEF Local
    <3>2. Load(h, "days", m)
      BY <2>3
    <3>. HIDE DEF m
    <3>3. Knows(h, "days", m)
      BY <1>12, <1>b, <3>1 DEF RelinkSubscription, At, Body
    <3>. QED BY <1>0, <1>12, <1>a, <3>1, <3>2, <3>3, Quiet DEF RelinkSubscription, StoreTyped, Body
  <2>. QED BY <1>12, <2>2, <2>3 DEF RelinkSubscription
<1>13. CASE ReadLive(h)
  <2>1. CASE Goto(h, "catch") \/ Goto(h, "create_sub")
    BY <1>0, <1>13, <1>a, <1>c, <2>1, Quiet DEF ReadLive, At, Body, StoreTyped
  <2>2. CASE Load(h, "link", [my[h] EXCEPT !.sub = LiveSub])
    <3>. DEFINE m == [my[h] EXCEPT !.sub = LiveSub]
    <3>1. LiveSub \in Nat
      BY <1>0 DEF LiveSub, StoreTyped
    <3>2. m \in Local /\ m.s = my[h].s /\ m.t = my[h].t /\ m.todo = my[h].todo
      BY <1>0, <3>1 DEF Local
    <3>3. Load(h, "link", m)
      BY <2>2
    <3>. HIDE DEF m
    <3>4. Knows(h, "link", m)
      BY <1>13, <1>b, <3>2 DEF ReadLive, At, Body
    <3>. QED BY <1>0, <1>13, <1>a, <3>2, <3>3, <3>4, Quiet DEF ReadLive, StoreTyped, Body
  <2>. QED BY <1>13, <2>1, <2>2 DEF ReadLive
<1>14. CASE CreateSubscription(h)
  <2>. DEFINE m == [my[h] EXCEPT !.sub = Len(subs) + 1]
              row == [order |-> my[h].o, days |-> 0, ended |-> FALSE, upgraded |-> FALSE]
  <2>1. m \in Local /\ m.s = my[h].s /\ m.t = my[h].t /\ m.todo = my[h].todo
    <3>1. Len(subs) + 1 \in Nat
      BY <1>0 DEF StoreTyped
    <3>. QED BY <1>0, <3>1 DEF Local
  <2>2. row \in SubRow
    BY <1>0 DEF Local, SubRow
  <2>3. subs' = Append(subs, row) /\ Load(h, "days", m)
    BY <1>14 DEF CreateSubscription
  <2>. HIDE DEF m, row
  <2>4. Knows(h, "days", m) /\ "days" \in PC
    BY <1>14, <1>a, <1>b, <2>1 DEF CreateSubscription, At, Body
  <2>5. StoreTyped'
    BY <1>0, <1>14, <2>2, <2>3 DEF StoreTyped, GatewayTypeOK, CreateSubscription, gateway, store, ledger, friends
  <2>. QED BY <1>14, <2>1, <2>3, <2>4, <2>5, Elsewhere DEF CreateSubscription, store
<1>15. CASE WriteDays(h)
  <2>. DEFINE i == my[h].sub
              e == [subs[i] EXCEPT !.days = @ + 1]
              l == IF my[h].linked # 0 THEN AfterEnsure(h) ELSE "end_date"
  <2>1. i \in DOMAIN subs => e \in SubRow
    BY <1>e DEF SubRow
  <2>2. subs' = [subs EXCEPT ![i] = e] /\ Goto(h, l)
    BY <1>15 DEF WriteDays
  <2>3. l \in Body
    BY DEF AfterEnsure, Body
  <2>. HIDE DEF i, e, l
  <2>. QED BY <1>15, <1>a, <1>c, <2>1, <2>2, <2>3, WritePlan DEF WriteDays, At, Body
<1>16. CASE WriteEndDate(h)
  <2>. DEFINE i == my[h].sub
              e == [subs[i] EXCEPT !.ended = TRUE]
  <2>1. i \in DOMAIN subs => e \in SubRow
    BY <1>e DEF SubRow
  <2>2. subs' = [subs EXCEPT ![i] = e]
    BY <1>16 DEF WriteEndDate
  <2>. HIDE DEF i, e
  <2>. QED BY <1>16, <1>a, <1>c, <2>1, <2>2, WritePlan DEF WriteEndDate, At, Body
<1>17. CASE LinkOrder(h)
  <2>. DEFINE i == my[h].o
              e == [orders[i] EXCEPT !.sub = my[h].sub]
  <2>1. i \in DOMAIN orders => e \in OrderRow
    BY <1>0, <1>f DEF OrderRow, Local
  <2>2. orders' = [orders EXCEPT ![i] = e]
    BY <1>17 DEF LinkOrder
  <2>3. AfterEnsure(h) \in Body
    BY DEF AfterEnsure, Body
  <2>. HIDE DEF i, e
  <2>. QED BY <1>0, <1>17, <1>a, <1>c, <2>1, <2>2, <2>3, WriteOrder
           DEF LinkOrder, At, Body, StoreTyped, ledger
<1>18. CASE ReadReferred(h)
  BY <1>0, <1>18, <1>a, <1>c, Quiet DEF ReadReferred, At, StoreTyped, Body
<1>19. CASE CreditReferrer(h) \/ CreateReferral(h)
  <2>1. referred' \in BOOLEAN /\ rewards' \in Nat
    <3>1. CASE CreditReferrer(h)
      BY <1>0, <3>1 DEF StoreTyped, CreditReferrer
    <3>2. CASE CreateReferral(h)
      BY <1>0, <3>2 DEF StoreTyped, CreateReferral
    <3>. QED BY <1>19, <3>1, <3>2
  <2>2. UNCHANGED <<gateway, sess, store, orders, subs, ledger, faults>>
    BY <1>19 DEF CreditReferrer, CreateReferral
  <2>3. StoreTyped'
    BY <1>0, <2>1, <2>2 DEF StoreTyped, GatewayTypeOK, gateway, store, ledger
  <2>. QED BY <1>19, <1>0, <1>a, <1>c, <2>3, Elsewhere
           DEF CreditReferrer, CreateReferral, At, Body, store
<1>20. CASE MarkSuccess(h)
  <2>1. KnownRow(my[h].t) /\ my[h].gid \in Gid
    BY <1>0, <1>20, <1>b DEF MarkSuccess, Body, Local
  <2>. QED BY <1>20, <2>1, LeaveLoads, WriteRow DEF MarkSuccess, TxStatus
<1>21. CASE BodyThrows(h)
  BY <1>0, <1>21, <1>a, <1>c, FaultCounted, Quiet DEF BodyThrows
<1>22. CASE Catch(h)
  <2>1. KnownRow(my[h].t) /\ my[h].gid \in Gid
    BY <1>0, <1>22, <1>b DEF Catch, At, Local
  <2>. QED BY <1>22, <2>1, LeaveLoads, WriteRow DEF Catch, TxStatus
<1>. QED BY <1>1, <1>2, <1>3, <1>4, <1>5, <1>6, <1>7, <1>8, <1>9, <1>10, <1>11, <1>12,
            <1>13, <1>14, <1>15, <1>16, <1>17, <1>18, <1>19, <1>20, <1>21, <1>22
         DEF FulfillPaidCheckout

(* Steps several kinds of handler share.                                    *)
LEMMA SharedStep ==
  ASSUME TypeInv, NEW h \in Handlers, Resume(h) \/ MarkFailed(h) \/ Reopen(h)
  PROVE  TypeInv' /\ Kept
<1>. USE DEF NoSession, NoRow, Opening, Early
<1>0. my[h] \in Local /\ Knows(h, pc[h], my[h]) /\ StoreTyped /\ RowsOK
  BY Facts DEF TypeInv
<1>1. CASE Resume(h)
  <2>1. CASE Leave(h)
    BY <1>0, <1>1, <2>1, LeaveQuiet DEF Resume, StoreTyped
  <2>2. CASE Load(h, IF my[h].seen = "FULFILLING" THEN "load" ELSE "cas",
                  [my[h] EXCEPT !.s = tx[my[h].t].sess,
                                !.wallet = sess[tx[my[h].t].sess].wallet,
                                !.due = sess[tx[my[h].t].sess].due])
    <3>. DEFINE s == tx[my[h].t].sess
                m == [my[h] EXCEPT !.s = s, !.wallet = sess[s].wallet, !.due = sess[s].due]
    <3>1. KnownRow(my[h].t) /\ s = my[h].s /\ KnownSession(s)
      BY <1>0, <1>1 DEF Knows, Resume, At
    <3>2. m \in Local /\ m.s = s /\ m.t = my[h].t /\ m.todo = my[h].todo
      BY <1>0, <3>1 DEF Local, StoreTyped, SessionRow, KnownSession
    <3>3. Load(h, "load", m) \/ Load(h, "cas", m)
      BY <2>2
    <3>. HIDE DEF s, m
    <3>4. Knows(h, "load", m) /\ Knows(h, "cas", m)
      BY <1>0, <1>1, <3>1, <3>2 DEF Knows, Resume, At
    <3>. QED BY <1>0, <1>1, <3>2, <3>3, <3>4, Quiet DEF Resume, StoreTyped, PC, Body
  <2>. QED BY <1>1, <2>1, <2>2 DEF Resume
<1>2. CASE MarkFailed(h)
  <2>1. KnownRow(my[h].t) /\ Knows(h, "reopen", my[h])
    BY <1>0, <1>2 DEF Knows, MarkFailed, At
  <2>2. Load(h, "reopen", my[h]) /\ tx[my[h].t].gid \in Gid
    BY <1>0, <1>2, <2>1, GotoLoads DEF MarkFailed, KnownRow, StoreTyped, TxRow
  <2>. QED BY <1>0, <1>2, <2>1, <2>2, WriteRow DEF MarkFailed, TxStatus, PC
<1>3. CASE Reopen(h)
  <2>. DEFINE s == my[h].s
              row == [sess[s] EXCEPT !.status = "active"]
  <2>1. KnownSession(s)
    BY <1>0, <1>3 DEF Knows, Reopen, At
  <2>2. row \in SessionRow /\ row.status = "active" /\ row.promo = sess[s].promo
    BY <1>0, <2>1 DEF SessionRow, SessionStatus, StoreTyped, KnownSession
  <2>3. sess' = [sess EXCEPT ![s] = row]
    BY <1>3 DEF UpdateSession, Reopen
  <2>. HIDE DEF s, row
  <2>. QED BY <1>3, <2>1, <2>2, <2>3, LeaveLoads, WriteSession DEF Reopen
<1>. QED BY <1>1, <1>2, <1>3

(* The webhook takes the session from the row it is told about.             *)
LEMMA WebhookStep ==
  ASSUME TypeInv, NEW k \in Hooks, HandleMoyasarWebhook(k)
  PROVE  TypeInv' /\ Kept
<1>. USE DEF NoSession, NoRow, Opening, Early
<1>0. /\ k \in Handlers /\ k \notin Checkouts \cup Requests
      /\ my[k] \in Local /\ Knows(k, pc[k], my[k]) /\ StoreTyped
      /\ RowsOK /\ PaymentsOK
  BY CheckoutAssumption, Facts DEF Handlers, TypeInv
<1>1. CASE WebhookArrives(k)
  <2>1. PICK t \in Requests :
          /\ pay[t] # "none"
          /\ \E l \in {"hook_settle", "fail"} :
                Load(k, l, [Blank EXCEPT !.t = t, !.s = tx[t].sess, !.seen = tx[t].status,
                                         !.gid = tx[t].gid])
    BY <1>1 DEF WebhookArrives
  <2>. DEFINE m == [Blank EXCEPT !.t = t, !.s = tx[t].sess, !.seen = tx[t].status,
                                 !.gid = tx[t].gid]
  <2>2. KnownRow(t) /\ KnownSession(tx[t].sess) /\ tx[t] \in TxRow
    BY <1>0, <2>1 DEF PaymentsOK, RowsOK, KnownRow, StoreTyped
  <2>3. m \in Local /\ m.s = tx[t].sess /\ m.t = t /\ m.todo = {}
    BY <2>2, BlankTyped DEF Local, TxRow
  <2>4. PICK l \in {"hook_settle", "fail"} : Load(k, l, m)
    BY <2>1
  <2>. HIDE DEF m
  <2>5. Knows(k, l, m)
    BY <1>0, <2>2, <2>3 DEF Knows
  <2>. QED BY <1>0, <1>1, <2>3, <2>4, <2>5, Quiet DEF WebhookArrives, StoreTyped, PC
<1>2. CASE WebhookSettles(k)
  <2>. DEFINE st == HookStatus(my[k].seen)
              m == [my[k] EXCEPT !.seen = st, !.gid = "card"]
  <2>1. KnownRow(my[k].t)
    BY <1>0, <1>2 DEF Knows, WebhookSettles, At
  <2>2. st \in TxStatus \ {"none"}
    BY DEF HookStatus, TxStatus
  <2>3. m \in Local /\ m.s = my[k].s /\ m.t = my[k].t /\ m.todo = my[k].todo
    BY <1>0, <2>2 DEF Local, Gid
  <2>4. Load(k, "resume", m) /\ UpdateTx(my[k].t, st, "card")
    BY <1>2 DEF WebhookSettles
  <2>. HIDE DEF st, m
  <2>5. Knows(k, "resume", m)
    BY <1>0, <1>2, <2>3 DEF Knows, WebhookSettles, At
  <2>. QED BY <1>0, <1>2, <2>1, <2>2, <2>3, <2>4, <2>5, WriteRow DEF WebhookSettles, Gid, PC
<1>. QED BY <1>1, <1>2 DEF HandleMoyasarWebhook

(* The job's list holds rows only, and a row brings its session.            *)
LEMMA JobStep ==
  ASSUME TypeInv, NEW j \in Jobs, SyncPendingPayments(j)
  PROVE  TypeInv' /\ Kept
<1>. USE DEF NoSession, NoRow, Opening, Early
<1>0. /\ j \in Handlers /\ j \notin Checkouts \cup Requests
      /\ my[j] \in Local /\ Knows(j, pc[j], my[j]) /\ StoreTyped /\ RowsOK
  BY CheckoutAssumption, Facts DEF Handlers, TypeInv
<1>a. {"idle", "job_paid", "job_busy", "job_next", "job_wallet", "job_fetch",
       "job_settle", "resume", "fail"} \subseteq PC
  BY DEF PC
<1>1. ASSUME NEW from, NEW st \in TxStatus \ {"none"}, from \in NoSession,
             NEW to \in {"job_paid", "job_busy", "job_next"},
             JobList(j, from, st, to)
      PROVE  TypeInv' /\ Kept
  <2>. DEFINE m == [my[j] EXCEPT !.todo = @ \cup Rows(st)]
  <2>1. \A i \in Rows(st) : i \in Item /\ KnownRow(i.t)
    <3>1. ASSUME NEW t \in Requests, InList(t, st)
          PROVE  LET i == [t |-> t, seen |-> st, gid |-> tx[t].gid,
                           walletOnly |-> tx[t].amount = 0 \/ tx[t].gid = "wallet"]
                 IN  i \in Item /\ KnownRow(i.t)
      BY <1>0, <3>1 DEF InList, Item, KnownRow, StoreTyped, TxRow
    <3>. QED BY <3>1 DEF Rows
  <2>2. m \in Local /\ m.todo = my[j].todo \cup Rows(st)
    BY <1>0, <2>1 DEF Local
  <2>3. Load(j, to, m) /\ UNCHANGED <<gateway, sess, store, orders, subs, ledger, friends, faults>>
    BY <1>1 DEF JobList
  <2>. HIDE DEF m
  <2>4. Knows(j, to, m)
    BY <1>0, <2>1, <2>2 DEF Knows
  <2>. QED BY <1>0, <1>a, <2>2, <2>3, <2>4, Quiet DEF StoreTyped
<1>2. CASE JobReadInitiated(j) \/ JobReadPaid(j) \/ JobReadFulfilling(j)
  BY <1>1, <1>2 DEF JobReadInitiated, JobReadPaid, JobReadFulfilling, TxStatus
<1>3. CASE JobTakesRow(j)
  <2>1. PICK i \in my[j].todo, l \in {"resume", "job_wallet", "job_fetch"} :
          Load(j, l, [my[j] EXCEPT !.t = i.t, !.s = tx[i.t].sess, !.seen = i.seen,
                                   !.gid = i.gid, !.todo = @ \ {i}])
    BY <1>3 DEF JobTakesRow
  <2>. DEFINE m == [my[j] EXCEPT !.t = i.t, !.s = tx[i.t].sess, !.seen = i.seen,
                                 !.gid = i.gid, !.todo = @ \ {i}]
  <2>2. i \in Item /\ KnownRow(i.t) /\ KnownSession(tx[i.t].sess)
    BY <1>0 DEF Local, Knows, RowsOK, KnownRow
  <2>3. /\ m \in Local /\ m.s = tx[i.t].sess /\ m.t = i.t
        /\ m.todo = my[j].todo \ {i}
    BY <1>0, <2>2 DEF Local, Item, KnownSession
  <2>4. Load(j, l, m)
    BY <2>1
  <2>. HIDE DEF m
  <2>5. Knows(j, l, m)
    BY <1>0, <2>2, <2>3 DEF Knows
  <2>. QED BY <1>0, <1>3, <1>a, <2>3, <2>4, <2>5, Quiet DEF JobTakesRow, StoreTyped
<1>4. CASE JobEnds(j)
  <2>1. Knows(j, "idle", Blank)
    BY <1>0, BlankTyped DEF Knows
  <2>. QED BY <1>0, <1>4, <1>a, <2>1, BlankTyped, Quiet DEF JobEnds, StoreTyped
<1>5. CASE JobSettlesWallet(j)
  <2>. DEFINE g == IF my[j].gid = "none" THEN "wallet" ELSE my[j].gid
              m == [my[j] EXCEPT !.seen = "PAID_UNFULFILLED", !.gid = g]
  <2>1. KnownRow(my[j].t)
    BY <1>0, <1>5 DEF Knows, JobSettlesWallet, At
  <2>2. g \in Gid
    BY <1>0 DEF Local, Gid
  <2>3. m \in Local /\ m.s = my[j].s /\ m.t = my[j].t /\ m.todo = my[j].todo
    BY <1>0, <2>2 DEF Local, TxStatus
  <2>4. Load(j, "resume", m) /\ UpdateTx(my[j].t, "PAID_UNFULFILLED", g)
    BY <1>5 DEF JobSettlesWallet
  <2>. HIDE DEF g, m
  <2>5. Knows(j, "resume", m)
    BY <1>0, <1>5, <2>3 DEF Knows, JobSettlesWallet, At
  <2>. QED BY <1>0, <1>5, <1>a, <2>1, <2>2, <2>3, <2>4, <2>5, WriteRow
           DEF JobSettlesWallet, TxStatus
<1>6. CASE JobFetches(j)
  <2>1. /\ Knows(j, "job_settle", my[j]) /\ Knows(j, "fail", my[j])
        /\ faults' \in Nat
    BY <1>0, <1>6, FaultCounted DEF Knows, JobFetches, At
  <2>. QED BY <1>0, <1>6, <1>a, <2>1, GotoQuiet, LeaveQuiet DEF JobFetches
<1>7. CASE JobSettles(j)
  <2>. DEFINE m == [my[j] EXCEPT !.seen = "PAID_UNFULFILLED", !.gid = "card"]
  <2>1. KnownRow(my[j].t)
    BY <1>0, <1>7 DEF Knows, JobSettles, At
  <2>2. m \in Local /\ m.s = my[j].s /\ m.t = my[j].t /\ m.todo = my[j].todo
    BY <1>0 DEF Local, TxStatus, Gid
  <2>3. Load(j, "resume", m)
    BY <1>7 DEF JobSettles
  <2>. HIDE DEF m
  <2>4. Knows(j, "resume", m)
    BY <1>0, <1>7, <2>2 DEF Knows, JobSettles, At
  <2>. QED BY <1>0, <1>7, <1>a, <2>1, <2>2, <2>3, <2>4, WriteRow DEF JobSettles, TxStatus, Gid
<1>. QED BY <1>2, <1>3, <1>4, <1>5, <1>6, <1>7 DEF SyncPendingPayments

(* Steps no handler takes leave every handler where it is.                 *)
LEMMA Around ==
  ASSUME TypeInv, UNCHANGED <<pc, my>>, \A h : Keeps(h), StoreTyped',
         RowsOK', PaymentsOK',
         \A s \in Checkouts : sess[s].status = "none" => sess'[s].status = "none",
         \A t \in Requests : tx[t].status = "none" => tx'[t].status = "none"
  PROVE  TypeInv' /\ Kept
<1>1. ASSUME NEW h \in Handlers PROVE Knows(h, pc[h], my[h])'
  <2>1. Knows(h, pc[h], my[h]) /\ Keeps(h)
    BY DEF TypeInv
  <2>. QED BY <2>1 DEF Knows, Keeps, Kept, KnownSession, KnownRow
<1>. QED BY <1>1 DEF TypeInv, TypeOK, StoreTyped, Keeps

(* Crashes, clocks, credits and Moyasar.                                    *)
LEMMA EnvironmentStep ==
  ASSUME TypeInv, Environment
  PROVE  TypeInv' /\ Kept
<1>0. StoreTyped /\ RowsOK /\ PaymentsOK
  BY DEF TypeInv, TypeOK, StoreTyped
<1>1. ASSUME NEW h \in Handlers, Crash(h) PROVE TypeInv' /\ Kept
  <2>. DEFINE l == IF h \in Jobs THEN "idle" ELSE "done"
  <2>1. l \in PC /\ Knows(h, l, Blank)
    BY CheckoutAssumption, BlankTyped DEF Knows, PC, NoSession, NoRow, Opening, Early
  <2>. QED BY <1>1, <2>1, BlankTyped, FaultCounted, Quiet DEF Crash
<1>2. ASSUME NEW s \in Checkouts, TenMinutesPass(s) PROVE TypeInv' /\ Kept
  <2>1. /\ sess' \in [Checkouts -> SessionRow]
        /\ \A c \in Checkouts : sess'[c].status = sess[c].status /\ sess'[c].promo = sess[c].promo
    BY <1>0, <1>2 DEF StoreTyped, SessionRow, TenMinutesPass
  <2>2. StoreTyped'
    BY <1>0, <1>2, <2>1 DEF StoreTyped, GatewayTypeOK, TenMinutesPass, gateway, store, ledger, friends
  <2>3. RowsOK' /\ PaymentsOK' /\ \A h : Keeps(h)
    BY <1>0, <1>2, <2>1 DEF RowsOK, PaymentsOK, KnownSession, Keeps, Kept, TenMinutesPass, gateway, store
  <2>. QED BY <1>2, <2>1, <2>2, <2>3, Around DEF TenMinutesPass, store
<1>3. ASSUME NEW t \in Requests, TwoMinutesPass(t) PROVE TypeInv' /\ Kept
  <2>1. /\ tx' \in [Requests -> TxRow]
        /\ \A u \in Requests : tx'[u].status = tx[u].status /\ tx'[u].sess = tx[u].sess
    BY <1>0, <1>3 DEF StoreTyped, TxRow, TwoMinutesPass
  <2>2. StoreTyped'
    BY <1>0, <1>3, <2>1 DEF StoreTyped, GatewayTypeOK, TwoMinutesPass, gateway, ledger, friends
  <2>3. RowsOK' /\ PaymentsOK' /\ \A h : Keeps(h)
    BY <1>0, <1>3, <2>1 DEF RowsOK, PaymentsOK, KnownSession, Keeps, Kept, TwoMinutesPass, gateway, GatewayTypeOK, StoreTyped
  <2>. QED BY <1>3, <2>1, <2>2, <2>3, Around DEF TwoMinutesPass
<1>4. CASE TopUp
  <2>1. StoreTyped'
    BY <1>0, <1>4 DEF StoreTyped, GatewayTypeOK, TopUp, gateway, store, friends
  <2>2. RowsOK' /\ PaymentsOK' /\ \A h : Keeps(h)
    BY <1>0, <1>4 DEF RowsOK, PaymentsOK, KnownSession, Keeps, Kept, TopUp, gateway, store
  <2>. QED BY <1>4, <2>1, <2>2, Around DEF TopUp, store
<1>5. CASE Moyasar
  <2>1. /\ GatewayTypeOK' /\ posts' \subseteq posts
        /\ \A t \in Requests : pay'[t] # "none" =>
              pay[t] # "none" \/ \E p \in posts : p.key = t
    <3>1. CASE \E p \in posts : Accept(p) \/ Refuse(p)
      <4>1. PICK p \in posts : Accept(p) \/ Refuse(p)
        BY <3>1
      <4>2. p.key \in Requests /\ p.amount \in Nat
        BY <1>0 DEF StoreTyped, GatewayTypeOK
      <4>. QED BY <1>0, <4>1, <4>2
               DEF StoreTyped, GatewayTypeOK, PayStatus, Accept, Create, Refuse
    <3>2. CASE \E t \in Requests : Settle(t)
      BY <1>0, <3>2 DEF StoreTyped, GatewayTypeOK, PayStatus, Settle
    <3>. QED BY <1>5, <3>1, <3>2 DEF Moyasar, GatewayNext
  <2>2. StoreTyped'
    BY <1>0, <1>5, <2>1 DEF StoreTyped, Moyasar, store, ledger, friends
  <2>3. RowsOK' /\ PaymentsOK' /\ \A h : Keeps(h)
    BY <1>0, <1>5, <2>1 DEF RowsOK, PaymentsOK, KnownSession, Keeps, Kept, Moyasar, store
  <2>. QED BY <1>5, <2>2, <2>3, Around DEF Moyasar, store
<1>. QED BY <1>1, <1>2, <1>3, <1>4, <1>5 DEF Environment

(* The empty store is typed, and nobody has read anything.                  *)
LEMMA InitTyped == Init => TypeInv
<1>. SUFFICES ASSUME Init PROVE TypeInv
  OBVIOUS
<1>1. /\ GatewayTypeOK /\ RowsOK /\ PaymentsOK
  BY DEF Init, GatewayInit, GatewayTypeOK, PayStatus, RowsOK, PaymentsOK
<1>2. sess \in [Checkouts -> SessionRow] /\ tx \in [Requests -> TxRow] /\ born \in Seq(Requests)
  BY DEF Init, SessionRow, TxRow, SessionStatus, TxStatus, Gid
<1>3. orders \in Seq(OrderRow) /\ subs \in Seq(SubRow)
  <2>1. OldOrder \in OrderRow /\ OldPlan \in SubRow
    BY DEF OldOrder, OldPlan, OrderRow, SubRow, Gid
  <2>2. <<OldOrder>> \in Seq(OrderRow) /\ <<OldPlan>> \in Seq(SubRow)
    BY <2>1
  <2>3. << >> \in Seq(OrderRow) /\ << >> \in Seq(SubRow)
    OBVIOUS
  <2>4. orders \in {<< >>, <<OldOrder>>} /\ subs \in {<< >>, <<OldPlan>>}
    BY DEF Init
  <2>. QED BY <2>2, <2>3, <2>4
<1>4. /\ balance \in Nat /\ topups \in Nat /\ referred \in BOOLEAN /\ rewards \in Nat
      /\ faults \in Nat
  BY CheckoutAssumption DEF Init
<1>5. pc \in [Handlers -> PC] /\ my \in [Handlers -> Local]
  BY BlankTyped DEF Init, PC
<1>6. ASSUME NEW h \in Handlers PROVE Knows(h, pc[h], my[h])
  BY BlankTyped DEF Init, Knows, NoSession, NoRow, Opening
<1>. QED BY <1>1, <1>2, <1>3, <1>4, <1>5, <1>6 DEF TypeInv, TypeOK

(* Every step keeps the invariant, and what handlers rely on.               *)
LEMMA TypeStep == TypeInv /\ [Next]_vars => TypeInv' /\ Kept
<1>. SUFFICES ASSUME TypeInv, [Next]_vars PROVE TypeInv' /\ Kept
  OBVIOUS
<1>1. CASE Environment
  BY <1>1, EnvironmentStep
<1>2. ASSUME NEW h \in Handlers, Step(h) PROVE TypeInv' /\ Kept
  BY <1>2, FulfilStep, SharedStep, CheckoutStep, RequestStep, WebhookStep, JobStep DEF Step
<1>3. CASE UNCHANGED vars
  BY <1>3 DEF vars, gateway, store, ledger, friends, TypeInv, TypeOK, GatewayTypeOK, RowsOK,
              PaymentsOK, Knows, KnownSession, KnownRow, Kept
<1>. QED BY <1>1, <1>2, <1>3 DEF Next

(* Every handler, whatever it read and however late it acts on it, keeps    *)
(* every table well typed, and a handler always works on a session and a   *)
(* payment row that exist and belong together.                             *)
THEOREM TypeCorrect == Spec => []TypeOK
<1>1. TypeInv => TypeOK
  BY DEF TypeInv
<1>. QED BY <1>1, InitTyped, TypeStep, PTL DEF Spec
===============================================================================

---------------------------- MODULE CheckoutSales -----------------------------
(***************************************************************************)
(* PaidCheckout seen as Purchase: the rows, orders and Moyasar payments of  *)
(* a checkout added up.  An upgrade is never reported as done: a payment    *)
(* for one may end as SUCCESS with the upgrade left out.                    *)
(***************************************************************************)
EXTENDS PaidCheckout, FiniteSets

RowsOf(s) == {t \in Requests : tx[t].sess = s}
OrdersOf(s) == {i \in DOMAIN orders : SessionOf(i) = s}

(* What was taken, unit by unit: the sums over its rows and over its orders.  *)
CardMoney(s) == UNION { {t} \X (1 .. CardPart(t)) : t \in RowsOf(s) }
WalletMoney(s) == UNION { {i} \X (1 .. orders[i].debit) : i \in OrdersOf(s) }

SaleOf(s) ==
    [card   |-> Cardinality(CardMoney(s)),
     wallet |-> Cardinality(WalletMoney(s)),
     orders |-> Cardinality(OrdersOf(s)),
     done   |-> \E t \in RowsOf(s) : tx[t].status = "SUCCESS" /\ NewPurchase(t)]

Sales == INSTANCE Purchase WITH sale <- [s \in Checkouts |-> SaleOf(s)]

(* While no two handlers overlap and no credit reaches the wallet, every    *)
(* step of the handlers, Moyasar, crashes and clocks is a step of Purchase  *)
(* or changes nothing of it: a sale is charged, ordered, debited and        *)
(* finished once each, in that order.                                       *)
ImplementsPurchase == Sales!Spec
===============================================================================

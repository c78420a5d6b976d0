------------------------------- MODULE Purchase -------------------------------
(***************************************************************************)
(* What the payment subsystem promises of one checkout: it is paid by card  *)
(* at most once, ordered once, its wallet part is taken once and only for   *)
(* an order, and it is done only when card and wallet add up to the price.  *)
(***************************************************************************)
EXTENDS Naturals

CONSTANTS
    Checkouts,
    Price

VARIABLE sale      \* [Checkouts -> what was taken for it and given for it]

Sale == [card: 0..Price, wallet: 0..Price, orders: 0..1, done: BOOLEAN]
SaleOK == sale \in [Checkouts -> Sale]

Init == sale = [s \in Checkouts |-> [card |-> 0, wallet |-> 0, orders |-> 0,
                                     done |-> FALSE]]

ChargeCard(s) ==
    /\ sale[s].card = 0 /\ sale[s].orders = 0
    /\ \E amount \in 1..Price : sale' = [sale EXCEPT ![s].card = amount]

PlaceOrder(s) ==
    /\ sale[s].orders = 0
    /\ sale' = [sale EXCEPT ![s].orders = 1]

DebitWallet(s) ==
    /\ sale[s].orders = 1 /\ sale[s].wallet = 0
    /\ sale' = [sale EXCEPT ![s].wallet = Price - sale[s].card]

Finish(s) ==
    /\ sale[s].orders = 1 /\ ~sale[s].done
    /\ sale[s].card + sale[s].wallet = Price
    /\ sale' = [sale EXCEPT ![s].done = TRUE]

Next == \E s \in Checkouts : ChargeCard(s) \/ PlaceOrder(s) \/ DebitWallet(s) \/ Finish(s)
Spec == Init /\ [][Next]_sale
===============================================================================

--------------------------- MODULE MCCheckoutCodes ---------------------------
EXTENDS CheckoutCodes, TLC

CONSTANTS u1, u2, a1

RoleOf(u) == IF u = a1 THEN "ADMIN" ELSE "CUSTOMER"

PriceOf(p) == CASE p = "try_it" -> 4 [] p = "week" -> 7 [] OTHER -> 20

(* Three promo codes - one larger than the smallest plan, one for a month,  *)
(* one retired - and the referral codes of both customers.                  *)
AllCodes == {"large", "monthly", "retired", "own", "friends"}
TypeOf(c) == IF c \in {"own", "friends"} THEN "referral" ELSE "promo"
DiscountOf(c) == IF c = "large" THEN 6 ELSE 3
ValidForPlan(c) == IF c = "monthly" THEN "month" ELSE NoPlan
OwnerOf(c) == IF c = "own" THEN u1 ELSE u2

None == [id |-> 0, status |-> "none", plan |-> NoPlan, paid |-> 0]
Week == [id |-> 1, status |-> "active", plan |-> "week", paid |-> 6]

(* Nobody but the administrator, who has no phone, or whose phone it is; or *)
(* two customers who have signed in, the first with a plan.                 *)
Empty == [status |-> [u \in {u1, u2, a1} |-> IF u = a1 THEN "active" ELSE "absent"],
          holder |-> NoUser, issued |-> {}, access |-> [u \in {u1, u2, a1} |-> FALSE],
          locations |-> [u \in {u1, u2, a1} |-> {}],
          subscription |-> [u \in {u1, u2, a1} |-> None]]
AdminsPhone == [Empty EXCEPT !.holder = a1]
Customers == [Empty EXCEPT !.status[u1] = "active", !.status[u2] = "active",
                           !.holder = u1, !.access[u1] = TRUE, !.access[u2] = TRUE,
                           !.locations[u1] = {1, 2}, !.subscription[u1] = Week]
Newcomers == [Customers EXCEPT !.subscription[u1] = None, !.issued = {u1, u2}]
FourStarts == {Empty, AdminsPhone, Customers, Newcomers}

Allot(s, a, c, t) == [signIns |-> s, accounts |-> a, checkouts |-> c, ticks |-> t]
AllAllotments == {Allot(5, 0, 0, 4), Allot(0, 4, 0, 0), Allot(0, 0, 6, 0),
                  Allot(2, 2, 1, 1), Allot(0, 2, 2, 0)}
Interchangeable == Permutations(Handlers)
==============================================================================

---------------------------- MODULE PaymentGateway ----------------------------
(***************************************************************************)
(* Moyasar as MoyasarPaymentGatewayService (infrastructure/MoyasarPayment)  *)
(* uses it.  The server itself is external: what it does is read off from   *)
(* the requests the client sends and the replies it is ready for.           *)
(*                                                                         *)
(* A charge is POSTed with given_id = the payment transaction id, so the    *)
(* id of a payment is the id of the row that asked for it and a second POST *)
(* with the same id creates nothing.  A row is named after the CreateOrder  *)
(* call that inserted it, hence the one constant.                           *)
(***************************************************************************)
EXTENDS Naturals

CONSTANT Requests    \* CreateOrder calls; also the payment rows they insert

VARIABLES
    pay,        \* [Requests -> status of the payment at Moyasar]
    posts,      \* POSTs sent and not yet handled: [key, amount]
    charged     \* [Requests -> amount of the payment at Moyasar]

gateway == <<pay, posts, charged>>

PayStatus == {"none", "initiated", "paid", "failed"}

GatewayTypeOK ==
    /\ pay \in [Requests -> PayStatus]
    /\ posts \in SUBSET [key: Requests, amount: Nat]
    /\ charged \in [Requests -> Nat]

GatewayInit ==
    /\ pay = [t \in Requests |-> "none"]
    /\ posts = {}
    /\ charged = [t \in Requests |-> 0]

(* postPayment: the request leaves; the answer is a step of its own.       *)
Post(t, amount) ==
    /\ posts' = posts \cup {[key |-> t, amount |-> amount]}
    /\ UNCHANGED <<pay, charged>>

(* Moyasar handles a POST.  `initiated` also stands for authorized and     *)
(* verified: a payment that exists and has moved no money yet.             *)
Create(p) ==
    /\ pay[p.key] = "none"
    /\ \E st \in {"initiated", "paid", "failed"} :
          pay' = [pay EXCEPT ![p.key] = st]
    /\ charged' = [charged EXCEPT ![p.key] = p.amount]

Accept(p) ==
    /\ \/ Create(p)
       \/ pay[p.key] # "none" /\ UNCHANGED <<pay, charged>>   \* "already created"
    /\ posts' = posts \ {p}

(* A 4xx answer: no payment comes of this POST.  POSTs with one id and     *)
(* amount are answered alike: none is left behind to be accepted later.    *)
Refuse(p) ==
    /\ pay[p.key] = "none"
    /\ posts' = posts \ {p}
    /\ UNCHANGED <<pay, charged>>

(* An initiated payment is captured, or fails.                             *)
Settle(t) ==
    /\ pay[t] = "initiated"
    /\ \E st \in {"paid", "failed"} : pay' = [pay EXCEPT ![t] = st]
    /\ UNCHANGED <<posts, charged>>

GatewayNext ==
    \/ \E p \in posts : Accept(p) \/ Refuse(p)
    \/ \E t \in Requests : Settle(t)

(* Definitions named ..._mutant are mistakes that no property may overlook; *)
(* the model does not use them.                                             *)
Settled_mutant(st) == st \in {"paid", "initiated"}      \* authorized is enough
(* isSettledPaymentStatus: paid or captured; authorized is not.            *)
Settled(st) == st = "paid"

(* What charge() returns once the server has answered: success, a plain    *)
(* failure (declined, or a 4xx that created nothing), or `ambiguous`.      *)
Outstanding(t) == \E p \in posts : p.key = t

ChargeReplies_mutant(t) ==                    \* an unknown outcome is a failure
    CASE pay[t] = "paid"                  -> {"paid"}
      [] pay[t] \in {"failed", "initiated"} -> {"failed"}
      [] OTHER                            -> IF Outstanding(t) THEN {} ELSE {"failed"}
ChargeReplies(t) ==
    CASE Settled(pay[t])      -> {"paid"}
      [] pay[t] = "failed"    -> {"failed"}
      [] pay[t] = "initiated" -> {"unknown"}
      [] OTHER                -> IF Outstanding(t) THEN {} ELSE {"failed"}
==============================================================================

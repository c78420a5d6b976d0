------------------------------ MODULE AreaRoster ------------------------------
(***************************************************************************)
(* What handing delivery areas to drivers promises.  A request is granted   *)
(* at one instant: every area it asks for is then open and free or the      *)
(* driver's already, and all of them become the driver's, together.  Until  *)
(* then it changes nothing, and it may be refused at any time.              *)
(***************************************************************************)
CONSTANTS
    Admins,          \* who ask
    Drivers,
    Areas,
    NoDriver

VARIABLES
    open,            \* the areas that are there
    holds,           \* which driver has which area
    request          \* what an administrator asks for

Request == [driver: Drivers \cup {NoDriver}, areas: SUBSET Areas, replace: BOOLEAN]
NoRequest == [driver |-> NoDriver, areas |-> {}, replace |-> FALSE]

Init ==
    /\ open \in SUBSET Areas
    /\ holds \subseteq Drivers \X open
    /\ \A p, q \in holds : p[2] = q[2] => p = q
    /\ request = [a \in Admins |-> NoRequest]

(* Areas besides those the driver holds, or instead of them.                *)
Ask(a) ==
    /\ request[a] = NoRequest /\ request'[a].driver # NoDriver
    /\ request' \in [Admins -> Request] /\ request'[a].areas \subseteq open
    /\ \A b \in Admins \ {a} : request'[b] = request[b]
    /\ UNCHANGED <<open, holds>>

MayTake(d, as) == as \subseteq open /\ \A p \in holds : p[2] \in as => p[1] = d

Grant(r) ==
    /\ MayTake(r.driver, r.areas)
    /\ holds' = (IF r.replace THEN { p \in holds : p[1] # r.driver } ELSE holds)
                    \cup ({r.driver} \X r.areas)

(* A request ends: it is granted, or refused and changes nothing.           *)
Decide(a) ==
    /\ request[a] # NoRequest
    /\ request' = [request EXCEPT ![a] = NoRequest]
    /\ Grant(request[a]) \/ UNCHANGED holds
    /\ UNCHANGED open

RefuseAll ==
    /\ request' = [a \in Admins |-> NoRequest]
    /\ UNCHANGED <<open, holds>>

(* A driver who leaves gives up the areas held.                             *)
Leave(d) ==
    /\ holds' = { p \in holds : p[1] # d }
    /\ UNCHANGED <<open, request>>

OpenArea(ar) ==
    /\ ar \notin open
    /\ open' = open \cup {ar}
    /\ UNCHANGED <<holds, request>>

CloseArea(ar) ==
    /\ ar \in open
    /\ open' = open \ {ar}
    /\ holds' = { p \in holds : p[2] # ar }
    /\ UNCHANGED request

Next ==
    \/ RefuseAll
    \/ \E a \in Admins : Ask(a) \/ Decide(a)
    \/ \E d \in Drivers : Leave(d)
    \/ \E ar \in Areas : OpenArea(ar) \/ CloseArea(ar)

Spec == Init /\ [][Next]_<<open, holds, request>>
===============================================================================

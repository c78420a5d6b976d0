-------------------------- MODULE ServiceDay_proofs ---------------------------
(***************************************************************************)
(* What holds of ServiceDay for every number of drivers, areas,             *)
(* administrators, staff and customers, and every interleaving of them.     *)
(*                                                                         *)
(* An administrator's command decides about an area when it has locked the  *)
(* area's row and acts on that when it commits, several locks later.  So    *)
(* the inductive invariant says what a command may rely on in between:      *)
(* every area it has claimed is locked by it, is still there and has no     *)
(* driver but its own (ClaimsHold), and its locks come before the areas it  *)
(* has still to lock (LocksInOrder).                                        *)
(***************************************************************************)
EXTENDS ServiceDay, SetLemmas, SequenceTheorems

NetworkTyped ==
    /\ drivers \in [Drivers -> DriverStatus]
    /\ areas \in [Areas -> AreaStatus]
    /\ assigned \subseteq Drivers \X Areas
    /\ lockedBy \in [Areas -> Admins \cup {NoAdmin}]
    /\ admin \in [Admins -> AdminLocal]

Claimed(my) == Range(my.areaIds) \ my.todo

ClaimsHold ==
    \A a \in Admins : admin[a].cmd # "idle" =>
        /\ admin[a].driver \in Drivers
        /\ \A ar \in Claimed(admin[a]) :
               lockedBy[ar] = a /\ MayHold(admin[a].driver, ar)

LocksInOrder ==
    \A a \in Admins, ar \in Areas : lockedBy[ar] = a =>
        /\ admin[a].cmd # "idle"
        /\ \A other \in admin[a].todo : ar < other

RestingAsksNothing == \A a \in Admins : admin[a].cmd = "idle" => admin[a].todo = {}

NetworkInv ==
    /\ NetworkTyped /\ RestingAsksNothing
    /\ ClaimsHold /\ LocksInOrder /\ OneDriverPerArea

-------------------------------------------------------------------------------
(* The areas a command asks for are areas.                                  *)
LEMMA RangeOfAreas ==
    ASSUME NEW s \in Seq(Areas)
    PROVE  Range(s) \subseteq Areas
BY DEF Range

(* An order of the areas of a set is a sequence of areas.                   *)
LEMMA OrdersAreSequences ==
    ASSUME NEW as \in SUBSET Areas, NEW areaIds \in SetToSeqs(as)
    PROVE  areaIds \in Seq(Areas)
<1>1. Cardinality(as) \in Nat
  <2>1. IsFiniteSet(as)
    BY NetworkAssumption, FS_Subset
  <2> QED
    BY <2>1, FS_CardinalityType
<1>2. areaIds \in [1 .. Cardinality(as) -> as]
  BY DEF SetToSeqs
<1>3. \E n \in Nat : areaIds \in [1 .. n -> Areas]
  BY <1>1, <1>2
<1>4. areaIds \in UNION {[1 .. n -> Areas] : n \in Nat}
  BY <1>3, Zenon
<1> QED
  BY <1>4, SeqDef, Zenon

(* A command that begins holds no lock yet and relies on nothing.           *)
LEMMA BeginKeeps ==
    ASSUME NetworkInv, NEW a \in Admins, NEW cmd \in {"create", "update", "assign"},
           NEW d \in Drivers, NEW isActive \in BOOLEAN, NEW areaIds \in Seq(Areas),
           Begin(a, cmd, d, isActive, areaIds)
    PROVE  NetworkInv'
<1> DEFINE new == [cmd |-> cmd, driver |-> d, isActive |-> isActive,
                   areaIds |-> areaIds, todo |-> Range(areaIds)]
<1>1. /\ admin' = [admin EXCEPT ![a] = new]
      /\ admin[a].cmd = "idle"
      /\ UNCHANGED <<drivers, areas, assigned, lockedBy>>
  BY DEF Begin
<1>2. new \in AdminLocal
  BY RangeOfAreas DEF AdminLocal
<1>3. /\ new.cmd # "idle" /\ new.driver \in Drivers
      /\ Claimed(new) = {}
  BY DEF Claimed
<1> HIDE DEF new
<1>4. NetworkTyped'
  BY <1>1, <1>2 DEF NetworkInv, NetworkTyped
<1>5. \A b \in Admins : admin'[b] = IF b = a THEN new ELSE admin[b]
  BY <1>1 DEF NetworkInv, NetworkTyped
<1>6. ClaimsHold'
  BY <1>1, <1>3, <1>5 DEF NetworkInv, ClaimsHold, MayHold, GetAreaById, Holders, Claimed
<1>7. LocksInOrder'
  BY <1>1, <1>5 DEF NetworkInv, LocksInOrder
<1>8. OneDriverPerArea'
  BY <1>1 DEF NetworkInv, OneDriverPerArea, Holders
<1>9. RestingAsksNothing'
  BY <1>3, <1>5 DEF NetworkInv, RestingAsksNothing
<1> QED
  BY <1>4, <1>6, <1>7, <1>8, <1>9 DEF NetworkInv

(* The end of a transaction releases its locks and leaves the others'.      *)
LEMMA EndReleases ==
    ASSUME NetworkTyped, NEW a \in Admins, EndTransaction(a)
    PROVE  /\ lockedBy' \in [Areas -> Admins \cup {NoAdmin}]
           /\ admin' \in [Admins -> AdminLocal]
           /\ admin'[a].cmd = "idle" /\ admin'[a].todo = {}
           /\ \A b \in Admins \ {a} :
                  /\ admin'[b] = admin[b]
                  /\ \A ar \in Areas : lockedBy'[ar] = b <=> lockedBy[ar] = b
           /\ \A ar \in Areas : lockedBy'[ar] # a
<1>1. AdminResting \in AdminLocal
  BY DEF AdminResting, AdminLocal
<1>2. AdminResting.cmd = "idle" /\ AdminResting.todo = {}
  BY DEF AdminResting
<1> QED
  BY <1>1, <1>2, NetworkAssumption DEF EndTransaction, NetworkTyped

(* A transaction that ends keeps the invariant when what it has written     *)
(* adds no driver to an area another one has claimed.                       *)
LEMMA EndKeeps ==
    ASSUME NetworkInv, NEW a \in Admins, EndTransaction(a),
           drivers' \in [Drivers -> DriverStatus], areas' = areas,
           assigned' \subseteq Drivers \X Areas,
           \A ar \in Areas :
               Holders(ar)' \subseteq Holders(ar) \/
                   (/\ lockedBy[ar] = a /\ GetAreaById(ar)
                    /\ Holders(ar)' \subseteq {admin[a].driver})
    PROVE  NetworkInv'
<1>1. NetworkTyped'
  BY EndReleases DEF NetworkInv, NetworkTyped
<1>2. ClaimsHold'
  <2> SUFFICES ASSUME NEW b \in Admins, admin'[b].cmd # "idle"
               PROVE  /\ admin'[b].driver \in Drivers
                      /\ \A ar \in Claimed(admin'[b]) :
                             lockedBy'[ar] = b /\ MayHold(admin[b].driver, ar)'
    BY DEF ClaimsHold
  <2>1. b # a /\ admin'[b] = admin[b]
    BY EndReleases DEF NetworkInv
  <2>2. admin[b].driver \in Drivers
    BY <2>1 DEF NetworkInv, ClaimsHold
  <2>3. ASSUME NEW ar \in Claimed(admin'[b])
        PROVE  lockedBy'[ar] = b /\ MayHold(admin[b].driver, ar)'
    <3>1. ar \in Areas
      BY <2>1, RangeOfAreas DEF Claimed, NetworkInv, NetworkTyped, AdminLocal
    <3>2. lockedBy[ar] = b /\ MayHold(admin[b].driver, ar)
      BY <2>1, <2>3 DEF NetworkInv, ClaimsHold
    <3>3. lockedBy'[ar] = b
      BY <2>1, <3>1, <3>2, EndReleases DEF NetworkInv
    <3>4. Holders(ar)' \subseteq Holders(ar)
      BY <2>1, <3>1, <3>2
    <3> QED
      BY <2>1, <3>2, <3>3, <3>4 DEF MayHold, GetAreaById
  <2> QED
    BY <2>1, <2>2, <2>3
<1>3. LocksInOrder'
  BY EndReleases DEF NetworkInv, LocksInOrder
<1>4. OneDriverPerArea'
  BY DEF NetworkInv, OneDriverPerArea, GetAreaById
<1>5. RestingAsksNothing'
  BY EndReleases DEF NetworkInv, RestingAsksNothing
<1> QED
  BY <1>1, <1>2, <1>3, <1>4, <1>5 DEF NetworkInv

-------------------------------------------------------------------------------
(* Claiming an area: it was nobody's, and it comes before what is left.     *)
LEMMA ClaimKeeps ==
    ASSUME NetworkInv, NEW a \in Admins, NEW ar \in Areas, ClaimArea(a, ar)
    PROVE  NetworkInv'
<1> DEFINE new == [admin[a] EXCEPT !.todo = @ \ {ar}]
<1>1. /\ IsNextToLock(admin[a], ar)
      /\ lockedBy[ar] = NoAdmin
      /\ MayHold(admin[a].driver, ar)
      /\ lockedBy' = [lockedBy EXCEPT ![ar] = a]
      /\ admin' = [admin EXCEPT ![a] = new]
      /\ UNCHANGED <<drivers, areas, assigned>>
  BY DEF ClaimArea, NetworkInv, NetworkTyped
<1>2. /\ new \in AdminLocal
      /\ new.cmd = admin[a].cmd /\ new.driver = admin[a].driver
      /\ new.areaIds = admin[a].areaIds /\ new.todo = admin[a].todo \ {ar}
  BY DEF NetworkInv, NetworkTyped, AdminLocal
<1> HIDE DEF new
<1>3. NetworkTyped'
  BY <1>1, <1>2 DEF NetworkInv, NetworkTyped
<1>4. \A b \in Admins : admin'[b] = IF b = a THEN new ELSE admin[b]
  BY <1>1 DEF NetworkInv, NetworkTyped
<1>5. \A x \in Areas : lockedBy'[x] = IF x = ar THEN a ELSE lockedBy[x]
  BY <1>1 DEF NetworkInv, NetworkTyped
<1>6. \A d, x : MayHold(d, x)' <=> MayHold(d, x)
  BY <1>1 DEF MayHold, GetAreaById, Holders
<1>7. ClaimsHold'
  <2> SUFFICES ASSUME NEW b \in Admins, admin'[b].cmd # "idle"
               PROVE  /\ admin'[b].driver \in Drivers
                      /\ \A x \in Claimed(admin'[b]) :
                             lockedBy'[x] = b /\ MayHold(admin'[b].driver, x)
    BY <1>6 DEF ClaimsHold
  <2>1. admin[b].cmd # "idle" /\ admin'[b].driver = admin[b].driver
    BY <1>2, <1>4
  <2>2. Claimed(admin'[b]) \subseteq Areas
    BY <1>3, RangeOfAreas DEF NetworkTyped, AdminLocal, Claimed
  <2>3. Claimed(admin'[b]) \subseteq Claimed(admin[b]) \cup (IF b = a THEN {ar} ELSE {})
    BY <1>2, <1>4 DEF Claimed
  <2>4. /\ admin[b].driver \in Drivers
        /\ \A x \in Claimed(admin[b]) : lockedBy[x] = b /\ MayHold(admin[b].driver, x)
    BY <2>1 DEF NetworkInv, ClaimsHold
  <2> QED
    BY <1>1, <1>5, <2>1, <2>2, <2>3, <2>4, NetworkAssumption
<1>8. LocksInOrder'
  <2>1. \A other \in admin[a].todo \ {ar} : ar < other
    BY <1>1, NetworkAssumption DEF IsNextToLock, NetworkInv, NetworkTyped, AdminLocal
  <2>2. admin[a].cmd # "idle"
    BY <1>1 DEF IsNextToLock, NetworkInv, RestingAsksNothing
  <2> QED
    BY <1>2, <1>4, <1>5, <2>1, <2>2 DEF NetworkInv, LocksInOrder
<1>9. OneDriverPerArea'
  BY <1>1 DEF NetworkInv, OneDriverPerArea, Holders
<1>10. RestingAsksNothing'
  BY <1>1, <1>2, <1>4 DEF NetworkInv, RestingAsksNothing, IsNextToLock
<1> QED
  BY <1>3, <1>7, <1>8, <1>9, <1>10 DEF NetworkInv

-------------------------------------------------------------------------------
(* The ends of the transactions: what each writes for the areas.            *)
LEMMA RollbackKeeps ==
    ASSUME NetworkInv, NEW a \in Admins, Rollback(a)
    PROVE  NetworkInv'
<1>1. EndTransaction(a) /\ UNCHANGED <<drivers, areas, assigned>>
  BY DEF Rollback
<1>2. \A ar \in Areas : Holders(ar)' \subseteq Holders(ar)
  BY <1>1 DEF Holders
<1> QED
  BY <1>1, <1>2, EndKeeps DEF NetworkInv, NetworkTyped

(* A command that has claimed all its areas may give them to its driver.    *)
LEMMA AssignedWasClaimed ==
    ASSUME NetworkInv, NEW a \in Admins, NEW cmd \in {"create", "update", "assign"},
           ClaimsHeld(a, cmd)
    PROVE  /\ admin[a].driver \in Drivers
           /\ Assigned(admin[a]) \subseteq Drivers \X Areas
           /\ \A p \in Assigned(admin[a]) :
                  /\ p[1] = admin[a].driver
                  /\ lockedBy[p[2]] = a /\ MayHold(admin[a].driver, p[2])
<1>1. admin[a].cmd # "idle" /\ admin[a].todo = {}
  BY DEF ClaimsHeld
<1>2. Range(admin[a].areaIds) \subseteq Areas
  BY RangeOfAreas DEF NetworkInv, NetworkTyped, AdminLocal
<1>3. Claimed(admin[a]) = Range(admin[a].areaIds)
  BY <1>1 DEF Claimed
<1>4. /\ admin[a].driver \in Drivers
      /\ \A ar \in Range(admin[a].areaIds) :
             lockedBy[ar] = a /\ MayHold(admin[a].driver, ar)
  BY <1>1, <1>3 DEF NetworkInv, ClaimsHold
<1> QED
  BY <1>2, <1>4 DEF Assigned

(* The commit inserts the claims it holds the locks for.                    *)
LEMMA CommitKeeps ==
    ASSUME NetworkInv, NEW a \in Admins, CreateDriver(a) \/ UpdateDriver(a) \/ AssignArea(a)
    PROVE  NetworkInv'
<1>1. PICK cmd \in {"create", "update", "assign"} : ClaimsHeld(a, cmd)
  BY DEF CreateDriver, UpdateDriver, AssignArea
<1>2. /\ EndTransaction(a) /\ areas' = areas
      /\ assigned' \subseteq assigned \cup Assigned(admin[a])
  BY DEF CreateDriver, UpdateDriver, AssignArea
<1>3. /\ admin[a].driver \in Drivers
      /\ Assigned(admin[a]) \subseteq Drivers \X Areas
      /\ \A p \in Assigned(admin[a]) :
             /\ p[1] = admin[a].driver
             /\ lockedBy[p[2]] = a /\ MayHold(admin[a].driver, p[2])
  BY <1>1, AssignedWasClaimed
<1>4. drivers' \in [Drivers -> DriverStatus]
  <2>1. \A isActive : StatusOf(isActive) \in DriverStatus
    BY DEF StatusOf, DriverStatus
  <2> QED
    BY <1>3, <2>1 DEF NetworkInv, NetworkTyped, CreateDriver, UpdateDriver, AssignArea
<1>5. assigned' \subseteq Drivers \X Areas
  BY <1>2, <1>3 DEF NetworkInv, NetworkTyped
<1>6. ASSUME NEW ar \in Areas
      PROVE  Holders(ar)' \subseteq Holders(ar) \/
                 (/\ lockedBy[ar] = a /\ GetAreaById(ar)
                  /\ Holders(ar)' \subseteq {admin[a].driver})
  <2>1. CASE \E d \in Drivers : <<d, ar>> \in Assigned(admin[a])
    <3>1. lockedBy[ar] = a /\ MayHold(admin[a].driver, ar)
      BY <1>3, <2>1
    <3>2. \A d \in Drivers : <<d, ar>> \in Assigned(admin[a]) => d = admin[a].driver
      BY <1>3
    <3> QED
      BY <1>2, <3>1, <3>2 DEF Holders, MayHold
  <2>2. CASE ~ \E d \in Drivers : <<d, ar>> \in Assigned(admin[a])
    BY <1>2, <2>2 DEF Holders
  <2> QED
    BY <2>1, <2>2
<1> QED
  BY <1>2, <1>4, <1>5, <1>6, EndKeeps

-------------------------------------------------------------------------------
(* Commands outside a transaction: none gives a driver an area, and one     *)
(* that takes an area away finds it unlocked and leaves it without driver.  *)
LEMMA OutsideKeeps ==
    ASSUME NetworkInv, UNCHANGED <<lockedBy, admin>>,
           drivers' \in [Drivers -> DriverStatus], areas' \in [Areas -> AreaStatus],
           assigned' \subseteq assigned,
           \A ar \in Areas :
               \/ GetAreaById(ar) => GetAreaById(ar)'
               \/ lockedBy[ar] = NoAdmin /\ Holders(ar)' = {}
    PROVE  NetworkInv'
<1>1. NetworkTyped'
  BY DEF NetworkInv, NetworkTyped
<1>2. \A ar : Holders(ar)' \subseteq Holders(ar)
  BY DEF Holders
<1>3. ClaimsHold'
  <2> SUFFICES ASSUME NEW a \in Admins, admin[a].cmd # "idle"
               PROVE  /\ admin[a].driver \in Drivers
                      /\ \A ar \in Claimed(admin[a]) :
                             lockedBy[ar] = a /\ MayHold(admin[a].driver, ar)'
    BY DEF ClaimsHold
  <2>1. Claimed(admin[a]) \subseteq Areas
    BY RangeOfAreas DEF Claimed, NetworkInv, NetworkTyped, AdminLocal
  <2>2. /\ admin[a].driver \in Drivers
        /\ \A ar \in Claimed(admin[a]) : lockedBy[ar] = a /\ MayHold(admin[a].driver, ar)
    BY DEF NetworkInv, ClaimsHold
  <2> QED
    BY <1>2, <2>1, <2>2, NetworkAssumption DEF MayHold
<1>4. LocksInOrder' /\ RestingAsksNothing'
  BY DEF NetworkInv, LocksInOrder, RestingAsksNothing
<1>5. OneDriverPerArea'
  <2> SUFFICES ASSUME NEW ar \in Areas
               PROVE  /\ \A d, e \in Holders(ar)' : d = e
                      /\ areas'[ar] \in {"absent", "deleted"} => Holders(ar)' = {}
    BY DEF OneDriverPerArea
  <2> QED
    BY <1>2 DEF NetworkInv, OneDriverPerArea, GetAreaById
<1> QED
  BY <1>1, <1>3, <1>4, <1>5 DEF NetworkInv

(* Every statement on drivers.                                              *)
LEMMA DriversKeep ==
    ASSUME NetworkInv, NEW d \in Drivers,
           SoftDeleteDriver(d) \/ \E b \in BOOLEAN : SetDriverActive(d, b)
    PROVE  NetworkInv'
<1>1. drivers' \in [Drivers -> DriverStatus]
  BY DEF NetworkInv, NetworkTyped, SoftDeleteDriver, SetDriverActive, StatusOf, DriverStatus
<1>2. /\ UNCHANGED <<lockedBy, admin>> /\ areas' = areas
      /\ assigned' \subseteq assigned
  BY DEF SoftDeleteDriver, SetDriverActive
<1>3. \A ar \in Areas : GetAreaById(ar) => GetAreaById(ar)'
  BY <1>2 DEF GetAreaById
<1>4. areas' \in [Areas -> AreaStatus]
  BY <1>2 DEF NetworkInv, NetworkTyped
<1> QED
  BY <1>1, <1>2, <1>3, <1>4, OutsideKeeps

(* Every statement on areas.                                                *)
LEMMA AreasKeep ==
    ASSUME NetworkInv, NEW ar \in Areas,
           \/ SoftDeleteDeliveryArea(ar)
           \/ \E status \in AreaStatus \ {"absent", "deleted"} :
                  \/ CreateDeliveryArea(ar, status)
                  \/ \E confirm \in BOOLEAN : UpdateDeliveryArea(ar, status, confirm)
    PROVE  NetworkInv'
<1>1. /\ UNCHANGED <<lockedBy, admin>> /\ drivers' = drivers
      /\ assigned' \subseteq assigned
      /\ \E status \in AreaStatus : areas' = [areas EXCEPT ![ar] = status]
  BY DEF SoftDeleteDeliveryArea, CreateDeliveryArea, UpdateDeliveryArea, AreaStatus
<1>2. areas' \in [Areas -> AreaStatus]
  BY <1>1 DEF NetworkInv, NetworkTyped
<1>3. \A x \in Areas \ {ar} : GetAreaById(x) => GetAreaById(x)'
  BY <1>1 DEF GetAreaById, NetworkInv, NetworkTyped
<1>4. \/ GetAreaById(ar) => GetAreaById(ar)'
      \/ lockedBy[ar] = NoAdmin /\ Holders(ar)' = {}
  <2>1. CASE SoftDeleteDeliveryArea(ar)
    BY <2>1 DEF SoftDeleteDeliveryArea, Holders
  <2>2. CASE \E status \in AreaStatus \ {"absent", "deleted"} : areas' = [areas EXCEPT ![ar] = status]
    BY <2>2 DEF GetAreaById, NetworkInv, NetworkTyped
  <2> QED
    BY <2>1, <2>2 DEF CreateDeliveryArea, UpdateDeliveryArea
<1>5. drivers' \in [Drivers -> DriverStatus]
  BY <1>1 DEF NetworkInv, NetworkTyped
<1>6. \A x \in Areas :
          \/ GetAreaById(x) => GetAreaById(x)'
          \/ lockedBy[x] = NoAdmin /\ Holders(x)' = {}
  BY <1>3, <1>4
<1> QED
  BY <1>1, <1>2, <1>5, <1>6, OutsideKeeps

-------------------------------------------------------------------------------
(* The rows the service starts with have one driver per area.               *)
LEMMA NetworkInitially ==
    Init => NetworkInv
<1> SUFFICES ASSUME Init PROVE NetworkInv
  OBVIOUS
<1>1. PICK start \in Starts : /\ drivers = start.drivers /\ areas = start.areas
                              /\ assigned = start.assigned
  BY DEF Init
<1>2. AdminResting \in AdminLocal /\ AdminResting.cmd = "idle" /\ AdminResting.todo = {}
  BY DEF AdminResting, AdminLocal
<1>3. /\ lockedBy = [ar \in Areas |-> NoAdmin]
      /\ admin = [a \in Admins |-> AdminResting]
  BY DEF Init
<1>4. NetworkTyped
  BY <1>1, <1>2, <1>3, StartsAssumption DEF NetworkTyped
<1>5. ClaimsHold /\ LocksInOrder /\ RestingAsksNothing
  BY <1>2, <1>3, NetworkAssumption DEF ClaimsHold, LocksInOrder, RestingAsksNothing
<1>6. OneDriverPerArea
  <2> SUFFICES ASSUME NEW ar \in Areas
               PROVE  /\ \A d, e \in Holders(ar) : d = e
                      /\ areas[ar] \in {"absent", "deleted"} => Holders(ar) = {}
    BY DEF OneDriverPerArea
  <2>1. \A p, q \in assigned :
            /\ p[2] = q[2] => p = q
            /\ areas[p[2]] \notin {"absent", "deleted"}
    BY <1>1, StartsAssumption
  <2>2. \A d \in Holders(ar) : <<d, ar>> \in assigned
    BY DEF Holders
  <2> QED
    BY <2>1, <2>2
<1> QED
  BY <1>4, <1>5, <1>6 DEF NetworkInv

(* A restart rolls the transactions back and releases their locks.          *)
LEMMA RestartKeeps ==
    ASSUME NetworkInv, Restart
    PROVE  NetworkInv'
<1>1. AdminResting \in AdminLocal /\ AdminResting.cmd = "idle" /\ AdminResting.todo = {}
  BY DEF AdminResting, AdminLocal
<1>2. /\ lockedBy' = [ar \in Areas |-> NoAdmin]
      /\ admin' = [a \in Admins |-> AdminResting]
      /\ UNCHANGED <<drivers, areas, assigned>>
  BY DEF Restart
<1>3. NetworkTyped'
  BY <1>1, <1>2 DEF NetworkTyped, NetworkInv
<1>4. ClaimsHold' /\ LocksInOrder' /\ RestingAsksNothing'
  BY <1>1, <1>2, NetworkAssumption DEF ClaimsHold, LocksInOrder, RestingAsksNothing
<1>5. OneDriverPerArea'
  BY <1>2 DEF NetworkInv, OneDriverPerArea, Holders
<1> QED
  BY <1>3, <1>4, <1>5 DEF NetworkInv

(* Steps of the other parts leave drivers, areas and locks alone.           *)
LEMMA StutterKeeps ==
    ASSUME NetworkInv, UNCHANGED network
    PROVE  NetworkInv'
BY DEF network, NetworkInv, NetworkTyped, RestingAsksNothing, ClaimsHold, LocksInOrder,
       OneDriverPerArea, Holders, MayHold, GetAreaById, Claimed

(* Every step of the service keeps the invariant of the network.            *)
LEMMA NetworkStep ==
    ASSUME NetworkInv, [Next]_vars
    PROVE  NetworkInv'
<1>1. CASE BeginNetwork
  <2>1. CASE \E a \in Admins, d \in Drivers : \E as \in SUBSET Areas :
               \E areaIds \in SetToSeqs(as) : BeginCreateDriver(a, d, areaIds)
    BY <2>1, OrdersAreSequences, BeginKeeps DEF BeginCreateDriver
  <2>2. CASE \E a \in Admins, d \in Drivers : \E as \in SUBSET Areas :
               \E areaIds \in SetToSeqs(as) : \E isActive \in BOOLEAN :
                   BeginUpdateDriver(a, d, isActive, areaIds)
    BY <2>2, OrdersAreSequences, BeginKeeps DEF BeginUpdateDriver
  <2>3. CASE \E a \in Admins, d \in Drivers : \E ar \in Areas : BeginAssignDriverArea(a, d, ar)
    <3>1. PICK a \in Admins, d \in Drivers, ar \in Areas : Begin(a, "assign", d, TRUE, <<ar>>)
      BY <2>3 DEF BeginAssignDriverArea
    <3>2. <<ar>> \in Seq(Areas)
      OBVIOUS
    <3> QED
      BY <3>1, <3>2, BeginKeeps
  <2>4. CASE \E d \in Drivers : SoftDeleteDriver(d) \/ \E b \in BOOLEAN : SetDriverActive(d, b)
    BY <2>4, DriversKeep
  <2>5. CASE \E ar \in Areas :
               \/ SoftDeleteDeliveryArea(ar)
               \/ \E status \in AreaStatus \ {"absent", "deleted"} :
                      \/ CreateDeliveryArea(ar, status)
                      \/ \E confirm \in BOOLEAN : UpdateDeliveryArea(ar, status, confirm)
    BY <2>5, AreasKeep
  <2> QED
    BY <1>1, <2>1, <2>2, <2>3, <2>4, <2>5 DEF BeginNetwork
<1>2. CASE ContinueNetwork
  BY <1>2, CommitKeeps, RollbackKeeps, ClaimKeeps DEF ContinueNetwork
<1>3. CASE Restart
  BY <1>3, RestartKeeps
<1>4. CASE UNCHANGED network
  BY <1>4, StutterKeeps
<1>5. BeginNetwork \/ ContinueNetwork \/ Restart \/ UNCHANGED network
  BY DEF Next, Command, Continue, Expiry, PlanExpires, Tick, vars, network
<1> QED
  BY <1>1, <1>2, <1>3, <1>4, <1>5

(* The invariant of the network holds in every state, for any number of     *)
(* transactions, areas and drivers.                                         *)
THEOREM NetworkAlways == Spec => []NetworkInv
<1> QED
  BY NetworkInitially, NetworkStep, PTL DEF Spec

(* Whatever administrators and restarts do at once, an area never has two   *)
(* drivers, and an area that is not there has none.                         *)
THEOREM AlwaysOneDriverPerArea == Spec => []OneDriverPerArea
<1>1. NetworkInv => OneDriverPerArea
  BY DEF NetworkInv
<1> QED
  BY <1>1, NetworkAlways, PTL

-------------------------------------------------------------------------------
(* A set of areas that is not empty has a last one: the areas after it are  *)
(* the fewest, and a finite set has no endless descent of subsets.          *)
LEMMA LastArea ==
    ASSUME NEW W \in SUBSET Areas, W # {}
    PROVE  \E ar \in W : \A other \in W : ~ (ar < other)
<1> DEFINE After(ar) == { x \in Areas : ar < x }
           Tails == { After(ar) : ar \in W }
<1>1. IsWellFoundedOn(StrictSubsetOrdering(Areas), SUBSET Areas)
  BY FS_StrictSubsetOrderingWellFounded, FS_FiniteSubsetsOfFinite, NetworkAssumption
<1>2. Tails \subseteq SUBSET Areas /\ Tails # {}
  OBVIOUS
<1>3. \E x \in Tails : \A y \in Tails : ~ (<<y, x>> \in StrictSubsetOrdering(Areas))
  <2> HIDE DEF Tails
  <2> QED
    BY <1>1, <1>2, WFMin
<1>4. PICK ar \in W : \A y \in Tails : ~ (<<y, After(ar)>> \in StrictSubsetOrdering(Areas))
  BY <1>3
<1>5. ASSUME NEW other \in W, ar < other
      PROVE  FALSE
  <2>1. After(other) \subseteq After(ar)
    <3>1. ar \in Nat /\ other \in Nat /\ \A x \in Areas : x \in Nat
      BY NetworkAssumption
    <3>2. \A x \in Areas : other < x => ar < x
      BY <1>5, <3>1
    <3> QED
      BY <3>2
  <2>2. other \in After(ar) /\ other \notin After(other)
    BY <1>5, NetworkAssumption
  <2>3. After(other) # After(ar)
    BY <2>2
  <2>4. <<After(other), After(ar)>> \in StrictSubsetOrdering(Areas)
    <3>1. After(other) \in SUBSET Areas /\ After(ar) \in SUBSET Areas
      OBVIOUS
    <3> HIDE DEF After
    <3> QED
      BY <2>1, <2>3, <3>1 DEF StrictSubsetOrdering
  <2> QED
    BY <1>4, <2>4
<1> QED
  BY <1>5

(* Who waits in a circle waits for an area that comes before the one its    *)
(* holder waits for: the last of those areas has no such holder.            *)
LEMMA OrderedLocksNeverCircle ==
    ASSUME NetworkInv
    PROVE  NoLockCycle
<1> SUFFICES ASSUME NEW circle \in SUBSET Admins, circle # {},
                    \A a \in circle : \E ar \in Areas :
                        IsNextToLock(admin[a], ar) /\ lockedBy[ar] \in circle
             PROVE  FALSE
  BY DEF NoLockCycle
<1> DEFINE W == { ar \in Areas : lockedBy[ar] \in circle /\
                      \E a \in circle : IsNextToLock(admin[a], ar) }
<1>1. W \in SUBSET Areas /\ W # {}
  OBVIOUS
<1>2. PICK ar \in W : \A other \in W : ~ (ar < other)
  <2> HIDE DEF W
  <2> QED
    BY <1>1, LastArea
<1>3. lockedBy[ar] \in circle
  OBVIOUS
<1>4. PICK next \in Areas : IsNextToLock(admin[lockedBy[ar]], next) /\ lockedBy[next] \in circle
  BY <1>3
<1>5. next \in W
  BY <1>3, <1>4
<1>6. ar < next
  BY <1>3, <1>4 DEF NetworkInv, LocksInOrder, IsNextToLock
<1> QED
  BY <1>2, <1>5, <1>6

(* However many administrators ask for areas in whatever order, they never  *)
(* wait for one another in a circle.                                        *)
THEOREM NeverALockCycle == Spec => []NoLockCycle
<1> QED
  BY OrderedLocksNeverCircle, NetworkAlways, PTL

-------------------------------------------------------------------------------
(* What a member of staff who settles an issue has done so far: the money   *)
(* is given before the issue is called credited, and never taken back.      *)
Settles(my) ==
    /\ my.pc \in {"credit", "resolve"} => my.issue \in Issues
    /\ my.pc = "credit" => my.cmd = "credit"
    /\ my.pc = "resolve" /\ my.cmd = "credit" => credits[my.issue] > 0

IssuesTyped ==
    /\ staff \in [Staff -> StaffLocal]
    /\ issues \in [Issues -> IssueStatus]
    /\ credits \in [Issues -> Nat]

CreditInv == IssuesTyped /\ (\A s \in Staff : Settles(staff[s])) /\ CreditedHasMoney

(* Who has no command is not about to call an issue credited.               *)
LEMMA RestingSettlesNothing ==
    StaffResting \in StaffLocal /\ StaffResting.pc = "idle"
BY CalendarAssumption DEF StaffResting, StaffLocal, PipelineStage, Dates

(* A step of one member of staff that takes no credit back.                 *)
LEMMA OneSettles ==
    ASSUME CreditInv, NEW s \in Staff, NEW new \in StaffLocal,
           staff' = [staff EXCEPT ![s] = new],
           issues' \in [Issues -> IssueStatus], credits' \in [Issues -> Nat],
           \A i \in Issues : credits'[i] >= credits[i],
           \A i \in Issues : issues'[i] = "credited" => credits'[i] > 0,
           Settles(new)'
    PROVE  CreditInv'
<1>1. \A t \in Staff : staff'[t] = IF t = s THEN new ELSE staff[t]
  BY DEF CreditInv, IssuesTyped
<1>2. IssuesTyped'
  BY DEF CreditInv, IssuesTyped
<1>3. ASSUME NEW t \in Staff
      PROVE  Settles(staff[t])'
  <2>1. CASE t = s
    BY <1>1, <2>1 DEF Settles
  <2>2. CASE t # s
    <3>1. staff'[t] = staff[t] /\ Settles(staff[t])
      BY <1>1, <2>2 DEF CreditInv
    <3> QED
      BY <3>1 DEF Settles, CreditInv, IssuesTyped
  <2> QED
    BY <2>1, <2>2
<1>4. CreditedHasMoney'
  BY DEF CreditedHasMoney
<1> QED
  BY <1>2, <1>3, <1>4 DEF CreditInv

(* A command of the staff that begins has credited nothing yet.             *)
LEMMA BeginStaffSettles ==
    ASSUME CreditInv, NEW s \in Staff, NEW cmd \in {"advance", "mark", "credit", "reject"},
           NEW pc \in {"write", "credit", "resolve"}, NEW d \in Dates,
           NEW stage \in PipelineStage, NEW u \in Customers \cup {NoCustomer},
           NEW i \in Issues \cup {NoIssue},
           pc \in {"credit", "resolve"} => i \in Issues,
           pc = "credit" => cmd = "credit", pc = "resolve" => cmd # "credit",
           BeginStaff(s, cmd, pc, d, stage, u, i), UNCHANGED <<issues, credits>>
    PROVE  CreditInv'
<1> DEFINE new == [cmd |-> cmd, pc |-> pc, date |-> d, toStage |-> stage,
                   customer |-> u, issue |-> i]
<1>1. staff' = [staff EXCEPT ![s] = new]
  BY DEF BeginStaff
<1>2. new \in StaffLocal
  BY DEF StaffLocal
<1>3. Settles(new)'
  BY DEF Settles
<1>4. /\ issues' \in [Issues -> IssueStatus] /\ credits' \in [Issues -> Nat]
      /\ \A x \in Issues : credits'[x] >= credits[x]
      /\ \A x \in Issues : issues'[x] = "credited" => credits'[x] > 0
  BY DEF CreditInv, IssuesTyped, CreditedHasMoney
<1> HIDE DEF new
<1> QED
  BY <1>1, <1>2, <1>3, <1>4, OneSettles

(* The statements of the staff on an issue.                                 *)
LEMMA EndStaffSettles ==
    ASSUME CreditInv, NEW s \in Staff, EndStaff(s),
           issues' \in [Issues -> IssueStatus], credits' = credits,
           \A i \in Issues : issues'[i] = "credited" => credits[i] > 0
    PROVE  CreditInv'
<1>1. Settles(StaffResting)'
  BY RestingSettlesNothing DEF Settles
<1>2. credits' \in [Issues -> Nat] /\ \A i \in Issues : credits'[i] >= credits[i]
  BY DEF CreditInv, IssuesTyped
<1> QED
  BY <1>1, <1>2, RestingSettlesNothing, OneSettles DEF EndStaff

(* Other commands that begin take no credit back.                           *)
LEMMA BeginServiceSettles ==
    ASSUME CreditInv, BeginService
    PROVE  CreditInv'
<1> USE DEF PipelineStage
<1>0. 1 \in Dates
  BY CalendarAssumption DEF Dates
<1>1. CASE \E s \in Staff, d \in Dates : \E from, to \in PipelineStage :
             BeginAdvancePipelineStage(s, d, from, to)
  BY <1>1, BeginStaffSettles DEF BeginAdvancePipelineStage, aftercare
<1>2. CASE \E s \in Staff, d \in Dates : \E u \in Customers : BeginMarkDeliveryDelivered(s, u, d)
  BY <1>2, BeginStaffSettles DEF BeginMarkDeliveryDelivered, aftercare
<1>3. CASE \E s \in Staff, i \in Issues :
             BeginCreditDeliveryIssue(s, i) \/ BeginRejectDeliveryIssue(s, i)
  BY <1>0, <1>3, BeginStaffSettles
     DEF BeginCreditDeliveryIssue, BeginRejectDeliveryIssue, aftercare
<1>4. CASE \E u \in Customers, i \in Issues : SubmitDeliveryIssue(u, i)
  BY <1>4 DEF SubmitDeliveryIssue, service, CreditInv, IssuesTyped, IssueStatus, Settles,
              CreditedHasMoney
<1>5. CASE UNCHANGED <<staff, issues, credits>>
  BY <1>5 DEF CreditInv, IssuesTyped, Settles, CreditedHasMoney
<1> QED
  BY <1>1, <1>2, <1>3, <1>4, <1>5
     DEF BeginService, ForcePipelineLock, SubmitMealRating, DayChanges, aftercare, service

(* Nor do their statements.                                                 *)
LEMMA ContinueServiceSettles ==
    ASSUME CreditInv, NEW s \in Staff,
           \/ AdvanceStage(s) \/ MarkDeliveryDelivered(s)
           \/ CreditIssueToWallet(s) \/ ResolveIssue(s)
    PROVE  CreditInv'
<1>1. CASE AdvanceStage(s) \/ MarkDeliveryDelivered(s)
  BY <1>1, EndStaffSettles
     DEF AdvanceStage, MarkDeliveryDelivered, aftercare, CreditInv, IssuesTyped, CreditedHasMoney
<1>2. PICK my \in StaffLocal : my = staff[s] /\ Settles(my)
  BY DEF CreditInv, IssuesTyped
<1>3. CASE CreditIssueToWallet(s)
  <2> DEFINE new == [my EXCEPT !.pc = "resolve"]
  <2>1. /\ my.pc = "credit" /\ my.cmd = "credit" /\ my.issue \in Issues
        /\ credits' = [credits EXCEPT ![my.issue] = @ + 1]
        /\ staff' = [staff EXCEPT ![s] = new]
        /\ issues' = issues
    BY <1>2, <1>3 DEF CreditIssueToWallet, Settles
  <2>2. /\ new \in StaffLocal /\ new.pc = "resolve"
        /\ new.issue = my.issue
    BY DEF StaffLocal
  <2>3. /\ credits' \in [Issues -> Nat] /\ issues' \in [Issues -> IssueStatus]
        /\ \A i \in Issues : credits'[i] >= credits[i]
        /\ credits'[my.issue] > 0
    BY <2>1 DEF CreditInv, IssuesTyped
  <2>4. \A i \in Issues : issues'[i] = "credited" => credits'[i] > 0
    BY <2>1, <2>3 DEF CreditInv, CreditedHasMoney, IssuesTyped
  <2> HIDE DEF new
  <2>5. Settles(new)'
    BY <2>1, <2>2, <2>3 DEF Settles
  <2> QED
    BY <2>1, <2>2, <2>3, <2>4, <2>5, OneSettles
<1>4. CASE ResolveIssue(s)
  <2>1. /\ my.pc = "resolve" /\ EndStaff(s) /\ credits' = credits
        /\ issues' = [issues EXCEPT ![my.issue] = IF my.cmd = "credit" THEN "credited"
                                                  ELSE "rejected"]
    BY <1>2, <1>4 DEF ResolveIssue
  <2>2. my.issue \in Issues /\ (my.cmd = "credit" => credits[my.issue] > 0)
    BY <1>2, <2>1 DEF Settles
  <2>3. /\ issues' \in [Issues -> IssueStatus]
        /\ \A i \in Issues : issues'[i] = "credited" => credits[i] > 0
    BY <2>1, <2>2 DEF CreditInv, IssuesTyped, IssueStatus, CreditedHasMoney
  <2> QED
    BY <2>1, <2>3, EndStaffSettles
<1> QED
  BY <1>1, <1>3, <1>4

(* Every step keeps the invariant of the credits.                           *)
LEMMA CreditStep ==
    ASSUME CreditInv, [Next]_vars
    PROVE  CreditInv'
<1>1. CASE BeginService
  BY <1>1, BeginServiceSettles
<1>2. CASE ContinueService
  BY <1>2, ContinueServiceSettles DEF ContinueService
<1>3. CASE Restart
  BY <1>3, RestingSettlesNothing
     DEF Restart, aftercare, CreditInv, IssuesTyped, Settles, CreditedHasMoney
<1>4. CASE UNCHANGED <<staff, issues, credits>>
  BY <1>4 DEF CreditInv, IssuesTyped, Settles, CreditedHasMoney
<1>5. BeginService \/ ContinueService \/ Restart \/ UNCHANGED <<staff, issues, credits>>
  BY DEF Next, Command, Continue, Expiry, PlanExpires, Tick, vars, service, aftercare
<1> QED
  BY <1>1, <1>2, <1>3, <1>4, <1>5

(* A member of staff, another one and a restart between two statements      *)
(* never leave an issue called credited whose customer got no money.        *)
THEOREM AlwaysCreditedHasMoney == Spec => []CreditedHasMoney
<1>1. Init => CreditInv
  BY RestingSettlesNothing
     DEF Init, CreditInv, IssuesTyped, Settles, IssueStatus, CreditedHasMoney
<1>2. CreditInv => CreditedHasMoney
  BY DEF CreditInv
<1> QED
  BY <1>1, <1>2, CreditStep, PTL DEF Spec

-------------------------------------------------------------------------------
(* The stops of a day: the customers' addresses, the drivers who go there   *)
(* and the stages of the day.                                               *)
(*                                                                         *)
(* A customer's command writes its addresses statement by statement, so the *)
(* inductive invariant says what it may rely on in between: the address it  *)
(* named is there (MoveHolds), no address is the primary one while it is    *)
(* between taking the mark from one and giving it to another (PrimaryHolds), *)
(* and the building it checked has not changed its area, though it may have *)
(* been removed (BuildingHolds).                                            *)

AddressTyped ==
    /\ buildings \in [Buildings -> Areas \cup {NoArea, Removed}]
    /\ locations \in [Customers -> Rows]
    /\ mover \in [Customers -> MoverLocal]

MoveHolds(my, rows) ==
    /\ my.cmd = "idle" <=> my.pc = "idle"
    /\ my.cmd = "save" => /\ my.pc \in {"unset", "create"} /\ my.area \in Areas
                          /\ MaxLocations \notin DOMAIN rows
    /\ my.cmd = "primary" => my.pc \in {"unset", "set"} /\ my.id \in DOMAIN rows
    /\ my.cmd = "update" => my.pc = "write" /\ my.area \in Areas /\ my.id \in DOMAIN rows
    /\ my.cmd = "delete" => /\ my.pc \in {"destroy", "promote"}
                            /\ my.pc = "destroy" => my.id \in DOMAIN rows

(* No address is marked when the command has yet to mark one.               *)
YetToMark == {"create", "set", "promote"}

PrimaryHolds(my, rows) ==
    /\ \A i, j \in DOMAIN rows : rows[i].isPrimary /\ rows[j].isPrimary => i = j
    /\ my.pc \in YetToMark => \A i \in DOMAIN rows : ~rows[i].isPrimary
    /\ my.pc \notin YetToMark /\ ~my.failed /\ DOMAIN rows # {} =>
           \E i \in DOMAIN rows : rows[i].isPrimary

BuildingHolds(my, rows, areaOf) ==
    my.building # NoBuilding =>
        /\ my.cmd = "save" => areaOf[my.building] \in {my.area, Removed}
        /\ my.cmd = "update" => \/ areaOf[my.building] \in {my.area, Removed}
                                \/ my.building = rows[my.id].building

AddressInv ==
    /\ AddressTyped
    /\ \A u \in Customers : /\ MoveHolds(mover[u], locations[u])
                            /\ PrimaryHolds(mover[u], locations[u])
                            /\ BuildingHolds(mover[u], locations[u], buildings)

-------------------------------------------------------------------------------
(* The rows of a customer are a function from some ids.                     *)
LEMMA RowsAreFunctions ==
    ASSUME NEW rows \in Rows
    PROVE  /\ DOMAIN rows \subseteq 1 .. MaxLocations
           /\ rows \in [DOMAIN rows -> Location]
           /\ \A i \in DOMAIN rows : rows[i] \in Location
BY DEF Rows

(* Any function from some ids to addresses is rows of a customer.           *)
LEMMA FunctionsAreRows ==
    ASSUME NEW ids \in SUBSET (1 .. MaxLocations), NEW rows \in [ids -> Location]
    PROVE  rows \in Rows /\ DOMAIN rows = ids
BY DEF Rows

(* The newest address of some.                                              *)
LEMMA NewestIsThere ==
    ASSUME NEW ids \in SUBSET (1 .. MaxLocations)
    PROVE  /\ ids # {} => Max(ids) \in ids
           /\ Max({0} \cup ids) \in {0} \cup ids
           /\ \A i \in ids : i <= Max({0} \cup ids)
<1>1. ids \in SUBSET Int /\ {0} \cup ids \in SUBSET Int
  BY AddressesAssumption
<1>2. IsFiniteSet(ids)
  <2>1. IsFiniteSet(1 .. MaxLocations)
    BY AddressesAssumption, FS_Interval
  <2> QED
    BY <2>1, FS_Subset
<1>3. IsFiniteSet({0} \cup ids)
  BY <1>2, FS_EmptySet, FS_AddElement
<1>4. ids # {} => Max(ids) \in ids
  BY <1>1, <1>2, MaxIsMember
<1>5. Max({0} \cup ids) \in {0} \cup ids /\ \A i \in {0} \cup ids : i <= Max({0} \cup ids)
  <2> DEFINE all == {0} \cup ids
  <2>1. all \in SUBSET Int /\ IsFiniteSet(all) /\ all # {}
    BY <1>1, <1>3
  <2> HIDE DEF all
  <2>2. Max(all) \in all /\ \A i \in all : i <= Max(all)
    BY <2>1, MaxIsMember
  <2> QED
    BY <2>2 DEF all
<1> QED
  BY <1>4, <1>5

(* One statement, or one decision, of one customer's command.               *)
LEMMA OneMoves ==
    ASSUME AddressInv, NEW u \in Customers, NEW new \in MoverLocal, NEW rows \in Rows,
           mover' = [mover EXCEPT ![u] = new], locations' = [locations EXCEPT ![u] = rows],
           buildings' = buildings, MoveHolds(new, rows), PrimaryHolds(new, rows),
           BuildingHolds(new, rows, buildings)
    PROVE  AddressInv'
<1>1. AddressTyped'
  BY DEF AddressInv, AddressTyped
<1>2. \A v \in Customers : /\ mover'[v] = IF v = u THEN new ELSE mover[v]
                           /\ locations'[v] = IF v = u THEN rows ELSE locations[v]
  BY DEF AddressInv, AddressTyped
<1>3. ASSUME NEW v \in Customers
      PROVE  /\ MoveHolds(mover'[v], locations'[v])
             /\ PrimaryHolds(mover'[v], locations'[v])
             /\ BuildingHolds(mover'[v], locations'[v], buildings')
  BY <1>2 DEF AddressInv
<1> QED
  BY <1>1, <1>3 DEF AddressInv

(* A command begins: it has found the address it names.                     *)
LEMMA BeginMoveKeeps ==
    ASSUME AddressInv, NEW u \in Customers, NEW cmd, NEW pc, NEW id \in 0 .. MaxLocations,
           NEW ar \in Areas \cup {NoArea}, NEW b \in Buildings \cup {NoBuilding},
           BeginMove(u, cmd, pc, id, ar, b),
           \/ /\ cmd = "save" /\ pc = "unset" /\ ar \in Areas
              /\ MaxLocations \notin DOMAIN locations[u]
              /\ b # NoBuilding => buildings[b] = ar
           \/ cmd = "primary" /\ pc = "unset" /\ id \in DOMAIN locations[u]
           \/ /\ cmd = "update" /\ pc = "write" /\ ar \in Areas /\ id \in DOMAIN locations[u]
              /\ b # NoBuilding => buildings[b] = ar \/ b = locations[u][id].building
           \/ cmd = "delete" /\ pc = "destroy" /\ id \in DOMAIN locations[u]
    PROVE  AddressInv'
<1> DEFINE old == mover[u]
           rows == locations[u]
           new == [cmd |-> cmd, pc |-> pc, id |-> id, area |-> ar, building |-> b,
                   failed |-> old.failed]
<1>1. /\ mover' = [mover EXCEPT ![u] = new] /\ old.cmd = "idle"
      /\ buildings' = buildings /\ locations' = locations
  BY DEF BeginMove
<1>2. /\ old \in MoverLocal /\ rows \in Rows
      /\ MoveHolds(old, rows) /\ PrimaryHolds(old, rows)
      /\ locations = [locations EXCEPT ![u] = rows]
  BY DEF AddressInv, AddressTyped
<1>3. new \in MoverLocal
  BY <1>2 DEF MoverLocal
<1>4. /\ new.cmd = cmd /\ new.pc = pc /\ new.id = id /\ new.area = ar /\ new.building = b
      /\ new.failed = old.failed
  OBVIOUS
<1> HIDE DEF new, old
<1>5. MoveHolds(new, rows)
  BY <1>4 DEF MoveHolds
<1>6. PrimaryHolds(new, rows)
  BY <1>1, <1>2, <1>4 DEF MoveHolds, PrimaryHolds, YetToMark
<1>7. BuildingHolds(new, rows, buildings)
  BY <1>4 DEF BuildingHolds
<1> HIDE DEF rows
<1> QED
  BY <1>1, <1>2, <1>3, <1>5, <1>6, <1>7, OneMoves

(* A command that begins has read what is so at that moment.                *)
LEMMA BeginAddressKeeps ==
    ASSUME AddressInv, BeginAddress
    PROVE  AddressInv'
<1>1. ASSUME NEW b \in Buildings, DeleteBuilding(b) \/ \E ar \in Areas : AddBuilding(b, ar)
      PROVE  AddressInv'
  <2> USE DEF AddressInv, AddressTyped
  <2>1. /\ locations' = locations /\ mover' = mover
        /\ \E to \in Areas \cup {Removed} : buildings' = [buildings EXCEPT ![b] = to]
        /\ buildings'[b] = Removed \/ buildings[b] = NoArea
    BY <1>1 DEF DeleteBuilding, AddBuilding
  <2>2. /\ buildings' \in [Buildings -> Areas \cup {NoArea, Removed}]
        /\ \A c \in Buildings :
               c # b => buildings'[c] = buildings[c]
    BY <2>1
  <2>3. ASSUME NEW u \in Customers
        PROVE  BuildingHolds(mover'[u], locations'[u], buildings')
    <3>1. /\ mover[u] \in MoverLocal /\ BuildingHolds(mover[u], locations[u], buildings)
          /\ MoveHolds(mover[u], locations[u])
      OBVIOUS
    <3>2. mover[u].building \in Buildings \cup {NoBuilding}
      BY <3>1 DEF MoverLocal
    <3> QED
      BY <2>1, <2>2, <3>1, <3>2, AddressesAssumption DEF BuildingHolds, MoveHolds
  <2> QED
    BY <2>1, <2>2, <2>3
<1>2. ASSUME NEW u \in Customers, NEW b \in Buildings \cup {NoBuilding}, NEW ar \in Areas,
             BeginSaveDeliveryLocation(u, ar, b)
      PROVE  AddressInv'
  <2>1. /\ BeginMove(u, "save", "unset", 0, ar, b) /\ MaxLocations \notin DOMAIN locations[u]
        /\ b # NoBuilding => buildings[b] = ar
    BY <1>2 DEF BeginSaveDeliveryLocation, MaySaveLocation
  <2>2. 0 \in 0 .. MaxLocations /\ ar \in Areas \cup {NoArea}
    BY AddressesAssumption
  <2> QED
    BY <2>1, <2>2, BeginMoveKeeps
<1>3. ASSUME NEW u \in Customers, NEW b \in Buildings \cup {NoBuilding},
             NEW ar \in Areas \cup {NoArea}, NEW i \in 1 .. MaxLocations,
             BeginUpdateDeliveryLocation(u, i, ar, b)
      PROVE  AddressInv'
  <2> DEFINE old == locations[u][i]
             to == IF ar = NoArea THEN old.area ELSE ar
             newBuilding == IF b = NoBuilding THEN old.building ELSE b
  <2>1. /\ i \in DOMAIN locations[u] /\ BeginMove(u, "update", "write", i, to, newBuilding)
        /\ b # NoBuilding => buildings[b] = to
    BY <1>3 DEF BeginUpdateDeliveryLocation
  <2>2. old \in Location
    BY <2>1, RowsAreFunctions DEF AddressInv, AddressTyped
  <2>3. to \in Areas /\ newBuilding \in Buildings \cup {NoBuilding}
    BY <2>2 DEF Location
  <2>4. newBuilding # NoBuilding => buildings[newBuilding] = to \/ newBuilding = old.building
    BY <2>1
  <2>5. i \in 0 .. MaxLocations
    BY AddressesAssumption
  <2> HIDE DEF to, newBuilding
  <2> QED
    BY <2>1, <2>3, <2>4, <2>5, BeginMoveKeeps
<1>4. ASSUME NEW u \in Customers, NEW i \in 1 .. MaxLocations,
             BeginSetPrimaryDeliveryLocation(u, i) \/ BeginDeleteDeliveryLocation(u, i)
      PROVE  AddressInv'
  <2>1. /\ i \in DOMAIN locations[u]
        /\ \/ BeginMove(u, "primary", "unset", i, NoArea, NoBuilding)
           \/ BeginMove(u, "delete", "destroy", i, NoArea, NoBuilding)
    BY <1>4 DEF BeginSetPrimaryDeliveryLocation, BeginDeleteDeliveryLocation
  <2>2. i \in 0 .. MaxLocations
    BY AddressesAssumption
  <2>3. NoArea \in Areas \cup {NoArea} /\ NoBuilding \in Buildings \cup {NoBuilding}
    OBVIOUS
  <2>4. CASE BeginMove(u, "primary", "unset", i, NoArea, NoBuilding)
    BY <2>1, <2>2, <2>3, <2>4, BeginMoveKeeps
  <2>5. CASE BeginMove(u, "delete", "destroy", i, NoArea, NoBuilding)
    BY <2>1, <2>2, <2>3, <2>5, BeginMoveKeeps
  <2> QED
    BY <2>1, <2>4, <2>5
<1> QED
  BY <1>1, <1>2, <1>3, <1>4 DEF BeginAddress

(* What is left of a command after a step, at its end and when it is cut    *)
(* short.                                                                   *)
LEMMA StepMoved ==
    ASSUME AddressInv, NEW u \in Customers,
           NEW pc \in {"idle", "create", "set", "promote"}, StepMove(u, pc)
    PROVE  \E new \in MoverLocal :
               /\ mover' = [mover EXCEPT ![u] = new]
               /\ new.pc = pc /\ new.cmd = IF pc = "idle" THEN "idle" ELSE mover[u].cmd
               /\ new.id = mover[u].id /\ new.area = mover[u].area
               /\ new.building = mover[u].building /\ new.failed = mover[u].failed
<1> DEFINE my == mover[u]
           new == [my EXCEPT !.pc = pc, !.cmd = IF pc = "idle" THEN "idle" ELSE @]
<1>1. my \in MoverLocal /\ mover \in [Customers -> MoverLocal]
  BY DEF AddressInv, AddressTyped
<1>2. mover' = [mover EXCEPT ![u] = new]
  BY <1>1 DEF StepMove, MoverLocal
<1> HIDE DEF my
<1>3. /\ new \in MoverLocal
      /\ new.pc = pc /\ new.cmd = IF pc = "idle" THEN "idle" ELSE my.cmd
      /\ new.id = my.id /\ new.area = my.area
      /\ new.building = my.building /\ new.failed = my.failed
  BY <1>1 DEF MoverLocal
<1> HIDE DEF new
<1> QED
  BY <1>2, <1>3 DEF my

(* A command that ends, with the rows in order.                             *)
LEMMA MoveEnded ==
    ASSUME AddressInv, NEW u \in Customers, EndMove(u)
    PROVE  \E new \in MoverLocal :
               /\ mover' = [mover EXCEPT ![u] = new]
               /\ new.pc = "idle" /\ new.cmd = "idle"
<1> DEFINE my == mover[u]
           new == [my EXCEPT !.pc = "idle", !.cmd = "idle", !.failed = FALSE]
<1>1. my \in MoverLocal /\ mover \in [Customers -> MoverLocal]
  BY DEF AddressInv, AddressTyped
<1>2. mover' = [mover EXCEPT ![u] = new]
  BY <1>1 DEF EndMove, MoverLocal
<1>3. new \in MoverLocal /\ new.pc = "idle" /\ new.cmd = "idle"
  BY <1>1 DEF MoverLocal
<1> HIDE DEF new
<1> QED
  BY <1>2, <1>3

(* A command that is cut short reads and holds nothing any more; that its   *)
(* statement is missing is noted in failed.                                 *)
LEMMA CutShort ==
    ASSUME AddressInv, NEW u \in Customers
    PROVE  /\ Interrupted(u) \in MoverLocal
           /\ Interrupted(u).pc = "idle" /\ Interrupted(u).cmd = "idle"
           /\ MoveHolds(Interrupted(u), locations[u])
           /\ PrimaryHolds(Interrupted(u), locations[u])
           /\ BuildingHolds(Interrupted(u), locations[u], buildings)
<1>1. mover[u] \in MoverLocal /\ PrimaryHolds(mover[u], locations[u])
  BY DEF AddressInv, AddressTyped
<1>2. /\ Interrupted(u) \in MoverLocal
      /\ Interrupted(u).pc = "idle" /\ Interrupted(u).cmd = "idle"
      /\ Interrupted(u).failed = (mover[u].failed \/ mover[u].pc \in YetToMark)
  BY <1>1 DEF Interrupted, MoverLocal, YetToMark
<1>3. PrimaryHolds(Interrupted(u), locations[u])
  BY <1>1, <1>2 DEF PrimaryHolds, YetToMark
<1>4. /\ MoveHolds(Interrupted(u), locations[u])
      /\ BuildingHolds(Interrupted(u), locations[u], buildings)
  BY <1>2 DEF MoveHolds, BuildingHolds
<1> QED
  BY <1>2, <1>3, <1>4

(* A command that ends leaves any rows with one primary address, or none.   *)
LEMMA EndKeepsAddresses ==
    ASSUME AddressInv, NEW u \in Customers, EndMove(u), buildings' = buildings,
           NEW rows \in Rows, locations' = [locations EXCEPT ![u] = rows],
           \A i, j \in DOMAIN rows : rows[i].isPrimary /\ rows[j].isPrimary => i = j,
           DOMAIN rows # {} => \E i \in DOMAIN rows : rows[i].isPrimary
    PROVE  AddressInv'
<1>1. PICK new \in MoverLocal : /\ mover' = [mover EXCEPT ![u] = new]
                                /\ new.pc = "idle" /\ new.cmd = "idle"
  BY MoveEnded
<1>2. MoveHolds(new, rows) /\ PrimaryHolds(new, rows) /\ BuildingHolds(new, rows, buildings)
  BY <1>1 DEF MoveHolds, PrimaryHolds, BuildingHolds, YetToMark
<1> QED
  BY <1>1, <1>2, OneMoves

(* The first statement: no address of the user is primary.                  *)
LEMMA UnsetKeeps ==
    ASSUME AddressInv, NEW u \in Customers, UnsetPrimary(u)
    PROVE  AddressInv'
<1> DEFINE my == mover[u]
           old == locations[u]
           rows == [i \in DOMAIN old |-> [old[i] EXCEPT !.isPrimary = FALSE]]
           next == IF my.cmd = "save" THEN "create" ELSE "set"
<1>1. /\ my.pc = "unset" /\ buildings' = buildings
      /\ locations' = [locations EXCEPT ![u] = rows]
      /\ StepMove(u, next)
  BY DEF UnsetPrimary, AddressInv, AddressTyped
<1>2. /\ my \in MoverLocal /\ old \in Rows /\ MoveHolds(my, old)
      /\ BuildingHolds(my, old, buildings)
  BY DEF AddressInv, AddressTyped
<1>3. PICK new \in MoverLocal :
          /\ mover' = [mover EXCEPT ![u] = new]
          /\ new.pc = next /\ new.cmd = my.cmd
          /\ new.id = my.id /\ new.area = my.area
          /\ new.building = my.building /\ new.failed = my.failed
  BY <1>1, StepMoved
<1>4. my.cmd \in {"save", "primary"}
  BY <1>1, <1>2 DEF MoveHolds, MoverLocal
<1> HIDE DEF my, old
<1>5. /\ rows \in Rows /\ DOMAIN rows = DOMAIN old
      /\ \A i \in DOMAIN rows : ~rows[i].isPrimary
  <2>1. DOMAIN old \in SUBSET (1 .. MaxLocations) /\ \A i \in DOMAIN old : old[i] \in Location
    BY <1>2, RowsAreFunctions
  <2>2. rows \in [DOMAIN old -> Location] /\ \A i \in DOMAIN rows : ~rows[i].isPrimary
    BY <2>1 DEF Location
  <2> HIDE DEF rows
  <2> QED
    BY <2>1, <2>2, FunctionsAreRows
<1> HIDE DEF rows
<1>6. MoveHolds(new, rows) /\ PrimaryHolds(new, rows)
  BY <1>2, <1>3, <1>4, <1>5 DEF MoveHolds, PrimaryHolds, YetToMark
<1>7. BuildingHolds(new, rows, buildings)
  BY <1>2, <1>3, <1>4 DEF BuildingHolds
<1> QED
  BY <1>1, <1>3, <1>5, <1>6, <1>7, OneMoves

(* The new row is numbered after the others and there is room for it.       *)
LEMMA CreateAdds ==
    ASSUME AddressInv, NEW u \in Customers, mover[u].pc = "create",
           BuildingMayBeReferred(mover[u].building),
           NEW rows,
           rows = [i \in DOMAIN locations[u] \cup {NewId(u)} |->
                      IF i \in DOMAIN locations[u] THEN locations[u][i]
                      ELSE [area |-> mover[u].area, building |-> mover[u].building,
                            isPrimary |-> TRUE]]
    PROVE  /\ rows \in Rows /\ NewId(u) \notin DOMAIN locations[u]
           /\ DOMAIN rows = DOMAIN locations[u] \cup {NewId(u)}
           /\ \A i \in DOMAIN locations[u] : rows[i] = locations[u][i] /\ ~rows[i].isPrimary
           /\ rows[NewId(u)].isPrimary /\ rows[NewId(u)].building = mover[u].building
           /\ rows[NewId(u)].area = mover[u].area
           /\ mover[u].building # NoBuilding => buildings[mover[u].building] = mover[u].area
<1> DEFINE my == mover[u]
           old == locations[u]
           row == [area |-> my.area, building |-> my.building, isPrimary |-> TRUE]
<1>1. /\ my \in MoverLocal /\ old \in Rows
      /\ MoveHolds(my, old) /\ PrimaryHolds(my, old) /\ BuildingHolds(my, old, buildings)
  BY DEF AddressInv, AddressTyped
<1>2. my.cmd = "save" /\ my.area \in Areas /\ MaxLocations \notin DOMAIN old
  BY <1>1 DEF MoveHolds, MoverLocal
<1>3. DOMAIN old \in SUBSET (1 .. MaxLocations) /\ \A i \in DOMAIN old : old[i] \in Location
  BY <1>1, RowsAreFunctions
<1>4. NewId(u) \in 1 .. MaxLocations /\ NewId(u) \notin DOMAIN old
  <2>1. /\ Max({0} \cup DOMAIN old) \in {0} \cup DOMAIN old
        /\ \A i \in DOMAIN old : i <= Max({0} \cup DOMAIN old)
    BY <1>3, NewestIsThere
  <2>2. Max({0} \cup DOMAIN old) \in 0 .. MaxLocations - 1
    BY <2>1, <1>2, <1>3, AddressesAssumption
  <2> DEFINE top == Max({0} \cup DOMAIN old)
  <2>3. NewId(u) = top + 1
    BY DEF NewId
  <2>4. top \in 0 .. MaxLocations - 1 /\ \A i \in DOMAIN old : i <= top
    BY <2>1, <2>2
  <2> HIDE DEF top
  <2> QED
    BY <2>3, <2>4, <1>3, AddressesAssumption
<1>5. /\ row \in Location /\ row.isPrimary /\ row.building = my.building
      /\ row.area = my.area
  BY <1>1, <1>2 DEF Location, MoverLocal
<1>6. rows = [i \in DOMAIN old \cup {NewId(u)} |-> IF i \in DOMAIN old THEN old[i] ELSE row]
  OBVIOUS
<1> HIDE DEF row
<1>7. DOMAIN old \cup {NewId(u)} \in SUBSET (1 .. MaxLocations)
  BY <1>3, <1>4
<1>8. rows \in [DOMAIN old \cup {NewId(u)} -> Location]
  BY <1>3, <1>5, <1>6
<1>9. rows \in Rows /\ DOMAIN rows = DOMAIN old \cup {NewId(u)}
  BY <1>7, <1>8, FunctionsAreRows
<1>10. \A i \in DOMAIN old : rows[i] = old[i] /\ ~rows[i].isPrimary
  BY <1>1, <1>6 DEF PrimaryHolds, YetToMark
<1>11. rows[NewId(u)] = row
  BY <1>4, <1>6
<1>12. my.building # NoBuilding => buildings[my.building] = my.area
  BY <1>1, <1>2 DEF BuildingHolds, BuildingMayBeReferred, IsBuilding
<1> QED
  BY <1>4, <1>5, <1>9, <1>10, <1>11, <1>12

(* The insert of an address.                                                *)
LEMMA CreateKeeps ==
    ASSUME AddressInv, NEW u \in Customers, CreateLocation(u)
    PROVE  AddressInv'
<1> DEFINE my == mover[u]
           rows == [i \in DOMAIN locations[u] \cup {NewId(u)} |->
                      IF i \in DOMAIN locations[u] THEN locations[u][i]
                      ELSE [area |-> mover[u].area, building |-> mover[u].building,
                            isPrimary |-> TRUE]]
<1>1. CASE /\ BuildingMayBeReferred(my.building)
           /\ locations' = [locations EXCEPT ![u] = rows] /\ EndMove(u)
  <2>1. my.pc = "create" /\ buildings' = buildings
    BY DEF CreateLocation
  <2>2. /\ rows \in Rows /\ NewId(u) \notin DOMAIN locations[u]
        /\ DOMAIN rows = DOMAIN locations[u] \cup {NewId(u)}
        /\ \A i \in DOMAIN locations[u] : ~rows[i].isPrimary
        /\ rows[NewId(u)].isPrimary
    BY <1>1, <2>1, CreateAdds
  <2> HIDE DEF rows
  <2> QED
    BY <1>1, <2>1, <2>2, EndKeepsAddresses
<1>2. CASE mover' = [mover EXCEPT ![u] = Interrupted(u)] /\ UNCHANGED <<locations, buildings>>
  <2>1. locations[u] \in Rows /\ locations' = [locations EXCEPT ![u] = locations[u]]
    BY <1>2 DEF AddressInv, AddressTyped
  <2> QED
    BY <1>2, <2>1, CutShort, OneMoves
<1> QED
  BY <1>1, <1>2 DEF CreateLocation, AddressInv, AddressTyped

(* Marking one of the rows when none is marked.                             *)
LEMMA MarkKeeps ==
    ASSUME AddressInv, NEW u \in Customers, mover[u].pc \in YetToMark, EndMove(u),
           buildings' = buildings, NEW i \in DOMAIN locations[u],
           locations' = [locations EXCEPT ![u][i].isPrimary = TRUE]
    PROVE  AddressInv'
<1> DEFINE old == locations[u]
           rows == [old EXCEPT ![i].isPrimary = TRUE]
<1>1. old \in Rows /\ PrimaryHolds(mover[u], old)
  BY DEF AddressInv, AddressTyped
<1>2. locations' = [locations EXCEPT ![u] = rows]
  BY DEF AddressInv, AddressTyped
<1> HIDE DEF old
<1>3. /\ DOMAIN old \in SUBSET (1 .. MaxLocations) /\ old \in [DOMAIN old -> Location]
      /\ i \in DOMAIN old
  BY <1>1, RowsAreFunctions DEF old
<1>4. rows \in [DOMAIN old -> Location]
  BY <1>3 DEF Location
<1>5. \A j \in DOMAIN old : rows[j].isPrimary <=> j = i
  BY <1>1, <1>3 DEF PrimaryHolds, Location
<1> HIDE DEF rows
<1>6. rows \in Rows /\ DOMAIN rows = DOMAIN old
  BY <1>3, <1>4, FunctionsAreRows
<1>7. /\ \A j, k \in DOMAIN rows : rows[j].isPrimary /\ rows[k].isPrimary => j = k
      /\ DOMAIN rows # {} => \E j \in DOMAIN rows : rows[j].isPrimary
  BY <1>3, <1>5, <1>6
<1> QED
  BY <1>2, <1>6, <1>7, EndKeepsAddresses

(* The address that was chosen becomes the primary one.                     *)
LEMMA SetKeeps ==
    ASSUME AddressInv, NEW u \in Customers, SetPrimary(u)
    PROVE  AddressInv'
<1>1. mover[u] \in MoverLocal /\ MoveHolds(mover[u], locations[u]) /\ mover[u].pc = "set"
  BY DEF AddressInv, AddressTyped, SetPrimary
<1>2. mover[u].id \in DOMAIN locations[u]
  BY <1>1 DEF MoveHolds, MoverLocal
<1> QED
  BY <1>1, <1>2, MarkKeeps DEF SetPrimary, YetToMark

(* After a deletion the oldest address that is left becomes primary.        *)
LEMMA PromoteKeeps ==
    ASSUME AddressInv, NEW u \in Customers, PromoteNewest(u)
    PROVE  AddressInv'
<1>1. /\ mover[u].pc = "promote" /\ EndMove(u) /\ buildings' = buildings
      /\ locations[u] \in Rows
  BY DEF AddressInv, AddressTyped, PromoteNewest
<1>2. CASE DOMAIN locations[u] = {}
  <2>1. locations' = [locations EXCEPT ![u] = locations[u]]
    BY <1>2 DEF PromoteNewest, AddressInv, AddressTyped
  <2> QED
    BY <1>1, <1>2, <2>1, EndKeepsAddresses
<1>3. CASE DOMAIN locations[u] # {}
  <2>1. DOMAIN locations[u] \in SUBSET (1 .. MaxLocations)
    BY <1>1, RowsAreFunctions
  <2>2. Max(DOMAIN locations[u]) \in DOMAIN locations[u]
    BY <1>3, <2>1, NewestIsThere
  <2>3. locations' = [locations EXCEPT ![u][Max(DOMAIN locations[u])].isPrimary = TRUE]
    BY <1>3 DEF PromoteNewest
  <2> QED
    BY <1>1, <2>2, <2>3, MarkKeeps DEF YetToMark
<1> QED
  BY <1>2, <1>3

(* What the update of an address writes.                                    *)
LEMMA UpdateWrites ==
    ASSUME AddressInv, NEW u \in Customers, UpdateLocation(u)
    PROVE  LET my == mover[u] IN
           /\ my.cmd = "update" /\ my.id \in DOMAIN locations[u]
           /\ locations'[u] \in Rows /\ locations' = [locations EXCEPT ![u] = locations'[u]]
           /\ DOMAIN locations'[u] = DOMAIN locations[u]
           /\ \A i \in DOMAIN locations[u] :
                  /\ locations'[u][i].isPrimary = locations[u][i].isPrimary
                  /\ \/ locations'[u][i] = locations[u][i]
                     \/ /\ locations'[u][i].area = my.area
                        /\ locations'[u][i].building = my.building
                        /\ i = my.id /\ BuildingMayBeReferred(my.building)
<1> DEFINE my == mover[u]
           old == locations[u]
           rows == [old EXCEPT ![my.id].area = my.area, ![my.id].building = my.building]
<1>1. my \in MoverLocal /\ old \in Rows /\ MoveHolds(my, old) /\ my.pc = "write"
  BY DEF AddressInv, AddressTyped, UpdateLocation
<1>2. my.cmd = "update" /\ my.area \in Areas /\ my.id \in DOMAIN old
  BY <1>1 DEF MoveHolds, MoverLocal
<1>3. my.building \in Buildings \cup {NoBuilding}
  BY <1>1 DEF MoverLocal
<1>4. DOMAIN old \in SUBSET (1 .. MaxLocations) /\ old \in [DOMAIN old -> Location]
  BY <1>1, RowsAreFunctions
<1>5. CASE ~BuildingMayBeReferred(my.building)
  BY <1>1, <1>2, <1>5 DEF UpdateLocation, AddressInv, AddressTyped
<1>6. CASE BuildingMayBeReferred(my.building)
  <2>1. /\ locations' = [locations EXCEPT ![u][my.id].area = my.area,
                                          ![u][my.id].building = my.building]
        /\ locations \in [Customers -> Rows]
    BY <1>6 DEF UpdateLocation, AddressInv, AddressTyped
  <2>2. locations' = [locations EXCEPT ![u] = rows]
    BY <2>1
  <2> HIDE DEF old, my
  <2>3. /\ rows \in [DOMAIN old -> Location]
        /\ \A i \in DOMAIN old :
               /\ rows[i].isPrimary = old[i].isPrimary
               /\ i # my.id => rows[i] = old[i]
               /\ i = my.id => rows[i].area = my.area /\ rows[i].building = my.building
    BY <1>2, <1>3, <1>4 DEF Location
  <2> HIDE DEF rows
  <2>4. rows \in Rows /\ DOMAIN rows = DOMAIN old
    BY <1>4, <2>3, FunctionsAreRows
  <2>5. locations'[u] = rows
    BY <2>1, <2>2
  <2> QED
    BY <1>2, <1>6, <2>2, <2>3, <2>4, <2>5 DEF old, my
<1> QED
  BY <1>5, <1>6

(* The update of an address.                                                *)
LEMMA UpdateKeeps ==
    ASSUME AddressInv, NEW u \in Customers, UpdateLocation(u)
    PROVE  AddressInv'
<1> DEFINE rows == locations'[u]
<1>1. /\ mover[u].pc = "write" /\ PrimaryHolds(mover[u], locations[u])
      /\ buildings' = buildings /\ StepMove(u, "idle")
  BY DEF AddressInv, UpdateLocation
<1>2. /\ rows \in Rows /\ locations' = [locations EXCEPT ![u] = rows]
      /\ DOMAIN rows = DOMAIN locations[u]
      /\ \A i \in DOMAIN locations[u] : rows[i].isPrimary = locations[u][i].isPrimary
  BY UpdateWrites
<1>3. PICK new \in MoverLocal : /\ mover' = [mover EXCEPT ![u] = new]
                                /\ new.pc = "idle" /\ new.cmd = "idle"
                                /\ new.failed = mover[u].failed
  BY <1>1, StepMoved
<1> HIDE DEF rows
<1>4. MoveHolds(new, rows) /\ BuildingHolds(new, rows, buildings)
  BY <1>3 DEF MoveHolds, BuildingHolds
<1>5. PrimaryHolds(new, rows)
  BY <1>1, <1>2, <1>3 DEF PrimaryHolds, YetToMark
<1> QED
  BY <1>1, <1>2, <1>3, <1>4, <1>5, OneMoves

(* The deletion of an address.                                              *)
LEMMA DestroyKeeps ==
    ASSUME AddressInv, NEW u \in Customers, DestroyLocation(u)
    PROVE  AddressInv'
<1> DEFINE my == mover[u]
           old == locations[u]
           rows == [i \in DOMAIN old \ {my.id} |-> old[i]]
           next == IF old[my.id].isPrimary THEN "promote" ELSE "idle"
<1>1. /\ my.pc = "destroy" /\ buildings' = buildings
      /\ locations' = [locations EXCEPT ![u] = rows]
      /\ StepMove(u, next)
  BY DEF DestroyLocation, AddressInv, AddressTyped
<1>2. /\ my \in MoverLocal /\ old \in Rows /\ MoveHolds(my, old)
      /\ PrimaryHolds(my, old)
  BY DEF AddressInv, AddressTyped
<1>3. PICK new \in MoverLocal :
          /\ mover' = [mover EXCEPT ![u] = new]
          /\ new.pc = next /\ new.cmd = IF next = "idle" THEN "idle" ELSE my.cmd
          /\ new.failed = my.failed
  BY <1>1, StepMoved
<1>4. my.cmd = "delete" /\ my.id \in DOMAIN old
  BY <1>1, <1>2 DEF MoveHolds, MoverLocal
<1> HIDE DEF my, old
<1>5. /\ rows \in Rows /\ DOMAIN rows = DOMAIN old \ {my.id}
      /\ \A i \in DOMAIN rows : rows[i] = old[i]
  <2>1. DOMAIN old \in SUBSET (1 .. MaxLocations) /\ \A i \in DOMAIN old : old[i] \in Location
    BY <1>2, RowsAreFunctions
  <2>2. /\ rows \in [DOMAIN old \ {my.id} -> Location]
        /\ \A i \in DOMAIN old \ {my.id} : rows[i] = old[i]
    BY <2>1
  <2>3. DOMAIN old \ {my.id} \in SUBSET (1 .. MaxLocations)
    BY <2>1
  <2> HIDE DEF rows
  <2> QED
    BY <2>2, <2>3, FunctionsAreRows
<1> HIDE DEF rows
<1>6. MoveHolds(new, rows) /\ BuildingHolds(new, rows, buildings)
  BY <1>3, <1>4 DEF MoveHolds, BuildingHolds
<1>7. PrimaryHolds(new, rows)
  <2>1. CASE old[my.id].isPrimary
    BY <1>2, <1>3, <1>4, <1>5, <2>1 DEF PrimaryHolds, YetToMark
  <2>2. CASE ~old[my.id].isPrimary
    BY <1>1, <1>2, <1>3, <1>4, <1>5, <2>2 DEF PrimaryHolds, YetToMark
  <2> QED
    BY <2>1, <2>2
<1> QED
  BY <1>1, <1>3, <1>5, <1>6, <1>7, OneMoves

-------------------------------------------------------------------------------
(* Every statement of a command on addresses.                               *)
LEMMA ContinueAddressKeeps ==
    ASSUME AddressInv, ContinueAddress
    PROVE  AddressInv'
BY UnsetKeeps, CreateKeeps, SetKeeps, UpdateKeeps, DestroyKeeps, PromoteKeeps
   DEF ContinueAddress

(* Every step of the service keeps the invariant of the addresses.          *)
LEMMA AddressStep ==
    ASSUME AddressInv, [Next]_vars
    PROVE  AddressInv'
<1>1. CASE Restart
  <2>1. /\ mover' = [u \in Customers |-> Interrupted(u)]
        /\ buildings' = buildings /\ locations' = locations
    BY <1>1 DEF Restart
  <2>2. AddressTyped'
    BY <2>1, CutShort DEF AddressInv, AddressTyped
  <2>3. ASSUME NEW u \in Customers
        PROVE  /\ MoveHolds(mover'[u], locations'[u])
               /\ PrimaryHolds(mover'[u], locations'[u])
               /\ BuildingHolds(mover'[u], locations'[u], buildings')
    <3>1. mover'[u] = Interrupted(u)
      BY <2>1
    <3> QED
      BY <2>1, <3>1, CutShort
  <2> QED
    BY <2>2, <2>3 DEF AddressInv
<1>2. CASE UNCHANGED addresses
  BY <1>2 DEF addresses, AddressInv, AddressTyped
<1>3. BeginAddress \/ ContinueAddress \/ Restart \/ UNCHANGED addresses
  BY DEF Next, Command, Continue, Expiry, Tick, vars
<1> QED
  BY <1>1, <1>2, <1>3, BeginAddressKeeps, ContinueAddressKeeps

(* It holds of the rows the service starts with.                            *)
LEMMA AddressInitially == Init => AddressInv
<1> SUFFICES ASSUME Init PROVE AddressInv
  OBVIOUS
<1> DEFINE idle == [cmd |-> "idle", pc |-> "idle", id |-> 0, area |-> NoArea,
                    building |-> NoBuilding, failed |-> FALSE]
<1>1. PICK start \in Starts : buildings = start.buildings /\ locations = start.locations
  BY DEF Init
<1>2. mover = [u \in Customers |-> idle]
  BY DEF Init
<1>3. idle \in MoverLocal /\ idle.cmd = "idle" /\ idle.pc = "idle"
  BY AddressesAssumption DEF MoverLocal
<1> HIDE DEF idle
<1>4. AddressTyped
  BY <1>1, <1>2, <1>3, StartsAssumption DEF AddressTyped
<1>5. ASSUME NEW u \in Customers
      PROVE  PrimaryHolds(mover[u], locations[u])
  BY <1>1, <1>2, <1>3, StartsAssumption DEF PrimaryHolds, YetToMark
<1>6. ASSUME NEW u \in Customers
      PROVE  /\ MoveHolds(mover[u], locations[u])
             /\ BuildingHolds(mover[u], locations[u], buildings)
  BY <1>2, <1>3 DEF MoveHolds, BuildingHolds
<1> QED
  BY <1>4, <1>5, <1>6 DEF AddressInv

(* The invariant of the addresses holds in every state, however the         *)
(* commands of the customers are interleaved and wherever they are cut      *)
(* short.                                                                   *)
THEOREM AddressesAlways == Spec => []AddressInv
<1> QED
  BY AddressInitially, AddressStep, PTL DEF Spec

-------------------------------------------------------------------------------
(* What is written in an address.                                           *)
LEMMA PrimaryIsOne ==
    ASSUME AddressInv, NEW u \in Customers
    PROVE  /\ PrimaryLocations(u) = {} \/ \E i \in DOMAIN locations[u] : PrimaryLocations(u) = {i}
           /\ Cardinality(PrimaryLocations(u)) <= 1
<1>1. PrimaryLocations(u) = {} \/ \E i \in DOMAIN locations[u] : PrimaryLocations(u) = {i}
  <2>1. PrimaryHolds(mover[u], locations[u])
    BY DEF AddressInv
  <2>2. ASSUME NEW i \in PrimaryLocations(u)
        PROVE  PrimaryLocations(u) = {i} /\ i \in DOMAIN locations[u]
    BY <2>1 DEF PrimaryHolds, PrimaryLocations
  <2> QED
    BY <2>2
<1>2. Cardinality({}) = 0 /\ \A i : Cardinality({i}) = 1
  BY FS_EmptySet, FS_Singleton
<1>3. Cardinality(PrimaryLocations(u)) \in {0, 1}
  BY <1>1, <1>2
<1> QED
  BY <1>1, <1>3

(* Only a new address and an update write the reference to a building.      *)
LEMMA BuildingStays ==
    ASSUME AddressInv, NEW v \in Customers,
           UnsetPrimary(v) \/ SetPrimary(v) \/ DestroyLocation(v) \/ PromoteNewest(v)
    PROVE  \A u \in Customers : \A i \in DOMAIN locations'[u] :
               /\ i \in DOMAIN locations[u]
               /\ locations'[u][i].building = locations[u][i].building
<1> DEFINE old == locations[v]
<1>1. /\ locations \in [Customers -> Rows] /\ old \in Rows
      /\ \A i \in DOMAIN old : old[i] \in Location
  BY RowsAreFunctions DEF AddressInv, AddressTyped
<1>2. CASE UnsetPrimary(v)
  <2> DEFINE rows == [i \in DOMAIN old |-> [old[i] EXCEPT !.isPrimary = FALSE]]
  <2>1. locations' = [locations EXCEPT ![v] = rows]
    BY <1>2 DEF UnsetPrimary
  <2>2. DOMAIN rows = DOMAIN old /\ \A i \in DOMAIN old : rows[i].building = old[i].building
    BY <1>1 DEF Location
  <2> HIDE DEF rows
  <2> QED
    BY <1>1, <2>1, <2>2
<1>3. CASE DestroyLocation(v)
  BY <1>1, <1>3 DEF DestroyLocation
<1>4. ASSUME NEW n, locations' = [locations EXCEPT ![v][n].isPrimary = TRUE]
      PROVE  \A u \in Customers : \A i \in DOMAIN locations'[u] :
                 /\ i \in DOMAIN locations[u]
                 /\ locations'[u][i].building = locations[u][i].building
  <2> DEFINE rows == [old EXCEPT ![n].isPrimary = TRUE]
  <2>1. locations' = [locations EXCEPT ![v] = rows]
    BY <1>1, <1>4
  <2>2. DOMAIN rows = DOMAIN old /\ \A i \in DOMAIN old : rows[i].building = old[i].building
    BY <1>1 DEF Location
  <2> HIDE DEF rows
  <2> QED
    BY <1>1, <2>1, <2>2
<1>5. CASE SetPrimary(v)
  BY <1>4, <1>5 DEF SetPrimary
<1>6. CASE PromoteNewest(v)
  BY <1>4, <1>6 DEF PromoteNewest
<1> QED
  BY <1>2, <1>3, <1>5, <1>6

(* A building newly written to an address is of the area written with it.   *)
LEMMA BuildingIsWritten ==
    ASSUME AddressInv, [Next]_vars
    PROVE  [NewBuildingIsOfArea]_vars
<1> SUFFICES ASSUME NEW u \in Customers, NEW i \in DOMAIN locations'[u],
                    i \in DOMAIN locations[u] =>
                        locations[u][i].building # locations'[u][i].building,
                    locations'[u][i].building # NoBuilding
             PROVE  buildings'[locations'[u][i].building] = locations'[u][i].area
  BY DEF NewBuildingIsOfArea
<1>1. locations \in [Customers -> Rows]
  BY DEF AddressInv, AddressTyped
<1>2. PICK v \in Customers : CreateLocation(v) \/ UpdateLocation(v)
  <2>1. CASE ContinueAddress
    BY <2>1, BuildingStays DEF ContinueAddress
  <2>2. CASE locations' = locations
    BY <2>2
  <2>3. ContinueAddress \/ locations' = locations
    BY DEF Next, Command, Continue, Expiry, Tick, Restart, vars, addresses, BeginAddress,
           DeleteBuilding, AddBuilding, BeginSaveDeliveryLocation, BeginDeleteDeliveryLocation,
           BeginUpdateDeliveryLocation, BeginSetPrimaryDeliveryLocation, BeginMove
  <2> QED
    BY <2>1, <2>2, <2>3
<1>3. CASE CreateLocation(v)
  <2> DEFINE my == mover[v]
             rows == [n \in DOMAIN locations[v] \cup {NewId(v)} |->
                         IF n \in DOMAIN locations[v] THEN locations[v][n]
                         ELSE [area |-> mover[v].area, building |-> mover[v].building,
                               isPrimary |-> TRUE]]
  <2>1. /\ my.pc = "create" /\ BuildingMayBeReferred(my.building)
        /\ locations' = [locations EXCEPT ![v] = rows] /\ buildings' = buildings
    BY <1>3 DEF CreateLocation
  <2>2. /\ DOMAIN rows = DOMAIN locations[v] \cup {NewId(v)}
        /\ \A n \in DOMAIN locations[v] : rows[n] = locations[v][n]
        /\ rows[NewId(v)].building = my.building /\ rows[NewId(v)].area = my.area
        /\ my.building # NoBuilding => buildings[my.building] = my.area
    BY <2>1, CreateAdds
  <2> HIDE DEF rows
  <2>3. locations'[u] = IF u = v THEN rows ELSE locations[u]
    BY <1>1, <2>1
  <2> QED
    BY <2>1, <2>2, <2>3
<1>4. CASE UpdateLocation(v)
  <2> DEFINE my == mover[v]
  <2>1. /\ my.cmd = "update" /\ my.id \in DOMAIN locations[v]
        /\ locations' = [locations EXCEPT ![v] = locations'[v]]
        /\ DOMAIN locations'[v] = DOMAIN locations[v]
        /\ \A n \in DOMAIN locations[v] :
               \/ locations'[v][n] = locations[v][n]
               \/ /\ locations'[v][n].area = my.area
                  /\ locations'[v][n].building = my.building
                  /\ n = my.id /\ BuildingMayBeReferred(my.building)
    BY <1>4, UpdateWrites
  <2>2. BuildingHolds(my, locations[v], buildings) /\ buildings' = buildings
    BY <1>4 DEF AddressInv, UpdateLocation
  <2>3. u = v
    BY <1>1, <2>1
  <2> HIDE DEF my
  <2>4. /\ locations'[u][i].area = my.area /\ locations'[u][i].building = my.building
        /\ i = my.id /\ BuildingMayBeReferred(my.building)
    BY <2>1, <2>3
  <2>5. buildings[my.building] = my.area
    BY <2>1, <2>2, <2>3, <2>4 DEF BuildingHolds, BuildingMayBeReferred, IsBuilding
  <2> QED
    BY <2>2, <2>4, <2>5
<1> QED
  BY <1>2, <1>3, <1>4

(* A customer who has addresses and whose commands were not cut short has   *)
(* exactly one primary one between them, and a building newly referred to   *)
(* is one of the address's area, though checks and writes are statements    *)
(* apart and an administrator may delete the building in between.           *)
THEOREM AddressesStaySound == Spec => AddressIsSound
<1>1. AddressInv => OnePrimary
  <2> SUFFICES ASSUME AddressInv, NEW u \in Customers
               PROVE  /\ Cardinality(PrimaryLocations(u)) <= 1
                      /\ mover[u].cmd = "idle" /\ ~mover[u].failed /\ DOMAIN locations[u] # {} =>
                             PrimaryLocations(u) # {}
    BY DEF OnePrimary
  <2>1. MoveHolds(mover[u], locations[u]) /\ PrimaryHolds(mover[u], locations[u])
    BY DEF AddressInv
  <2> QED
    BY <2>1, PrimaryIsOne DEF MoveHolds, PrimaryHolds, YetToMark, PrimaryLocations
<1>2. AddressInv /\ [Next]_vars => [NewBuildingIsOfArea]_vars
  BY BuildingIsWritten
<1> QED
  BY <1>1, <1>2, AddressesAlways, PTL DEF Spec, AddressIsSound

-------------------------------------------------------------------------------
(* The days.  A member of staff who is about to store a stage has seen the  *)
(* one before it, which a late write of someone else does not undo.         *)
DaysTyped ==
    /\ now \in ClockHours
    /\ plan \in [Customers -> BOOLEAN]
    /\ days \in [Customers -> [Dates -> DeliveryDayStatus]]
    /\ opsDays \in [Dates -> OpsDay]
    /\ forced \subseteq Dates
    /\ staff \in [Staff -> StaffLocal]
    /\ ratings \subseteq Customers \X Dates
    /\ left \in 0 .. MaxCommands

WriteHolds(my) ==
    /\ my.cmd = "advance" => /\ my.toStage \in {"dispatch", "delivered"}
                             /\ my.toStage = "delivered" => opsDays[my.date].dispatchedAt
    /\ my.cmd = "mark" => my.customer \in Customers

DispatchedFirst == \A d \in Dates : opsDays[d].deliveredAt => opsDays[d].dispatchedAt

DaysInv == DaysTyped /\ DispatchedFirst /\ \A s \in Staff : WriteHolds(staff[s])

-------------------------------------------------------------------------------
(* The stage of a day, by its marks: each mark moves it on.                 *)
LEMMA StagesInOrder ==
    /\ NextStage("locked") = "dispatch" /\ NextStage("dispatch") = "delivered"
    /\ StageIndex("pending") = 0 /\ StageIndex("locked") = 1
    /\ StageIndex("dispatch") = 2 /\ StageIndex("delivered") = 3
<1>1. /\ DOMAIN ManualStageOrder = 1 .. 3 /\ ManualStageOrder[1] = "locked"
      /\ ManualStageOrder[2] = "dispatch" /\ ManualStageOrder[3] = "delivered"
  BY DEF ManualStageOrder
<1>2. \A i \in 1 .. 3 : i = 1 \/ i = 2 \/ i = 3
  OBVIOUS
<1> HIDE DEF ManualStageOrder
<1>3. StageIndex("locked") = 1
  BY <1>1, <1>2 DEF StageIndex
<1>4. StageIndex("dispatch") = 2
  BY <1>1, <1>2 DEF StageIndex
<1>5. StageIndex("delivered") = 3
  BY <1>1, <1>2 DEF StageIndex
<1> QED
  BY <1>1, <1>3, <1>4, <1>5 DEF StageIndex, NextStage

(* The cutoff of a date, once past, stays past.                             *)
LEMMA CutoffStaysPast ==
    ASSUME now \in ClockHours, Tick, NEW d \in Dates, IsAfterSkipCutoff(d)
    PROVE  IsAfterSkipCutoff(d)'
<1>1. now \in Nat /\ now' = now + 1 /\ d \in Nat
  BY CalendarAssumption DEF Tick, ClockHours, Dates
<1>2. CASE Hours = <<"day", "evening">>
  <2>1. /\ Len(Hours) = 2 /\ Hours[1] # "evening"
    BY <1>2
  <2>2. now \div 2 \in Nat /\ now = 2 * (now \div 2) + (now % 2) /\ now % 2 \in 0 .. 1
    BY <1>1
  <2>3. now' \div 2 = IF now % 2 = 1 THEN (now \div 2) + 1 ELSE now \div 2
    BY <1>1, <2>2
  <2>4. Today = now \div 2 /\ Today' = now' \div 2 /\ Hour = Hours[(now % 2) + 1]
    BY <2>1 DEF Today, Hour
  <2> QED
    BY <1>1, <2>1, <2>2, <2>3, <2>4 DEF IsAfterSkipCutoff
<1>3. CASE Hours = <<"night", "day", "evening">>
  <2>1. Len(Hours) = 3 /\ Hours[1] # "evening" /\ Hours[2] # "evening"
    BY <1>3
  <2>2. now \div 3 \in Nat /\ now = 3 * (now \div 3) + (now % 3) /\ now % 3 \in 0 .. 2
    BY <1>1
  <2>3. now' \div 3 = IF now % 3 = 2 THEN (now \div 3) + 1 ELSE now \div 3
    BY <1>1, <2>2
  <2>4. Today = now \div 3 /\ Today' = now' \div 3 /\ Hour = Hours[(now % 3) + 1]
    BY <2>1 DEF Today, Hour
  <2> QED
    BY <1>1, <2>1, <2>2, <2>3, <2>4 DEF IsAfterSkipCutoff
<1> QED
  BY <1>2, <1>3, CalendarAssumption

(* The clock stays within its hours.                                        *)
LEMMA ClockTicks ==
    ASSUME now \in ClockHours, Tick
    PROVE  now' \in ClockHours
<1>1. now \in Nat /\ now' = now + 1 /\ now \div Len(Hours) <= LastDate /\ LastDate \in Nat
  BY CalendarAssumption DEF Tick, ClockHours, Today
<1>2. CASE Len(Hours) = 2
  BY <1>1, <1>2 DEF ClockHours
<1>3. CASE Len(Hours) = 3
  BY <1>1, <1>3 DEF ClockHours
<1> QED
  BY <1>2, <1>3, CalendarAssumption

-------------------------------------------------------------------------------
(* A step of one member of staff that takes no dispatch back.               *)
LEMMA OneWrites ==
    ASSUME DaysInv, NEW s \in Staff, NEW new \in StaffLocal,
           staff' = [staff EXCEPT ![s] = new],
           UNCHANGED <<now, plan, forced, ratings>>, left' \in 0 .. MaxCommands,
           days' \in [Customers -> [Dates -> DeliveryDayStatus]],
           opsDays' \in [Dates -> OpsDay],
           \A d \in Dates : opsDays[d].dispatchedAt => opsDays'[d].dispatchedAt,
           DispatchedFirst', WriteHolds(new)'
    PROVE  DaysInv'
<1>1. DaysTyped'
  BY DEF DaysInv, DaysTyped
<1>2. \A t \in Staff : staff'[t] = IF t = s THEN new ELSE staff[t]
  BY DEF DaysInv, DaysTyped
<1>3. ASSUME NEW t \in Staff
      PROVE  WriteHolds(staff[t])'
  <2>1. CASE t = s
    BY <1>2, <2>1 DEF WriteHolds
  <2>2. CASE t # s
    <3>1. staff'[t] = staff[t] /\ WriteHolds(staff[t]) /\ staff[t].date \in Dates
      BY <1>2, <2>2 DEF DaysInv, DaysTyped, StaffLocal
    <3> QED
      BY <3>1 DEF WriteHolds
  <2> QED
    BY <2>1, <2>2
<1> QED
  BY <1>1, <1>3 DEF DaysInv

(* A command of the staff that begins has read the mark it builds on.       *)
LEMMA BeginStaffWrites ==
    ASSUME DaysInv, NEW s \in Staff, NEW cmd \in {"advance", "mark", "credit", "reject"},
           NEW pc \in {"write", "credit", "resolve"}, NEW d \in Dates,
           NEW stage \in PipelineStage, NEW u \in Customers \cup {NoCustomer},
           NEW i \in Issues \cup {NoIssue},
           cmd = "advance" => /\ stage \in {"dispatch", "delivered"}
                              /\ stage = "delivered" => opsDays[d].dispatchedAt,
           cmd = "mark" => u \in Customers,
           BeginStaff(s, cmd, pc, d, stage, u, i),
           UNCHANGED <<now, plan, forced, ratings, opsDays, days>>, left' \in 0 .. MaxCommands
    PROVE  DaysInv'
<1> DEFINE new == [cmd |-> cmd, pc |-> pc, date |-> d, toStage |-> stage,
                   customer |-> u, issue |-> i]
<1>1. staff' = [staff EXCEPT ![s] = new]
  BY DEF BeginStaff
<1>2. new \in StaffLocal
  BY DEF StaffLocal
<1>3. WriteHolds(new)'
  BY DEF WriteHolds
<1>4. /\ days' \in [Customers -> [Dates -> DeliveryDayStatus]]
      /\ opsDays' \in [Dates -> OpsDay] /\ DispatchedFirst'
      /\ \A x \in Dates : opsDays[x].dispatchedAt => opsDays'[x].dispatchedAt
  BY DEF DaysInv, DaysTyped, DispatchedFirst
<1> HIDE DEF new
<1> QED
  BY <1>1, <1>2, <1>3, <1>4, OneWrites

(* A stage that is offered is one that follows the stage shown.             *)
LEMMA AdvanceIsByOne ==
    ASSUME NEW d \in Dates, NEW from \in PipelineStage, NEW to \in PipelineStage,
           MayAdvance(d, from, to)
    PROVE  /\ to \in {"dispatch", "delivered"}
           /\ to = "delivered" => opsDays[d].dispatchedAt
<1>1. from \in {"locked", "dispatch"}
  BY DEF MayAdvance, NextStage, PipelineStage
<1>2. from = "dispatch" => opsDays[d].dispatchedAt
  BY DEF MayAdvance, ComputeEffectiveStage
<1> QED
  BY <1>1, <1>2, StagesInOrder DEF MayAdvance

(* A command on a day that begins has read its marks.                       *)
LEMMA BeginServiceKeepsDays ==
    ASSUME DaysInv, BeginService, UNCHANGED <<now, plan>>, left' \in 0 .. MaxCommands
    PROVE  DaysInv'
<1>0. 1 \in Dates /\ "pending" \in PipelineStage
  BY CalendarAssumption DEF Dates, PipelineStage
<1>1. ASSUME NEW s \in Staff, NEW d \in Dates, NEW from \in PipelineStage,
             NEW to \in PipelineStage, BeginAdvancePipelineStage(s, d, from, to)
      PROVE  DaysInv'
  BY <1>1, AdvanceIsByOne, BeginStaffWrites DEF BeginAdvancePipelineStage, aftercare
<1>2. ASSUME NEW s \in Staff, NEW d \in Dates, NEW u \in Customers,
             BeginMarkDeliveryDelivered(s, u, d)
      PROVE  DaysInv'
  BY <1>0, <1>2, BeginStaffWrites DEF BeginMarkDeliveryDelivered, aftercare
<1>3. ASSUME NEW s \in Staff, NEW i \in Issues,
             BeginCreditDeliveryIssue(s, i) \/ BeginRejectDeliveryIssue(s, i)
      PROVE  DaysInv'
  BY <1>0, <1>3, BeginStaffWrites
     DEF BeginCreditDeliveryIssue, BeginRejectDeliveryIssue, aftercare
<1>4. ASSUME UNCHANGED <<opsDays, staff>>, forced' \subseteq Dates,
             days' \in [Customers -> [Dates -> DeliveryDayStatus]],
             ratings' \subseteq Customers \X Dates
      PROVE  DaysInv'
  BY <1>4 DEF DaysInv, DaysTyped, DispatchedFirst, WriteHolds
<1>5. ASSUME NEW u \in Customers, NEW i \in Issues, SubmitDeliveryIssue(u, i)
      PROVE  DaysInv'
  BY <1>4, <1>5 DEF SubmitDeliveryIssue, service, DaysInv, DaysTyped
<1>6. ASSUME NEW d \in Dates, ForcePipelineLock(d)
      PROVE  DaysInv'
  BY <1>4, <1>6 DEF ForcePipelineLock, aftercare, DaysInv, DaysTyped
<1>7. ASSUME NEW d \in Dates, NEW u \in Customers, SubmitMealRating(u, d)
      PROVE  DaysInv'
  BY <1>4, <1>7 DEF SubmitMealRating, service, DaysInv, DaysTyped
<1>8. ASSUME NEW d \in Dates, NEW u \in Customers, DayChanges(u, d)
      PROVE  DaysInv'
  <2>1. \E to \in DeliveryDayStatus : days' = [days EXCEPT ![u][d] = to]
    BY <1>8 DEF DayChanges, DeliveryDayStatus
  <2>2. days' \in [Customers -> [Dates -> DeliveryDayStatus]]
    BY <2>1 DEF DaysInv, DaysTyped
  <2> QED
    BY <1>4, <1>8, <2>2 DEF DayChanges, aftercare, DaysInv, DaysTyped
<1> QED
  BY <1>1, <1>2, <1>3, <1>5, <1>6, <1>7, <1>8 DEF BeginService

(* Storing a stage adds one of the two times of a date, in their order.     *)
LEMMA StageIsStored ==
    ASSUME DaysInv, NEW s \in Staff, AdvanceStage(s)
    PROVE  /\ opsDays' \in [Dates -> OpsDay] /\ DispatchedFirst'
           /\ \A d \in Dates : /\ opsDays[d].dispatchedAt => opsDays'[d].dispatchedAt
                               /\ opsDays[d].deliveredAt => opsDays'[d].deliveredAt
<1> DEFINE my == staff[s]
           old == opsDays[my.date]
           new == IF my.toStage = "dispatch" THEN [old EXCEPT !.dispatchedAt = TRUE]
                  ELSE [old EXCEPT !.deliveredAt = TRUE]
<1>1. my \in StaffLocal /\ WriteHolds(my) /\ my.cmd = "advance"
  BY DEF DaysInv, DaysTyped, AdvanceStage
<1>2. /\ my.date \in Dates /\ my.toStage \in {"dispatch", "delivered"}
      /\ my.toStage = "delivered" => old.dispatchedAt
  BY <1>1 DEF StaffLocal, WriteHolds
<1>3. opsDays \in [Dates -> OpsDay] /\ old \in OpsDay
  BY <1>2 DEF DaysInv, DaysTyped
<1>4. opsDays' = [opsDays EXCEPT ![my.date] = new]
  BY <1>3 DEF AdvanceStage
<1>5. /\ new \in OpsDay /\ new.dispatchedAt
      /\ old.deliveredAt => new.deliveredAt
  BY <1>2, <1>3 DEF OpsDay
<1> HIDE DEF new, my
<1>6. \A d \in Dates : opsDays'[d] = IF d = my.date THEN new ELSE opsDays[d]
  BY <1>3, <1>4
<1> QED
  BY <1>2, <1>3, <1>4, <1>5, <1>6 DEF DaysInv, DispatchedFirst

(* A statement on a day sets a mark, or none.                               *)
LEMMA ContinueServiceKeepsDays ==
    ASSUME DaysInv, NEW s \in Staff, UNCHANGED <<now, plan, left>>,
           \/ AdvanceStage(s) \/ MarkDeliveryDelivered(s)
           \/ CreditIssueToWallet(s) \/ ResolveIssue(s)
    PROVE  DaysInv'
<1>1. /\ days \in [Customers -> [Dates -> DeliveryDayStatus]] /\ opsDays \in [Dates -> OpsDay]
      /\ left' \in 0 .. MaxCommands /\ staff[s] \in StaffLocal /\ WriteHolds(staff[s])
  BY DEF DaysInv, DaysTyped
<1>2. StaffResting \in StaffLocal /\ WriteHolds(StaffResting)'
  BY RestingSettlesNothing DEF StaffResting, WriteHolds
<1>3. CASE AdvanceStage(s)
  <2>1. /\ staff' = [staff EXCEPT ![s] = StaffResting]
        /\ UNCHANGED <<forced, ratings, days>>
    BY <1>3 DEF AdvanceStage, EndStaff, aftercare
  <2>2. /\ opsDays' \in [Dates -> OpsDay] /\ DispatchedFirst'
        /\ \A d \in Dates : opsDays[d].dispatchedAt => opsDays'[d].dispatchedAt
    BY <1>3, StageIsStored
  <2> QED
    BY <1>1, <1>2, <2>1, <2>2, OneWrites
<1>4. DispatchedFirst
  BY DEF DaysInv
<1>5. CASE MarkDeliveryDelivered(s)
  <2>1. /\ staff' = [staff EXCEPT ![s] = StaffResting]
        /\ UNCHANGED <<forced, ratings, opsDays>>
        /\ days' = [days EXCEPT ![staff[s].customer][staff[s].date] = "delivered"]
    BY <1>5 DEF MarkDeliveryDelivered, EndStaff, aftercare
  <2>2. days' \in [Customers -> [Dates -> DeliveryDayStatus]]
    BY <1>1, <2>1 DEF DeliveryDayStatus
  <2>3. DispatchedFirst' /\ opsDays' = opsDays
    BY <1>4, <2>1 DEF DispatchedFirst
  <2> QED
    BY <1>1, <1>2, <2>1, <2>2, <2>3, OneWrites
<1>6. ASSUME NEW new \in StaffLocal, staff' = [staff EXCEPT ![s] = new], WriteHolds(new)',
             UNCHANGED <<forced, ratings, opsDays, days>>
      PROVE  DaysInv'
  <2>1. DispatchedFirst'
    BY <1>4, <1>6 DEF DispatchedFirst
  <2> QED
    BY <1>1, <1>6, <2>1, OneWrites
<1>7. CASE CreditIssueToWallet(s)
  <2>2. PICK my \in StaffLocal : my = staff[s] /\ WriteHolds(my)
    BY <1>1
  <2> DEFINE new == [my EXCEPT !.pc = "resolve"]
  <2>1. staff' = [staff EXCEPT ![s] = new] /\ UNCHANGED <<forced, ratings, opsDays, days>>
    BY <1>7, <2>2 DEF CreditIssueToWallet
  <2>3. /\ new \in StaffLocal
        /\ new.cmd = my.cmd /\ new.toStage = my.toStage
        /\ new.date = my.date /\ new.customer = my.customer
    BY <2>2 DEF StaffLocal
  <2> HIDE DEF new
  <2>4. WriteHolds(new)'
    BY <2>1, <2>2, <2>3 DEF WriteHolds
  <2> QED
    BY <1>6, <2>1, <2>3, <2>4
<1>8. CASE ResolveIssue(s)
  BY <1>2, <1>6, <1>8 DEF ResolveIssue, EndStaff
<1> QED
  BY <1>3, <1>5, <1>7, <1>8

(* Every step keeps the invariant of the days.                              *)
LEMMA DaysStep ==
    ASSUME DaysInv, [Next]_vars
    PROVE  DaysInv'
<1>1. CASE Command /\ BeginService
  <2>1. UNCHANGED <<now, plan>> /\ left' \in 0 .. MaxCommands
    BY <1>1, ServiceAssumption
       DEF Command, BeginNetwork, DaysInv, DaysTyped
  <2> QED
    BY <1>1, <2>1, BeginServiceKeepsDays
<1>2. CASE Continue /\ ContinueService
  <2>1. UNCHANGED <<now, plan, left>>
    BY <1>2 DEF Continue
  <2> QED
    BY <1>2, <2>1, ContinueServiceKeepsDays DEF ContinueService
<1>3. CASE UNCHANGED <<now, plan, service, ratings>> /\ left' \in 0 .. MaxCommands
  BY <1>3 DEF service, DaysInv, DaysTyped, DispatchedFirst, WriteHolds
<1>4. CASE Expiry
  BY <1>4 DEF Expiry, PlanExpires, service, aftercare, DaysInv, DaysTyped, DispatchedFirst,
              WriteHolds
<1>5. CASE Restart
  <2>1. WriteHolds(StaffResting)'
    BY DEF StaffResting, WriteHolds
  <2>2. DaysTyped' /\ DispatchedFirst'
    BY <1>5, RestingSettlesNothing
       DEF Restart, aftercare, DaysInv, DaysTyped, DispatchedFirst
  <2>3. \A s \in Staff : staff'[s] = StaffResting
    BY <1>5 DEF Restart
  <2> QED
    BY <2>1, <2>2, <2>3 DEF DaysInv, WriteHolds
<1>6. CASE Tick
  <2>1. now' \in ClockHours
    BY <1>6, ClockTicks DEF DaysInv, DaysTyped
  <2> QED
    BY <1>6, <2>1 DEF Tick, service, aftercare, DaysInv, DaysTyped, DispatchedFirst, WriteHolds
<1>7. CASE Command /\ ~BeginService
  BY <1>3, <1>7, ServiceAssumption DEF Command, DaysInv, DaysTyped, aftercare
<1>8. CASE Continue /\ ~ContinueService
  BY <1>3, <1>8 DEF Continue, DaysInv, DaysTyped, aftercare
<1>9. CASE UNCHANGED vars
  BY <1>3, <1>9 DEF vars, DaysInv, DaysTyped, aftercare
<1> QED
  BY <1>1, <1>2, <1>4, <1>5, <1>6, <1>7, <1>8, <1>9 DEF Next

(* No day is marked at the start.                                           *)
LEMMA DaysInitially == Init => DaysInv
<1> SUFFICES ASSUME Init PROVE DaysInv
  OBVIOUS
<1>1. 0 \in ClockHours
  <2>1. Len(Hours) \in {2, 3} /\ LastDate \in Nat
    BY CalendarAssumption
  <2>2. CASE Len(Hours) = 2
    BY <2>1, <2>2 DEF ClockHours
  <2>3. CASE Len(Hours) = 3
    BY <2>1, <2>3 DEF ClockHours
  <2> QED
    BY <2>1, <2>2, <2>3
<1>2. DaysTyped
  BY <1>1, RestingSettlesNothing, ServiceAssumption
     DEF Init, DaysTyped, DeliveryDayStatus, OpsDay
<1>3. \A s \in Staff : WriteHolds(staff[s])
  BY DEF Init, WriteHolds, StaffResting
<1>4. DispatchedFirst
  BY DEF Init, DispatchedFirst
<1> QED
  BY <1>2, <1>3, <1>4 DEF DaysInv

(* The stage of a date cannot move back, though two members of staff decide *)
(* before either writes, and none is left out; only a restart forgets a lock *)
(* set by hand.                                                             *)
LEMMA StageStepsOn ==
    ASSUME DaysInv, DaysInv', [Next]_vars, NEW d \in Dates
    PROVE  \/ StageIndex(ComputeEffectiveStage(d)') >= StageIndex(ComputeEffectiveStage(d))
           \/ d \in forced /\ d \notin forced' /\ ComputeEffectiveStage(d) = "locked"
<1>1. /\ opsDays[d].dispatchedAt => opsDays'[d].dispatchedAt
      /\ opsDays[d].deliveredAt => opsDays'[d].deliveredAt
  <2>1. CASE \E s \in Staff : AdvanceStage(s)
    BY <2>1, StageIsStored
  <2>2. CASE opsDays' = opsDays
    BY <2>2
  <2>3. (\E s \in Staff : AdvanceStage(s)) \/ opsDays' = opsDays
    BY DEF Next, Command, Continue, ContinueService, BeginService, Expiry, PlanExpires, Restart,
           Tick, vars, service, MarkDeliveryDelivered, CreditIssueToWallet, ResolveIssue,
           BeginAdvancePipelineStage, BeginMarkDeliveryDelivered, BeginCreditDeliveryIssue,
           BeginRejectDeliveryIssue, SubmitDeliveryIssue, ForcePipelineLock, SubmitMealRating,
           DayChanges
  <2> QED
    BY <2>1, <2>2, <2>3
<1>2. IsAfterSkipCutoff(d) => IsAfterSkipCutoff(d)'
  <2>1. CASE Tick
    BY <2>1, CutoffStaysPast DEF DaysInv, DaysTyped
  <2>2. CASE now' = now
    BY <2>2 DEF IsAfterSkipCutoff, Today, Hour
  <2>3. Tick \/ now' = now
    BY DEF Next, Command, Continue, Expiry, Restart, vars
  <2> QED
    BY <2>1, <2>2, <2>3
<1>3. forced \subseteq forced' \/ Restart
  BY DEF Next, Command, Continue, ContinueService, BeginService, Expiry, PlanExpires,
         Tick, vars, service, AdvanceStage, MarkDeliveryDelivered, CreditIssueToWallet, ResolveIssue,
         BeginAdvancePipelineStage, BeginMarkDeliveryDelivered, BeginCreditDeliveryIssue,
         BeginRejectDeliveryIssue, SubmitDeliveryIssue, ForcePipelineLock, SubmitMealRating,
         DayChanges
<1>4. CASE d \in forced => d \in forced'
  <2>1. IsLocked(d) => IsLocked(d)'
    BY <1>2, <1>4 DEF IsLocked
  <2> QED
    BY <1>1, <2>1, StagesInOrder DEF ComputeEffectiveStage
<1>5. CASE d \in forced /\ d \notin forced' /\ ComputeEffectiveStage(d) # "locked"
  <2>1. IsLocked(d)
    BY <1>5 DEF IsLocked
  <2>2. opsDays[d].deliveredAt \/ opsDays[d].dispatchedAt
    BY <1>5, <2>1 DEF ComputeEffectiveStage
  <2> QED
    BY <1>1, <2>2, StagesInOrder DEF ComputeEffectiveStage
<1> QED
  BY <1>4, <1>5

(* The invariant of the days holds in every state: the marks of a day come  *)
(* in their order, and a command has read marks that are still there.       *)
THEOREM DaysAlways == Spec => []DaysInv
<1> QED
  BY DaysInitially, DaysStep, PTL DEF Spec

(* docs/what_pending.md:189, for any number of staff: the stage of a day    *)
(* never moves back and none is left out, but for a lock set by hand that a *)
(* restart forgets.                                                         *)
THEOREM StagesNeverGoBack == Spec => StagesOnlyAdvance
<1> DEFINE Advances(d) ==
        /\ \/ StageIndex(ComputeEffectiveStage(d)') >= StageIndex(ComputeEffectiveStage(d))
           \/ d \in forced /\ d \notin forced' /\ ComputeEffectiveStage(d) = "locked"
        /\ opsDays'[d].deliveredAt => opsDays'[d].dispatchedAt
<1>1. DaysInv /\ DaysInv' /\ [Next]_vars => [\A d \in Dates : Advances(d)]_vars
  BY StageStepsOn DEF DaysInv, DispatchedFirst
<1> QED
  BY <1>1, DaysAlways, PTL DEF Spec, StagesOnlyAdvance

-------------------------------------------------------------------------------
(* A stop is in one area at most, and one of its drivers' lists has it only *)
(* if the driver holds that area.                                           *)
LEMMA StopIsInOneArea ==
    ASSUME AddressInv, NEW u \in Customers
    PROVE  /\ StopAreas(u) \subseteq Areas
           /\ \A ar, other \in StopAreas(u) : ar = other
           /\ \A ar \in StopAreas(u) : GetAreaById(ar)
<1>1. \A i \in DOMAIN locations[u] : locations[u][i].area \in Areas
  BY RowsAreFunctions DEF AddressInv, AddressTyped, Location
<1>2. PrimaryLocations(u) = {} \/ \E i \in DOMAIN locations[u] : PrimaryLocations(u) = {i}
  BY PrimaryIsOne
<1> QED
  BY <1>1, <1>2 DEF StopAreas

(* A driver carries the stops of the areas assigned to him.                 *)
LEMMA CarrierHoldsArea ==
    ASSUME AddressInv, NEW r \in Drivers, NEW d \in Dates, NEW u \in GetMyDeliveries(r, d)
    PROVE  /\ u \in Customers /\ DailyOpsDeliverableDay(u, d) /\ drivers[r] = "active"
           /\ \E ar \in StopAreas(u) : ar \in Areas /\ r \in Holders(ar)
<1>1. /\ CanSeeDeliveries(r)
      /\ u \in GetRiderDeliveriesByDate(d, GetAssignedAreaIds(r))
  BY DEF GetMyDeliveries
<1>2. /\ u \in Customers /\ DailyOpsDeliverableDay(u, d) /\ drivers[r] = "active"
      /\ StopAreas(u) \cap GetAssignedAreaIds(r) # {}
  BY <1>1 DEF CanSeeDeliveries, GetRiderDeliveriesByDate
<1> QED
  BY <1>2 DEF GetAssignedAreaIds, Holders

(* The driver of the area of a stop, if on duty, has the stop.              *)
LEMMA HolderCarries ==
    ASSUME NEW u \in Customers, NEW d \in Dates, DailyOpsDeliverableDay(u, d),
           NEW ar \in StopAreas(u), ar \in Areas, NEW r \in Drivers, r \in Holders(ar),
           drivers[r] = "active"
    PROVE  u \in GetMyDeliveries(r, d)
<1>1. ar \in GetAssignedAreaIds(r)
  BY DEF GetAssignedAreaIds, Holders
<1> QED
  BY <1>1 DEF GetMyDeliveries, CanSeeDeliveries, GetRiderDeliveriesByDate

(* One driver per area gives one driver per stop.                           *)
LEMMA StopsHaveOneDriver ==
    ASSUME AddressInv, OneDriverPerArea
    PROVE  OneDriverPerStop
<1> SUFFICES ASSUME NEW d \in Dates
             PROVE  /\ \A r \in Drivers : GetMyDeliveries(r, d) \subseteq GetAdminDriverDeliveries(r, d)
                    /\ \A u \in Customers :
                          LET carriers == { r \in Drivers : u \in GetMyDeliveries(r, d) } IN
                          /\ Cardinality(carriers) <= 1
                          /\ u \in GetMealBreakdownByDate(d) /\ carriers = {} =>
                                 \A ar \in StopAreas(u) :
                                     \/ ar \in ListUnassignedAreas
                                     \/ \E r \in Holders(ar) : drivers[r] # "active"
                          /\ carriers # {} => /\ u \in GenerateDeliverySheetExport(d)
                                              /\ \E label \in GetDeliveryLabels(d) :
                                                     label[1] = u /\ label[2] # {}
  BY DEF OneDriverPerStop
<1>1. ASSUME NEW r \in Drivers, NEW u \in GetMyDeliveries(r, d)
      PROVE  u \in GetAdminDriverDeliveries(r, d)
  <2>1. /\ u \in Customers /\ plan[u] /\ drivers[r] = "active"
        /\ \E ar \in StopAreas(u) : ar \in Areas /\ r \in Holders(ar)
    BY CarrierHoldsArea DEF DailyOpsDeliverableDay
  <2>2. StopAreas(u) \cap AreasFor(r) # {}
    BY <2>1, StopIsInOneArea DEF AreasFor, GetAssignedAreaIds, Holders
  <2> QED
    BY <2>1, <2>2 DEF GetAdminDriverDeliveries, GetAdminDriverDeliveriesByDate, GetDriverById
<1>2. ASSUME NEW u \in Customers
      PROVE  LET carriers == { r \in Drivers : u \in GetMyDeliveries(r, d) } IN
             /\ Cardinality(carriers) <= 1
             /\ u \in GetMealBreakdownByDate(d) /\ carriers = {} =>
                    \A ar \in StopAreas(u) :
                        \/ ar \in ListUnassignedAreas
                        \/ \E r \in Holders(ar) : drivers[r] # "active"
             /\ carriers # {} => /\ u \in GenerateDeliverySheetExport(d)
                                 /\ \E label \in GetDeliveryLabels(d) :
                                        label[1] = u /\ label[2] # {}
  <2> DEFINE carriers == { r \in Drivers : u \in GetMyDeliveries(r, d) }
  <2>1. Cardinality(carriers) <= 1
    <3>1. \A r, q \in carriers : r = q
      <4> SUFFICES ASSUME NEW r \in carriers, NEW q \in carriers
                   PROVE  r = q
        OBVIOUS
      <4>1. PICK ar \in StopAreas(u) : ar \in Areas /\ r \in Holders(ar)
        BY CarrierHoldsArea
      <4>2. PICK other \in StopAreas(u) : q \in Holders(other)
        BY CarrierHoldsArea
      <4>3. ar = other
        BY StopIsInOneArea
      <4> QED
        BY <4>1, <4>2, <4>3 DEF OneDriverPerArea
    <3> HIDE DEF carriers
    <3>2. carriers = {} \/ \E r : carriers = {r}
      BY <3>1
    <3>3. Cardinality({}) = 0 /\ \A r : Cardinality({r}) = 1
      BY FS_EmptySet, FS_Singleton
    <3>4. Cardinality(carriers) \in {0, 1}
      BY <3>2, <3>3
    <3> QED
      BY <3>4
  <2>2. ASSUME u \in GetMealBreakdownByDate(d), carriers = {}, NEW ar \in StopAreas(u),
               \A r \in Holders(ar) : drivers[r] = "active"
        PROVE  ar \in ListUnassignedAreas
    <3>1. ar \in Areas /\ GetAreaById(ar)
      BY StopIsInOneArea
    <3>2. Holders(ar) = {}
      BY <2>2, <3>1, HolderCarries DEF GetMealBreakdownByDate, Holders
    <3> QED
      BY <3>1, <3>2 DEF ListUnassignedAreas
  <2>3. ASSUME carriers # {}
        PROVE  /\ u \in GenerateDeliverySheetExport(d)
               /\ \E label \in GetDeliveryLabels(d) : label[1] = u /\ label[2] # {}
    <3>1. DailyOpsDeliverableDay(u, d) /\ StopAreas(u) # {}
      BY <2>3, CarrierHoldsArea
    <3>2. u \in GetRiderDeliveriesByDate(d, AllAreas)
      BY <3>1 DEF GetRiderDeliveriesByDate, AllAreas
    <3>3. <<u, StopAreas(u)>> \in GetDeliveryLabels(d)
      BY <3>2 DEF GetDeliveryLabels
    <3> QED
      BY <3>1, <3>2, <3>3 DEF GenerateDeliverySheetExport
  <2> QED
    BY <2>1, <2>2, <2>3
<1> QED
  BY <1>1, <1>2

(* However addresses, drivers and areas change, at once and in any order, a *)
(* meal is on one driver's list at most, and on none only when its customer *)
(* has no address in an area or the area no driver on duty.                 *)
THEOREM AlwaysOneDriverPerStop == Spec => []OneDriverPerStop
<1>1. AddressInv /\ OneDriverPerArea => OneDriverPerStop
  BY StopsHaveOneDriver
<1> QED
  BY <1>1, AddressesAlways, AlwaysOneDriverPerArea, PTL

(* What a screen offers follows from the same rows as what the command      *)
(* checks, in every state: the two statements of each rule agree.           *)
THEOREM OffersAlwaysAccepted == Spec => []OffersAreAccepted
<1>1. DaysInv => OffersAreAccepted
  <2> SUFFICES ASSUME DaysInv PROVE OffersAreAccepted
    OBVIOUS
  <2>1. ASSUME NEW u \in Customers, NEW d \in GetPendingRatings(u)
        PROVE  MaySubmitRating(u, d)
    BY DEF GetPendingRatings, PendingRatingDelivered, MaySubmitRating,
           IsDeliveryEligibleForRating, OpsClosed, ComputeEffectiveStage
  <2>2. ASSUME NEW d \in Dates, GetDailyOps(d).canAdvance
        PROVE  MayAdvance(d, GetDailyOps(d).stage, GetDailyOps(d).advanceTo)
    BY <2>2 DEF GetDailyOps, MayAdvance
  <2>3. ASSUME NEW d \in Dates, NEW r \in Drivers, NEW u \in GetMyDeliveries(r, d),
               days[u][d] # "delivered"
        PROVE  MayMarkDelivered(u, d)
    BY <2>3 DEF MayMarkDelivered
  <2>4. ASSUME NEW ar \in ListUnassignedAreas, NEW r \in Drivers
        PROVE  MayHold(r, ar)
    BY DEF ListUnassignedAreas, MayHold
  <2>5. ASSUME NEW ar \in GetActiveAreas, NEW b \in GetBuildingsForArea(ar)
        PROVE  MaySaveLocation(ar, b)
    BY DEF GetActiveAreas, GetBuildingsForArea, MaySaveLocation
  <2> QED
    BY <2>1, <2>2, <2>3, <2>4, <2>5 DEF OffersAreAccepted
<1> QED
  BY <1>1, DaysAlways, PTL

(* Every row and everything a command remembers between its statements is   *)
(* well typed, whatever the commands, interleavings and restarts.           *)
THEOREM ServiceTyping == Spec => []TypeOK
<1>1. Init => CreditInv
  BY RestingSettlesNothing
     DEF Init, CreditInv, IssuesTyped, Settles, IssueStatus, CreditedHasMoney
<1>2. NetworkInv /\ AddressInv /\ DaysInv /\ CreditInv => TypeOK
  BY DEF TypeOK, NetworkInv, NetworkTyped, AddressInv, AddressTyped, DaysInv, DaysTyped,
         CreditInv, IssuesTyped
<1> QED
  BY <1>1, <1>2, CreditStep, NetworkAlways, AddressesAlways, DaysAlways, PTL DEF Spec
-------------------------------------------------------------------------------
(* That the transactions implement AreaRoster.  To the roster a command is  *)
(* its request; when it commits, the claims it holds the locks for say that *)
(* each of its areas is open and free at that moment (AssignedWasClaimed),   *)
(* so what it writes is a grant.  A command that does not run asks nothing. *)
RestingInv == \A a \in Admins : admin[a].cmd = "idle" => admin[a] = AdminResting

OpenAreas == { ar \in Areas : GetAreaById(ar) }
Requests == [a \in Admins |-> RequestOf(a)]

(* At rest a command has nothing asked for.                                 *)
LEMMA RestingRequest ==
    /\ AdminResting.cmd = "idle"
    /\ [driver |-> AdminResting.driver, areas |-> Range(AdminResting.areaIds),
        replace |-> AdminResting.cmd = "update"] = Roster!NoRequest
<1>1. Range(<<>>) = {}
  BY DEF Range
<1> QED
  BY <1>1 DEF AdminResting, Roster!NoRequest

(* A command that is not at rest asks for areas for a driver, and one that  *)
(* is asks for nothing.                                                     *)
LEMMA WhoAsks ==
    ASSUME NetworkInv, RestingInv, NEW a \in Admins
    PROVE  /\ RequestOf(a) \in Roster!Request
           /\ admin[a].cmd = "idle" => RequestOf(a) = Roster!NoRequest
           /\ admin[a].cmd # "idle" => /\ RequestOf(a).driver \in Drivers
                                       /\ RequestOf(a) # Roster!NoRequest
<1>1. admin[a] \in AdminLocal
  BY DEF NetworkInv, NetworkTyped
<1>2. Range(admin[a].areaIds) \subseteq Areas
  BY <1>1, RangeOfAreas DEF AdminLocal
<1>3. RequestOf(a) \in Roster!Request
  BY <1>1, <1>2 DEF AdminLocal, RequestOf, Roster!Request
<1>4. ASSUME admin[a].cmd = "idle" PROVE RequestOf(a) = Roster!NoRequest
  BY <1>4, RestingRequest DEF RestingInv, RequestOf
<1>5. ASSUME admin[a].cmd # "idle"
      PROVE  RequestOf(a).driver \in Drivers /\ RequestOf(a) # Roster!NoRequest
  <2>1. RequestOf(a).driver \in Drivers
    BY <1>5 DEF NetworkInv, ClaimsHold, RequestOf
  <2> QED
    BY <2>1, NetworkAssumption DEF Roster!NoRequest
<1> QED
  BY <1>3, <1>4, <1>5

(* A step of one command changes what that command asks for and no more.    *)
LEMMA OneRequestChanges ==
    ASSUME NetworkInv, NEW a \in Admins, NEW new, admin' = [admin EXCEPT ![a] = new]
    PROVE  /\ admin'[a] = new
           /\ \A b \in Admins \ {a} : admin'[b] = admin[b] /\ Requests'[b] = Requests[b]
           /\ Requests'[a] = [driver |-> new.driver, areas |-> Range(new.areaIds),
                              replace |-> new.cmd = "update"]
<1>1. admin'[a] = new /\ \A b \in Admins \ {a} : admin'[b] = admin[b]
  BY DEF NetworkInv, NetworkTyped
<1> QED
  BY <1>1 DEF Requests, RequestOf

(* A command that begins asks for areas that are there.                     *)
LEMMA BeginAsks ==
    ASSUME NetworkInv, RestingInv, NetworkInv', RestingInv',
           NEW a \in Admins, NEW cmd \in {"create", "update", "assign"}, NEW d \in Drivers,
           NEW isActive, NEW areaIds \in Seq(Areas), Begin(a, cmd, d, isActive, areaIds)
    PROVE  Roster!Ask(a)
<1>0. PICK new : new = [cmd |-> cmd, driver |-> d, isActive |-> isActive,
                        areaIds |-> areaIds, todo |-> Range(areaIds)]
  OBVIOUS
<1>1. /\ admin[a].cmd = "idle" /\ admin' = [admin EXCEPT ![a] = new]
      /\ \A i \in DOMAIN areaIds : GetAreaById(areaIds[i])
      /\ UNCHANGED <<drivers, areas, assigned, lockedBy>>
  BY <1>0 DEF Begin
<1>2. /\ \A b \in Admins \ {a} : Requests'[b] = Requests[b]
      /\ Requests'[a] = [driver |-> d, areas |-> Range(areaIds), replace |-> cmd = "update"]
  <2>1. new.driver = d /\ new.areaIds = areaIds /\ new.cmd = cmd
    BY <1>0
  <2>2. Requests'[a] = [driver |-> new.driver, areas |-> Range(new.areaIds),
                        replace |-> new.cmd = "update"]
    BY <1>1, OneRequestChanges
  <2>3. \A b \in Admins \ {a} : Requests'[b] = Requests[b]
    BY <1>1, OneRequestChanges
  <2> QED
    BY <2>1, <2>2, <2>3
<1>3. Requests[a] = Roster!NoRequest
  BY <1>1, WhoAsks DEF Requests
<1>4. Requests'[a].driver = d /\ Requests'[a].areas = Range(areaIds)
  BY <1>2
<1>5. d # NoDriver
  BY NetworkAssumption
<1>6. Range(areaIds) \subseteq OpenAreas
  <2>1. Range(areaIds) \subseteq Areas
    BY RangeOfAreas
  <2> QED
    BY <1>1, <2>1 DEF Range, OpenAreas
<1>7. Requests' \in [Admins -> Roster!Request]
  <2>1. \A b \in Admins : RequestOf(b)' \in Roster!Request
    <3> SUFFICES ASSUME NEW b \in Admins PROVE RequestOf(b)' \in Roster!Request
      OBVIOUS
    <3>1. admin'[b] \in AdminLocal
      BY DEF NetworkInv, NetworkTyped
    <3>2. Range(admin'[b].areaIds) \subseteq Areas
      BY <3>1, RangeOfAreas DEF AdminLocal
    <3> QED
      BY <3>1, <3>2 DEF AdminLocal, RequestOf, Roster!Request
  <2> QED
    BY <2>1 DEF Requests
<1>8. UNCHANGED <<OpenAreas, assigned>>
  BY <1>1 DEF OpenAreas, GetAreaById
<1> QED
  BY <1>2, <1>3, <1>4, <1>5, <1>6, <1>7, <1>8 DEF Roster!Ask, Requests, OpenAreas

(* A lock more is nothing to the roster.                                    *)
LEMMA ClaimAsksNothing ==
    ASSUME NetworkInv, NEW a \in Admins, NEW ar \in Areas, ClaimArea(a, ar)
    PROVE  UNCHANGED <<OpenAreas, assigned, Requests>>
<1>1. admin[a] \in AdminLocal /\ UNCHANGED <<areas, assigned>>
  BY DEF ClaimArea, NetworkInv, NetworkTyped
<1>2. \A b \in Admins : /\ admin'[b].cmd = admin[b].cmd /\ admin'[b].driver = admin[b].driver
                        /\ admin'[b].areaIds = admin[b].areaIds
  BY <1>1 DEF ClaimArea, NetworkInv, NetworkTyped, AdminLocal
<1>3. \A b \in Admins : RequestOf(b)' = RequestOf(b)
  BY <1>2 DEF RequestOf
<1> QED
  BY <1>1, <1>3 DEF OpenAreas, GetAreaById, Requests

(* The end of a transaction is the end of its request.                      *)
LEMMA EndAnswers ==
    ASSUME NetworkInv, NEW a \in Admins, EndTransaction(a)
    PROVE  Requests' = [Requests EXCEPT ![a] = Roster!NoRequest]
<1>1. admin' = [admin EXCEPT ![a] = AdminResting]
  BY DEF EndTransaction
<1>2. Requests'[a] = Roster!NoRequest /\ \A b \in Admins \ {a} : Requests'[b] = Requests[b]
  BY <1>1, OneRequestChanges, RestingRequest
<1> QED
  BY <1>2 DEF Requests

(* A commit is a grant: at that moment every area asked for is open and free *)
(* or the driver's own, and the driver gets all of them.                    *)
LEMMA CommitGrants ==
    ASSUME NetworkInv, NEW a \in Admins, CreateDriver(a) \/ UpdateDriver(a) \/ AssignArea(a)
    PROVE  Roster!Grant(RequestOf(a))
<1>1. PICK cmd \in {"create", "update", "assign"} :
          /\ ClaimsHeld(a, cmd)
          /\ assigned' = (IF cmd = "update" THEN { p \in assigned : p[1] # admin[a].driver }
                          ELSE assigned) \cup Assigned(admin[a])
  BY DEF CreateDriver, UpdateDriver, AssignArea
<1>2. PICK as : as = Range(admin[a].areaIds)
  OBVIOUS
<1>3. PICK d : d = admin[a].driver
  OBVIOUS
<1>4. /\ d \in Drivers
      /\ \A p \in {d} \X as : lockedBy[p[2]] = a /\ MayHold(d, p[2])
  BY <1>1, <1>2, <1>3, AssignedWasClaimed DEF Assigned
<1>5. as \subseteq Areas
  BY <1>2, RangeOfAreas DEF NetworkInv, NetworkTyped, AdminLocal
<1>6. ASSUME NEW ar \in as PROVE MayHold(d, ar)
  <2>1. PICK p : p = <<d, ar>>
    OBVIOUS
  <2>2. p \in {d} \X as /\ p[2] = ar
    BY <2>1
  <2> QED
    BY <1>4, <2>2
<1>7. as \subseteq OpenAreas
  BY <1>5, <1>6 DEF MayHold, OpenAreas
<1>8. ASSUME NEW p \in assigned, p[2] \in as PROVE p[1] = d
  <2>1. p = <<p[1], p[2]>> /\ p[1] \in Drivers
    BY DEF NetworkInv, NetworkTyped
  <2>2. p[1] \in Holders(p[2])
    BY <2>1 DEF Holders
  <2>3. Holders(p[2]) \subseteq {d}
    BY <1>6, <1>8 DEF MayHold
  <2> QED
    BY <2>2, <2>3
<1>9. /\ RequestOf(a).driver = d /\ RequestOf(a).areas = as
      /\ RequestOf(a).replace <=> cmd = "update"
  BY <1>1, <1>2, <1>3 DEF RequestOf, ClaimsHeld
<1>10. assigned' = (IF RequestOf(a).replace THEN { p \in assigned : p[1] # d } ELSE assigned)
                       \cup ({d} \X as)
  BY <1>1, <1>2, <1>3, <1>9 DEF Assigned
<1> QED
  BY <1>7, <1>8, <1>9, <1>10 DEF Roster!Grant, Roster!MayTake, OpenAreas

(* So a transaction that ends decides about its request.                    *)
LEMMA EndDecides ==
    ASSUME NetworkInv, RestingInv, NEW a \in Admins,
           CreateDriver(a) \/ UpdateDriver(a) \/ AssignArea(a) \/ Rollback(a)
    PROVE  Roster!Decide(a)
<1>1. admin[a].cmd # "idle" /\ EndTransaction(a) /\ areas' = areas
  BY DEF CreateDriver, UpdateDriver, AssignArea, Rollback, ClaimsHeld
<1>2. Requests[a] = RequestOf(a) /\ Requests[a] # Roster!NoRequest
  BY <1>1, WhoAsks DEF Requests
<1>3. Requests' = [Requests EXCEPT ![a] = Roster!NoRequest]
  BY <1>1, EndAnswers
<1>4. Roster!Grant(Requests[a]) \/ UNCHANGED assigned
  BY <1>2, CommitGrants DEF Rollback
<1>5. UNCHANGED OpenAreas
  BY <1>1 DEF OpenAreas, GetAreaById
<1> QED
  BY <1>2, <1>3, <1>4, <1>5 DEF Roster!Decide, Requests, OpenAreas

(* Drivers who are deleted leave; that one is on duty or not is nothing to  *)
(* the roster.                                                              *)
LEMMA DriversLeave ==
    ASSUME NEW d \in Drivers, SoftDeleteDriver(d) \/ \E b \in BOOLEAN : SetDriverActive(d, b)
    PROVE  Roster!Leave(d) \/ UNCHANGED <<OpenAreas, assigned, Requests>>
<1>1. UNCHANGED <<areas, admin>>
  BY DEF SoftDeleteDriver, SetDriverActive
<1>2. UNCHANGED <<OpenAreas, Requests>>
  BY <1>1 DEF OpenAreas, GetAreaById, Requests, RequestOf
<1>3. assigned' = { p \in assigned : p[1] # d } \/ assigned' = assigned
  BY DEF SoftDeleteDriver, SetDriverActive
<1> QED
  BY <1>2, <1>3 DEF Roster!Leave, OpenAreas, Requests

(* An area is opened, closed with what its driver has of it, or stays open. *)
LEMMA AreasOpenAndClose ==
    ASSUME NetworkInv, NEW ar \in Areas,
           \/ SoftDeleteDeliveryArea(ar)
           \/ \E status \in AreaStatus \ {"absent", "deleted"} :
                  \/ CreateDeliveryArea(ar, status)
                  \/ \E confirm \in BOOLEAN : UpdateDeliveryArea(ar, status, confirm)
    PROVE  \/ Roster!OpenArea(ar) \/ Roster!CloseArea(ar)
           \/ UNCHANGED <<OpenAreas, assigned, Requests>>
<1>1. PICK status \in AreaStatus \ {"absent"} :
          /\ areas' = [areas EXCEPT ![ar] = status] /\ UNCHANGED admin
          /\ \/ status = "deleted" /\ GetAreaById(ar)
                  /\ assigned' = { p \in assigned : p[2] # ar }
             \/ status # "deleted" /\ assigned' = assigned
  BY DEF SoftDeleteDeliveryArea, CreateDeliveryArea, UpdateDeliveryArea, AreaStatus
<1>2. UNCHANGED Requests
  BY <1>1 DEF Requests, RequestOf
<1>3. \A x \in Areas : areas'[x] = IF x = ar THEN status ELSE areas[x]
  BY <1>1 DEF NetworkInv, NetworkTyped
<1>4. CASE status = "deleted"
  <2>1. ar \in OpenAreas /\ OpenAreas' = OpenAreas \ {ar}
    BY <1>1, <1>3, <1>4 DEF OpenAreas, GetAreaById
  <2> QED
    BY <1>1, <1>2, <1>4, <2>1 DEF Roster!CloseArea, OpenAreas, Requests
<1>5. CASE status # "deleted"
  <2>1. OpenAreas' = OpenAreas \cup {ar}
    BY <1>3, <1>5 DEF OpenAreas, GetAreaById
  <2>2. CASE ar \in OpenAreas
    BY <1>1, <1>2, <1>5, <2>1, <2>2
  <2>3. CASE ar \notin OpenAreas
    BY <1>1, <1>2, <1>5, <2>1, <2>3 DEF Roster!OpenArea, OpenAreas, Requests
  <2> QED
    BY <2>2, <2>3
<1> QED
  BY <1>4, <1>5

(* A restart refuses everybody.                                             *)
LEMMA RestartRefuses ==
    ASSUME Restart
    PROVE  Roster!RefuseAll
<1>1. /\ admin' = [a \in Admins |-> AdminResting]
      /\ UNCHANGED <<areas, assigned>>
  BY DEF Restart
<1>2. \A a \in Admins : RequestOf(a)' = Roster!NoRequest
  BY <1>1, RestingRequest DEF RequestOf
<1>3. Requests' = [a \in Admins |-> Roster!NoRequest]
  BY <1>2 DEF Requests
<1>4. UNCHANGED OpenAreas
  BY <1>1 DEF OpenAreas, GetAreaById
<1> QED
  BY <1>1, <1>3, <1>4 DEF Roster!RefuseAll, OpenAreas, Requests

(* A command ends as it began: with nothing remembered.                     *)
LEMMA RestingStep ==
    ASSUME NetworkInv, RestingInv, [Next]_vars
    PROVE  RestingInv'
<1>1. CASE admin' = [a \in Admins |-> AdminResting]
  BY <1>1 DEF RestingInv
<1>2. CASE \E a \in Admins : \E new : /\ admin' = [admin EXCEPT ![a] = new]
                                      /\ new.cmd = "idle" => new = AdminResting
  BY <1>2 DEF RestingInv, NetworkInv, NetworkTyped
<1>3. CASE UNCHANGED admin
  BY <1>3 DEF RestingInv
<1>4. ASSUME NEW a \in Admins, NEW cmd \in {"create", "update", "assign"}, NEW d,
             NEW isActive, NEW areaIds, Begin(a, cmd, d, isActive, areaIds)
      PROVE  RestingInv'
  <2>1. PICK new : new = [cmd |-> cmd, driver |-> d, isActive |-> isActive,
                          areaIds |-> areaIds, todo |-> Range(areaIds)]
    OBVIOUS
  <2>2. admin' = [admin EXCEPT ![a] = new] /\ new.cmd # "idle"
    BY <1>4, <2>1 DEF Begin
  <2> QED
    BY <1>2, <2>2
<1>5. ASSUME NEW a \in Admins, EndTransaction(a)
      PROVE  RestingInv'
  BY <1>2, <1>5 DEF EndTransaction
<1>6. ASSUME NEW a \in Admins, NEW ar \in Areas, ClaimArea(a, ar)
      PROVE  RestingInv'
  <2>1. PICK new : new = [admin[a] EXCEPT !.todo = @ \ {ar}]
    OBVIOUS
  <2>2. admin' = [admin EXCEPT ![a] = new]
    BY <1>6, <2>1 DEF ClaimArea, NetworkInv, NetworkTyped
  <2>3. new.cmd = admin[a].cmd /\ admin[a].cmd # "idle"
    BY <1>6, <2>1 DEF ClaimArea, IsNextToLock, NetworkInv, NetworkTyped, AdminLocal,
                      RestingAsksNothing
  <2> QED
    BY <1>2, <2>2, <2>3
<1>7. CASE BeginNetwork
  BY <1>3, <1>4, <1>7 DEF BeginNetwork, BeginCreateDriver, BeginUpdateDriver,
     BeginAssignDriverArea, SoftDeleteDriver, SetDriverActive, SoftDeleteDeliveryArea,
     CreateDeliveryArea, UpdateDeliveryArea
<1>8. CASE ContinueNetwork
  BY <1>5, <1>6, <1>8
     DEF ContinueNetwork, CreateDriver, UpdateDriver, AssignArea, Rollback
<1>9. CASE Restart
  BY <1>1, <1>9 DEF Restart
<1>10. CASE UNCHANGED network
  BY <1>3, <1>10 DEF network
<1>11. BeginNetwork \/ ContinueNetwork \/ Restart \/ UNCHANGED network
  BY DEF Next, Command, Continue, Expiry, PlanExpires, Tick, vars, network
<1> QED
  BY <1>7, <1>8, <1>9, <1>10, <1>11

(* Every step of the service is a step of the roster or nothing to it.      *)
LEMMA RosterStep ==
    ASSUME NetworkInv, RestingInv, [Next]_vars
    PROVE  Roster!Next \/ UNCHANGED <<OpenAreas, assigned, Requests>>
<1> USE NetworkStep, RestingStep
<1>1. ASSUME NEW a \in Admins, NEW cmd \in {"create", "update", "assign"}, NEW d \in Drivers,
             NEW isActive, NEW areaIds \in Seq(Areas), Begin(a, cmd, d, isActive, areaIds)
      PROVE  Roster!Next
  <2>1. Roster!Ask(a)
    BY <1>1, BeginAsks
  <2> QED
    BY <2>1 DEF Roster!Next
<1>2. CASE BeginNetwork
  <2>1. CASE \E a \in Admins, d \in Drivers : \E as \in SUBSET Areas :
               \E areaIds \in SetToSeqs(as) : BeginCreateDriver(a, d, areaIds)
    BY <1>1, <2>1, OrdersAreSequences DEF BeginCreateDriver
  <2>2. CASE \E a \in Admins, d \in Drivers : \E as \in SUBSET Areas :
               \E areaIds \in SetToSeqs(as) : \E isActive \in BOOLEAN :
                   BeginUpdateDriver(a, d, isActive, areaIds)
    BY <1>1, <2>2, OrdersAreSequences DEF BeginUpdateDriver
  <2>3. CASE \E a \in Admins, d \in Drivers : \E ar \in Areas : BeginAssignDriverArea(a, d, ar)
    <3>1. PICK a \in Admins, d \in Drivers, ar \in Areas : Begin(a, "assign", d, TRUE, <<ar>>)
      BY <2>3 DEF BeginAssignDriverArea
    <3>2. <<ar>> \in Seq(Areas)
      OBVIOUS
    <3> QED
      BY <1>1, <3>1, <3>2
  <2>4. CASE \E d \in Drivers : SoftDeleteDriver(d) \/ \E b \in BOOLEAN : SetDriverActive(d, b)
    BY <2>4, DriversLeave DEF Roster!Next
  <2>5. CASE \E ar \in Areas :
               \/ SoftDeleteDeliveryArea(ar)
               \/ \E status \in AreaStatus \ {"absent", "deleted"} :
                      \/ CreateDeliveryArea(ar, status)
                      \/ \E confirm \in BOOLEAN : UpdateDeliveryArea(ar, status, confirm)
    BY <2>5, AreasOpenAndClose DEF Roster!Next
  <2> QED
    BY <1>2, <2>1, <2>2, <2>3, <2>4, <2>5 DEF BeginNetwork
<1>3. CASE ContinueNetwork
  <2>1. CASE \E a \in Admins : \E ar \in Areas : ClaimArea(a, ar)
    BY <2>1, ClaimAsksNothing
  <2>2. CASE \E a \in Admins : CreateDriver(a) \/ UpdateDriver(a) \/ AssignArea(a) \/ Rollback(a)
    <3>1. PICK a \in Admins : Roster!Decide(a)
      BY <2>2, EndDecides
    <3> QED
      BY <3>1 DEF Roster!Next
  <2> QED
    BY <1>3, <2>1, <2>2 DEF ContinueNetwork
<1>4. CASE Restart
  BY <1>4, RestartRefuses DEF Roster!Next
<1>5. CASE UNCHANGED network
  BY <1>5 DEF network, OpenAreas, GetAreaById, Requests, RequestOf
<1>6. BeginNetwork \/ ContinueNetwork \/ Restart \/ UNCHANGED network
  BY DEF Next, Command, Continue, Expiry, PlanExpires, Tick, vars, network
<1> QED
  BY <1>2, <1>3, <1>4, <1>5, <1>6

(* The rows the service starts with are a roster with nothing asked for.    *)
LEMMA RosterInitially == Init => Roster!Init /\ RestingInv
<1> SUFFICES ASSUME Init PROVE Roster!Init /\ RestingInv
  OBVIOUS
<1>1. PICK start \in Starts : areas = start.areas /\ assigned = start.assigned
  BY DEF Init
<1>2. admin = [a \in Admins |-> AdminResting]
  BY DEF Init
<1>3. /\ assigned \subseteq Drivers \X Areas
      /\ \A p, q \in assigned : /\ p[2] = q[2] => p = q
                                /\ areas[p[2]] \notin {"absent", "deleted"}
  BY <1>1, StartsAssumption
<1>4. assigned \subseteq Drivers \X OpenAreas
  BY <1>3 DEF OpenAreas, GetAreaById
<1>5. \A a \in Admins : RequestOf(a) = Roster!NoRequest
  BY <1>2, RestingRequest DEF RequestOf
<1>6. Requests = [a \in Admins |-> Roster!NoRequest]
  BY <1>5 DEF Requests
<1>7. OpenAreas \in SUBSET Areas
  BY DEF OpenAreas
<1>8. Roster!Init
  BY <1>3, <1>4, <1>6, <1>7 DEF Roster!Init, OpenAreas, Requests
<1> QED
  BY <1>2, <1>8 DEF RestingInv

(* claimAreas: a transaction that takes its locks one after the other and   *)
(* writes at the end is as one step at which all it asks for is free and    *)
(* becomes its driver's, whatever other administrators, deletions and       *)
(* restarts come in between.                                                *)
THEOREM AssignmentsAreAtOnce == Spec => AssignsAtOnce
<1>1. Init => RestingInv /\ Roster!Init
  BY RosterInitially
<1>2. NetworkInv /\ RestingInv /\ [Next]_vars => RestingInv'
  BY RestingStep
<1>3. NetworkInv /\ RestingInv /\ [Next]_vars
          => [Roster!Next]_<<{ ar \in Areas : GetAreaById(ar) }, assigned,
                             [a \in Admins |-> RequestOf(a)]>>
  BY RosterStep DEF OpenAreas, Requests
<1> QED
  BY <1>1, <1>2, <1>3, NetworkAlways, PTL DEF Spec, AssignsAtOnce, Roster!Spec
==============================================================================

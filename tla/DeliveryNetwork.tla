--------------------------- MODULE DeliveryNetwork ---------------------------
(***************************************************************************)
(* Delivery areas and the drivers who hold them.  A command about a driver's *)
(* areas is one database transaction: it locks the row of each area it asks *)
(* for, one after the other, checks after each lock that no other driver    *)
(* holds the area, and writes at the end.  What it writes is seen by others *)
(* when it commits.                                                         *)
(***************************************************************************)
EXTENDS Naturals, Sequences, FiniteSets, SequencesExt

CONSTANTS
    Drivers,         \* users of role driver, there or still to be created
    Areas,           \* ids of delivery areas, numbers so that they have an order
    Admins,          \* commands of administrators in progress at once
    NoAdmin,         \* the row is not locked
    NoDriver

ASSUME NetworkAssumption ==
    /\ Areas \subseteq Nat /\ IsFiniteSet(Areas)
    /\ NoAdmin \notin Admins /\ NoDriver \notin Drivers

VARIABLES
    drivers,         \* the user of each driver: role driver, is_active, deleted_at
    areas,           \* the status of each area's row
    assigned,        \* driver_area_assignments
    lockedBy,        \* whose transaction holds the row lock of an area
    admin            \* where the command of an administrator is

DriverStatus == {"absent", "active", "inactive", "deleted"}
AreaStatus == {"absent", "active", "coming_soon", "paused", "deleted"}
AdminLocal == [cmd: {"idle", "create", "update", "assign"},
               driver: Drivers \cup {NoDriver}, isActive: BOOLEAN,
               areaIds: Seq(Areas), todo: SUBSET Areas]
AdminResting == [cmd |-> "idle", driver |-> NoDriver, isActive |-> TRUE,
                 areaIds |-> <<>>, todo |-> {}]

-----------------------------------------------------------------------------
GetDriverById(d) == drivers[d] \in {"active", "inactive"}
GetAreaById(ar) == areas[ar] \notin {"absent", "deleted"}
GetActiveAreas == { ar \in Areas : areas[ar] = "active" }
GetAssignedAreaIds(d) == { ar \in Areas : <<d, ar>> \in assigned }
Holders(ar) == { d \in Drivers : <<d, ar>> \in assigned }

(* The pages of the drivers leave out the areas that are deleted.           *)
AreasFor(d) == { ar \in GetAssignedAreaIds(d) : GetAreaById(ar) }
GetAdminDrivers == { <<d, AreasFor(d)>> : d \in { e \in Drivers : GetDriverById(e) } }
ListUnassignedAreas == { ar \in Areas : GetAreaById(ar) /\ Holders(ar) = {} }

(* The areas are locked in the order of their ids, whatever was asked for.  *)
IsNextToLock_asAsked(my, ar) ==
    \E i \in DOMAIN my.areaIds :
        /\ my.areaIds[i] = ar /\ ar \in my.todo
        /\ \A j \in 1 .. i - 1 : my.areaIds[j] \notin my.todo

IsNextToLock(my, ar) == ar \in my.todo /\ \A other \in my.todo : ar <= other

-----------------------------------------------------------------------------
(* What runs before the lock is repeated under it, so a command begins with *)
(* the driver found and the areas still there.                              *)
Begin(a, cmd, d, isActive, areaIds) ==
    /\ admin[a].cmd = "idle"
    /\ \A i \in DOMAIN areaIds : GetAreaById(areaIds[i])
    /\ admin' = [admin EXCEPT ![a] = [cmd |-> cmd, driver |-> d, isActive |-> isActive,
                     areaIds |-> areaIds, todo |-> Range(areaIds)]]
    /\ UNCHANGED <<drivers, areas, assigned, lockedBy>>

BeginCreateDriver(a, d, areaIds) ==
    drivers[d] = "absent" /\ Begin(a, "create", d, TRUE, areaIds)

BeginUpdateDriver(a, d, isActive, areaIds) ==
    GetDriverById(d) /\ Begin(a, "update", d, isActive, areaIds)

BeginAssignDriverArea(a, d, ar) ==
    GetDriverById(d) /\ Begin(a, "assign", d, TRUE, <<ar>>)

EndTransaction(a) ==
    /\ lockedBy' = [ar \in Areas |-> IF lockedBy[ar] = a THEN NoAdmin ELSE lockedBy[ar]]
    /\ admin' = [admin EXCEPT ![a] = AdminResting]

(* Nothing is written: the area is gone or has a holder, or the database or *)
(* the process gave up.                                                     *)
Rollback(a) ==
    /\ admin[a].cmd # "idle"
    /\ EndTransaction(a)
    /\ UNCHANGED <<drivers, areas, assigned>>

MayHold(d, ar) == GetAreaById(ar) /\ Holders(ar) \subseteq {d}

(* claimAreas: the lock of the next area, then the check of its holders.    *)
ClaimArea_unlocked(a, ar) ==
    /\ IsNextToLock(admin[a], ar)
    /\ MayHold(admin[a].driver, ar)
    /\ admin' = [admin EXCEPT ![a].todo = @ \ {ar}]
    /\ UNCHANGED <<drivers, areas, assigned, lockedBy>>

ClaimArea_insertsAtOnce(a, ar) ==
    /\ IsNextToLock(admin[a], ar)
    /\ lockedBy[ar] = NoAdmin
    /\ MayHold(admin[a].driver, ar)
    /\ lockedBy' = [lockedBy EXCEPT ![ar] = a]
    /\ assigned' = assigned \cup {<<admin[a].driver, ar>>}
    /\ admin' = [admin EXCEPT ![a].todo = @ \ {ar}]
    /\ UNCHANGED <<drivers, areas>>

ClaimArea(a, ar) ==
    /\ IsNextToLock(admin[a], ar)
    /\ lockedBy[ar] = NoAdmin
    /\ MayHold(admin[a].driver, ar)
    /\ lockedBy' = [lockedBy EXCEPT ![ar] = a]
    /\ admin' = [admin EXCEPT ![a].todo = @ \ {ar}]
    /\ UNCHANGED <<drivers, areas, assigned>>

ClaimsHeld(a, cmd) == admin[a].cmd = cmd /\ admin[a].todo = {}
Assigned(my) == {my.driver} \X Range(my.areaIds)
StatusOf(isActive) == IF isActive THEN "active" ELSE "inactive"

(* A second driver with the same phone is refused by the unique index.      *)
CreateDriver(a) ==
    LET my == admin[a] IN
    /\ ClaimsHeld(a, "create")
    /\ drivers[my.driver] = "absent"
    /\ drivers' = [drivers EXCEPT ![my.driver] = StatusOf(my.isActive)]
    /\ assigned' = assigned \cup Assigned(my)
    /\ EndTransaction(a)
    /\ UNCHANGED areas

(* The areas of the update replace those of the driver, who may have been   *)
(* deleted since the transaction began and stays so.                        *)
UpdateDriver(a) ==
    LET my == admin[a] IN
    /\ ClaimsHeld(a, "update")
    /\ drivers' = IF GetDriverById(my.driver)
                  THEN [drivers EXCEPT ![my.driver] = StatusOf(my.isActive)] ELSE drivers
    /\ assigned' = { p \in assigned : p[1] # my.driver } \cup Assigned(my)
    /\ EndTransaction(a)
    /\ UNCHANGED areas

AssignArea(a) ==
    /\ ClaimsHeld(a, "assign")
    /\ assigned' = assigned \cup Assigned(admin[a])
    /\ EndTransaction(a)
    /\ UNCHANGED <<drivers, areas>>

(* An update that names no areas claims none.                               *)
SetDriverActive(d, isActive) ==
    /\ GetDriverById(d)
    /\ drivers' = [drivers EXCEPT ![d] = StatusOf(isActive)]
    /\ UNCHANGED <<areas, assigned, lockedBy, admin>>

(* softDeleteDriver takes no area's lock.                                   *)
SoftDeleteDriver(d) ==
    /\ GetDriverById(d)
    /\ drivers' = [drivers EXCEPT ![d] = "deleted"]
    /\ assigned' = { p \in assigned : p[1] # d }
    /\ UNCHANGED <<areas, lockedBy, admin>>

-----------------------------------------------------------------------------
CreateDeliveryArea(ar, status) ==
    /\ areas[ar] = "absent"
    /\ areas' = [areas EXCEPT ![ar] = status]
    /\ UNCHANGED <<drivers, assigned, lockedBy, admin>>

(* The update and the delete wait for the row lock of a claim.              *)
UpdateDeliveryArea(ar, status, confirmActivation) ==
    /\ GetAreaById(ar)
    /\ status = "active" /\ areas[ar] # "active" => confirmActivation
    /\ lockedBy[ar] = NoAdmin
    /\ areas' = [areas EXCEPT ![ar] = status]
    /\ UNCHANGED <<drivers, assigned, lockedBy, admin>>

SoftDeleteDeliveryArea(ar) ==
    /\ GetAreaById(ar)
    /\ lockedBy[ar] = NoAdmin
    /\ areas' = [areas EXCEPT ![ar] = "deleted"]
    /\ assigned' = { p \in assigned : p[2] # ar }
    /\ UNCHANGED <<drivers, lockedBy, admin>>

BeginNetwork ==
    \/ \E a \in Admins, d \in Drivers :
           \/ \E as \in SUBSET Areas : \E areaIds \in SetToSeqs(as) :
                  \/ BeginCreateDriver(a, d, areaIds)
                  \/ \E isActive \in BOOLEAN : BeginUpdateDriver(a, d, isActive, areaIds)
           \/ \E ar \in Areas : BeginAssignDriverArea(a, d, ar)
    \/ \E d \in Drivers : SoftDeleteDriver(d) \/ \E b \in BOOLEAN : SetDriverActive(d, b)
    \/ \E ar \in Areas :
           \/ SoftDeleteDeliveryArea(ar)
           \/ \E status \in AreaStatus \ {"absent", "deleted"} :
                  \/ CreateDeliveryArea(ar, status)
                  \/ \E confirm \in BOOLEAN : UpdateDeliveryArea(ar, status, confirm)

ContinueNetwork ==
    \E a \in Admins : \/ CreateDriver(a) \/ UpdateDriver(a) \/ AssignArea(a)
                      \/ Rollback(a) \/ \E ar \in Areas : ClaimArea(a, ar)
==============================================================================

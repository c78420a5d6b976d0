------------------------------ MODULE Addresses ------------------------------
(***************************************************************************)
(* The addresses of the customers, in the areas and buildings that          *)
(* administrators keep.  A customer's command checks the area and the       *)
(* building first and then writes statement by statement, with no           *)
(* transaction; one command of a customer runs at a time.                   *)
(***************************************************************************)
EXTENDS DeliveryNetwork, FiniteSetsExt

CONSTANTS
    Customers,
    Buildings,
    NoArea,          \* the building is not there yet, or: keep the area
    Removed,         \* the building has been deleted
    NoBuilding,      \* the address has the building's name only
    MaxLocations     \* bound on the addresses of a customer

ASSUME AddressesAssumption ==
    /\ {NoArea, Removed} \cap Areas = {} /\ NoArea # Removed /\ NoBuilding \notin Buildings
    /\ MaxLocations \in Nat \ {0}

VARIABLES
    buildings,       \* the area of each row of buildings
    locations,       \* the rows of delivery_locations, numbered as they are created
    mover            \* where the command of a customer is

Location == [area: Areas, building: Buildings \cup {NoBuilding}, isPrimary: BOOLEAN]
Rows == UNION { [ids -> Location] : ids \in SUBSET (1 .. MaxLocations) }
MoverLocal == [cmd: {"idle", "save", "update", "delete", "primary"},
               pc: {"idle", "unset", "create", "set", "write", "destroy", "promote"},
               id: 0 .. MaxLocations, area: Areas \cup {NoArea},
               building: Buildings \cup {NoBuilding}, failed: BOOLEAN]

-----------------------------------------------------------------------------
IsBuilding(b) == buildings[b] \notin {NoArea, Removed}

AddBuilding(b, ar) ==
    /\ buildings[b] = NoArea /\ GetAreaById(ar)
    /\ buildings' = [buildings EXCEPT ![b] = ar]
    /\ UNCHANGED <<locations, mover>>

(* The database refuses to delete a building an address refers to.          *)
DeleteBuilding(b) ==
    /\ IsBuilding(b) /\ GetAreaById(buildings[b])
    /\ \A u \in Customers : \A i \in DOMAIN locations[u] : locations[u][i].building # b
    /\ buildings' = [buildings EXCEPT ![b] = Removed]
    /\ UNCHANGED <<locations, mover>>

GetBuildingsForArea(ar) == { b \in Buildings : GetAreaById(ar) /\ buildings[b] = ar }
BuildingMayBeReferred(b) == b # NoBuilding => IsBuilding(b)

-----------------------------------------------------------------------------
BeginMove(u, cmd, pc, id, ar, b) ==
    /\ mover[u].cmd = "idle"
    /\ mover' = [mover EXCEPT ![u] = [cmd |-> cmd, pc |-> pc, id |-> id, area |-> ar,
                     building |-> b, failed |-> mover[u].failed]]
    /\ UNCHANGED <<buildings, locations>>

StepMove(u, pc) ==
    mover' = [mover EXCEPT ![u].pc = pc, ![u].cmd = IF pc = "idle" THEN "idle" ELSE @]

(* A command cut short between its statements leaves no primary address.    *)
Interrupted(u) ==
    [mover[u] EXCEPT !.pc = "idle", !.cmd = "idle",
                     !.failed = @ \/ mover[u].pc \in {"create", "set", "promote"}]

(* The customer has a primary address again.                                *)
EndMove(u) ==
    mover' = [mover EXCEPT ![u].pc = "idle", ![u].cmd = "idle", ![u].failed = FALSE]

MaySaveLocation(ar, b) ==
    /\ areas[ar] = "active"
    /\ b # NoBuilding => buildings[b] = ar

BeginSaveDeliveryLocation(u, ar, b) ==
    /\ MaySaveLocation(ar, b)
    /\ MaxLocations \notin DOMAIN locations[u]
    /\ BeginMove(u, "save", "unset", 0, ar, b)

BeginSetPrimaryDeliveryLocation(u, i) ==
    /\ i \in DOMAIN locations[u]
    /\ BeginMove(u, "primary", "unset", i, NoArea, NoBuilding)

(* A building of another area is refused.  A new area alone, or a       *)
(* building's name alone, is meant to clear the reference to the building:  *)
(* the field is set to undefined, which Sequelize leaves out of the UPDATE. *)
BeginUpdateDeliveryLocation_anyBuilding(u, i, newArea, newBuilding) ==
    /\ i \in DOMAIN locations[u]
    /\ LET old == locations[u][i]
           ar == IF newArea = NoArea THEN old.area ELSE newArea
       IN  /\ ar # old.area => areas[ar] = "active"
           /\ newBuilding # NoBuilding => IsBuilding(newBuilding)
           /\ BeginMove(u, "update", "write", i, ar,
                        IF newBuilding = NoBuilding THEN old.building ELSE newBuilding)

BeginUpdateDeliveryLocation_writesInput(u, i, newArea, newBuilding) ==
    /\ i \in DOMAIN locations[u]
    /\ newArea # NoArea => areas[newArea] = "active"
    /\ newBuilding # NoBuilding => IsBuilding(newBuilding)
    /\ BeginMove(u, "update", "write", i, newArea, newBuilding)

BeginUpdateDeliveryLocation(u, i, newArea, newBuilding) ==
    /\ i \in DOMAIN locations[u]
    /\ LET old == locations[u][i]
           ar == IF newArea = NoArea THEN old.area ELSE newArea
       IN  /\ ar # old.area => areas[ar] = "active"
           /\ newBuilding # NoBuilding => buildings[newBuilding] = ar
           /\ BeginMove(u, "update", "write", i, ar,
                        IF newBuilding = NoBuilding THEN old.building ELSE newBuilding)

BeginDeleteDeliveryLocation(u, i) ==
    /\ i \in DOMAIN locations[u]
    /\ BeginMove(u, "delete", "destroy", i, NoArea, NoBuilding)

-----------------------------------------------------------------------------
UnsetPrimary(u) ==
    /\ mover[u].pc = "unset"
    /\ locations' = [locations EXCEPT ![u] =
                        [i \in DOMAIN @ |-> [@[i] EXCEPT !.isPrimary = FALSE]]]
    /\ StepMove(u, IF mover[u].cmd = "save" THEN "create" ELSE "set")
    /\ UNCHANGED buildings

NewId(u) == Max({0} \cup DOMAIN locations[u]) + 1

(* The insert fails when its building has been deleted meanwhile.           *)
CreateLocation(u) ==
    LET my == mover[u]
        new == [area |-> my.area, building |-> my.building, isPrimary |-> TRUE]
    IN  /\ my.pc = "create"
        /\ \/ /\ BuildingMayBeReferred(my.building)
              /\ locations' = [locations EXCEPT ![u] =
                     [i \in DOMAIN @ \cup {NewId(u)} |-> IF i \in DOMAIN @ THEN @[i] ELSE new]]
              /\ EndMove(u)
           \/ /\ ~BuildingMayBeReferred(my.building)
              /\ mover' = [mover EXCEPT ![u] = Interrupted(u)]
              /\ UNCHANGED locations
        /\ UNCHANGED buildings

SetPrimary(u) ==
    /\ mover[u].pc = "set"
    /\ locations' = [locations EXCEPT ![u][mover[u].id].isPrimary = TRUE]
    /\ EndMove(u)
    /\ UNCHANGED buildings

UpdateLocation(u) ==
    LET my == mover[u] IN
    /\ my.pc = "write"
    /\ locations' = IF BuildingMayBeReferred(my.building)
                    THEN [locations EXCEPT ![u][my.id].area = my.area,
                                           ![u][my.id].building = my.building]
                    ELSE locations
    /\ StepMove(u, "idle")
    /\ UNCHANGED buildings

DestroyLocation(u) ==
    LET my == mover[u] IN
    /\ my.pc = "destroy"
    /\ locations' = [locations EXCEPT ![u] = [i \in DOMAIN @ \ {my.id} |-> @[i]]]
    /\ StepMove(u, IF locations[u][my.id].isPrimary THEN "promote" ELSE "idle")
    /\ UNCHANGED buildings

(* The newest of the remaining addresses takes over.                        *)
PromoteNewest(u) ==
    /\ mover[u].pc = "promote"
    /\ locations' = IF DOMAIN locations[u] = {} THEN locations
                    ELSE [locations EXCEPT ![u][Max(DOMAIN locations[u])].isPrimary = TRUE]
    /\ EndMove(u)
    /\ UNCHANGED buildings

BeginAddress ==
    \/ \E b \in Buildings : DeleteBuilding(b) \/ \E ar \in Areas : AddBuilding(b, ar)
    \/ \E u \in Customers, b \in Buildings \cup {NoBuilding} :
           \/ \E ar \in Areas : BeginSaveDeliveryLocation(u, ar, b)
           \/ \E ar \in Areas \cup {NoArea}, i \in 1 .. MaxLocations :
                  BeginUpdateDeliveryLocation(u, i, ar, b)
    \/ \E u \in Customers, i \in 1 .. MaxLocations :
           \/ BeginSetPrimaryDeliveryLocation(u, i)
           \/ BeginDeleteDeliveryLocation(u, i)

ContinueAddress ==
    \E u \in Customers : \/ UnsetPrimary(u) \/ CreateLocation(u) \/ SetPrimary(u)
                         \/ UpdateLocation(u) \/ DestroyLocation(u) \/ PromoteNewest(u)

-----------------------------------------------------------------------------
GetSavedDeliveryLocation(u) == DOMAIN locations[u]
PrimaryLocations(u) == { i \in DOMAIN locations[u] : locations[u][i].isPrimary }
==============================================================================

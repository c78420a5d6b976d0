SPECIFICATION Spec
CONSTANTS
    d1 = d1
    d2 = d2
    u1 = u1
    b1 = b1
    b2 = b2
    LastDate = 1
    WorkingDays = {1}
    Hours <- DayAndEvening
    Drivers = {d1, d2}
    Areas = {1, 2}
    Admins = {a1, a2}
    NoAdmin = NoAdmin
    NoDriver = NoDriver
    Customers = {u1}
    Buildings = {b1, b2}
    NoArea = NoArea
    Removed = Removed
    NoBuilding = NoBuilding
    MaxLocations = 2
    Staff = {s1, s2}
    Issues = {i1}
    NoIssue = NoIssue
    NoCustomer = NoCustomer
    Starts <- EarlyAndLate
    MaxCommands = 3
SYMMETRY Interchangeable
CHECK_DEADLOCK FALSE
INVARIANTS
    TypeOK
    OneDriverPerArea
    OneDriverPerStop
    NoLockCycle
    OffersAreAccepted
    CreditedHasMoney
PROPERTIES
    AddressIsSound
    StagesOnlyAdvance
    AssignsAtOnce

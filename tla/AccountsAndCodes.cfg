SPECIFICATION Spec
CONSTANTS
    u1 = u1
    u2 = u2
    a1 = a1
    Users = {u1, u2, a1}
    NoUser = NoUser
    Role <- RoleOf
    Addresses = {1, 2}
    Plans = {"try_it", "week", "month"}
    NoPlan = NoPlan
    Handlers = {h1, h2}
    MaxRequests = 3
    OtpExpiry = 1
    OtpWindow = 2
    OtpLock = 3
    MaxTime = 4
    Price <- PriceOf
    Shopper = u1
    Codes <- AllCodes
    NoCode = NoCode
    CodeType <- TypeOf
    Discount <- DiscountOf
    ValidFor <- ValidForPlan
    Owner <- OwnerOf
    Retired = {"retired"}
    MaxPromoAttempts = 2
    Credits = {3}
    MaxSessions = 2
    Starts <- FourStarts
    Allotments <- AllAllotments
SYMMETRY Interchangeable
CHECK_DEADLOCK FALSE
INVARIANTS
    TypeOK
    CodesAreLimited
    DeletedIsEmpty
    PricesAreFair

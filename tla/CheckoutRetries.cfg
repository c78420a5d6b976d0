SPECIFICATION Spec
CONSTANTS
    None = None
    Checkouts = {c1, c2}
    Requests = {r1, r2}
    Hooks = {k1}
    Jobs = {j1}
    Price = 2
    Balances = {1, 4}
    MaxTopUps = 0
    MaxFaults = 1
    Overlap = FALSE
    CardKept = FALSE
    ReferralCode = TRUE
SYMMETRY Symmetry
INVARIANTS
    TypeOK
    NoOrderWithoutPayment
    SuccessIsPaidInFull
    OneChargePerSession
    FailedIsNotCharged
    OneOrderPerSession
    NeverPaysTwice
    OneSubscription
PROPERTIES
    SuccessIsFinal

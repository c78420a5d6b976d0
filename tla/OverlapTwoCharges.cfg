SPECIFICATION Spec
CONSTANTS
    None = None
    Checkouts = {c1}
    Requests = {r1, r2}
    Hooks = {}
    Jobs = {}
    Price = 2
    Balances = {0, 1, 4}
    MaxTopUps = 0
    MaxFaults = 0
    Overlap = TRUE
    CardKept = TRUE
    ReferralCode = FALSE
CHECK_DEADLOCK FALSE
INVARIANTS
    OneChargePerSession

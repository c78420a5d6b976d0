SPECIFICATION Spec
CONSTANTS
    None = None
    Checkouts = {c1}
    Requests = {r1}
    Hooks = {k1}
    Jobs = {}
    Price = 3
    Balances = {0, 2, 6}
    MaxTopUps = 2
    MaxFaults = 1
    Overlap = TRUE
    CardKept = FALSE
    ReferralCode = TRUE
CHECK_DEADLOCK FALSE
INVARIANTS
    SuccessIsServed
    DebitedOnce

SPECIFICATION FairSpec
CONSTANTS
    None = None
    Checkouts = {c1, c2}
    Requests = {r1, r2}
    Hooks = {}
    Jobs = {j1}
    Price = 2
    Balances = {0}
    MaxTopUps = 0
    MaxFaults = 0
    Overlap = FALSE
    CardKept = TRUE
    ReferralCode = FALSE
PROPERTIES
    PaidIsServed

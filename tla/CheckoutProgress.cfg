SPECIFICATION FairSpec
CONSTANTS
    None = None
    Checkouts = {c1}
    Requests = {r1, r2}
    Hooks = {k1}
    Jobs = {j1}
    Price = 2
    Balances = {0, 1, 4}
    MaxTopUps = 0
    MaxFaults = 1
    Overlap = FALSE
    CardKept = TRUE
    ReferralCode = FALSE
PROPERTIES
    PaidIsServed
    ImplementsPurchase

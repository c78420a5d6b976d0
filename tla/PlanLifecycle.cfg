SPECIFICATION FairSpec
CONSTANTS
    LastDate = 6
    WorkingDays <- Week
    Hours <- DayAndEvening
    Handlers = {h1}
    Plans <- TwoPlans
    MealCount <- MealCounts
    FlexAllowed <- FlexDays
    StartDate = 1
    MaxCommands = 4
CHECK_DEADLOCK FALSE
INVARIANTS
    TypeOK
    NoMealLost
    FlexCovers
    
    OfferedIsAccepted
PROPERTIES
    ExpiredIsOver
    DeliveredIsFinal
    EveryPlanExpires

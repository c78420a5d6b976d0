SPECIFICATION Spec
CONSTANTS
    w1 = w1
    m1 = m1
    m2 = m2
    m3 = m3
    LastDate = 1
    WorkingDays = {1}
    Hours <- WholeDay
    NoPending = NoPending
    NoSlot = NoSlot
    Weeks = {w1}
    DeliveryDates <- OneDay
    UnlockedAt <- FromStart
    MaxDishes = 2
    MealIds = {m1, m2, m3}
    Edits <- NewValues
    Fields = {"name", "photo"}
    Values <- TwoValues
    Cooks = {c1}
    Editors = {e1}
    Starts <- NothingOrAMenu
    Allotments <- AllAllotments
CHECK_DEADLOCK FALSE
INVARIANTS
    TypeOK
    PublishedStaysReady
    KitchenAgrees
    OffersAreAccepted
PROPERTIES
    ChoiceLockedAtCutoff
    EditsSurvive

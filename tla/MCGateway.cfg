SPECIFICATION MCSpec
CONSTANTS
    Threshold = 3
    Window = 3
    Cooldown = 4
    Quotas = {0, 2, 4, 6}
    Resets = {0, 2}
    Budget = 2
    Delay = 1
    MaxUntimed = 1
    Nothing = Nothing
    Metered <- MCMetered
    Selectable = {"a", "b"}
    MaxSafe = 4000
    PricedRequests <- MCPriced
INVARIANTS RequestsAreSound RecordsAreTrue BillsAreExact
PROPERTIES CooldownsAreJust EveryTimedRequestAnswers
CHECK_DEADLOCK FALSE

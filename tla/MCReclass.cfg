SPECIFICATION KSpec
CONSTANTS
    eth = eth
    a1 = a1
    c1 = c1
    c2 = c2
    d1 = d1
    d2 = d2
    t1 = t1
    t2 = t2
    e1 = e1
    id1 = id1
    None = None
    Parts = {eth, a1, t1, t2}
    Chains <- OneChain
    ToLower <- MCToLower
    Thresholds <- MCThresholds
    Calls = {c1, c2}
    Txs <- TwoTxs
    Addresses <- OneAddress
    Vendor = "chainalysis"
    Answers <- ScoreAnswers
    MaxCrashes = 1
    Deliveries = {d1, d2}
    HookEvents = {e1}
    EventAddress <- OneEventAddress
    EventId <- OneEventId
SYMMETRY Symmetry
INVARIANTS
    KTypeOK
    OneAlertPerEventAndProcess
    LateAllowIsOld
    StaleEntriesExplained
    ReviewCoversEarlierAllows

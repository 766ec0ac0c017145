SPECIFICATION Spec
CONSTANTS
    eth = eth
    a1 = a1
    a2 = a2
    c1 = c1
    c2 = c2
    c3 = c3
    t1 = t1
    t2 = t2
    None = None
    Parts = {eth, a1, a2, t1, t2}
    Chains <- OneChain
    ToLower <- OneToLower
    Thresholds <- MCThresholds
    Calls = {c1, c2, c3}
    Txs <- TwoTxs
    Addresses <- OneAddress
    Vendor = "trm"
    Answers <- ScoreAnswers
    MaxCrashes = 1
SYMMETRY CallTxSymmetry
INVARIANT AllowIsVouched

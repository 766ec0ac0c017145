SPECIFICATION Spec
CONSTANTS
    eth = eth
    ETH = ETH
    a1 = a1
    a2 = a2
    None = None
    Parts = {eth, ETH, a1, a2}
    Chains <- MCChains
    ToLower <- MCToLower
    Addresses <- MCAddresses
    Scores <- MCScores
    Configs <- MCConfigs
    Backends = {"memory", "redis", "pg"}
    MaxClock = 3
    MaxRestarts = 1
INVARIANTS
    TypeOK
    HitsFollowTTL
    DecisionsFollowScores
PROPERTY ImplementsAddressCache

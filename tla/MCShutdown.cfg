SPECIFICATION SFairSpec
CONSTANTS
    Events = {r1, r2, g1}
    RestCalls = {r1, r2}
    QueueSize = 2
    Sinks = {"db", "kafka", "memory"}
INVARIANTS
    STypeOK
    EveryEventCounted
    SunkInOrder
    StoresOutliveCalls
    AtMostOneLate
PROPERTIES
    QuietAfterClose
    QueueDrains
    ShutdownEnds

SPECIFICATION Spec
CONSTANTS
    Alerts = {x1, x2}
    Ops = {o1, o2, o3}
    People = {ann, bob}
    None = None
INVARIANTS
    TypeOK
    ClosedBySomebody
PROPERTIES
    UnracedIsAtomic
    EndedCloseHolds

SPECIFICATION OrderSpec
CONSTANTS
    Orders = {o1}
    Drivers = {d1, d2}
    Sessions = {s1, s2}
    Keys = {k1}
    Volumes = {1}
    EditSets <- RowEdits
    NewKinds = {"regular", "ttn_l", "transport"}
    Requests = {"claim", "update", "reschedule", "ack", "archive", "delete"}
    NoDriver = NoDriver
    NoSession = NoSession
    NoKey = NoKey
INVARIANTS TypeOK DeliveryHoldsLock StatusTrail 
PROPERTIES LockedRowStable ArchivedKeepsStatus ImplementsLifecycle
SYMMETRY Interchangeable
CHECK_DEADLOCK FALSE

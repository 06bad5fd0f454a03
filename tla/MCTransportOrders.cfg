SPECIFICATION TransportSpec
CONSTANTS
    Orders = {o1}
    Drivers = {d1}
    Sessions = {s1, s2}
    Keys = {k1}
    Volumes = {1}
    EditSets <- NoEdits
    NewKinds = {"transport"}
    Requests = {}
    NoDriver = NoDriver
    NoSession = NoSession
    NoKey = NoKey
INVARIANTS TransitionsSerial
SYMMETRY Interchangeable
CHECK_DEADLOCK FALSE

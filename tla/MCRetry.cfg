SPECIFICATION FulfilmentSpec
CONSTANTS
    Orders = {o1}
    Drivers = {d1}
    Sessions = {s1}
    Keys = {}
    Volumes = {20}
    EditSets <- NoEdits
    NewKinds = {"regular"}
    Requests = {"claim"}
    NoDriver = NoDriver
    NoSession = NoSession
    NoKey = NoKey
    Trips = {t1, t2}
    Handlers = {h1, h2}
    NoHandler = NoHandler
    Ops = {"create", "start", "complete"}
PROPERTIES RetryPossible
SYMMETRY Interchangeable
CHECK_DEADLOCK FALSE

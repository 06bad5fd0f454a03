SPECIFICATION FulfilmentSpec
CONSTANTS
    Orders = {o1}
    Drivers = {d1}
    Sessions = {s1}
    Keys = {}
    Volumes = {19, 20}
    EditSets <- NoEdits
    NewKinds = {"regular", "transport"}
    Requests = {"claim", "delete"}
    NoDriver = NoDriver
    NoSession = NoSession
    NoKey = NoKey
    Trips = {t1, t2}
    Handlers = {h1, h2}
    NoHandler = NoHandler
    Ops = {"create", "start", "complete", "cancel"}
INVARIANTS TripsMatchOrders FactIsBooked
SYMMETRY Interchangeable
CHECK_DEADLOCK FALSE

SPECIFICATION DeliverySpec
CONSTANTS
    Orders = {o1}
    Trips = {a, b}
    Handlers = {h1, h2}
    Planned = {20}
    Actual = {19, 20, 22}
    Deltas <- OneLitre
    StockBound = 1
    Ops = {"auto", "create", "start", "complete", "cancel", "purge", "reconcile"}
    Numbers = {a, b}
    Vehicles = {v1}
    GpsRequests = {h1, h2}
    NoVehicle = NoVehicle
    MaxAuto = 1
    MinInterval = 2
    MaxEntries = 2
    MaxWrong = 1
    WrongWindow = 2
    Skew = 1
    Retention = 0
    Claims <- NoClaimOrMidnight
    MaxTime = 2
    MaxIssued = 3
    MaxGpsReqs = 3
    Polygons <- Drawn
    ZoneFees = {1}
    NoFee = NoFee
    Places <- OnTheMap
    MaxZones = 2
INVARIANTS LedgerOK FleetOK
PROPERTIES StockFollowsJournal CompletingTripStable
SYMMETRY Interchangeable
CHECK_DEADLOCK FALSE

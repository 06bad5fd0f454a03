SPECIFICATION TanksSpec
CONSTANTS
    Tanks = {1, 2}
    Orders = {o1}
    Sessions = {s1, s2}
    Modulus = 3
    Amounts = {1}
    Levels = {0}
    FirstReadings = {2}
    MaxRows = 3
    NoOrder = NoOrder
    NoTank = 0
INVARIANTS MeterOK TransfersPair NoTransferCircle
PROPERTIES VolumeFollowsJournal
SYMMETRY Interchangeable
CHECK_DEADLOCK FALSE

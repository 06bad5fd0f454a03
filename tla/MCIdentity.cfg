SPECIFICATION IdentitySpec
CONSTANTS
    Devices = {u1, u2}
    Refreshes = {r1, r2}
    MaxToken = 4
    Lifetime <- MCLifetime
    MaxSecond = 4
    CodeRequests = {r1, r2}
    HourCap = 1
    MaxMisses = 2
    MaxCode = 3
    Logins = {r1, r2, l3}
    Thresholds <- MCThresholds
    MaxFailures = 6
    MaxLost = 1
    UserIds = {u1, u2}
    Phones <- MCPhones
    AccountReqs = {r1, r2}
    MaxMember = 2
SYMMETRY IdentitySymmetry
INVARIANTS IdentityTypeOK  LimitsHold PeopleOK ContextAgrees
CHECK_DEADLOCK FALSE

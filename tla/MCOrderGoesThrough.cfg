SPECIFICATION PaperworkSpec
CONSTANTS
    Orders = {o1, o2}
    DocRequests = {q1, q2}
    Names = {n1}
    Amounts = {1, 2}
    MaxDoc = 2
    MaxDocReqs = 0
    Clients = {k1}
    Organizations = {o1, o2}
    ContractReqs = {q1, q2}
    MaxContractNo = 2
    MaxMonth = 0
    MaxContractReqs = 2
    Owners = {k1}
    Addresses = {o1, o2}
    Contacts = {p1, p2}
    Cap = 1
    ObjectReqs = {q1, q2}
    MaxObjectReqs = 0
    Requisites = {o1, o2}
    SellerReqs = {q1, q2}
    MaxVersion = 0
    FuelCodes = {o1, o2}
    Labels = {b1, b2}
    CatalogueReqs = {q1, q2}
    MaxEdits = 0
    Tariff = {o1, o2}
    Fuels = {n1}
    Prices = {1, 2}
    Markups = {1}
    TariffReqs = {q1, q2}
    MaxTariffReqs = 0
    VolScale = 2
    Volumes = {2, 7}
    LitrePrices = {3}
    ManualPrices = {3}
    ZonePrices = {4}
    Deliveries = {0, 3}
    TypedSums = {10}
    TierFrom = 7
    TierDiscount = 10
    Vat = 22
    NoSum = NoSum
    MaxMoneyReqs = 0
SYMMETRY PaperworkSymmetry
INVARIANT OrderGoesThrough
CHECK_DEADLOCK FALSE

SPECIFICATION PaySpec
CONSTANTS
    Orders = {o1}
    PaymentIds = {1, 2}
    Sessions = {s1, s2}
    Keys = {k1}
    Prices = {3}
    Amounts = {2}
    Overrides = {"auto", "hold"}
    NoKey = NoKey
    NoPayment = 0
    Ops = {"cancel", "edit", "deliver"}
INVARIANTS PaymentsOK
PROPERTIES PaidIsKept RecordSettles
SYMMETRY Interchangeable
CHECK_DEADLOCK FALSE

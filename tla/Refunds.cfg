SPECIFICATION Spec
CONSTANTS
    f1 = f1
    f2 = f2
    p1 = p1
    x1 = x1
    None = None
    Payments = {p1}
    Strays = {x1}
    Fees = {f1, f2}
    PaymentOf <- OnePayment
    Issuers = {i1, i2}
    Rows = {w1, w2}
    Refs = {r1, r2}
INVARIANTS
    TypeOK
    RefundedOnce
    UnpaidIsExplained
    ReturnedIsUnpaid
    ConfirmedHasArrived
PROPERTIES
    RefundGetsRecorded
    RefundGetsConfirmed
CHECK_DEADLOCK FALSE

SPECIFICATION Spec
CONSTANTS
    alice = alice
    bob = bob
    t1 = t1
    t2 = t2
    None = None
    Users = {alice, bob}
    Tabs = {t1, t2}
    TabUser <- OneTabEach
    Slots = {s1, s2}
    Regs = {r1, r2}
    Payments = {p1, p2}
    Intents = {i1, i2}
    Hazards = {"window"}
SYMMETRY Symmetry
INVARIANTS
    ReservedExactlyPaid
PROPERTIES
    NoInFlightPaymentDropped
    IsSignUp
CHECK_DEADLOCK FALSE

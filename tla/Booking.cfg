SPECIFICATION OrderedSpec
CONSTANTS
    alice = alice
    bob = bob
    t1 = t1
    t2 = t2
    None = None
    Users = {alice, bob}
    Tabs = {t1, t2}
    TabUser <- TwoTabsOfOne
    Slots = {s1, s2}
    Regs = {r1, r2}
    Payments = {p1, p2}
    Intents = {i1, i2}
    Hazards = {}
INVARIANTS
    ChargeIsRecorded
    ChargeHasPlace
    NoDuplicateCharge
PROPERTIES
    IsLedger
    CaptureIsConfirmed
    HoldEnds
CHECK_DEADLOCK FALSE

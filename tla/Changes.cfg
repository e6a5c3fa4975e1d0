SPECIFICATION Spec
CONSTANTS
    s1 = s1
    s2 = s2
    s3 = s3
    early = early
    late = late
    north = north
    south = south
    None = None
    Golfers = {alice, bob}
    Slots = {s1, s2, s3}
    TeeTime <- TwoTees
    Course <- TwoCourses
    Asked = {north}
    Regs = {r1, r2}
    Fees = {f1, f2}
    Clerks = {c1, c2}
SYMMETRY Symmetry
INVARIANTS
    TypeOK
    FeesFollowGolfers
    SeatsArePaid
PROPERTIES
    KeepsCourse
    SeatsKept
CHECK_DEADLOCK FALSE

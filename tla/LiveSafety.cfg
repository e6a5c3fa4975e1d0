SPECIFICATION Spec
CONSTANTS
    None = None
    Tabs = {t1, t2}
    Conns = {c1, c2}
    MaxRev = 1
    MaxWave = 1
    Hazards = {"slow", "errors", "silent", "crash"}
SYMMETRY Symmetry
INVARIANTS
    TypeOK
    EntryOutlivesSubscribers
    NoNoticeLost
PROPERTIES
    ConnectedNeverBack

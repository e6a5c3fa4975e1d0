SPECIFICATION Spec
CONSTANTS
    results = results
    pairings = pairings
    Old = Old
    None = None
    Ops = {o1, o2, o3}
    Tables = {results, pairings}
    ActionOf <- ActionOfTable
INVARIANTS
    TypeOK
    OneAtATime
    NoDoubleRows
    ResultsSurvive
PROPERTIES
    StreamsEnd
CHECK_DEADLOCK FALSE

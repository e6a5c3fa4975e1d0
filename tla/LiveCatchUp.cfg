SPECIFICATION FairSpec
CONSTANTS
    None = None
    Tabs = {t1}
    Conns = {c1}
    MaxRev = 2
    MaxWave = 2
    Hazards = {"slow", "crash"}
PROPERTIES
    ConnectedCatchUp
    WaveIsAnnounced

SPECIFICATION Spec
CONSTANTS
    Waves = 3
    FirstTotal = 4
    MaxTotal = 5
    PriorityStart = 1
    SignupStart = 6
    SignupEnd = 8
    LastTick = 9
    Lag = 1
    Tabs = {t1}
    Skews <- RightAndWrong
    MaxMail = 2
    Users = {u1, u2, u3}
    Maximum = 2
    GroupSize = 2
INVARIANTS
    TypeOK
    NoRefusedOffer
    WavesArePunctual
    OnlyRacesOverbook
PROPERTIES
    EveryGroupOpens
CHECK_DEADLOCK FALSE

SPECIFICATION FairSpec
CONSTANTS
    a = a  b = b
    Users = {a, b}
    Window = 2
    MaxResends = 1
    MaxTries = 2
    MaxMail = 3
    Starts <- AllScenarios
INVARIANTS WindowHonest PongAtOnce
PROPERTIES Heals Quiesces
CHECK_DEADLOCK FALSE

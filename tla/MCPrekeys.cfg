SPECIFICATION Spec
CONSTANTS
    p1 = p1  p2 = p2
    Peers = {p1, p2}
    Owner = Owner
    Mallory = Mallory
    None = None
    Batch = 2
    LowWater = 1
    MaxAge = 2
    Grace = 1
    HelloFirst = FALSE
    Knows = {p1}
    MaxClock = 4
    Budgets <- AllBudgets
INVARIANTS SecretsAgree SingleUse AuthenticOpen NotResurrected
CHECK_DEADLOCK FALSE

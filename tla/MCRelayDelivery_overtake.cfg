SPECIFICATION Spec
CONSTANTS
    alice = alice  bob = bob
    a1 = a1  b1 = b1
    None = None
    Nicks = {alice, bob}
    Socks = {a1, b1}
    Accounts <- OneEach
    HistoryLimit = 50
    DrainCap = 400
    MaxMessages = 2
    MaxAgain = 0
    MaxFailures = 0
INVARIANT NeverLost
CHECK_DEADLOCK FALSE

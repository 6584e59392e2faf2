SPECIFICATION FairSpec
CONSTANTS
    alice = alice  bob = bob
    a1 = a1  b1 = b1
    None = None
    Nicks = {alice, bob}
    Socks = {a1, b1}
    Accounts <- TwoAccounts
    HistoryLimit = 1
    DrainCap = 1
    MaxMessages = 2
    MaxAgain = 2
    MaxFailures = 1
INVARIANTS TakenAccounted OnlineServing
PROPERTIES CursorMonotonic ImplementsMailbox EventuallyRead
CHECK_DEADLOCK FALSE

SPECIFICATION FairSpec
CONSTANTS
    alice = alice  bob = bob
    Users = {alice, bob}
    Keys = {1, 2, 3}
    FirstKey <- AliceFirst
    MaxAdoptions = 2
    Budgets <- AllBudgets
INVARIANTS TypeOK AttestationTrue RecordTrue Readable LoopCut
PROPERTIES GateHolds GateOpens
CHECK_DEADLOCK FALSE

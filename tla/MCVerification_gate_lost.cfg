SPECIFICATION Spec
CONSTANTS
    alice = alice  bob = bob
    Users = {alice, bob}
    Keys = {1, 2, 3}
    FirstKey <- AliceFirst
    MaxAdoptions = 2
    Budgets <- OneLogout
PROPERTY SentOnlyVerified
CHECK_DEADLOCK FALSE

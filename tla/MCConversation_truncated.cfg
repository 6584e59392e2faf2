SPECIFICATION Spec
CONSTANTS
    alice = alice  bob = bob
    Users = {alice, bob}
    Chunks = 2
    Starts <- Interrupted
INVARIANT FileComplete
CHECK_DEADLOCK FALSE

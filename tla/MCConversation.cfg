SPECIFICATION Spec
CONSTANTS
    alice = alice  bob = bob
    Users = {alice, bob}
    Chunks = 2
    Starts <- AllStarts
INVARIANTS Accounted NothingStranded InOrder  EditsConverge TombstonesAsked RetractionsTake   IndicatorHonest FileWhole
CHECK_DEADLOCK FALSE

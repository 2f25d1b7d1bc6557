SPECIFICATION Spec
CONSTANTS
    Threads = {h1, h2, h3}
    Backlog = 1
    MaxBatches = 1
    MaxGenerators = 2
    Budget <- ThreeMasters
    None = None
SYMMETRY ThreadSymmetry
CHECK_DEADLOCK FALSE
INVARIANTS TypeOK OneThreadForWork OneGenerator WorkIsTaken MastersAreServed NothingLeftBehind

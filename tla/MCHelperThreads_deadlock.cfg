SPECIFICATION Spec
CONSTANTS
    Threads = {h1, h2}
    Backlog = 0
    MaxBatches = 1
    MaxGenerators = 1
    Budget <- TwoPromises
    None = None
CHECK_DEADLOCK FALSE
INVARIANT MastersAreServed

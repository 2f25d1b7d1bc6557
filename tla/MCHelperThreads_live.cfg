SPECIFICATION Spec
CONSTANTS
    Threads = {h1, h2}
    Backlog = 1
    MaxBatches = 1
    MaxGenerators = 1
    Budget <- OneOfEach
    None = None
CHECK_DEADLOCK FALSE
PROPERTY WaitsEnd

SPECIFICATION Spec
CONSTANTS
    Tasks = {t1, t2, t3}
    NoTask = NoTask
    MaxJobs = 2
    ImportGettersRunJobs = FALSE
INVARIANTS TypeOK DeletedOnce DrainCanBeWoken
PROPERTIES DeletesOnlyFinished ShutdownReturns DrainWakes

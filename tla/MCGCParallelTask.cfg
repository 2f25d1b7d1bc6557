SPECIFICATION Spec
CONSTANTS
    Tasks = {t1, t2, t3}
    Threads = {h1, h2}
    Main = Main
    NoTask = NoTask
INVARIANTS TypeOK OneRunner EachStartRunsOnce
PROPERTIES LegalTransitions SimulatesAsyncTask CallsReturn ImplementsAsyncTask

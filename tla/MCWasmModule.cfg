CONSTANTS
    CodeSize = 2
    Callers = {c1, c2}
    Funcs = {f1, f2}
    Generator = Generator
    Nobody = Nobody
SPECIFICATION Spec
INVARIANTS TypeOK DestroyedWhenDone StubsFollowTier
PROPERTY ClosedStreamIsDestroyed

CONSTANTS
    Zones = {atoms, z1}
    Atoms = atoms
SPECIFICATION FairSpec
INVARIANTS
    TypeOK
    BackgroundWorkIsComing
    SliceIsComing
    BackgroundIsQuiet
    ResetEndsCollection
PROPERTIES
    AtomsSweptLast
    WaitEnds

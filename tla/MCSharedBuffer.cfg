CONSTANTS
    Runtimes = {r1, r2}
    Objs = {o1, o2, o3}
    Clones = {c1, c2}
    MaxRefcount = 3
    MaxPages = 2
    None = None
SPECIFICATION Spec
SYMMETRY Symmetry
INVARIANTS ReferencesCounted LengthsAreCommitted

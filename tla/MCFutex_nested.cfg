CONSTANTS
    Agents = {a1, a2}
    Offsets = {o1, o2}
    Values = {v1}
    Interruptible = {a1}
    HandlersWait = {a1}
    MaxDepth = 2
SPECIFICATION Spec
SYMMETRY Symmetry
INVARIANT ListMatchesCalls

CONSTANTS
    Agents = {a1, a2}
    Offsets = {o1, o2}
    Values = {v1, v2}
    Interruptible = {a1, a2}
    HandlersWait = {}
    MaxDepth = 1
SPECIFICATION Spec
SYMMETRY Symmetry
INVARIANTS TypeOK NotifyIsExact NoLostNotify
PROPERTY Fifo

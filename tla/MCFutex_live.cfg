CONSTANTS
    Agents = {a1, a2}
    Offsets = {o1}
    Values = {v1}
    Interruptible = {a1, a2}
    HandlersWait = {}
    MaxDepth = 1
SPECIFICATION Spec
PROPERTIES WokenReturns TimedWaitReturns

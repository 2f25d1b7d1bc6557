CONSTANTS
    CodeSize = 1
    Callers = {c1}
    Funcs = {f1}
    Generator = Generator
    Nobody = Nobody
SPECIFICATION Spec

PROPERTY EveryStreamIsDestroyed

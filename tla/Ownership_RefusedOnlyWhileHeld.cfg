SPECIFICATION Spec
CONSTANTS
    Tasks = {t1, t2}
    Procs = {w1, w2, s1}
    Workers = {w1, w2}
    Services = {s1}
    MayCall <- Everything
    Agents = {a1}
    Bound = 1
    MaxGeneration = 2
    None = None
    Gone = Gone
SYMMETRY Symmetry
PROPERTIES RefusedOnlyWhileHeld

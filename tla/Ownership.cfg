SPECIFICATION FairSpec
CONSTANTS
    Tasks = {t1, t2}
    Procs = {w1, s1}
    Workers = {w1}
    Services = {s1}
    MayCall <- Everything
    Agents = {a1}
    Bound = 1
    MaxGeneration = 2
    None = None
    Gone = Gone
INVARIANTS AdmissionBound OneHolder MaintenanceIsAlone
PROPERTIES TakeoverIsRecorded EveryCallReturns

SPECIFICATION Spec
CONSTANTS
    j1 = j1  j2 = j2  j3 = j3
    o1 = o1  o2 = o2  o3 = o3
    t1 = t1  t2 = t2
    p1 = p1  p2 = p2
    None = None
    Journals = {j1, j2, j3}
    Root = j1
    Operations = {o1, o2, o3}
    Tasks = {t1, t2}
    TaskOf <- MCTaskOf
    Processes <- MCProcesses
    MaxRecords = 2
    ChainLimit = 2
    Strays = FALSE
SYMMETRY Symmetry
INVARIANTS OneLiveOperation SuccessorFollows
CHECK_DEADLOCK FALSE

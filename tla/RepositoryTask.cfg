SPECIFICATION FairSpec
CONSTANTS
    Pilots = {t1}
    Procs = {w1, w2}
    RevisionCap = 2
    MaxFaults = 3
    None = None
CHECK_DEADLOCK FALSE
INVARIANTS RunsBelongToTheirTask ReclaimedIsUntouched
PROPERTIES SettledRunStands InterruptedTaskEnds ReclamationEnds

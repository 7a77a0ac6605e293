SPECIFICATION FairSpec
CONSTANT MaxFaults = 5
INVARIANTS NothingDiscarded SettledIsStopped
PROPERTIES NoLateLaunch RecoveryGetsThrough

SPECIFICATION Spec
CONSTANTS
    Journals = {j1, j2, j3}
    Bundles = {b1, b2}
    Procs = {p1, p2}
    Pilots = {x1}
    JOURNAL_CAP = 1
    LIVE_CAP = 1
    InspectionLimit = 2
    MaxFaults = 1
    None = None
INVARIANTS
    RetiredHasItsHeir
    WalksArrive
    RetiredIsCaptured
SYMMETRY Symmetry

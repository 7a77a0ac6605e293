SPECIFICATION OutboundSpec
CONSTANTS
    issue = issue
    pull = pull
    creation = creation
    field = field
    link = link
    association = association
    comment = comment
    Noise = Noise
    Copy = Copy
    p1 = p1
    p2 = p2
    Operators = {p1, p2}
    Operations = {issue, pull}
    FamilyOf <- MCFamilyOf
    TaskOf <- MCTaskOf
    Before <- MCBefore
    Fresh <- MCFresh
    ReserveFirst = FALSE
    ApprovalLife = 2
    ObservationLife = 1
    PageSize = 1
    MaxPages = 2
    Others = {Noise, Copy}
    Alike = {}
    MaxEpoch = 1
    MaxWithdrawn = 1
    None = None
INVARIANTS CreatedOnce
SYMMETRY Symmetry
CHECK_DEADLOCK FALSE

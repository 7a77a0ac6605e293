SPECIFICATION OutboundSpec
CONSTANTS
    issue = issue
    pull = pull
    creation = creation
    field = field
    link = link
    association = association
    comment = comment
    Noise = Noise
    Copy = Copy
    p1 = p1
    p2 = p2
    Operators = {p1, p2}
    Operations = {issue, pull, creation, field, link, association, comment}
    FamilyOf <- MCFamilyOf
    TaskOf <- MCTaskOf
    Before <- MCBefore
    Fresh <- MCFresh
    ReserveFirst = TRUE
    ApprovalLife = 3
    ObservationLife = 2
    PageSize = 1
    MaxPages = 2
    Others = {Noise, Copy}
    Alike = {Copy}
    MaxEpoch = 1
    MaxWithdrawn = 6
    None = None
INVARIANTS OneEffect
PROPERTIES ClearedWasSeen ReportsAreRight
SYMMETRY Symmetry
CHECK_DEADLOCK FALSE

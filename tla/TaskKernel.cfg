SPECIFICATION FairSpec
CONSTANTS
    MaxAttempts = 2
    MaxPlannings = 2
    MaxRequests = 4
    MaxCrashes = 2
    None = None
INVARIANTS OneUnresolved PauseIsDecidable PlanWasApproved OneEffect
PROPERTIES EffectIsApproved ImplementsLifecycle RunEnds
CHECK_DEADLOCK FALSE

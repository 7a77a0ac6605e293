SPECIFICATION FairConsultationsSpec
CONSTANTS
    Questions = {1, 2}
    Agents = {a1, a2}
    Reserved = {a2}
    MaxOpen = 2
    MaxListed = 1
    MaxFaults = 2
    Nobody = Nobody
PROPERTIES SettledStands TakerIsNotRobbed OpenIsSettled

SPECIFICATION FairSpec
CONSTANTS
    Tasks = {1}
    Agents = {a1, a2}
    Operated = {a1}
    Bound = 1
    MaxRevision = 2
    MaxFaults = 1
    None = None
INVARIANTS ConfirmedIsWhatWasRead QuestionsFitTheDraft BooksAgree
PROPERTIES WorkIsFound

CONSTANTS
    m = m  n = n  f = f  None = None
    Module = {m, n}
    Family = {f}
    Number = {1, 2}
    Revision = {1, 2}
    FamilyRow <- MCFamilyRow
    FirstRows <- MCFirstRows
    FirstFamilies <- MCFirstFamilies
    MaxCommits = 3
SPECIFICATION Spec
CHECK_DEADLOCK FALSE
INVARIANTS ReleasesAreForever PinsWereReviewed SelectionIsFaithful

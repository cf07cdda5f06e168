SPECIFICATION Spec
CONSTANTS
    From = 1
    To = 2
    PageSize = 2
    LastTime = 4
    MaxRepos = 4
INVARIANTS
    IInv
    NeverOvercounts
    AllOrNothing

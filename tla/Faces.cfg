SPECIFICATION Spec
CONSTANTS
    Users = {u1, u2}
    Slots = 2
    NoOne = NoOne
CHECK_DEADLOCK FALSE
INVARIANT PosterShowsOwnReport

SPECIFICATION Spec
CONSTANTS
    Users = {u1, u2}
    Slots = 2
    NoOne = NoOne
    LastText = 7
CHECK_DEADLOCK FALSE
CONSTRAINT FirstTexts
INVARIANT IInv

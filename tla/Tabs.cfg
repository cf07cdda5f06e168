SPECIFICATION Spec
CONSTANTS
    Browsers = {b1, b2}
    Accounts = {a1, a2}
    Flows = {f1, f2}
    MaxLoads = 2
    NoFlow = NoFlow
    NoBrowser = NoBrowser
    NoAccount = NoAccount
SYMMETRY Symmetry
CHECK_DEADLOCK FALSE
INVARIANTS
    IInv
    SessionConsented
    SessionNamesRow
PROPERTIES
    ImplementsConsent
    SpentOpensNothing
    SupersededOpensNothing

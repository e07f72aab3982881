SPECIFICATION Spec
CONSTANTS
    e1 = e1
    e2 = e2
    a = a
    b = b
    c = c
    v1 = v1
    pr = pr
    NoEpic = NoEpic
    Epic <- AllEpics
    Feature <- AllFeatures
    EpicOf <- TwoEpics
    Verifier <- OneVerifier
    Promoter = pr
    Liberties = {}
    Starts <- NewAndSplit
    MaxTries = 2
    MaxUpsets = 1
INVARIANTS TypeOK ClaimIsHeld VerdictIsNewest
PROPERTIES PromotedIsWhole SplitIsLast
CHECK_DEADLOCK FALSE

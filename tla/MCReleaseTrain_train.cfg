SPECIFICATION Spec
CONSTANTS
    f1 = f1
    f2 = f2
    p1 = p1
    p2 = p2
    NoOne = NoOne
    Feature <- TwoFeatures
    Promoter <- OnePromoter
    Liberties = {}
    MaxVersion = 2
    MaxHot = 1
    MaxTries = 2
    MaxFaults = 1
INVARIANTS TypeOK CodeKept HeadIsVerified MainIsGated
PROPERTIES BabysitIsFresh ImplementsDelivery
SYMMETRY SameFeatures
CHECK_DEADLOCK FALSE

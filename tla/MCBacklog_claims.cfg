SPECIFICATION Spec
CONSTANTS
    s1 = s1
    s2 = s2
    i1 = i1
    i2 = i2
    Nobody = Nobody
    Session <- TwoSessions
    Idea <- TwoIdeas
    MaxWip = 1
    Liberties = {}
    MaxFeatures = 2
    MaxCommits = 2
    MaxFaults = 2
SYMMETRY Symmetric
INVARIANTS TypeOK WipKept OneHolder NothingLost CommitsKept NoDrift
CHECK_DEADLOCK FALSE

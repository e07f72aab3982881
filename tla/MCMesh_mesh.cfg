SPECIFICATION Spec
CONSTANTS
    a1 = a1  a2 = a2  r1 = r1  t1 = t1  c1 = c1  c2 = c2
    Agent <- TwoAgents
    NoAgent = NoAgent  Nothing = Nothing
    Resource = {r1}
    Task = {t1}
    Process <- TwoCommands
    TTL = {1}
    Liberties = {}
    MaxTime = 4
    MaxFence = 3
INVARIANTS OneWorks ZombiesAreFenced DoneByOwner
SYMMETRY Swaps
VIEW Looks
CHECK_DEADLOCK FALSE

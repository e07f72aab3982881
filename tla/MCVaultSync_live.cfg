SPECIFICATION FairSpec
CONSTANTS
    p1 = p1  p2 = p2  s1 = s1  s2 = s2  s3 = s3  d1 = d1  d2 = d2  n1 = n1
    Place = {p1, p2}
    Save = {s1, s2}
    Drop = {}
    Daemon = Daemon
    HomeOf <- PairHome
    Request <- PublishRequest
    DropAt <- NoDropHome
    DaemonAt = {p1, p2}
    TooBig = {}
    MaxRetries = 2
    Stamp = {1, 2}
    MaxFaults = 1
PROPERTIES EveryoneAnswered Converges

SPECIFICATION Spec
CONSTANTS
    p1 = p1  p2 = p2  s1 = s1  s2 = s2  s3 = s3  d1 = d1  d2 = d2  n1 = n1
    Place = {p1, p2}
    Save = {s1, s2, s3}
    Drop = {}
    Daemon = Daemon
    HomeOf <- InboxHome
    Request <- CaptureRequest
    DropAt <- NoDropHome
    DaemonAt = {p1, p2}
    TooBig = {s3}
    MaxRetries = 1
    Stamp = {1, 2}
    MaxFaults = 1
INVARIANTS TypeOK DoneOnce

CONSTANTS
    p1 = p1
    p2 = p2
    p3 = p3
    t1 = t1
    t2 = t2
    NoProgress = NoProgress
    Peers <- MCPeers
    Trackers <- MCTrackers
    Progresses = {0, 1, 2, 3}
    ProgressDen = 2
    TotalPieces = 3
    SampleCap = 2
    MaxAnnounces = 2
    BinCounts = {2, 4}
SPECIFICATION Spec
INVARIANTS TypeOK AvailabilityMatchesCache PeerTablesBounded RowSnapshotCoversPieces

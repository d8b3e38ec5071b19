CONSTANTS
    c1 = c1  c2 = c2  i1 = i1  i2 = i2  i3 = i3  h1 = h1  h2 = h2
    Clients <- MCClients
    Ids <- MCIds
    Hashes <- MCHashes
    NoId = NoId
    MaxEngineIds = 2
    TotalBytes = 2
    MaxTorrents = 1
    HeartbeatCap = 2
    OverrideTicks = 2
    MaxRequests = 3
SPECIFICATION Spec
PROPERTY NoEngineStartWhileBlocked

CONSTANTS
    c1 = c1  c2 = c2  Standard = Standard  Private = Private
    Clients <- MCClients
    Modes <- MCModes
    FileIdx = {1, 2}
    Size = 1
    Priorities = {"normal", "skip"}
    HopInputs = {0, 11}
    MaxHops = 10
    MaxRequests = 3
    EngineMayFail = FALSE
SPECIFICATION Spec
INVARIANT DownloadedSound

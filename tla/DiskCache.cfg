SPECIFICATION Spec
CONSTANTS
    Procs = {"p", "q"}
    Files = {"i", "s", "o", "t", "w", "a"}
    RepoOf <- MCRepoOf
    BlobOf <- MCBlobOf
    Size <- MCSize
    IndexFile = "i"
    WeightsFile = "w"
    Shards <- MCShards
    Adapters <- MCAdapters
    KeyOf <- MCKeyOf
    Forced = {}
    Setups <- MCSetups
    Incomplete = {"p"}
    Corrupt = {}
    MaxDisk = 3
    DiskSize = 4
    MaxFaults = 1
    MaxCrashes = 1
INVARIANTS FilesStayWhileLoaded LimitKept MeasuredOnce
PROPERTIES EveryLoadEnds
CHECK_DEADLOCK FALSE

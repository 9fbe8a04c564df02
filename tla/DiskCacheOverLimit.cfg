SPECIFICATION Spec
CONSTANTS
    Procs = {"p", "q"}
    Files = {"i", "s", "o", "t", "w", "a"}
    RepoOf <- MCRepoOf
    BlobOf <- MCBlobOf
    Size <- MCSize
    IndexFile = "i"
    WeightsFile = "w"
    Shards <- MCShards
    Adapters <- MCAdapters
    KeyOf <- MCKeyOf
    Forced = {}
    Setups <- MCSharded
    Incomplete = {}
    Corrupt = {}
    MaxDisk = 3
    DiskSize = 5
    MaxFaults = 1
    MaxCrashes = 1
INVARIANTS LimitKeptIfAsked
CHECK_DEADLOCK FALSE

\* Three failing requests or restarts at any three points; one more IOC than
\* the load takes; two lookups a pass.
SPECIFICATION MCSpec
CONSTANTS
    Sources = {1, 2}
    Iocs = {1, 2, 3, 4, 5}
    SourceOf <- MCSourceOf
    Exports = {{1, 2, 3, 5}, {3, 4}, {2, 4}}
    IntelTTL = 2
    NoIoc = NoIoc
    Unindexable = {5}
    LoadPage = 2
    LoadCap = 3
    MaxIntelFaults = 3
    Shas = {1, 2, 3}
    Hosts = {1, 2, 3}
    FilesOf <- MCFilesOf
    MaxPerRun = 2
    TTL = 2
    Absent = Absent
    MaxFaults = 3
INVARIANTS
    VtInv
PROPERTIES
    FeedCacheIsKept
    MatcherCatchesUp
    FreshVerdictsNotAskedAgain
    AllVerdictsArrive

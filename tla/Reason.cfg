\* Three hosts, one per page, the last of them refused as an _id: passes over a
\* sighting of it never end. A window of one day over four, one failing request.
SPECIFICATION FairSpec
CONSTANTS
    Hosts = {1, 2, 3}
    NoEntity = NoEntity
    Unindexable = {3}
    PageSize = 1
    Retention = 1
    Window = 0
    MinStage = 1
    Ranks = {0, 2}
    MaxTime = 3
    MaxRows = 2
    MaxFaults = 1
INVARIANTS
    ReasonInv
    FeedIsFresh
PROPERTIES
    EntitiesNeverRegress
    PassesCatchUp

\* Every migration, from every earlier database, with crashes anywhere.
SPECIFICATION FairSpec
CONSTANTS
    MaxCrashes = 2
    MaxBacks = 1
    MaxTime = 2
\* The model ends where the server begins to serve.
CHECK_DEADLOCK FALSE
INVARIANTS
    TypeOK
    ServesFullSchema
    UpdatesInOrder
PROPERTY
    ServesUnlessCutShort

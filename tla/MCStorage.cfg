\* The upload path, with crashes anywhere.
SPECIFICATION FairSpec
CONSTANTS
    Names <- MCNames
    RawPaths <- MCRawPaths
    Segments <- SplitSegments
    Malformed = Malformed
    Requests <- MCRequests
    NoRequest = NoRequest
INVARIANTS
    TypeOK
    NoDuplicateRows
    CacheMirrorsTables
    HandlerRows
    TreeConsistent
    AckedStored
    ChildCounts
PROPERTIES
    RowsOnlyGrow
    ImplementsFileTree
    RequestEnds

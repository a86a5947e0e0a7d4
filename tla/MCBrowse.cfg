\* A page that is read level by level while uploads and crashes go on.
SPECIFICATION BrowseSpec
CONSTANTS
    Names <- MCNames
    RawPaths <- MCRawPaths
    Segments <- SplitSegments
    Malformed = Malformed
    Requests <- MCRequests
    NoRequest = NoRequest
INVARIANTS
    ShownTruly
    WalkComplete

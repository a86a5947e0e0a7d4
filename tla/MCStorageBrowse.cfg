\* The directories of an acknowledged upload, after a crash and a retry.
SPECIFICATION Spec
CONSTANTS
    Names <- MCNames
    RawPaths <- MCRawPaths
    Segments <- SplitSegments
    Malformed = Malformed
    Requests <- MCRequests
    NoRequest = NoRequest
INVARIANT
    AckedDirectoriesBrowsable

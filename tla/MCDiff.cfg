\* The answer of /api/diff/ against its definition, over all small pairs of versions.
SPECIFICATION FairSpec
CONSTANTS
    Databases <- MCDatabases
    VersionIds = {1, 2, 3}
    CommentedIds = {2, 3, 9}
    MaxComments = 2
INVARIANTS
    TypeOK
    DiffExact
    EachFileOnce
    DirectParents
    CommentsExact
PROPERTY
    DiffEnds

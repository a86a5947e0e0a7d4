\* The files of an answer as a tree.
SPECIFICATION Spec
CONSTANTS
    Databases <- DeepDatabases
    VersionIds = {1, 2}
    CommentedIds = {}
    MaxComments = 0
INVARIANT
    AncestorsPresent

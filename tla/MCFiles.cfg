\* Path strings of up to five names; names of one or two characters, two rows and restarts;
\* three saves of a page while it is asked for, compared and expires.
SPECIFICATION AllSpec
CONSTANTS
    MaxNames = 5
    PathNames = {"a", "b"}
    MaxLength = 2
    MaxRows = 2
    file_stat_interval = 1
    file_expired_time = 2
    Sizes = {1, 2}
    MaxNow = 6
    MaxSaves = 3
    None = None
\* Path strings end at MaxNames, time at MaxNow.
CHECK_DEADLOCK FALSE
INVARIANTS
    ResolvesPath
    StoredPathIsStable
    StoredVerbatim
    PlainPathsCached
PROPERTIES
    FreshAnswers

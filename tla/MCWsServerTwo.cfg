\* Two connections at a time, ended in every way.
SPECIFICATION Spec
CONSTANTS
    f1 = f1
    f2 = f2
    k1 = k1
    Fds <- MCFds
    ListenFd = ListenFd
    SockpairFd = SockpairFd
    Tokens = {}
    Ends = {"eof", "reset", "silent"}
    NoContext = NoContext
    MaxId = 2
    MaxDue = 1
SYMMETRY MCSymmetry
INVARIANT
    NothingLeftBehind

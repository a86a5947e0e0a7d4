\* Two connections one after the other on one descriptor, ended in every way.
SPECIFICATION LiveSpec
CONSTANTS
    f1 = f1
    f2 = f2
    k1 = k1
    Fds <- MCOneFd
    ListenFd = ListenFd
    SockpairFd = SockpairFd
    Tokens <- MCOneToken
    Ends = {"eof", "reset", "silent"}
    NoContext = NoContext
    MaxId = 2
    MaxDue = 2
PROPERTIES
    HandlerUsedWhileAlive
    AsyncCloseHitsItsOwn
    MovesKept
    ConnectionsEnd
    ClientsServed

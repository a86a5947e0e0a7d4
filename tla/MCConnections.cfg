SPECIFICATION Spec
CONSTANTS
    t1 = t1
    t2 = t2
    Threads <- MCThreads
    Instants <- MCInstants
    Backs <- MCBacks
    WaitTimeout = 7202000
    MaxPause = 1000
    EnvPort = 3306
    NoPort = NoPort
    ServerPort = 3306
    Ports <- MCPorts
    MaxQueued = 2
SYMMETRY MCSymmetry
INVARIANTS
    NeverGoneAway
    ConnectionsAccounted
    ServerConnectionsBounded

--------------------------- MODULE MCConnections ---------------------------
EXTENDS Connections, TLC

CONSTANTS t1, t2

MCThreads == {t1, t2}
MCSymmetry == Permutations(MCThreads)

\* Around the hour, the second after it (the age is cut to seconds), a pause later, and
\* the same once and twice more.
MCInstants == {0, 1000, 3600999, 3601000, 7202000, 10803000}

MCBacks == {0, 3600000}
MCPorts == {0, 3306}
=============================================================================

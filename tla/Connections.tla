----------------------------- MODULE Connections -----------------------------
(***************************************************************************)
(* MySqlStorage::getConnection: one MySQL connection per thread, replaced  *)
(* when it is more than an hour old, and what the callers do with it.      *)
(*                                                                         *)
(* Two clocks matter.  m_nCreated and the age of a connection are wall     *)
(* clock (std::chrono::system_clock), which may be set back; MySQL closes  *)
(* a connection that was idle for wait_timeout by time that really passes. *)
(* A caller never looks at the pointer it gets: it runs statements on it,  *)
(* or, in findFileOrCreate with the file in the cache, does not use it.    *)
(***************************************************************************)
EXTENDS Integers, Sequences, FiniteSets

CONSTANTS Threads,      \* threads that call the storage
          Instants,     \* moments, in milliseconds, at which something happens
          Backs,        \* by how much in total the wall clock may have been set back
          WaitTimeout,  \* wait_timeout of the MySQL server, in milliseconds
          MaxPause,     \* the longest time a caller spends between two statements
          EnvPort,      \* WEBDIFF_DB_PORT, or NoPort
          NoPort,
          ServerPort,   \* the port MySQL listens on
          Ports,        \* what an int that was never assigned may hold
          MaxQueued     \* bound: reconnects fail only while the queue is shorter

\* The longest time between the opening of a connection and the moment
\* getConnection refuses it, but for the set back clock.
OutdatedAfter == 3601000

ASSUME TimesAssumption ==
    /\ Instants \subseteq Nat /\ 0 \in Instants
    /\ Backs \subseteq Nat /\ 0 \in Backs
    /\ WaitTimeout \in Nat /\ MaxPause \in Nat /\ MaxQueued \in Nat

\* wait_timeout is eight hours by default; what is needed is the hour, the pause and
\* the error of the clock.
ASSUME WaitTimeoutAssumption == \A b \in Backs : OutdatedAfter + MaxPause + b <= WaitTimeout

ASSUME PortsAssumption ==
    /\ EnvPort = NoPort \/ EnvPort \in Nat
    /\ NoPort \notin Nat
    /\ ServerPort \in Nat /\ Ports \subseteq Nat

VARIABLES
    pc,                            \* "down" or "up"
    time, back,                    \* time that has passed; wall clock = time - back
    m_nDatabasePort,
    connections,                   \* every MySqlStorageConnection created, never deleted
    m_mapStorageConnections,       \* thread -> connection (position in connections)
    m_vDoRemoveStorageConnections,
    busy,                          \* threads between getConnection and their return
    pConn,                         \* the pointer such a thread holds
    since                          \* when it got the pointer or last ran a statement

process == <<m_nDatabasePort, connections, m_mapStorageConnections,
             m_vDoRemoveStorageConnections, busy, pConn, since>>
vars == <<pc, time, back, process>>

nullptr == 0

Connection == [thread : Threads, m_nCreated : Int, opened : Nat, used : Nat]

\* WsjcppCore::getCurrentTimeInMilliseconds
getCurrentTimeInMilliseconds == time - back

m_nConnectionOutdatedAfterSeconds == 60 * 60

\* The division truncates; it matters for no age of an hour whether down or to zero.
getConnectionDurationInSeconds(c) ==
    (getCurrentTimeInMilliseconds - connections[c].m_nCreated) \div 1000

\* Mutant of Outdated: the age is not looked at.
NeverOutdated(t) == FALSE

\* Mutant of Outdated: every call opens another connection.
AlwaysOutdated(t) == TRUE

\* The connection of the thread is too old.
Outdated(t) == getConnectionDurationInSeconds(m_mapStorageConnections[t])
                   > m_nConnectionOutdatedAfterSeconds

\* MySQL has closed the connection because nothing was sent on it.
GoneAway(c) == time - connections[c].used >= WaitTimeout

Init ==
    /\ pc = "down" /\ time = 0 /\ back = 0
    /\ m_nDatabasePort = 0 /\ connections = <<>>
    /\ m_mapStorageConnections = <<>> /\ m_vDoRemoveStorageConnections = <<>>
    /\ busy = {}
    /\ pConn = [t \in Threads |-> nullptr] /\ since = [t \in Threads |-> 0]

-----------------------------------------------------------------------------
(* The process *)

\* The constructor.  The port that was read from WEBDIFF_DB_PORT stays in a local
\* variable, m_nDatabasePort keeps whatever the memory held.
Construct ==
    /\ pc = "down"
    /\ m_nDatabasePort' \in IF EnvPort = NoPort THEN {3306} ELSE Ports
    /\ pc' = "up"
    /\ UNCHANGED <<time, back, connections, m_mapStorageConnections,
                   m_vDoRemoveStorageConnections, busy, pConn, since>>

\* The process ends and the system closes its sockets.
Die ==
    /\ pc' = "down" /\ m_nDatabasePort' = 0 /\ connections' = <<>>
    /\ m_mapStorageConnections' = <<>> /\ m_vDoRemoveStorageConnections' = <<>>
    /\ busy' = {}
    /\ pConn' = [t \in Threads |-> nullptr] /\ since' = [t \in Threads |-> 0]
    /\ UNCHANGED <<time, back>>

Crash == pc = "up" /\ Die

-----------------------------------------------------------------------------
(* getConnection, under m_mtxStorageConnections *)

\* connect() succeeds: a new object with the time of its creation.
Connect(t) ==
    /\ m_nDatabasePort = ServerPort
    /\ connections' = Append(connections,
           [thread |-> t, m_nCreated |-> getCurrentTimeInMilliseconds,
            opened |-> time, used |-> time])

\* getConnection hands p to the thread.
Hand(t, p) ==
    /\ busy' = busy \cup {t}
    /\ pConn' = [pConn EXCEPT ![t] = p]
    /\ since' = [since EXCEPT ![t] = time]

Calling(t) == pc = "up" /\ t \notin busy

\* The thread has a connection that is young enough.
Keep(t) ==
    /\ Calling(t)
    /\ t \in DOMAIN m_mapStorageConnections
    /\ ~Outdated(t)
    /\ Hand(t, m_mapStorageConnections[t])
    /\ UNCHANGED <<pc, time, back, m_nDatabasePort, connections,
                   m_mapStorageConnections, m_vDoRemoveStorageConnections>>

Remember(t, c) ==
    m_mapStorageConnections' =
        [u \in DOMAIN m_mapStorageConnections \cup {t} |->
            IF u = t THEN c ELSE m_mapStorageConnections[u]]

\* The thread calls for the first time.
Open(t) ==
    /\ Calling(t)
    /\ t \notin DOMAIN m_mapStorageConnections
    /\ Connect(t)
    /\ Remember(t, Len(connections) + 1)
    /\ Hand(t, Len(connections) + 1)
    /\ UNCHANGED <<pc, time, back, m_nDatabasePort, m_vDoRemoveStorageConnections>>

\* ... and connect() fails.
OpenFails(t) ==
    /\ Calling(t)
    /\ t \notin DOMAIN m_mapStorageConnections
    /\ Hand(t, nullptr)
    /\ UNCHANGED <<pc, time, back, m_nDatabasePort, connections,
                   m_mapStorageConnections, m_vDoRemoveStorageConnections>>

PushBack(t) ==
    m_vDoRemoveStorageConnections' =
        Append(m_vDoRemoveStorageConnections, m_mapStorageConnections[t])

\* Mutant of Reopen: the old connection is forgotten.
ReopenForgets(t) ==
    /\ Calling(t)
    /\ t \in DOMAIN m_mapStorageConnections
    /\ Outdated(t)
    /\ Connect(t)
    /\ Remember(t, Len(connections) + 1)
    /\ Hand(t, Len(connections) + 1)
    /\ UNCHANGED <<pc, time, back, m_nDatabasePort, m_vDoRemoveStorageConnections>>

\* The connection is outdated: it is queued for removal and replaced.
Reopen(t) ==
    /\ Calling(t)
    /\ t \in DOMAIN m_mapStorageConnections
    /\ Outdated(t)
    /\ PushBack(t)
    /\ Connect(t)
    /\ Remember(t, Len(connections) + 1)
    /\ Hand(t, Len(connections) + 1)
    /\ UNCHANGED <<pc, time, back, m_nDatabasePort>>

\* ... and connect() fails: it is queued and stays in the map as well.
ReopenFails(t) ==
    /\ Calling(t)
    /\ t \in DOMAIN m_mapStorageConnections
    /\ Outdated(t)
    /\ Len(m_vDoRemoveStorageConnections) < MaxQueued
    /\ PushBack(t)
    /\ Hand(t, nullptr)
    /\ UNCHANGED <<pc, time, back, m_nDatabasePort, connections, m_mapStorageConnections>>

-----------------------------------------------------------------------------
(* The callers *)

\* A statement succeeds on the connection the thread holds.
Query(t) ==
    /\ t \in busy
    /\ pConn[t] # nullptr
    /\ ~GoneAway(pConn[t])
    /\ connections' = [connections EXCEPT ![pConn[t]].used = time]
    /\ since' = [since EXCEPT ![t] = time]
    /\ UNCHANGED <<pc, time, back, m_nDatabasePort, m_mapStorageConnections,
                   m_vDoRemoveStorageConnections, busy, pConn>>

\* A statement on nullptr, on a connection that is gone, or one MySQL refuses:
\* the process ends.
QueryFails(t) == t \in busy /\ Die

\* The caller returns; without any statement when findFileOrCreate finds the file
\* in its cache.
Return(t) ==
    /\ t \in busy
    /\ busy' = busy \ {t}
    /\ pConn' = [pConn EXCEPT ![t] = nullptr] /\ since' = [since EXCEPT ![t] = 0]
    /\ UNCHANGED <<pc, time, back, m_nDatabasePort, connections,
                   m_mapStorageConnections, m_vDoRemoveStorageConnections>>

-----------------------------------------------------------------------------
(* The clocks *)

Tick ==
    /\ time' \in Instants /\ time' > time
    /\ \A t \in busy : time' - since[t] <= MaxPause
    /\ UNCHANGED <<pc, back, process>>

\* The wall clock is set back while time stands still.
SetBack ==
    /\ back' \in Backs /\ back' > back
    /\ UNCHANGED <<pc, time, process>>

getConnection(t) == Keep(t) \/ Open(t) \/ OpenFails(t) \/ Reopen(t) \/ ReopenFails(t)

Next == \/ Construct \/ Crash \/ Tick \/ SetBack
        \/ \E t \in Threads : getConnection(t) \/ Query(t) \/ QueryFails(t) \/ Return(t)

Spec == Init /\ [][Next]_vars

-----------------------------------------------------------------------------
(* Properties *)

\* Every variable has its type; map, queue and pointers name connections that exist.
TypeOK ==
    /\ pc \in {"down", "up"}
    /\ time \in Instants /\ back \in Backs
    /\ m_nDatabasePort \in Nat
    /\ connections \in Seq(Connection)
    /\ DOMAIN m_mapStorageConnections \subseteq Threads
    /\ \A t \in DOMAIN m_mapStorageConnections :
          m_mapStorageConnections[t] \in DOMAIN connections
    /\ m_vDoRemoveStorageConnections \in Seq(DOMAIN connections)
    /\ busy \subseteq Threads
    /\ pConn \in [Threads -> DOMAIN connections \cup {nullptr}]
    /\ since \in [Threads -> Nat]

\* No thread runs a statement on a connection that MySQL has closed for being
\* idle: the hour of getConnection, measured with a clock that may be set back and
\* rounded to seconds, ends before wait_timeout does.
NeverGoneAway == \A t \in busy : pConn[t] # nullptr => ~GoneAway(pConn[t])

\* The MYSQL handle is not to be shared: a thread works on the connection that was
\* opened for it, which is the last one opened for it.
OwnConnection ==
    \A t \in busy : pConn[t] # nullptr =>
        /\ connections[pConn[t]].thread = t
        /\ \A c \in DOMAIN connections : connections[c].thread = t => c <= pConn[t]

\* No connection is lost: each is the one of its thread or waits to be removed.
NoneLost ==
    \A c \in DOMAIN connections :
        \/ \E t \in DOMAIN m_mapStorageConnections : m_mapStorageConnections[t] = c
        \/ \E i \in DOMAIN m_vDoRemoveStorageConnections : m_vDoRemoveStorageConnections[i] = c

\* As long as the clock was not set back, no thread works on a connection that is
\* queued for removal, so that the cleanup that is still to be written would not
\* pull it away.
RemovedNotInUse ==
    back = 0 => \A t \in busy : \A i \in DOMAIN m_vDoRemoveStorageConnections :
                    m_vDoRemoveStorageConnections[i] # pConn[t]

\* What the server may rely on of its map and its queue: the parts above.
ConnectionsAccounted == TypeOK /\ OwnConnection /\ NoneLost /\ RemovedNotInUse

\* Nothing ever closes a connection, but MySQL drops the ones that are no longer used:
\* the connections of a thread that the server still holds are a fixed number.
ServerConnectionsBounded ==
    \A t \in Threads :
        Cardinality({c \in DOMAIN connections : connections[c].thread = t /\ ~GoneAway(c)})
            <= (WaitTimeout - 1) \div OutdatedAfter + 2

=============================================================================

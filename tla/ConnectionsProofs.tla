-------------------------- MODULE ConnectionsProofs --------------------------
(***************************************************************************)
(* Proofs about getConnection: the map, the queue and the pointers of the  *)
(* threads agree, no statement meets a connection that MySQL has closed,   *)
(* and the connections MySQL holds for a thread are a fixed number, for    *)
(* every set of threads, every clock and every wait_timeout that satisfies *)
(* WaitTimeoutAssumption.                                                  *)
(***************************************************************************)
EXTENDS Connections, FiniteSetTheorems, SequenceTheorems, TLAPS

\* The times of a connection: its creation by a wall clock that is at most back
\* behind, its last statement between its opening and now.
TimesInOrder ==
    \A c \in DOMAIN connections :
        /\ connections[c].m_nCreated <= connections[c].opened
        /\ connections[c].opened - back <= connections[c].m_nCreated
        /\ connections[c].opened <= connections[c].used
        /\ connections[c].used <= time

\* The map holds the last connection of every thread that has one.
MapHoldsLast ==
    /\ \A t \in DOMAIN m_mapStorageConnections :
          connections[m_mapStorageConnections[t]].thread = t
    /\ \A c \in DOMAIN connections :
          /\ connections[c].thread \in DOMAIN m_mapStorageConnections
          /\ c <= m_mapStorageConnections[connections[c].thread]

\* A thread that works on a connection works on the one of the map, and its last
\* statement on it is not long ago.
Holds(t) == t \in busy /\ pConn[t] # nullptr

HeldAreRecent ==
    \A t \in Threads :
        /\ Holds(t) =>
              /\ t \in DOMAIN m_mapStorageConnections
              /\ pConn[t] = m_mapStorageConnections[t]
              /\ since[t] - connections[pConn[t]].used < OutdatedAfter + back
        /\ t \in busy => time - since[t] <= MaxPause

\* A connection that is queued and still in the map was outdated when it was queued
\* and stays so, unless the clock is set back.
QueuedAreOutdated ==
    back = 0 =>
        \A t \in DOMAIN m_mapStorageConnections :
            \A i \in DOMAIN m_vDoRemoveStorageConnections :
                m_vDoRemoveStorageConnections[i] = m_mapStorageConnections[t]
                    => Outdated(t) /\ ~Holds(t)

\* A connection was replaced by the next one of its thread more than an hour after it
\* was opened, and was not used from then on.
Spaced ==
    \A c, d \in DOMAIN connections :
        c < d /\ connections[c].thread = connections[d].thread
            => /\ connections[c].opened + OutdatedAfter <= connections[d].opened
               /\ connections[c].used <= connections[d].opened

ConnInv == /\ TypeOK /\ NoneLost
           /\ TimesInOrder /\ MapHoldsLast /\ HeldAreRecent /\ QueuedAreOutdated /\ Spaced

-----------------------------------------------------------------------------
(* What the operators of the model compute *)

\* The age is cut to seconds: more than 3600 of them are at least 3601000 milliseconds.
LEMMA Hour ==
    ASSUME NEW x \in Int
    PROVE  (x \div 1000 > 60 * 60) <=> (x >= OutdatedAfter)
  BY DEF OutdatedAfter

\* Times are numbers.
LEMMA Times ==
    ASSUME TypeOK
    PROVE  /\ time \in Nat /\ back \in Nat /\ MaxPause \in Nat /\ WaitTimeout \in Nat
           /\ OutdatedAfter \in Nat
           /\ OutdatedAfter + MaxPause + back <= WaitTimeout
  BY TimesAssumption, WaitTimeoutAssumption DEF TypeOK, OutdatedAfter

\* The fields of a connection.
LEMMA Fields ==
    ASSUME TypeOK, NEW c \in DOMAIN connections
    PROVE  /\ c \in Nat \ {0} /\ c <= Len(connections) /\ Len(connections) \in Nat
           /\ connections[c] \in Connection
           /\ connections[c].thread \in Threads
           /\ connections[c].m_nCreated \in Int
           /\ connections[c].opened \in Nat
           /\ connections[c].used \in Nat
  <1>1. connections \in Seq(Connection)
    BY DEF TypeOK
  <1>2. c \in 1..Len(connections) /\ Len(connections) \in Nat /\ connections[c] \in Connection
    BY <1>1
  <1>3. c \in Nat \ {0} /\ c <= Len(connections)
    BY <1>2
  <1> QED  BY <1>2, <1>3 DEF Connection

\* When getConnection replaces the connection of a thread.
LEMMA OutdatedMeans ==
    ASSUME TypeOK, NEW t \in DOMAIN m_mapStorageConnections
    PROVE  Outdated(t) <=> time - back - connections[m_mapStorageConnections[t]].m_nCreated
                              >= OutdatedAfter
  <1>1. connections[m_mapStorageConnections[t]].m_nCreated \in Int
    BY Fields DEF TypeOK
  <1>2. time - back - connections[m_mapStorageConnections[t]].m_nCreated \in Int
    BY <1>1, Times
  <1> QED  BY <1>2, Hour DEF Outdated, getConnectionDurationInSeconds,
                getCurrentTimeInMilliseconds, m_nConnectionOutdatedAfterSeconds

\* What connect() adds.
LEMMA Connected ==
    ASSUME TypeOK, NEW t \in Threads, Connect(t)
    PROVE  /\ connections' \in Seq(Connection)
           /\ Len(connections) \in Nat
           /\ DOMAIN connections = 1..Len(connections)
           /\ DOMAIN connections' = 1..(Len(connections) + 1)
           /\ DOMAIN connections \subseteq DOMAIN connections'
           /\ Len(connections) + 1 \in DOMAIN connections'
           /\ \A c \in DOMAIN connections : connections'[c] = connections[c]
           /\ connections'[Len(connections) + 1].thread = t
           /\ connections'[Len(connections) + 1].m_nCreated = time - back
           /\ connections'[Len(connections) + 1].opened = time
           /\ connections'[Len(connections) + 1].used = time
  <1> DEFINE new == [thread |-> t, m_nCreated |-> time - back, opened |-> time, used |-> time]
  <1>1. connections \in Seq(Connection)
    BY DEF TypeOK
  <1>2. new \in Connection
    BY Times DEF Connection
  <1>3. connections' = Append(connections, new)
    BY DEF Connect, getCurrentTimeInMilliseconds
  <1>4. /\ new.thread = t /\ new.m_nCreated = time - back /\ new.opened = time
        /\ new.used = time
    OBVIOUS
  <1> HIDE DEF new
  <1>5. /\ connections' \in Seq(Connection)
        /\ Len(connections) \in Nat
        /\ DOMAIN connections = 1..Len(connections)
        /\ DOMAIN connections' = 1..(Len(connections) + 1)
        /\ \A c \in 1..Len(connections) : connections'[c] = connections[c]
        /\ connections'[Len(connections) + 1] = new
    BY <1>1, <1>2, <1>3
  <1> QED  BY <1>4, <1>5

\* What a statement does to the connections.
LEMMA Queried ==
    ASSUME TypeOK, NEW t \in Threads, Query(t)
    PROVE  /\ connections' \in Seq(Connection)
           /\ pConn[t] \in DOMAIN connections
           /\ DOMAIN connections' = DOMAIN connections
           /\ \A c \in DOMAIN connections :
                 /\ connections'[c].thread = connections[c].thread
                 /\ connections'[c].m_nCreated = connections[c].m_nCreated
                 /\ connections'[c].opened = connections[c].opened
                 /\ connections'[c].used = IF c = pConn[t] THEN time ELSE connections[c].used
  <1>1. connections \in Seq(Connection) /\ pConn[t] \in DOMAIN connections
    BY DEF TypeOK, Query
  <1>2. connections' = [connections EXCEPT ![pConn[t]].used = time]
    BY DEF Query
  <1>3. DOMAIN connections' = DOMAIN connections
    BY <1>2
  <1>4. \A c \in DOMAIN connections :
           /\ connections'[c].thread = connections[c].thread
           /\ connections'[c].m_nCreated = connections[c].m_nCreated
           /\ connections'[c].opened = connections[c].opened
           /\ connections'[c].used = IF c = pConn[t] THEN time ELSE connections[c].used
           /\ connections'[c] \in Connection
    <2> TAKE c \in DOMAIN connections
    <2>1. connections'[c] = IF c = pConn[t] THEN [connections[c] EXCEPT !.used = time]
                                            ELSE connections[c]
      BY <1>1, <1>2
    <2>2. connections[c] \in Connection
      BY Fields
    <2> QED  BY <2>1, <2>2, Times DEF Connection
  <1>5. connections' \in Seq(Connection)
    <2>1. connections' = [c \in DOMAIN connections |-> connections'[c]]
      BY <1>2
    <2>2. DOMAIN connections = 1..Len(connections) /\ Len(connections) \in Nat
      BY <1>1
    <2>3. connections' \in [1..Len(connections) -> Connection]
      BY <2>1, <2>2, <1>4
    <2> QED  BY <2>2, <2>3, SeqDef
  <1> QED  BY <1>1, <1>3, <1>4, <1>5

-----------------------------------------------------------------------------
(* Every step keeps the invariant *)

\* Steps that only hand out a pointer or take it back.
LEMMA PointerStep ==
    ASSUME ConnInv, NEW t \in Threads, Keep(t) \/ OpenFails(t) \/ Return(t)
    PROVE  ConnInv'
  <1>1. UNCHANGED <<pc, time, back, m_nDatabasePort, connections, m_mapStorageConnections,
                    m_vDoRemoveStorageConnections>>
    BY DEF Keep, OpenFails, Return
  <1>2. TypeOK /\ HeldAreRecent /\ TimesInOrder /\ QueuedAreOutdated
    BY DEF ConnInv
  <1>3. PICK p \in DOMAIN connections \cup {nullptr}, x \in Nat :
           /\ pConn' = [pConn EXCEPT ![t] = p] /\ since' = [since EXCEPT ![t] = x]
           /\ busy' = busy \cup {t} \/ busy' = busy \ {t}
           /\ t \in busy' => x = time
           /\ p # nullptr => /\ t \in DOMAIN m_mapStorageConnections
                             /\ p = m_mapStorageConnections[t] /\ ~Outdated(t)
    <2>1. CASE Keep(t)
      BY <1>2, <2>1, Times DEF Keep, Hand, TypeOK
    <2>2. CASE OpenFails(t)
      BY <1>2, <2>2, Times DEF OpenFails, Hand
    <2>3. CASE Return(t)
      BY <1>2, <2>3 DEF Return
    <2> QED  BY <2>1, <2>2, <2>3
  <1>4. TypeOK'
    BY <1>1, <1>2, <1>3 DEF TypeOK
  <1>5. /\ \A u \in Threads : u # t => /\ u \in busy' <=> u \in busy
                                       /\ pConn'[u] = pConn[u] /\ since'[u] = since[u]
        /\ pConn'[t] = p /\ since'[t] = x
    BY <1>2, <1>3 DEF TypeOK
  <1>6. NoneLost' /\ TimesInOrder' /\ MapHoldsLast' /\ Spaced'
    BY <1>1 DEF ConnInv, NoneLost, TimesInOrder, MapHoldsLast, Spaced
  <1>7. HeldAreRecent'
    <2> SUFFICES ASSUME NEW u \in Threads
                 PROVE  /\ Holds(u)' =>
                              /\ u \in DOMAIN m_mapStorageConnections
                              /\ pConn'[u] = m_mapStorageConnections[u]
                              /\ since'[u] - connections[pConn'[u]].used < OutdatedAfter + back
                        /\ u \in busy' => time - since'[u] <= MaxPause
      BY <1>1 DEF HeldAreRecent
    <2>1. CASE u # t
      BY <1>2, <1>5, <2>1 DEF HeldAreRecent, Holds
    <2>2. CASE u = t
      <3>1. u \in busy' => time - since'[u] <= MaxPause
        BY <1>2, <1>3, <1>5, <2>2, Times
      <3>2. ASSUME Holds(t)'
            PROVE  /\ t \in DOMAIN m_mapStorageConnections
                   /\ pConn'[t] = m_mapStorageConnections[t]
                   /\ since'[t] - connections[pConn'[t]].used < OutdatedAfter + back
        <4>1. p # nullptr /\ x = time /\ p \in DOMAIN connections
          BY <1>3, <1>5, <3>2 DEF Holds
        <4>2. time - back - connections[p].m_nCreated < OutdatedAfter
          BY <1>2, <1>3, <4>1, OutdatedMeans, Times, Fields
        <4>3. connections[p].m_nCreated <= connections[p].used
          BY <1>2, <4>1, Fields DEF TimesInOrder
        <4> QED  BY <1>2, <1>3, <1>5, <4>1, <4>2, <4>3, Times, Fields, SMTT(30)
      <3> QED  BY <2>2, <3>1, <3>2
    <2> QED  BY <2>1, <2>2
  <1>8. QueuedAreOutdated'
    <2>1. \A u \in DOMAIN m_mapStorageConnections : Outdated(u)' <=> Outdated(u)
      BY <1>1 DEF Outdated, getConnectionDurationInSeconds, getCurrentTimeInMilliseconds
    <2>2. \A u \in DOMAIN m_mapStorageConnections : Outdated(u) /\ ~Holds(u) => ~Holds(u)'
      BY <1>2, <1>3, <1>5 DEF Holds, TypeOK
    <2> QED  BY <1>1, <1>2, <2>1, <2>2 DEF QueuedAreOutdated
  <1> QED  BY <1>4, <1>6, <1>7, <1>8 DEF ConnInv

\* A thread gets its first connection, or the next one.
LEMMA ConnectStep ==
    ASSUME ConnInv, NEW t \in Threads, Open(t) \/ Reopen(t)
    PROVE  ConnInv'
  <1> DEFINE n == Len(connections) + 1
  <1>1. TypeOK /\ NoneLost /\ HeldAreRecent /\ TimesInOrder /\ QueuedAreOutdated /\ MapHoldsLast
        /\ Spaced
    BY DEF ConnInv
  <1>2. Connect(t) /\ Remember(t, n) /\ Hand(t, n) /\ t \notin busy
        /\ UNCHANGED <<pc, time, back, m_nDatabasePort>>
    BY DEF Open, Reopen, Calling
  <1>3. /\ connections' \in Seq(Connection)
        /\ n \in Nat \ {0} /\ n \notin DOMAIN connections
        /\ DOMAIN connections' = DOMAIN connections \cup {n}
        /\ \A c \in DOMAIN connections : connections'[c] = connections[c] /\ c < n /\ c \in Nat
        /\ connections'[n].thread = t
        /\ connections'[n].m_nCreated = time - back
        /\ connections'[n].opened = time
        /\ connections'[n].used = time
    <2>1. /\ connections' \in Seq(Connection) /\ Len(connections) \in Nat
          /\ DOMAIN connections = 1..Len(connections)
          /\ DOMAIN connections' = 1..n
          /\ \A c \in DOMAIN connections : connections'[c] = connections[c]
          /\ connections'[n].thread = t
          /\ connections'[n].m_nCreated = time - back
          /\ connections'[n].opened = time
          /\ connections'[n].used = time
      BY <1>1, <1>2, Connected
    <2>2. DOMAIN connections' = DOMAIN connections \cup {n}
      BY <2>1
    <2>3. /\ n \in Nat \ {0} /\ n \notin DOMAIN connections
          /\ \A c \in DOMAIN connections : c < n /\ c \in Nat
      BY <2>1
    <2> QED  BY <2>1, <2>2, <2>3
  <1> HIDE DEF n
  <1>4. /\ DOMAIN m_mapStorageConnections' = DOMAIN m_mapStorageConnections \cup {t}
        /\ m_mapStorageConnections'[t] = n
        /\ \A u \in DOMAIN m_mapStorageConnections :
              u # t => m_mapStorageConnections'[u] = m_mapStorageConnections[u]
    BY <1>2 DEF Remember
  <1>5. /\ busy' = busy \cup {t} /\ pConn'[t] = n /\ since'[t] = time
        /\ pConn' = [pConn EXCEPT ![t] = n] /\ since' = [since EXCEPT ![t] = time]
        /\ \A u \in Threads : u # t => pConn'[u] = pConn[u] /\ since'[u] = since[u]
    BY <1>1, <1>2 DEF Hand, TypeOK
  <1>6. /\ m_vDoRemoveStorageConnections' \in Seq(DOMAIN connections)
        /\ \A i \in DOMAIN m_vDoRemoveStorageConnections :
              \E j \in DOMAIN m_vDoRemoveStorageConnections' :
                 m_vDoRemoveStorageConnections'[j] = m_vDoRemoveStorageConnections[i]
        /\ t \in DOMAIN m_mapStorageConnections =>
              \E j \in DOMAIN m_vDoRemoveStorageConnections' :
                 m_vDoRemoveStorageConnections'[j] = m_mapStorageConnections[t]
        /\ \A j \in DOMAIN m_vDoRemoveStorageConnections' :
              \/ \E i \in DOMAIN m_vDoRemoveStorageConnections :
                   m_vDoRemoveStorageConnections'[j] = m_vDoRemoveStorageConnections[i]
              \/ /\ t \in DOMAIN m_mapStorageConnections
                 /\ m_vDoRemoveStorageConnections'[j] = m_mapStorageConnections[t]
    <2> DEFINE q == m_vDoRemoveStorageConnections
    <2>1. CASE Open(t)
      BY <1>1, <2>1 DEF Open, TypeOK
    <2>2. CASE Reopen(t)
      <3>1. q \in Seq(DOMAIN connections) /\ m_mapStorageConnections[t] \in DOMAIN connections
            /\ t \in DOMAIN m_mapStorageConnections
        BY <1>1, <2>2 DEF TypeOK, Reopen
      <3>2. q' = Append(q, m_mapStorageConnections[t])
        BY <2>2 DEF Reopen, PushBack
      <3> HIDE DEF q
      <3>3. /\ q' \in Seq(DOMAIN connections)
            /\ Len(q) \in Nat /\ DOMAIN q = 1..Len(q) /\ DOMAIN q' = 1..(Len(q) + 1)
            /\ \A i \in 1..Len(q) : q'[i] = q[i]
            /\ q'[Len(q) + 1] = m_mapStorageConnections[t]
        BY <3>1, <3>2
      <3>4. Len(q) + 1 \in DOMAIN q' /\ \A i \in DOMAIN q : i \in DOMAIN q'
        BY <3>3
      <3>5. \A j \in DOMAIN q' : j \in DOMAIN q \/ j = Len(q) + 1
        BY <3>3
      <3>6. /\ q' \in Seq(DOMAIN connections)
            /\ \A i \in DOMAIN q : \E j \in DOMAIN q' : q'[j] = q[i]
            /\ \E j \in DOMAIN q' : q'[j] = m_mapStorageConnections[t]
            /\ \A j \in DOMAIN q' : \/ \E i \in DOMAIN q : q'[j] = q[i]
                                    \/ q'[j] = m_mapStorageConnections[t]
        BY <3>3, <3>4, <3>5
      <3> QED  BY <3>1, <3>6 DEF q
    <2> QED  BY <2>1, <2>2
  <1>7. TypeOK'
    <2>1. m_vDoRemoveStorageConnections' \in Seq(DOMAIN connections')
      BY <1>3, <1>6
    <2>2. pConn' \in [Threads -> DOMAIN connections' \cup {nullptr}]
      BY <1>1, <1>3, <1>5 DEF TypeOK
    <2>3. since' \in [Threads -> Nat]
      BY <1>1, <1>5, Times DEF TypeOK
    <2>4. /\ DOMAIN m_mapStorageConnections' \subseteq Threads
          /\ \A u \in DOMAIN m_mapStorageConnections' :
                m_mapStorageConnections'[u] \in DOMAIN connections'
      BY <1>1, <1>3, <1>4 DEF TypeOK
    <2> QED  BY <1>1, <1>2, <1>3, <1>5, <2>1, <2>2, <2>3, <2>4 DEF TypeOK
  <1>8. NoneLost'
    <2> SUFFICES ASSUME NEW c \in DOMAIN connections'
                 PROVE  \/ \E u \in DOMAIN m_mapStorageConnections' :
                             m_mapStorageConnections'[u] = c
                        \/ \E j \in DOMAIN m_vDoRemoveStorageConnections' :
                             m_vDoRemoveStorageConnections'[j] = c
      BY DEF NoneLost
    <2>1. CASE c = n
      BY <1>4, <2>1
    <2>2. CASE c \in DOMAIN connections
      BY <1>1, <1>4, <1>6, <2>2 DEF NoneLost
    <2> QED  BY <1>3, <2>1, <2>2
  <1>9. TimesInOrder'
    <2> SUFFICES ASSUME NEW c \in DOMAIN connections'
                 PROVE  /\ connections'[c].m_nCreated <= connections'[c].opened
                        /\ connections'[c].opened - back <= connections'[c].m_nCreated
                        /\ connections'[c].opened <= connections'[c].used
                        /\ connections'[c].used <= time
      BY <1>2 DEF TimesInOrder
    <2>1. CASE c = n
      BY <1>1, <1>3, <2>1, Times
    <2>2. CASE c \in DOMAIN connections
      BY <1>1, <1>3, <2>2 DEF TimesInOrder
    <2> QED  BY <1>3, <2>1, <2>2
  <1>10. MapHoldsLast'
    <2>1. \A u \in DOMAIN m_mapStorageConnections' :
             connections'[m_mapStorageConnections'[u]].thread = u
      BY <1>1, <1>3, <1>4 DEF MapHoldsLast, TypeOK
    <2>2. ASSUME NEW c \in DOMAIN connections'
          PROVE  /\ connections'[c].thread \in DOMAIN m_mapStorageConnections'
                 /\ c <= m_mapStorageConnections'[connections'[c].thread]
      BY <1>1, <1>3, <1>4 DEF MapHoldsLast
    <2> QED  BY <2>1, <2>2 DEF MapHoldsLast
  <1>11. HeldAreRecent'
    <2> SUFFICES ASSUME NEW u \in Threads
                 PROVE  /\ Holds(u)' =>
                              /\ u \in DOMAIN m_mapStorageConnections'
                              /\ pConn'[u] = m_mapStorageConnections'[u]
                              /\ since'[u] - connections'[pConn'[u]].used < OutdatedAfter + back
                        /\ u \in busy' => time - since'[u] <= MaxPause
      BY <1>2 DEF HeldAreRecent
    <2>1. CASE u = t
      BY <1>1, <1>3, <1>4, <1>5, <2>1, Times DEF OutdatedAfter
    <2>2. CASE u # t
      <3>1. Holds(u)' => Holds(u)
        BY <1>5, <2>2 DEF Holds
      <3>2. Holds(u) => pConn[u] \in DOMAIN connections
        BY <1>1 DEF Holds, TypeOK
      <3> QED  BY <1>1, <1>3, <1>4, <1>5, <2>2, <3>1, <3>2 DEF HeldAreRecent
    <2> QED  BY <2>1, <2>2
  <1>12. QueuedAreOutdated'
    <2> SUFFICES ASSUME back = 0, NEW u \in DOMAIN m_mapStorageConnections',
                        NEW j \in DOMAIN m_vDoRemoveStorageConnections',
                        m_vDoRemoveStorageConnections'[j] = m_mapStorageConnections'[u]
                 PROVE  Outdated(u)' /\ ~Holds(u)'
      BY <1>2 DEF QueuedAreOutdated
    <2>1. m_vDoRemoveStorageConnections'[j] \in DOMAIN connections
      BY <1>6
    <2>2. u # t /\ u \in DOMAIN m_mapStorageConnections /\ u \in Threads
          /\ m_mapStorageConnections'[u] = m_mapStorageConnections[u]
          /\ m_mapStorageConnections[u] \in DOMAIN connections
      BY <1>1, <1>3, <1>4, <2>1 DEF TypeOK
    <2>3. t \in DOMAIN m_mapStorageConnections =>
             m_mapStorageConnections[t] # m_mapStorageConnections[u]
      BY <1>1, <2>2 DEF MapHoldsLast
    <2>4. Outdated(u) /\ ~Holds(u)
      BY <1>1, <1>6, <2>2, <2>3 DEF QueuedAreOutdated
    <2>5. Outdated(u)'
      BY <1>2, <1>3, <2>2, <2>4 DEF Outdated, getConnectionDurationInSeconds,
                                    getCurrentTimeInMilliseconds
    <2>6. ~Holds(u)'
      BY <1>5, <2>2, <2>4 DEF Holds
    <2> QED  BY <2>5, <2>6
  <1>13. Spaced'
    <2> SUFFICES ASSUME NEW c \in DOMAIN connections', NEW d \in DOMAIN connections',
                        c < d, connections'[c].thread = connections'[d].thread
                 PROVE  /\ connections'[c].opened + OutdatedAfter <= connections'[d].opened
                        /\ connections'[c].used <= connections'[d].opened
      BY DEF Spaced
    <2>1. CASE d \in DOMAIN connections
      <3>1. c \in DOMAIN connections
        BY <1>3, <2>1
      <3> QED  BY <1>1, <1>3, <2>1, <3>1 DEF Spaced
    <2>2. CASE d = n
      <3>1. c \in DOMAIN connections /\ connections[c].thread = t
        BY <1>3, <2>2
      <3>2. t \in DOMAIN m_mapStorageConnections /\ c <= m_mapStorageConnections[t]
        BY <1>1, <3>1 DEF MapHoldsLast
      <3> DEFINE l == m_mapStorageConnections[t]
      <3>3. Outdated(t) /\ l \in DOMAIN connections /\ connections[l].thread = t
        BY <1>1, <3>2 DEF Open, Reopen, TypeOK, MapHoldsLast
      <3>4. time - back - connections[l].m_nCreated >= OutdatedAfter
        BY <1>1, <3>2, <3>3, OutdatedMeans
      <3>last. c <= l
        BY <3>2
      <3> HIDE DEF l
      <3>fields. /\ connections[l].m_nCreated \in Int /\ connections[l].opened \in Nat
            /\ connections[c].opened \in Nat /\ OutdatedAfter \in Nat
            /\ time \in Nat /\ back \in Nat
        BY <1>1, <3>1, <3>3, Times, Fields
      <3>5. connections[l].opened + OutdatedAfter <= time
        BY <1>1, <3>3, <3>4, <3>fields DEF TimesInOrder
      <3>6. c # l => connections[c].opened + OutdatedAfter <= connections[l].opened
        BY <1>1, <3>1, <3>last, <3>3, Fields DEF Spaced
      <3>7. connections[c].opened + OutdatedAfter <= time
        BY <3>5, <3>6, <3>fields
      <3>8. connections[c].used <= time
        BY <1>1, <3>1 DEF TimesInOrder
      <3> QED  BY <1>3, <2>2, <3>1, <3>7, <3>8
    <2> QED  BY <1>3, <2>1, <2>2
  <1> QED  BY <1>7, <1>8, <1>9, <1>10, <1>11, <1>12, <1>13 DEF ConnInv

\* The connection of a thread is queued and stays in the map.
LEMMA QueueStep ==
    ASSUME ConnInv, NEW t \in Threads, ReopenFails(t)
    PROVE  ConnInv'
  <1> DEFINE q == m_vDoRemoveStorageConnections
  <1>1. TypeOK /\ NoneLost /\ HeldAreRecent /\ QueuedAreOutdated /\ MapHoldsLast
    BY DEF ConnInv
  <1>2. /\ UNCHANGED <<pc, time, back, m_nDatabasePort, connections, m_mapStorageConnections>>
        /\ t \in DOMAIN m_mapStorageConnections /\ Outdated(t) /\ t \notin busy
        /\ m_mapStorageConnections[t] \in DOMAIN connections
    BY <1>1 DEF ReopenFails, Calling, TypeOK
  <1>3. /\ q' \in Seq(DOMAIN connections)
        /\ \A i \in DOMAIN q : i \in DOMAIN q' /\ q'[i] = q[i]
        /\ \A j \in DOMAIN q' : \/ j \in DOMAIN q /\ q'[j] = q[j]
                                \/ q'[j] = m_mapStorageConnections[t]
    <2>1. q \in Seq(DOMAIN connections) /\ q' = Append(q, m_mapStorageConnections[t])
      BY <1>1 DEF ReopenFails, PushBack, TypeOK
    <2> HIDE DEF q
    <2>2. /\ q' \in Seq(DOMAIN connections)
          /\ Len(q) \in Nat /\ DOMAIN q = 1..Len(q) /\ DOMAIN q' = 1..(Len(q) + 1)
          /\ \A i \in 1..Len(q) : q'[i] = q[i]
          /\ q'[Len(q) + 1] = m_mapStorageConnections[t]
      BY <1>2, <2>1
    <2>3. /\ \A i \in DOMAIN q : i \in DOMAIN q'
          /\ \A j \in DOMAIN q' : j \in DOMAIN q \/ j = Len(q) + 1
      BY <2>2
    <2> QED  BY <2>2, <2>3
  <1>4. /\ busy' = busy \cup {t} /\ pConn'[t] = nullptr /\ since'[t] = time
        /\ pConn' = [pConn EXCEPT ![t] = nullptr] /\ since' = [since EXCEPT ![t] = time]
        /\ \A u \in Threads : u # t => pConn'[u] = pConn[u] /\ since'[u] = since[u]
    BY <1>1 DEF ReopenFails, Hand, TypeOK
  <1> HIDE DEF q
  <1>5. TypeOK'
    <2>1. q' \in Seq(DOMAIN connections')
      BY <1>2, <1>3
    <2>2. pConn' \in [Threads -> DOMAIN connections' \cup {nullptr}]
          /\ since' \in [Threads -> Nat] /\ busy' \subseteq Threads
      BY <1>1, <1>2, <1>4, Times DEF TypeOK
    <2> QED  BY <1>1, <1>2, <2>1, <2>2 DEF TypeOK, q
  <1>6. NoneLost'
    BY <1>1, <1>2, <1>3 DEF NoneLost, q
  <1>7. TimesInOrder' /\ MapHoldsLast' /\ Spaced'
    BY <1>2 DEF ConnInv, TimesInOrder, MapHoldsLast, Spaced
  <1>8. HeldAreRecent'
    <2> SUFFICES ASSUME NEW u \in Threads
                 PROVE  /\ Holds(u)' =>
                              /\ u \in DOMAIN m_mapStorageConnections
                              /\ pConn'[u] = m_mapStorageConnections[u]
                              /\ since'[u] - connections[pConn'[u]].used < OutdatedAfter + back
                        /\ u \in busy' => time - since'[u] <= MaxPause
      BY <1>2 DEF HeldAreRecent
    <2>1. CASE u = t
      BY <1>1, <1>4, <2>1, Times DEF Holds
    <2>2. CASE u # t
      BY <1>1, <1>4, <2>2 DEF HeldAreRecent, Holds
    <2> QED  BY <2>1, <2>2
  <1>9. QueuedAreOutdated'
    <2> SUFFICES ASSUME back = 0, NEW u \in DOMAIN m_mapStorageConnections,
                        NEW j \in DOMAIN q', q'[j] = m_mapStorageConnections[u]
                 PROVE  Outdated(u)' /\ ~Holds(u)'
      BY <1>2 DEF QueuedAreOutdated, q
    <2>1. Outdated(u)' <=> Outdated(u)
      BY <1>2 DEF Outdated, getConnectionDurationInSeconds, getCurrentTimeInMilliseconds
    <2>2. CASE u = t
      BY <1>2, <1>4, <2>1, <2>2 DEF Holds
    <2>3. CASE u # t
      <3>1. q'[j] # m_mapStorageConnections[t]
        BY <1>1, <1>2, <2>3 DEF MapHoldsLast
      <3>2. Outdated(u) /\ ~Holds(u)
        BY <1>1, <1>3, <3>1 DEF QueuedAreOutdated, q
      <3>3. u \in Threads
        BY <1>1 DEF TypeOK
      <3> QED  BY <1>4, <2>1, <2>3, <3>2, <3>3 DEF Holds
    <2> QED  BY <2>2, <2>3
  <1> QED  BY <1>5, <1>6, <1>7, <1>8, <1>9 DEF ConnInv

\* A statement is run.
LEMMA QueryStep ==
    ASSUME ConnInv, NEW t \in Threads, Query(t)
    PROVE  ConnInv'
  <1>1. TypeOK /\ NoneLost /\ HeldAreRecent /\ QueuedAreOutdated /\ MapHoldsLast /\ TimesInOrder
        /\ Spaced
    BY DEF ConnInv
  <1>2. /\ UNCHANGED <<pc, time, back, m_nDatabasePort, m_mapStorageConnections,
                       m_vDoRemoveStorageConnections, busy, pConn>>
        /\ since' = [since EXCEPT ![t] = time]
        /\ Holds(t)
    BY DEF Query, Holds
  <1>3. /\ connections' \in Seq(Connection)
        /\ pConn[t] \in DOMAIN connections
        /\ DOMAIN connections' = DOMAIN connections
        /\ \A c \in DOMAIN connections :
              /\ connections'[c].thread = connections[c].thread
              /\ connections'[c].m_nCreated = connections[c].m_nCreated
              /\ connections'[c].opened = connections[c].opened
              /\ connections'[c].used = IF c = pConn[t] THEN time ELSE connections[c].used
    BY <1>1, Queried
  <1>4. /\ t \in DOMAIN m_mapStorageConnections /\ pConn[t] = m_mapStorageConnections[t]
        /\ connections[pConn[t]].thread = t
    BY <1>1, <1>2 DEF HeldAreRecent, MapHoldsLast
  <1>5. TypeOK'
    BY <1>1, <1>2, <1>3, Times DEF TypeOK
  <1>6. NoneLost' /\ MapHoldsLast'
    BY <1>1, <1>2, <1>3 DEF NoneLost, MapHoldsLast, TypeOK
  <1>7. TimesInOrder'
    <2> SUFFICES ASSUME NEW c \in DOMAIN connections
                 PROVE  /\ connections'[c].m_nCreated <= connections'[c].opened
                        /\ connections'[c].opened - back <= connections'[c].m_nCreated
                        /\ connections'[c].opened <= connections'[c].used
                        /\ connections'[c].used <= time
      BY <1>2, <1>3 DEF TimesInOrder
    <2>1. /\ connections[c].m_nCreated <= connections[c].opened
          /\ connections[c].opened - back <= connections[c].m_nCreated
          /\ connections[c].opened <= connections[c].used
          /\ connections[c].used <= time
      BY <1>1 DEF TimesInOrder
    <2>2. connections[c].opened \in Nat /\ connections[c].used \in Nat /\ time \in Nat
      BY <1>1, Fields, Times
    <2> QED  BY <1>3, <2>1, <2>2
  <1>8. HeldAreRecent'
    <2> SUFFICES ASSUME NEW u \in Threads
                 PROVE  /\ Holds(u) =>
                              /\ u \in DOMAIN m_mapStorageConnections
                              /\ pConn[u] = m_mapStorageConnections[u]
                              /\ since'[u] - connections'[pConn[u]].used < OutdatedAfter + back
                        /\ u \in busy => time - since'[u] <= MaxPause
      BY <1>2 DEF HeldAreRecent, Holds
    <2>1. CASE u = t
      <3>1. since'[u] = time /\ connections'[pConn[u]].used = time
        BY <1>1, <1>2, <1>3, <2>1 DEF TypeOK
      <3> QED  BY <1>1, <1>4, <2>1, <3>1, Times DEF OutdatedAfter
    <2>2. CASE u # t
      <3>1. since'[u] = since[u]
        BY <1>1, <1>2, <2>2 DEF TypeOK
      <3>2. Holds(u) => connections'[pConn[u]].used = connections[pConn[u]].used
        <4> HAVE Holds(u)
        <4>1. u \in DOMAIN m_mapStorageConnections /\ pConn[u] = m_mapStorageConnections[u]
          BY <1>1 DEF HeldAreRecent
        <4>2. pConn[u] # pConn[t] /\ pConn[u] \in DOMAIN connections
          BY <1>1, <1>4, <2>2, <4>1 DEF MapHoldsLast, TypeOK
        <4> QED  BY <1>3, <4>2
      <3> QED  BY <1>1, <3>1, <3>2 DEF HeldAreRecent
    <2> QED  BY <2>1, <2>2
  <1>9. QueuedAreOutdated'
    <2>1. \A u \in DOMAIN m_mapStorageConnections : Outdated(u)' <=> Outdated(u)
      BY <1>1, <1>2, <1>3 DEF Outdated, getConnectionDurationInSeconds,
                              getCurrentTimeInMilliseconds, TypeOK
    <2>2. \A u \in Threads : Holds(u)' <=> Holds(u)
      BY <1>2 DEF Holds
    <2> QED  BY <1>1, <1>2, <2>1, <2>2 DEF QueuedAreOutdated, TypeOK
  <1>10. Spaced'
    <2> SUFFICES ASSUME NEW c \in DOMAIN connections, NEW d \in DOMAIN connections,
                        c < d, connections[c].thread = connections[d].thread
                 PROVE  /\ connections'[c].opened + OutdatedAfter <= connections'[d].opened
                        /\ connections'[c].used <= connections'[d].opened
      BY <1>3 DEF Spaced
    <2>1. c # pConn[t]
      <3> SUFFICES ASSUME c = pConn[t] PROVE FALSE
        OBVIOUS
      <3>1. connections[d].thread = t /\ d <= m_mapStorageConnections[t]
        BY <1>1, <1>4 DEF MapHoldsLast
      <3> QED  BY <1>1, <1>4, <3>1, Fields
    <2> QED  BY <1>1, <1>3, <2>1 DEF Spaced
  <1> QED  BY <1>5, <1>6, <1>7, <1>8, <1>9, <1>10 DEF ConnInv

\* The process starts or ends.
LEMMA ProcessStep ==
    ASSUME ConnInv, Construct \/ Die
    PROVE  ConnInv'
  <1>1. CASE Construct
    <2>1. UNCHANGED <<time, back, connections, m_mapStorageConnections,
                      m_vDoRemoveStorageConnections, busy, pConn, since>>
      BY <1>1 DEF Construct
    <2>2. TypeOK'
      BY <1>1, <2>1, PortsAssumption DEF ConnInv, TypeOK, Construct
    <2>3. NoneLost' /\ TimesInOrder' /\ MapHoldsLast' /\ Spaced'
      BY <2>1 DEF ConnInv, NoneLost, TimesInOrder, MapHoldsLast, Spaced
    <2>4. HeldAreRecent' /\ QueuedAreOutdated'
      BY <2>1 DEF ConnInv, HeldAreRecent, QueuedAreOutdated, Holds, Outdated,
                  getConnectionDurationInSeconds, getCurrentTimeInMilliseconds
    <2> QED  BY <2>2, <2>3, <2>4 DEF ConnInv
  <1>2. CASE Die
    <2>1. /\ connections' = <<>> /\ m_mapStorageConnections' = <<>>
          /\ m_vDoRemoveStorageConnections' = <<>> /\ busy' = {}
          /\ DOMAIN connections' = {} /\ DOMAIN m_mapStorageConnections' = {}
          /\ DOMAIN m_vDoRemoveStorageConnections' = {}
      BY <1>2 DEF Die
    <2>2. TypeOK'
      BY <1>2, <2>1 DEF ConnInv, TypeOK, Die
    <2>3. NoneLost' /\ TimesInOrder' /\ MapHoldsLast' /\ Spaced' /\ QueuedAreOutdated'
      BY <2>1 DEF NoneLost, TimesInOrder, MapHoldsLast, Spaced, QueuedAreOutdated
    <2>4. HeldAreRecent'
      BY <2>1 DEF HeldAreRecent, Holds
    <2> QED  BY <2>2, <2>3, <2>4 DEF ConnInv
  <1> QED  BY <1>1, <1>2

\* Time passes, or the wall clock is set back.
LEMMA ClockStep ==
    ASSUME ConnInv, Tick \/ SetBack
    PROVE  ConnInv'
  <1>1. TypeOK /\ HeldAreRecent /\ QueuedAreOutdated /\ TimesInOrder
    BY DEF ConnInv
  <1>2. /\ UNCHANGED <<pc, process>>
        /\ time' \in Nat /\ back' \in Nat /\ time' \in Instants /\ back' \in Backs
        /\ time <= time' /\ back <= back'
        /\ back' = 0 => back = 0
        /\ \A t \in busy : time - since[t] <= MaxPause => time' - since[t] <= MaxPause
    <2>1. CASE Tick
      BY <1>1, <2>1, TimesAssumption, Times DEF Tick, TypeOK
    <2>2. CASE SetBack
      BY <1>1, <2>2, TimesAssumption, Times DEF SetBack, TypeOK
    <2> QED  BY <2>1, <2>2
  <1>3. UNCHANGED <<connections, m_mapStorageConnections, m_vDoRemoveStorageConnections,
                    busy, pConn, since, m_nDatabasePort>>
    BY <1>2 DEF process
  <1>4. TypeOK'
    BY <1>1, <1>2, <1>3 DEF TypeOK
  <1>5. NoneLost' /\ MapHoldsLast' /\ Spaced'
    BY <1>3 DEF ConnInv, NoneLost, MapHoldsLast, Spaced
  <1>6. TimesInOrder'
    <2> SUFFICES ASSUME NEW c \in DOMAIN connections
                 PROVE  /\ connections[c].m_nCreated <= connections[c].opened
                        /\ connections[c].opened - back' <= connections[c].m_nCreated
                        /\ connections[c].opened <= connections[c].used
                        /\ connections[c].used <= time'
      BY <1>3 DEF TimesInOrder
    <2> QED  BY <1>1, <1>2, Times, Fields, SMTT(30) DEF TimesInOrder
  <1>7. HeldAreRecent'
    <2> SUFFICES ASSUME NEW t \in Threads
                 PROVE  /\ Holds(t) =>
                              /\ t \in DOMAIN m_mapStorageConnections
                              /\ pConn[t] = m_mapStorageConnections[t]
                              /\ since[t] - connections[pConn[t]].used < OutdatedAfter + back'
                        /\ t \in busy => time' - since[t] <= MaxPause
      BY <1>3 DEF HeldAreRecent, Holds
    <2>1. since[t] \in Nat /\ (Holds(t) => connections[pConn[t]].used \in Nat)
      BY <1>1, Fields DEF TypeOK, Holds
    <2> QED  BY <1>1, <1>2, <2>1, Times DEF HeldAreRecent
  <1>8. QueuedAreOutdated'
    <2> SUFFICES ASSUME back' = 0,
                        NEW t \in DOMAIN m_mapStorageConnections, Outdated(t)
                 PROVE  Outdated(t)'
      <3>1. \A t \in DOMAIN m_mapStorageConnections : Holds(t)' <=> Holds(t)
        BY <1>3 DEF Holds
      <3> QED  BY <1>1, <1>2, <1>3, <3>1 DEF QueuedAreOutdated
    <2>1. connections[m_mapStorageConnections[t]].m_nCreated \in Int
      BY <1>1, Fields DEF TypeOK
    <2>2. time - back - connections[m_mapStorageConnections[t]].m_nCreated >= OutdatedAfter
      BY <1>1, OutdatedMeans
    <2>3. time' - back' - connections[m_mapStorageConnections[t]].m_nCreated >= OutdatedAfter
      BY <1>1, <1>2, <2>1, <2>2, Times
    <2>4. time' - back' - connections[m_mapStorageConnections[t]].m_nCreated \in Int
      BY <1>2, <2>1
    <2>5. (time' - back' - connections[m_mapStorageConnections[t]].m_nCreated) \div 1000 > 60 * 60
      BY <2>3, <2>4, Hour
    <2> QED  BY <1>3, <2>5 DEF Outdated, getConnectionDurationInSeconds,
                getCurrentTimeInMilliseconds, m_nConnectionOutdatedAfterSeconds
  <1> QED  BY <1>4, <1>5, <1>6, <1>7, <1>8 DEF ConnInv

\* The invariant holds in every state of every behaviour.
LEMMA ConnInvariant == Spec => []ConnInv
  <1>1. Init => ConnInv
    <2> SUFFICES ASSUME Init PROVE ConnInv
      OBVIOUS
    <2>1. /\ DOMAIN connections = {} /\ DOMAIN m_mapStorageConnections = {}
          /\ DOMAIN m_vDoRemoveStorageConnections = {} /\ busy = {}
      BY DEF Init
    <2>2. TypeOK
      BY <2>1, TimesAssumption DEF Init, TypeOK
    <2>3. NoneLost /\ TimesInOrder /\ MapHoldsLast /\ Spaced /\ QueuedAreOutdated
      BY <2>1 DEF NoneLost, TimesInOrder, MapHoldsLast, Spaced, QueuedAreOutdated
    <2>4. HeldAreRecent
      BY <2>1 DEF HeldAreRecent, Holds
    <2> QED  BY <2>2, <2>3, <2>4 DEF ConnInv
  <1>2. ConnInv /\ [Next]_vars => ConnInv'
    <2> SUFFICES ASSUME ConnInv, [Next]_vars PROVE ConnInv'
      OBVIOUS
    <2>1. CASE Construct \/ Crash
      BY <2>1, ProcessStep DEF Crash
    <2>2. CASE Tick \/ SetBack
      BY <2>2, ClockStep
    <2>3. ASSUME NEW t \in Threads, getConnection(t) \/ Query(t) \/ QueryFails(t) \/ Return(t)
          PROVE  ConnInv'
      BY <2>3, PointerStep, ConnectStep, QueueStep, QueryStep, ProcessStep
         DEF getConnection, QueryFails
    <2>4. CASE UNCHANGED vars
      <3>1. UNCHANGED <<pc, time, back, m_nDatabasePort, connections, m_mapStorageConnections,
                        m_vDoRemoveStorageConnections, busy, pConn, since>>
        BY <2>4 DEF vars, process
      <3> QED  BY <3>1 DEF ConnInv, TypeOK, NoneLost, TimesInOrder, MapHoldsLast, Spaced,
                 HeldAreRecent, QueuedAreOutdated, Holds, Outdated,
                 getConnectionDurationInSeconds, getCurrentTimeInMilliseconds
    <2> QED  BY <2>1, <2>2, <2>3, <2>4 DEF Next
  <1> QED  BY <1>1, <1>2, PTL DEF Spec

-----------------------------------------------------------------------------
(* Theorems *)

\* Whatever connections fail, age and are replaced and however the clock is set back: a
\* thread works on its own last connection, no connection is forgotten, and with a clock
\* that was never set back none that is in use waits to be removed (getConnection,
\* m_mapStorageConnections and m_vDoRemoveStorageConnections).
THEOREM ConnectionsAreAccounted == Spec => []ConnectionsAccounted
  <1>1. ConnInv => ConnectionsAccounted
    <2> SUFFICES ASSUME ConnInv PROVE ConnectionsAccounted
      OBVIOUS
    <2>1. TypeOK /\ NoneLost /\ HeldAreRecent /\ QueuedAreOutdated /\ MapHoldsLast
      BY DEF ConnInv
    <2>2. OwnConnection
      <3> SUFFICES ASSUME NEW t \in busy, pConn[t] # nullptr
                   PROVE  /\ connections[pConn[t]].thread = t
                          /\ \A c \in DOMAIN connections :
                                connections[c].thread = t => c <= pConn[t]
        BY DEF OwnConnection
      <3>1. t \in Threads /\ t \in DOMAIN m_mapStorageConnections
            /\ pConn[t] = m_mapStorageConnections[t]
        BY <2>1 DEF HeldAreRecent, Holds, TypeOK
      <3> QED  BY <2>1, <3>1 DEF MapHoldsLast
    <2>3. RemovedNotInUse
      <3> SUFFICES ASSUME back = 0, NEW t \in busy,
                          NEW i \in DOMAIN m_vDoRemoveStorageConnections,
                          m_vDoRemoveStorageConnections[i] = pConn[t]
                   PROVE  FALSE
        BY DEF RemovedNotInUse
      <3>1. m_vDoRemoveStorageConnections[i] \in DOMAIN connections /\ t \in Threads
        BY <2>1 DEF TypeOK
      <3>2. pConn[t] # nullptr
        BY <2>1, <3>1, Fields DEF nullptr
      <3>3. Holds(t) /\ t \in DOMAIN m_mapStorageConnections
            /\ pConn[t] = m_mapStorageConnections[t]
        BY <2>1, <3>1, <3>2 DEF HeldAreRecent, Holds
      <3> QED  BY <2>1, <3>3 DEF QueuedAreOutdated
    <2> QED  BY <2>1, <2>2, <2>3 DEF ConnectionsAccounted
  <1> QED  BY <1>1, ConnInvariant, PTL

\* No statement is run on a connection that MySQL has closed for being idle: the hour
\* getConnection allows, by a clock that may be behind, and the longest pause of a
\* caller are together shorter than wait_timeout.
THEOREM NoneGoneAway == Spec => []NeverGoneAway
  <1>1. ConnInv => NeverGoneAway
    <2> SUFFICES ASSUME ConnInv, NEW t \in busy, pConn[t] # nullptr
                 PROVE  time - connections[pConn[t]].used < WaitTimeout
      <3>1. ConnInv => \A t \in busy : pConn[t] # nullptr => time - connections[pConn[t]].used \in Int
        BY Times, Fields, SMTT(30) DEF ConnInv, TypeOK
      <3> QED  BY <3>1, Times DEF NeverGoneAway, GoneAway, ConnInv
    <2>1. TypeOK /\ HeldAreRecent /\ t \in Threads
      BY DEF ConnInv, TypeOK
    <2>2. pConn[t] \in DOMAIN connections /\ since[t] \in Nat
      BY <2>1 DEF TypeOK
    <2>3. /\ since[t] - connections[pConn[t]].used < OutdatedAfter + back
          /\ time - since[t] <= MaxPause
      BY <2>1 DEF HeldAreRecent, Holds
    <2>4. /\ connections[pConn[t]].used \in Nat
          /\ time \in Nat /\ back \in Nat /\ MaxPause \in Nat /\ WaitTimeout \in Nat
          /\ OutdatedAfter \in Nat
          /\ OutdatedAfter + MaxPause + back <= WaitTimeout
      BY <2>1, <2>2, Times, Fields
    <2> QED  BY <2>2, <2>3, <2>4
  <1> QED  BY <1>1, ConnInvariant, PTL

\* Numbers that are an hour apart fall into different hours.
LEMMA DifferentHours ==
    ASSUME NEW x \in Nat, NEW y \in Nat, x + OutdatedAfter <= y
    PROVE  x \div OutdatedAfter # y \div OutdatedAfter
  BY DEF OutdatedAfter

LEMMA HoursBounded ==
    ASSUME NEW x \in Nat, NEW y \in Nat, x <= y
    PROVE  x \div OutdatedAfter \in 0..(y \div OutdatedAfter)
  BY DEF OutdatedAfter

\* Although the server closes no connection, the ones MySQL still holds for a thread are
\* bounded by wait_timeout: they were opened more than an hour apart, and all but the
\* oldest of them within the last wait_timeout.
THEOREM ConnectionsBounded == Spec => []ServerConnectionsBounded
  <1>1. ConnInv => ServerConnectionsBounded
    <2> SUFFICES ASSUME ConnInv, NEW t \in Threads
                 PROVE  Cardinality({c \in DOMAIN connections :
                                        connections[c].thread = t /\ ~GoneAway(c)})
                            <= (WaitTimeout - 1) \div OutdatedAfter + 2
      BY DEF ServerConnectionsBounded
    <2> DEFINE S == {c \in DOMAIN connections : connections[c].thread = t /\ ~GoneAway(c)}
               K == (WaitTimeout - 1) \div OutdatedAfter
               Later(c) == \E d \in S : d < c
               hours(c) == (time - connections[c].opened) \div OutdatedAfter
               f == [c \in S |-> IF Later(c) THEN hours(c) + 1 ELSE 0]
    <2>1. TypeOK /\ TimesInOrder /\ Spaced
      BY DEF ConnInv
    <2>2. WaitTimeout - 1 \in Nat /\ K \in Nat /\ OutdatedAfter \in Nat
      BY <2>1, Times DEF OutdatedAfter
    <2>3. \A c \in S : /\ c \in Nat /\ connections[c].opened \in Nat
                       /\ connections[c].used \in Nat
                       /\ c \in DOMAIN connections /\ connections[c].thread = t
                       /\ time - connections[c].used < WaitTimeout
                       /\ time - connections[c].opened \in Nat
      <3> TAKE c \in S
      <3>1. /\ c \in Nat /\ connections[c].opened \in Nat /\ connections[c].used \in Nat
        BY <2>1, Fields
      <3>2. connections[c].opened <= connections[c].used /\ connections[c].used <= time
        BY <2>1 DEF TimesInOrder
      <3>3. ~(time - connections[c].used >= WaitTimeout)
        BY DEF GoneAway
      <3>4. time \in Nat /\ WaitTimeout \in Nat
        BY <2>1, Times
      <3> QED  BY <3>1, <3>2, <3>3, <3>4
    <2> HIDE DEF S, K
    <2>4. ASSUME NEW c \in S, Later(c)
          PROVE  hours(c) \in 0..K
      <3>1. PICK d \in S : d < c
        BY <2>4
      <3>2. connections[d].used <= connections[c].opened
        BY <2>1, <2>3, <3>1 DEF Spaced
      <3>3. time - connections[c].opened <= WaitTimeout - 1
        BY <2>1, <2>2, <2>3, <3>2, Times
      <3> QED  BY <2>2, <2>3, <3>3, HoursBounded DEF K
    <2>5. ASSUME NEW c \in S, NEW d \in S, c < d
          PROVE  hours(c) # hours(d)
      <3>1. connections[c].opened + OutdatedAfter <= connections[d].opened
        BY <2>1, <2>3, <2>5 DEF Spaced
      <3>2. (time - connections[d].opened) + OutdatedAfter <= time - connections[c].opened
        BY <2>1, <2>2, <2>3, <3>1, Times
      <3> QED  BY <2>3, <3>2, DifferentHours
    <2> HIDE DEF hours
    <2>6. f \in [S -> 0..(K + 1)]
      BY <2>2, <2>4
    <2>7. ASSUME NEW c \in S, NEW d \in S, c < d
          PROVE  f[c] # f[d]
      <3>1. Later(d) /\ f[d] = hours(d) + 1 /\ hours(d) \in 0..K
        BY <2>4, <2>7
      <3>2. CASE Later(c)
        <4>1. f[c] = hours(c) + 1 /\ hours(c) \in 0..K
          BY <2>4, <3>2
        <4> QED  BY <2>2, <2>5, <2>7, <3>1, <4>1
      <3>3. CASE ~Later(c)
        <4>1. f[c] = 0
          BY <3>3
        <4> QED  BY <2>2, <3>1, <4>1
      <3> QED  BY <3>2, <3>3
    <2> HIDE DEF f
    <2>8. \A c, d \in S : f[c] = f[d] => c = d
      BY <2>3, <2>7
    <2>9. f \in Injection(S, 0..(K + 1))
      BY <2>6, <2>8 DEF Injection, IsInjective
    <2>10. IsFiniteSet(0..(K + 1)) /\ Cardinality(0..(K + 1)) = K + 2
      BY <2>2, FS_Interval
    <2>11. Cardinality(S) <= Cardinality(0..(K + 1))
      BY <2>9, <2>10, FS_Injection
    <2> QED  BY <2>10, <2>11 DEF S, K
  <1> QED  BY <1>1, ConnInvariant, PTL
=============================================================================

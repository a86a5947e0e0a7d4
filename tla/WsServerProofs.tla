---------------------------- MODULE WsServerProofs ----------------------------
(***************************************************************************)
(* Proofs about the loop thread: timers, polled events, handlers and       *)
(* contexts live exactly as long as the connection they belong to, and     *)
(* what follows from it for a round of callbacks, for every number of      *)
(* descriptors, connections and due timers.                                *)
(***************************************************************************)
EXTENDS WsServer, SequenceTheorems, TLAPS

\* The types of what belongs to a connection.
ConnTypes ==
    /\ last_id \in 0..MaxId
    /\ io \in [Fds -> Hio]
    /\ timers \subseteq Timer
    /\ protocol \in [Ids -> {"deleted", "http", "websocket"}]
    /\ noPong \in [Ids -> BOOLEAN]
    /\ ctx \in [Ids -> Nat \cup {NoContext}]
    /\ socket \in [Ids -> {"closed", "quiet", "data", "eof", "reset"}]
    /\ silent \subseteq Ids

\* An open connection has an id that was given out, and no other has it.
IdsDistinct ==
    /\ \A fd \in Fds : io[fd].opened => Id(fd) \in 1..last_id
    /\ \A f, g \in Fds : io[f].opened /\ io[g].opened /\ Id(f) = Id(g) => f = g

\* The timers a connection should have, one by one.
Wanted(kind, fd, id) ==
    /\ io[fd].opened /\ id = Id(fd)
    /\ \/ kind = "keepalive" /\ protocol[id] # "websocket"
       \/ kind = "heartbeat" /\ protocol[id] = "websocket"
       \/ kind = "sync" /\ protocol[id] = "websocket"
       \/ kind = "close" /\ io[fd].close

Kinds == {"keepalive", "close", "heartbeat", "sync"}

TimersWanted ==
    \A kind \in Kinds, fd \in Fds, id \in Ids : <<kind, fd, id>> \in timers <=> Wanted(kind, fd, id)

\* What holds of the connections alone.
ConnInv == ConnTypes /\ IdsDistinct /\ TimersWanted /\ ContextWhileOpen

\* What the loop and the sessions add: events that are pending, and players that exist.
LoopInv ==
    /\ pc \in {"down", "up", "undefined"} /\ listening \in BOOLEAN
    /\ waiting \in Nat /\ last_id + waiting <= MaxId
    /\ revents \in [Fds -> SUBSET ({"read", "write"} \X Ids)]
    /\ due \subseteq Timer
    /\ pendings \subseteq Fds \cup {ListenFd, SockpairFd}
    /\ custom_events \in Seq([fd : Fds, id : Ids])

SessionInv ==
    /\ \A id \in Ids : ctx[id] = NoContext \/ ctx[id] \in 0..Len(players)
    /\ players \in Seq(BOOLEAN)
    /\ DOMAIN m_mapSessions \subseteq Tokens
    /\ \A k \in DOMAIN m_mapSessions : m_mapSessions[k] \in 1..Len(players)

WsInv == ConnInv /\ LoopInv /\ NoStaleEvents /\ SessionInv

-----------------------------------------------------------------------------
(* What a callback does to the connections *)

\* A timer is its kind, its descriptor and its connection.
LEMMA TimerParts ==
    ASSUME NEW t \in Timer
    PROVE  t[1] \in Kinds /\ t[2] \in Fds /\ t[3] \in Ids /\ t = <<t[1], t[2], t[3]>>
  BY DEF Timer, Kinds

LEMMA TimerMade ==
    ASSUME NEW kind \in Kinds, NEW fd \in Fds, NEW id \in Ids
    PROVE  <<kind, fd, id>> \in Timer
  BY DEF Timer, Kinds

\* The fields of an hio_t, and the id of an open one.
LEMMA HioFields ==
    ASSUME ConnInv, NEW fd \in Fds
    PROVE  /\ io[fd] \in Hio
           /\ io[fd].id \in Ids \cup {None} /\ io[fd].opened \in BOOLEAN
           /\ io[fd].close \in BOOLEAN /\ io[fd].queue \in BOOLEAN
           /\ io[fd].opened => Id(fd) \in Ids /\ Id(fd) \in 1..last_id
  <1>1. io[fd] \in Hio
    BY DEF ConnInv, ConnTypes
  <1>2. io[fd].opened => Id(fd) \in 1..last_id
    BY DEF ConnInv, IdsDistinct
  <1>3. last_id \in 0..MaxId
    BY DEF ConnInv, ConnTypes
  <1>4. 1..last_id \subseteq Ids
    BY <1>3, BoundsAssumption DEF Ids
  <1> QED  BY <1>1, <1>2, <1>4 DEF Hio

\* The write queue of an hio_t becomes empty or not.
LEMMA QueueSet ==
    ASSUME io \in [Fds -> Hio], NEW fd \in Fds, NEW q \in BOOLEAN,
           io' = [io EXCEPT ![fd].queue = q]
    PROVE  /\ io' \in [Fds -> Hio]
           /\ \A f \in Fds : /\ io'[f].id = io[f].id
                             /\ io'[f].opened = io[f].opened
                             /\ io'[f].close = io[f].close
  <1>1. io[fd] \in Hio
    OBVIOUS
  <1>2. io'[fd] = [io[fd] EXCEPT !.queue = q] /\ \A f \in Fds : f # fd => io'[f] = io[f]
    OBVIOUS
  <1>3. /\ io'[fd] \in Hio /\ io'[fd].opened = io[fd].opened /\ io'[fd].id = io[fd].id
        /\ io'[fd].close = io[fd].close
    <2>1. CASE q = TRUE
      <3>1. io'[fd] = [io[fd] EXCEPT !.queue = TRUE]
        BY <1>2, <2>1
      <3> QED  BY ONLY <1>1, <3>1 DEF Hio
    <2>2. CASE q = FALSE
      <3>1. io'[fd] = [io[fd] EXCEPT !.queue = FALSE]
        BY <1>2, <2>2
      <3> QED  BY ONLY <1>1, <3>1 DEF Hio
    <2> QED  BY <2>1, <2>2
  <1>4. io' = [f \in Fds |-> io'[f]]
    OBVIOUS
  <1> QED  BY <1>2, <1>3, <1>4

\* No connection is another one after the step, and none is opened.
SameIds == \A fd \in Fds : io'[fd].id = io[fd].id /\ (io'[fd].opened => io[fd].opened)

\* A step that opens, closes and upgrades nothing and starts no close.
Light ==
    /\ io' \in [Fds -> Hio]
    /\ \A fd \in Fds : /\ io'[fd].id = io[fd].id /\ io'[fd].opened = io[fd].opened
                       /\ io'[fd].close = io[fd].close
    /\ UNCHANGED <<timers, protocol, last_id>>
    /\ noPong' \in [Ids -> BOOLEAN]
    /\ ctx' \in [Ids -> Nat \cup {NoContext}]
    /\ \A id \in Ids : ctx'[id] = NoContext <=> ctx[id] = NoContext
    /\ socket' \in [Ids -> {"closed", "quiet", "data", "eof", "reset"}]
    /\ silent' \subseteq Ids

LEMMA LightStep ==
    ASSUME ConnInv, Light
    PROVE  ConnInv' /\ SameIds
  <1>1. ConnTypes'
    BY DEF ConnInv, ConnTypes, Light
  <1>2. IdsDistinct'
    BY DEF ConnInv, IdsDistinct, Light, Id
  <1>3. TimersWanted'
    <2> SUFFICES ASSUME NEW kind \in Kinds, NEW fd \in Fds, NEW id \in Ids
                 PROVE  <<kind, fd, id>> \in timers' <=> Wanted(kind, fd, id)'
      BY DEF TimersWanted
    <2>1. Wanted(kind, fd, id)' <=> Wanted(kind, fd, id)
      BY DEF Light, Wanted, Id
    <2> QED  BY <2>1 DEF ConnInv, TimersWanted, Light
  <1>4. ContextWhileOpen'
    <2>1. \A id \in Ids : Open(id)' <=> Open(id)
      BY DEF Light, Open
    <2> QED  BY <2>1 DEF ConnInv, ContextWhileOpen, Light
  <1> QED  BY <1>1, <1>2, <1>3, <1>4 DEF ConnInv, SameIds, Light

\* hio_close goes through.
LEMMA DoCloseStep ==
    ASSUME ConnInv, NEW fd \in Fds, io[fd].opened, DoClose(fd), UNCHANGED last_id
    PROVE  ConnInv' /\ SameIds
  <1>1. ConnTypes /\ IdsDistinct /\ TimersWanted /\ ContextWhileOpen
    BY DEF ConnInv
  <1>2. Id(fd) \in Ids /\ io[fd] \in Hio
    BY HioFields
  <1>3. /\ io' \in [Fds -> Hio]
        /\ ~io'[fd].opened /\ io'[fd].id = io[fd].id
        /\ \A f \in Fds : f # fd => io'[f] = io[f]
    <2>1. io' = [io EXCEPT ![fd].opened = FALSE, ![fd].close = FALSE, ![fd].queue = FALSE]
      BY DEF DoClose, hio_done
    <2>2. io'[fd] = [io[fd] EXCEPT !.opened = FALSE, !.close = FALSE, !.queue = FALSE]
          /\ \A f \in Fds : f # fd => io'[f] = io[f]
      BY <1>1, <2>1 DEF ConnTypes
    <2>3. io'[fd] \in Hio /\ ~io'[fd].opened /\ io'[fd].id = io[fd].id
      BY <1>2, <2>2 DEF Hio
    <2>4. io' = [f \in Fds |-> io'[f]]
      BY <1>1, <2>1 DEF ConnTypes
    <2> QED  BY <1>1, <2>2, <2>3, <2>4 DEF ConnTypes
  <1>4. /\ protocol' = [protocol EXCEPT ![Id(fd)] = "deleted"]
        /\ noPong' = [noPong EXCEPT ![Id(fd)] = FALSE]
        /\ ctx' = [ctx EXCEPT ![Id(fd)] = NoContext]
        /\ socket' = [socket EXCEPT ![Id(fd)] = "closed"]
        /\ silent' = silent \ {Id(fd)}
    BY DEF DoClose, on_close
  <1>5. /\ timers' \subseteq timers
        /\ \A kind \in Kinds, f \in Fds, id \in Ids :
              <<kind, f, id>> \in timers' <=>
                 /\ <<kind, f, id>> \in timers
                 /\ ~(kind \in {"keepalive", "close", "heartbeat"} /\ f = fd /\ id = Id(fd))
                 /\ ~(protocol[Id(fd)] = "websocket" /\ kind = "sync" /\ id = Id(fd))
    <2>1. timers' = (timers \ TimersOf(fd)) \
                    (IF protocol[Id(fd)] = "websocket" THEN onclose(Id(fd)) ELSE {})
      BY DEF DoClose, on_close
    <2>2. \A kind \in Kinds, f \in Fds, id \in Ids :
             <<kind, f, id>> \in TimersOf(fd) <=>
                kind \in {"keepalive", "close", "heartbeat"} /\ f = fd /\ id = Id(fd)
      BY DEF TimersOf
    <2>3. \A kind \in Kinds, f \in Fds, id \in Ids :
             <<kind, f, id>> \in onclose(Id(fd)) <=>
                <<kind, f, id>> \in timers /\ kind = "sync" /\ id = Id(fd)
      BY DEF onclose
    <2> QED  BY <2>1, <2>2, <2>3
  <1>6. ConnTypes'
    BY <1>1, <1>2, <1>3, <1>4, <1>5 DEF ConnTypes
  <1>7. \A f \in Fds : /\ io'[f].opened <=> io[f].opened /\ f # fd
                       /\ io'[f].id = io[f].id
                       /\ f # fd => io'[f].close = io[f].close
    BY <1>3
  <1>8. IdsDistinct'
    <2>1. \A f \in Fds : io'[f].opened => io[f].opened /\ io'[f].id = io[f].id
      BY <1>7
    <2>2. last_id' = last_id
      OBVIOUS
    <2> QED  BY <1>1, <2>1, <2>2 DEF IdsDistinct, Id
  <1>9. /\ protocol'[Id(fd)] = "deleted" /\ ctx'[Id(fd)] = NoContext
        /\ \A id \in Ids : id # Id(fd) => protocol'[id] = protocol[id] /\ ctx'[id] = ctx[id]
    BY <1>1, <1>2, <1>4 DEF ConnTypes
  <1>10. TimersWanted'
    <2> SUFFICES ASSUME NEW kind \in Kinds, NEW f \in Fds, NEW id \in Ids
                 PROVE  <<kind, f, id>> \in timers' <=> Wanted(kind, f, id)'
      BY DEF TimersWanted
    <2>1. <<kind, f, id>> \in timers <=> Wanted(kind, f, id)
      BY <1>1 DEF TimersWanted
    <2>2. CASE f = fd
      <3>1. ~Wanted(kind, f, id)'
        BY <1>7, <2>2 DEF Wanted
      <3>2. <<kind, f, id>> \notin timers'
        BY <1>5, <2>1, <2>2 DEF Wanted, Kinds
      <3> QED  BY <3>1, <3>2
    <2>3. CASE f # fd
      <3>1. Wanted(kind, f, id) => id # Id(fd)
        BY <1>1, <2>3 DEF Wanted, IdsDistinct
      <3>2. Wanted(kind, f, id)' <=> Wanted(kind, f, id)
        <4>1. CASE id = Id(fd)
          <5>1. ~Wanted(kind, f, id)'
            BY <1>1, <1>7, <2>3, <4>1 DEF Wanted, IdsDistinct, Id
          <5> QED  BY <3>1, <4>1, <5>1
        <4>2. CASE id # Id(fd)
          BY <1>7, <1>9, <2>3, <4>2 DEF Wanted, Id
        <4> QED  BY <4>1, <4>2
      <3>3. <<kind, f, id>> \in timers' <=> <<kind, f, id>> \in timers
        BY <1>5, <2>1, <2>3, <3>1
      <3> QED  BY <2>1, <3>2, <3>3
    <2> QED  BY <2>2, <2>3
  <1>11. ContextWhileOpen'
    <2>1. \A id \in Ids : Open(id)' <=> Open(id) /\ id # Id(fd)
      BY <1>1, <1>7 DEF Open, IdsDistinct, Id
    <2> QED  BY <1>1, <1>9, <2>1 DEF ContextWhileOpen
  <1>12. SameIds
    BY <1>7 DEF SameIds
  <1> QED  BY <1>6, <1>8, <1>10, <1>11, <1>12 DEF ConnInv

\* A close waits for the write queue.
LEMMA CloseLaterStep ==
    ASSUME ConnInv, NEW fd \in Fds, io[fd].opened, NEW s \in {"closed", "quiet", "data", "eof", "reset"},
           CloseLater(fd, s), UNCHANGED last_id
    PROVE  ConnInv' /\ SameIds
  <1>1. ConnTypes /\ IdsDistinct /\ TimersWanted /\ ContextWhileOpen
    BY DEF ConnInv
  <1>2. Id(fd) \in Ids /\ io[fd] \in Hio
    BY HioFields
  <1>3. /\ io' \in [Fds -> Hio]
        /\ \A f \in Fds : /\ io'[f].id = io[f].id
                          /\ io'[f].opened = io[f].opened
                          /\ io'[f].close = IF f = fd THEN TRUE ELSE io[f].close
    <2>1. io' = [io EXCEPT ![fd].close = TRUE, ![fd].queue = TRUE]
      BY DEF CloseLater
    <2>2. io'[fd] = [io[fd] EXCEPT !.close = TRUE, !.queue = TRUE]
          /\ \A f \in Fds : f # fd => io'[f] = io[f]
      BY <1>1, <2>1 DEF ConnTypes
    <2>3. io'[fd] \in Hio /\ io'[fd].opened = io[fd].opened /\ io'[fd].id = io[fd].id
          /\ io'[fd].close = TRUE
      BY <1>2, <2>2 DEF Hio
    <2>4. io' = [f \in Fds |-> io'[f]]
      BY <1>1, <2>1 DEF ConnTypes
    <2> QED  BY <1>1, <2>2, <2>3, <2>4 DEF ConnTypes
  <1>4. /\ timers' = timers \cup {<<"close", fd, Id(fd)>>}
        /\ socket' = [socket EXCEPT ![Id(fd)] = s]
        /\ UNCHANGED <<protocol, noPong, ctx, silent>>
    BY DEF CloseLater, handlers
  <1>5. timers' \subseteq Timer
    BY <1>1, <1>2, <1>4, TimerMade DEF ConnTypes, Kinds
  <1>6. ConnTypes'
    BY <1>1, <1>2, <1>3, <1>4, <1>5 DEF ConnTypes
  <1>7. IdsDistinct'
    BY <1>1, <1>3 DEF IdsDistinct, Id
  <1>8. TimersWanted'
    <2> SUFFICES ASSUME NEW kind \in Kinds, NEW f \in Fds, NEW id \in Ids
                 PROVE  <<kind, f, id>> \in timers' <=> Wanted(kind, f, id)'
      BY DEF TimersWanted
    <2>1. <<kind, f, id>> \in timers <=> Wanted(kind, f, id)
      BY <1>1 DEF TimersWanted
    <2>2. <<kind, f, id>> \in timers' <=> \/ <<kind, f, id>> \in timers
                                          \/ kind = "close" /\ f = fd /\ id = Id(fd)
      BY <1>4
    <2>3. Wanted(kind, f, id)' <=> \/ Wanted(kind, f, id)
                                   \/ kind = "close" /\ f = fd /\ id = Id(fd)
      BY <1>3, <1>4 DEF Wanted, Id
    <2> QED  BY <2>1, <2>2, <2>3
  <1>9. ContextWhileOpen'
    <2>1. \A id \in Ids : Open(id)' <=> Open(id)
      BY <1>3 DEF Open
    <2> QED  BY <1>1, <1>4, <2>1 DEF ContextWhileOpen
  <1>10. SameIds
    BY <1>3 DEF SameIds
  <1> QED  BY <1>6, <1>7, <1>8, <1>9, <1>10 DEF ConnInv

\* nio_accept takes a client.
LEMMA AcceptConn ==
    ASSUME ConnInv, NEW fd \in Fds, ~io[fd].opened, last_id + 1 <= MaxId,
           hio_ready(fd), on_accept(fd, last_id + 1),
           socket' = [socket EXCEPT ![last_id + 1] = "quiet"],
           UNCHANGED <<noPong, ctx, silent>>
    PROVE  /\ ConnInv'
           /\ io'[fd].id \in Ids
           /\ \A f \in Fds : f # fd => io'[f] = io[f]
  <1> DEFINE new == last_id + 1
  <1>1. ConnTypes /\ IdsDistinct /\ TimersWanted /\ ContextWhileOpen
    BY DEF ConnInv
  <1>2. new \in Ids /\ new \notin 1..last_id /\ last_id \in Nat /\ new \in 0..MaxId
        /\ new \in 1..new /\ 1..last_id \subseteq 1..new
    BY <1>1, BoundsAssumption DEF ConnTypes, Ids
  <1>3. /\ last_id' = new
        /\ io' = [io EXCEPT ![fd] = [id |-> new, opened |-> TRUE, close |-> FALSE, queue |-> FALSE]]
        /\ timers' = timers \cup {<<"keepalive", fd, new>>}
        /\ protocol' = [protocol EXCEPT ![new] = "http"]
        /\ socket' = [socket EXCEPT ![new] = "quiet"]
    BY DEF hio_ready, on_accept, hio_set_keepalive_timeout
  <1> HIDE DEF new
  <1>4. /\ io' \in [Fds -> Hio]
        /\ io'[fd].opened /\ io'[fd].id = new /\ ~io'[fd].close
        /\ \A f \in Fds : f # fd => io'[f] = io[f]
    <2>1. [id |-> new, opened |-> TRUE, close |-> FALSE, queue |-> FALSE] \in Hio
      BY <1>2 DEF Hio
    <2> QED  BY <1>1, <1>3, <2>1 DEF ConnTypes
  <1>5. ConnTypes'
    <2>1. timers' \subseteq Timer
      BY <1>1, <1>2, <1>3, TimerMade DEF ConnTypes, Kinds
    <2> QED  BY <1>1, <1>2, <1>3, <1>4, <2>1 DEF ConnTypes
  <1>6. \A f \in Fds : io[f].opened => f # fd /\ Id(f) # new
    BY <1>1, <1>2 DEF IdsDistinct
  <1>7. IdsDistinct'
    <2>1. ASSUME NEW f \in Fds, io'[f].opened
          PROVE  io'[f].id \in 1..new
      <3>1. CASE f = fd
        BY <1>2, <1>4, <3>1
      <3>2. CASE f # fd
        BY <1>1, <1>2, <1>4, <2>1, <3>2 DEF IdsDistinct, Id
      <3> QED  BY <3>1, <3>2
    <2>2. ASSUME NEW f \in Fds, NEW g \in Fds, io'[f].opened, io'[g].opened,
                 io'[f].id = io'[g].id
          PROVE  f = g
      BY <1>1, <1>4, <1>6, <2>2 DEF IdsDistinct, Id
    <2> QED  BY <1>3, <2>1, <2>2 DEF IdsDistinct, Id
  <1>8. /\ protocol'[new] = "http"
        /\ \A id \in Ids : id # new => protocol'[id] = protocol[id]
    BY <1>1, <1>2, <1>3 DEF ConnTypes
  <1>9. TimersWanted'
    <2> SUFFICES ASSUME NEW kind \in Kinds, NEW f \in Fds, NEW id \in Ids
                 PROVE  <<kind, f, id>> \in timers' <=> Wanted(kind, f, id)'
      BY DEF TimersWanted
    <2>1. <<kind, f, id>> \in timers <=> Wanted(kind, f, id)
      BY <1>1 DEF TimersWanted
    <2>2. <<kind, f, id>> \in timers' <=> \/ <<kind, f, id>> \in timers
                                          \/ kind = "keepalive" /\ f = fd /\ id = new
      BY <1>3
    <2>3. CASE f = fd
      <3>1. ~Wanted(kind, f, id)
        BY <2>3 DEF Wanted
      <3>2. Wanted(kind, f, id)' <=> kind = "keepalive" /\ id = new
        BY <1>4, <1>8, <2>3 DEF Wanted, Id
      <3> QED  BY <2>1, <2>2, <2>3, <3>1, <3>2
    <2>4. CASE f # fd
      <3>1. Wanted(kind, f, id)' <=> Wanted(kind, f, id)
        <4>1. io'[f] = io[f]
          BY <1>4, <2>4
        <4>2. CASE id = new
          BY <1>6, <4>1, <4>2 DEF Wanted, Id
        <4>3. CASE id # new
          BY <1>8, <4>1, <4>3 DEF Wanted, Id
        <4> QED  BY <4>2, <4>3
      <3> QED  BY <2>1, <2>2, <2>4, <3>1
    <2> QED  BY <2>3, <2>4
  <1>10. ContextWhileOpen'
    <2>1. \A id \in Ids : Open(id)' <=> Open(id) \/ id = new
      <3> TAKE id \in Ids
      <3>1. Open(id)' => Open(id) \/ id = new
        BY <1>4 DEF Open
      <3>2. Open(id) => Open(id)'
        BY <1>4, <1>6 DEF Open
      <3>3. id = new => Open(id)'
        BY <1>4 DEF Open
      <3> QED  BY <3>1, <3>2, <3>3
    <2>2. ~Open(new)
      BY <1>6 DEF Open, Id
    <2>3. protocol[new] = "deleted" /\ ctx[new] = NoContext
      BY <1>1, <1>2, <2>2 DEF ContextWhileOpen
    <2> QED  BY <1>1, <1>2, <1>8, <2>1, <2>3 DEF ContextWhileOpen
  <1> QED  BY <1>2, <1>4, <1>5, <1>7, <1>9, <1>10 DEF ConnInv

\* The connection is switched to WebSocket.
LEMMA UpgradeConn ==
    ASSUME ConnInv, NEW fd \in Fds, io[fd].opened, protocol[Id(fd)] # "websocket",
           NEW q \in BOOLEAN,
           io' = [io EXCEPT ![fd].queue = q],
           Taken(fd), SwitchWebSocket(Id(fd)),
           timers' = (timers \ hio_set_keepalive_timeout(fd, Id(fd)))
                     \cup hio_set_heartbeat(fd, Id(fd)) \cup onopen(fd),
           ctx' = [ctx EXCEPT ![Id(fd)] = NoPlayer],
           UNCHANGED <<noPong, last_id>>
    PROVE  ConnInv' /\ SameIds
  <1>1. ConnTypes /\ IdsDistinct /\ TimersWanted /\ ContextWhileOpen
    BY DEF ConnInv
  <1>2. Id(fd) \in Ids /\ io[fd] \in Hio
    BY HioFields
  <1>3. /\ io' \in [Fds -> Hio]
        /\ \A f \in Fds : /\ io'[f].id = io[f].id
                          /\ io'[f].opened = io[f].opened
                          /\ io'[f].close = io[f].close
    BY <1>1, QueueSet DEF ConnTypes
  <1>4. /\ protocol' = [protocol EXCEPT ![Id(fd)] = "websocket"]
        /\ socket' = [socket EXCEPT ![Id(fd)] = "quiet"] /\ silent' = silent
    BY DEF Taken, SwitchWebSocket
  <1>5. timers' = (timers \ {<<"keepalive", fd, Id(fd)>>})
                  \cup {<<"heartbeat", fd, Id(fd)>>} \cup {<<"sync", fd, Id(fd)>>}
    BY DEF hio_set_keepalive_timeout, hio_set_heartbeat, onopen
  <1>6. ConnTypes'
    <2>1. timers' \subseteq Timer
      BY <1>1, <1>2, <1>5, TimerMade DEF ConnTypes, Kinds
    <2> QED  BY <1>1, <1>2, <1>3, <1>4, <2>1 DEF ConnTypes, NoPlayer
  <1>7. IdsDistinct'
    BY <1>1, <1>3 DEF IdsDistinct, Id
  <1>8. /\ protocol'[Id(fd)] = "websocket" /\ ctx'[Id(fd)] # NoContext
        /\ \A id \in Ids : id # Id(fd) => protocol'[id] = protocol[id] /\ ctx'[id] = ctx[id]
    BY <1>1, <1>2, <1>4, NoContextAssumption DEF ConnTypes, NoPlayer
  <1>9. TimersWanted'
    <2> SUFFICES ASSUME NEW kind \in Kinds, NEW f \in Fds, NEW id \in Ids
                 PROVE  <<kind, f, id>> \in timers' <=> Wanted(kind, f, id)'
      BY DEF TimersWanted
    <2>1. <<kind, f, id>> \in timers <=> Wanted(kind, f, id)
      BY <1>1 DEF TimersWanted
    <2>2. <<kind, f, id>> \in timers' <=>
             \/ <<kind, f, id>> \in timers /\ ~(kind = "keepalive" /\ f = fd /\ id = Id(fd))
             \/ kind = "heartbeat" /\ f = fd /\ id = Id(fd)
             \/ kind = "sync" /\ f = fd /\ id = Id(fd)
      BY <1>5
    <2>3. CASE id = Id(fd)
      <3>1. Wanted(kind, f, id) => f = fd
        BY <1>1, <2>3 DEF Wanted, IdsDistinct
      <3>2. Wanted(kind, f, id)' <=>
               f = fd /\ (kind = "heartbeat" \/ kind = "sync" \/ (kind = "close" /\ io[fd].close))
        BY <1>1, <1>3, <1>8, <2>3 DEF Wanted, IdsDistinct, Id
      <3>3. Wanted(kind, f, id) <=>
               f = fd /\ (kind = "keepalive" \/ (kind = "close" /\ io[fd].close))
        BY <2>3, <3>1 DEF Wanted
      <3> QED  BY <2>1, <2>2, <2>3, <3>2, <3>3
    <2>4. CASE id # Id(fd)
      <3>1. Wanted(kind, f, id)' <=> Wanted(kind, f, id)
        BY <1>3, <1>8, <2>4 DEF Wanted, Id
      <3> QED  BY <2>1, <2>2, <2>4, <3>1
    <2> QED  BY <2>3, <2>4
  <1>10. ContextWhileOpen'
    <2>1. \A id \in Ids : Open(id)' <=> Open(id)
      BY <1>3 DEF Open
    <2>2. Open(Id(fd))
      BY DEF Open, Id
    <2> QED  BY <1>1, <1>2, <1>8, <2>1, <2>2 DEF ContextWhileOpen
  <1>11. SameIds
    BY <1>3 DEF SameIds
  <1> QED  BY <1>6, <1>7, <1>9, <1>10, <1>11 DEF ConnInv

-----------------------------------------------------------------------------
(* Callbacks *)

\* What a callback does to the connections when it opens none: the invariant holds, ids
\* stay, and a context is kept, dropped or new.
ConnKept ==
    /\ ConnInv' /\ SameIds
    /\ \A id \in Ids : ctx'[id] = ctx[id] \/ ctx'[id] = NoContext \/ ctx'[id] = NoPlayer

\* ... and to the loop when it polls and accepts nothing.
LoopKept ==
    /\ pc' \in {"up", "undefined"}
    /\ UNCHANGED <<listening, waiting, last_id>>
    /\ pendings' \subseteq pendings /\ due' \subseteq due
    /\ revents' \in [Fds -> SUBSET ({"read", "write"} \X Ids)]
    /\ \A fd \in Fds : revents'[fd] \subseteq revents[fd]
    /\ custom_events' \in Seq([fd : Fds, id : Ids])

LEMMA SessionsKept ==
    ASSUME WsInv, ConnKept, UNCHANGED sessions
    PROVE  SessionInv'
  <1>1. UNCHANGED <<players, m_mapSessions>>
    BY DEF sessions
  <1>2. 0 \in 0..Len(players)
    BY DEF WsInv, SessionInv
  <1> QED  BY <1>1, <1>2 DEF WsInv, SessionInv, ConnKept, NoPlayer

LEMMA EventsStay ==
    ASSUME WsInv, SameIds, LoopKept
    PROVE  LoopInv' /\ NoStaleEvents'
  <1>1. LoopInv'
    BY DEF WsInv, LoopInv, LoopKept
  <1>2. NoStaleEvents'
    BY DEF WsInv, NoStaleEvents, SameIds, LoopKept, Id
  <1> QED  BY <1>1, <1>2

LEMMA CallbackStep ==
    ASSUME WsInv, ConnKept, LoopKept, UNCHANGED sessions
    PROVE  WsInv'
  BY SessionsKept, EventsStay DEF WsInv, ConnKept

\* The connections are left alone.
LEMMA NothingDone ==
    ASSUME ConnInv, UNCHANGED <<connections, last_id>>
    PROVE  ConnKept
  <1>1. UNCHANGED <<io, timers, protocol, noPong, ctx, socket, silent, last_id>>
    BY DEF connections, handlers
  <1>2. Light
    BY <1>1 DEF ConnInv, ConnTypes, Light
  <1> QED  BY <1>1, <1>2, LightStep DEF ConnKept

LEMMA Closed ==
    ASSUME ConnInv, NEW fd \in Fds, io[fd].opened, DoClose(fd), UNCHANGED last_id
    PROVE  ConnKept
  <1>1. ctx' = [ctx EXCEPT ![Id(fd)] = NoContext]
    BY DEF DoClose, on_close
  <1>2. \A id \in Ids : ctx'[id] = ctx[id] \/ ctx'[id] = NoContext
    BY <1>1 DEF ConnInv, ConnTypes
  <1> QED  BY <1>2, DoCloseStep DEF ConnKept

\* hio_close, at once or later.
LEMMA CloseAsked ==
    ASSUME ConnInv, NEW fd \in Fds, io[fd].opened, NEW q,
           NEW s \in {"closed", "quiet", "data", "eof", "reset"},
           hio_close(fd, q, s), UNCHANGED last_id
    PROVE  ConnKept
  <1>1. CASE DoClose(fd)
    BY <1>1, Closed
  <1>2. CASE CloseLater(fd, s)
    <2>1. ctx' = ctx
      BY <1>2 DEF CloseLater, handlers
    <2> QED  BY <1>2, <2>1, CloseLaterStep DEF ConnKept
  <1> QED  BY <1>1, <1>2 DEF hio_close

\* A message is sent or queued.
LEMMA Sent ==
    ASSUME ConnInv, NEW fd \in Fds, Send(fd), UNCHANGED <<protocol, ctx, silent, last_id>>,
           noPong' \in [Ids -> BOOLEAN],
           socket' \in [Ids -> {"closed", "quiet", "data", "eof", "reset"}]
    PROVE  ConnKept
  <1>1. PICK q \in BOOLEAN : io' = [io EXCEPT ![fd].queue = q]
    BY DEF Send, Written
  <1>2. io \in [Fds -> Hio]
    BY DEF ConnInv, ConnTypes
  <1>3. Light
    BY <1>1, <1>2, QueueSet DEF ConnInv, ConnTypes, Light, Send
  <1> QED  BY <1>3, LightStep DEF ConnKept

\* The bytes of the connection are taken.
LEMMA TakenType ==
    ASSUME ConnInv, NEW fd \in Fds, Taken(fd)
    PROVE  /\ socket' \in [Ids -> {"closed", "quiet", "data", "eof", "reset"}]
           /\ silent' = silent
  BY DEF Taken, ConnInv, ConnTypes

\* Nothing but bytes and the time of the last pong.
LEMMA OnlyTaken ==
    ASSUME ConnInv, NEW fd \in Fds, Taken(fd), UNCHANGED <<io, timers, protocol, ctx, last_id>>,
           noPong' \in [Ids -> BOOLEAN]
    PROVE  ConnKept
  <1>1. Light
    BY TakenType DEF ConnInv, ConnTypes, Light
  <1> QED  BY <1>1, LightStep DEF ConnKept

\* A polled event is handled.
LEMMA HandledEvents ==
    ASSUME WsInv, NEW fd \in Fds, NEW e, Handled(fd, e)
    PROVE  /\ revents' \in [Fds -> SUBSET ({"read", "write"} \X Ids)]
           /\ \A f \in Fds : revents'[f] \subseteq revents[f]
  BY DEF Handled, WsInv, LoopInv

-----------------------------------------------------------------------------
(* The callbacks of timers *)

LEMMA TimerStep ==
    ASSUME WsInv, NEW t \in due, TimerCallback(t)
    PROVE  WsInv'
  <1>1. ConnInv /\ LoopInv
    BY DEF WsInv
  <1>2. t \in Timer /\ t[1] \in Kinds /\ t[2] \in Fds /\ t[3] \in Ids /\ t = <<t[1], t[2], t[3]>>
    BY <1>1, TimerParts DEF LoopInv
  <1>3. t \in timers => Wanted(t[1], t[2], t[3])
    BY <1>1, <1>2 DEF ConnInv, TimersWanted
  <1>4. /\ UNCHANGED <<server, revents, custom_events, sessions>>
        /\ due' = due \ {t} /\ pc = "up"
    BY DEF TimerCallback, Skip, Timeout, websocket_heartbeat, Sync, Fires
  <1>5. UNCHANGED <<listening, waiting, last_id, pendings>>
    BY <1>4 DEF server
  <1>6. pc' \in {"up", "undefined"} => LoopKept
    BY <1>1, <1>4, <1>5 DEF LoopKept, LoopInv
  <1>7. CASE Skip(t)
    <2>1. pc' = pc /\ UNCHANGED connections
      BY <1>7 DEF Skip
    <2>2. ConnKept
      BY <1>1, <1>5, <2>1, NothingDone
    <2> QED  BY <1>4, <1>6, <2>1, <2>2, CallbackStep
  <1>8. CASE Timeout(t)
    <2>1. pc' = pc /\ DoClose(t[2]) /\ io[t[2]].opened
      BY <1>3, <1>8 DEF Timeout, Fires, Wanted
    <2>2. ConnKept
      BY <1>1, <1>2, <1>5, <2>1, Closed
    <2> QED  BY <1>4, <1>6, <2>1, <2>2, CallbackStep
  <1>9. CASE websocket_heartbeat(t)
    <2>1. io[t[2]].opened /\ Id(t[2]) = t[3]
      BY <1>3, <1>9 DEF websocket_heartbeat, Fires, Wanted
    <2>2. LoopKept
      BY <1>4, <1>6, <1>9 DEF websocket_heartbeat, UsesHandler, GoesOn
    <2>3. CASE hio_close(t[2], io[t[2]].queue, socket[Id(t[2])])
      <3>1. socket[Id(t[2])] \in {"closed", "quiet", "data", "eof", "reset"}
        BY <1>1, <1>2, <2>1 DEF ConnInv, ConnTypes
      <3>2. ConnKept
        BY <1>1, <1>2, <1>5, <2>1, <2>3, <3>1, CloseAsked
      <3> QED  BY <1>4, <2>2, <3>2, CallbackStep
    <2>4. CASE /\ Send(t[2]) /\ noPong' = [noPong EXCEPT ![Id(t[2])] = TRUE]
               /\ UNCHANGED <<protocol, ctx, socket, silent>>
      <3>1. noPong' \in [Ids -> BOOLEAN]
            /\ socket' \in [Ids -> {"closed", "quiet", "data", "eof", "reset"}]
        BY <1>1, <2>4 DEF ConnInv, ConnTypes
      <3>2. ConnKept
        BY <1>1, <1>2, <1>5, <2>4, <3>1, Sent
      <3> QED  BY <1>4, <2>2, <3>2, CallbackStep
    <2>5. CASE WriteError(t[2])
      <3>1. ConnKept
        BY <1>1, <1>2, <1>5, <2>1, <2>5, Closed DEF WriteError
      <3> QED  BY <1>4, <2>2, <3>1, CallbackStep
    <2> QED  BY <1>9, <2>3, <2>4, <2>5 DEF websocket_heartbeat
  <1>10. CASE Sync(t)
    <2>1. pc' = pc
      BY <1>10 DEF Sync
    <2>2. CASE UNCHANGED connections
      <3>1. ConnKept
        BY <1>1, <1>5, <2>2, NothingDone
      <3> QED  BY <1>4, <1>6, <2>1, <3>1, CallbackStep
    <2>3. CASE Send(t[2]) /\ UNCHANGED <<handlers, socket, silent>>
      <3>1. UNCHANGED <<protocol, noPong, ctx>>
        BY <2>3 DEF handlers
      <3>2. noPong' \in [Ids -> BOOLEAN]
            /\ socket' \in [Ids -> {"closed", "quiet", "data", "eof", "reset"}]
        BY <1>1, <2>3, <3>1 DEF ConnInv, ConnTypes
      <3>3. ConnKept
        BY <1>1, <1>2, <1>5, <2>3, <3>1, <3>2, Sent
      <3> QED  BY <1>4, <1>6, <2>1, <3>3, CallbackStep
    <2>4. CASE io[t[2]].opened /\ WriteError(t[2])
      <3>1. ConnKept
        BY <1>1, <1>2, <1>5, <2>4, Closed DEF WriteError
      <3> QED  BY <1>4, <1>6, <2>1, <3>1, CallbackStep
    <2> QED  BY <1>10, <2>2, <2>3, <2>4 DEF Sync
  <1> QED  BY <1>7, <1>8, <1>9, <1>10 DEF TimerCallback

-----------------------------------------------------------------------------
(* The callbacks of descriptors *)

\* What every callback of a connection starts with.
LEMMA HandlingFacts ==
    ASSUME WsInv, NEW fd \in Fds, NEW e, Handling(fd, e)
    PROVE  /\ ConnInv /\ LoopInv /\ pc = "up" /\ due = {}
           /\ io[fd].opened /\ Id(fd) \in Ids
           /\ socket[Id(fd)] \in {"closed", "quiet", "data", "eof", "reset"}
  <1>1. ConnInv /\ LoopInv /\ pc = "up" /\ due = {} /\ io[fd].opened
    BY DEF WsInv, Handling, Processing
  <1>2. Id(fd) \in Ids
    BY <1>1, HioFields
  <1> QED  BY <1>1, <1>2 DEF ConnInv, ConnTypes

\* The loop during the callback of a connection, whatever becomes of the handler.
LEMMA ReadingLoop ==
    ASSUME WsInv, NEW fd \in Fds, Reading(fd), pc' \in {"up", "undefined"},
           UNCHANGED custom_events
    PROVE  LoopKept /\ UNCHANGED last_id
  <1>1. UNCHANGED <<listening, waiting, last_id, pendings, due>>
    BY DEF Reading, server
  <1>2. /\ revents' \in [Fds -> SUBSET ({"read", "write"} \X Ids)]
        /\ \A f \in Fds : revents'[f] \subseteq revents[f]
    BY HandledEvents DEF Reading
  <1> QED  BY <1>1, <1>2 DEF LoopKept, WsInv, LoopInv

\* A write fails.
LEMMA WriteErrorConn ==
    ASSUME WsInv, NEW fd \in Fds, io[fd].opened, WriteError(fd), UNCHANGED last_id
    PROVE  ConnKept
  BY Closed DEF WsInv, WriteError

\* Whether the handler is there or not.
LEMMA HandlerPc ==
    ASSUME NEW fd \in Fds, pc = "up", UsesHandler(fd) \/ GoesOn(fd)
    PROVE  pc' \in {"up", "undefined"}
  BY DEF UsesHandler, GoesOn

\* An answer is written and the request is taken.
LEMMA AnswerConn ==
    ASSUME WsInv, NEW fd \in Fds, Send(fd), Taken(fd), UNCHANGED <<handlers, last_id>>
    PROVE  ConnKept
  <1>1. ConnInv /\ UNCHANGED <<protocol, noPong, ctx>>
    BY DEF WsInv, handlers
  <1>2. noPong' \in [Ids -> BOOLEAN]
    BY <1>1 DEF ConnInv, ConnTypes
  <1> QED  BY <1>1, <1>2, TakenType, Sent

\* Frames and requests that change no session.
LEMMA ReadStep ==
    ASSUME WsInv, NEW fd \in Fds,
           \/ Refuse(fd) \/ Ignore(fd) \/ Request(fd) \/ Upgrade(fd)
           \/ CloseFrame(fd) \/ Pong(fd) \/ Answer(fd)
    PROVE  WsInv'
  <1>1. Reading(fd) /\ Handling(fd, "read") /\ UNCHANGED sessions /\ UNCHANGED last_id
    BY DEF Refuse, Ignore, Request, Upgrade, CloseFrame, Pong, Answer, Frame, Reading, server
  <1>2. /\ ConnInv /\ LoopInv /\ pc = "up" /\ io[fd].opened /\ Id(fd) \in Ids
    BY <1>1, HandlingFacts
  <1>3. pc' \in {"up", "undefined"}
    <2>1. UsesHandler(fd) \/ GoesOn(fd)
      BY DEF Refuse, Ignore, Request, Upgrade, CloseFrame, Pong, Answer
    <2> QED  BY <1>2, <2>1, HandlerPc
  <1>4. UNCHANGED custom_events /\ (ConnKept \/ WriteError(fd)) => WsInv'
    BY <1>1, <1>2, <1>3, ReadingLoop, WriteErrorConn, CallbackStep
  <1>5. CASE Refuse(fd)
    <2>1. ConnKept
      BY <1>1, <1>2, <1>5, CloseAsked DEF Refuse
    <2> QED  BY <1>4, <1>5, <2>1 DEF Refuse
  <1>6. CASE Ignore(fd)
    <2>1. UNCHANGED <<io, timers, protocol, noPong, ctx, custom_events>> /\ Taken(fd)
      BY <1>6 DEF Ignore, handlers
    <2>2. noPong' \in [Ids -> BOOLEAN]
      BY <1>2, <2>1 DEF ConnInv, ConnTypes
    <2>3. ConnKept
      BY <1>1, <1>2, <2>1, <2>2, OnlyTaken
    <2> QED  BY <1>4, <2>1, <2>3
  <1>7. CASE Request(fd)
    <2>1. UNCHANGED custom_events
      BY <1>7 DEF Request
    <2>2. CASE Send(fd) /\ Taken(fd) /\ UNCHANGED handlers
      BY <1>1, <1>4, <2>1, <2>2, AnswerConn
    <2>3. CASE \E q \in Written(fd) : hio_close(fd, q, "quiet")
      <3>1. ConnKept
        BY <1>1, <1>2, <2>3, CloseAsked
      <3> QED  BY <1>4, <2>1, <3>1
    <2> QED  BY <1>4, <1>7, <2>1, <2>2, <2>3 DEF Request
  <1>8. CASE Upgrade(fd)
    <2>1. UNCHANGED custom_events /\ protocol[Id(fd)] # "websocket"
      BY <1>8 DEF Upgrade
    <2>2. CASE /\ \E q \in Written(fd) : io' = [io EXCEPT ![fd].queue = q]
               /\ Taken(fd)
               /\ SwitchWebSocket(Id(fd))
               /\ timers' = (timers \ hio_set_keepalive_timeout(fd, Id(fd)))
                            \cup hio_set_heartbeat(fd, Id(fd)) \cup onopen(fd)
               /\ ctx' = [ctx EXCEPT ![Id(fd)] = NoPlayer]
               /\ UNCHANGED noPong
      <3>1. PICK q \in BOOLEAN : io' = [io EXCEPT ![fd].queue = q]
        BY <2>2 DEF Written
      <3>2. ConnInv' /\ SameIds
        BY <1>1, <1>2, <2>1, <2>2, <3>1, UpgradeConn
      <3>3. \A id \in Ids : ctx'[id] = ctx[id] \/ ctx'[id] = NoPlayer
        BY <1>2, <2>2 DEF ConnInv, ConnTypes
      <3>4. ConnKept
        BY <3>2, <3>3 DEF ConnKept
      <3> QED  BY <1>4, <2>1, <3>4
    <2> QED  BY <1>4, <1>8, <2>1, <2>2 DEF Upgrade
  <1>9. CASE CloseFrame(fd)
    <2>1. UNCHANGED <<io, timers, protocol, noPong, ctx>> /\ Taken(fd) /\ hio_close_async(fd)
      BY <1>9 DEF CloseFrame, handlers
    <2>2. noPong' \in [Ids -> BOOLEAN]
      BY <1>2, <2>1 DEF ConnInv, ConnTypes
    <2>3. ConnKept
      BY <1>1, <1>2, <2>1, <2>2, OnlyTaken
    <2>4. custom_events' \in Seq([fd : Fds, id : Ids])
      <3>1. [fd |-> fd, id |-> Id(fd)] \in [fd : Fds, id : Ids]
        BY <1>2
      <3> QED  BY <1>2, <2>1, <3>1 DEF hio_close_async, LoopInv
    <2>5. LoopKept
      <3>1. UNCHANGED <<listening, waiting, last_id, pendings, due>>
        BY <1>1 DEF Reading, server
      <3>2. /\ revents' \in [Fds -> SUBSET ({"read", "write"} \X Ids)]
            /\ \A f \in Fds : revents'[f] \subseteq revents[f]
        BY <1>1, HandledEvents DEF Reading
      <3> QED  BY <1>2, <1>3, <2>4, <3>1, <3>2 DEF LoopKept
    <2> QED  BY <1>1, <2>3, <2>5, CallbackStep
  <1>10. CASE Pong(fd)
    <2>1. UNCHANGED <<io, timers, protocol, ctx, custom_events>> /\ Taken(fd)
          /\ noPong' = [noPong EXCEPT ![Id(fd)] = FALSE]
      BY <1>10 DEF Pong
    <2>2. noPong' \in [Ids -> BOOLEAN]
      BY <1>2, <2>1 DEF ConnInv, ConnTypes
    <2>3. ConnKept
      BY <1>1, <1>2, <2>1, <2>2, OnlyTaken
    <2> QED  BY <1>4, <2>1, <2>3
  <1>11. CASE Answer(fd)
    <2>1. UNCHANGED custom_events
      BY <1>11 DEF Answer
    <2>2. CASE Send(fd) /\ Taken(fd) /\ UNCHANGED handlers
      BY <1>1, <1>4, <2>1, <2>2, AnswerConn
    <2> QED  BY <1>4, <1>11, <2>1, <2>2 DEF Answer
  <1> QED  BY <1>5, <1>6, <1>7, <1>8, <1>9, <1>10, <1>11

\* nio_read at the end of the stream, and nio_write.
LEMMA EndStep ==
    ASSUME WsInv, NEW fd \in Fds, ReadEnd(fd) \/ Write(fd)
    PROVE  WsInv'
  <1>1. PICK e \in {"read", "write"} : Handling(fd, e) /\ Handled(fd, e)
    BY DEF ReadEnd, Write
  <1>2. UNCHANGED <<pc, server, due, custom_events, sessions>>
    BY DEF ReadEnd, Write
  <1>3. ConnInv /\ LoopInv /\ pc = "up" /\ io[fd].opened
    BY <1>1, HandlingFacts
  <1>4. UNCHANGED <<listening, waiting, last_id, pendings>>
    BY <1>2 DEF server
  <1>5. LoopKept
    BY <1>1, <1>2, <1>3, <1>4, HandledEvents DEF LoopKept, LoopInv
  <1>6. ConnKept
    <2>1. CASE ReadEnd(fd)
      BY <1>3, <1>4, <2>1, CloseAsked, Closed DEF ReadEnd
    <2>2. CASE Write(fd)
      <3>1. CASE UNCHANGED connections
        BY <1>3, <1>4, <3>1, NothingDone
      <3>2. CASE DoClose(fd)
        BY <1>3, <1>4, <3>2, Closed
      <3>3. CASE io' = [io EXCEPT ![fd].queue = FALSE] /\ UNCHANGED <<timers, handlers, socket, silent>>
        <4>1. UNCHANGED <<timers, protocol, noPong, ctx, socket, silent>>
          BY <3>3 DEF handlers
        <4>2. Light
          BY <1>3, <1>4, <3>3, <4>1, QueueSet DEF Light, ConnInv, ConnTypes
        <4> QED  BY <1>3, <4>1, <4>2, LightStep DEF ConnKept
      <3> QED  BY <2>2, <3>1, <3>2, <3>3 DEF Write
    <2> QED  BY <2>1, <2>2
  <1> QED  BY <1>2, <1>5, <1>6, CallbackStep

\* A posted close.
LEMMA CloseEventStep ==
    ASSUME WsInv, CloseEvent
    PROVE  WsInv'
  <1>1. ConnInv /\ LoopInv /\ pc = "up"
    BY DEF WsInv, CloseEvent, Processing
  <1>2. /\ UNCHANGED <<pc, server, revents, due, sessions>>
        /\ custom_events # <<>> /\ custom_events' = Tail(custom_events)
    BY DEF CloseEvent
  <1>3. UNCHANGED <<listening, waiting, last_id, pendings>>
    BY <1>2 DEF server
  <1>4. /\ Head(custom_events) \in [fd : Fds, id : Ids]
        /\ custom_events' \in Seq([fd : Fds, id : Ids])
    <2>1. custom_events \in Seq([fd : Fds, id : Ids])
      BY <1>1 DEF LoopInv
    <2> QED  BY <1>2, <2>1, HeadTailProperties
  <1>5. LoopKept
    BY <1>1, <1>2, <1>3, <1>4 DEF LoopKept, LoopInv
  <1>6. PICK fd \in Fds : fd = Head(custom_events).fd
    BY <1>4
  <1>7. ConnKept
    <2>1. CASE UNCHANGED connections
      BY <1>1, <1>3, <2>1, NothingDone
    <2>2. CASE io[fd].opened /\ hio_close(fd, io[fd].queue, socket[Id(fd)])
      <3>1. socket[Id(fd)] \in {"closed", "quiet", "data", "eof", "reset"}
        BY <1>1, <2>2, HioFields DEF ConnInv, ConnTypes
      <3> QED  BY <1>1, <1>3, <2>2, <3>1, CloseAsked
    <2> QED  BY <1>6, <2>1, <2>2 DEF CloseEvent, hio_close_event_cb
  <1> QED  BY <1>2, <1>5, <1>7, CallbackStep

\* The map of the sessions after a token was looked up in it.
LEMMA SessionOfFacts ==
    ASSUME WsInv, NEW token \in Tokens, SessionOf(token)
    PROVE  /\ players' \in Seq(BOOLEAN) /\ Len(players) \in Nat /\ Len(players') \in Nat
           /\ Len(players) <= Len(players')
           /\ \A p \in 1..Len(players) : players'[p] = players[p]
           /\ DOMAIN m_mapSessions' \subseteq Tokens
           /\ DOMAIN m_mapSessions \subseteq DOMAIN m_mapSessions'
           /\ token \in DOMAIN m_mapSessions'
           /\ \A k \in DOMAIN m_mapSessions' : m_mapSessions'[k] \in 1..Len(players')
           /\ \A k \in DOMAIN m_mapSessions : m_mapSessions'[k] = m_mapSessions[k]
  <1>1. /\ players \in Seq(BOOLEAN) /\ Len(players) \in Nat
        /\ DOMAIN m_mapSessions \subseteq Tokens
        /\ \A k \in DOMAIN m_mapSessions : m_mapSessions[k] \in 1..Len(players)
    BY DEF WsInv, SessionInv
  <1>2. CASE token \in DOMAIN m_mapSessions
    BY <1>1, <1>2 DEF SessionOf, sessions
  <1>3. CASE token \notin DOMAIN m_mapSessions
    <2>1. /\ players' = Append(players, FALSE)
          /\ m_mapSessions' = [k \in DOMAIN m_mapSessions \cup {token} |->
                                  IF k = token THEN Len(players) + 1 ELSE m_mapSessions[k]]
      BY <1>3 DEF SessionOf
    <2>2. /\ players' \in Seq(BOOLEAN) /\ Len(players') = Len(players) + 1
          /\ \A p \in 1..Len(players) : players'[p] = players[p]
      BY <1>1, <2>1, AppendProperties
    <2>3. /\ DOMAIN m_mapSessions' = DOMAIN m_mapSessions \cup {token}
          /\ m_mapSessions'[token] = Len(players) + 1
          /\ \A k \in DOMAIN m_mapSessions : m_mapSessions'[k] = m_mapSessions[k]
      BY <1>3, <2>1
    <2>4. \A k \in DOMAIN m_mapSessions' : m_mapSessions'[k] \in 1..Len(players')
      BY <1>1, <2>2, <2>3
    <2> QED  BY <1>1, <2>2, <2>3, <2>4
  <1> QED  BY <1>2, <1>3

\* set_session_token
LEMMA SetSessionTokenStep ==
    ASSUME WsInv, NEW fd \in Fds, NEW token \in Tokens, SetSessionToken(fd, token)
    PROVE  WsInv'
  <1>1. Reading(fd) /\ Handling(fd, "read") /\ UNCHANGED custom_events /\ SessionOf(token)
        /\ protocol[Id(fd)] = "websocket"
    BY DEF SetSessionToken, Frame, Reading
  <1>2. ConnInv /\ LoopInv /\ pc = "up" /\ io[fd].opened /\ Id(fd) \in Ids
    BY <1>1, HandlingFacts
  <1>3. UNCHANGED last_id
    BY <1>1 DEF Reading, server
  <1>4. /\ players' \in Seq(BOOLEAN) /\ Len(players) \in Nat /\ Len(players') \in Nat
        /\ Len(players) <= Len(players')
        /\ DOMAIN m_mapSessions' \subseteq Tokens
        /\ \A k \in DOMAIN m_mapSessions' : m_mapSessions'[k] \in 1..Len(players')
        /\ m_mapSessions'[token] \in 1..Len(players')
    BY <1>1, SessionOfFacts
  <1>5. LoopKept
    BY <1>1, <1>2, HandlerPc, ReadingLoop DEF SetSessionToken
  <1>6. CASE WriteError(fd)
    <2>1. ConnKept
      BY <1>2, <1>3, <1>6, WriteErrorConn
    <2>2. SessionInv'
      BY <1>4, <2>1 DEF ConnKept, SessionInv, WsInv, NoPlayer
    <2> QED  BY <1>5, <2>1, <2>2, EventsStay DEF WsInv, ConnKept
  <1>7. CASE /\ Send(fd) /\ Taken(fd)
             /\ ctx' = [ctx EXCEPT ![Id(fd)] = m_mapSessions'[token]]
             /\ UNCHANGED <<protocol, noPong>>
    <2>1. /\ ctx \in [Ids -> Nat \cup {NoContext}] /\ noPong' \in [Ids -> BOOLEAN]
          /\ io \in [Fds -> Hio]
      BY <1>2, <1>7 DEF ConnInv, ConnTypes
    <2>2. /\ ctx' \in [Ids -> Nat \cup {NoContext}]
          /\ ctx'[Id(fd)] = m_mapSessions'[token]
          /\ \A id \in Ids : id # Id(fd) => ctx'[id] = ctx[id]
      BY <1>2, <1>4, <1>7, <2>1
    <2>3. ctx[Id(fd)] # NoContext /\ ctx'[Id(fd)] # NoContext
      BY <1>1, <1>2, <1>4, <2>2, NoContextAssumption DEF ConnInv, ContextWhileOpen
    <2>4. PICK q \in BOOLEAN : io' = [io EXCEPT ![fd].queue = q]
      BY <1>7 DEF Send, Written
    <2>5. Light
      BY <1>2, <1>3, <1>7, <2>1, <2>2, <2>3, <2>4, QueueSet, TakenType
         DEF Light, ConnInv, ConnTypes, Send
    <2>6. ConnInv' /\ SameIds
      BY <1>2, <2>5, LightStep
    <2>7. SessionInv'
      <3>1. \A id \in Ids : ctx'[id] = NoContext \/ ctx'[id] \in 0..Len(players')
        BY <1>4, <2>2 DEF WsInv, SessionInv
      <3> QED  BY <1>4, <3>1 DEF SessionInv
    <2> QED  BY <1>5, <2>6, <2>7, EventsStay DEF WsInv
  <1> QED  BY <1>6, <1>7 DEF SetSessionToken

\* player_move_to
LEMMA MovedFacts ==
    ASSUME WsInv, NEW fd \in Fds, PlayerMoveTo(fd)
    PROVE  /\ players' \in Seq(BOOLEAN) /\ Len(players') = Len(players)
           /\ \A p \in 1..Len(players) : players[p] => players'[p]
  <1>1. Handling(fd, "read") /\ protocol[Id(fd)] = "websocket"
    BY DEF PlayerMoveTo, Frame, Reading
  <1>2. ConnInv /\ Id(fd) \in Ids /\ players \in Seq(BOOLEAN)
    BY <1>1, HandlingFacts DEF WsInv, SessionInv
  <1>3. ctx[Id(fd)] \in 0..Len(players)
    BY <1>1, <1>2 DEF ConnInv, ContextWhileOpen, WsInv, SessionInv
  <1>4. CASE ctx[Id(fd)] = NoPlayer
    BY <1>2, <1>4 DEF PlayerMoveTo
  <1>5. CASE ctx[Id(fd)] # NoPlayer
    <2>1. PICK p \in 1..Len(players) : p = ctx[Id(fd)]
      BY <1>2, <1>3, <1>5 DEF NoPlayer
    <2>2. players' = [players EXCEPT ![p] = TRUE]
      BY <1>5, <2>1 DEF PlayerMoveTo
    <2>3. players' \in Seq(BOOLEAN) /\ Len(players') = Len(players)
      BY <1>2, <2>1, <2>2, ExceptSeq
    <2>4. players'[p] = TRUE /\ \A r \in 1..Len(players) : r # p => players'[r] = players[r]
      BY <1>2, <2>2
    <2>5. ASSUME NEW r \in 1..Len(players), players[r]
          PROVE  players'[r]
      BY <2>4, <2>5
    <2> QED  BY <2>3, <2>5
  <1> QED  BY <1>4, <1>5

LEMMA PlayerMoveToStep ==
    ASSUME WsInv, NEW fd \in Fds, PlayerMoveTo(fd)
    PROVE  WsInv'
  <1>1. /\ Reading(fd) /\ Handling(fd, "read") /\ Taken(fd)
        /\ UNCHANGED <<io, timers, protocol, noPong, ctx, custom_events, m_mapSessions>>
    BY DEF PlayerMoveTo, Frame, Reading, handlers
  <1>2. ConnInv /\ LoopInv /\ pc = "up"
    BY <1>1, HandlingFacts
  <1>3. LoopKept /\ UNCHANGED last_id
    BY <1>1, <1>2, HandlerPc, ReadingLoop DEF PlayerMoveTo
  <1>4. noPong' \in [Ids -> BOOLEAN]
    BY <1>1, <1>2 DEF ConnInv, ConnTypes
  <1>5. ConnKept
    BY <1>1, <1>2, <1>3, <1>4, OnlyTaken
  <1>6. SessionInv'
    BY <1>1, MovedFacts DEF WsInv, SessionInv
  <1> QED  BY <1>3, <1>5, <1>6, EventsStay DEF WsInv, ConnKept

-----------------------------------------------------------------------------
(* Polling, accepting, starting and ending; the clients *)

\* Steps of the loop, or of a client in the backlog, that touch no connection.
LEMMA IdleStep ==
    ASSUME WsInv,
           \/ Start \/ Connect \/ AcceptDone \/ AcceptError \/ EventsDone
           \/ \E fd \in Fds : Done(fd)
           \/ \E d \in DueSets : PollTimers(d)
    PROVE  WsInv'
  <1>1. UNCHANGED <<last_id, revents, custom_events, sessions, connections>>
    BY DEF Start, Connect, AcceptDone, AcceptError, EventsDone, Done, PollTimers, server
  <1>2. ConnInv /\ LoopInv
    BY DEF WsInv
  <1>3. ConnKept
    BY <1>1, <1>2, NothingDone
  <1>4. SessionInv'
    BY <1>1, <1>3, SessionsKept
  <1>5. NoStaleEvents'
    BY <1>1, <1>3 DEF WsInv, NoStaleEvents, ConnKept, SameIds, Id
  <1>6. last_id \in Nat /\ timers \subseteq Timer
    BY <1>2 DEF ConnInv, ConnTypes
  <1>7. LoopInv'
    <2>1. CASE Start
      BY <1>2, <2>1 DEF Start, LoopInv
    <2>2. CASE Connect
      BY <1>2, <1>6, <2>2, BoundsAssumption DEF Connect, LoopInv
    <2>3. CASE AcceptDone
      BY <1>2, <2>3 DEF AcceptDone, LoopInv
    <2>4. CASE AcceptError
      <3>1. listening' \in BOOLEAN
        BY <2>4 DEF AcceptError
      <3>2. waiting' \in Nat /\ last_id' + waiting' <= MaxId
        BY <1>2, <1>6, <2>4, BoundsAssumption DEF AcceptError, LoopInv
      <3> QED  BY <1>2, <2>4, <3>1, <3>2 DEF AcceptError, LoopInv
    <2>5. CASE EventsDone
      BY <1>2, <2>5 DEF EventsDone, LoopInv
    <2>6. CASE \E fd \in Fds : Done(fd)
      BY <1>2, <2>6 DEF Done, LoopInv
    <2>7. CASE \E d \in DueSets : PollTimers(d)
      <3>1. due' \subseteq timers /\ UNCHANGED <<pc, server, revents, custom_events>>
        BY <2>7 DEF DueSets, PollTimers
      <3> QED  BY <1>2, <1>6, <3>1 DEF LoopInv, server
    <2> QED  BY <2>1, <2>2, <2>3, <2>4, <2>5, <2>6, <2>7
  <1> QED  BY <1>3, <1>4, <1>5, <1>7 DEF WsInv, ConnKept

\* The events that are polled are of the connections that are open.
LEMMA PollIosStep ==
    ASSUME WsInv, NEW d \in DueSets, NEW w \in SUBSET Writable, PollIos(d, w)
    PROVE  WsInv'
  <1>1. /\ UNCHANGED <<pc, listening, waiting, last_id, custom_events, sessions, connections>>
        /\ due' = d /\ pendings' = Readable \cup w \cup Internal
        /\ revents' = [fd \in Fds |-> revents[fd] \cup Polled(fd, w)]
    BY DEF PollIos
  <1>2. ConnInv /\ LoopInv /\ NoStaleEvents
    BY DEF WsInv
  <1>3. ConnKept
    BY <1>1, <1>2, NothingDone
  <1>4. SessionInv'
    BY <1>1, <1>3, SessionsKept
  <1>5. UNCHANGED io
    BY <1>1 DEF connections
  <1>6. ASSUME NEW fd \in Fds
        PROVE  /\ \A x \in Polled(fd, w) : x[2] = Id(fd)
               /\ Polled(fd, w) \subseteq {"read", "write"} \X Ids
    <2>1. CASE io[fd].opened
      <3>1. Id(fd) \in Ids
        BY <1>2, <2>1, HioFields
      <3> QED  BY <3>1 DEF Polled
    <2>2. CASE ~io[fd].opened
      <3>1. fd \notin Readable /\ fd \notin w
        BY <2>2 DEF Readable, Writable
      <3>2. Polled(fd, w) = {}
        BY <3>1 DEF Polled
      <3> QED  BY <3>2
    <2> QED  BY <2>1, <2>2
  <1>7. LoopInv'
    <2>1. due' \subseteq Timer
      BY <1>1, <1>2 DEF DueSets, ConnInv, ConnTypes
    <2>2. pendings' \subseteq Fds \cup {ListenFd, SockpairFd}
      BY <1>1 DEF Readable, Writable, Internal
    <2>3. revents' \in [Fds -> SUBSET ({"read", "write"} \X Ids)]
      BY <1>1, <1>2, <1>6 DEF LoopInv
    <2> QED  BY <1>1, <1>2, <2>1, <2>2, <2>3 DEF LoopInv
  <1>8. NoStaleEvents'
    <2> SUFFICES ASSUME NEW fd \in Fds, io[fd].opened, NEW x \in revents'[fd]
                 PROVE  x[2] = io[fd].id
      BY <1>5 DEF NoStaleEvents, Id
    <2>1. x \in revents[fd] \cup Polled(fd, w)
      BY <1>1
    <2> QED  BY <1>2, <1>6, <2>1 DEF NoStaleEvents, Id
  <1> QED  BY <1>3, <1>4, <1>7, <1>8 DEF WsInv, ConnKept

\* The next connection on a descriptor starts without the events of the last.
LEMMA AcceptStep ==
    ASSUME WsInv, NEW fd \in Fds, Accept(fd)
    PROVE  WsInv'
  <1>1. /\ ConnInv /\ LoopInv /\ NoStaleEvents /\ SessionInv
        /\ last_id \in Nat /\ ~io[fd].opened /\ waiting > 0
    BY DEF WsInv, ConnInv, ConnTypes, Accept
  <1>2. last_id + 1 <= MaxId /\ waiting' \in Nat /\ last_id' + waiting' <= MaxId
    BY <1>1, BoundsAssumption DEF LoopInv, Accept, hio_ready
  <1>3. /\ ConnInv'
        /\ io'[fd].id \in Ids
        /\ \A f \in Fds : f # fd => io'[f] = io[f]
    BY <1>1, <1>2, AcceptConn DEF Accept
  <1>4. revents' = [revents EXCEPT ![fd] = {}]
    BY DEF Accept, hio_ready
  <1>5. revents' \in [Fds -> SUBSET ({"read", "write"} \X Ids)]
        /\ revents'[fd] = {} /\ \A f \in Fds : f # fd => revents'[f] = revents[f]
    BY <1>1, <1>4 DEF LoopInv
  <1>6. LoopInv'
    BY <1>1, <1>2, <1>5 DEF LoopInv, Accept
  <1>7. NoStaleEvents'
    BY <1>1, <1>3, <1>5 DEF NoStaleEvents, Id
  <1>8. SessionInv'
    BY <1>1 DEF SessionInv, Accept, sessions
  <1> QED  BY <1>3, <1>6, <1>7, <1>8 DEF WsInv

\* What the clients do.
LEMMA ClientStep ==
    ASSUME WsInv, NEW id \in Ids, Sends(id) \/ Finishes(id) \/ Resets(id) \/ FallsSilent(id)
    PROVE  WsInv'
  <1>1. Client(id) /\ ConnInv /\ LoopInv
    BY DEF Sends, Finishes, Resets, FallsSilent, WsInv
  <1>2. UNCHANGED <<pc, server, revents, due, custom_events, sessions, io, timers, handlers>>
        /\ pc = "up"
    BY <1>1 DEF Client
  <1>3. UNCHANGED <<listening, waiting, last_id, pendings, protocol, noPong, ctx>>
    BY <1>2 DEF server, handlers
  <1>4. /\ socket' \in [Ids -> {"closed", "quiet", "data", "eof", "reset"}]
        /\ silent' \subseteq Ids
    BY <1>1 DEF Sends, Finishes, Resets, FallsSilent, ConnInv, ConnTypes
  <1>5. Light
    BY <1>1, <1>2, <1>3, <1>4 DEF Light, ConnInv, ConnTypes
  <1>6. ConnKept
    BY <1>1, <1>3, <1>5, LightStep DEF ConnKept
  <1>7. LoopKept
    BY <1>1, <1>2, <1>3 DEF LoopKept, LoopInv
  <1> QED  BY <1>2, <1>6, <1>7, CallbackStep

\* A process that has not begun to serve, or has ended, has nothing.
LEMMA Fresh == Init => WsInv
  <1> SUFFICES ASSUME Init PROVE WsInv
    OBVIOUS
  <1> USE DEF Init
  <1>1. \A fd \in Fds : ~io[fd].opened /\ io[fd] \in Hio
    BY DEF NoHio, Hio
  <1>2. ConnTypes
    <2>1. last_id \in 0..MaxId
      BY BoundsAssumption
    <2>2. io \in [Fds -> Hio]
      BY <1>1 DEF NoHio
    <2>3. noPong \in [Ids -> BOOLEAN]
      BY DEF NoPongMissing
    <2> QED  BY <2>1, <2>2, <2>3 DEF ConnTypes, NoHandler, NoContexts, NoSocket
  <1>3. IdsDistinct /\ NoStaleEvents
    BY <1>1 DEF IdsDistinct, NoStaleEvents
  <1>4. TimersWanted
    BY <1>1 DEF TimersWanted, Wanted
  <1>5. ContextWhileOpen
    BY <1>1 DEF ContextWhileOpen, Open, NoHandler, NoContexts
  <1>6. LoopInv
    <2>1. listening \in BOOLEAN
      OBVIOUS
    <2>2. revents \in [Fds -> SUBSET ({"read", "write"} \X Ids)]
      BY DEF NoEvents
    <2> QED  BY <2>1, <2>2, BoundsAssumption DEF LoopInv
  <1>7. SessionInv
    BY DEF SessionInv, NoContexts
  <1> QED  BY <1>2, <1>3, <1>4, <1>5, <1>6, <1>7 DEF WsInv, ConnInv

\* The process ends.
LEMMA DieStep == Die => WsInv'
  <1>1. Die => Init'
    BY DEF Die, Init
  <1> QED  BY <1>1, Fresh, PTL

LEMMA WsStep ==
    ASSUME WsInv, [Next]_vars
    PROVE  WsInv'
  <1>1. CASE Start \/ Connect
    BY <1>1, IdleStep
  <1>2. CASE Crash
    BY <1>2, DieStep DEF Crash
  <1>3. CASE \E d \in DueSets : PollTimers(d) \/ \E w \in SUBSET Writable : PollIos(d, w)
    BY <1>3, IdleStep, PollIosStep
  <1>4. CASE \E t \in due : TimerCallback(t)
    BY <1>4, TimerStep
  <1>5. CASE IoCallback
    <2>1. CASE AcceptDone \/ AcceptError \/ EventsDone
      BY <2>1, IdleStep
    <2>2. CASE CloseEvent
      BY <2>2, CloseEventStep
    <2>3. ASSUME NEW fd \in Fds, Accept(fd) \/ Done(fd) \/ Read(fd) \/ Write(fd)
          PROVE  WsInv'
      <3>1. CASE Accept(fd)
        BY <3>1, AcceptStep
      <3>2. CASE Done(fd)
        BY <3>2, IdleStep
      <3>3. CASE Read(fd)
        <4>1. CASE BadMessage(fd)
          BY <4>1, DieStep DEF BadMessage
        <4>2. CASE ReadEnd(fd)
          BY <4>2, EndStep
        <4>3. CASE PlayerMoveTo(fd)
          BY <4>3, PlayerMoveToStep
        <4>4. CASE \E token \in Tokens : SetSessionToken(fd, token)
          BY <4>4, SetSessionTokenStep
        <4>5. CASE \/ Refuse(fd) \/ Ignore(fd) \/ Request(fd) \/ Upgrade(fd)
                   \/ CloseFrame(fd) \/ Pong(fd) \/ Answer(fd)
          BY <4>5, ReadStep
        <4> QED  BY <3>3, <4>1, <4>2, <4>3, <4>4, <4>5 DEF Read
      <3>4. CASE Write(fd)
        BY <3>4, EndStep
      <3> QED  BY <2>3, <3>1, <3>2, <3>3, <3>4
    <2> QED  BY <1>5, <2>1, <2>2, <2>3 DEF IoCallback
  <1>6. CASE \E id \in Ids : Sends(id) \/ Finishes(id) \/ Resets(id) \/ FallsSilent(id)
    BY <1>6, ClientStep
  <1>7. CASE UNCHANGED vars
    <2>1. UNCHANGED <<pc, server, revents, due, custom_events, sessions, connections>>
      BY <1>7 DEF vars
    <2>2. UNCHANGED <<listening, waiting, last_id, pendings, io>>
      BY <2>1 DEF server, connections
    <2>3. ConnKept
      BY <2>1, <2>2, NothingDone DEF WsInv
    <2>4. SessionInv'
      BY <2>1, <2>3, SessionsKept
    <2>5. LoopInv' /\ NoStaleEvents'
      BY <2>1, <2>2 DEF WsInv, LoopInv, NoStaleEvents, Id
    <2> QED  BY <2>3, <2>4, <2>5 DEF WsInv, ConnKept
  <1> QED  BY <1>1, <1>2, <1>3, <1>4, <1>5, <1>6, <1>7 DEF Next

LEMMA WsInvariant == Spec => []WsInv
  <1>1. WsInv /\ [Next]_vars => WsInv'
    BY WsStep
  <1> QED  BY <1>1, Fresh, PTL DEF Spec

-----------------------------------------------------------------------------
(* Theorems *)

\* Seen one by one or as a set, the timers are the same.
LEMMA TimersAsSet ==
    ASSUME WsInv
    PROVE  TimersExact
  <1> DEFINE Of(fd) == {"heartbeat", "sync", "keepalive", "close"} \
                           ((IF protocol[Id(fd)] = "websocket" THEN {"keepalive"}
                                                               ELSE {"heartbeat", "sync"})
                            \cup (IF io[fd].close THEN {} ELSE {"close"}))
             Opened == {f \in Fds : io[f].opened}
             All == UNION {Of(fd) \X {fd} \X {Id(fd)} : fd \in Opened}
  <1>1. ConnInv /\ timers \subseteq Timer /\ TimersWanted
    BY DEF WsInv, ConnInv, ConnTypes
  <1>2. ASSUME NEW kind \in Kinds, NEW fd \in Fds, NEW id \in Ids
        PROVE  Wanted(kind, fd, id) <=> fd \in Opened /\ kind \in Of(fd) /\ id = Id(fd)
    BY DEF Wanted, Kinds
  <1>3. \A fd \in Fds : Of(fd) \subseteq Kinds
    BY DEF Kinds
  <1> HIDE DEF Of
  <1>4. ASSUME NEW x \in timers
        PROVE  x \in All
    <2>1. /\ x[1] \in Kinds /\ x[2] \in Fds /\ x[3] \in Ids /\ x = <<x[1], x[2], x[3]>>
      BY <1>1, <1>4, TimerParts
    <2>2. x[2] \in Opened /\ x[1] \in Of(x[2]) /\ x[3] = Id(x[2])
      BY <1>1, <1>2, <1>4, <2>1 DEF TimersWanted
    <2>3. x \in Of(x[2]) \X {x[2]} \X {Id(x[2])}
      BY <2>1, <2>2
    <2> QED  BY <2>2, <2>3
  <1>5. ASSUME NEW x \in All
        PROVE  x \in timers
    <2>1. PICK fd \in Opened : x \in Of(fd) \X {fd} \X {Id(fd)}
      OBVIOUS
    <2>2. fd \in Fds /\ Id(fd) \in Ids
      BY <1>1, HioFields
    <2>3. PICK kind \in Of(fd) : x = <<kind, fd, Id(fd)>>
      BY <2>1
    <2>4. kind \in Kinds
      BY <1>3, <2>2, <2>3
    <2>5. Wanted(kind, fd, Id(fd))
      BY <1>2, <2>2, <2>3, <2>4
    <2> QED  BY <1>1, <2>2, <2>3, <2>4, <2>5 DEF TimersWanted
  <1>6. timers = All
    BY <1>4, <1>5
  <1> QED  BY <1>6 DEF TimersExact, Of

\* A connection, its timers, the events polled for it, its handler and its context begin
\* and end together, for every order of callbacks, requests, frames, posted and delayed
\* closes and due timers, although an hio_t is used again (hloop_process_pendings,
\* hio_close, on_close, on_accept and the WebSocket's onopen and onclose).
THEOREM NothingIsLeftBehind == Spec => []NothingLeftBehind
  <1>1. WsInv => NothingLeftBehind
    <2> SUFFICES ASSUME WsInv PROVE NothingLeftBehind
      OBVIOUS
    <2>1. TypeOK
      <3>1. waiting \in 0..MaxId
        BY BoundsAssumption DEF WsInv, ConnInv, ConnTypes, LoopInv
      <3> QED  BY <3>1 DEF WsInv, ConnInv, ConnTypes, LoopInv, SessionInv, TypeOK
    <2> QED  BY <2>1, TimersAsSet DEF NothingLeftBehind, WsInv, ConnInv
  <1> QED  BY <1>1, WsInvariant, PTL

\* Every open connection has its handler when a callback begins.
LEMMA HandlerThere ==
    ASSUME WsInv, NEW fd \in Fds, io[fd].opened
    PROVE  HasHandler(fd)
  <1>1. Id(fd) \in Ids /\ ContextWhileOpen
    BY HioFields DEF WsInv, ConnInv
  <1>2. Open(Id(fd))
    BY DEF Open, Id
  <1> QED  BY <1>1, <1>2 DEF ContextWhileOpen, HasHandler

\* What goes wrong below a callback: its write fails.
LEMMA Undefined ==
    ASSUME WsInv, pc = "up", pc' = "undefined", NEW fd \in Fds, io[fd].opened,
           UsesHandler(fd) \/ (GoesOn(fd) /\ (HasHandler(fd)' \/ WriteError(fd)))
    PROVE  HasHandler(fd) /\ ~io'[fd].opened /\ ~io[fd].queue /\ Broken(Id(fd))
  <1>1. HasHandler(fd)
    BY HandlerThere
  <1>2. ~UsesHandler(fd) /\ WriteError(fd)
    BY <1>1 DEF UsesHandler, GoesOn
  <1>3. io \in [Fds -> Hio] /\ io' = [io EXCEPT ![fd].opened = FALSE, ![fd].close = FALSE, ![fd].queue = FALSE]
    BY <1>2 DEF WsInv, ConnInv, ConnTypes, WriteError, DoClose, hio_done
  <1>4. io[fd] \in Hio /\ io'[fd] = [io[fd] EXCEPT !.opened = FALSE, !.close = FALSE, !.queue = FALSE]
    BY <1>3
  <1>5. ~io'[fd].opened
    BY <1>4 DEF Hio
  <1> QED  BY <1>1, <1>2, <1>5 DEF WriteError

\* No callback begins without its handler, although timers and polled events only know the
\* hio_t: of the callbacks of one round none is run for a connection that another
\* one closed (hloop_process_pendings skips the events that are no longer active,
\* hio_ready clears revents).  What is left is a write that fails below a callback
\* and closes the connection, when the client resets it.
THEOREM HandlersUsedAlive == Spec => HandlerUsedWhileAlive
  <1> DEFINE FailedBelow(fd) == /\ HasHandler(fd) /\ io[fd].opened /\ ~io'[fd].opened
                                /\ ~io[fd].queue /\ Broken(Id(fd))
             Failed == \E fd \in Fds : FailedBelow(fd)
  <1>1. ASSUME WsInv, Next, pc = "up", pc' = "undefined"
        PROVE  Failed
    <2>1. ASSUME NEW fd \in Fds, io[fd].opened,
                 UsesHandler(fd) \/ (GoesOn(fd) /\ (HasHandler(fd)' \/ WriteError(fd)))
          PROVE  Failed
      BY <1>1, <2>1, Undefined
    <2>2. CASE \E t \in due : TimerCallback(t)
      <3>1. PICK t \in due : TimerCallback(t)
        BY <2>2
      <3>2. websocket_heartbeat(t) /\ t \in timers
        BY <1>1, <3>1 DEF TimerCallback, Skip, Timeout, websocket_heartbeat, Sync, Fires
      <3>3. t[1] \in Kinds /\ t[2] \in Fds /\ t[3] \in Ids /\ t = <<t[1], t[2], t[3]>>
        BY <1>1, <3>2, TimerParts DEF WsInv, ConnInv, ConnTypes
      <3>4. Wanted(t[1], t[2], t[3])
        BY <1>1, <3>2, <3>3 DEF WsInv, ConnInv, TimersWanted
      <3>5. io[t[2]].opened /\ HasHandler(t[2])
        BY <1>1, <3>3, <3>4, HandlerThere DEF Wanted
      <3>6. Send(t[2]) /\ protocol' = protocol => HasHandler(t[2])'
        <4> SUFFICES ASSUME Send(t[2]), protocol' = protocol PROVE HasHandler(t[2])'
          OBVIOUS
        <4>1. PICK q \in BOOLEAN : io' = [io EXCEPT ![t[2]].queue = q]
          BY DEF Send, Written
        <4>2. io'[t[2]].id = io[t[2]].id
          BY <1>1, <3>3, <4>1, QueueSet DEF WsInv, ConnInv, ConnTypes
        <4> QED  BY <3>5, <4>2 DEF HasHandler, Id
      <3> QED  BY <2>1, <3>2, <3>3, <3>5, <3>6 DEF websocket_heartbeat
    <2>3. CASE IoCallback
      <3>1. CASE AcceptDone \/ AcceptError \/ EventsDone \/ CloseEvent
        BY <1>1, <3>1 DEF AcceptDone, AcceptError, EventsDone, CloseEvent
      <3>2. ASSUME NEW fd \in Fds, Accept(fd) \/ Done(fd) \/ Read(fd) \/ Write(fd)
            PROVE  Failed
        <4>1. CASE Accept(fd) \/ Done(fd) \/ Write(fd) \/ ReadEnd(fd)
          BY <1>1, <4>1 DEF Accept, Done, Write, ReadEnd
        <4>2. CASE BadMessage(fd)
          BY <1>1, <4>2 DEF BadMessage, Die
        <4>3. CASE Refuse(fd) \/ Ignore(fd) \/ CloseFrame(fd) \/ Pong(fd) \/ PlayerMoveTo(fd)
          <5>1. io[fd].opened /\ UsesHandler(fd)
            BY <4>3 DEF Refuse, Ignore, CloseFrame, Pong, PlayerMoveTo, Frame, Reading, Handling
          <5> QED  BY <2>1, <5>1
        <4>4. CASE \/ Request(fd) \/ Upgrade(fd) \/ Answer(fd)
                   \/ \E token \in Tokens : SetSessionToken(fd, token)
          <5>1. Handling(fd, "read")
            BY <4>4 DEF Request, Upgrade, Answer, SetSessionToken, Frame, Reading
          <5>2. io[fd].opened /\ HasHandler(fd) /\ Id(fd) \in Ids
                /\ io \in [Fds -> Hio] /\ protocol \in [Ids -> {"deleted", "http", "websocket"}]
            BY <1>1, <5>1, HandlingFacts, HandlerThere DEF ConnInv, ConnTypes
          <5>3. ASSUME NEW q \in BOOLEAN, io' = [io EXCEPT ![fd].queue = q],
                       protocol' = protocol \/ SwitchWebSocket(Id(fd))
                PROVE  HasHandler(fd)'
            <6>1. io'[fd].id = io[fd].id
              BY <5>2, <5>3, QueueSet
            <6> QED  BY <5>2, <5>3, <6>1 DEF HasHandler, Id, SwitchWebSocket
          <5>4. Send(fd) /\ protocol' = protocol => HasHandler(fd)'
            BY <5>3 DEF Send, Written
          <5>5. \/ UsesHandler(fd)
                \/ GoesOn(fd) /\ (HasHandler(fd)' \/ WriteError(fd))
            <6>1. CASE Request(fd)
              BY <5>4, <6>1 DEF Request, handlers
            <6>2. CASE Upgrade(fd)
              BY <5>3, <6>2 DEF Upgrade, Written
            <6>3. CASE Answer(fd)
              BY <5>4, <6>3 DEF Answer, handlers
            <6>4. CASE \E token \in Tokens : SetSessionToken(fd, token)
              BY <5>4, <6>4 DEF SetSessionToken
            <6> QED  BY <4>4, <6>1, <6>2, <6>3, <6>4
          <5> QED  BY <2>1, <5>2, <5>5
        <4> QED  BY <3>2, <4>1, <4>2, <4>3, <4>4 DEF Read
      <3> QED  BY <2>3, <3>1, <3>2 DEF IoCallback
    <2>4. CASE Start \/ Crash \/ Connect
      BY <1>1, <2>4 DEF Start, Crash, Die, Connect
    <2>5. CASE \E d \in DueSets : PollTimers(d) \/ \E w \in SUBSET Writable : PollIos(d, w)
      BY <1>1, <2>5 DEF PollTimers, PollIos
    <2>6. CASE \E id \in Ids : Sends(id) \/ Finishes(id) \/ Resets(id) \/ FallsSilent(id)
      BY <1>1, <2>6 DEF Sends, Finishes, Resets, FallsSilent, Client
    <2> QED  BY <1>1, <2>2, <2>3, <2>4, <2>5, <2>6 DEF Next
  <1>2. WsInv /\ [Next]_vars => [pc = "up" /\ pc' = "undefined" => Failed]_vars
    BY <1>1
  <1> HIDE DEF Failed
  <1>3. Spec => [][pc = "up" /\ pc' = "undefined" => Failed]_vars
    BY <1>2, WsInvariant, PTL DEF Spec
  <1> QED  BY <1>3 DEF HandlerUsedWhileAlive, Failed

\* A posted event leaves the queue only when it is run.
LEMMA EventsChange ==
    ASSUME WsInv, Next, pc' = "up", custom_events # <<>>, custom_events' = Tail(custom_events)
    PROVE  CloseEvent
  <1>1. custom_events \in Seq([fd : Fds, id : Ids])
    BY DEF WsInv, LoopInv
  <1>2. custom_events' # custom_events
    BY <1>1, HeadTailProperties
  <1>3. CASE \E t \in due : TimerCallback(t)
    BY <1>2, <1>3 DEF TimerCallback, Skip, Timeout, websocket_heartbeat, Sync
  <1>4. CASE Start \/ Crash \/ Connect
    BY <1>2, <1>4 DEF Start, Crash, Die, Connect
  <1>5. CASE \E d \in DueSets : PollTimers(d) \/ \E w \in SUBSET Writable : PollIos(d, w)
    BY <1>2, <1>5 DEF PollTimers, PollIos
  <1>6. CASE \E id \in Ids : Sends(id) \/ Finishes(id) \/ Resets(id) \/ FallsSilent(id)
    BY <1>2, <1>6 DEF Sends, Finishes, Resets, FallsSilent, Client
  <1>7. CASE IoCallback
    <2>1. ~(AcceptDone \/ AcceptError \/ EventsDone)
      BY <1>2 DEF AcceptDone, AcceptError, EventsDone
    <2>2. ASSUME NEW fd \in Fds, Accept(fd) \/ Done(fd) \/ Read(fd) \/ Write(fd)
          PROVE  FALSE
      <3>1. ~(Accept(fd) \/ Done(fd) \/ Write(fd))
        BY <1>2 DEF Accept, Done, Write
      <3>2. ~(\/ ReadEnd(fd) \/ Refuse(fd) \/ Ignore(fd) \/ Request(fd) \/ Upgrade(fd)
              \/ Pong(fd) \/ Answer(fd) \/ PlayerMoveTo(fd)
              \/ \E token \in Tokens : SetSessionToken(fd, token))
        BY <1>2 DEF ReadEnd, Refuse, Ignore, Request, Upgrade, Pong, Answer, PlayerMoveTo,
                    SetSessionToken
      <3>3. ~BadMessage(fd)
        BY DEF BadMessage, Die
      <3>4. ~CloseFrame(fd)
        <4> SUFFICES ASSUME CloseFrame(fd) PROVE FALSE
          OBVIOUS
        <4>1. Handling(fd, "read") /\ hio_close_async(fd)
          BY DEF CloseFrame, Frame, Reading
        <4>2. [fd |-> fd, id |-> Id(fd)] \in [fd : Fds, id : Ids]
          BY <4>1, HandlingFacts
        <4>3. Len(custom_events') = Len(custom_events) + 1
          BY <1>1, <4>1, <4>2, AppendProperties DEF hio_close_async
        <4>4. Len(custom_events') = Len(custom_events) - 1 /\ Len(custom_events) \in Nat
          BY <1>1, HeadTailProperties
        <4> QED  BY <4>3, <4>4
      <3> QED  BY <2>2, <3>1, <3>2, <3>3, <3>4 DEF Read
    <2> QED  BY <1>7, <2>1, <2>2 DEF IoCallback
  <1> QED  BY <1>3, <1>4, <1>5, <1>6, <1>7 DEF Next

\* The close that a CLOSE frame posts (hio_close_async) changes the hio_t of the connection
\* that received the frame and of no other, in particular not the next one that uses
\* the same hio_t (hio_close_event_cb compares the ids).
THEOREM AsyncClosesHitTheirOwn == Spec => AsyncCloseHitsItsOwn
  <1>1. ASSUME WsInv, Next, pc' = "up", custom_events # <<>>,
               custom_events' = Tail(custom_events)
        PROVE  \A fd \in Fds : io'[fd] # io[fd] => Id(fd) = Head(custom_events).id
    <2> SUFFICES ASSUME NEW g \in Fds, io'[g] # io[g]
                 PROVE  Id(g) = Head(custom_events).id
      OBVIOUS
    <2>1. CloseEvent
      BY <1>1, EventsChange
    <2>2. custom_events \in Seq([fd : Fds, id : Ids])
      BY <1>1 DEF WsInv, LoopInv
    <2>3. Head(custom_events) \in [fd : Fds, id : Ids]
      BY <1>1, <2>2, HeadTailProperties
    <2>4. PICK f \in Fds : f = Head(custom_events).fd
      BY <2>3
    <2>5. CASE UNCHANGED connections
      BY <2>5 DEF connections
    <2>6. CASE Id(f) = Head(custom_events).id /\ hio_close(f, io[f].queue, socket[Id(f)])
      <3>1. io \in [Fds -> Hio]
        BY <1>1 DEF WsInv, ConnInv, ConnTypes
      <3>2. g # f => io'[g] = io[g]
        BY <2>6, <3>1 DEF hio_close, DoClose, hio_done, CloseLater
      <3> QED  BY <2>6, <3>2
    <2> QED  BY <2>1, <2>4, <2>5, <2>6 DEF CloseEvent, hio_close_event_cb
  <1> DEFINE A == pc' = "up" /\ custom_events # <<>> /\ custom_events' = Tail(custom_events)
                  => \A fd \in Fds : io'[fd] # io[fd] => Id(fd) = Head(custom_events).id
  <1>2. WsInv /\ [Next]_vars => [A]_vars
    BY <1>1
  <1> HIDE DEF A
  <1>3. Spec => [][A]_vars
    BY <1>2, WsInvariant, PTL DEF Spec
  <1> QED  BY <1>3 DEF AsyncCloseHitsItsOwn, A

\* Players change only in the two frames about sessions.
LEMMA SessionsChange ==
    ASSUME Next, pc = "up", pc' = "up"
    PROVE  \/ UNCHANGED sessions
           \/ \E fd \in Fds : PlayerMoveTo(fd)
           \/ \E fd \in Fds, token \in Tokens : SetSessionToken(fd, token)
  <1>1. CASE \E t \in due : TimerCallback(t)
    BY <1>1 DEF TimerCallback, Skip, Timeout, websocket_heartbeat, Sync
  <1>2. CASE Start \/ Crash \/ Connect
    BY <1>2 DEF Start, Crash, Die, Connect
  <1>3. CASE \E d \in DueSets : PollTimers(d) \/ \E w \in SUBSET Writable : PollIos(d, w)
    BY <1>3 DEF PollTimers, PollIos
  <1>4. CASE \E id \in Ids : Sends(id) \/ Finishes(id) \/ Resets(id) \/ FallsSilent(id)
    BY <1>4 DEF Sends, Finishes, Resets, FallsSilent, Client
  <1>5. CASE IoCallback
    <2>1. CASE AcceptDone \/ AcceptError \/ EventsDone \/ CloseEvent
      BY <2>1 DEF AcceptDone, AcceptError, EventsDone, CloseEvent
    <2>2. ASSUME NEW fd \in Fds, Accept(fd) \/ Done(fd) \/ Write(fd)
          PROVE  UNCHANGED sessions
      BY <2>2 DEF Accept, Done, Write
    <2>3. ASSUME NEW fd \in Fds,
                 \/ ReadEnd(fd) \/ Refuse(fd) \/ Ignore(fd) \/ Request(fd) \/ Upgrade(fd)
                 \/ CloseFrame(fd) \/ Pong(fd) \/ Answer(fd)
          PROVE  UNCHANGED sessions
      BY <2>3 DEF ReadEnd, Refuse, Ignore, Request, Upgrade, CloseFrame, Pong, Answer
    <2>4. \A fd \in Fds : ~BadMessage(fd)
      BY DEF BadMessage, Die
    <2> QED  BY <1>5, <2>1, <2>2, <2>3, <2>4 DEF IoCallback, Read
  <1> QED  BY <1>1, <1>2, <1>3, <1>4, <1>5 DEF Next

\* Where a player was moved to stays with its token: other connections, other
\* tokens and the end of its connections leave m_mapSessions and the PlayerContext alone.
THEOREM MovesAreKept == Spec => MovesKept
  <1> DEFINE Kept == \A k \in DOMAIN m_mapSessions :
                        /\ k \in DOMAIN m_mapSessions'
                        /\ players[m_mapSessions[k]] => players'[m_mapSessions'[k]]
             A == pc = "up" /\ pc' = "up" => Kept
  <1>1. ASSUME WsInv, Next, pc = "up", pc' = "up"
        PROVE  Kept
    <2>1. \A k \in DOMAIN m_mapSessions : m_mapSessions[k] \in 1..Len(players)
      BY <1>1 DEF WsInv, SessionInv
    <2>2. CASE UNCHANGED sessions
      BY <2>2 DEF sessions
    <2>3. ASSUME NEW fd \in Fds, PlayerMoveTo(fd)
          PROVE  Kept
      BY <1>1, <2>1, <2>3, MovedFacts DEF PlayerMoveTo
    <2>4. ASSUME NEW fd \in Fds, NEW token \in Tokens, SetSessionToken(fd, token)
          PROVE  Kept
      <3>1. SessionOf(token)
        BY <2>4 DEF SetSessionToken
      <3> QED  BY <1>1, <2>1, <3>1, SessionOfFacts
    <2> QED  BY <1>1, <2>2, <2>3, <2>4, SessionsChange
  <1>2. WsInv /\ [Next]_vars => [A]_vars
    BY <1>1
  <1> HIDE DEF A
  <1>3. Spec => [][A]_vars
    BY <1>2, WsInvariant, PTL DEF Spec
  <1> QED  BY <1>3 DEF MovesKept, A
=============================================================================

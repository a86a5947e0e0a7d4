------------------------------ MODULE WsServer ------------------------------
(***************************************************************************)
(* The loop thread that runs WebdiffServer: libhv's event loop, its        *)
(* connections (hio_t), their timers and posted events, HttpServer's       *)
(* callbacks on them and the WebSocket service of WebdiffWsServer.         *)
(*                                                                         *)
(* One round of the loop polls (hloop_process_ios, hloop_process_timers),  *)
(* which makes events pending, and then runs the callback of every pending *)
(* event, timers first.  A callback is one step: nothing else runs in the  *)
(* process.  Clients, and time, act between any two steps.  An hio_t lives *)
(* as long as the process and is used again for the next connection that   *)
(* gets its descriptor; only the id tells two connections of one hio_t     *)
(* apart, and a timer or a polled event does not know the id.              *)
(*                                                                         *)
(* A client's bytes are a state of its socket; which request or frame they *)
(* are is chosen when they are read.  Whether a timer is due is chosen by  *)
(* the poll.  The answers of the HTTP API are the business of Storage and  *)
(* Diff, the bytes of a write that of WriteQueue.                          *)
(***************************************************************************)
EXTENDS Naturals, Sequences, FiniteSets

CONSTANTS Fds,         \* the descriptors left to connections
          ListenFd,    \* the listening socket
          SockpairFd,  \* the socket pair that wakes the loop for posted events
          Tokens,      \* session tokens the clients use
          Ends,        \* how clients end: "eof", "reset", "silent"
          NoContext,   \* no VvWsConnectionContext
          MaxId,       \* bound: number of connections
          MaxDue       \* bound: timers that are due in one round

ASSUME FdsAssumption == ListenFd \notin Fds /\ SockpairFd \notin Fds /\ ListenFd # SockpairFd
ASSUME BoundsAssumption == MaxId \in Nat \ {0} /\ MaxDue \in Nat \ {0}
ASSUME EndsAssumption == Ends \subseteq {"eof", "reset", "silent"}
ASSUME NoContextAssumption == NoContext \notin Nat

Ids == 1..MaxId
None == 0

VARIABLES
    pc,             \* "down", "up", or "undefined": a freed handler was used
    listening,      \* the listening socket is open
    waiting,        \* clients in its backlog
    last_id,        \* the counter of hio_next_id
    io,             \* the hio_t of each descriptor
    revents,        \* polled events of each hio_t, with the id they were polled for
    timers,         \* the active timers
    due,            \* the pending timers
    pendings,       \* the pending descriptors
    custom_events,  \* posted hio_close_event_cb
    protocol,       \* of the HttpHandler: "http" (UNKNOWN as well), "websocket", or "deleted"
    noPong,         \* last_recv_pong_time < last_send_ping_time
    ctx,            \* VvWsConnectionContext of each connection: the player, or NoContext
    m_mapSessions,  \* token -> player
    players,        \* the PlayerContext objects: was it moved?
    socket,         \* what the kernel has for the server, per connection
    silent          \* clients that will neither send nor read any more

sessions == <<m_mapSessions, players>>
handlers == <<protocol, noPong, ctx>>
connections == <<io, timers, handlers, socket, silent>>
\* What the callbacks of a connection leave alone, but for frames.
server == <<listening, waiting, last_id, pendings>>
vars == <<pc, server, revents, due, custom_events, sessions, connections>>

NoPlayer == 0
Hio == [id : Ids \cup {None}, opened : BOOLEAN, close : BOOLEAN, queue : BOOLEAN]
Timer == {"keepalive", "close", "heartbeat", "sync"} \X Fds \X Ids

\* The connection that uses the descriptor.
Id(fd) == io[fd].id
Open(id) == \E fd \in Fds : io[fd].opened /\ io[fd].id = id

NoHio == [fd \in Fds |-> [id |-> None, opened |-> FALSE, close |-> FALSE, queue |-> FALSE]]
NoEvents == [fd \in Fds |-> {}]
NoHandler == [id \in Ids |-> "deleted"]
NoPongMissing == [id \in Ids |-> FALSE]
NoContexts == [id \in Ids |-> NoContext]
NoSocket == [id \in Ids |-> "closed"]

Init ==
    /\ pc = "down" /\ listening = FALSE
    /\ io = NoHio /\ revents = NoEvents /\ timers = {} /\ due = {} /\ pendings = {}
    /\ custom_events = <<>> /\ last_id = 0
    /\ protocol = NoHandler /\ noPong = NoPongMissing /\ ctx = NoContexts
    /\ m_mapSessions = <<>> /\ players = <<>>
    /\ waiting = 0 /\ socket = NoSocket /\ silent = {}

\* http_server_run, loop_thread
Start ==
    /\ pc = "down"
    /\ pc' = "up" /\ listening' = TRUE
    /\ UNCHANGED <<waiting, last_id, pendings, revents, due, custom_events, sessions, connections>>

\* The process ends, by a signal or by an exception no one catches.
Die ==
    /\ pc' = "down" /\ listening' = FALSE
    /\ io' = NoHio /\ revents' = NoEvents /\ timers' = {} /\ due' = {} /\ pendings' = {}
    /\ custom_events' = <<>> /\ last_id' = 0
    /\ protocol' = NoHandler /\ noPong' = NoPongMissing /\ ctx' = NoContexts
    /\ m_mapSessions' = <<>> /\ players' = <<>>
    /\ waiting' = 0 /\ socket' = NoSocket /\ silent' = {}

Crash == pc # "down" /\ Die

-----------------------------------------------------------------------------
(* hio_close and hio_write *)

\* The timers __close_cb deletes.
TimersOf(fd) == {"keepalive", "close", "heartbeat"} \X {fd} \X {Id(fd)}

\* Mutant of onclose: the timers of all connections are killed.
onclose_kills_all(id) == {t \in timers : t[1] = "sync"}

\* The timer that the WebSocket's onclose kills.
onclose(id) == {t \in timers : t[1] = "sync" /\ t[3] = id}

\* The timers are deleted, a WebSocket's onclose is called and the handler deleted.
on_close(fd) ==
    /\ timers' = (timers \ TimersOf(fd)) \
                 (IF protocol[Id(fd)] = "websocket" THEN onclose(Id(fd)) ELSE {})
    /\ protocol' = [protocol EXCEPT ![Id(fd)] = "deleted"]
    /\ noPong' = [noPong EXCEPT ![Id(fd)] = FALSE]
    /\ ctx' = [ctx EXCEPT ![Id(fd)] = NoContext]

\* The hio_t is no longer ready and its write queue is freed.
hio_done(fd) ==
    io' = [io EXCEPT ![fd].opened = FALSE, ![fd].close = FALSE, ![fd].queue = FALSE]

\* hio_close when it goes through: hio_done, __close_cb, on_close, closesocket.
DoClose(fd) ==
    /\ hio_done(fd)
    /\ on_close(fd)
    /\ socket' = [socket EXCEPT ![Id(fd)] = "closed"]
    /\ silent' = silent \ {Id(fd)}

\* "write_queue not empty, close later."
CloseLater(fd, s) ==
    /\ io' = [io EXCEPT ![fd].close = TRUE, ![fd].queue = TRUE]
    /\ timers' = timers \cup {<<"close", fd, Id(fd)>>}
    /\ socket' = [socket EXCEPT ![Id(fd)] = s]
    /\ UNCHANGED <<handlers, silent>>

\* hio_close without an error; q tells whether the write queue holds something, s what
\* is in the socket if it stays open.
hio_close(fd, q, s) == IF q /\ ~io[fd].close THEN CloseLater(fd, s) ELSE DoClose(fd)

\* What the write queue may be after hio_write put a message into it or sent it.
Written(fd) == IF io[fd].queue THEN {TRUE} ELSE BOOLEAN

\* The client has reset the connection, or does it between the read of its bytes and the
\* write that answers them.
Broken(id) == socket[id] = "reset" \/ ("reset" \in Ends /\ id \notin silent)

\* hio_write finds the connection broken and closes it.
WriteError(fd) == ~io[fd].queue /\ Broken(Id(fd)) /\ DoClose(fd)

\* A message is sent or queued and nothing else changes in the loop.
Send(fd) ==
    /\ \E q \in Written(fd) : io' = [io EXCEPT ![fd].queue = q]
    /\ UNCHANGED timers

\* The handler that hevent_userdata gives for the hio_t is not deleted.
HasHandler(fd) == protocol[Id(fd)] # "deleted"

\* A callback that takes its handler from the hio_t when it begins, and one that also goes
\* on with it after its writes.  Without a handler the behaviour is undefined.
UsesHandler(fd) == pc' = IF HasHandler(fd) THEN pc ELSE "undefined"
GoesOn(fd) == pc' = IF HasHandler(fd) /\ HasHandler(fd)' THEN pc ELSE "undefined"

-----------------------------------------------------------------------------
(* hloop_process_events: polling *)

Readable == {fd \in Fds : io[fd].opened /\ socket[Id(fd)] # "quiet"}
Writable == {fd \in Fds : io[fd].opened /\ io[fd].queue /\ Id(fd) \notin silent}
Internal == (IF listening /\ waiting > 0 THEN {ListenFd} ELSE {})
            \cup (IF custom_events # <<>> THEN {SockpairFd} ELSE {})

\* What poll reports for the descriptor.
Polled(fd, w) == {<<e, Id(fd)>> : e \in (IF fd \in Readable THEN {"read"} ELSE {})
                                        \cup (IF fd \in w THEN {"write"} ELSE {})}

DueSets == {d \in SUBSET timers : Cardinality(d) <= MaxDue}

Polling == pc = "up" /\ due = {} /\ pendings = {}

\* The descriptors are polled, then the timers d are due.
PollIos(d, w) ==
    /\ Polling
    /\ d \cup Readable \cup w \cup Internal # {}
    /\ due' = d
    /\ revents' = [fd \in Fds |-> revents[fd] \cup Polled(fd, w)]
    /\ pendings' = Readable \cup w \cup Internal
    /\ UNCHANGED <<pc, listening, waiting, last_id, custom_events, sessions, connections>>

\* Timers are due at once and nothing is polled.
PollTimers(d) ==
    /\ Polling
    /\ d # {}
    /\ due' = d
    /\ UNCHANGED <<pc, server, revents, custom_events, sessions, connections>>

-----------------------------------------------------------------------------
(* hloop_process_pendings: the callbacks of timers *)

\* Mutant of Fires: whether the timer is still active is not asked.
FiresAnyway(t) == pc = "up" /\ t \in due /\ due' = due \ {t}

\* A callback is run only if the timer was not deleted since it became pending.
Fires(t) == pc = "up" /\ t \in due /\ due' = due \ {t} /\ t \in timers

\* The timer was deleted by a callback that ran before in this round.
Skip(t) ==
    /\ pc = "up" /\ t \in due /\ due' = due \ {t} /\ t \notin timers
    /\ UNCHANGED <<pc, server, revents, custom_events, sessions, connections>>

\* __keepalive_timeout_cb and __close_timeout_cb set an error and close.
Timeout(t) ==
    /\ Fires(t) /\ t[1] \in {"keepalive", "close"}
    /\ DoClose(t[2])
    /\ UNCHANGED <<pc, server, revents, custom_events, sessions>>

\* Mutant of websocket_heartbeat: a ping is not remembered.
HeartbeatForgets(t) ==
    /\ Fires(t) /\ t[1] = "heartbeat"
    /\ Send(t[2])
    /\ UNCHANGED <<pc, handlers, socket, silent>>
    /\ UNCHANGED <<server, revents, custom_events, sessions>>

\* The time of the ping is noted in the handler behind the write.
websocket_heartbeat(t) ==
    /\ Fires(t) /\ t[1] = "heartbeat"
    /\ \/ /\ noPong[Id(t[2])]
          /\ hio_close(t[2], io[t[2]].queue, socket[Id(t[2])])
          /\ UsesHandler(t[2])
       \/ /\ ~noPong[Id(t[2])]
          /\ \/ /\ Send(t[2])
                /\ noPong' = [noPong EXCEPT ![Id(t[2])] = TRUE]
                /\ UNCHANGED <<protocol, ctx, socket, silent>>
             \/ WriteError(t[2])
          /\ GoesOn(t[2])
    /\ UNCHANGED <<server, revents, custom_events, sessions>>

\* The interval timer of onopen sends on its channel.  A failing send closes the
\* connection, kills this very timer and returns into a callback that EventLoop::onTimer
\* holds a copy of.
Sync(t) ==
    /\ Fires(t) /\ t[1] = "sync"
    /\ \/ /\ Id(t[2]) = t[3] /\ io[t[2]].opened
          /\ \/ Send(t[2]) /\ UNCHANGED <<handlers, socket, silent>>
             \/ WriteError(t[2])
       \/ /\ ~(Id(t[2]) = t[3] /\ io[t[2]].opened)
          /\ UNCHANGED connections
    /\ UNCHANGED <<pc, server, revents, custom_events, sessions>>

TimerCallback(t) == Skip(t) \/ Timeout(t) \/ websocket_heartbeat(t) \/ Sync(t)

-----------------------------------------------------------------------------
(* hloop_process_pendings: accepting, posted events *)

Processing(fd) == pc = "up" /\ due = {} /\ fd \in pendings

\* hio_get takes the hio_t of the descriptor, hio_ready makes it a new one.
hio_ready(fd) ==
    /\ last_id' = last_id + 1
    /\ io' = [io EXCEPT ![fd] = [id |-> last_id + 1, opened |-> TRUE, close |-> FALSE, queue |-> FALSE]]
    /\ revents' = [revents EXCEPT ![fd] = {}]

\* The keepalive timer, which a timeout of 0 deletes.
hio_set_keepalive_timeout(fd, id) == {<<"keepalive", fd, id>>}

\* The connection gets its keepalive timer and an HttpHandler.
on_accept(fd, id) ==
    /\ timers' = timers \cup hio_set_keepalive_timeout(fd, id)
    /\ protocol' = [protocol EXCEPT ![id] = "http"]

\* nio_accept takes one client from the backlog.
Accept(fd) ==
    /\ Processing(ListenFd) /\ waiting > 0
    /\ fd \in Fds /\ ~io[fd].opened
    /\ waiting' = waiting - 1
    /\ hio_ready(fd)
    /\ on_accept(fd, last_id + 1)
    /\ socket' = [socket EXCEPT ![last_id + 1] = "quiet"]
    /\ UNCHANGED <<pc, listening, pendings, due, custom_events, noPong, ctx, sessions, silent>>

\* ... until there is none.
AcceptDone ==
    /\ Processing(ListenFd) /\ waiting = 0
    /\ pendings' = pendings \ {ListenFd}
    /\ UNCHANGED <<pc, listening, waiting, last_id, revents, due, custom_events, sessions, connections>>

\* Mutant of AcceptError: the listening socket stays open.
AcceptErrorGoesOn ==
    /\ Processing(ListenFd) /\ waiting > 0
    /\ pendings' = pendings \ {ListenFd}
    /\ UNCHANGED <<pc, listening, waiting, last_id, revents, due, custom_events, sessions, connections>>

\* accept fails, for the client was gone again or no descriptor is left: the
\* listening socket itself is closed.
AcceptError ==
    /\ Processing(ListenFd) /\ waiting > 0
    /\ listening' = FALSE /\ waiting' = 0
    /\ pendings' = pendings \ {ListenFd}
    /\ UNCHANGED <<pc, last_id, revents, due, custom_events, sessions, connections>>

\* Mutant of hio_close_event_cb: the id is not compared.
hio_close_event_cb_any(ev) ==
    IF io[ev.fd].opened
    THEN hio_close(ev.fd, io[ev.fd].queue, socket[Id(ev.fd)])
    ELSE UNCHANGED connections

hio_close_event_cb(ev) ==
    IF Id(ev.fd) = ev.id /\ io[ev.fd].opened
    THEN hio_close(ev.fd, io[ev.fd].queue, socket[Id(ev.fd)])
    ELSE UNCHANGED connections

\* sockpair_read_cb runs the posted events.
CloseEvent ==
    /\ Processing(SockpairFd) /\ custom_events # <<>>
    /\ custom_events' = Tail(custom_events)
    /\ hio_close_event_cb(Head(custom_events))
    /\ UNCHANGED <<pc, server, revents, due, sessions>>

EventsDone ==
    /\ Processing(SockpairFd) /\ custom_events = <<>>
    /\ pendings' = pendings \ {SockpairFd}
    /\ UNCHANGED <<pc, listening, waiting, last_id, revents, due, custom_events, sessions, connections>>

-----------------------------------------------------------------------------
(* hloop_process_pendings: hio_handle_events of a connection.  Reading and writing of
   one polled event are two steps. *)

Handling(fd, e) == Processing(fd) /\ io[fd].opened /\ \E id \in Ids : <<e, id>> \in revents[fd]

Handled(fd, e) == revents' = [revents EXCEPT ![fd] = {x \in @ : x[1] # e}]

\* Nothing is left to do for the descriptor, or it was closed since the poll.
Done(fd) ==
    /\ Processing(fd)
    /\ ~io[fd].opened \/ revents[fd] = {}
    /\ pendings' = pendings \ {fd}
    /\ UNCHANGED <<pc, listening, waiting, last_id, revents, due, custom_events, sessions, connections>>

\* nio_write: the queue is sent in part or in whole; then a close that waits is done.
Write(fd) ==
    /\ fd \in Fds /\ Handling(fd, "write") /\ ~\E id \in Ids : <<"read", id>> \in revents[fd]
    /\ Handled(fd, "write")
    /\ \/ UNCHANGED connections
       \/ /\ io[fd].queue /\ ~io[fd].close
          /\ io' = [io EXCEPT ![fd].queue = FALSE]
          /\ UNCHANGED <<timers, handlers, socket, silent>>
       \/ io[fd].queue /\ io[fd].close /\ DoClose(fd)
       \/ io[fd].queue /\ socket[Id(fd)] = "reset" /\ DoClose(fd)
    /\ UNCHANGED <<pc, server, due, custom_events, sessions>>

\* nio_read finds the end of the stream, or an error.
ReadEnd(fd) ==
    /\ Handling(fd, "read") /\ Handled(fd, "read")
    /\ \/ socket[Id(fd)] = "eof" /\ hio_close(fd, io[fd].queue, "eof")
       \/ socket[Id(fd)] = "reset" /\ DoClose(fd)
    /\ UNCHANGED <<pc, server, due, custom_events, sessions>>

\* nio_read has read what the client sent: on_recv, which begins with the handler.
Reading(fd) ==
    /\ Handling(fd, "read") /\ Handled(fd, "read")
    /\ socket[Id(fd)] = "data"
    /\ UNCHANGED <<server, due>>

\* The bytes are taken out of the socket.
Taken(fd) == socket' = [socket EXCEPT ![Id(fd)] = "quiet"] /\ UNCHANGED silent

\* Not a request, not plain, or an upgrade to what is not supported; a frame that
\* the parser stops at.
Refuse(fd) ==
    /\ Reading(fd)
    /\ hio_close(fd, io[fd].queue, "quiet")
    /\ UsesHandler(fd)
    /\ UNCHANGED <<custom_events, sessions>>

\* A part of a request or of a frame, a frame or a method that is ignored.
Ignore(fd) ==
    /\ Reading(fd) /\ Taken(fd) /\ UsesHandler(fd)
    /\ UNCHANGED <<io, timers, handlers, custom_events, sessions>>

\* A request of the HTTP API or for a page, answered by the handler, which is asked for
\* more after each write; the connection is kept or closed behind the answer.  (So is an
\* upgrade to h2.)
Request(fd) ==
    /\ Reading(fd) /\ protocol[Id(fd)] # "websocket"
    /\ \/ /\ \/ Send(fd) /\ Taken(fd) /\ UNCHANGED handlers
             \/ WriteError(fd)
          /\ GoesOn(fd)
       \/ /\ \E q \in Written(fd) : hio_close(fd, q, "quiet")
          /\ UsesHandler(fd)
    /\ UNCHANGED <<custom_events, sessions>>

\* The timer that the WebSocket's onopen sets.
onopen(fd) == {<<"sync", fd, Id(fd)>>}

hio_set_heartbeat(fd, id) == {<<"heartbeat", fd, id>>}

\* The handler gets a WebSocketParser and a channel.
SwitchWebSocket(id) == protocol' = [protocol EXCEPT ![id] = "websocket"]

\* A request to switch to WebSocket: the answer, the handler, the timers, onopen.
Upgrade(fd) ==
    /\ Reading(fd) /\ protocol[Id(fd)] # "websocket"
    /\ \/ /\ \E q \in Written(fd) : io' = [io EXCEPT ![fd].queue = q]
          /\ Taken(fd)
          /\ SwitchWebSocket(Id(fd))
          /\ timers' = (timers \ hio_set_keepalive_timeout(fd, Id(fd)))
                       \cup hio_set_heartbeat(fd, Id(fd)) \cup onopen(fd)
          /\ ctx' = [ctx EXCEPT ![Id(fd)] = NoPlayer]
          /\ UNCHANGED noPong
       \/ WriteError(fd)
    /\ GoesOn(fd)
    /\ UNCHANGED <<custom_events, sessions>>

Frame(fd) == Reading(fd) /\ protocol[Id(fd)] = "websocket"

\* A close of the connection, with its id, is posted to the loop.
hio_close_async(fd) == custom_events' = Append(custom_events, [fd |-> fd, id |-> Id(fd)])

\* WS_OPCODE_CLOSE
CloseFrame(fd) ==
    /\ Frame(fd) /\ Taken(fd) /\ UsesHandler(fd)
    /\ hio_close_async(fd)
    /\ UNCHANGED <<io, timers, handlers, sessions>>

\* WS_OPCODE_PONG
Pong(fd) ==
    /\ Frame(fd) /\ Taken(fd) /\ UsesHandler(fd)
    /\ noPong' = [noPong EXCEPT ![Id(fd)] = FALSE]
    /\ UNCHANGED <<io, timers, protocol, ctx, custom_events, sessions>>

\* Frames that are answered without a change: WS_OPCODE_PING, get_player_position, get_map.
\* Behind the answer the parser, which is the handler's, goes on.
Answer(fd) ==
    /\ Frame(fd)
    /\ \/ Send(fd) /\ Taken(fd) /\ UNCHANGED handlers
       \/ WriteError(fd)
    /\ GoesOn(fd)
    /\ UNCHANGED <<custom_events, sessions>>

\* Mutant of SessionOf: a new player for every connection.
SessionOfEach(token) ==
    /\ players' = Append(players, FALSE)
    /\ m_mapSessions' = [k \in DOMAIN m_mapSessions \cup {token} |->
                            IF k = token THEN Len(players) + 1 ELSE m_mapSessions[k]]

\* The player of the token, created when it is not in m_mapSessions.
SessionOf(token) ==
    IF token \in DOMAIN m_mapSessions
    THEN UNCHANGED sessions
    ELSE /\ players' = Append(players, FALSE)
         /\ m_mapSessions' = [k \in DOMAIN m_mapSessions \cup {token} |->
                                 IF k = token THEN Len(players) + 1 ELSE m_mapSessions[k]]

\* set_session_token
SetSessionToken(fd, token) ==
    /\ Frame(fd)
    /\ SessionOf(token)
    /\ \/ /\ Send(fd) /\ Taken(fd)
          /\ ctx' = [ctx EXCEPT ![Id(fd)] = m_mapSessions'[token]]
          /\ UNCHANGED <<protocol, noPong>>
       \/ WriteError(fd)
    /\ GoesOn(fd)
    /\ UNCHANGED custom_events

\* player_move_to
PlayerMoveTo(fd) ==
    /\ Frame(fd) /\ Taken(fd) /\ UsesHandler(fd)
    /\ players' = IF ctx[Id(fd)] = NoPlayer THEN players ELSE [players EXCEPT ![ctx[Id(fd)]] = TRUE]
    /\ UNCHANGED <<io, timers, handlers, custom_events, m_mapSessions>>

\* A text that is not JSON or lacks a field: an exception no one catches.
BadMessage(fd) == Handling(fd, "read") /\ socket[Id(fd)] = "data" /\ protocol[Id(fd)] = "websocket" /\ Die

Read(fd) == \/ ReadEnd(fd) \/ Refuse(fd) \/ Ignore(fd) \/ Request(fd) \/ Upgrade(fd)
            \/ CloseFrame(fd) \/ Pong(fd) \/ Answer(fd) \/ PlayerMoveTo(fd) \/ BadMessage(fd)
            \/ \E token \in Tokens : SetSessionToken(fd, token)

IoCallback == \/ AcceptDone \/ AcceptError \/ CloseEvent \/ EventsDone
              \/ \E fd \in Fds : Accept(fd) \/ Done(fd) \/ Read(fd) \/ Write(fd)

-----------------------------------------------------------------------------
(* The clients *)

Connect ==
    /\ pc = "up" /\ listening /\ last_id + waiting < MaxId
    /\ waiting' = waiting + 1
    /\ UNCHANGED <<pc, listening, last_id, pendings, revents, due, custom_events, sessions, connections>>

\* A client that can still act.
Client(id) == pc = "up" /\ Open(id) /\ id \notin silent
              /\ UNCHANGED <<pc, server, revents, due, custom_events, sessions, io, timers, handlers>>

Sends(id) ==
    /\ Client(id) /\ socket[id] = "quiet"
    /\ socket' = [socket EXCEPT ![id] = "data"]
    /\ UNCHANGED silent

Finishes(id) ==
    /\ Client(id) /\ "eof" \in Ends /\ socket[id] = "quiet"
    /\ socket' = [socket EXCEPT ![id] = "eof"]
    /\ UNCHANGED silent

Resets(id) ==
    /\ Client(id) /\ "reset" \in Ends /\ socket[id] # "reset"
    /\ socket' = [socket EXCEPT ![id] = "reset"]
    /\ UNCHANGED silent

\* The client hangs or its network is cut.
FallsSilent(id) ==
    /\ Client(id) /\ "silent" \in Ends /\ socket[id] = "quiet"
    /\ silent' = silent \cup {id}
    /\ UNCHANGED socket

-----------------------------------------------------------------------------
Next == \/ Start \/ Crash \/ Connect
        \/ \E d \in DueSets : PollTimers(d) \/ \E w \in SUBSET Writable : PollIos(d, w)
        \/ \E t \in due : TimerCallback(t)
        \/ IoCallback
        \/ \E id \in Ids : Sends(id) \/ Finishes(id) \/ Resets(id) \/ FallsSilent(id)

Spec == Init /\ [][Next]_vars

Callback == (\E t \in due : TimerCallback(t)) \/ IoCallback

\* The loop runs its callbacks; it polls again and again, so that what is readable
\* is read; and time passes, so that every timer of an hio_t that stays active is due
\* some time.
IsDue(kind, fd) ==
    \E d \in DueSets :
        /\ \E id \in Ids : <<kind, fd, id>> \in d
        /\ PollTimers(d) \/ \E w \in SUBSET Writable : PollIos(d, w)

Fairness ==
    /\ WF_vars(Callback)
    /\ SF_vars(\E d \in DueSets : \E w \in SUBSET Writable : PollIos(d, w))
    /\ \A kind \in {"keepalive", "close", "heartbeat", "sync"}, fd \in Fds : SF_vars(IsDue(kind, fd))

LiveSpec == Spec /\ Fairness

-----------------------------------------------------------------------------
(* Properties *)

\* Every variable has its type.
TypeOK ==
    /\ pc \in {"down", "up", "undefined"} /\ listening \in BOOLEAN
    /\ waiting \in 0..MaxId /\ last_id \in 0..MaxId
    /\ io \in [Fds -> Hio]
    /\ revents \in [Fds -> SUBSET ({"read", "write"} \X Ids)]
    /\ timers \subseteq Timer /\ due \subseteq Timer
    /\ pendings \subseteq Fds \cup {ListenFd, SockpairFd}
    /\ custom_events \in Seq([fd : Fds, id : Ids])
    /\ protocol \in [Ids -> {"deleted", "http", "websocket"}]
    /\ noPong \in [Ids -> BOOLEAN]
    /\ \A id \in Ids : ctx[id] = NoContext \/ ctx[id] \in 0..Len(players)
    /\ players \in Seq(BOOLEAN)
    /\ DOMAIN m_mapSessions \subseteq Tokens
    /\ socket \in [Ids -> {"closed", "quiet", "data", "eof", "reset"}]
    /\ silent \subseteq Ids

\* A timer only knows the hio_t, which the next connection uses again.  So the active
\* timers are exactly those of the connections that are open: the keepalive before the
\* upgrade, the heartbeat and one sync interval after it, and the close timer
\* while a close waits for the write queue.
TimersExact ==
    pc = "up" =>
        timers = UNION {({"heartbeat", "sync", "keepalive", "close"} \
                            ((IF protocol[Id(fd)] = "websocket" THEN {"keepalive"}
                                                                ELSE {"heartbeat", "sync"})
                             \cup (IF io[fd].close THEN {} ELSE {"close"}))) \X {fd} \X {Id(fd)}
                        : fd \in {f \in Fds : io[f].opened}}

\* An event that was polled for one connection is never taken for an event of the
\* next connection on the same descriptor, although both can be of one round.
NoStaleEvents ==
    \A fd \in Fds : io[fd].opened => \A e \in revents[fd] : e[2] = Id(fd)

\* A connection has its handler as long as it is open and its context from onopen to
\* onclose: no message is handled without a context, and none is left behind.
ContextWhileOpen ==
    \A id \in Ids : /\ protocol[id] # "deleted" <=> Open(id)
                    /\ ctx[id] # NoContext <=> protocol[id] = "websocket"

\* Everything that belongs to a connection lives exactly as long as it: the parts above.
NothingLeftBehind == TypeOK /\ TimersExact /\ NoStaleEvents /\ ContextWhileOpen

\* No callback begins on a connection whose handler is deleted: neither a timer that is due
\* in the round in which another callback closes its connection, nor an event that was
\* polled before.  A deleted handler is used only below a write that fails, which
\* closes the connection under the callback, and only if the client has reset it.
HandlerUsedWhileAlive ==
    [][pc = "up" /\ pc' = "undefined"
       => \E fd \in Fds : /\ HasHandler(fd) /\ io[fd].opened /\ ~io'[fd].opened
                          /\ ~io[fd].queue /\ Broken(Id(fd))]_vars

\* The posted close of a CLOSE frame touches the connection that received the
\* frame and no later one on the same descriptor.
AsyncCloseHitsItsOwn ==
    [][pc' = "up" /\ custom_events # <<>> /\ custom_events' = Tail(custom_events)
       => \A fd \in Fds : io'[fd] # io[fd] => Id(fd) = Head(custom_events).id]_vars

\* A player that was moved is still moved for its token after the connections
\* of the token are closed, for as long as the process lives.
MovesKept ==
    [][pc = "up" /\ pc' = "up"
       => \A k \in DOMAIN m_mapSessions :
              /\ k \in DOMAIN m_mapSessions'
              /\ players[m_mapSessions[k]] => players'[m_mapSessions'[k]]]_vars

\* A client that hangs does not keep its connection: the keepalive timer, or two heartbeats
\* and at last the close timer, close it; and a close that was asked for by a CLOSE
\* frame, or that waits for the write queue, is done, whatever the client reads.
ConnectionsEnd ==
    \A id \in Ids :
        (\/ id \in silent
         \/ \E i \in DOMAIN custom_events : custom_events[i].id = id
         \/ \E fd \in Fds : io[fd].opened /\ io[fd].close /\ Id(fd) = id) ~> ~Open(id) \/ pc = "undefined"

\* A client in the backlog is accepted, unless accept fails, which ends the listening.
ClientsServed == waiting > 0 ~> waiting = 0 \/ pc = "undefined"

=============================================================================

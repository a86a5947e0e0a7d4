# A TLA+ model of web-diff-files-tree

web-diff-files-tree is a small C++ server. Clients upload the list of files of
a product version (`POST /api/add/`); the server keeps the files as a tree in
MySQL, compares two versions (`POST /api/diff/`), and stores comments on files.
This directory holds TLA+ modules translated from its source, the TLC
configurations that check them, and proofs checked by TLAPS.

## The system

| part | state | operations | module |
|---|---|---|---|
| start-up (`main.cpp`, `webdiff_server.cpp`) | none | upgrade, loadCache, serve, in this order | in `Upgrade`, `Storage` |
| migrations (`mysql_storage_updates.cpp`) | schema, rows of `webdiff_db_updates` | `upgrade`, nine `apply`, `lastDatabaseVersion`, `insertUpdateInfo` | `Upgrade` |
| upload (`httpApiAdd`, `MySqlStorage::addFile`, find-or-create functions) | four tables, four caches | `loadCache`, one request with its loops over files and path segments | `Storage`, abstract: `FileTree` |
| path normalisation (`WsjcppCore::doNormalizePath`, `split`) | none | pure functions | `NormalizePath` |
| diff (`httpApiDiff`, `getDiff`, `models_diff.cpp`) | the answer under construction | two SELECTs, search for parents, search for comments | `Diff` |
| comments (`httpApiCommentAdd`, `httpApiCommentHide`) | `webdiff_define_files_comments` | add, hide | `Diff` |
| reading handlers (`/api/versions-all/`, `/api/groups/`, `/api/files/`) and `browser.html` | the page: items to open, opened, shown | SELECTs and cached lists, level by level | `Browse`, on top of `Storage` |
| connections (`getConnection`, `connect`) | a connection per thread, connections to remove | connect, reconnect after an hour | `Connections` |
| configuration (constructor of `MySqlStorage`) | host, port, name, user, password | read once | the port, in `Connections` |
| quoting (`prepareStringValue`) | none | pure function, INSERT, reload | `Quoting` |
| WebSocket server (`webdiff_ws_server.cpp`) | contexts, timers, sessions, players | open, message, close, timer | `WsServer` |
| libhv: loop and connections (`hloop.c`, `hevent.c`, `nio.c`, `HttpServer.cpp`) | hio_t per descriptor, timers, pending events, posted events | poll, accept, read, write, close, timers | `WsServer` |
| libhv: write queue (`nio.c`) | the queue of one connection | hio_write, write event, hio_close, close timer | `WriteQueue`, abstract: `ByteStream` |
| libhv: requests (`http_parser.c`, `Http1Parser`, `HttpHandler`) | parser, request under construction | one read at a time | `HttpRequests` |
| libhv: WebSocket framing (`websocket_parser.c`, `WebSocketParser`, `WebSocketChannel`) | parser, message under construction | send, one read at a time | `WsFrames` |
| libhv: pages (`FileCache.cpp`, static handler) | cached files | open, read, answer, expire | `StaticFiles` |

How they interact: `main` runs `upgrade`, then `loadCache`, then the event loop
of libhv. libhv is started with its defaults, one worker thread, which is the
main thread: handlers do not overlap, although the source has "TODO mutex" where
they would have to be protected. The loop polls the descriptors and the timers and
runs a callback for each; a read goes through the request parser or the frame parser
to a handler, an answer through the write queue. The handlers call `MySqlStorage`,
which answers from its caches where it can and sends SQL through the connection of
the thread where it must.

What is hard:

* **Failure.** There are no transactions; every statement commits by itself. An
  SQL error goes to `throw_err`, a JSON field that is missing makes the
  conversion throw, and nothing catches either: the process ends,
  `docker-compose.yml` starts it again, and the caches are rebuilt from whatever
  the statements before had stored.
* **Two copies.** The caches decide whether a row is inserted, and no table has a
  UNIQUE key. A difference between cache and table becomes a duplicate row.
* **Ids threaded through loops.** `addFile` carries two ids from segment to
  segment, each from a cache or from an INSERT.
* **A loop over a stack that its body pushes to** (`getDiff`).
* **DDL that commits by itself** and cannot be tried a second time (`upgrade`).
* **Clocks.** The order of updates and the age of a connection are read from clocks
  that may stand still or be set back.
* **Objects that are used again.** An `hio_t` outlives its connection and serves the
  next one on the same descriptor; timers, polled events and posted closes refer to the
  `hio_t`, and callbacks close connections below callers that go on.
* **Streams cut anywhere.** Requests, frames and answers pass through reads and writes
  of any length.
* **Pages and levels read at different times.** The page cache looks at a file in three
  steps, the browser at the tree in as many as it has levels.

## Modules

### Storage

The tables are sequences (the AUTO_INCREMENT id of a row is its position), the
caches are sets of rows and maps, `h` holds the local variables of the running
`httpApiAdd` and of the functions it calls, and `pc` says where it is.

| action | code |
|---|---|
| `LoadCache` | `loadCache` with its four SELECTs (`getApiVersionsAll`, `getGroupsAll`, `getDefineFilesCache`, `loadFilesIds`) |
| `Receive` | `httpApiAdd` up to the JSON fields; 400 for another content type |
| `FindVersion`, `FindGroup` | `findVersionOrCreate`, `findGroupOrCreate` |
| `NextFile`, `ThrowOnEntry`, `FilesDone` | the loop over `files`: an entry is read, cannot be read, or there is none left |
| `FindDefineFile`, `PathDone` | the loop of `addFile`, `findDefineFileIdOrCreate` |
| `FindFile`, `InsertFile` | `findFileOrCreate`: a hit in the cache, or the INSERT of `insertFile` |
| `CountChildren`, `UpdateParent` | the SELECT COUNT and the UPDATE of `insertFile`, then the cache |
| `Reply` | the return of the handler |
| `Crash` | an SQL error or the end of the process between two statements |

One action is one SQL statement together with the memory operations that
surround it. A statement that took effect and whose answer was lost is the action
followed by `Crash`. A request whose `version` or `group` cannot be read dies
before its first statement, which is `Receive` followed by `Crash`.

Abstractions: names are opaque values; a path is the sequence of its segments;
size, mode and date of an entry are read and not used by the code, and left out.
AUTO_INCREMENT may skip numbers in MySQL; nothing in the code depends on ids
being dense. A value too long for its column is an SQL error, that is, `Crash`.
`Segments` is a parameter, so what is proved holds for any normalisation; the
runs give it `SplitSegments` of module `NormalizePath`.

`acked` and `interrupted` are history variables: the requests answered with 200,
and the rows whose child count a crash inside `insertFile` left behind.

### FileTree

The promise of the upload side without ids, caches, SQL and crashes: a set of
nodes (version, group, path) that grows one node at a time below a parent that is
there, and uploads that are acknowledged only when all their nodes are there.
`Storage` implements it with the set `Stored` of nodes its rows stand for
(`ImplementsFileTree`).

### NormalizePath

`doNormalizePath` and `split` on paths as sequences of the names between
slashes, the form the first loop of `doNormalizePath` produces.

### Diff

`getDiff` on a database that does not change under it. The constant `Databases`
is assumed to be well formed in the sense that `Storage` guarantees
(`WellFormed`: distinct paths, distinct keys, parents of the same version and
group); a database brings the comments it has. One action is one row of a SELECT, in
any order since the queries have no ORDER BY, one turn of the loop over the stack of
parents, or one call of `getComments`. Comments are added and hidden between diffs.

### Upgrade

The schema is a set of tables and columns, an update is a sequence of statements
that need, add and drop such things, and a statement that adds what is there
fails. The database may start at any earlier version. `now` is the clock of the
database, which may stand still for several updates (`dt` has seconds) and may be
set back (`SetBack`), after which `lastDatabaseVersion` can read an older row as the
last one (`Misread`).

### Browse

Extends `Storage` with a page: `Load`, `ExpandVersion`, `ExpandFiles` and `Collapse` are
the clicks of `browser.html` together with the handler each one calls
(`getVersionsAll`, `getGroups`, `getFiles`). Uploads, crashes and reloads go on between any two
clicks, and the page keeps the ids it was given. `/api/groups-all/` copies a cache like
`/api/versions-all/` and the page does not ask for it.

### Connections

`getConnection` for several threads, one action per branch: `Keep`, `Open`, `OpenFails`,
`Reopen`, `ReopenFails`; the callers' statements (`Query`, `QueryFails`) and returns; time that
passes, and a wall clock that may be set back while MySQL's idle time goes on. The server as it is started
has one thread; the function takes a mutex and is written for several. `Construct`
gives `m_nDatabasePort` any value when the environment sets the port, because the
constructor does not assign it.

### Quoting

`prepareStringValue` character by character, the statement as the C string `mysql_query` takes,
MySQL's reading of the literals (external), and the C string a column comes
back as after a restart. Characters are the classes any of these readers tells apart. It is
used by INSTANCE.

### WsServer

The loop of libhv with its `hio_t`s, timers, pending and posted events, the callbacks
of `HttpServer` on them and the WebSocket service. `PollIos` and `PollTimers` are the two halves of a
poll; each callback is one action, because nothing else runs in the process; clients act in between.

| actions | code |
|---|---|
| `PollIos`, `PollTimers` | `hloop_process_events` |
| `Skip`, `Timeout`, `websocket_heartbeat`, `Sync` | the callbacks of timers |
| `Accept`, `AcceptDone`, `AcceptError` | `nio_accept`, `on_accept` |
| `CloseEvent`, `EventsDone` | `sockpair_read_cb`, `hio_close_event_cb` |
| `Write`, `ReadEnd`, `Refuse`, `Ignore`, `Request`, `Upgrade` | `nio_write`, `nio_read`, `on_recv` |
| `CloseFrame`, `Pong`, `Answer`, `SetSessionToken`, `PlayerMoveTo`, `BadMessage` | frames and the messages of `WebdiffWsServer` |

One read event brings one request or one frame, or a part of one. A client may reset its connection
between the read of its bytes and the write that answers them (`Broken`); `hio_write` then closes the connection
below the callback (`WriteError`). Every callback that takes the `HttpHandler` from the `hio_t` says so: `UsesHandler` if it
only needs it at its beginning, `GoesOn` if it uses it again behind its writes. A handler that is deleted then
is undefined behaviour, and the model stops with `pc = "undefined"`.

### WriteQueue and ByteStream

`hio_write`, the write event, `hio_close` and its timer for one connection, with numbered bytes
and a kernel that takes any part of a write. `ByteStream` is the promise: the peer gets a prefix of what
was given to `hio_write`, and only a reset or the close timer cuts it short. `StreamSpec` is the
refinement.

### HttpRequests

The states of `http_parser` that requests reach, with the callbacks of `Http1Parser`, `FeedRecvData` and `on_recv`.
A character is its class and its place in a text; the client writes requests of every
form the parser tells apart, well formed and not, and reads end anywhere.

### WsFrames

Fragmenting and building of frames and the parser at the other end, exact to the byte of
the headers. Payloads are places in the stream, so that a length of 65,536 is no more
states than one of 5.

### StaticFiles

One page: `stat`, `open` and `read` of `FileCache::Open` are separate steps, because whoever
edits the page does not wait for them; the sweep of expired entries; and a browser that sends
`If-Modified-Since`.

### MC modules

`MCStorage`, `MCBrowse`, `MCDiff`, `MCUpgrade`, `MCConnections` and `MCWsServer` give one
specification its constants. `MCStreams` (write queue, requests, frames) and `MCFiles` (path
strings, quoting, pages) each put three specifications that do not interact into
one run: the variable `part` says which one a behaviour is about, and the others stand still. The
reference for path normalisation (`Resolve`) is in `MCFiles`.

## Runs

| run | states | checks | shows |
|---|---|---|---|
| `upload` | 319,453 | `TypeOK`, `NoDuplicateRows`, `CacheMirrorsTables`, `HandlerRows`, `TreeConsistent`, `AckedStored`, `ChildCounts`, `RowsOnlyGrow`, `ImplementsFileTree`, `RequestEnds` | the upload path is right under crashes at every point and repeated requests; a request is answered unless the process dies |
| `upload_browse` | | `AckedDirectoriesBrowsable`, **violated** | finding 1 |
| `browse` | 633,342 | `ShownTruly`, `WalkComplete` | a page read level by level during uploads and crashes names every row rightly, and shows what was acknowledged before, but for finding 1 |
| `diff` | 223,308 | `TypeOK`, `DiffExact`, `EachFileOnce`, `DirectParents`, `CommentsExact`, `DiffEnds` | the answer of a diff against set difference; visible comments of the files in the answer and no others |
| `diff_ancestors` | | `AncestorsPresent`, **violated** | finding 2 |
| `upgrade` | 165,706 | `TypeOK`, `ServesFullSchema`, `UpdatesInOrder`, `ServesUnlessCutShort` | updates in order, once, from every earlier version, with two crashes and a clock set back once |
| `upgrade_stuck` | | `EventuallyServes`, **violated** | finding 3 |
| `connections` | 652,923 | `NeverGoneAway`, `ConnectionsAccounted`, `ServerConnectionsBounded` | no statement on a connection MySQL has dropped, each thread on its own last connection, none lost, a bounded number on the server |
| `ws_server` | 22,785 | `HandlerUsedWhileAlive`, `AsyncCloseHitsItsOwn`, `MovesKept`, `ConnectionsEnd`, `ClientsServed` | what one connection leaves behind never acts on the next on its descriptor; no callback begins on a deleted handler; hanging clients are closed, waiting ones accepted |
| `ws_server_two` | 507,736 | `NothingLeftBehind` | timers, events and contexts are exactly those of the open connections |
| `streams` | 228,083 | `RequestsHandled`, `ParsedAsSent`, `StreamSpec`, `Delivered` | the write queue is a byte stream; requests and messages are handled once, in order and as sent, however they are cut |
| `files` | 3,994,775 | `ResolvesPath`, `StoredPathIsStable`, `StoredVerbatim`, `PlainPathsCached`, `FreshAnswers` | paths resolve, names survive quoting, settled pages are answered as they are on disk |

Bounds, and why they are enough:

* `upload`: three requests that clients may send any number of times: one with
  nested and sharing paths and a path without segments, one to another version
  and group whose path normalises into the same directory and which then has an
  entry that cannot be read, and one that is not JSON. Tables are bounded by what the
  requests ask for. Crashes are not bounded. Hits and misses of every cache,
  shared prefixes, retries after a partial upload and reloads all occur.
* `browse`: two uploads to one group that share a directory but not the version, so that only ids
  keep their rows apart; clicks and crashes are not bounded.
* `diff`: all pairs of forests over `/a`, `/a/b`, `/a/c`, `/a/b/d` in one group,
  with `/a` present or absent in another, and a database with a visible and a hidden
  comment; version id 3 and the commented id 9 do not exist. `diff_ancestors` uses
  databases with changes at different depths.
* `upgrade`: two crashes (`MaxCrashes`) can cut one update twice or two updates;
  three clock values (`MaxTime`) allow ties and distinct times, and one set back
  (`MaxBacks`) already makes an older row the last. More of any repeats these cases.
* `connections`: two threads; instants on both sides of the hour, of the second after it (the
  age is cut to seconds) and of two and three hours; a clock set back by an hour; a `wait_timeout` that
  is just enough (`WaitTimeoutAssumption`), where MySQL's default is eight hours;
  at most two failed reconnects (`MaxQueued`).
* `ws_server`: two connections one after the other on one descriptor (`MaxId`), up to two
  timers due in one round, so that one callback can delete the timer of the other. `ws_server_two`:
  two descriptors, so that two connections are open together or follow one another.
* `streams`: seven bytes in messages of one and three bytes fill, split and drain the queue; two requests on a
  connection, the second of which meets what the first left; frame lengths on both sides of 126 and 65,536 and
  fragments of every length modulo the four bytes of a mask. Reads of frames end in or next to
  a header, where the parser's state changes, or a few bytes into a payload.
* `files`: names `a`, `b`, ``, `.`, `..`, five of them (`MaxNames`), since the filtering loop
  looks at one kept name and at the ends; names of two characters of thirteen classes, so that an escape can meet
  every neighbour, in two rows; three saves of a page in seven seconds with an interval of one
  and an expiry of two, where all orders of save, stat, read and expiry occur.

Deadlock is not checked in `upgrade`, which ends when the server serves, nor in `streams` and `files`,
where streams, strings and time come to an end.

Fairness:

* `WF_vars(Step)` in `Storage` and `Diff`, since the handler runs on the only thread and waits
  for nothing but MySQL, whose failure is a crash; nothing is assumed about clients, crashes or
  restarts. In `Upgrade` the start of the process is in `Step` too, because
  `docker-compose.yml` has `restart: always`.
* `WsServer`: weak fairness of the callbacks (`hloop_process_pendings` runs all of them), strong
  fairness of polling the descriptors (every round polls, but rounds are interrupted by
  callbacks) and of each kind of timer of each `hio_t` (time passes, so a timer that stays active is
  due again and again). Nothing is assumed about clients.
* `WriteQueue`: weak fairness of the write events that send something (`Sending`): the poll reports the socket
  for as long as it has room and `HV_WRITE` is set. Nothing is assumed about the peer.

## Findings

1. **A directory that cannot be opened** (`upload_browse`). `insertFile` inserts a
   row, then counts and updates its parent. If the process ends after the INSERT,
   the retried upload finds the row in the reloaded cache and never updates the
   parent. The upload is answered with 200, the files are stored, and the
   directory has `amount_of_children = 0`, which `browser.html` shows as a file.
   `ChildCounts` states how far this goes: only parents of rows cut off in this
   way, the number is never too large, and the next new child repairs it.
2. **The search for parents stops after one level** (`diff_ancestors`).
   `findAndAddFile` pushes the id of the row it has just read instead of its
   `parent_id`. The direct parent of a change is in the answer (`DirectParents`),
   the directories above it are not unless they changed too, and `index.html`,
   which draws downwards from `id0`, does not reach the change.
3. **A migration that is cut short blocks every later start** (`upgrade_stuck`).
   DDL commits by itself, the update is recorded afterwards, and no statement is
   conditional. `ServesUnlessCutShort` and `UpdatesInOrder` state what does hold:
   crashes between updates are harmless and no update is skipped or done twice.

## Deviations

Places where the code does not do what one would expect and no document, comment or
test says otherwise. The properties that pass state how far each one goes.

* `mysql_storage.cpp:31`: the number parsed from `WEBDIFF_DB_PORT`, which
  `docker-compose.yml:28` sets, is dropped and `m_nDatabasePort` is never assigned. `Construct` of
  `Connections` gives it any value; with a wrong one every `connect` fails.
* `mysql_storage.cpp:84`: connections that are replaced are never closed. `ServerConnectionsBounded` says
  how many MySQL keeps: those of the last `wait_timeout`.
* `mysql_storage_connection.cpp:148`: a column is read as a C string. A name with a NUL byte is stored whole
  (`StoredVerbatim`) and cut when the cache is loaded, so it is inserted again after a
  restart; `PlainPathsCached` excludes it.
* `mysql_storage_connection.cpp:84`: with a clock set back, an older update can be read as the last one and later
  updates are tried again, which fails at the first statement (`Misread` in `ServesUnlessCutShort`).
* `nio.c:188`: an error of `accept` closes the listening socket; the process goes on and takes
  no more clients (`AcceptError`). `ClientsServed` is about the clients in the backlog of a socket that listens.
* `HttpServer.cpp:114`: a read that holds the end of one request and the beginning of the next is parsed
  as one (`mixed` in `RequestsHandled`). A client that waits for each answer is not affected.
* `http_parser.c:1399`: the first character of a value may be a control character; behind it, and in the request line
  and in names, such a character is refused (`"control"` and `bad` of `HttpRequests`).
* `Http1Parser.h:39`: the name of a header without value is joined with the next name (`StoredName`).
* `HttpServer.cpp:91`: a first read that is shorter than a request line closes the connection
  (`p = 0` in `AnsweredWhenRead`).
* `HttpHandler.cpp`, `HttpServer.cpp`: a write that fails closes the connection and deletes the handler below the callback
  that uses it and goes on with it (`HttpServer.cpp:48`, `62`, `202-219`, the frames of `webdiff_ws_server.cpp`);
  `HandlerUsedWhileAlive` says that this needs a client that resets the connection, and that a deleted handler is
  met in no other way.
* `FileCache.cpp:20`: a change of the page is noticed once. When the request that notices it is a HEAD or
  Range request, or finds the page gone or shorter, later ones can be answered from the old buffer
  (`missed` in `FreshAnswers`), until the page is saved again or its entry expires.

## Proofs

Each theorem holds for every value of the constants that satisfies the named assumptions, with no bound on
crashes, threads, descriptors, rows or bytes beyond the constants themselves. TLC evaluates the
assumptions on the instances of the runs, and has checked each inductive invariant below on the instance of
its component's run before it was proved.

| module | theorem | statement |
|---|---|---|
| `StorageProofs` | `TypeCorrect` | `Spec => []TypeOK` |
| | `UniqueRows` | `Spec => []NoDuplicateRows` |
| | `CachesExact` | `Spec => []CacheMirrorsTables` |
| | `IdsExact` | `Spec => []HandlerRows` |
| | `ParentsSpellPaths` | `Spec => []TreeConsistent` |
| | `CountsBounded` | `Spec => []ChildCounts` |
| | `TablesGrow` | `Spec => RowsOnlyGrow` |
| | `AcknowledgedStored` | `Spec => []AckedStored` |
| | `StorageImplementsFileTree` | `Spec => ImplementsFileTree` |
| `DiffProofs` | `DiffTypes` | `Spec => []TypeOK` |
| | `DiffIsExact` | `Spec => []DiffExact` |
| | `FilesOnce` | `Spec => []EachFileOnce` |
| | `ParentsDirect` | `Spec => []DirectParents` |
| | `CommentsAreExact` | `Spec => []CommentsExact` |
| `UpgradeProofs` | `UpgradeTypes` | `Spec => []TypeOK` |
| | `UpgradesInOrder` | `Spec => []UpdatesInOrder` |
| | `ServesWithFullSchema` | `Spec => []ServesFullSchema` |
| `ConnectionsProofs` | `ConnectionsAreAccounted` | `Spec => []ConnectionsAccounted` |
| | `NoneGoneAway` | `Spec => []NeverGoneAway` |
| | `ConnectionsBounded` | `Spec => []ServerConnectionsBounded` |
| `WsServerProofs` | `NothingIsLeftBehind` | `Spec => []NothingLeftBehind` |
| | `HandlersUsedAlive` | `Spec => HandlerUsedWhileAlive` |
| | `AsyncClosesHitTheirOwn` | `Spec => AsyncCloseHitsItsOwn` |
| | `MovesAreKept` | `Spec => MovesKept` |
| `WriteQueueProofs` | `QueueIsStream` | `QueueSpec => StreamSpec` |
| `BrowseProofs` | `ShownIsTrue` | `BrowseSpec => []ShownTruly` |
| | `WalkIsComplete` | `BrowseSpec => []WalkComplete` |
| `FilesProofs` | `AnswersAreFresh` | `Spec => FreshAnswers` (`StaticFiles`) |
| | `NamesAreStored` | `AllSpec => []StoredVerbatim` |
| | `PlainPathsAreCached` | `AllSpec => []PlainPathsCached` |
| | `PathsResolve` | `AllSpec => []ResolvesPath` |
| | `StoredPathsAreStable` | `AllSpec => []StoredPathIsStable` |

**Storage.** Assumptions: `SegmentsAssumption` (segments are sequences of names),
`MalformedAssumption` and `RequestsAssumption` (a request has the fields the
handler reads). None of the first four properties is inductive alone. Distinct rows
need complete caches: an INSERT happens after a miss, and a miss says something
about the table only if every row is cached. Complete caches need the ids of the
handler: `UpdateParent` caches `nFileId` under the key of the locals, which must be
the key of the row `InsertFile` added. The ids need the caches, since most come from
there. And the type of a reloaded cache needs distinct rows, because only then is the id a
reload keeps determined. `RowsInv` is the conjunction of the four and is inductive
(`RowsInductive`): one lemma per part, one case per action in each.

`TreeConsistent` is then inductive relative to `RowsInv`: a new define row gets the
define row of the prefix as parent, and a new file row gets the row of that prefix in
the same version and group, where distinct paths identify the two. `ChildCounts` needs in addition that a new row has no children,
which follows from the tree, and that the number `insertFile` holds between its SELECT and its UPDATE is
current (`CountFresh`); `RowsOnlyGrow` follows from both.

`AckedStored` is about the past, so the invariant (`AckInv`) says what the running request has done so far
(`WorkStored`): the nodes of the files before the current one and of the prefixes of the path at hand are stored. That they stay stored
is `RowsKept`: a row keeps its node, because the rows it refers to are never rewritten. The refinement has the same shape: each INSERT into
`webdiff_files` adds one node whose parent node is there, by the tree; everything else, crashes included, leaves the
set of nodes alone.

**Diff.** Assumptions: `DatabasesAssumption` (`WellFormed`: what is proved of `Storage`) and `IdsAssumption`. `DiffInv` relates the
answer under construction to the rows: every entry is made from a row (`EntriesFromRows`), no row makes two
(`OneEntryEach`), the rows already fetched have their entry (`RowsFetched`), entries without a state are
above ones with a state (`AboveChanged`), the parents that are missing are on the stack (`ParentsFound`, `StackKnown`), and
comments are read for the define ids listed (`DefinesListed`, `CommentsRead`). `DiffExact` compares numbers, so
its proof (`SideExact`) is a bijection between entries, rows and paths. The order of the rows is arbitrary throughout.

**Upgrade.** Assumption: `BoundsAssumption` (the bounds are numbers). The schema at a version is a recursion over the
statements; that it is well defined and what it contains is proved by induction over sets of numbers
(`AllNumbers`, from the well-foundedness of `<`). The core is that an update that is done, or was cut short after its
first statement, fails at its first statement when it is tried again (`Blocked`, `CutShortBlocked`): the first statement of each adds
something that is not there yet, or drops a column for good. Hence a misread version or a restart can block the
upgrade (finding 3) but cannot repeat or skip an update.

**Connections.** Assumptions: `TimesAssumption`, `PortsAssumption`, and `WaitTimeoutAssumption`: an hour, the longest pause of a caller and the
largest set back of the clock fit into `wait_timeout`. `ConnInv` says that the map holds the last connection of each
thread, that pointers in use are recent, that queued connections are outdated, and that
consecutive connections of a thread were opened at least an hour apart (`Spaced`). The bound follows by an injection from the connections MySQL
still holds into the hours of the `wait_timeout`.

**WsServer.** Assumptions: descriptors are distinct, bounds positive, ends known. `WsInv`: ids are handed out once
(`IdsDistinct`), a timer is active if and only if its connection wants it (`TimersWanted`), a
handler and a context exist while the connection is open (`ContextWhileOpen`), pending events belong to the connection their `hio_t`
serves (`NoStaleEvents`), and sessions point to players that exist (`SessionInv`). All callbacks end in `hio_close` or leave the
connection open, so the lemmas about closing carry most cases; an accept on a descriptor that was used before, and posted closes, are where `IdsDistinct` is needed.
That no callback begins without its handler (`HandlersUsedAlive`) follows from it: a timer that runs is active, so its connection
is open, and an open connection has its handler; what remains is the write that fails.

**WriteQueue.** Assumption: `SizesAssumption`. `QueueInv`: the peer has received the bytes `1..r`, and while the connection is open there
are numbers `e[0] = r < e[1] < ... = accepted` such that buffer `i` still has to send the bytes behind `e[i - 1]` up to `e[i]`;
a close waits only while something is queued, and the timer only while a close waits. What `nio_write` sends is then one run of bytes
(`FlattenRuns`, `SentBytes`) and what it leaves satisfies the same condition (`LeftQueued`). Every action is one step of `ByteStream`, or none.

**Browse.** Assumptions: those of `Storage`. The page asks for a level at a time while uploads, crashes and restarts go on, so what it
shows is compared with tables that have changed since. `PageInv` holds next to `AckInv`: an item carries the ids of the row whose node it
stands for (`ItemsTrue`), and rows keep their nodes (`RowsKept`), so an id the page remembers never comes to mean something else; every
row it shows is a row of the tables with that node (`RowsTrue`); what it has below an item it has while the item is open, and no row is
shown twice (`Nested`), because distinct rows have distinct nodes; `BeganTrue` and `ListedTrue` bound the amounts of the groups by what was acknowledged when the page was
loaded and what is stored. For `WalkComplete` the page also remembers what was acknowledged when it began: each such node is shown, or
is below an item that is still closed, or below a row whose count of children a crash has left at zero
(`BeganCovered`). When nothing is left to open, only the first and the last are possible.

**StaticFiles.** Assumptions: `TimesAssumption` (the intervals are numbers and the entry expires after the interval between two comparisons),
`SizesAssumption`, `NoneAssumption` (`None` is no number, file, entry or copy). `CacheInv` follows a page from the disk to the browser: the times
seen anywhere are not later than that of the page on disk (`SeenEarlier`); an entry compared since the last save has the `stat` of the page
(`StatTrue`); the entry of the running request was compared within the interval, and the file it has open is the page on disk as long as that has
the time of the entry (`RequestTrue`); a complete buffer with the time of the page has its content (`BufferTrue`), and so has the copy in the browser
(`CopyTrue`), unless the page was saved twice in a second or a request noticed the change and did not read it (`twice`, `missed`). `DiskTrue` is
for the empty page, whose buffer is complete without being read. The property is then about one step of `Answer`.

**Names.** Assumption: `BoundsAssumption`. `MCNames` has all names up to `MaxLength`, and `MaxLength` is arbitrary. The value of a literal
is defined by recursion over the text, which the prover cannot unfold as it stands; `RecursionExists` shows once that a
function with such equations exists, and `LiteralReads`, `FlattenPlaces` give the equations of `Literal` and
the places of the characters in `prepareStringValue`. A character is written as itself or as a backslash and a letter that MySQL reads as it
(`EscapedForms`, `CharRead`); by induction from the closing quote the literal has the name as value
(`LiteralValue`), so the statement yields the row (`StatementRead`). `NameInv` adds what a restart needs: as long as no name
has a NUL, no name is inserted twice, because the cache has the paths of all rows.

**Paths.** No assumption: `PathNames` may be any set. `doNormalizePath` reads from the left and looks at the last name it kept; `Resolve` reads from the
right and counts the `..`. `Together` puts what the left side has kept (`u` times `..` and ordinary names `S`) before what the right side has
read, and does not change when a name passes from right to left (`TogetherTurn`). What `doNormalizePath` keeps has one of three forms
(`Shape`): behind a leading `.`, behind an empty name as long as `u = 0`, or alone; an empty last name is kept behind it, and addFile
skips both empty names (`WalkShape`). A stored path has only `..` in front and ordinary names, which resolve to themselves (`StoredResolves`).

Only model-checked:

* the liveness properties (`RequestEnds`, `DiffEnds`, `ServesUnlessCutShort`, `ConnectionsEnd`, `ClientsServed`, `Delivered`), which are out of
  the prover's reach;
* `ParsedAsSent` and `RequestsHandled`: the invariants of two parsers relate every state of the parser to a
  position in what was sent, with folds and powers of 256 or a recursion over the text, for which the provers have no facts;
* that nothing deadlocks in the runs that check it.

## Not modelled

Of the 89,133 lines in the repository, 51,652 are two copies of nlohmann json, a pure library of which the
handlers see a value or an exception; both are cases of `Storage`, `Diff` and `WsServer`. Most of the rest is
libhv as it is vendored: KCP, SSL, the HTTP client, pollers other than epoll, and
utilities that this server does not compile in or does not call, or that keep no state. They are left out, as are the text
of the HTML pages, `index.html` (which draws an answer) and the example uploader, whose requests are among
those of `Storage`. The parts of the server itself, and the parts of libhv its requests pass through, are modelled.

Within the modelled parts:

* the order in which lists are sorted, logging, the JSON layout of answers, the 400 answers of
  the diff and comment handlers, the memory that `httpApiAdd` never frees, rows that exist
  while an update adds a column to their table;
* a connection to MySQL that is lost while the rows of a SELECT are fetched, which ends the list early;
* in `WsServer`, several requests or frames in one read (`HttpRequests` and `WsFrames` have them), and directories, several
  workers and HTTP/2;
* in `HttpRequests`, the limit of 80 KB on headers, lists of tokens in `Connection`, requests for an upgrade (in
  `WsServer`), responses, and URLs, which stay opaque;
* in `StaticFiles`, saves that give the page another time than the current one, directory listings, files of more than 16 MB and the ETag, which is compared with a header no browser sends.

## Plan

Done: `Storage` with `FileTree` and `NormalizePath`, `Diff`, `Upgrade`, `Browse`, `Connections`, `Quoting`,
`WsServer`, `WriteQueue` with `ByteStream`, `HttpRequests`, `WsFrames`, `StaticFiles`, and the proofs above.

Open: a proof of `ParsedAsSent` and of `RequestsHandled`, along the lines of the one about names: the bytes of a frame, and the events of
a request, at places that `FlattenPlaces` gives.

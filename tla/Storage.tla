------------------------------- MODULE Storage -------------------------------
(***************************************************************************)
(* The upload path: POST /api/add/ (WebdiffHttpServer::httpApiAdd), the    *)
(* in-memory caches of MySqlStorage and the four MySQL tables behind them. *)
(*                                                                         *)
(* The server is one thread, so one request is handled at a time; what     *)
(* interleaves with it is the death of the process.  Every SQL statement   *)
(* commits by itself, an SQL error or a malformed JSON value throws, and   *)
(* nothing catches: the process ends and is started again with the caches  *)
(* reloaded from the tables.  One action is therefore one SQL statement    *)
(* with the memory operations around it (a statement that commits and      *)
(* whose answer is lost is that action followed by Crash).                 *)
(***************************************************************************)
EXTENDS Naturals, Sequences, FiniteSets

CONSTANTS Names,         \* version names, group names, names of path segments
          RawPaths,      \* values of "path" in an upload, before normalisation
          Segments(_),   \* the non-empty names addFile walks for a raw path
          Malformed,     \* a "files" entry without the fields the handler reads
          Requests,      \* the requests clients may send to /api/add/
          NoRequest      \* no request is being handled

ASSUME SegmentsAssumption == \A p \in RawPaths : Segments(p) \in Seq(Names)

ASSUME MalformedAssumption == Malformed \notin RawPaths

ASSUME RequestsAssumption ==
    /\ Requests \subseteq [json : BOOLEAN, version : Names, group : Names,
                           files : Seq(RawPaths \cup {Malformed})]
    /\ NoRequest \notin Requests

VARIABLES
    webdiff_versions,        \* tables: the id of a row is its position
    webdiff_file_groups,
    webdiff_define_files,
    webdiff_files,
    m_vVersions,             \* MySqlStorage: rows [id, name]
    m_vGroups,
    m_mapCacheFileDefinsIds, \* MySqlStorage: filepath -> define file id
    m_cacheGroups,           \* <<version, group, define file>> -> file id
    pc,                      \* where the process is; "down" when it is not running
    h,                       \* local variables of the running httpApiAdd
    acked,                   \* history: the requests answered with 200
    interrupted              \* history: rows whose child count a crash left behind

tables  == <<webdiff_versions, webdiff_file_groups, webdiff_define_files, webdiff_files>>
caches  == <<m_vVersions, m_vGroups, m_mapCacheFileDefinsIds, m_cacheGroups>>
history == <<acked, interrupted>>
vars    == <<tables, caches, pc, h, history>>

-----------------------------------------------------------------------------
(* Rows, maps and lookups *)

Paths == Seq(Names)

NamedRow == [id : Nat, name : Names]

DefineFile == [filepath : Paths, filename : Names, parent_id : Nat]

File == [version_id : Nat, file_group_id : Nat, define_file_id : Nat,
         parent_id : Nat, amount_of_children : Nat]

\* The last inserted id after an INSERT into table t.
InsertId(t) == Len(t) + 1

\* Mutant of Put: the assignment to the map is forgotten.
PutNothing(m, key, val) == m

\* std::unordered_map operator[] assignment.
Put(m, key, val) == [x \in DOMAIN m \cup {key} |-> IF x = key THEN val ELSE m[x]]

FileKey(f) == <<f.version_id, f.file_group_id, f.define_file_id>>

\* The row SELECT delivers last among those in S, the one a reload keeps.
LastId(S) == CHOOSE i \in S : \A j \in S : j <= i

\* Mutant of HasName: bFound is never set.
HasNoName(rows, name) == FALSE

\* The first cached row with that name, if there is one.
HasName(rows, name) == \E r \in rows : r.name = name
IdOfName(rows, name) == (CHOOSE r \in rows : r.name = name).id

\* SELECT COUNT(id) FROM webdiff_files WHERE parent_id = ...
Children(files, id) == {c \in DOMAIN files : files[c].parent_id = id}

NoLocals == [req |-> NoRequest, status |-> 0, nVersionId |-> 0, nGroupId |-> 0, i |-> 0,
             vPath |-> <<>>, k |-> 0, nDefineFileId |-> 0, nFileParentId |-> 0,
             nFileId |-> 0, nAmountOfChildren |-> 0]

\* sNewFilePath while the loop of addFile is at its next segment.
sNewFilePath == SubSeq(h.vPath, 1, h.k + 1)

Init == /\ webdiff_versions = <<>> /\ webdiff_file_groups = <<>>
        /\ webdiff_define_files = <<>> /\ webdiff_files = <<>>
        /\ m_vVersions = {} /\ m_vGroups = {}
        /\ m_mapCacheFileDefinsIds = <<>> /\ m_cacheGroups = <<>>
        /\ pc = "down" /\ h = NoLocals
        /\ acked = {} /\ interrupted = {}

-----------------------------------------------------------------------------
(* Start and end of the process *)

\* The four SELECTs of loadCache.
getApiVersionsAll == {[id |-> i, name |-> webdiff_versions[i]] : i \in DOMAIN webdiff_versions}

getGroupsAll == {[id |-> i, name |-> webdiff_file_groups[i]] : i \in DOMAIN webdiff_file_groups}

getDefineFilesCache ==
    [p \in {webdiff_define_files[i].filepath : i \in DOMAIN webdiff_define_files} |->
        LastId({i \in DOMAIN webdiff_define_files : webdiff_define_files[i].filepath = p})]

loadFilesIds ==
    [key \in {FileKey(webdiff_files[i]) : i \in DOMAIN webdiff_files} |->
        LastId({i \in DOMAIN webdiff_files : FileKey(webdiff_files[i]) = key})]

\* main(): a new MySqlStorage, then loadCache with its four SELECTs.
LoadCache ==
    /\ pc = "down"
    /\ m_vVersions' = getApiVersionsAll /\ m_vGroups' = getGroupsAll
    /\ m_mapCacheFileDefinsIds' = getDefineFilesCache
    /\ m_cacheGroups' = loadFilesIds
    /\ pc' = "idle"
    /\ UNCHANGED <<tables, h, history>>

\* The memory of the process is gone.  A crash between the INSERT and the
\* UPDATE of insertFile leaves the parent's amount_of_children behind.
Die == /\ m_vVersions' = {} /\ m_vGroups' = {}
       /\ m_mapCacheFileDefinsIds' = <<>> /\ m_cacheGroups' = <<>>
       /\ pc' = "down" /\ h' = NoLocals
       /\ interrupted' = IF pc \in {"count", "update"}
                           THEN interrupted \cup {h.nFileParentId} ELSE interrupted
       /\ UNCHANGED <<tables, acked>>

\* An SQL statement fails and throw_err is not caught, or the machine stops.
Crash == pc # "down" /\ Die

-----------------------------------------------------------------------------
(* httpApiAdd *)

\* A request arrives; one that is not JSON is answered with 400.
Receive(r) ==
    /\ pc = "idle"
    /\ IF r.json THEN /\ h' = [NoLocals EXCEPT !.req = r]
                      /\ pc' = "version"
                 ELSE /\ h' = [NoLocals EXCEPT !.req = r, !.status = 400]
                      /\ pc' = "reply"
    /\ UNCHANGED <<tables, caches, history>>

\* findVersionOrCreate
FindVersion ==
    /\ pc = "version"
    /\ IF HasName(m_vVersions, h.req.version)
         THEN /\ h' = [h EXCEPT !.nVersionId = IdOfName(m_vVersions, h.req.version)]
              /\ UNCHANGED <<webdiff_versions, m_vVersions>>
         ELSE LET id == InsertId(webdiff_versions) IN
              /\ webdiff_versions' = Append(webdiff_versions, h.req.version)
              /\ m_vVersions' = m_vVersions \cup {[id |-> id, name |-> h.req.version]}
              /\ h' = [h EXCEPT !.nVersionId = id]
    /\ pc' = "group"
    /\ UNCHANGED <<webdiff_file_groups, webdiff_define_files, webdiff_files,
                   m_vGroups, m_mapCacheFileDefinsIds, m_cacheGroups, history>>

\* findGroupOrCreate
FindGroup ==
    /\ pc = "group"
    /\ IF HasName(m_vGroups, h.req.group)
         THEN /\ h' = [h EXCEPT !.nGroupId = IdOfName(m_vGroups, h.req.group)]
              /\ UNCHANGED <<webdiff_file_groups, m_vGroups>>
         ELSE LET id == InsertId(webdiff_file_groups) IN
              /\ webdiff_file_groups' = Append(webdiff_file_groups, h.req.group)
              /\ m_vGroups' = m_vGroups \cup {[id |-> id, name |-> h.req.group]}
              /\ h' = [h EXCEPT !.nGroupId = id]
    /\ pc' = "files"
    /\ UNCHANGED <<webdiff_versions, webdiff_define_files, webdiff_files,
                   m_vVersions, m_mapCacheFileDefinsIds, m_cacheGroups, history>>

\* Mutant of NextFile: the parent ids are not reset for the next path.
NextFileKeepsParent ==
    /\ pc = "files"
    /\ h.i < Len(h.req.files)
    /\ h.req.files[h.i + 1] # Malformed
    /\ h' = [h EXCEPT !.i = h.i + 1, !.vPath = Segments(h.req.files[h.i + 1]), !.k = 0]
    /\ pc' = "define"
    /\ UNCHANGED <<tables, caches, history>>

\* Mutant of NextFile: the index of the loop is not advanced.
NextFileSame ==
    /\ pc = "files"
    /\ h.i < Len(h.req.files)
    /\ h.req.files[h.i + 1] # Malformed
    /\ h' = [h EXCEPT !.vPath = Segments(h.req.files[h.i + 1]), !.k = 0,
                      !.nDefineFileId = 0, !.nFileParentId = 0]
    /\ pc' = "define"
    /\ UNCHANGED <<tables, caches, history>>

\* The loop over "files" reaches an entry whose fields can be read: addFile
\* starts with its normalised and split path.
NextFile ==
    /\ pc = "files"
    /\ h.i < Len(h.req.files)
    /\ h.req.files[h.i + 1] # Malformed
    /\ h' = [h EXCEPT !.i = h.i + 1, !.vPath = Segments(h.req.files[h.i + 1]), !.k = 0,
                      !.nDefineFileId = 0, !.nFileParentId = 0]
    /\ pc' = "define"
    /\ UNCHANGED <<tables, caches, history>>

\* The entry lacks a field or has one of another type: the conversion from
\* JSON throws, after the entries before it have been stored.
ThrowOnEntry ==
    /\ pc = "files"
    /\ h.i < Len(h.req.files)
    /\ h.req.files[h.i + 1] = Malformed
    /\ Die

\* Mutant of FilesDone: the loop ends one entry early.
FilesDoneEarly ==
    /\ pc = "files"
    /\ h.i + 1 >= Len(h.req.files)
    /\ h' = [h EXCEPT !.status = 200]
    /\ pc' = "reply"
    /\ UNCHANGED <<tables, caches, history>>

\* The loop over "files" is over.
FilesDone ==
    /\ pc = "files"
    /\ h.i = Len(h.req.files)
    /\ h' = [h EXCEPT !.status = 200]
    /\ pc' = "reply"
    /\ UNCHANGED <<tables, caches, history>>

\* Mutant of Reply: the state of the request outlives it.
ReplyKeepsRequest ==
    /\ pc = "reply"
    /\ acked' = IF h.status = 200 THEN acked \cup {h.req} ELSE acked
    /\ pc' = "idle"
    /\ UNCHANGED <<tables, caches, h, interrupted>>

\* The handler returns and the response is sent.
Reply ==
    /\ pc = "reply"
    /\ acked' = IF h.status = 200 THEN acked \cup {h.req} ELSE acked
    /\ pc' = "idle"
    /\ h' = NoLocals
    /\ UNCHANGED <<tables, caches, interrupted>>

-----------------------------------------------------------------------------
(* addFile: per segment findDefineFileIdOrCreate, then findFileOrCreate *)

\* findDefineFileIdOrCreate
FindDefineFile ==
    /\ pc = "define"
    /\ h.k < Len(h.vPath)
    /\ IF sNewFilePath \in DOMAIN m_mapCacheFileDefinsIds
         THEN /\ h' = [h EXCEPT !.nDefineFileId = m_mapCacheFileDefinsIds[sNewFilePath]]
              /\ UNCHANGED <<webdiff_define_files, m_mapCacheFileDefinsIds>>
         ELSE LET id == InsertId(webdiff_define_files) IN
              /\ webdiff_define_files' =
                    Append(webdiff_define_files,
                           [filepath |-> sNewFilePath, filename |-> h.vPath[h.k + 1],
                            parent_id |-> h.nDefineFileId])
              /\ m_mapCacheFileDefinsIds' = Put(m_mapCacheFileDefinsIds, sNewFilePath, id)
              /\ h' = [h EXCEPT !.nDefineFileId = id]
    /\ pc' = "row"
    /\ UNCHANGED <<webdiff_versions, webdiff_file_groups, webdiff_files,
                   m_vVersions, m_vGroups, m_cacheGroups, history>>

\* All segments are done: back to the loop over "files".
PathDone ==
    /\ pc = "define"
    /\ h.k = Len(h.vPath)
    /\ pc' = "files"
    /\ UNCHANGED <<tables, caches, h, history>>

hKey == <<h.nVersionId, h.nGroupId, h.nDefineFileId>>

\* Mutant of FindFile: the parent is not advanced on a hit.
FindFileKeepsParent ==
    /\ pc = "row"
    /\ hKey \in DOMAIN m_cacheGroups
    /\ h' = [h EXCEPT !.k = h.k + 1]
    /\ pc' = "define"
    /\ UNCHANGED <<tables, caches, history>>

\* findFileOrCreate, the row is in the cache.
FindFile ==
    /\ pc = "row"
    /\ hKey \in DOMAIN m_cacheGroups
    /\ h' = [h EXCEPT !.nFileParentId = m_cacheGroups[hKey], !.k = h.k + 1]
    /\ pc' = "define"
    /\ UNCHANGED <<tables, caches, history>>

\* findFileOrCreate, not in the cache: the INSERT of insertFile.
InsertFile ==
    /\ pc = "row"
    /\ hKey \notin DOMAIN m_cacheGroups
    /\ webdiff_files' = Append(webdiff_files,
           [version_id |-> h.nVersionId, file_group_id |-> h.nGroupId,
            define_file_id |-> h.nDefineFileId, parent_id |-> h.nFileParentId,
            amount_of_children |-> 0])
    /\ h' = [h EXCEPT !.nFileId = InsertId(webdiff_files)]
    /\ pc' = "count"
    /\ UNCHANGED <<webdiff_versions, webdiff_file_groups, webdiff_define_files, caches, history>>

\* Mutant of CountChildren: the children of the new row are counted.
CountOwnChildren ==
    /\ pc = "count"
    /\ h' = [h EXCEPT !.nAmountOfChildren = Cardinality(Children(webdiff_files, h.nFileId))]
    /\ pc' = "update"
    /\ UNCHANGED <<tables, caches, history>>

\* The SELECT COUNT of insertFile.
CountChildren ==
    /\ pc = "count"
    /\ h' = [h EXCEPT !.nAmountOfChildren = Cardinality(Children(webdiff_files, h.nFileParentId))]
    /\ pc' = "update"
    /\ UNCHANGED <<tables, caches, history>>

\* Mutant of UpdateParent: the UPDATE has no WHERE.
UpdateEveryRow ==
    /\ pc = "update"
    /\ webdiff_files' = [f \in DOMAIN webdiff_files |->
           [webdiff_files[f] EXCEPT !.amount_of_children = h.nAmountOfChildren]]
    /\ m_cacheGroups' = Put(m_cacheGroups, hKey, h.nFileId)
    /\ h' = [h EXCEPT !.nFileParentId = h.nFileId, !.k = h.k + 1,
                      !.nFileId = 0, !.nAmountOfChildren = 0]
    /\ interrupted' = interrupted \ {h.nFileParentId}
    /\ pc' = "define"
    /\ UNCHANGED <<webdiff_versions, webdiff_file_groups, webdiff_define_files,
                   m_vVersions, m_vGroups, m_mapCacheFileDefinsIds, acked>>

\* The UPDATE of insertFile (no row has id 0), then the new row enters the
\* cache and becomes the parent of the next segment.
UpdateParent ==
    /\ pc = "update"
    /\ webdiff_files' = [f \in DOMAIN webdiff_files |->
           IF f = h.nFileParentId
             THEN [webdiff_files[f] EXCEPT !.amount_of_children = h.nAmountOfChildren]
             ELSE webdiff_files[f]]
    /\ m_cacheGroups' = Put(m_cacheGroups, hKey, h.nFileId)
    /\ h' = [h EXCEPT !.nFileParentId = h.nFileId, !.k = h.k + 1,
                      !.nFileId = 0, !.nAmountOfChildren = 0]
    /\ interrupted' = interrupted \ {h.nFileParentId}
    /\ pc' = "define"
    /\ UNCHANGED <<webdiff_versions, webdiff_file_groups, webdiff_define_files,
                   m_vVersions, m_vGroups, m_mapCacheFileDefinsIds, acked>>

-----------------------------------------------------------------------------
\* What the process does by itself once a request is there, or once it is started.
Step == \/ FindVersion \/ FindGroup \/ NextFile \/ ThrowOnEntry \/ FilesDone \/ Reply
        \/ FindDefineFile \/ PathDone \/ FindFile \/ InsertFile \/ CountChildren
        \/ UpdateParent

Next == \/ LoadCache \/ Crash \/ Step
        \/ \E r \in Requests : Receive(r)

\* The handler runs on the only thread and never waits for another one.
Fairness == WF_vars(Step)

Spec == Init /\ [][Next]_vars
FairSpec == Spec /\ Fairness

-----------------------------------------------------------------------------
(* Properties *)

Handling == {"version", "group", "files", "define", "row", "count", "update", "reply"}

Locals == [req : Requests \cup {NoRequest}, status : {0, 200, 400},
           nVersionId : Nat, nGroupId : Nat, i : Nat, vPath : Paths, k : Nat,
           nDefineFileId : Nat, nFileParentId : Nat, nFileId : Nat, nAmountOfChildren : Nat]

TablesType ==
    /\ webdiff_versions \in Seq(Names) /\ webdiff_file_groups \in Seq(Names)
    /\ webdiff_define_files \in Seq(DefineFile)
    /\ webdiff_files \in Seq(File)

CachesType ==
    /\ m_vVersions \subseteq NamedRow /\ m_vGroups \subseteq NamedRow
    /\ DOMAIN m_mapCacheFileDefinsIds \subseteq Paths
    /\ \A p \in DOMAIN m_mapCacheFileDefinsIds : m_mapCacheFileDefinsIds[p] \in Nat
    /\ DOMAIN m_cacheGroups \subseteq Nat \X Nat \X Nat
    /\ \A key \in DOMAIN m_cacheGroups : m_cacheGroups[key] \in Nat

HandlerType ==
    /\ pc \in Handling \cup {"down", "idle"}
    /\ h \in Locals
    /\ h.req \in Requests <=> pc \in Handling

HistoryType == acked \subseteq Requests /\ interrupted \subseteq Nat

\* Every variable has the type the tables and the classes give it, and there is a
\* request while, and only while, the handler runs.
TypeOK == TablesType /\ CachesType /\ HandlerType /\ HistoryType

\* No table has a UNIQUE key, yet findVersionOrCreate, findGroupOrCreate,
\* findDefineFileIdOrCreate and findFileOrCreate never store the same version
\* name, group name, file path or (version, group, file) twice, whatever
\* crashes and repeated uploads come in between.
NoDuplicateRows ==
    /\ \A i, j \in DOMAIN webdiff_versions :
          webdiff_versions[i] = webdiff_versions[j] => i = j
    /\ \A i, j \in DOMAIN webdiff_file_groups :
          webdiff_file_groups[i] = webdiff_file_groups[j] => i = j
    /\ \A i, j \in DOMAIN webdiff_define_files :
          webdiff_define_files[i].filepath = webdiff_define_files[j].filepath => i = j
    /\ \A i, j \in DOMAIN webdiff_files :
          FileKey(webdiff_files[i]) = FileKey(webdiff_files[j]) => i = j

\* The row insertFile has inserted and findFileOrCreate has not yet cached.
Uncached == IF pc \in {"count", "update"} THEN {h.nFileId} ELSE {}

\* While the process runs its caches are the tables: every row is cached under
\* its key and nothing else is, but for the one row insertFile is working on.
CacheMirrorsTables ==
    pc # "down" =>
    /\ m_vVersions = {[id |-> i, name |-> webdiff_versions[i]] : i \in DOMAIN webdiff_versions}
    /\ m_vGroups = {[id |-> i, name |-> webdiff_file_groups[i]] : i \in DOMAIN webdiff_file_groups}
    /\ \A i \in DOMAIN webdiff_define_files :
          /\ webdiff_define_files[i].filepath \in DOMAIN m_mapCacheFileDefinsIds
          /\ m_mapCacheFileDefinsIds[webdiff_define_files[i].filepath] = i
    /\ \A p \in DOMAIN m_mapCacheFileDefinsIds :
          \E i \in DOMAIN webdiff_define_files : webdiff_define_files[i].filepath = p
    /\ \A i \in DOMAIN webdiff_files \ Uncached :
          /\ FileKey(webdiff_files[i]) \in DOMAIN m_cacheGroups
          /\ m_cacheGroups[FileKey(webdiff_files[i])] = i
    /\ \A key \in DOMAIN m_cacheGroups :
          \E i \in DOMAIN webdiff_files \ Uncached : FileKey(webdiff_files[i]) = key

\* While the handler works on a path: par is the row of the request's version and
\* group for the first n segments, and def the define row of these segments.
IsRowOfPrefix(par, n) ==
    IF n = 0 THEN par = 0
    ELSE /\ par \in DOMAIN webdiff_files
         /\ webdiff_files[par].version_id = h.nVersionId
         /\ webdiff_files[par].file_group_id = h.nGroupId
         /\ webdiff_files[par].define_file_id \in DOMAIN webdiff_define_files
         /\ webdiff_define_files[webdiff_files[par].define_file_id].filepath = SubSeq(h.vPath, 1, n)

IsDefineOfPrefix(def, n) ==
    IF n = 0 THEN def = 0
    ELSE /\ def \in DOMAIN webdiff_define_files
         /\ webdiff_define_files[def].filepath = SubSeq(h.vPath, 1, n)

InPath == {"define", "row", "count", "update"}

\* The ids that httpApiAdd and addFile carry from one step to the next are the ids
\* of the rows they mean, whether they came from a cache or from an INSERT.
HandlerRows ==
    /\ pc \in InPath \cup {"group", "files"} =>
          /\ h.nVersionId \in DOMAIN webdiff_versions
          /\ webdiff_versions[h.nVersionId] = h.req.version
    /\ pc \in InPath \cup {"files"} =>
          /\ h.nGroupId \in DOMAIN webdiff_file_groups
          /\ webdiff_file_groups[h.nGroupId] = h.req.group
    /\ pc \in InPath => h.k <= Len(h.vPath) /\ IsRowOfPrefix(h.nFileParentId, h.k)
    /\ pc = "define" => IsDefineOfPrefix(h.nDefineFileId, h.k)
    /\ pc \in {"row", "count", "update"} =>
          h.k < Len(h.vPath) /\ IsDefineOfPrefix(h.nDefineFileId, h.k + 1)
    /\ pc \in {"count", "update"} =>
          /\ h.nFileId \in DOMAIN webdiff_files
          /\ FileKey(webdiff_files[h.nFileId]) = hKey
          /\ webdiff_files[h.nFileId].parent_id = h.nFileParentId

\* The row of the path's prefix, or 0 for a path of one name.
IsParentDefine(par, path) ==
    IF Len(path) = 1 THEN par = 0
    ELSE /\ par \in DOMAIN webdiff_define_files
         /\ webdiff_define_files[par].filepath = SubSeq(path, 1, Len(path) - 1)

\* The parent of a file row is the row of the same version and group for the
\* parent path, or 0 for a file at the top.
IsParentFile(par, f) ==
    LET d == webdiff_define_files[f.define_file_id] IN
    IF d.parent_id = 0 THEN par = 0
    ELSE /\ par \in DOMAIN webdiff_files
         /\ FileKey(webdiff_files[par]) = <<f.version_id, f.file_group_id, d.parent_id>>

\* The parent_id columns that addFile threads through its loop always spell
\* the path: /api/files/ walks webdiff_files from parent 0 along them.
TreeConsistent ==
    /\ \A d \in DOMAIN webdiff_define_files :
          LET row == webdiff_define_files[d] IN
          /\ Len(row.filepath) > 0
          /\ row.filename = row.filepath[Len(row.filepath)]
          /\ IsParentDefine(row.parent_id, row.filepath)
    /\ \A f \in DOMAIN webdiff_files :
          LET row == webdiff_files[f] IN
          /\ row.version_id \in DOMAIN webdiff_versions
          /\ row.file_group_id \in DOMAIN webdiff_file_groups
          /\ row.define_file_id \in DOMAIN webdiff_define_files
          /\ IsParentFile(row.parent_id, row)

\* The node a file row stands for.
Node(f) == <<webdiff_versions[f.version_id], webdiff_file_groups[f.file_group_id],
             webdiff_define_files[f.define_file_id].filepath>>

Stored == {Node(webdiff_files[f]) : f \in DOMAIN webdiff_files}

\* The nodes one raw path of an upload asks for: the path and all above it.
PathNeeds(r, p) == {<<r.version, r.group, SubSeq(Segments(p), 1, n)>> : n \in 1..Len(Segments(p))}

\* The nodes an upload asks for.
Needs(r) == UNION {PathNeeds(r, r.files[i]) : i \in {j \in DOMAIN r.files : r.files[j] # Malformed}}

\* An upload answered with 200 is in the tables, all its files and all their
\* directories, and stays there through every later crash.
AckedStored == \A r \in acked : Needs(r) \subseteq Stored

\* amount_of_children is the number of child rows, except for the parent
\* insertFile is working on and for rows whose UPDATE a crash cut off; it never
\* counts children that are not there.
ChildCounts ==
    \A f \in DOMAIN webdiff_files :
        LET n == Cardinality(Children(webdiff_files, f)) IN
        /\ webdiff_files[f].amount_of_children <= n
        /\ \/ webdiff_files[f].amount_of_children = n
           \/ f \in interrupted
           \/ pc \in {"count", "update"} /\ f = h.nFileParentId

\* No step removes or rewrites a row: only amount_of_children of a file row
\* changes, and it never goes down.
RowsOnlyGrow ==
    [][/\ \A i \in DOMAIN webdiff_versions :
             i \in DOMAIN webdiff_versions' /\ webdiff_versions'[i] = webdiff_versions[i]
       /\ \A i \in DOMAIN webdiff_file_groups :
             i \in DOMAIN webdiff_file_groups' /\ webdiff_file_groups'[i] = webdiff_file_groups[i]
       /\ \A i \in DOMAIN webdiff_define_files :
             i \in DOMAIN webdiff_define_files' /\ webdiff_define_files'[i] = webdiff_define_files[i]
       /\ \A i \in DOMAIN webdiff_files :
             /\ i \in DOMAIN webdiff_files'
             /\ FileKey(webdiff_files'[i]) = FileKey(webdiff_files[i])
             /\ webdiff_files'[i].parent_id = webdiff_files[i].parent_id
             /\ webdiff_files'[i].amount_of_children >= webdiff_files[i].amount_of_children
      ]_vars

\* A request is answered unless the process dies: the loops over the files and
\* over the segments of a path end.
RequestEnds == pc \in Handling ~> pc \in {"idle", "down"}

\* The tables and the answers behave as the abstract file tree.
Tree == INSTANCE FileTree WITH Uploads <- Requests, tree <- Stored

ImplementsFileTree == Tree!Spec

\* Comment "update amnount of childs" in insertFile and the directory icons of
\* browser.html: after a successful upload every directory of it has a positive
\* amount_of_children.  False of the code: see the README.
AckedDirectoriesBrowsable ==
    \A r \in acked : \A f \in DOMAIN webdiff_files :
        /\ Node(webdiff_files[f]) \in Needs(r)
        /\ pc = "idle"
        /\ Children(webdiff_files, f) # {}
        => webdiff_files[f].amount_of_children > 0

=============================================================================

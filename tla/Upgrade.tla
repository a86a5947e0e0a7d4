------------------------------- MODULE Upgrade -------------------------------
(***************************************************************************)
(* The database migrations main() runs before it serves:                   *)
(* MySqlStorageAllUpdates::upgrade, the nine MySqlStorageUpdate classes,   *)
(* lastDatabaseVersion and insertUpdateInfo.                               *)
(*                                                                         *)
(* In MySQL a CREATE TABLE or ALTER TABLE commits by itself, so an update  *)
(* of several statements, and an update and its row in webdiff_db_updates, *)
(* can be cut apart by the end of the process.  docker-compose starts the  *)
(* process again ("restart: always").                                      *)
(***************************************************************************)
EXTENDS Naturals, Sequences, FiniteSets

CONSTANTS MaxCrashes,   \* bound on the crashes of a behaviour
          MaxTime,      \* bound on the clock of the database, in seconds
          MaxBacks      \* bound on how often that clock is set back

ASSUME BoundsAssumption == MaxCrashes \in Nat /\ MaxTime \in Nat /\ MaxBacks \in Nat

VARIABLES
    schema,               \* <<table>>, <<table, column>>, and the admin row
    hasUpdatesTable,      \* webdiff_db_updates exists
    webdiff_db_updates,   \* its rows [version, dt]
    now,                  \* NOW() of the database
    pc,
    nDbVersion,
    bFoundUpdate,
    i,                    \* position of the for loop in m_vDatabaseUpdates
    s,                    \* statements of the update done by apply
    crashes, backs        \* how often the process has ended, the clock was set back

disk   == <<schema, hasUpdatesTable, webdiff_db_updates>>
locals == <<nDbVersion, bFoundUpdate, i, s>>
bounds == <<crashes, backs>>
vars   == <<disk, now, pc, locals, bounds>>

-----------------------------------------------------------------------------
(* The updates.  A statement fails when something it adds is there, or       *)
(* something it needs is not; else it adds and drops.                        *)

Create(t, cols) == [needs |-> {}, adds |-> {<<t>>} \cup {<<t, c>> : c \in cols}, drops |-> {}]
AddColumn(t, c) == [needs |-> {<<t>>}, adds |-> {<<t, c>>}, drops |-> {}]
DropColumn(t, c) == [needs |-> {<<t, c>>}, adds |-> {}, drops |-> {<<t, c>>}]
AdminRow == [needs |-> {<<"users">>}, adds |-> {<<"users", "row", "admin">>}, drops |-> {}]

Update_0001 == <<Create("users", {"username", "userpass", "role", "comment", "created"}),
                 AdminRow,
                 Create("users_tokens", {"token", "role", "userid", "created"}),
                 Create("versions", {"name", "comment"})>>
Update_0002 == <<Create("file_groups", {"name"}),
                 Create("define_files", {"file_group_id", "filepath"}),
                 Create("define_files_comments", {"define_file_id", "comment", "dt_created"})>>
Update_0003 == <<Create("files", {"version_id", "define_file_id"})>>
Update_0004 == <<AddColumn("define_files", "childs"), AddColumn("define_files", "parent_id")>>
Update_0005 == <<AddColumn("define_files", "filename")>>
Update_0006 == <<AddColumn("files", "file_group_id")>>
Update_0007 == <<DropColumn("define_files", "file_group_id")>>
Update_0008 == <<AddColumn("files", "parent_id"), AddColumn("files", "amount_of_children")>>
Update_0009 == <<AddColumn("define_files_comments", "hided")>>

\* Mutant of Updates: the last update is not registered.
UpdatesWithoutLast == <<Update_0001, Update_0002, Update_0003, Update_0004, Update_0005,
                        Update_0006, Update_0007, Update_0008>>

\* m_vDatabaseUpdates: the update at position n has version n.
Updates == <<Update_0001, Update_0002, Update_0003, Update_0004, Update_0005,
             Update_0006, Update_0007, Update_0008, Update_0009>>

Runs(st, sch) == st.needs \subseteq sch /\ st.adds \cap sch = {}
Effect(st, sch) == (sch \cup st.adds) \ st.drops

\* The schema after the first k statements of an update on schema sch.
After(update, k, sch) ==
    LET made[n \in 0..k] == IF n = 0 THEN sch ELSE Effect(update[n], made[n - 1])
    IN  made[k]

\* The schema of a database at a version.
SchemaAt == [v \in 0..Len(Updates) |->
    LET made[n \in 0..v] == IF n = 0 THEN {}
                            ELSE After(Updates[n], Len(Updates[n]), made[n - 1])
    IN  made[v]]

\* Mutant of LastRow: rows of the same second are not ordered.
LastRowByTime(table) == CHOOSE r \in table : \A q \in table : q.dt <= r.dt

\* SELECT version ... ORDER BY dt DESC, version DESC LIMIT 0,1
LastRow(table) == CHOOSE r \in table : \A q \in table : q.dt < r.dt \/ (q.dt = r.dt /\ q.version <= r.version)

\* Mutant of LastVersion: the version to come instead of the last one.
NextVersion(table) == IF table = {} THEN 0 ELSE LastRow(table).version + 1

\* The version lastDatabaseVersion returns, 0 without a row.
LastVersion(table) == IF table = {} THEN 0 ELSE LastRow(table).version

\* A database without tables, or one an earlier release has upgraded at time 0.
Init == /\ \E v \in 0..Len(Updates) :
              /\ schema = SchemaAt[v]
              /\ webdiff_db_updates = {[version |-> u, dt |-> 0] : u \in 1..v}
              /\ hasUpdatesTable = (v > 0)
        /\ now = 0 /\ pc = "down" /\ crashes = 0 /\ backs = 0
        /\ nDbVersion = 0 /\ bFoundUpdate = FALSE /\ i = 0 /\ s = 0

-----------------------------------------------------------------------------

Tick == /\ now < MaxTime
        /\ now' = now + 1
        /\ UNCHANGED <<disk, pc, locals, bounds>>

\* The clock of the database is set back.
SetBack == /\ now > 0 /\ backs < MaxBacks
           /\ now' = now - 1
           /\ backs' = backs + 1
           /\ UNCHANGED <<disk, pc, locals, crashes>>

Start == /\ pc = "down"
         /\ pc' = "last"
         /\ UNCHANGED <<disk, now, locals, bounds>>

\* The exception of throw_err ends the process.
Die == /\ pc' = "down"
       /\ nDbVersion' = 0 /\ bFoundUpdate' = FALSE /\ i' = 0 /\ s' = 0
       /\ UNCHANGED <<disk, now, backs>>

\* The process or its connection is lost at any point.
Crash == /\ pc # "down" /\ crashes < MaxCrashes
         /\ crashes' = crashes + 1
         /\ Die

\* lastDatabaseVersion, which creates its table when there is none, and the
\* start of the while loop.
LastDatabaseVersion ==
    /\ pc = "last"
    /\ hasUpdatesTable' = TRUE
    /\ nDbVersion' = LastVersion(webdiff_db_updates)
    /\ bFoundUpdate' = FALSE /\ i' = 1 /\ s' = 0
    /\ pc' = "scan"
    /\ UNCHANGED <<schema, webdiff_db_updates, now, bounds>>

\* The for loop passes an update that is not the next one.
SkipUpdate ==
    /\ pc = "scan" /\ i <= Len(Updates) /\ i - 1 # nDbVersion
    /\ i' = i + 1
    /\ UNCHANGED <<disk, now, pc, nDbVersion, bFoundUpdate, s, bounds>>

\* Mutant of BeginUpdate: the update is recorded before it is applied.
BeginUpdateRecorded ==
    /\ pc = "scan" /\ i <= Len(Updates) /\ i - 1 = nDbVersion
    /\ webdiff_db_updates' = webdiff_db_updates \cup {[version |-> i, dt |-> now]}
    /\ s' = 0
    /\ pc' = "apply"
    /\ UNCHANGED <<schema, hasUpdatesTable, now, nDbVersion, bFoundUpdate, i, bounds>>

\* The update after nDbVersion is found: apply begins.
BeginUpdate ==
    /\ pc = "scan" /\ i <= Len(Updates) /\ i - 1 = nDbVersion
    /\ s' = 0
    /\ pc' = "apply"
    /\ UNCHANGED <<disk, now, nDbVersion, bFoundUpdate, i, bounds>>

\* One executeQuery of apply.
Execute ==
    /\ pc = "apply" /\ s < Len(Updates[i])
    /\ Runs(Updates[i][s + 1], schema)
    /\ schema' = Effect(Updates[i][s + 1], schema)
    /\ s' = s + 1
    /\ UNCHANGED <<hasUpdatesTable, webdiff_db_updates, now, pc, nDbVersion, bFoundUpdate, i, bounds>>

\* executeQuery fails, apply returns false and upgrade throws.
ExecuteFails ==
    /\ pc = "apply" /\ s < Len(Updates[i])
    /\ ~Runs(Updates[i][s + 1], schema)
    /\ Die
    /\ UNCHANGED crashes

\* apply has returned true: insertUpdateInfo, and on with the for loop.
InsertUpdateInfo ==
    /\ pc = "apply" /\ s = Len(Updates[i])
    /\ webdiff_db_updates' = webdiff_db_updates \cup {[version |-> i, dt |-> now]}
    /\ bFoundUpdate' = TRUE
    /\ nDbVersion' = i
    /\ i' = i + 1
    /\ s' = 0
    /\ pc' = "scan"
    /\ UNCHANGED <<schema, hasUpdatesTable, now, bounds>>

\* The for loop is over: once more if it has applied something, else loadCache
\* and the HTTP server.
EndScan ==
    /\ pc = "scan" /\ i = Len(Updates) + 1
    /\ IF bFoundUpdate THEN i' = 1 /\ pc' = "scan" ELSE i' = 0 /\ pc' = "serving"
    /\ bFoundUpdate' = FALSE
    /\ UNCHANGED <<disk, now, nDbVersion, s, bounds>>

Step == \/ Start \/ LastDatabaseVersion \/ SkipUpdate \/ BeginUpdate \/ Execute
        \/ ExecuteFails \/ InsertUpdateInfo \/ EndScan

Next == Step \/ Crash \/ Tick \/ SetBack

\* docker-compose starts the process whenever it is down, and upgrade waits for
\* nothing but the database.
Fairness == WF_vars(Step)

Spec == Init /\ [][Next]_vars
FairSpec == Spec /\ Fairness

-----------------------------------------------------------------------------
(* Properties *)

\* Every variable has the type the code gives it.
TypeOK ==
    /\ \A x \in schema : Len(x) \in 1..3
    /\ hasUpdatesTable \in BOOLEAN
    /\ \A r \in webdiff_db_updates : r.version \in 1..Len(Updates) /\ r.dt \in 0..MaxTime
    /\ now \in 0..MaxTime
    /\ pc \in {"down", "last", "scan", "apply", "serving"}
    /\ nDbVersion \in 0..Len(Updates)
    /\ bFoundUpdate \in BOOLEAN
    /\ i \in 0..Len(Updates) + 1
    /\ s \in 0..4
    /\ crashes \in 0..MaxCrashes /\ backs \in 0..MaxBacks

Recorded == {r.version : r \in webdiff_db_updates}

\* The columns the queries of MySqlStorageConnection name.
Queried == {<<"versions", "name">>, <<"versions", "comment">>, <<"file_groups", "name">>,
            <<"define_files", "filepath">>, <<"define_files", "filename">>,
            <<"define_files", "parent_id">>, <<"files", "version_id">>,
            <<"files", "file_group_id">>, <<"files", "define_file_id">>,
            <<"files", "parent_id">>, <<"files", "amount_of_children">>,
            <<"define_files_comments", "define_file_id">>,
            <<"define_files_comments", "comment">>,
            <<"define_files_comments", "dt_created">>, <<"define_files_comments", "hided">>}

\* When the server takes requests, every column its queries name is there, and the
\* column without a default that insertDefineFile does not fill is gone.
ServesFullSchema ==
    pc = "serving" => /\ Queried \subseteq schema
                      /\ <<"define_files", "file_group_id">> \notin schema

\* The recorded versions are 1..n, each once, and the schema is that of n with at
\* most the first statements of update n + 1: no update is skipped, done twice or
\* out of order, whatever crashes come in between and although a clock that was set
\* back makes lastDatabaseVersion return an older version than the last.
UpdatesInOrder ==
    LET n == Cardinality(webdiff_db_updates) IN
    /\ Recorded = 1..n
    /\ \/ schema = SchemaAt[n]
       \/ /\ n < Len(Updates)
          /\ \E k \in 1..Len(Updates[n + 1]) : schema = After(Updates[n + 1], k, SchemaAt[n])

\* The update nDbVersion + 1 is left half done, or done and not recorded.
CutShort == pc = "down" /\ schema # SchemaAt[Cardinality(webdiff_db_updates)]

\* The last update was recorded after the clock was set back, with an earlier time than
\* another one, which lastDatabaseVersion will find: an update will be tried again.
Misread == /\ pc = "down"
           /\ \E q, r \in webdiff_db_updates :
                 q.version = Cardinality(webdiff_db_updates) /\ q.dt < r.dt

\* Crashes that fall between updates are harmless, and so is a clock that stands still: the
\* server serves in the end unless a crash has cut an update short or the clock was set
\* back between two updates.
ServesUnlessCutShort == <>(pc = "serving" \/ CutShort \/ Misread)

\* README, fast start: "docker-compose up -d", then "Go look to
\* http://localhost:8071/"; docker-compose.yml: "restart: always".  False of the
\* code when a crash cuts an update short: see the README.
EventuallyServes == <>(pc = "serving")

=============================================================================

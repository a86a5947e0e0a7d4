---------------------------- MODULE StorageProofs ----------------------------
(***************************************************************************)
(* Proofs about the upload path, for every set of names, every set of      *)
(* requests and every normalisation Segments: types, distinct rows, caches *)
(* equal to the tables, ids that denote the rows they mean; parents and    *)
(* child counts; and what an answer 200 promises.                          *)
(***************************************************************************)
EXTENDS Storage, SequenceTheorems, FiniteSetTheorems, TLAPS

\* What an INSERT does to a table.
LEMMA AppendFacts ==
    ASSUME NEW S, NEW q \in Seq(S), NEW e \in S
    PROVE  /\ Append(q, e) \in Seq(S)
           /\ Len(q) \in Nat
           /\ Len(Append(q, e)) = Len(q) + 1
           /\ DOMAIN q = 1..Len(q)
           /\ DOMAIN Append(q, e) = 1..(Len(q) + 1)
           /\ \A n \in 1..Len(q) : Append(q, e)[n] = q[n]
           /\ Append(q, e)[Len(q) + 1] = e
  OBVIOUS

\* What an UPDATE does to the type of a table.
LEMMA UpdateFacts ==
    ASSUME NEW S, NEW q \in Seq(S), NEW r, DOMAIN r = DOMAIN q,
           r = [n \in DOMAIN q |-> r[n]], \A n \in DOMAIN q : r[n] \in S
    PROVE  r \in Seq(S)
  BY SeqDef

\* The first names of a path.
LEMMA PrefixFacts ==
    ASSUME NEW S, NEW q \in Seq(S), NEW n \in Nat, n <= Len(q)
    PROVE  /\ SubSeq(q, 1, n) \in Seq(S)
           /\ Len(SubSeq(q, 1, n)) = n
           /\ \A m \in 1..n : SubSeq(q, 1, n)[m] = q[m]
  BY SubSeqProperties

\* The last id of one row is its id.
LEMMA UniqueLastId ==
    ASSUME NEW n \in Nat
    PROVE  LastId({n}) = n
  BY DEF LastId

-----------------------------------------------------------------------------
(* The invariant of the rows: unique in the tables, complete in the caches,  *)
(* and known to the handler by their ids.                                    *)

RowsInv == TypeOK /\ NoDuplicateRows /\ CacheMirrorsTables /\ HandlerRows

\* The rows of a table are finitely many.
LEMMA ChildrenFinite ==
    ASSUME NEW files \in Seq(File), NEW id
    PROVE  /\ IsFiniteSet(Children(files, id))
           /\ Cardinality(Children(files, id)) \in Nat
  <1>1. IsFiniteSet(1..Len(files))
    BY FS_Interval
  <1>2. Children(files, id) \subseteq 1..Len(files)
    BY DEF Children
  <1> QED  BY <1>1, <1>2, FS_Subset, FS_CardinalityType

\* The request at hand has the fields the handler reads.
LEMMA RequestFields ==
    ASSUME HandlerType, pc \in Handling
    PROVE  /\ h.req \in Requests
           /\ h.req.version \in Names /\ h.req.group \in Names
           /\ h.req.files \in Seq(RawPaths \cup {Malformed})
  BY RequestsAssumption DEF HandlerType

\* Without duplicates, the id a reload keeps is the id of the only row.
LEMMA ReloadedIds ==
    ASSUME TablesType, NoDuplicateRows
    PROVE  /\ \A d \in DOMAIN webdiff_define_files :
                 LastId({i \in DOMAIN webdiff_define_files :
                            webdiff_define_files[i].filepath = webdiff_define_files[d].filepath}) = d
           /\ \A f \in DOMAIN webdiff_files :
                 LastId({i \in DOMAIN webdiff_files :
                            FileKey(webdiff_files[i]) = FileKey(webdiff_files[f])}) = f
  <1>1. ASSUME NEW d \in DOMAIN webdiff_define_files
        PROVE  LastId({i \in DOMAIN webdiff_define_files :
                   webdiff_define_files[i].filepath = webdiff_define_files[d].filepath}) = d
    <2>1. {i \in DOMAIN webdiff_define_files :
              webdiff_define_files[i].filepath = webdiff_define_files[d].filepath} = {d}
      BY DEF NoDuplicateRows
    <2>2. d \in Nat
      BY DEF TablesType
    <2> QED  BY <2>1, <2>2, UniqueLastId
  <1>2. ASSUME NEW f \in DOMAIN webdiff_files
        PROVE  LastId({i \in DOMAIN webdiff_files :
                   FileKey(webdiff_files[i]) = FileKey(webdiff_files[f])}) = f
    <2>1. {i \in DOMAIN webdiff_files : FileKey(webdiff_files[i]) = FileKey(webdiff_files[f])} = {f}
      BY DEF NoDuplicateRows
    <2>2. f \in Nat
      BY DEF TablesType
    <2> QED  BY <2>1, <2>2, UniqueLastId
  <1> QED  BY <1>1, <1>2

\* The locals of no request have their types.
LEMMA NoLocalsType == NoLocals \in Locals /\ NoLocals.req = NoRequest
  BY DEF NoLocals, Locals, Paths

\* Assignments to local variables keep their types.
LEMMA LocalsWithStatus ==
    ASSUME NEW x \in Locals
    PROVE  /\ [x EXCEPT !.status = 400] \in Locals
           /\ [x EXCEPT !.status = 400].req = x.req
  BY DEF Locals

\* Assignments to the local variables of addFile and insertFile keep their types.
LEMMA LocalsWith ==
    ASSUME NEW x \in Locals, NEW n \in Nat, NEW p \in Paths
    PROVE  /\ [x EXCEPT !.i = n] \in Locals /\ [x EXCEPT !.i = n].req = x.req
           /\ [x EXCEPT !.k = n] \in Locals /\ [x EXCEPT !.k = n].req = x.req
           /\ [x EXCEPT !.vPath = p] \in Locals /\ [x EXCEPT !.vPath = p].req = x.req
           /\ [x EXCEPT !.nDefineFileId = n] \in Locals /\ [x EXCEPT !.nDefineFileId = n].req = x.req
           /\ [x EXCEPT !.nFileParentId = n] \in Locals /\ [x EXCEPT !.nFileParentId = n].req = x.req
           /\ [x EXCEPT !.nFileId = n] \in Locals /\ [x EXCEPT !.nFileId = n].req = x.req
           /\ [x EXCEPT !.nAmountOfChildren = n] \in Locals
           /\ [x EXCEPT !.nAmountOfChildren = n].req = x.req
  <1> USE DEF Locals
  <1>1. [x EXCEPT !.i = n] \in Locals /\ [x EXCEPT !.i = n].req = x.req
    OBVIOUS
  <1>2. [x EXCEPT !.k = n] \in Locals /\ [x EXCEPT !.k = n].req = x.req
    OBVIOUS
  <1>3. [x EXCEPT !.vPath = p] \in Locals /\ [x EXCEPT !.vPath = p].req = x.req
    OBVIOUS
  <1>4. [x EXCEPT !.nDefineFileId = n] \in Locals /\ [x EXCEPT !.nDefineFileId = n].req = x.req
    OBVIOUS
  <1>5. [x EXCEPT !.nFileParentId = n] \in Locals /\ [x EXCEPT !.nFileParentId = n].req = x.req
    OBVIOUS
  <1>6. [x EXCEPT !.nFileId = n] \in Locals /\ [x EXCEPT !.nFileId = n].req = x.req
    OBVIOUS
  <1>7. /\ [x EXCEPT !.nAmountOfChildren = n] \in Locals
        /\ [x EXCEPT !.nAmountOfChildren = n].req = x.req
    OBVIOUS
  <1> HIDE DEF Locals
  <1> QED  BY <1>1, <1>2, <1>3, <1>4, <1>5, <1>6, <1>7

\* A step keeps the types of the tables.
LEMMA TablesStep ==
    ASSUME TypeOK, Next
    PROVE  TablesType'
  <1> USE DEF TypeOK
  <1>1. CASE UNCHANGED tables
    BY <1>1 DEF tables, TablesType
  <1>2. CASE FindVersion
    <2>1. Append(webdiff_versions, h.req.version) \in Seq(Names)
      BY <1>2, RequestFields, AppendFacts DEF TablesType, FindVersion, Handling
    <2> QED  BY <1>2, <2>1 DEF TablesType, FindVersion
  <1>3. CASE FindGroup
    <2>1. Append(webdiff_file_groups, h.req.group) \in Seq(Names)
      BY <1>3, RequestFields, AppendFacts DEF TablesType, FindGroup, Handling
    <2> QED  BY <1>3, <2>1 DEF TablesType, FindGroup
  <1>4. CASE FindDefineFile
    <2>1. /\ h.k \in Nat /\ h.vPath \in Seq(Names) /\ h.nDefineFileId \in Nat
          /\ h.k + 1 \in 1..Len(h.vPath)
      BY <1>4 DEF HandlerType, Locals, Paths, FindDefineFile
    <2>2. sNewFilePath \in Paths /\ h.vPath[h.k + 1] \in Names
      BY <2>1, PrefixFacts, ElementOfSeq DEF sNewFilePath, Paths
    <2>3. [filepath |-> sNewFilePath, filename |-> h.vPath[h.k + 1],
           parent_id |-> h.nDefineFileId] \in DefineFile
      BY <2>1, <2>2 DEF DefineFile
    <2>4. Append(webdiff_define_files,
                 [filepath |-> sNewFilePath, filename |-> h.vPath[h.k + 1],
                  parent_id |-> h.nDefineFileId]) \in Seq(DefineFile)
      BY <2>3, AppendFacts DEF TablesType
    <2> QED  BY <1>4, <2>4 DEF TablesType, FindDefineFile
  <1>5. CASE InsertFile
    <2>1. [version_id |-> h.nVersionId, file_group_id |-> h.nGroupId,
           define_file_id |-> h.nDefineFileId, parent_id |-> h.nFileParentId,
           amount_of_children |-> 0] \in File
      BY DEF HandlerType, Locals, File
    <2> QED  BY <1>5, <2>1, AppendFacts DEF TablesType, InsertFile
  <1>6. CASE UpdateParent
    <2>1. h.nAmountOfChildren \in Nat
      BY DEF HandlerType, Locals
    <2>2. ASSUME NEW f \in DOMAIN webdiff_files
          PROVE  [webdiff_files[f] EXCEPT !.amount_of_children = h.nAmountOfChildren] \in File
      <3>1. webdiff_files[f] \in File
        BY DEF TablesType
      <3> QED  BY <2>1, <3>1 DEF File
    <2>3. \A f \in DOMAIN webdiff_files : webdiff_files'[f] \in File
      BY <1>6, <2>2 DEF UpdateParent, TablesType
    <2> QED  BY <1>6, <2>3, UpdateFacts DEF UpdateParent, TablesType
  <1> QED  BY <1>1, <1>2, <1>3, <1>4, <1>5, <1>6 DEF Next, Step, LoadCache, Crash, Die, Receive,
              NextFile, ThrowOnEntry, FilesDone, Reply, PathDone, FindFile, CountChildren

\* A step keeps the types of the locals and of the history.
LEMMA HandlerStep ==
    ASSUME TypeOK, Next
    PROVE  HandlerType' /\ HistoryType'
  <1> USE DEF TypeOK
  <1>0. h \in Locals
    BY DEF HandlerType
  <1>1. CASE LoadCache
    BY <1>1 DEF HandlerType, HistoryType, LoadCache, Handling, history
  <1>2. ASSUME Die PROVE HandlerType' /\ HistoryType'
    <2>1. h.nFileParentId \in Nat
      BY <1>0 DEF Locals
    <2>2. HistoryType'
      BY <1>2, <2>1 DEF HistoryType, Die
    <2> QED  BY <1>2, <2>2, NoLocalsType, RequestsAssumption DEF HandlerType, Die, Handling
  <1>3. CASE Crash \/ ThrowOnEntry
    BY <1>2, <1>3 DEF Crash, ThrowOnEntry
  <1>4. ASSUME NEW r \in Requests, Receive(r) PROVE HandlerType' /\ HistoryType'
    <2>1. [NoLocals EXCEPT !.req = r] \in Locals /\ [NoLocals EXCEPT !.req = r].req = r
      BY NoLocalsType DEF Locals
    <2>2. /\ [NoLocals EXCEPT !.req = r, !.status = 400] \in Locals
          /\ [NoLocals EXCEPT !.req = r, !.status = 400].req = r
      BY <2>1, LocalsWithStatus, ZenonT(30)
    <2>3. h' \in Locals /\ h'.req = r
      BY <1>4, <2>1, <2>2 DEF Receive
    <2> QED  BY <1>4, <2>3 DEF HandlerType, HistoryType, Receive, Handling, history
  <1>5. CASE Reply
    BY <1>5, NoLocalsType, RequestsAssumption DEF HandlerType, HistoryType, Reply, Handling
  <1>6. ASSUME pc \in Handling, pc' \in Handling, h' \in Locals, h'.req = h.req,
               acked' = acked, interrupted' \subseteq Nat
        PROVE  HandlerType' /\ HistoryType'
    BY <1>6 DEF HandlerType, HistoryType
  <1>7. CASE FindVersion
    <2>1. (IF HasName(m_vVersions, h.req.version)
             THEN IdOfName(m_vVersions, h.req.version) ELSE InsertId(webdiff_versions)) \in Nat
      BY DEF CachesType, TablesType, NamedRow, HasName, IdOfName, InsertId
    <2>2. h' \in Locals /\ h'.req = h.req
      BY <1>0, <1>7, <2>1, SMTT(30) DEF FindVersion, Locals
    <2> QED  BY <1>6, <1>7, <2>2 DEF FindVersion, Handling, history, HistoryType
  <1>8. CASE FindGroup
    <2>1. (IF HasName(m_vGroups, h.req.group)
             THEN IdOfName(m_vGroups, h.req.group) ELSE InsertId(webdiff_file_groups)) \in Nat
      BY DEF CachesType, TablesType, NamedRow, HasName, IdOfName, InsertId
    <2>2. h' \in Locals /\ h'.req = h.req
      BY <1>0, <1>8, <2>1, SMTT(30) DEF FindGroup, Locals
    <2> QED  BY <1>6, <1>8, <2>2 DEF FindGroup, Handling, history, HistoryType
  <1>9. CASE NextFile
    <2>1. h.i \in Nat /\ h.i + 1 \in 1..Len(h.req.files)
      BY <1>0, <1>9, RequestFields DEF NextFile, Handling, Locals
    <2>2. h.req.files[h.i + 1] \in RawPaths
      BY <1>9, <2>1, RequestFields, ElementOfSeq DEF NextFile, Handling
    <2>3. Segments(h.req.files[h.i + 1]) \in Paths
      BY <2>2, SegmentsAssumption DEF Paths
    <2>4. h' \in Locals /\ h'.req = h.req
      <3>1. h.i + 1 \in Nat /\ 0 \in Nat
        BY <2>1
      <3>2. h' = [h EXCEPT !.i = h.i + 1, !.vPath = Segments(h.req.files[h.i + 1]), !.k = 0,
                           !.nDefineFileId = 0, !.nFileParentId = 0]
        BY <1>9 DEF NextFile
      <3> DEFINE x == [h EXCEPT !.i = h.i + 1]
                 y == [x EXCEPT !.vPath = Segments(h.req.files[h.i + 1])]
                 z == [y EXCEPT !.k = 0]
                 w == [z EXCEPT !.nDefineFileId = 0]
      <3>3. x \in Locals /\ x.req = h.req
        BY <1>0, <2>3, <3>1, LocalsWith
      <3>4. h' = [w EXCEPT !.nFileParentId = 0]
        BY <3>2
      <3> HIDE DEF x
      <3>5. y \in Locals /\ y.req = h.req
        BY <2>3, <3>1, <3>3, LocalsWith
      <3> HIDE DEF y
      <3>6. z \in Locals /\ z.req = h.req
        BY <2>3, <3>1, <3>5, LocalsWith
      <3> HIDE DEF z
      <3>7. w \in Locals /\ w.req = h.req
        BY <2>3, <3>1, <3>6, LocalsWith
      <3> HIDE DEF w
      <3> QED  BY <2>3, <3>1, <3>4, <3>7, LocalsWith
    <2> QED  BY <1>6, <1>9, <2>4 DEF NextFile, Handling, history, HistoryType
  <1>10. CASE FilesDone
    <2>1. h' \in Locals /\ h'.req = h.req
      BY <1>0, <1>10 DEF FilesDone, Locals
    <2> QED  BY <1>6, <1>10, <2>1 DEF FilesDone, Handling, history, HistoryType
  <1>11. CASE FindDefineFile
    <2>1. (IF sNewFilePath \in DOMAIN m_mapCacheFileDefinsIds
             THEN m_mapCacheFileDefinsIds[sNewFilePath] ELSE InsertId(webdiff_define_files)) \in Nat
      BY DEF CachesType, TablesType, InsertId
    <2>2. h' \in Locals /\ h'.req = h.req
      <3>1. PICK n \in Nat : h' = [h EXCEPT !.nDefineFileId = n]
        BY <1>11, <2>1 DEF FindDefineFile
      <3> QED  BY <1>0, <3>1 DEF Locals
    <2> QED  BY <1>6, <1>11, <2>2 DEF FindDefineFile, Handling, history, HistoryType
  <1>12. CASE PathDone
    BY <1>0, <1>6, <1>12 DEF PathDone, Handling, history, HistoryType
  <1>13. CASE FindFile
    <2>1. m_cacheGroups[hKey] \in Nat
      BY <1>13 DEF FindFile, CachesType
    <2>2. h' \in Locals /\ h'.req = h.req
      <3>1. h.k + 1 \in Nat
        BY <1>0 DEF Locals
      <3>2. h' = [h EXCEPT !.nFileParentId = m_cacheGroups[hKey], !.k = h.k + 1]
        BY <1>13 DEF FindFile
      <3> DEFINE x == [h EXCEPT !.nFileParentId = m_cacheGroups[hKey]]
      <3>3. <<>> \in Paths
        BY DEF Paths
      <3>4. x \in Locals /\ x.req = h.req
        BY <1>0, <2>1, <3>3, LocalsWith
      <3>5. h' = [x EXCEPT !.k = h.k + 1]
        BY <3>2
      <3> HIDE DEF x
      <3> QED  BY <3>1, <3>3, <3>4, <3>5, LocalsWith
    <2> QED  BY <1>6, <1>13, <2>2 DEF FindFile, Handling, history, HistoryType
  <1>14. CASE InsertFile
    <2>1. InsertId(webdiff_files) \in Nat
      BY DEF TablesType, InsertId
    <2>2. h' \in Locals /\ h'.req = h.req
      BY <1>0, <1>14, <2>1, SMTT(30) DEF InsertFile, Locals
    <2> QED  BY <1>6, <1>14, <2>2 DEF InsertFile, Handling, history, HistoryType
  <1>15. CASE CountChildren
    <2>1. Cardinality(Children(webdiff_files, h.nFileParentId)) \in Nat
      BY ChildrenFinite DEF TablesType
    <2>2. h' \in Locals /\ h'.req = h.req
      BY <1>0, <1>15, <2>1 DEF CountChildren, Locals
    <2> QED  BY <1>6, <1>15, <2>2 DEF CountChildren, Handling, history, HistoryType
  <1>16. CASE UpdateParent
    <2>1. h' \in Locals /\ h'.req = h.req
      <3>1. h.k + 1 \in Nat /\ 0 \in Nat
        BY <1>0 DEF Locals
      <3>2. h' = [h EXCEPT !.nFileParentId = h.nFileId, !.k = h.k + 1,
                           !.nFileId = 0, !.nAmountOfChildren = 0]
        BY <1>16 DEF UpdateParent
      <3>3. h.nFileId \in Nat
        BY <1>0 DEF Locals
      <3> DEFINE x == [h EXCEPT !.nFileParentId = h.nFileId]
                 y == [x EXCEPT !.k = h.k + 1]
                 z == [y EXCEPT !.nFileId = 0]
      <3>4. <<>> \in Paths
        BY DEF Paths
      <3>5. x \in Locals /\ x.req = h.req
        BY <1>0, <3>3, <3>4, LocalsWith
      <3>6. h' = [z EXCEPT !.nAmountOfChildren = 0]
        BY <3>2
      <3> HIDE DEF x
      <3>7. y \in Locals /\ y.req = h.req
        BY <3>1, <3>4, <3>5, LocalsWith
      <3> HIDE DEF y
      <3>8. z \in Locals /\ z.req = h.req
        BY <3>1, <3>4, <3>7, LocalsWith
      <3> HIDE DEF z
      <3> QED  BY <3>1, <3>4, <3>6, <3>8, LocalsWith
    <2> QED  BY <1>6, <1>16, <2>1 DEF UpdateParent, Handling, HistoryType
  <1> QED  BY <1>1, <1>3, <1>4, <1>5, <1>7, <1>8, <1>9, <1>10, <1>11, <1>12, <1>13, <1>14, <1>15,
              <1>16 DEF Next, Step

\* A step keeps the types of the caches; a reload does because rows are distinct.
LEMMA CachesStep ==
    ASSUME TypeOK, NoDuplicateRows, Next
    PROVE  CachesType'
  <1> USE DEF TypeOK
  <1>1. CASE UNCHANGED caches
    BY <1>1 DEF caches, CachesType
  <1>2. CASE Die
    BY <1>2 DEF Die, CachesType
  <1>3. CASE LoadCache
    <2>1. m_vVersions' \subseteq NamedRow /\ m_vGroups' \subseteq NamedRow
      BY <1>3 DEF TablesType, LoadCache, getApiVersionsAll, getGroupsAll, NamedRow
    <2>2. /\ DOMAIN m_mapCacheFileDefinsIds' \subseteq Paths
          /\ \A p \in DOMAIN m_mapCacheFileDefinsIds' : m_mapCacheFileDefinsIds'[p] \in Nat
      <3>1. ASSUME NEW d \in DOMAIN webdiff_define_files
            PROVE  webdiff_define_files[d].filepath \in Paths
        <4>1. webdiff_define_files[d] \in DefineFile
          BY DEF TablesType
        <4> QED  BY <4>1 DEF DefineFile
      <3>2. \A d \in DOMAIN webdiff_define_files : d \in Nat
        BY DEF TablesType
      <3> QED  BY <1>3, <3>1, <3>2, ReloadedIds DEF LoadCache, getDefineFilesCache
    <2>3. /\ DOMAIN m_cacheGroups' \subseteq Nat \X Nat \X Nat
          /\ \A key \in DOMAIN m_cacheGroups' : m_cacheGroups'[key] \in Nat
      <3>1. ASSUME NEW f \in DOMAIN webdiff_files
            PROVE  FileKey(webdiff_files[f]) \in Nat \X Nat \X Nat
        <4>1. webdiff_files[f] \in File
          BY DEF TablesType
        <4> QED  BY <4>1 DEF File, FileKey
      <3>2. \A f \in DOMAIN webdiff_files : f \in Nat
        BY DEF TablesType
      <3> QED  BY <1>3, <3>1, <3>2, ReloadedIds DEF LoadCache, loadFilesIds
    <2> QED  BY <2>1, <2>2, <2>3 DEF CachesType
  <1>4. CASE FindVersion
    <2>1. [id |-> InsertId(webdiff_versions), name |-> h.req.version] \in NamedRow
      BY <1>4, RequestFields DEF FindVersion, Handling, TablesType, InsertId, NamedRow
    <2> QED  BY <1>4, <2>1 DEF FindVersion, CachesType
  <1>5. CASE FindGroup
    <2>1. [id |-> InsertId(webdiff_file_groups), name |-> h.req.group] \in NamedRow
      BY <1>5, RequestFields DEF FindGroup, Handling, TablesType, InsertId, NamedRow
    <2> QED  BY <1>5, <2>1 DEF FindGroup, CachesType
  <1>6. CASE FindDefineFile
    <2>1. sNewFilePath \in Paths
      BY <1>6, PrefixFacts, SMTT(30) DEF HandlerType, Locals, Paths, FindDefineFile, sNewFilePath
    <2>2. InsertId(webdiff_define_files) \in Nat
      BY DEF TablesType, InsertId
    <2> QED  BY <1>6, <2>1, <2>2, SMTT(30) DEF FindDefineFile, CachesType, Put
  <1>7. CASE UpdateParent
    <2>1. hKey \in Nat \X Nat \X Nat /\ h.nFileId \in Nat
      BY DEF hKey, HandlerType, Locals
    <2> QED  BY <1>7, <2>1 DEF UpdateParent, CachesType, Put
  <1> QED  BY <1>1, <1>2, <1>3, <1>4, <1>5, <1>6, <1>7 DEF Next, Step, Crash, Receive, NextFile,
              ThrowOnEntry, FilesDone, Reply, PathDone, FindFile, InsertFile, CountChildren

\* What a step does to the rows of webdiff_files, as far as their keys go.
LEMMA UpdateKeepsKeys ==
    ASSUME TypeOK, UpdateParent
    PROVE  /\ DOMAIN webdiff_files' = DOMAIN webdiff_files
           /\ \A f \in DOMAIN webdiff_files :
                 /\ FileKey(webdiff_files'[f]) = FileKey(webdiff_files[f])
                 /\ webdiff_files'[f].parent_id = webdiff_files[f].parent_id
                 /\ webdiff_files'[f].version_id = webdiff_files[f].version_id
                 /\ webdiff_files'[f].file_group_id = webdiff_files[f].file_group_id
                 /\ webdiff_files'[f].define_file_id = webdiff_files[f].define_file_id
  <1>1. DOMAIN webdiff_files' = DOMAIN webdiff_files
    BY DEF UpdateParent
  <1>2. ASSUME NEW f \in DOMAIN webdiff_files
        PROVE  /\ FileKey(webdiff_files'[f]) = FileKey(webdiff_files[f])
               /\ webdiff_files'[f].parent_id = webdiff_files[f].parent_id
               /\ webdiff_files'[f].version_id = webdiff_files[f].version_id
               /\ webdiff_files'[f].file_group_id = webdiff_files[f].file_group_id
               /\ webdiff_files'[f].define_file_id = webdiff_files[f].define_file_id
    <2>1. webdiff_files[f] \in File
      BY DEF TypeOK, TablesType
    <2>2. \/ webdiff_files'[f] = webdiff_files[f]
          \/ webdiff_files'[f] =
                [webdiff_files[f] EXCEPT !.amount_of_children = h.nAmountOfChildren]
      BY DEF UpdateParent
    <2> QED  BY <2>1, <2>2 DEF File, FileKey
  <1> QED  BY <1>1, <1>2

\* The row that InsertFile appends, and the rows before it.
LEMMA InsertedRow ==
    ASSUME TypeOK, InsertFile
    PROVE  LET n == Len(webdiff_files) + 1 IN
           /\ DOMAIN webdiff_files = 1..Len(webdiff_files) /\ Len(webdiff_files) \in Nat
           /\ DOMAIN webdiff_files' = 1..n
           /\ \A f \in DOMAIN webdiff_files : webdiff_files'[f] = webdiff_files[f]
           /\ FileKey(webdiff_files'[n]) = hKey
           /\ webdiff_files'[n].version_id = h.nVersionId
           /\ webdiff_files'[n].file_group_id = h.nGroupId
           /\ webdiff_files'[n].define_file_id = h.nDefineFileId
           /\ webdiff_files'[n].parent_id = h.nFileParentId
           /\ webdiff_files'[n].amount_of_children = 0
  <1> DEFINE row == [version_id |-> h.nVersionId, file_group_id |-> h.nGroupId,
                     define_file_id |-> h.nDefineFileId, parent_id |-> h.nFileParentId,
                     amount_of_children |-> 0]
  <1>1. row \in File
    BY DEF TypeOK, HandlerType, Locals, File
  <1>2. webdiff_files' = Append(webdiff_files, row)
    BY DEF InsertFile
  <1>3. webdiff_files \in Seq(File)
    BY DEF TypeOK, TablesType
  <1>4. /\ DOMAIN webdiff_files = 1..Len(webdiff_files) /\ Len(webdiff_files) \in Nat
        /\ DOMAIN webdiff_files' = 1..(Len(webdiff_files) + 1)
        /\ \A f \in DOMAIN webdiff_files : webdiff_files'[f] = webdiff_files[f]
        /\ webdiff_files'[Len(webdiff_files) + 1] = row
    <2> HIDE DEF row
    <2> QED  BY <1>1, <1>2, <1>3, AppendFacts
  <1> QED  BY <1>4 DEF FileKey, hKey

\* The row that FindDefineFile appends on a miss, and the rows before it.
LEMMA InsertedDefine ==
    ASSUME TypeOK, FindDefineFile, sNewFilePath \notin DOMAIN m_mapCacheFileDefinsIds
    PROVE  LET n == Len(webdiff_define_files) + 1 IN
           /\ DOMAIN webdiff_define_files = 1..Len(webdiff_define_files)
           /\ Len(webdiff_define_files) \in Nat
           /\ DOMAIN webdiff_define_files' = 1..n
           /\ \A d \in DOMAIN webdiff_define_files : webdiff_define_files'[d] = webdiff_define_files[d]
           /\ webdiff_define_files'[n].filepath = sNewFilePath
           /\ webdiff_define_files'[n].filename = h.vPath[h.k + 1]
           /\ webdiff_define_files'[n].parent_id = h.nDefineFileId
  <1> DEFINE row == [filepath |-> sNewFilePath, filename |-> h.vPath[h.k + 1],
                     parent_id |-> h.nDefineFileId]
  <1>1. webdiff_define_files' = Append(webdiff_define_files, row)
    BY DEF FindDefineFile
  <1>2. webdiff_define_files \in Seq(DefineFile)
    BY DEF TypeOK, TablesType
  <1>3. row \in DefineFile
    <2>1. /\ h.k \in Nat /\ h.vPath \in Seq(Names) /\ h.nDefineFileId \in Nat
          /\ h.k + 1 \in 1..Len(h.vPath)
      BY DEF TypeOK, HandlerType, Locals, Paths, FindDefineFile
    <2>2. sNewFilePath \in Paths /\ h.vPath[h.k + 1] \in Names
      BY <2>1, PrefixFacts, ElementOfSeq DEF sNewFilePath, Paths
    <2> QED  BY <2>1, <2>2 DEF DefineFile
  <1>4. /\ DOMAIN webdiff_define_files = 1..Len(webdiff_define_files)
        /\ Len(webdiff_define_files) \in Nat
        /\ DOMAIN webdiff_define_files' = 1..(Len(webdiff_define_files) + 1)
        /\ \A d \in DOMAIN webdiff_define_files : webdiff_define_files'[d] = webdiff_define_files[d]
        /\ webdiff_define_files'[Len(webdiff_define_files) + 1] = row
    <2> HIDE DEF row
    <2> QED  BY <1>1, <1>2, <1>3, AppendFacts
  <1> QED  BY <1>4

\* What a name the process looks up in m_vVersions or m_vGroups says of the
\* table behind it: a miss means no row has it, a hit is that row's id.
LEMMA NamedRows ==
    ASSUME NEW t \in Seq(Names), NEW name \in Names,
           NEW rows, rows = {[id |-> i, name |-> t[i]] : i \in DOMAIN t}
    PROVE  /\ ~HasName(rows, name) => \A i \in DOMAIN t : t[i] # name
           /\ HasName(rows, name) => /\ IdOfName(rows, name) \in DOMAIN t
                                     /\ t[IdOfName(rows, name)] = name
  <1>1. ASSUME ~HasName(rows, name), NEW i \in DOMAIN t PROVE t[i] # name
    <2>1. [id |-> i, name |-> t[i]] \in rows
      OBVIOUS
    <2> QED  BY <1>1, <2>1 DEF HasName
  <1>2. ASSUME HasName(rows, name)
        PROVE  IdOfName(rows, name) \in DOMAIN t /\ t[IdOfName(rows, name)] = name
    <2> DEFINE r == CHOOSE r \in rows : r.name = name
    <2>1. r \in rows /\ r.name = name
      BY <1>2 DEF HasName
    <2>2. PICK i \in DOMAIN t : r = [id |-> i, name |-> t[i]]
      BY <2>1
    <2>3. IdOfName(rows, name) = r.id
      BY Zenon DEF IdOfName
    <2> HIDE DEF r
    <2> QED  BY <2>1, <2>2, <2>3
  <1> QED  BY <1>1, <1>2

\* A name that is not in a table without duplicates may be appended to it.
LEMMA AppendNewName ==
    ASSUME NEW t \in Seq(Names), NEW name \in Names, \A i \in DOMAIN t : t[i] # name,
           \A i, j \in DOMAIN t : t[i] = t[j] => i = j
    PROVE  \A i, j \in DOMAIN Append(t, name) : Append(t, name)[i] = Append(t, name)[j] => i = j
  BY AppendFacts

\* The cached rows of a table after an INSERT are the rows of the longer table.
LEMMA AppendCachedName ==
    ASSUME NEW t \in Seq(Names), NEW name \in Names
    PROVE  {[id |-> i, name |-> t[i]] : i \in DOMAIN t} \cup {[id |-> InsertId(t), name |-> name]}
              = {[id |-> i, name |-> Append(t, name)[i]] : i \in DOMAIN Append(t, name)}
  <1>1. /\ Len(t) \in Nat /\ DOMAIN t = 1..Len(t)
        /\ DOMAIN Append(t, name) = DOMAIN t \cup {InsertId(t)}
        /\ \A n \in DOMAIN t : Append(t, name)[n] = t[n]
        /\ Append(t, name)[InsertId(t)] = name
    BY AppendFacts DEF InsertId
  <1> QED  BY <1>1

\* A step keeps the rows of every table distinct: it inserts a row only after a
\* miss in a cache that holds every row.
LEMMA DuplicatesStep ==
    ASSUME RowsInv, Next
    PROVE  NoDuplicateRows'
  <1> USE DEF RowsInv
  <1>1. CASE UNCHANGED tables
    BY <1>1 DEF tables, NoDuplicateRows
  <1>2. CASE FindVersion
    <2>1. h.req.version \in Names /\ webdiff_versions \in Seq(Names)
      BY <1>2, RequestFields DEF TypeOK, TablesType, FindVersion, Handling
    <2>2. ~HasName(m_vVersions, h.req.version) =>
             \A i \in DOMAIN webdiff_versions : webdiff_versions[i] # h.req.version
      BY <1>2, <2>1, NamedRows DEF CacheMirrorsTables, FindVersion
    <2>3. \A i, j \in DOMAIN webdiff_versions' : webdiff_versions'[i] = webdiff_versions'[j] => i = j
      BY <1>2, <2>1, <2>2, AppendNewName DEF FindVersion, NoDuplicateRows
    <2> QED  BY <1>2, <2>3 DEF FindVersion, NoDuplicateRows
  <1>3. CASE FindGroup
    <2>1. h.req.group \in Names /\ webdiff_file_groups \in Seq(Names)
      BY <1>3, RequestFields DEF TypeOK, TablesType, FindGroup, Handling
    <2>2. ~HasName(m_vGroups, h.req.group) =>
             \A i \in DOMAIN webdiff_file_groups : webdiff_file_groups[i] # h.req.group
      BY <1>3, <2>1, NamedRows DEF CacheMirrorsTables, FindGroup
    <2>3. \A i, j \in DOMAIN webdiff_file_groups' :
             webdiff_file_groups'[i] = webdiff_file_groups'[j] => i = j
      BY <1>3, <2>1, <2>2, AppendNewName DEF FindGroup, NoDuplicateRows
    <2> QED  BY <1>3, <2>3 DEF FindGroup, NoDuplicateRows
  <1>4. CASE FindDefineFile
    <2>1. CASE sNewFilePath \in DOMAIN m_mapCacheFileDefinsIds
      BY <1>4, <2>1 DEF FindDefineFile, NoDuplicateRows
    <2>2. CASE sNewFilePath \notin DOMAIN m_mapCacheFileDefinsIds
      <3>1. \A i \in DOMAIN webdiff_define_files : webdiff_define_files[i].filepath # sNewFilePath
        BY <1>4, <2>2 DEF CacheMirrorsTables, FindDefineFile
      <3>2. \A i, j \in DOMAIN webdiff_define_files' :
               webdiff_define_files'[i].filepath = webdiff_define_files'[j].filepath => i = j
        BY <1>4, <2>2, <3>1, InsertedDefine DEF NoDuplicateRows
      <3> QED  BY <1>4, <3>2 DEF FindDefineFile, NoDuplicateRows
    <2> QED  BY <2>1, <2>2
  <1>5. CASE InsertFile
    <2>1. \A i \in DOMAIN webdiff_files : FileKey(webdiff_files[i]) # hKey
      BY <1>5 DEF CacheMirrorsTables, InsertFile, Uncached
    <2>2. \A i, j \in DOMAIN webdiff_files' :
             FileKey(webdiff_files'[i]) = FileKey(webdiff_files'[j]) => i = j
      BY <1>5, <2>1, InsertedRow DEF NoDuplicateRows
    <2> QED  BY <1>5, <2>2 DEF InsertFile, NoDuplicateRows
  <1>6. CASE UpdateParent
    <2>1. \A i, j \in DOMAIN webdiff_files' :
             FileKey(webdiff_files'[i]) = FileKey(webdiff_files'[j]) => i = j
      BY <1>6, UpdateKeepsKeys DEF NoDuplicateRows
    <2> QED  BY <1>6, <2>1 DEF UpdateParent, NoDuplicateRows
  <1> QED  BY <1>1, <1>2, <1>3, <1>4, <1>5, <1>6 DEF Next, Step, LoadCache, Crash, Die, Receive,
              NextFile, ThrowOnEntry, FilesDone, Reply, PathDone, FindFile, CountChildren

\* A step keeps the caches equal to the tables, the reload after a crash included.
LEMMA MirrorStep ==
    ASSUME RowsInv, Next
    PROVE  CacheMirrorsTables'
  <1> USE DEF RowsInv
  <1>1. CASE UNCHANGED <<tables, caches>> /\ pc # "down" /\ Uncached' = Uncached
    BY <1>1 DEF tables, caches, CacheMirrorsTables
  <1>2. CASE Die
    BY <1>2 DEF Die, CacheMirrorsTables
  <1>3. CASE LoadCache
    <2>1. Uncached' = {}
      BY <1>3 DEF LoadCache, Uncached
    <2>2. /\ \A i \in DOMAIN webdiff_define_files :
                /\ webdiff_define_files[i].filepath \in DOMAIN m_mapCacheFileDefinsIds'
                /\ m_mapCacheFileDefinsIds'[webdiff_define_files[i].filepath] = i
          /\ \A p \in DOMAIN m_mapCacheFileDefinsIds' :
                \E i \in DOMAIN webdiff_define_files : webdiff_define_files[i].filepath = p
      BY <1>3, ReloadedIds DEF LoadCache, getDefineFilesCache, TypeOK
    <2>3. /\ \A i \in DOMAIN webdiff_files :
                /\ FileKey(webdiff_files[i]) \in DOMAIN m_cacheGroups'
                /\ m_cacheGroups'[FileKey(webdiff_files[i])] = i
          /\ \A key \in DOMAIN m_cacheGroups' :
                \E i \in DOMAIN webdiff_files : FileKey(webdiff_files[i]) = key
      BY <1>3, ReloadedIds DEF LoadCache, loadFilesIds, TypeOK
    <2> QED  BY <1>3, <2>1, <2>2, <2>3 DEF LoadCache, getApiVersionsAll, getGroupsAll, tables,
                  CacheMirrorsTables
  <1>4. CASE FindVersion
    <2>1. h.req.version \in Names /\ webdiff_versions \in Seq(Names)
      BY <1>4, RequestFields DEF TypeOK, TablesType, FindVersion, Handling
    <2>2. m_vVersions' = {[id |-> i, name |-> webdiff_versions'[i]] : i \in DOMAIN webdiff_versions'}
      BY <1>4, <2>1, AppendCachedName DEF FindVersion, CacheMirrorsTables
    <2>3. Uncached = {} /\ Uncached' = {}
      BY <1>4 DEF FindVersion, Uncached
    <2> QED  BY <1>4, <2>2, <2>3 DEF FindVersion, CacheMirrorsTables
  <1>5. CASE FindGroup
    <2>1. h.req.group \in Names /\ webdiff_file_groups \in Seq(Names)
      BY <1>5, RequestFields DEF TypeOK, TablesType, FindGroup, Handling
    <2>2. m_vGroups' = {[id |-> i, name |-> webdiff_file_groups'[i]] : i \in DOMAIN webdiff_file_groups'}
      BY <1>5, <2>1, AppendCachedName DEF FindGroup, CacheMirrorsTables
    <2>3. Uncached = {} /\ Uncached' = {}
      BY <1>5 DEF FindGroup, Uncached
    <2> QED  BY <1>5, <2>2, <2>3 DEF FindGroup, CacheMirrorsTables
  <1>6. CASE FindDefineFile
    <2>1. Uncached = {} /\ Uncached' = {}
      BY <1>6 DEF FindDefineFile, Uncached
    <2>2. CASE sNewFilePath \in DOMAIN m_mapCacheFileDefinsIds
      BY <1>6, <2>1, <2>2 DEF FindDefineFile, CacheMirrorsTables
    <2>3. CASE sNewFilePath \notin DOMAIN m_mapCacheFileDefinsIds
      <3>1. /\ DOMAIN m_mapCacheFileDefinsIds' = DOMAIN m_mapCacheFileDefinsIds \cup {sNewFilePath}
            /\ m_mapCacheFileDefinsIds'[sNewFilePath] = Len(webdiff_define_files) + 1
            /\ \A p \in DOMAIN m_mapCacheFileDefinsIds :
                  m_mapCacheFileDefinsIds'[p] = m_mapCacheFileDefinsIds[p]
        BY <1>6, <2>3 DEF FindDefineFile, Put, InsertId
      <3>2. /\ \A i \in DOMAIN webdiff_define_files :
                  /\ webdiff_define_files[i].filepath \in DOMAIN m_mapCacheFileDefinsIds
                  /\ m_mapCacheFileDefinsIds[webdiff_define_files[i].filepath] = i
            /\ \A p \in DOMAIN m_mapCacheFileDefinsIds :
                  \E i \in DOMAIN webdiff_define_files : webdiff_define_files[i].filepath = p
        BY <1>6 DEF FindDefineFile, CacheMirrorsTables
      <3>3. \A i \in DOMAIN webdiff_define_files' :
               /\ webdiff_define_files'[i].filepath \in DOMAIN m_mapCacheFileDefinsIds'
               /\ m_mapCacheFileDefinsIds'[webdiff_define_files'[i].filepath] = i
        BY <1>6, <2>3, <3>1, <3>2, InsertedDefine
      <3>4. \A p \in DOMAIN m_mapCacheFileDefinsIds' :
               \E i \in DOMAIN webdiff_define_files' : webdiff_define_files'[i].filepath = p
        BY <1>6, <2>3, <3>1, <3>2, InsertedDefine
      <3>5. /\ UNCHANGED <<webdiff_versions, webdiff_file_groups, webdiff_files,
                            m_vVersions, m_vGroups, m_cacheGroups>>
            /\ pc # "down"
        BY <1>6 DEF FindDefineFile
      <3> QED  BY <2>1, <3>3, <3>4, <3>5 DEF CacheMirrorsTables
    <2> QED  BY <2>2, <2>3
  <1>7. CASE InsertFile
    <2>1. Uncached = {} /\ Uncached' = {Len(webdiff_files) + 1}
      <3>1. h'.nFileId = Len(webdiff_files) + 1
        BY <1>7 DEF InsertFile, InsertId, TypeOK, HandlerType, Locals
      <3> QED  BY <1>7, <3>1 DEF InsertFile, Uncached
    <2>2. /\ DOMAIN webdiff_files' \ Uncached' = DOMAIN webdiff_files
          /\ \A i \in DOMAIN webdiff_files : webdiff_files'[i] = webdiff_files[i]
      BY <1>7, <2>1, InsertedRow
    <2> QED  BY <1>7, <2>1, <2>2 DEF InsertFile, caches, CacheMirrorsTables
  <1>8. CASE UpdateParent
    <2>1. /\ Uncached = {h.nFileId} /\ Uncached' = {}
          /\ h.nFileId \in DOMAIN webdiff_files
          /\ FileKey(webdiff_files[h.nFileId]) = hKey
      BY <1>8 DEF UpdateParent, Uncached, HandlerRows
    <2>2. /\ DOMAIN m_cacheGroups' = DOMAIN m_cacheGroups \cup {hKey}
          /\ m_cacheGroups'[hKey] = h.nFileId
          /\ \A key \in DOMAIN m_cacheGroups : key # hKey => m_cacheGroups'[key] = m_cacheGroups[key]
      BY <1>8 DEF UpdateParent, Put
    <2>3. \A i \in DOMAIN webdiff_files' :
             /\ FileKey(webdiff_files'[i]) \in DOMAIN m_cacheGroups'
             /\ m_cacheGroups'[FileKey(webdiff_files'[i])] = i
      BY <1>8, <2>1, <2>2, UpdateKeepsKeys DEF UpdateParent, CacheMirrorsTables, NoDuplicateRows
    <2>4. \A key \in DOMAIN m_cacheGroups' :
             \E i \in DOMAIN webdiff_files' : FileKey(webdiff_files'[i]) = key
      BY <1>8, <2>1, <2>2, UpdateKeepsKeys DEF UpdateParent, CacheMirrorsTables
    <2> QED  BY <1>8, <2>1, <2>3, <2>4 DEF UpdateParent, CacheMirrorsTables
  <1>9. CASE CountChildren
    <2>1. h'.nFileId = h.nFileId
      BY <1>9 DEF CountChildren, TypeOK, HandlerType, Locals
    <2> QED  BY <1>1, <1>9, <2>1 DEF CountChildren, Uncached
  <1> QED  BY <1>1, <1>2, <1>3, <1>4, <1>5, <1>6, <1>7, <1>8, <1>9 DEF Next, Step, Crash, Receive,
              NextFile, ThrowOnEntry, FilesDone, Reply, PathDone, FindFile, Uncached

\* A step of the handler keeps knowing the rows it works on by their ids.
LEMMA HandlerRowsStep ==
    ASSUME RowsInv, Next
    PROVE  HandlerRows'
  <1> USE DEF RowsInv
  <1>0. h \in Locals
    BY DEF TypeOK, HandlerType
  <1>1. CASE pc' \in {"down", "idle", "version", "reply"}
    BY <1>1 DEF HandlerRows, InPath
  <1>2. CASE FindVersion
    <2>1. h.req.version \in Names /\ webdiff_versions \in Seq(Names)
      BY <1>2, RequestFields DEF TypeOK, TablesType, FindVersion, Handling
    <2>2. CASE HasName(m_vVersions, h.req.version)
      <3> DEFINE id == IdOfName(m_vVersions, h.req.version)
      <3>1. id \in DOMAIN webdiff_versions /\ webdiff_versions[id] = h.req.version
        BY <1>2, <2>1, <2>2, NamedRows DEF FindVersion, CacheMirrorsTables
      <3>2. h' = [h EXCEPT !.nVersionId = id] /\ webdiff_versions' = webdiff_versions /\ pc' = "group"
        BY <1>2, <2>2 DEF FindVersion
      <3> HIDE DEF id
      <3> QED  BY <1>0, <3>1, <3>2 DEF HandlerRows, InPath, Locals
    <2>3. CASE ~HasName(m_vVersions, h.req.version)
      <3> DEFINE id == InsertId(webdiff_versions)
      <3>1. id \in DOMAIN webdiff_versions' /\ webdiff_versions'[id] = h.req.version
        BY <1>2, <2>1, <2>3, AppendFacts DEF FindVersion, InsertId
      <3>2. h' = [h EXCEPT !.nVersionId = id] /\ pc' = "group"
        BY <1>2, <2>3 DEF FindVersion
      <3> HIDE DEF id
      <3> QED  BY <1>0, <3>1, <3>2 DEF HandlerRows, InPath, Locals
    <2> QED  BY <2>2, <2>3
  <1>3. CASE FindGroup
    <2>1. h.req.group \in Names /\ webdiff_file_groups \in Seq(Names)
      BY <1>3, RequestFields DEF TypeOK, TablesType, FindGroup, Handling
    <2>2. /\ h.nVersionId \in DOMAIN webdiff_versions
          /\ webdiff_versions[h.nVersionId] = h.req.version
          /\ webdiff_versions' = webdiff_versions /\ pc' = "files"
      BY <1>3 DEF FindGroup, HandlerRows
    <2>3. PICK id : /\ h' = [h EXCEPT !.nGroupId = id]
                    /\ id \in DOMAIN webdiff_file_groups'
                    /\ webdiff_file_groups'[id] = h.req.group
      <3>1. CASE HasName(m_vGroups, h.req.group)
        BY <1>3, <2>1, <3>1, NamedRows DEF FindGroup, CacheMirrorsTables
      <3>2. CASE ~HasName(m_vGroups, h.req.group)
        BY <1>3, <2>1, <3>2, AppendFacts DEF FindGroup, InsertId
      <3> QED  BY <3>1, <3>2
    <2> QED  BY <1>0, <2>2, <2>3 DEF HandlerRows, InPath, Locals
  <1>4. CASE NextFile
    <2>1. /\ h'.req = h.req /\ h'.nVersionId = h.nVersionId /\ h'.nGroupId = h.nGroupId
          /\ h'.k = 0 /\ h'.nFileParentId = 0 /\ h'.nDefineFileId = 0
      BY <1>0, <1>4 DEF NextFile, Locals
    <2>2. h'.k <= Len(h'.vPath)
      <3>1. h'.vPath \in Seq(Names)
        BY HandlerStep DEF HandlerType, Locals, Paths
      <3> QED  BY <2>1, <3>1
    <2>3. pc = "files" /\ pc' = "define" /\ UNCHANGED tables
      BY <1>4 DEF NextFile
    <2> QED  BY <2>1, <2>2, <2>3 DEF tables, HandlerRows, InPath, IsRowOfPrefix, IsDefineOfPrefix
  <1>5. CASE PathDone
    BY <1>5 DEF PathDone, tables, HandlerRows, InPath
  <1>6. CASE CountChildren
    <2>1. h' = [h EXCEPT !.nAmountOfChildren = Cardinality(Children(webdiff_files, h.nFileParentId))]
      BY <1>6 DEF CountChildren
    <2>2. /\ h'.req = h.req /\ h'.nVersionId = h.nVersionId /\ h'.nGroupId = h.nGroupId
          /\ h'.k = h.k /\ h'.vPath = h.vPath /\ h'.nFileParentId = h.nFileParentId
          /\ h'.nDefineFileId = h.nDefineFileId /\ h'.nFileId = h.nFileId
      BY <1>0, <2>1 DEF Locals
    <2>3. pc = "count" /\ pc' = "update" /\ UNCHANGED tables
      BY <1>6 DEF CountChildren
    <2> QED  BY <2>2, <2>3 DEF tables, HandlerRows, InPath, IsRowOfPrefix, IsDefineOfPrefix, hKey
  <1>7. CASE FindDefineFile
    <2>1. PICK id : /\ h' = [h EXCEPT !.nDefineFileId = id]
                    /\ id \in DOMAIN webdiff_define_files'
                    /\ webdiff_define_files'[id].filepath = sNewFilePath
      <3>1. CASE sNewFilePath \in DOMAIN m_mapCacheFileDefinsIds
        BY <1>7, <3>1 DEF FindDefineFile, CacheMirrorsTables
      <3>2. CASE sNewFilePath \notin DOMAIN m_mapCacheFileDefinsIds
        <4>1. h' = [h EXCEPT !.nDefineFileId = Len(webdiff_define_files) + 1]
          BY <1>7, <3>2 DEF FindDefineFile, InsertId
        <4> QED  BY <1>7, <3>2, <4>1, InsertedDefine
      <3> QED  BY <3>1, <3>2
    <2>2. /\ h'.req = h.req /\ h'.nVersionId = h.nVersionId /\ h'.nGroupId = h.nGroupId
          /\ h'.k = h.k /\ h'.vPath = h.vPath /\ h'.nFileParentId = h.nFileParentId
          /\ h'.nDefineFileId = id /\ h.k \in Nat
      BY <1>0, <2>1 DEF Locals
    <2>3. \A d \in DOMAIN webdiff_define_files :
             d \in DOMAIN webdiff_define_files' /\ webdiff_define_files'[d] = webdiff_define_files[d]
      <3>1. CASE sNewFilePath \in DOMAIN m_mapCacheFileDefinsIds
        BY <1>7, <3>1 DEF FindDefineFile
      <3>2. CASE sNewFilePath \notin DOMAIN m_mapCacheFileDefinsIds
        BY <1>7, <3>2, InsertedDefine
      <3> QED  BY <3>1, <3>2
    <2>4. /\ pc = "define" /\ pc' = "row" /\ h.k < Len(h.vPath)
          /\ UNCHANGED <<webdiff_versions, webdiff_file_groups, webdiff_files>>
      BY <1>7 DEF FindDefineFile
    <2>5. IsRowOfPrefix(h.nFileParentId, h.k)'
      BY <2>2, <2>3, <2>4 DEF HandlerRows, InPath, IsRowOfPrefix
    <2>6. (h.k < Len(h.vPath) /\ IsDefineOfPrefix(h.nDefineFileId, h.k + 1))'
      BY <2>1, <2>2, <2>4 DEF IsDefineOfPrefix, sNewFilePath
    <2>7. (h.k <= Len(h.vPath))'
      BY <2>2, <2>4 DEF HandlerRows, InPath
    <2> QED  BY <2>2, <2>4, <2>5, <2>6, <2>7 DEF HandlerRows, InPath
  <1>8. ASSUME pc \in {"row", "update"}, pc' = "define",
               UNCHANGED <<webdiff_versions, webdiff_file_groups, webdiff_define_files>>,
               h'.req = h.req, h'.nVersionId = h.nVersionId, h'.nGroupId = h.nGroupId,
               h'.vPath = h.vPath, h'.nDefineFileId = h.nDefineFileId, h'.k = h.k + 1,
               h'.nFileParentId \in DOMAIN webdiff_files',
               webdiff_files'[h'.nFileParentId].version_id = h.nVersionId,
               webdiff_files'[h'.nFileParentId].file_group_id = h.nGroupId,
               webdiff_files'[h'.nFileParentId].define_file_id = h.nDefineFileId
        PROVE  HandlerRows'
    <2>1. h.k \in Nat /\ Len(h.vPath) \in Nat
      BY <1>0 DEF Locals, Paths
    <2>2. /\ h.k < Len(h.vPath) /\ h.nDefineFileId \in DOMAIN webdiff_define_files
          /\ webdiff_define_files[h.nDefineFileId].filepath = SubSeq(h.vPath, 1, h.k + 1)
      BY <1>8, <2>1 DEF HandlerRows, IsDefineOfPrefix
    <2>3. IsRowOfPrefix(h.nFileParentId, h.k)'
      BY <1>8, <2>1, <2>2 DEF IsRowOfPrefix
    <2>4. IsDefineOfPrefix(h.nDefineFileId, h.k)'
      BY <1>8, <2>1, <2>2 DEF IsDefineOfPrefix
    <2>5. (h.k <= Len(h.vPath))'
      BY <1>8, <2>1, <2>2
    <2> QED  BY <1>8, <2>3, <2>4, <2>5 DEF HandlerRows, InPath
  <1>9. CASE FindFile
    <2> DEFINE id == m_cacheGroups[hKey]
    <2>1. id \in DOMAIN webdiff_files /\ FileKey(webdiff_files[id]) = hKey
      BY <1>9 DEF FindFile, CacheMirrorsTables, Uncached
    <2>2. /\ webdiff_files[id].version_id = h.nVersionId
          /\ webdiff_files[id].file_group_id = h.nGroupId
          /\ webdiff_files[id].define_file_id = h.nDefineFileId
      BY <2>1 DEF FileKey, hKey
    <2>3. h' = [h EXCEPT !.nFileParentId = id, !.k = h.k + 1] /\ pc = "row" /\ pc' = "define"
          /\ UNCHANGED tables
      BY <1>9 DEF FindFile
    <2> HIDE DEF id
    <2>4. /\ h'.req = h.req /\ h'.nVersionId = h.nVersionId /\ h'.nGroupId = h.nGroupId
          /\ h'.k = h.k + 1 /\ h'.vPath = h.vPath /\ h'.nFileParentId = id
          /\ h'.nDefineFileId = h.nDefineFileId
      BY <1>0, <2>3 DEF Locals
    <2> QED  BY <1>8, <2>1, <2>2, <2>3, <2>4 DEF tables
  <1>10. CASE InsertFile
    <2> DEFINE n == Len(webdiff_files) + 1
    <2>1. h' = [h EXCEPT !.nFileId = n] /\ pc = "row" /\ pc' = "count"
          /\ UNCHANGED <<webdiff_versions, webdiff_file_groups, webdiff_define_files>>
      BY <1>10 DEF InsertFile, InsertId
    <2>2. /\ h'.req = h.req /\ h'.nVersionId = h.nVersionId /\ h'.nGroupId = h.nGroupId
          /\ h'.k = h.k /\ h'.vPath = h.vPath /\ h'.nFileParentId = h.nFileParentId
          /\ h'.nDefineFileId = h.nDefineFileId /\ h'.nFileId = n
      BY <1>0, <2>1 DEF Locals
    <2>3. /\ n \in DOMAIN webdiff_files'
          /\ FileKey(webdiff_files'[n]) = hKey
          /\ webdiff_files'[n].parent_id = h.nFileParentId
          /\ \A f \in DOMAIN webdiff_files :
                f \in DOMAIN webdiff_files' /\ webdiff_files'[f] = webdiff_files[f]
      BY <1>10, InsertedRow
    <2> HIDE DEF n
    <2>4. IsRowOfPrefix(h.nFileParentId, h.k)'
      BY <2>1, <2>2, <2>3 DEF HandlerRows, InPath, IsRowOfPrefix
    <2>5. IsDefineOfPrefix(h.nDefineFileId, h.k + 1)'
      BY <2>1, <2>2 DEF HandlerRows, InPath, IsDefineOfPrefix
    <2>6. hKey' = hKey
      BY <2>2 DEF hKey
    <2> QED  BY <2>1, <2>2, <2>3, <2>4, <2>5, <2>6 DEF HandlerRows, InPath
  <1>11. CASE UpdateParent
    <2>1. /\ h'.req = h.req /\ h'.nVersionId = h.nVersionId /\ h'.nGroupId = h.nGroupId
          /\ h'.k = h.k + 1 /\ h'.vPath = h.vPath /\ h'.nFileParentId = h.nFileId
          /\ h'.nDefineFileId = h.nDefineFileId
      BY <1>0, <1>11 DEF UpdateParent, Locals
    <2>2. /\ pc = "update" /\ pc' = "define"
          /\ UNCHANGED <<webdiff_versions, webdiff_file_groups, webdiff_define_files>>
      BY <1>11 DEF UpdateParent
    <2>3. h.nFileId \in DOMAIN webdiff_files /\ FileKey(webdiff_files[h.nFileId]) = hKey
      BY <2>2 DEF HandlerRows
    <2>4. /\ webdiff_files[h.nFileId].version_id = h.nVersionId
          /\ webdiff_files[h.nFileId].file_group_id = h.nGroupId
          /\ webdiff_files[h.nFileId].define_file_id = h.nDefineFileId
      BY <2>3 DEF FileKey, hKey
    <2> QED  BY <1>8, <1>11, <2>1, <2>2, <2>3, <2>4, UpdateKeepsKeys
  <1> QED  BY <1>1, <1>2, <1>3, <1>4, <1>5, <1>6, <1>7, <1>9, <1>10, <1>11 DEF Next, Step, LoadCache,
              Crash, Die, Receive, ThrowOnEntry, FilesDone, Reply

\* The four parts of RowsInv need each other: the type of a reloaded cache
\* needs distinct rows, distinct rows need complete caches, complete caches
\* need the id of the row that insertFile has not cached yet, and that id needs
\* the caches.  Together they are inductive.
LEMMA RowsInductive == Spec => []RowsInv
  <1>1. Init => RowsInv
    <2> SUFFICES ASSUME Init PROVE RowsInv
      OBVIOUS
    <2> USE DEF Init
    <2>1. TablesType /\ CachesType /\ HistoryType
      BY DEF TablesType, CachesType, HistoryType
    <2>2. HandlerType
      BY NoLocalsType, RequestsAssumption DEF HandlerType, Handling
    <2>3. NoDuplicateRows /\ CacheMirrorsTables
      BY DEF NoDuplicateRows, CacheMirrorsTables
    <2>4. HandlerRows
      BY DEF HandlerRows, InPath
    <2> QED  BY <2>1, <2>2, <2>3, <2>4 DEF RowsInv, TypeOK
  <1>2. RowsInv /\ [Next]_vars => RowsInv'
    <2>1. ASSUME RowsInv, Next PROVE RowsInv'
      <3>1. TypeOK /\ NoDuplicateRows
        BY <2>1 DEF RowsInv
      <3> QED  BY <2>1, <3>1, TablesStep, HandlerStep, CachesStep, DuplicatesStep, MirrorStep,
                  HandlerRowsStep DEF RowsInv, TypeOK
    <2>2. ASSUME RowsInv, UNCHANGED vars PROVE RowsInv'
      <3> USE <2>2 DEF vars, tables, caches, history, RowsInv
      <3>1. TypeOK'
        BY DEF TypeOK, TablesType, CachesType, HandlerType, HistoryType
      <3>2. NoDuplicateRows'
        BY DEF NoDuplicateRows
      <3>3. CacheMirrorsTables'
        BY DEF CacheMirrorsTables, Uncached
      <3>4. HandlerRows'
        BY DEF HandlerRows, IsRowOfPrefix, IsDefineOfPrefix, hKey
      <3> QED  BY <3>1, <3>2, <3>3, <3>4
    <2> QED  BY <2>1, <2>2
  <1> QED  BY <1>1, <1>2, PTL DEF Spec

\* The tables, the caches and the locals of the handler have their types in
\* every reachable state, whatever the names, paths and requests are.
THEOREM TypeCorrect == Spec => []TypeOK
  <1>1. RowsInv => TypeOK
    BY DEF RowsInv
  <1> QED  BY <1>1, RowsInductive, PTL

\* The find-or-create functions of MySqlStorage never insert a row twice,
\* although no table has a UNIQUE key.
THEOREM UniqueRows == Spec => []NoDuplicateRows
  <1>1. RowsInv => NoDuplicateRows
    BY DEF RowsInv
  <1> QED  BY <1>1, RowsInductive, PTL

\* The caches of MySqlStorage hold what the tables hold, also between the
\* statements of a request and after a crash and a reload.
THEOREM CachesExact == Spec => []CacheMirrorsTables
  <1>1. RowsInv => CacheMirrorsTables
    BY DEF RowsInv
  <1> QED  BY <1>1, RowsInductive, PTL

\* The ids httpApiAdd and addFile carry along denote the rows they mean.
THEOREM IdsExact == Spec => []HandlerRows
  <1>1. RowsInv => HandlerRows
    BY DEF RowsInv
  <1> QED  BY <1>1, RowsInductive, PTL

-----------------------------------------------------------------------------
(* The parent_id columns and the child counts, from the invariant of the     *)
(* rows.                                                                     *)

\* A prefix of a prefix is a prefix, and its last name is a name of the path.
LEMMA PrefixOfPrefix ==
    ASSUME NEW S, NEW q \in Seq(S), NEW n \in Nat, n < Len(q)
    PROVE  /\ SubSeq(q, 1, n + 1) \in Seq(S)
           /\ Len(SubSeq(q, 1, n + 1)) = n + 1
           /\ SubSeq(q, 1, n + 1)[n + 1] = q[n + 1]
           /\ SubSeq(SubSeq(q, 1, n + 1), 1, n) = SubSeq(q, 1, n)
  <1>1. n + 1 \in Nat /\ n + 1 <= Len(q) /\ n <= n + 1 /\ n + 1 \in 1..(n + 1)
    OBVIOUS
  <1> DEFINE p == SubSeq(q, 1, n + 1)
  <1>2. p \in Seq(S) /\ Len(p) = n + 1 /\ \A m \in 1..(n + 1) : p[m] = q[m]
    BY <1>1, PrefixFacts
  <1> HIDE DEF p
  <1>3. /\ SubSeq(p, 1, n) \in Seq(S) /\ Len(SubSeq(p, 1, n)) = n
        /\ \A m \in 1..n : SubSeq(p, 1, n)[m] = p[m]
    BY <1>1, <1>2, PrefixFacts
  <1>4. /\ SubSeq(q, 1, n) \in Seq(S) /\ Len(SubSeq(q, 1, n)) = n
        /\ \A m \in 1..n : SubSeq(q, 1, n)[m] = q[m]
    BY <1>1, PrefixFacts
  <1>5. \A m \in 1..n : SubSeq(p, 1, n)[m] = SubSeq(q, 1, n)[m]
    BY <1>1, <1>2, <1>3, <1>4
  <1>6. SubSeq(p, 1, n) = SubSeq(q, 1, n)
    BY <1>3, <1>4, <1>5, SeqEqual
  <1> QED  BY <1>1, <1>2, <1>6 DEF p

\* The two halves of TreeConsistent.
DefinesConsistent ==
    \A d \in DOMAIN webdiff_define_files :
        /\ Len(webdiff_define_files[d].filepath) > 0
        /\ webdiff_define_files[d].filename
              = webdiff_define_files[d].filepath[Len(webdiff_define_files[d].filepath)]
        /\ IsParentDefine(webdiff_define_files[d].parent_id, webdiff_define_files[d].filepath)

FilesConsistent ==
    \A f \in DOMAIN webdiff_files :
        /\ webdiff_files[f].version_id \in DOMAIN webdiff_versions
        /\ webdiff_files[f].file_group_id \in DOMAIN webdiff_file_groups
        /\ webdiff_files[f].define_file_id \in DOMAIN webdiff_define_files
        /\ IsParentFile(webdiff_files[f].parent_id, webdiff_files[f])

\* TreeConsistent is these two halves.
LEMMA TreeHalves == TreeConsistent <=> DefinesConsistent /\ FilesConsistent
  BY Zenon DEF TreeConsistent, DefinesConsistent, FilesConsistent

\* The define row of a new path gets the define row of the path above it as
\* its parent; the rows there are keep theirs.
LEMMA DefinesStep ==
    ASSUME RowsInv, DefinesConsistent, Next
    PROVE  DefinesConsistent'
  <1>1. CASE UNCHANGED webdiff_define_files
    BY <1>1 DEF DefinesConsistent, IsParentDefine
  <1>2. CASE FindDefineFile /\ sNewFilePath \notin DOMAIN m_mapCacheFileDefinsIds
    <2> DEFINE n == Len(webdiff_define_files) + 1
    <2>0. TypeOK
      BY DEF RowsInv
    <2>1. /\ DOMAIN webdiff_define_files' = DOMAIN webdiff_define_files \cup {n}
          /\ \A d \in DOMAIN webdiff_define_files : webdiff_define_files'[d] = webdiff_define_files[d]
          /\ webdiff_define_files'[n].filepath = sNewFilePath
          /\ webdiff_define_files'[n].filename = h.vPath[h.k + 1]
          /\ webdiff_define_files'[n].parent_id = h.nDefineFileId
      BY <1>2, <2>0, InsertedDefine
    <2> HIDE DEF n
    <2>2. h.k \in Nat /\ h.vPath \in Seq(Names) /\ h.k < Len(h.vPath) /\ pc = "define"
      BY <1>2, <2>0 DEF TypeOK, HandlerType, Locals, Paths, FindDefineFile
    <2>3. /\ Len(sNewFilePath) = h.k + 1 /\ sNewFilePath[h.k + 1] = h.vPath[h.k + 1]
          /\ SubSeq(sNewFilePath, 1, h.k) = SubSeq(h.vPath, 1, h.k)
      BY <2>2, PrefixOfPrefix DEF sNewFilePath
    <2>4. IsParentDefine(h.nDefineFileId, sNewFilePath)
      BY <2>2, <2>3 DEF RowsInv, HandlerRows, IsDefineOfPrefix, IsParentDefine
    <2>5. ASSUME NEW par, NEW path, IsParentDefine(par, path)
          PROVE  IsParentDefine(par, path)'
      BY <2>1, <2>5 DEF IsParentDefine
    <2>6. ASSUME NEW d \in DOMAIN webdiff_define_files'
          PROVE  /\ Len(webdiff_define_files'[d].filepath) > 0
                 /\ webdiff_define_files'[d].filename
                       = webdiff_define_files'[d].filepath[Len(webdiff_define_files'[d].filepath)]
                 /\ IsParentDefine(webdiff_define_files[d].parent_id, webdiff_define_files[d].filepath)'
      <3>1. CASE d \in DOMAIN webdiff_define_files
        BY <2>1, <2>5, <3>1 DEF DefinesConsistent
      <3>2. CASE d = n
        BY <2>1, <2>2, <2>3, <2>4, <2>5, <3>2
      <3> QED  BY <2>1, <3>1, <3>2
    <2> QED  BY <2>6 DEF DefinesConsistent
  <1> QED  BY <1>1, <1>2 DEF Next, Step, LoadCache, Crash, Die, Receive, FindVersion, FindGroup, NextFile,
              ThrowOnEntry, FilesDone, Reply, FindDefineFile, PathDone, FindFile, InsertFile,
              CountChildren, UpdateParent, tables

\* The tables a row refers to may grow under it.
LEMMA FilesConsistentGrow ==
    ASSUME FilesConsistent,
           \A i \in DOMAIN webdiff_versions : i \in DOMAIN webdiff_versions',
           \A i \in DOMAIN webdiff_file_groups : i \in DOMAIN webdiff_file_groups',
           \A d \in DOMAIN webdiff_define_files :
              d \in DOMAIN webdiff_define_files' /\ webdiff_define_files'[d] = webdiff_define_files[d],
           UNCHANGED webdiff_files
    PROVE  FilesConsistent'
  BY DEF FilesConsistent, IsParentFile

\* The row insertFile adds has the row of the path above it, in the same version
\* and group, as its parent; the rows there are keep theirs.
LEMMA FilesStep ==
    ASSUME RowsInv, DefinesConsistent, FilesConsistent, Next
    PROVE  FilesConsistent'
  <1>0. TypeOK /\ NoDuplicateRows /\ HandlerRows
    BY DEF RowsInv
  <1>1. CASE UNCHANGED tables
    BY <1>1, FilesConsistentGrow DEF tables
  <1>2. CASE FindVersion
    <2>1. \A i \in DOMAIN webdiff_versions : i \in DOMAIN webdiff_versions'
      <3>1. h.req.version \in Names /\ webdiff_versions \in Seq(Names)
        BY <1>0, <1>2, RequestFields DEF TypeOK, TablesType, FindVersion, Handling
      <3> QED  BY <1>2, <3>1, AppendFacts DEF FindVersion
    <2> QED  BY <1>2, <2>1, FilesConsistentGrow DEF FindVersion
  <1>3. CASE FindGroup
    <2>1. \A i \in DOMAIN webdiff_file_groups : i \in DOMAIN webdiff_file_groups'
      <3>1. h.req.group \in Names /\ webdiff_file_groups \in Seq(Names)
        BY <1>0, <1>3, RequestFields DEF TypeOK, TablesType, FindGroup, Handling
      <3> QED  BY <1>3, <3>1, AppendFacts DEF FindGroup
    <2> QED  BY <1>3, <2>1, FilesConsistentGrow DEF FindGroup
  <1>4. CASE FindDefineFile
    <2>1. \A d \in DOMAIN webdiff_define_files :
             d \in DOMAIN webdiff_define_files' /\ webdiff_define_files'[d] = webdiff_define_files[d]
      <3>1. CASE sNewFilePath \in DOMAIN m_mapCacheFileDefinsIds
        BY <1>4, <3>1 DEF FindDefineFile
      <3>2. CASE sNewFilePath \notin DOMAIN m_mapCacheFileDefinsIds
        BY <1>0, <1>4, <3>2, InsertedDefine
      <3> QED  BY <3>1, <3>2
    <2>2. UNCHANGED <<webdiff_versions, webdiff_file_groups, webdiff_files>>
      BY <1>4 DEF FindDefineFile
    <2> QED  BY <2>1, <2>2, FilesConsistentGrow
  <1>5. CASE InsertFile
    <2>0. PICK n : n = Len(webdiff_files) + 1
      OBVIOUS
    <2> DEFINE d == h.nDefineFileId
               path == SubSeq(h.vPath, 1, h.k + 1)
               par == webdiff_define_files[d].parent_id
    <2>1. /\ DOMAIN webdiff_files' = DOMAIN webdiff_files \cup {n}
          /\ \A f \in DOMAIN webdiff_files : webdiff_files'[f] = webdiff_files[f]
          /\ webdiff_files'[n].version_id = h.nVersionId
          /\ webdiff_files'[n].file_group_id = h.nGroupId
          /\ webdiff_files'[n].define_file_id = d
          /\ webdiff_files'[n].parent_id = h.nFileParentId
      BY <1>0, <1>5, <2>0, InsertedRow
    <2>2. /\ h.k \in Nat /\ h.vPath \in Seq(Names) /\ h.k < Len(h.vPath) /\ pc = "row"
          /\ UNCHANGED <<webdiff_versions, webdiff_file_groups, webdiff_define_files>>
      BY <1>0, <1>5 DEF TypeOK, HandlerType, HandlerRows, Locals, Paths, InsertFile
    <2>3. Len(path) = h.k + 1 /\ SubSeq(path, 1, h.k) = SubSeq(h.vPath, 1, h.k)
      BY <2>2, PrefixOfPrefix
    <2>4. /\ h.nVersionId \in DOMAIN webdiff_versions /\ h.nGroupId \in DOMAIN webdiff_file_groups
          /\ d \in DOMAIN webdiff_define_files /\ webdiff_define_files[d].filepath = path
          /\ IsRowOfPrefix(h.nFileParentId, h.k)
      BY <1>0, <2>2 DEF HandlerRows, InPath, IsDefineOfPrefix
    <2>5. IsParentDefine(par, path)
      BY <2>4 DEF DefinesConsistent
    <2>6. IF par = 0 THEN h.nFileParentId = 0
          ELSE /\ h.nFileParentId \in DOMAIN webdiff_files
               /\ FileKey(webdiff_files[h.nFileParentId]) = <<h.nVersionId, h.nGroupId, par>>
      <3>1. CASE h.k = 0
        BY <2>3, <2>4, <2>5, <3>1 DEF IsParentDefine, IsRowOfPrefix
      <3>2. CASE h.k # 0
        <4>1. /\ par \in DOMAIN webdiff_define_files
              /\ webdiff_define_files[par].filepath = SubSeq(h.vPath, 1, h.k)
          BY <2>2, <2>3, <2>5, <3>2 DEF IsParentDefine
        <4>2. par # 0
          BY <1>0, <4>1 DEF TypeOK, TablesType
        <4>3. /\ h.nFileParentId \in DOMAIN webdiff_files
              /\ webdiff_files[h.nFileParentId].version_id = h.nVersionId
              /\ webdiff_files[h.nFileParentId].file_group_id = h.nGroupId
              /\ webdiff_files[h.nFileParentId].define_file_id = par
          <5> DEFINE e == webdiff_files[h.nFileParentId].define_file_id
          <5>1. /\ h.nFileParentId \in DOMAIN webdiff_files
                /\ webdiff_files[h.nFileParentId].version_id = h.nVersionId
                /\ webdiff_files[h.nFileParentId].file_group_id = h.nGroupId
                /\ e \in DOMAIN webdiff_define_files
                /\ webdiff_define_files[e].filepath = SubSeq(h.vPath, 1, h.k)
            BY <2>4, <3>2 DEF IsRowOfPrefix
          <5>2. e = par
            <6> HIDE DEF e, par
            <6> QED  BY <1>0, <4>1, <5>1 DEF NoDuplicateRows
          <5> QED  BY <5>1, <5>2
        <4> QED  BY <4>2, <4>3 DEF FileKey
      <3> QED  BY <3>1, <3>2
    <2> HIDE DEF d, path, par
    <2>7. IsParentFile(webdiff_files[n].parent_id, webdiff_files[n])'
      <3>1. webdiff_define_files'[webdiff_files'[n].define_file_id].parent_id = par
        BY <2>1, <2>2 DEF par
      <3>2. par # 0 => /\ h.nFileParentId \in DOMAIN webdiff_files'
                       /\ webdiff_files'[h.nFileParentId] = webdiff_files[h.nFileParentId]
        BY <2>1, <2>6
      <3> QED  BY <2>1, <2>6, <3>1, <3>2 DEF IsParentFile
    <2>8. ASSUME NEW f \in DOMAIN webdiff_files
          PROVE  IsParentFile(webdiff_files[f].parent_id, webdiff_files[f])'
      BY <2>1, <2>2 DEF FilesConsistent, IsParentFile
    <2>9. ASSUME NEW f \in DOMAIN webdiff_files'
          PROVE  /\ webdiff_files'[f].version_id \in DOMAIN webdiff_versions'
                 /\ webdiff_files'[f].file_group_id \in DOMAIN webdiff_file_groups'
                 /\ webdiff_files'[f].define_file_id \in DOMAIN webdiff_define_files'
                 /\ IsParentFile(webdiff_files[f].parent_id, webdiff_files[f])'
      <3>1. CASE f \in DOMAIN webdiff_files
        BY <2>1, <2>2, <2>8, <3>1 DEF FilesConsistent
      <3>2. CASE f = n
        BY <2>1, <2>2, <2>4, <2>7, <3>2
      <3> QED  BY <2>1, <3>1, <3>2
    <2> QED  BY <2>9 DEF FilesConsistent
  <1>6. CASE UpdateParent
    <2>1. UNCHANGED <<webdiff_versions, webdiff_file_groups, webdiff_define_files>>
      BY <1>6 DEF UpdateParent
    <2> QED  BY <1>0, <1>6, <2>1, UpdateKeepsKeys DEF FilesConsistent, IsParentFile
  <1> QED  BY <1>1, <1>2, <1>3, <1>4, <1>5, <1>6 DEF Next, Step, LoadCache, Crash, Die, Receive,
              NextFile, ThrowOnEntry, FilesDone, Reply, PathDone, FindFile, CountChildren

\* TreeConsistent is inductive relative to RowsInv.
LEMMA TreeInductive == Spec => [](RowsInv /\ DefinesConsistent /\ FilesConsistent)
  <1>1. Init => DefinesConsistent /\ FilesConsistent
    BY DEF Init, DefinesConsistent, FilesConsistent
  <1>2. RowsInv /\ DefinesConsistent /\ FilesConsistent /\ [Next]_vars
           => (DefinesConsistent /\ FilesConsistent)'
    <2>1. ASSUME DefinesConsistent, FilesConsistent, UNCHANGED vars
          PROVE  (DefinesConsistent /\ FilesConsistent)'
      BY <2>1 DEF vars, tables, DefinesConsistent, FilesConsistent, IsParentDefine, IsParentFile
    <2> QED  BY <2>1, DefinesStep, FilesStep
  <1> QED  BY <1>1, <1>2, RowsInductive, PTL DEF Spec

\* The parent_id columns spell the paths in every reachable state: the tree that
\* /api/files/ walks is the tree of the uploaded paths.
THEOREM ParentsSpellPaths == Spec => []TreeConsistent
  <1>1. DefinesConsistent /\ FilesConsistent => TreeConsistent
    BY TreeHalves
  <1> QED  BY <1>1, TreeInductive, PTL

-----------------------------------------------------------------------------
(* Child counts *)

\* Between its SELECT COUNT and its UPDATE insertFile holds the right number:
\* nothing else writes webdiff_files in between.
CountFresh ==
    pc = "update" =>
        h.nAmountOfChildren = Cardinality(Children(webdiff_files, h.nFileParentId))

\* The row insertFile adds has no children, and becomes a child of its parent only.
LEMMA InsertedChild ==
    ASSUME RowsInv, FilesConsistent, InsertFile
    PROVE  LET n == Len(webdiff_files) + 1 IN
           /\ Children(webdiff_files', n) = {}
           /\ \A f \in DOMAIN webdiff_files :
                 f # h.nFileParentId => Children(webdiff_files', f) = Children(webdiff_files, f)
           /\ Children(webdiff_files, h.nFileParentId) \subseteq Children(webdiff_files', h.nFileParentId)
  <1> DEFINE n == Len(webdiff_files) + 1
  <1>1. /\ DOMAIN webdiff_files' = DOMAIN webdiff_files \cup {n}
        /\ n \notin DOMAIN webdiff_files /\ n # 0
        /\ \A f \in DOMAIN webdiff_files : webdiff_files'[f] = webdiff_files[f]
        /\ webdiff_files'[n].parent_id = h.nFileParentId
    BY InsertedRow DEF RowsInv
  <1>2. h.nFileParentId = 0 \/ h.nFileParentId \in DOMAIN webdiff_files
    BY DEF RowsInv, HandlerRows, InsertFile, InPath, IsRowOfPrefix
  <1>3. \A f \in DOMAIN webdiff_files :
           webdiff_files[f].parent_id = 0 \/ webdiff_files[f].parent_id \in DOMAIN webdiff_files
    BY DEF FilesConsistent, IsParentFile
  <1> HIDE DEF n
  <1>4. Children(webdiff_files', n) = {}
    BY <1>1, <1>2, <1>3 DEF Children
  <1>5. ASSUME NEW f \in DOMAIN webdiff_files, f # h.nFileParentId
        PROVE  Children(webdiff_files', f) = Children(webdiff_files, f)
    BY <1>1, <1>5 DEF Children
  <1>6. Children(webdiff_files, h.nFileParentId) \subseteq Children(webdiff_files', h.nFileParentId)
    BY <1>1 DEF Children
  <1> QED  BY <1>4, <1>5, <1>6 DEF n

\* The UPDATE of insertFile changes nobody's children.
LEMMA UpdateKeepsChildren ==
    ASSUME TypeOK, UpdateParent, NEW id
    PROVE  Children(webdiff_files', id) = Children(webdiff_files, id)
  BY UpdateKeepsKeys DEF Children

\* A step keeps the counts, given the rows and the tree.
LEMMA CountsStep ==
    ASSUME RowsInv, FilesConsistent, CountFresh, ChildCounts, Next
    PROVE  CountFresh' /\ ChildCounts'
  <1> DEFINE Count(id) == Cardinality(Children(webdiff_files, id))
  <1>0. TypeOK /\ TablesType /\ h \in Locals
    BY DEF RowsInv, TypeOK, HandlerType
  <1>1. CASE /\ UNCHANGED <<webdiff_files, interrupted>>
             /\ pc \notin {"count", "update"} /\ pc' \notin {"count", "update"}
    BY <1>1 DEF CountFresh, ChildCounts
  <1>2. CASE Die
    BY <1>2 DEF Die, tables, CountFresh, ChildCounts
  <1>3. CASE InsertFile
    <2>1. PICK n : n = Len(webdiff_files) + 1
      OBVIOUS
    <2>2. /\ DOMAIN webdiff_files' = DOMAIN webdiff_files \cup {n}
          /\ \A f \in DOMAIN webdiff_files : webdiff_files'[f] = webdiff_files[f]
          /\ webdiff_files'[n].amount_of_children = 0
      BY <1>0, <1>3, <2>1, InsertedRow
    <2>3. /\ pc = "row" /\ pc' = "count" /\ interrupted' = interrupted
          /\ h'.nFileParentId = h.nFileParentId
      BY <1>0, <1>3 DEF InsertFile, history, Locals
    <2>4. TablesType'
      BY <1>0, <1>3, TablesStep
    <2>5. ASSUME NEW f \in DOMAIN webdiff_files'
          PROVE  /\ webdiff_files'[f].amount_of_children <= Cardinality(Children(webdiff_files', f))
                 /\ \/ webdiff_files'[f].amount_of_children = Cardinality(Children(webdiff_files', f))
                    \/ f \in interrupted' \/ f = h'.nFileParentId
      <3>1. CASE f = n
        <4>1. Cardinality(Children(webdiff_files', f)) = 0
          BY <1>3, <2>1, <3>1, InsertedChild, FS_EmptySet
        <4> QED  BY <2>2, <3>1, <4>1
      <3>2. CASE f \in DOMAIN webdiff_files /\ f # h.nFileParentId
        <4>1. Children(webdiff_files', f) = Children(webdiff_files, f)
          BY <1>3, <3>2, InsertedChild
        <4> QED  BY <2>2, <2>3, <3>2, <4>1 DEF ChildCounts
      <3>3. CASE f \in DOMAIN webdiff_files /\ f = h.nFileParentId
        <4>1. /\ IsFiniteSet(Children(webdiff_files', f))
              /\ Children(webdiff_files, f) \subseteq Children(webdiff_files', f)
          BY <1>3, <2>4, <3>3, ChildrenFinite, InsertedChild DEF TablesType
        <4>2. /\ Count(f) <= Cardinality(Children(webdiff_files', f))
              /\ Count(f) \in Nat /\ Cardinality(Children(webdiff_files', f)) \in Nat
          BY <4>1, FS_Subset, FS_CardinalityType
        <4>3. /\ webdiff_files[f].amount_of_children <= Count(f)
              /\ webdiff_files[f].amount_of_children \in Nat
          <5>1. webdiff_files[f] \in File
            BY <1>0, <3>3 DEF TablesType
          <5> QED  BY <3>3, <5>1 DEF ChildCounts, File
        <4> HIDE DEF Count
        <4> QED  BY <2>2, <2>3, <3>3, <4>2, <4>3
      <3> QED  BY <2>2, <3>1, <3>2, <3>3
    <2> QED  BY <2>3, <2>5 DEF CountFresh, ChildCounts
  <1>4. CASE CountChildren
    <2>1. /\ h'.nAmountOfChildren = Count(h.nFileParentId) /\ h'.nFileParentId = h.nFileParentId
      BY <1>0, <1>4 DEF CountChildren, Locals
    <2>2. /\ pc = "count" /\ pc' = "update" /\ UNCHANGED <<webdiff_files, interrupted>>
      BY <1>4 DEF CountChildren, tables, history
    <2> QED  BY <2>1, <2>2 DEF CountFresh, ChildCounts
  <1>5. CASE UpdateParent
    <2>1. /\ pc = "update" /\ pc' = "define" /\ interrupted' = interrupted \ {h.nFileParentId}
          /\ h.nAmountOfChildren = Count(h.nFileParentId)
      BY <1>5 DEF UpdateParent, CountFresh
    <2>2. ASSUME NEW f \in DOMAIN webdiff_files'
          PROVE  /\ f \in DOMAIN webdiff_files
                 /\ webdiff_files'[f].amount_of_children
                       = IF f = h.nFileParentId THEN Count(f) ELSE webdiff_files[f].amount_of_children
      <3>1. f \in DOMAIN webdiff_files
        BY <1>0, <1>5, UpdateKeepsKeys
      <3>2. webdiff_files[f] \in File
        BY <1>0, <3>1 DEF TablesType
      <3> HIDE DEF Count
      <3> QED  BY <1>5, <2>1, <3>1, <3>2 DEF UpdateParent, File
    <2>3. ASSUME NEW f \in DOMAIN webdiff_files'
          PROVE  /\ webdiff_files'[f].amount_of_children <= Cardinality(Children(webdiff_files', f))
                 /\ \/ webdiff_files'[f].amount_of_children = Cardinality(Children(webdiff_files', f))
                    \/ f \in interrupted'
      <3>1. Cardinality(Children(webdiff_files', f)) = Count(f) /\ Count(f) \in Nat
        BY <1>0, <1>5, UpdateKeepsChildren, ChildrenFinite DEF TablesType
      <3>2. f \in DOMAIN webdiff_files => /\ webdiff_files[f].amount_of_children <= Count(f)
                                          /\ \/ webdiff_files[f].amount_of_children = Count(f)
                                             \/ f \in interrupted
                                             \/ f = h.nFileParentId
        BY DEF ChildCounts
      <3> HIDE DEF Count
      <3> QED  BY <2>1, <2>2, <3>1, <3>2
    <2> QED  BY <2>1, <2>3 DEF CountFresh, ChildCounts
  <1> QED  BY <1>1, <1>2, <1>3, <1>4, <1>5 DEF Next, Step, LoadCache, Crash, Receive, FindVersion, FindGroup,
              NextFile, ThrowOnEntry, FilesDone, Reply, FindDefineFile, PathDone, FindFile, tables, history

\* What every step and every theorem below may use.
TreeInv == RowsInv /\ DefinesConsistent /\ FilesConsistent /\ CountFresh /\ ChildCounts

\* All of it holds in every reachable state.
LEMMA TreeInvariant == Spec => []TreeInv
  <1>1. Init => CountFresh /\ ChildCounts
    BY DEF Init, CountFresh, ChildCounts
  <1>2. RowsInv /\ FilesConsistent /\ CountFresh /\ ChildCounts /\ [Next]_vars
           => (CountFresh /\ ChildCounts)'
    <2>1. ASSUME CountFresh, ChildCounts, UNCHANGED vars PROVE (CountFresh /\ ChildCounts)'
      BY <2>1 DEF vars, tables, history, CountFresh, ChildCounts
    <2> QED  BY <2>1, CountsStep
  <1>3. TreeInv <=> (RowsInv /\ DefinesConsistent /\ FilesConsistent) /\ CountFresh /\ ChildCounts
    BY DEF TreeInv
  <1> QED  BY <1>1, <1>2, <1>3, TreeInductive, PTL DEF Spec

\* amount_of_children is exact but for the parent insertFile is working on and
\* the parents a crash in insertFile left behind; it never counts too many.
THEOREM CountsBounded == Spec => []ChildCounts
  <1>1. TreeInv => ChildCounts
    BY DEF TreeInv
  <1> QED  BY <1>1, TreeInvariant, PTL

\* Every row is still there and has kept its columns; a child count has not gone down.
RowsKept ==
    /\ \A i \in DOMAIN webdiff_versions :
          i \in DOMAIN webdiff_versions' /\ webdiff_versions'[i] = webdiff_versions[i]
    /\ \A i \in DOMAIN webdiff_file_groups :
          i \in DOMAIN webdiff_file_groups' /\ webdiff_file_groups'[i] = webdiff_file_groups[i]
    /\ \A i \in DOMAIN webdiff_define_files :
          i \in DOMAIN webdiff_define_files' /\ webdiff_define_files'[i] = webdiff_define_files[i]
    /\ \A i \in DOMAIN webdiff_files :
          /\ i \in DOMAIN webdiff_files'
          /\ FileKey(webdiff_files'[i]) = FileKey(webdiff_files[i])
          /\ webdiff_files'[i].parent_id = webdiff_files[i].parent_id
          /\ webdiff_files'[i].amount_of_children >= webdiff_files[i].amount_of_children

\* No statement removes or rewrites a row, and the one UPDATE there is does not lower
\* a child count.
LEMMA RowsKeptStep ==
    ASSUME TreeInv, Next
    PROVE  RowsKept
  <1> USE DEF RowsKept
  <1>0. TypeOK /\ TablesType
    BY DEF TreeInv, RowsInv, TypeOK
  <1>1. \A i \in DOMAIN webdiff_files : webdiff_files[i].amount_of_children \in Nat
    <2>1. \A i \in DOMAIN webdiff_files : webdiff_files[i] \in File
      BY <1>0 DEF TablesType
    <2> QED  BY <2>1 DEF File
  <1>2. CASE UNCHANGED tables
    BY <1>1, <1>2 DEF tables
  <1>3. CASE FindVersion
    <2>1. h.req.version \in Names /\ webdiff_versions \in Seq(Names)
      BY <1>0, <1>3, RequestFields DEF TypeOK, TablesType, FindVersion, Handling
    <2>2. \A i \in DOMAIN webdiff_versions :
             i \in DOMAIN webdiff_versions' /\ webdiff_versions'[i] = webdiff_versions[i]
      BY <1>3, <2>1, AppendFacts DEF FindVersion
    <2>3. UNCHANGED <<webdiff_file_groups, webdiff_define_files, webdiff_files>>
      BY <1>3 DEF FindVersion
    <2> QED  BY <1>1, <2>2, <2>3
  <1>4. CASE FindGroup
    <2>1. h.req.group \in Names /\ webdiff_file_groups \in Seq(Names)
      BY <1>0, <1>4, RequestFields DEF TypeOK, TablesType, FindGroup, Handling
    <2>2. \A i \in DOMAIN webdiff_file_groups :
             i \in DOMAIN webdiff_file_groups' /\ webdiff_file_groups'[i] = webdiff_file_groups[i]
      BY <1>4, <2>1, AppendFacts DEF FindGroup
    <2>3. UNCHANGED <<webdiff_versions, webdiff_define_files, webdiff_files>>
      BY <1>4 DEF FindGroup
    <2> QED  BY <1>1, <2>2, <2>3
  <1>5. CASE FindDefineFile
    <2>1. \A d \in DOMAIN webdiff_define_files :
             d \in DOMAIN webdiff_define_files' /\ webdiff_define_files'[d] = webdiff_define_files[d]
      <3>1. CASE sNewFilePath \in DOMAIN m_mapCacheFileDefinsIds
        BY <1>5, <3>1 DEF FindDefineFile
      <3>2. CASE sNewFilePath \notin DOMAIN m_mapCacheFileDefinsIds
        BY <1>0, <1>5, <3>2, InsertedDefine
      <3> QED  BY <3>1, <3>2
    <2>2. UNCHANGED <<webdiff_versions, webdiff_file_groups, webdiff_files>>
      BY <1>5 DEF FindDefineFile
    <2> QED  BY <1>1, <2>1, <2>2
  <1>6. CASE InsertFile
    <2>1. \A i \in DOMAIN webdiff_files : i \in DOMAIN webdiff_files' /\ webdiff_files'[i] = webdiff_files[i]
      BY <1>0, <1>6, InsertedRow
    <2>2. UNCHANGED <<webdiff_versions, webdiff_file_groups, webdiff_define_files>>
      BY <1>6 DEF InsertFile
    <2> QED  BY <1>1, <2>1, <2>2
  <1>7. CASE UpdateParent
    <2>1. ASSUME NEW i \in DOMAIN webdiff_files
          PROVE  webdiff_files'[i].amount_of_children >= webdiff_files[i].amount_of_children
      <3>1. CASE i # h.nFileParentId
        BY <1>1, <1>7, <3>1 DEF UpdateParent
      <3>2. CASE i = h.nFileParentId
        <4>1. webdiff_files[i] \in File
          BY <1>0 DEF TablesType
        <4>2. webdiff_files'[i].amount_of_children = h.nAmountOfChildren
          BY <1>7, <3>2, <4>1 DEF UpdateParent, File
        <4>3. h.nAmountOfChildren = Cardinality(Children(webdiff_files, i))
          BY <1>7, <3>2 DEF UpdateParent, TreeInv, CountFresh
        <4>4. webdiff_files[i].amount_of_children <= Cardinality(Children(webdiff_files, i))
          BY DEF TreeInv, ChildCounts
        <4>5. Cardinality(Children(webdiff_files, i)) \in Nat
          BY <1>0, ChildrenFinite DEF TablesType
        <4> QED  BY <1>1, <4>2, <4>3, <4>4, <4>5
      <3> QED  BY <3>1, <3>2
    <2>2. UNCHANGED <<webdiff_versions, webdiff_file_groups, webdiff_define_files>>
      BY <1>7 DEF UpdateParent
    <2> QED  BY <1>0, <1>7, <2>1, <2>2, UpdateKeepsKeys
  <1> QED  BY <1>2, <1>3, <1>4, <1>5, <1>6, <1>7 DEF Next, Step, LoadCache, Crash, Die, Receive,
              NextFile, ThrowOnEntry, FilesDone, Reply, PathDone, FindFile, CountChildren

\* No step of the server removes or rewrites a row, and none lowers a child count.
THEOREM TablesGrow == Spec => RowsOnlyGrow
  <1>1. TreeInv /\ [Next]_vars => [RowsKept]_vars
    BY RowsKeptStep
  <1> QED  BY <1>1, TreeInvariant, PTL DEF Spec, RowsOnlyGrow, RowsKept

-----------------------------------------------------------------------------
(* What an answer 200 promises: the upload is in the tables and stays there, *)
(* and the tables with the answers are a FileTree.  From the invariants of   *)
(* the rows and of the tree.                                                 *)

\* The node of the first n segments of the path at hand.
PrefixNode(n) == <<h.req.version, h.req.group, SubSeq(h.vPath, 1, n)>>

\* The nodes of the first n entries of the request at hand are stored.
EntriesStored(n) ==
    \A j \in 1..n : /\ h.req.files[j] # Malformed
                    /\ PathNeeds(h.req, h.req.files[j]) \subseteq Stored

\* What httpApiAdd has stored when it is at entry h.i and segment h.k.
WorkStored ==
    /\ pc = "files" => h.i <= Len(h.req.files) /\ EntriesStored(h.i)
    /\ pc \in InPath =>
          /\ h.i \in 1..Len(h.req.files)
          /\ h.req.files[h.i] # Malformed /\ h.vPath = Segments(h.req.files[h.i])
          /\ EntriesStored(h.i - 1)
          /\ \A n \in 1..h.k : PrefixNode(n) \in Stored
    /\ pc \in {"version", "group"} => h.i = 0
    /\ pc \in Handling \ {"reply"} => h.status = 0
    /\ pc = "reply" /\ h.status = 200 => Needs(h.req) \subseteq Stored

\* The invariant of the answers.
AckInv == TreeInv /\ WorkStored /\ AckedStored

-----------------------------------------------------------------------------
(* How the stored nodes change *)

\* A row that is there keeps the node it stands for.
LEMMA NodeKept ==
    ASSUME TreeInv, Next, NEW f \in DOMAIN webdiff_files
    PROVE  /\ f \in DOMAIN webdiff_files'
           /\ Node(webdiff_files[f])' = Node(webdiff_files[f])
  <1>1. RowsKept
    BY RowsKeptStep
  <1>2. /\ webdiff_files[f].version_id \in DOMAIN webdiff_versions
        /\ webdiff_files[f].file_group_id \in DOMAIN webdiff_file_groups
        /\ webdiff_files[f].define_file_id \in DOMAIN webdiff_define_files
    BY DEF TreeInv, FilesConsistent
  <1>3. /\ f \in DOMAIN webdiff_files'
        /\ webdiff_files'[f].version_id = webdiff_files[f].version_id
        /\ webdiff_files'[f].file_group_id = webdiff_files[f].file_group_id
        /\ webdiff_files'[f].define_file_id = webdiff_files[f].define_file_id
    BY <1>1 DEF RowsKept, FileKey
  <1> QED  BY <1>1, <1>2, <1>3 DEF RowsKept, Node

\* What is stored stays stored.
LEMMA StoredGrows ==
    ASSUME TreeInv, Next
    PROVE  Stored \subseteq Stored'
  <1> SUFFICES ASSUME NEW f \in DOMAIN webdiff_files
               PROVE  Node(webdiff_files[f]) \in Stored'
    BY DEF Stored
  <1> QED  BY NodeKept DEF Stored

\* Only the INSERT of insertFile makes nodes.
LEMMA StoredSame ==
    ASSUME TreeInv, Next, ~InsertFile
    PROVE  Stored' = Stored
  <1>1. DOMAIN webdiff_files' = DOMAIN webdiff_files
    <2>1. CASE UpdateParent
      BY <2>1, UpdateKeepsKeys DEF TreeInv, RowsInv
    <2> QED  BY <2>1 DEF Next, Step, LoadCache, Crash, Die, Receive, FindVersion, FindGroup,
                NextFile, ThrowOnEntry, FilesDone, Reply, FindDefineFile, PathDone, FindFile,
                CountChildren, tables
  <1>2. \A f \in DOMAIN webdiff_files : Node(webdiff_files[f])' = Node(webdiff_files[f])
    BY NodeKept
  <1> QED  BY <1>1, <1>2 DEF Stored

\* A row under the key the handler works with stands for the path up to the next segment.
LEMMA KeyNode ==
    ASSUME TreeInv, pc \in {"row", "count", "update"}, NEW f \in DOMAIN webdiff_files,
           FileKey(webdiff_files[f]) = hKey
    PROVE  Node(webdiff_files[f]) = PrefixNode(h.k + 1)
  <1>1. /\ webdiff_files[f].version_id = h.nVersionId
        /\ webdiff_files[f].file_group_id = h.nGroupId
        /\ webdiff_files[f].define_file_id = h.nDefineFileId
    BY DEF FileKey, hKey
  <1>2. /\ webdiff_versions[h.nVersionId] = h.req.version
        /\ webdiff_file_groups[h.nGroupId] = h.req.group
        /\ IsDefineOfPrefix(h.nDefineFileId, h.k + 1)
    BY DEF TreeInv, RowsInv, HandlerRows, InPath
  <1>3. h.k + 1 # 0
    BY DEF TreeInv, RowsInv, TypeOK, HandlerType, Locals
  <1> QED  BY <1>1, <1>2, <1>3 DEF Node, PrefixNode, IsDefineOfPrefix

\* The INSERT of insertFile makes one node, the next one of the path.
LEMMA StoredInserted ==
    ASSUME TreeInv, Next, InsertFile
    PROVE  Stored' = Stored \cup {PrefixNode(h.k + 1)}
  <1>0. PICK m : m = Len(webdiff_files) + 1
    OBVIOUS
  <1>1. /\ DOMAIN webdiff_files' = DOMAIN webdiff_files \cup {m}
        /\ FileKey(webdiff_files'[m]) = hKey
        /\ webdiff_files'[m].version_id = h.nVersionId
        /\ webdiff_files'[m].file_group_id = h.nGroupId
        /\ webdiff_files'[m].define_file_id = h.nDefineFileId
    BY <1>0, InsertedRow DEF TreeInv, RowsInv
  <1>2. /\ webdiff_versions[h.nVersionId] = h.req.version
        /\ webdiff_file_groups[h.nGroupId] = h.req.group
        /\ IsDefineOfPrefix(h.nDefineFileId, h.k + 1)
    BY DEF TreeInv, RowsInv, HandlerRows, InPath, InsertFile
  <1>3. h.k + 1 # 0
    BY DEF TreeInv, RowsInv, TypeOK, HandlerType, Locals
  <1>4. Node(webdiff_files[m])' = PrefixNode(h.k + 1)
    BY <1>1, <1>2, <1>3 DEF Node, PrefixNode, IsDefineOfPrefix, InsertFile
  <1>5. \A f \in DOMAIN webdiff_files : Node(webdiff_files[f])' = Node(webdiff_files[f])
    BY NodeKept
  <1> QED  BY <1>1, <1>4, <1>5 DEF Stored

-----------------------------------------------------------------------------
(* What the handler has stored so far *)

\* What was stored of a request stays stored while it is at hand.
LEMMA EntriesKept ==
    ASSUME Stored \subseteq Stored', h'.req = h.req, NEW n, EntriesStored(n)
    PROVE  EntriesStored(n)'
  BY DEF EntriesStored, PathNeeds

\* The same for the segments of a path.
LEMMA PrefixesKept ==
    ASSUME Stored \subseteq Stored', h'.req = h.req, h'.vPath = h.vPath,
           NEW n, \A m \in 1..n : PrefixNode(m) \in Stored
    PROVE  \A m \in 1..n : PrefixNode(m)' \in Stored'
  BY DEF PrefixNode

\* When all segments of an entry are stored the entry is.
LEMMA EntryDone ==
    ASSUME h.i \in Nat \ {0}, EntriesStored(h.i - 1), h.req.files[h.i] # Malformed,
           h.vPath = Segments(h.req.files[h.i]),
           \A n \in 1..Len(h.vPath) : PrefixNode(n) \in Stored
    PROVE  EntriesStored(h.i)
  <1>1. PathNeeds(h.req, h.req.files[h.i]) \subseteq Stored
    BY DEF PathNeeds, PrefixNode
  <1>2. ASSUME NEW j \in 1..h.i
        PROVE  h.req.files[j] # Malformed /\ PathNeeds(h.req, h.req.files[j]) \subseteq Stored
    <2>1. CASE j = h.i
      BY <1>1, <2>1
    <2>2. CASE j # h.i
      <3>1. j \in 1..(h.i - 1)
        BY <2>2
      <3> QED  BY <3>1 DEF EntriesStored
    <2> QED  BY <2>1, <2>2
  <1> QED  BY <1>2 DEF EntriesStored

\* One segment more.
LEMMA PrefixAdded ==
    ASSUME h.k \in Nat, \A m \in 1..h.k : PrefixNode(m) \in Stored, PrefixNode(h.k + 1) \in Stored
    PROVE  \A m \in 1..(h.k + 1) : PrefixNode(m) \in Stored
  <1> SUFFICES ASSUME NEW m \in 1..(h.k + 1) PROVE PrefixNode(m) \in Stored
    OBVIOUS
  <1>1. CASE m = h.k + 1
    BY <1>1
  <1>2. CASE m \in 1..h.k
    BY <1>2
  <1> QED  BY <1>1, <1>2

\* A step of the handler stores what its position says.
LEMMA WorkStep ==
    ASSUME AckInv, Next
    PROVE  WorkStored'
  <1>0. /\ TreeInv /\ RowsInv /\ TypeOK /\ h \in Locals
        /\ h.i \in Nat /\ h.k \in Nat
    BY DEF AckInv, TreeInv, RowsInv, TypeOK, HandlerType, Locals
  <1>1. Stored \subseteq Stored'
    BY <1>0, StoredGrows
  <1>2. ASSUME pc \in Handling
        PROVE  /\ h.req.files \in Seq(RawPaths \cup {Malformed})
               /\ Len(h.req.files) \in Nat /\ DOMAIN h.req.files = 1..Len(h.req.files)
    BY <1>0, <1>2, RequestFields DEF TypeOK
  <1>3. CASE pc' \in {"down", "idle"}
    BY <1>3 DEF WorkStored, InPath, Handling
  <1>4. ASSUME NEW r \in Requests, Receive(r) PROVE WorkStored'
    <2>1. CASE r.json
      <3>1. pc' = "version" /\ h'.i = 0 /\ h'.status = 0
        BY <1>4, <2>1 DEF Receive, NoLocals
      <3> QED  BY <3>1 DEF WorkStored, InPath
    <2>2. CASE ~r.json
      <3>1. pc' = "reply" /\ h' = [NoLocals EXCEPT !.req = r, !.status = 400]
        BY <1>4, <2>2, Zenon DEF Receive
      <3>2. h'.status = 400
        BY <3>1 DEF NoLocals
      <3> QED  BY <3>1, <3>2 DEF WorkStored, InPath, Handling
    <2> QED  BY <2>1, <2>2
  <1>5. CASE FindVersion
    <2>1. pc = "version" /\ pc' = "group" /\ h'.i = h.i /\ h'.status = h.status
      BY <1>0, <1>5 DEF FindVersion, Locals
    <2> QED  BY <2>1 DEF AckInv, WorkStored, InPath, Handling
  <1>6. CASE FindGroup
    <2>1. pc = "group" /\ pc' = "files" /\ h'.i = h.i /\ h'.status = h.status /\ h'.req = h.req
      BY <1>0, <1>6 DEF FindGroup, Locals
    <2>2. h.i = 0 /\ h.status = 0
      BY <2>1 DEF AckInv, WorkStored, Handling
    <2>3. Len(h.req.files) \in Nat
      BY <1>2, <2>1 DEF Handling
    <2>4. EntriesStored(0)'
      BY DEF EntriesStored
    <2> QED  BY <2>1, <2>2, <2>3, <2>4 DEF WorkStored, InPath, Handling
  <1>7. CASE NextFile
    <2>1. /\ pc = "files" /\ pc' = "define" /\ h.i < Len(h.req.files)
          /\ h.req.files[h.i + 1] # Malformed
          /\ h'.i = h.i + 1 /\ h'.status = h.status /\ h'.req = h.req /\ h'.k = 0
          /\ h'.vPath = Segments(h.req.files[h.i + 1])
      BY <1>0, <1>7 DEF NextFile, Locals
    <2>2. EntriesStored(h.i) /\ h.status = 0 /\ Len(h.req.files) \in Nat
      BY <1>2, <2>1 DEF AckInv, WorkStored, Handling
    <2>3. PICK n : n = h.i
      OBVIOUS
    <2>4. EntriesStored(n)'
      BY <1>1, <2>1, <2>2, <2>3, EntriesKept
    <2>5. h'.i - 1 = n /\ h'.i \in 1..Len(h'.req.files)
      BY <1>0, <2>1, <2>2, <2>3
    <2>6. EntriesStored(h.i - 1)'
      BY <2>4, <2>5
    <2> QED  BY <2>1, <2>2, <2>5, <2>6 DEF WorkStored, InPath, Handling
  <1>8. CASE FilesDone
    <2>1. pc = "files" /\ pc' = "reply" /\ h.i = Len(h.req.files) /\ h'.req = h.req
      BY <1>0, <1>8 DEF FilesDone, Locals
    <2>2. EntriesStored(h.i) /\ DOMAIN h.req.files = 1..h.i
      BY <1>2, <2>1 DEF AckInv, WorkStored, Handling
    <2>3. Needs(h.req) \subseteq Stored
      BY <2>2 DEF Needs, EntriesStored
    <2>4. Needs(h'.req) \subseteq Stored'
      BY <1>1, <2>1, <2>3
    <2> QED  BY <2>1, <2>4 DEF WorkStored, InPath, Handling, Needs, PathNeeds
  <1>9. CASE FindDefineFile \/ InsertFile \/ CountChildren
    <2>1. /\ pc \in InPath /\ pc' \in InPath
          /\ h'.req = h.req /\ h'.i = h.i /\ h'.k = h.k /\ h'.vPath = h.vPath /\ h'.status = h.status
      BY <1>0, <1>9, SMTT(30) DEF FindDefineFile, InsertFile, CountChildren, Locals, InPath
    <2>2. /\ h.i \in 1..Len(h.req.files) /\ h.status = 0
          /\ h.req.files[h.i] # Malformed /\ h.vPath = Segments(h.req.files[h.i])
          /\ EntriesStored(h.i - 1)
          /\ \A n \in 1..h.k : PrefixNode(n) \in Stored
      BY <2>1 DEF AckInv, WorkStored, InPath, Handling
    <2>3. PICK n : n = h.i - 1
      OBVIOUS
    <2>4. EntriesStored(n)'
      BY <1>1, <2>1, <2>2, <2>3, EntriesKept
    <2>5. EntriesStored(h.i - 1)'
      BY <2>1, <2>3, <2>4
    <2>6. PICK m : m = h.k
      OBVIOUS
    <2>7. \A l \in 1..m : PrefixNode(l)' \in Stored'
      BY <1>1, <2>1, <2>2, <2>6, PrefixesKept
    <2>8. \A l \in 1..h'.k : PrefixNode(l)' \in Stored'
      BY <2>1, <2>6, <2>7
    <2> QED  BY <2>1, <2>2, <2>5, <2>8 DEF WorkStored, InPath, Handling
  <1>10. CASE PathDone
    <2>1. pc = "define" /\ pc' = "files" /\ h' = h /\ h.k = Len(h.vPath)
      BY <1>10 DEF PathDone
    <2>2. /\ h.i \in 1..Len(h.req.files) /\ h.status = 0
          /\ h.req.files[h.i] # Malformed /\ h.vPath = Segments(h.req.files[h.i])
          /\ EntriesStored(h.i - 1)
          /\ \A n \in 1..h.k : PrefixNode(n) \in Stored
      BY <2>1 DEF AckInv, WorkStored, InPath, Handling
    <2>3. Len(h.req.files) \in Nat
      BY <1>2, <2>1 DEF Handling
    <2>4. EntriesStored(h.i)
      BY <1>0, <2>1, <2>2, EntryDone
    <2>5. PICK n : n = h.i
      OBVIOUS
    <2>6. EntriesStored(n)'
      BY <1>1, <2>1, <2>4, <2>5, EntriesKept
    <2>7. EntriesStored(h.i)' /\ h'.i <= Len(h'.req.files)
      BY <2>1, <2>2, <2>3, <2>5, <2>6
    <2> QED  BY <2>1, <2>2, <2>7 DEF WorkStored, InPath, Handling
  <1>11. CASE FindFile \/ UpdateParent
    <2>1. /\ pc \in InPath /\ pc' = "define"
          /\ h'.req = h.req /\ h'.i = h.i /\ h'.k = h.k + 1 /\ h'.vPath = h.vPath /\ h'.status = h.status
      <3>1. CASE FindFile
        BY <1>0, <3>1 DEF FindFile, Locals, InPath
      <3>2. CASE UpdateParent
        <4>1. pc = "update" /\ pc' = "define"
              /\ h' = [h EXCEPT !.nFileParentId = h.nFileId, !.k = h.k + 1,
                                !.nFileId = 0, !.nAmountOfChildren = 0]
          BY <3>2 DEF UpdateParent
        <4> QED  BY <1>0, <4>1 DEF Locals, InPath
      <3> QED  BY <1>11, <3>1, <3>2
    <2>2. /\ h.i \in 1..Len(h.req.files) /\ h.status = 0
          /\ h.req.files[h.i] # Malformed /\ h.vPath = Segments(h.req.files[h.i])
          /\ EntriesStored(h.i - 1)
          /\ \A n \in 1..h.k : PrefixNode(n) \in Stored
      BY <2>1 DEF AckInv, WorkStored, InPath, Handling
    <2>3. PICK n : n = h.i - 1
      OBVIOUS
    <2>4. EntriesStored(n)'
      BY <1>1, <2>1, <2>2, <2>3, EntriesKept
    <2>5. EntriesStored(h.i - 1)'
      BY <2>1, <2>3, <2>4
    <2>6. \E f \in DOMAIN webdiff_files : FileKey(webdiff_files[f]) = hKey
      <3>1. CASE FindFile
        BY <1>0, <3>1 DEF FindFile, RowsInv, CacheMirrorsTables
      <3>2. CASE UpdateParent
        BY <1>0, <3>2 DEF UpdateParent, RowsInv, HandlerRows
      <3> QED  BY <1>11, <3>1, <3>2
    <2>7. PrefixNode(h.k + 1) \in Stored
      <3>1. pc \in {"row", "count", "update"}
        BY <1>11 DEF FindFile, UpdateParent
      <3> QED  BY <1>0, <2>6, <3>1, KeyNode DEF Stored
    <2>8. PICK m : m = h.k + 1
      OBVIOUS
    <2>9. \A l \in 1..m : PrefixNode(l) \in Stored
      BY <1>0, <2>2, <2>7, <2>8, PrefixAdded
    <2>10. \A l \in 1..m : PrefixNode(l)' \in Stored'
      BY <1>1, <2>1, <2>9, PrefixesKept
    <2>11. \A l \in 1..h'.k : PrefixNode(l)' \in Stored'
      BY <2>1, <2>8, <2>10
    <2> QED  BY <2>1, <2>2, <2>5, <2>11 DEF WorkStored, InPath, Handling
  <1> QED  BY <1>3, <1>4, <1>5, <1>6, <1>7, <1>8, <1>9, <1>10, <1>11 DEF Next, Step, LoadCache,
              Crash, Die, ThrowOnEntry, Reply

-----------------------------------------------------------------------------
(* The theorems *)

\* Only the answer to a request changes what is acknowledged.
LEMMA AckedChanges == Next => acked' = acked \/ Reply
  BY DEF Next, Step, LoadCache, Crash, Die, Receive, FindVersion, FindGroup, NextFile,
     ThrowOnEntry, FilesDone, FindDefineFile, PathDone, FindFile, InsertFile,
     CountChildren, UpdateParent, history

\* An answer adds a request whose nodes are stored, and nothing stored goes away.
LEMMA AckedStep ==
    ASSUME AckInv, Next
    PROVE  AckedStored'
  <1>0. TreeInv
    BY DEF AckInv
  <1>1. Stored \subseteq Stored'
    BY <1>0, StoredGrows
  <1>2. ASSUME NEW r \in acked' PROVE Needs(r) \subseteq Stored
    <2>1. CASE r \in acked
      BY <2>1 DEF AckInv, AckedStored
    <2>2. CASE r \notin acked
      <3>1. acked' = acked \/ Reply
        BY AckedChanges
      <3>2. Reply /\ h.status = 200 /\ r = h.req
        BY <1>2, <2>2, <3>1 DEF Reply
      <3> QED  BY <3>2 DEF AckInv, WorkStored, Reply
    <2> QED  BY <2>1, <2>2
  <1> QED  BY <1>1, <1>2 DEF AckedStored, Needs, PathNeeds

\* AckedStored with what the handler has stored is inductive relative to TreeInv.
LEMMA AckInvariant == Spec => []AckInv
  <1>1. Init => WorkStored /\ AckedStored
    BY DEF Init, WorkStored, AckedStored, InPath, Handling
  <1>2. TreeInv /\ WorkStored /\ AckedStored /\ [Next]_vars => (WorkStored /\ AckedStored)'
    <2>1. ASSUME WorkStored, AckedStored, UNCHANGED vars PROVE (WorkStored /\ AckedStored)'
      <3>1. Stored' = Stored
        BY <2>1 DEF vars, tables, Stored, Node
      <3>2. h' = h /\ pc' = pc /\ acked' = acked
        BY <2>1 DEF vars, history
      <3>3. WorkStored'
        BY <2>1, <3>1, <3>2 DEF WorkStored, EntriesStored, PrefixNode, Needs, PathNeeds
      <3>4. AckedStored'
        BY <2>1, <3>1, <3>2 DEF AckedStored, Needs, PathNeeds
      <3> QED  BY <3>3, <3>4
    <2> QED  BY <2>1, WorkStep, AckedStep DEF AckInv
  <1>3. AckInv <=> TreeInv /\ WorkStored /\ AckedStored
    BY DEF AckInv
  <1> QED  BY <1>1, <1>2, <1>3, TreeInvariant, PTL DEF Spec

\* An upload that was answered with 200 is in the tables with all its files and
\* directories, and stays there, whatever crashes and retries come before and after.
THEOREM AcknowledgedStored == Spec => []AckedStored
  <1>1. AckInv => AckedStored
    BY DEF AckInv
  <1> QED  BY <1>1, AckInvariant, PTL

\* A step of the server is a step of the file tree or changes nothing of it: the INSERT of
\* insertFile adds a node below a stored one, the answer 200 acknowledges an upload.
LEMMA TreeStep ==
    ASSUME AckInv, Next
    PROVE  Tree!Next \/ UNCHANGED Tree!ftvars
  <1>0. TreeInv /\ RowsInv /\ TypeOK
    BY DEF AckInv, TreeInv, RowsInv
  <1>1. CASE InsertFile
    <2>1. Stored' = Stored \cup {PrefixNode(h.k + 1)} /\ acked' = acked
      BY <1>0, <1>1, StoredInserted DEF InsertFile, history
    <2>2. /\ h.k \in Nat /\ h.vPath \in Seq(Names) /\ h.k < Len(h.vPath)
      BY <1>0, <1>1 DEF TypeOK, HandlerType, Locals, Paths, RowsInv, HandlerRows, InsertFile
    <2>3. /\ h.i \in 1..Len(h.req.files)
          /\ h.req.files[h.i] # Malformed /\ h.vPath = Segments(h.req.files[h.i])
          /\ \A n \in 1..h.k : PrefixNode(n) \in Stored
      BY <1>1 DEF AckInv, WorkStored, InPath, InsertFile
    <2>4. h.req \in Requests /\ DOMAIN h.req.files = 1..Len(h.req.files)
      BY <1>0, <1>1, RequestFields DEF TypeOK, InsertFile, Handling
    <2>5. PrefixNode(h.k + 1) \in Needs(h.req)
      <3>1. h.k + 1 \in 1..Len(h.vPath)
        BY <2>2
      <3>2. PrefixNode(h.k + 1) \in PathNeeds(h.req, h.req.files[h.i])
        BY <2>3, <3>1 DEF PathNeeds, PrefixNode
      <3> QED  BY <2>3, <2>4, <3>2 DEF Needs
    <2>6. PrefixNode(h.k + 1) \in Tree!Nodes
      BY <2>4, <2>5 DEF Tree!Nodes
    <2>7. /\ Len(SubSeq(h.vPath, 1, h.k + 1)) = h.k + 1
          /\ SubSeq(SubSeq(h.vPath, 1, h.k + 1), 1, h.k) = SubSeq(h.vPath, 1, h.k)
      BY <2>2, PrefixOfPrefix
    <2>8. ASSUME h.k + 1 > 1 PROVE Tree!ParentNode(PrefixNode(h.k + 1)) \in Stored
      <3>1. PrefixNode(h.k) \in Stored
        BY <2>2, <2>3, <2>8
      <3>2. Tree!ParentNode(PrefixNode(h.k + 1)) = PrefixNode(h.k)
        BY <2>2, <2>7 DEF Tree!ParentNode, PrefixNode
      <3> QED  BY <3>1, <3>2
    <2>9. Tree!Grow(PrefixNode(h.k + 1))
      <3>1. Len(PrefixNode(h.k + 1)[3]) = h.k + 1
        BY <2>7 DEF PrefixNode
      <3> QED  BY <2>1, <2>2, <2>8, <3>1 DEF Tree!Grow
    <2> QED  BY <2>6, <2>9 DEF Tree!Next
  <1>2. CASE Reply /\ h.status = 200
    <2>1. Stored' = Stored
      BY <1>0, <1>2, StoredSame DEF Reply, InsertFile
    <2>2. h.req \in Requests /\ Needs(h.req) \subseteq Stored
      BY <1>0, <1>2, RequestFields DEF AckInv, WorkStored, Reply, TypeOK, Handling
    <2>3. acked' = acked \cup {h.req}
      BY <1>2 DEF Reply
    <2>4. Tree!Acknowledge(h.req)
      BY <2>1, <2>2, <2>3 DEF Tree!Acknowledge
    <2> QED  BY <2>2, <2>4 DEF Tree!Next
  <1>3. CASE ~InsertFile /\ ~(Reply /\ h.status = 200)
    <2>1. Stored' = Stored
      BY <1>0, <1>3, StoredSame
    <2>2. acked' = acked
      BY <1>3, AckedChanges DEF Reply
    <2> QED  BY <2>1, <2>2 DEF Tree!ftvars
  <1> QED  BY <1>1, <1>2, <1>3

\* The tables and the answers of the server are a FileTree: a forest that grows one node
\* below a stored one at a time, and uploads that are acknowledged when all their nodes
\* are there.  Caches, ids, SQL statements, crashes and reloads do not show.
THEOREM StorageImplementsFileTree == Spec => ImplementsFileTree
  <1>1. Init => Tree!Init
    BY DEF Init, Tree!Init, Stored
  <1>2. AckInv /\ [Next]_vars => [Tree!Next]_(Tree!ftvars)
    <2>1. ASSUME UNCHANGED vars PROVE UNCHANGED Tree!ftvars
      BY <2>1 DEF vars, tables, history, Stored, Node, Tree!ftvars
    <2> QED  BY <2>1, TreeStep
  <1> QED  BY <1>1, <1>2, AckInvariant, PTL DEF Spec, ImplementsFileTree, Tree!Spec
=============================================================================

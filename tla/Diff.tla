-------------------------------- MODULE Diff --------------------------------
(***************************************************************************)
(* Comparing two versions and commenting on files: the handlers of         *)
(* /api/diff/, /api/comment-add/ and /api/comment-hide/, that is           *)
(* MySqlStorage::getDiff with the ModelDiffGroups it fills, addComment and *)
(* hideComment.                                                            *)
(*                                                                         *)
(* The handlers run to completion on the one thread of the server, so the  *)
(* tables of the upload path (db) do not change under a diff; what module  *)
(* Storage proves of them is the assumption here.  The rows of a SELECT    *)
(* without ORDER BY come in any order.                                     *)
(***************************************************************************)
EXTENDS Naturals, Sequences, FiniteSets, Functions

CONSTANTS Databases,      \* tables: [versions, groups, defines, files, comments], id = position
          VersionIds,     \* the version ids clients ask for, known ones or not
          CommentedIds,   \* the define_file_ids clients comment on, known ones or not
          MaxComments     \* bound on the rows of webdiff_define_files_comments

\* What Storage guarantees of the tables, as far as a diff depends on it.
WellFormed(d) ==
    /\ \A i, j \in DOMAIN d.defines : d.defines[i].filepath = d.defines[j].filepath => i = j
    /\ \A i, j \in DOMAIN d.files :
          /\ d.files[i].version_id = d.files[j].version_id
          /\ d.files[i].file_group_id = d.files[j].file_group_id
          /\ d.files[i].define_file_id = d.files[j].define_file_id
          => i = j
    /\ \A i \in DOMAIN d.files :
          LET f == d.files[i] IN
          /\ f.version_id \in DOMAIN d.versions
          /\ f.file_group_id \in DOMAIN d.groups
          /\ f.define_file_id \in DOMAIN d.defines
          /\ f.parent_id # 0 =>
                /\ f.parent_id \in DOMAIN d.files
                /\ d.files[f.parent_id].version_id = f.version_id
                /\ d.files[f.parent_id].file_group_id = f.file_group_id

FileRow == [version_id : Nat, file_group_id : Nat, define_file_id : Nat, parent_id : Nat]

CommentRow == [define_file_id : Nat, hided : BOOLEAN]

ASSUME DatabasesAssumption ==
    \A d \in Databases : d.files \in Seq(FileRow) /\ d.comments \in Seq(CommentRow) /\ WellFormed(d)

ASSUME IdsAssumption == VersionIds \subseteq Nat /\ CommentedIds \subseteq Nat /\ MaxComments \in Nat

VARIABLES
    db,                             \* the tables of the upload path
    webdiff_define_files_comments,  \* rows [define_file_id, hided]
    pc,
    left, right,                    \* nLeftVersionId, nRightVersionId
    rows,                           \* rows of the running SELECT not yet fetched
    m_mapGroups,                    \* group id -> vector of diff files
    m_vFileDefineIds,               \* define file ids, each once
    todo,                           \* groups whose parents are still to be searched
    vIds,                           \* stack of parent ids of the current group
    nComments,                      \* files whose comments have been read
    m_mapComments                   \* define file id -> visible comment ids

result  == <<m_mapGroups, m_vFileDefineIds>>
request == <<left, right, rows, result, todo, vIds, nComments, m_mapComments>>
vars == <<db, webdiff_define_files_comments, pc, request>>

-----------------------------------------------------------------------------
(* Queries *)

\* Mutant of DiffFiles: files are compared across groups.
DiffFilesAnyGroup(l, r) ==
    {i \in DOMAIN db.files :
        /\ db.files[i].version_id = l
        /\ ~ \E j \in DOMAIN db.files :
              /\ db.files[j].version_id = r
              /\ db.files[j].define_file_id = db.files[i].define_file_id}

\* getDiffFiles: rows of version l whose file is not in version r of that group.
DiffFiles(l, r) ==
    {i \in DOMAIN db.files :
        /\ db.files[i].version_id = l
        /\ ~ \E j \in DOMAIN db.files :
              /\ db.files[j].version_id = r
              /\ db.files[j].file_group_id = db.files[i].file_group_id
              /\ db.files[j].define_file_id = db.files[i].define_file_id}

\* Mutant of Comments: hidden comments are selected too.
AllComments(d) == {c \in DOMAIN webdiff_define_files_comments :
                      webdiff_define_files_comments[c].define_file_id = d}

\* getComments: the comments of a file that are not hidden.
Comments(d) == {c \in DOMAIN webdiff_define_files_comments :
                   /\ webdiff_define_files_comments[c].define_file_id = d
                   /\ ~webdiff_define_files_comments[c].hided}

\* Mutant of DiffFile: unchanged parents are given a state the page does not know.
DiffFileMarked(i, state) == [id |-> i, parent |-> db.files[i].parent_id,
                             define |-> db.files[i].define_file_id,
                             state |-> IF state = "" THEN "parent" ELSE state]

\* ModelDiffFile, filled from row i of webdiff_files.
DiffFile(i, state) == [id |-> i, parent |-> db.files[i].parent_id,
                       define |-> db.files[i].define_file_id, state |-> state]

\* Mutant of hasFileId: nothing is found.
hasNoFileId(g, i) == FALSE

\* ModelDiffGroup::hasFileId
hasFileId(g, i) == \E e \in Range(m_mapGroups[g]) : e.id = i

\* Mutant of ParentFilesIds: the ids of the files instead of their parents'.
OwnFilesIds(g) == [n \in DOMAIN m_mapGroups[g] |-> m_mapGroups[g][n].id]

\* ModelDiffGroup::getParentFilesIds
ParentFilesIds(g) == [n \in DOMAIN m_mapGroups[g] |-> m_mapGroups[g][n].parent]

\* ModelDiffGroups::addDiffFile
AddDiffFile(g, e) ==
    /\ m_mapGroups' = IF g \in DOMAIN m_mapGroups
                        THEN [m_mapGroups EXCEPT ![g] = Append(@, e)]
                        ELSE [x \in DOMAIN m_mapGroups \cup {g} |->
                                 IF x = g THEN <<e>> ELSE m_mapGroups[x]]
    /\ m_vFileDefineIds' = IF e.define \in Range(m_vFileDefineIds)
                             THEN m_vFileDefineIds
                             ELSE Append(m_vFileDefineIds, e.define)

Init == /\ db \in Databases
        /\ webdiff_define_files_comments = db.comments
        /\ pc = "idle" /\ left = 0 /\ right = 0 /\ rows = {}
        /\ m_mapGroups = <<>> /\ m_vFileDefineIds = <<>> /\ todo = {} /\ vIds = <<>>
        /\ nComments = 0 /\ m_mapComments = <<>>

-----------------------------------------------------------------------------
(* Comments *)

\* addComment: any define_file_id is stored, with hided = 0.
AddComment(d) ==
    /\ pc = "idle"
    /\ Len(webdiff_define_files_comments) < MaxComments
    /\ webdiff_define_files_comments' =
          Append(webdiff_define_files_comments, [define_file_id |-> d, hided |-> FALSE])
    /\ UNCHANGED <<db, pc, request>>

\* hideComment of a comment there is (the UPDATE of another id changes nothing).
HideComment(c) ==
    /\ pc = "idle"
    /\ webdiff_define_files_comments' = [webdiff_define_files_comments EXCEPT ![c].hided = TRUE]
    /\ UNCHANGED <<db, pc, request>>

-----------------------------------------------------------------------------
(* getDiff *)

\* httpApiDiff: a new ModelDiffGroups, and the SELECT of the missing files.
SelectMissing(l, r) ==
    /\ pc = "idle"
    /\ left' = l /\ right' = r
    /\ rows' = DiffFiles(l, r)
    /\ pc' = "missing"
    /\ m_mapGroups' = <<>> /\ m_vFileDefineIds' = <<>> /\ todo' = {} /\ vIds' = <<>>
    /\ nComments' = 0 /\ m_mapComments' = <<>>
    /\ UNCHANGED <<db, webdiff_define_files_comments>>

\* One row of getDiffFiles.
FetchRow ==
    /\ pc \in {"missing", "new"}
    /\ \E i \in rows : /\ AddDiffFile(db.files[i].file_group_id, DiffFile(i, pc))
                       /\ rows' = rows \ {i}
    /\ UNCHANGED <<db, webdiff_define_files_comments, pc, left, right, todo, vIds,
                   nComments, m_mapComments>>

\* The second call of getDiffFiles, with the versions exchanged.
SelectNew ==
    /\ pc = "missing" /\ rows = {}
    /\ rows' = DiffFiles(right, left)
    /\ pc' = "new"
    /\ UNCHANGED <<db, webdiff_define_files_comments, left, right, result,
                   todo, vIds, nComments, m_mapComments>>

\* The loop over the groups begins.
SearchParents ==
    /\ pc = "new" /\ rows = {}
    /\ todo' = DOMAIN m_mapGroups
    /\ pc' = "groups"
    /\ UNCHANGED <<db, webdiff_define_files_comments, left, right, rows, result,
                   vIds, nComments, m_mapComments>>

\* The group at hand: std::map is walked by increasing key.
group == CHOOSE g \in todo : \A x \in todo : g <= x

\* vIds is a copy of the group's parent ids.
NextGroup ==
    /\ pc = "groups" /\ todo # {}
    /\ vIds' = ParentFilesIds(group)
    /\ pc' = "parents"
    /\ UNCHANGED <<db, webdiff_define_files_comments, left, right, rows, result,
                   todo, nComments, m_mapComments>>

\* What findAndAddFile leaves on the stack for the row it has read: the id it
\* was called for, not that of the row above.
PushAfterFind(stack, i) == Append(stack, i)

\* vIds.back() and pop_back(); findAndAddFile for an id not yet there.
PopParent ==
    /\ pc = "parents" /\ vIds # <<>>
    /\ LET i == vIds[Len(vIds)]
           rest == SubSeq(vIds, 1, Len(vIds) - 1)
       IN  IF i = 0 \/ hasFileId(group, i) \/ i \notin DOMAIN db.files
             THEN /\ vIds' = rest
                  /\ UNCHANGED <<m_mapGroups, m_vFileDefineIds>>
             ELSE /\ AddDiffFile(group, DiffFile(i, ""))
                  /\ vIds' = PushAfterFind(rest, i)
    /\ UNCHANGED <<db, webdiff_define_files_comments, pc, left, right, rows, todo,
                   nComments, m_mapComments>>

\* Mutant of GroupDone: the iterator of the groups is not advanced.
GroupAgain ==
    /\ pc = "parents" /\ vIds = <<>>
    /\ pc' = "groups"
    /\ UNCHANGED <<db, webdiff_define_files_comments, request>>

\* The stack is empty: on to the next group.
GroupDone ==
    /\ pc = "parents" /\ vIds = <<>>
    /\ todo' = todo \ {group}
    /\ pc' = "groups"
    /\ UNCHANGED <<db, webdiff_define_files_comments, left, right, rows, result,
                   vIds, nComments, m_mapComments>>

SearchComments ==
    /\ pc = "groups" /\ todo = {}
    /\ pc' = "comments"
    /\ UNCHANGED <<db, webdiff_define_files_comments, request>>

\* getComments and setComments for the next file of m_vFileDefineIds.
SetComments ==
    /\ pc = "comments"
    /\ nComments < Len(m_vFileDefineIds)
    /\ LET d == m_vFileDefineIds[nComments + 1] IN
       m_mapComments' = [x \in DOMAIN m_mapComments \cup {d} |->
                            IF x = d THEN Comments(d) ELSE m_mapComments[x]]
    /\ nComments' = nComments + 1
    /\ UNCHANGED <<db, webdiff_define_files_comments, pc, left, right, rows, result, todo, vIds>>

\* All comments are read: the result is turned into the response.
CommentsDone ==
    /\ pc = "comments"
    /\ nComments = Len(m_vFileDefineIds)
    /\ pc' = "reply"
    /\ UNCHANGED <<db, webdiff_define_files_comments, request>>

\* The response is sent and the ModelDiffGroups of the request is gone.
Reply ==
    /\ pc = "reply"
    /\ pc' = "idle"
    /\ left' = 0 /\ right' = 0 /\ rows' = {}
    /\ m_mapGroups' = <<>> /\ m_vFileDefineIds' = <<>> /\ todo' = {} /\ vIds' = <<>>
    /\ nComments' = 0 /\ m_mapComments' = <<>>
    /\ UNCHANGED <<db, webdiff_define_files_comments>>

Step == \/ FetchRow \/ SelectNew \/ SearchParents \/ NextGroup \/ PopParent \/ GroupDone
        \/ SearchComments \/ SetComments \/ CommentsDone \/ Reply

Next == \/ Step
        \/ \E l, r \in VersionIds : SelectMissing(l, r)
        \/ \E d \in CommentedIds : AddComment(d)
        \/ \E c \in DOMAIN webdiff_define_files_comments : HideComment(c)

Spec == Init /\ [][Next]_vars
FairSpec == Spec /\ WF_vars(Step)

-----------------------------------------------------------------------------
(* Properties *)

DiffFileType == [id : Nat, parent : Nat, define : Nat, state : {"missing", "new", ""}]

\* Every variable has the type the classes give it.
TypeOK ==
    /\ db.files \in Seq(FileRow)
    /\ webdiff_define_files_comments \in Seq(CommentRow)
    /\ pc \in {"idle", "missing", "new", "groups", "parents", "comments", "reply"}
    /\ left \in Nat /\ right \in Nat
    /\ rows \subseteq DOMAIN db.files
    /\ DOMAIN m_mapGroups \subseteq Nat
    /\ \A g \in DOMAIN m_mapGroups : m_mapGroups[g] \in Seq(DiffFileType)
    /\ m_vFileDefineIds \in Seq(Nat)
    /\ todo \subseteq Nat
    /\ vIds \in Seq(Nat)
    /\ nComments \in Nat
    /\ DOMAIN m_mapComments \subseteq Nat
    /\ \A d \in DOMAIN m_mapComments : m_mapComments[d] \subseteq DOMAIN webdiff_define_files_comments

\* The paths a version has in a group: what the two versions are compared by.
PathsOf(v, g) == {db.defines[db.files[i].define_file_id].filepath :
                     i \in {j \in DOMAIN db.files : /\ db.files[j].version_id = v
                                                    /\ db.files[j].file_group_id = g}}

\* The positions in a group's vector of files with a given state.
InState(g, state) ==
    IF g \in DOMAIN m_mapGroups
      THEN {n \in DOMAIN m_mapGroups[g] : m_mapGroups[g][n].state = state}
      ELSE {}

PathsInState(g, state) == {db.defines[m_mapGroups[g][n].define].filepath : n \in InState(g, state)}

\* The answer marks exactly the paths of the left version that the right one
\* lacks as missing and the converse as new, in every group, and the counters of
\* ModelDiffGroup (one per file pushed with that state) are their numbers.
DiffExact ==
    pc = "reply" =>
    \A g \in DOMAIN db.groups :
        LET missing == PathsOf(left, g) \ PathsOf(right, g)
            new     == PathsOf(right, g) \ PathsOf(left, g)
        IN  /\ PathsInState(g, "missing") = missing
            /\ PathsInState(g, "new") = new
            /\ Cardinality(InState(g, "missing")) = Cardinality(missing)
            /\ Cardinality(InState(g, "new")) = Cardinality(new)

\* A file is in the answer once, and in the group it belongs to: the JSON object
\* is keyed by file id, so a second entry would overwrite the first.
EachFileOnce ==
    \A g \in DOMAIN m_mapGroups :
        /\ \A m, n \in DOMAIN m_mapGroups[g] : m_mapGroups[g][m].id = m_mapGroups[g][n].id => m = n
        /\ \A n \in DOMAIN m_mapGroups[g] :
              /\ m_mapGroups[g][n].id \in DOMAIN db.files
              /\ db.files[m_mapGroups[g][n].id].file_group_id = g

\* The row directly above a missing or new file is in the answer, and a row that
\* did not change is there only because it is above one that did.
DirectParents ==
    pc = "reply" =>
    \A g \in DOMAIN m_mapGroups : \A e \in Range(m_mapGroups[g]) :
        /\ e.state # "" /\ e.parent # 0 => hasFileId(g, e.parent)
        /\ e.state = "" => \E c \in Range(m_mapGroups[g]) : c.state # "" /\ c.parent = e.id

\* The answer has the comments of every file in it and of no other, all that are
\* not hidden and none that is.
CommentsExact ==
    pc = "reply" =>
    /\ DOMAIN m_mapComments =
          UNION {{e.define : e \in Range(m_mapGroups[g])} : g \in DOMAIN m_mapGroups}
    /\ \A d \in DOMAIN m_mapComments : \A c \in DOMAIN webdiff_define_files_comments :
          c \in m_mapComments[d] <=>
              webdiff_define_files_comments[c] = [define_file_id |-> d, hided |-> FALSE]

\* The loops of getDiff end: the search for parents, which pushes onto the stack
\* it pops from, included.
DiffEnds == pc # "idle" ~> pc = "idle"

\* "Search parents..." in getDiff, and index.html, which draws the tree downwards
\* from id0: every file of the answer hangs below files of the answer up to the
\* top.  False of the code: see the README.
AncestorsPresent ==
    pc = "reply" =>
    \A g \in DOMAIN m_mapGroups : \A e \in Range(m_mapGroups[g]) :
        e.parent = 0 \/ hasFileId(g, e.parent)

=============================================================================

------------------------------- MODULE Browse -------------------------------
(***************************************************************************)
(* Reading the tree while uploads, crashes and restarts go on: the         *)
(* handlers /api/versions-all/, /api/groups/ and /api/files/ over the      *)
(* state of Storage, and the page browser.html, which asks for one level   *)
(* at a time, keeps the ids it was given and drops a subtree that is       *)
(* closed again.                                                           *)
(*                                                                         *)
(* A handler is one SELECT, or a copy of a cache, between two uploads: it  *)
(* is one step, taken while no other request is handled.  A request that   *)
(* fails because the process is down leaves the page as it is, and is made *)
(* again.                                                                  *)
(***************************************************************************)
EXTENDS Storage

VARIABLES
    todo,    \* items of the page that are not opened: group_id 0 for a version
    opened,  \* items that are
    shown,   \* the rows of files the page shows
    listed,  \* the groups it shows, with their amount_of_files
    began    \* history: uploads acknowledged before the page was loaded; {NoRequest}
             \* when it was not loaded yet

page == <<todo, opened, shown, listed, began>>
bvars == <<vars, page>>

BrowseInit == Init /\ todo = {} /\ opened = {} /\ shown = {} /\ listed = {}
              /\ began = {NoRequest}

\* httpApiVersionsAll: from the cache.
getVersionsAll == m_vVersions

\* httpApiGroups: the groups with rows of the version and how many.
getGroups(nVersionId) ==
    LET rows == {f \in DOMAIN webdiff_files : webdiff_files[f].version_id = nVersionId} IN
    {[group_id |-> g, title |-> webdiff_file_groups[g],
      amount_of_files |-> Cardinality({f \in rows : webdiff_files[f].file_group_id = g})]
        : g \in {webdiff_files[f].file_group_id : f \in rows}}

\* Mutant of getFiles: the parent alone selects the rows.
getFilesOfParent(nVersionId, nGroupId, nParentId) ==
    {[file_id |-> f, amount_of_children |-> webdiff_files[f].amount_of_children,
      title |-> webdiff_define_files[webdiff_files[f].define_file_id].filename]
        : f \in Children(webdiff_files, nParentId)}

\* Mutant of getFiles: rows that look empty are left out.
getFilesFull(nVersionId, nGroupId, nParentId) ==
    {[file_id |-> f, amount_of_children |-> webdiff_files[f].amount_of_children,
      title |-> webdiff_define_files[webdiff_files[f].define_file_id].filename]
        : f \in {c \in Children(webdiff_files, nParentId) :
                    /\ webdiff_files[c].version_id = nVersionId
                    /\ webdiff_files[c].file_group_id = nGroupId
                    /\ webdiff_files[c].amount_of_children > 0}}

\* httpApiFiles: the rows of one level, with the name from the joined define row.
getFiles(nVersionId, nGroupId, nParentId) ==
    {[file_id |-> f, amount_of_children |-> webdiff_files[f].amount_of_children,
      title |-> webdiff_define_files[webdiff_files[f].define_file_id].filename]
        : f \in {c \in Children(webdiff_files, nParentId) :
                    /\ webdiff_files[c].version_id = nVersionId
                    /\ webdiff_files[c].file_group_id = nGroupId}}

-----------------------------------------------------------------------------
\* The page is loaded: the list of versions.
Load ==
    /\ pc = "idle" /\ began = {NoRequest}
    /\ began' = acked
    /\ todo' = {[version_id |-> v.id, group_id |-> 0, parent_id |-> 0,
                 node |-> <<v.name, "", <<>>>>] : v \in getVersionsAll}
    /\ UNCHANGED <<vars, opened, shown, listed>>

\* A click on a version asks for its groups.
ExpandVersion(item) ==
    /\ pc = "idle" /\ item \in todo /\ item.group_id = 0
    /\ listed' = listed \cup {[version |-> item.node[1], group |-> g.title, amount |-> g.amount_of_files]
                                 : g \in getGroups(item.version_id)}
    /\ todo' = (todo \ {item}) \cup
               {[item EXCEPT !.group_id = g.group_id, !.node[2] = g.title]
                   : g \in getGroups(item.version_id)}
    /\ opened' = opened \cup {item}
    /\ UNCHANGED <<vars, shown, began>>

\* The page puts a plus before rows that have children.
Opens(row) == row.amount_of_children > 0

\* A click on a group or on a directory asks for the level below it.
ExpandFiles(item) ==
    LET rows == getFiles(item.version_id, item.group_id, item.parent_id)
        NodeOf(row) == [item.node EXCEPT ![3] = Append(@, row.title)] IN
    /\ pc = "idle" /\ item \in todo /\ item.group_id # 0
    /\ shown' = shown \cup {[file_id |-> row.file_id, node |-> NodeOf(row), plus |-> Opens(row),
                             cut |-> row.file_id \in interrupted] : row \in rows}
    /\ todo' = (todo \ {item}) \cup
               {[item EXCEPT !.parent_id = row.file_id, !.node = NodeOf(row)]
                   : row \in {x \in rows : Opens(x)}}
    /\ opened' = opened \cup {item}
    /\ UNCHANGED <<vars, listed, began>>

\* The node n is in the subtree of an item of the page.
Below(item, n) ==
    /\ n[1] = item.node[1]
    /\ item.group_id # 0 =>
          /\ n # item.node /\ n[2] = item.node[2]
          /\ Len(n[3]) >= Len(item.node[3])
          /\ SubSeq(n[3], 1, Len(item.node[3])) = item.node[3]

\* A click on an item that is open: what is below is dropped from the page.
Collapse(item) ==
    LET Kept(items) == {x \in items : ~Below(item, x.node)} IN
    /\ item \in opened
    /\ opened' = Kept(opened \ {item}) /\ todo' = Kept(todo) \cup {item}
    /\ shown' = Kept(shown)
    /\ listed' = {l \in listed : ~Below(item, <<l.version, l.group, <<>>>>)}
    /\ UNCHANGED <<vars, began>>

Browsing == \/ Load
            \/ \E item \in todo : ExpandVersion(item) \/ ExpandFiles(item)
            \/ \E item \in opened : Collapse(item)

BrowseNext == (Next /\ UNCHANGED page) \/ Browsing

BrowseSpec == BrowseInit /\ [][BrowseNext]_bvars

-----------------------------------------------------------------------------
(* Properties *)

\* The names the page puts together while it goes down level by level, from lists it
\* got at different times, before and after crashes, are those of the row it shows, and
\* the page shows no row and no path twice.  It names a group for a version only with rows
\* in it, and with at least as many as had been acknowledged and at most as many as
\* are stored.
ShownTruly ==
    /\ \A x \in shown : x.file_id \in DOMAIN webdiff_files /\ Node(webdiff_files[x.file_id]) = x.node
    /\ \A x, y \in shown : x.file_id = y.file_id \/ x.node = y.node => x = y
    /\ \A l \in listed :
          LET Of(nodes) == {n \in nodes : n[1] = l.version /\ n[2] = l.group} IN
          /\ l.amount <= Cardinality(Of(Stored))
          /\ l.amount >= Cardinality(Of(UNION {Needs(r) : r \in began})) /\ l.amount > 0

\* A page with nothing left to open shows everything that was acknowledged before it was
\* loaded, except below a row without plus whose amount_of_children a crash has
\* left at zero.
WalkComplete ==
    began # {NoRequest} /\ todo = {} =>
        \A r \in began : \A n \in Needs(r) :
            \/ \E x \in shown : x.node = n
            \/ \E x \in shown : /\ x.cut /\ ~x.plus
                                /\ \E k \in 1..(Len(n[3]) - 1) : x.node = [n EXCEPT ![3] = SubSeq(@, 1, k)]

=============================================================================

------------------------------ MODULE FileTree ------------------------------
(***************************************************************************)
(* What the upload side of web-diff-files-tree promises: a forest of file  *)
(* nodes that only grows, one node under an existing parent at a time, and *)
(* uploads that are acknowledged only when every node they name is there.  *)
(* A node is <<version, group, path>>, a path the sequence of its names.   *)
(* Crashes, caches, ids and SQL do not show at this level.                 *)
(***************************************************************************)
EXTENDS Naturals, Sequences

CONSTANTS Uploads,          \* the uploads clients may make
          Needs(_)          \* the nodes an upload asks for

VARIABLES tree,             \* the nodes stored
          acked             \* the uploads answered with success

ftvars == <<tree, acked>>

\* The node directly above a node whose path has more than one name.
ParentNode(n) == <<n[1], n[2], SubSeq(n[3], 1, Len(n[3]) - 1)>>

Init == /\ tree = {}
        /\ acked = {}

\* A node appears under a parent that is there, or at the top of its group.
Grow(n) == /\ Len(n[3]) > 0
           /\ Len(n[3]) > 1 => ParentNode(n) \in tree
           /\ tree' = tree \cup {n}
           /\ UNCHANGED acked

\* An upload is acknowledged: all it asked for is in the tree.
Acknowledge(u) == /\ Needs(u) \subseteq tree
                  /\ acked' = acked \cup {u}
                  /\ UNCHANGED tree

\* The nodes that some upload asks for.
Nodes == UNION {Needs(u) : u \in Uploads}

Next == \/ \E n \in Nodes : Grow(n)
        \/ \E u \in Uploads : Acknowledge(u)

Spec == Init /\ [][Next]_ftvars
=============================================================================

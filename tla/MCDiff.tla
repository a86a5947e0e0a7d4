------------------------------- MODULE MCDiff -------------------------------
(* Instance of Diff for TLC.  The databases are those addFile makes of all   *)
(* pairs of small forests: version v1 is uploaded first, then v2.            *)
EXTENDS Diff

A   == <<"a">>
AB  == <<"a", "b">>
AC  == <<"a", "c">>
ABD == <<"a", "b", "d">>

ABE == <<"a", "b", "e">>

Empty == [versions |-> <<"v1", "v2">>, groups |-> <<"g1", "g2">>, defines |-> <<>>, files |-> <<>>,
          comments |-> <<>>]

Front(p) == SubSeq(p, 1, Len(p) - 1)

\* The id of the define row of a path, 0 when there is none.
DefineId(d, p) == IF \E i \in DOMAIN d.defines : d.defines[i].filepath = p
                    THEN CHOOSE i \in DOMAIN d.defines : d.defines[i].filepath = p
                    ELSE 0

\* The id of the file row of a path in a version and group, 0 when there is none.
FileId(d, v, g, p) ==
    LET S == {i \in DOMAIN d.files : /\ d.files[i].version_id = v
                                     /\ d.files[i].file_group_id = g
                                     /\ d.files[i].define_file_id = DefineId(d, p)}
    IN  IF S = {} THEN 0 ELSE CHOOSE i \in S : TRUE

\* What addFile does for one segment, the one that ends path p.
WithDefine(d, p) == IF DefineId(d, p) # 0 THEN d
                    ELSE [d EXCEPT !.defines = Append(@, [filepath |-> p])]
WithFile(d, v, g, p) ==
    IF FileId(d, v, g, p) # 0 THEN d
    ELSE [d EXCEPT !.files = Append(@, [version_id |-> v, file_group_id |-> g,
                                        define_file_id |-> DefineId(d, p),
                                        parent_id |-> FileId(d, v, g, Front(p))])]
AddNode(d, v, g, p) == WithFile(WithDefine(d, p), v, g, p)

\* The nodes of a forest in a fixed order with parents first.
AddForest(d, v, g, forest) ==
    LET order == <<A, AC, AB, ABD, ABE>>
        made[n \in 0..Len(order)] ==
            IF n = 0 THEN d
            ELSE IF order[n] \in forest THEN AddNode(made[n - 1], v, g, order[n])
            ELSE made[n - 1]
    IN  made[Len(order)]

\* Forests: sets of paths closed under going up.
Forests(P) == {F \in SUBSET P : \A p \in F : Len(p) > 1 => Front(p) \in F}

Database(f1, f2, g1, g2) ==
    AddForest(AddForest(AddForest(AddForest(Empty, 1, 1, f1), 1, 2, g1), 2, 1, f2), 2, 2, g2)

Comment(d, h) == [define_file_id |-> d, hided |-> h]

\* One group with every forest of depth 3, and a second group with depth 1, with a hidden
\* and a visible comment on one file.
WideDatabases == {[Database(f1, f2, {A}, g2) EXCEPT !.comments = <<Comment(2, TRUE), Comment(2, FALSE)>>]
                     : f1, f2 \in Forests({A, AB, AC, ABD}), g2 \in Forests({A})}

\* Two versions that differ two directories down, without comments yet.
DeepDatabases == {Database({A, AB, ABD}, {A, AB, ABE}, {}, {}),
                  Database({A, AC}, {A}, {A}, {A, AB})}

MCDatabases == WideDatabases \cup DeepDatabases
=============================================================================

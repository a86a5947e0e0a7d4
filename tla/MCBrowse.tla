------------------------------ MODULE MCBrowse ------------------------------
(* Two uploads that share their group and a directory but not their        *)
(* version, so that rows of one are told from those of the other by ids    *)
(* alone.                                                                  *)
EXTENDS Browse, NormalizePath

MCNames == {"v1", "v2", "g1", "a", "b", "c", ".", ".."}

AB  == <<"", "a", "b">>          \* /a/b
AC  == <<"a", ".", "c", "">>     \* a/./c/
A   == <<"a">>

MCRawPaths == {A, AB, AC}

Upload(v, g, fs) == [json |-> TRUE, version |-> v, group |-> g, files |-> fs]

MCRequests == {Upload("v1", "g1", <<AB, AC>>), Upload("v2", "g1", <<A>>)}
=============================================================================

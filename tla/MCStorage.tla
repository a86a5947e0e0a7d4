------------------------------ MODULE MCStorage ------------------------------
(* Instance of Storage for TLC: raw paths with the shapes clients send, and *)
(* requests that share and nest them.                                       *)
EXTENDS Storage, NormalizePath

MCNames == {"v1", "v2", "g1", "g2", "a", "b", "c", ".", ".."}

AB  == <<"", "a", "b">>          \* /a/b
ABC == <<"a", "b", "c">>         \* a/b/c
AC  == <<"a", ".", "c", "">>     \* a/./c/
UpA == <<"b", "..", "a", "c">>   \* b/../a/c
Top == <<"", "">>                \* /

MCRawPaths == {AB, ABC, AC, UpA, Top}

Upload(v, g, fs) == [json |-> TRUE, version |-> v, group |-> g, files |-> fs]

MCRequests == {Upload("v1", "g1", <<ABC, Top, AC>>),
               Upload("v2", "g2", <<UpA, Malformed>>),
               [Upload("v1", "g2", <<AB>>) EXCEPT !.json = FALSE]}
=============================================================================

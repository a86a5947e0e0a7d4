------------------------------- MODULE Quoting -------------------------------
(***************************************************************************)
(* Names on their way into MySQL and back: prepareStringValue writes them  *)
(* as literals into the text of a statement, mysql_query takes the text as *)
(* a C string, MySQL reads the literals, and after a restart std::string   *)
(* takes the column from a C string again.                                 *)
(*                                                                         *)
(* The statement is the INSERT of insertDefineFile, the one with two       *)
(* literals, for the path "/" + name; a text is a sequence of characters,  *)
(* one for every class that any of the readers treats differently.         *)
(***************************************************************************)
EXTENDS Naturals, Sequences, SequencesExt

CONSTANTS Names,      \* names of files, as the JSON of an upload gives them
          MaxRows     \* bound on the rows of webdiff_define_files

LF  == "LF"
CR  == "CR"
NUL == "NUL"
CtrlZ == "CtrlZ"
Backslash == "backslash"
Quote == "quote"
Apostrophe == "apostrophe"
Comma == "comma"

\* Letters that follow a backslash in an escape, one that does not, and the
\* wildcard that MySQL leaves its backslash.
Chars == {LF, CR, NUL, CtrlZ, Backslash, Quote, Apostrophe, "a", "n", "r", "0", "Z", "%"}

VARIABLES
    pc,                       \* "down", "up", or "refused": the statement was an error
    webdiff_define_files,     \* rows [filepath, filename], the id is the position
    m_mapCacheFileDefinsIds,
    asked                     \* history: for every row the name that was uploaded

vars == <<pc, webdiff_define_files, m_mapCacheFileDefinsIds, asked>>

-----------------------------------------------------------------------------
(* Writing and reading text *)

\* Mutant of Escaped: NUL is written as it is.
EscapedButNul(c) ==
    CASE c = LF -> <<Backslash, "n">>
      [] c = CR -> <<Backslash, "r">>
      [] c \in {Backslash, Quote, Apostrophe} -> <<Backslash, c>>
      [] OTHER -> <<c>>

\* What prepareStringValue writes for one character.
Escaped(c) ==
    CASE c = LF -> <<Backslash, "n">>
      [] c = CR -> <<Backslash, "r">>
      [] c \in {Backslash, Quote, Apostrophe} -> <<Backslash, c>>
      [] c = NUL -> <<Backslash, "0">>
      [] OTHER -> <<c>>

prepareStringValue(value) ==
    <<Quote>> \o FlattenSeq([i \in DOMAIN value |-> Escaped(value[i])]) \o <<Quote>>

\* A text taken as a C string ends before its first NUL.
CString(text) ==
    IF NUL \in Range(text) THEN SubSeq(text, 1, Min({i \in DOMAIN text : text[i] = NUL}) - 1)
                           ELSE text

\* The characters MySQL reads for a backslash and a letter.
Unescaped(c) ==
    CASE c = "n" -> <<LF>>
      [] c = "r" -> <<CR>>
      [] c = "0" -> <<NUL>>
      [] c = "Z" -> <<CtrlZ>>
      [] c = "%" -> <<Backslash, "%">>
      [] OTHER -> <<c>>

\* MySQL reads a literal whose opening quote is before position i: its value and the
\* position after the closing quote, 0 when there is none.
Literal(text, i) ==
    LET At(k) == IF k \in DOMAIN text THEN text[k] ELSE "end"
        read[k \in 1..Len(text) + 2] ==
            CASE At(k) = "end" -> [value |-> <<>>, next |-> 0]
              [] At(k) = Backslash /\ At(k + 1) # "end" ->
                    [read[k + 2] EXCEPT !.value = Unescaped(At(k + 1)) \o @]
              [] At(k) = Quote /\ At(k + 1) = Quote ->
                    [read[k + 2] EXCEPT !.value = <<Quote>> \o @]
              [] At(k) = Quote /\ At(k + 1) # Quote -> [value |-> <<>>, next |-> k + 1]
              [] OTHER -> [read[k + 1] EXCEPT !.value = <<At(k)>> \o @]
    IN  read[i]

\* The INSERT of insertDefineFile from its VALUES on.
Statement(path, name) ==
    <<"(">> \o prepareStringValue(path) \o <<Comma>> \o prepareStringValue(name) \o <<")">>

\* The rows MySQL inserts for a statement: one, or none when it is not
\* "(" literal "," literal ")".
Inserted(text) ==
    LET first  == Literal(text, 3)
        second == Literal(text, first.next + 2)
    IN  IF /\ Len(text) > 2 /\ text[1] = "(" /\ text[2] = Quote
           /\ first.next > 0 /\ first.next + 1 < Len(text)
           /\ text[first.next] = Comma /\ text[first.next + 1] = Quote
           /\ second.next = Len(text) /\ text[second.next] = ")"
        THEN <<[filepath |-> first.value, filename |-> second.value]>>
        ELSE <<>>

-----------------------------------------------------------------------------

Init == /\ pc = "down" /\ webdiff_define_files = <<>>
        /\ m_mapCacheFileDefinsIds = <<>> /\ asked = <<>>

\* Mutant of LoadCache: the column filename is cached.
LoadCacheByName ==
    /\ pc = "down"
    /\ LET key(i) == CString(webdiff_define_files[i].filename)
           rows == DOMAIN webdiff_define_files IN
       m_mapCacheFileDefinsIds' =
           [p \in {key(i) : i \in rows} |-> Max({i \in rows : key(i) = p})]
    /\ pc' = "up"
    /\ UNCHANGED <<webdiff_define_files, asked>>

\* getDefineFilesCache: every path through std::string(row[1]), a later row wins.
LoadCache ==
    /\ pc = "down"
    /\ LET key(i) == CString(webdiff_define_files[i].filepath)
           rows == DOMAIN webdiff_define_files IN
       m_mapCacheFileDefinsIds' =
           [p \in {key(i) : i \in rows} |-> Max({i \in rows : key(i) = p})]
    /\ pc' = "up"
    /\ UNCHANGED <<webdiff_define_files, asked>>

Stop ==
    /\ pc = "up"
    /\ pc' = "down" /\ m_mapCacheFileDefinsIds' = <<>>
    /\ UNCHANGED <<webdiff_define_files, asked>>

sNewFilePath(name) == <<"/">> \o name

\* findDefineFileIdOrCreate for a name at the top, not in the cache.
InsertDefineFile(name) ==
    /\ pc = "up" /\ Len(webdiff_define_files) < MaxRows
    /\ sNewFilePath(name) \notin DOMAIN m_mapCacheFileDefinsIds
    /\ LET new == Inserted(CString(Statement(sNewFilePath(name), name))) IN
       IF new = <<>>
         THEN /\ pc' = "refused"
              /\ UNCHANGED <<webdiff_define_files, m_mapCacheFileDefinsIds, asked>>
         ELSE /\ webdiff_define_files' = webdiff_define_files \o new
              /\ m_mapCacheFileDefinsIds' =
                    [p \in DOMAIN m_mapCacheFileDefinsIds \cup {sNewFilePath(name)} |->
                        IF p = sNewFilePath(name) THEN Len(webdiff_define_files) + 1
                                                  ELSE m_mapCacheFileDefinsIds[p]]
              /\ asked' = Append(asked, name)
              /\ UNCHANGED pc

Next == LoadCache \/ Stop \/ \E name \in Names : InsertDefineFile(name)

Spec == Init /\ [][Next]_vars

-----------------------------------------------------------------------------
(* Properties *)

\* Whatever characters a name has, prepareStringValue makes a literal of it that ends where
\* it should: MySQL accepts the statement, and the columns hold the very names that
\* were uploaded.
StoredVerbatim ==
    /\ pc # "refused"
    /\ Len(webdiff_define_files) = Len(asked)
    /\ \A i \in DOMAIN asked :
          webdiff_define_files[i] = [filepath |-> <<"/">> \o asked[i], filename |-> asked[i]]

\* As long as no name has a NUL, the cache after any restart holds the path of every row
\* under the id of that row and nothing else: each path has one row and is found.
PlainPathsCached ==
    pc = "up" /\ (\A i \in DOMAIN asked : NUL \notin Range(asked[i])) =>
        /\ DOMAIN m_mapCacheFileDefinsIds = {<<"/">> \o asked[i] : i \in DOMAIN asked}
        /\ \A i \in DOMAIN asked : m_mapCacheFileDefinsIds[<<"/">> \o asked[i]] = i

=============================================================================

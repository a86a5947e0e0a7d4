------------------------------ MODULE MCFiles ------------------------------
(***************************************************************************)
(* Paths, names and pages, each checked by itself: part says which one a   *)
(* behaviour is about, and the variables of the others stay as they are.   *)
(*   "path": doNormalizePath and the splitting of addFile against a        *)
(*           reference, on every path string with up to MaxNames names; a  *)
(*           string grows by one name at a time;                           *)
(*   "name": Quoting, with every name of up to MaxLength characters;       *)
(*   "page": StaticFiles.                                                  *)
(***************************************************************************)
EXTENDS StaticFiles, NormalizePath

CONSTANTS MaxNames,            \* bound on the names of a path string
          PathNames,           \* the names other than "", "." and ".."
          MaxLength, MaxRows   \* bounds of Quoting

ASSUME BoundsAssumption == MaxNames \in Nat /\ MaxLength \in Nat /\ MaxRows \in Nat

VARIABLES part,
          vNames,   \* the path string, as its names
          sql, webdiff_define_files, m_mapCacheFileDefinsIds, asked   \* of Quoting

Chars == {"LF", "CR", "NUL", "CtrlZ", "backslash", "quote",
          "apostrophe", "a", "n", "r", "0", "Z", "%"}

MCNames == UNION {[1..n -> Chars] : n \in 1..MaxLength}

Sql == INSTANCE Quoting WITH pc <- sql, Names <- MCNames

sqlVars == <<sql, webdiff_define_files, m_mapCacheFileDefinsIds, asked>>
allVars == <<part, vNames, sqlVars, vars>>

AllInit ==
    /\ part \in {"path", "name", "page"}
    /\ vNames = <<>> /\ Sql!Init /\ Init

\* The string "" has no names and "/" has two, so no string is <<"">>.
AddName ==
    /\ Len(vNames) < MaxNames
    /\ \E n \in PathNames \cup {"", ".", ".."} :
          vNames' = IF vNames = <<>> /\ n = "" THEN <<"", "">> ELSE Append(vNames, n)

AllNext ==
    \/ part = "path" /\ AddName /\ UNCHANGED <<part, sqlVars, vars>>
    \/ part = "name" /\ Sql!Next /\ UNCHANGED <<part, vNames, vars>>
    \/ part = "page" /\ Next /\ UNCHANGED <<part, vNames, sqlVars>>

AllSpec == AllInit /\ [][AllNext]_allVars

-----------------------------------------------------------------------------
(* Reference: read the names from the right and count the ".." that still    *)
(* have to take a name away; those left at the front stay.                   *)
Dots(n) == [m \in 1..n |-> ".."]

Resolve(names) ==
    LET len == Len(names)
        \* the names kept from position n on, and the ".." not yet used
        from[n \in 1..len + 1] ==
            IF n = len + 1 THEN [kept |-> <<>>, up |-> 0]
            ELSE LET r == from[n + 1] IN
                 CASE names[n] \in {"", "."} -> r
                   [] names[n] = ".." -> [r EXCEPT !.up = @ + 1]
                   [] OTHER -> IF r.up > 0 THEN [r EXCEPT !.up = @ - 1]
                                           ELSE [r EXCEPT !.kept = <<names[n]>> \o @]
    IN  Dots(from[1].up) \o from[1].kept

\* The segments addFile walks are the names the path resolves to; a leading "."
\* is kept as a name of its own, which no ".." takes away.
ResolvesPath ==
    SplitSegments(vNames) =
        IF vNames # <<>> /\ vNames[1] = "." THEN <<".">> \o Resolve(Tail(vNames))
        ELSE Resolve(vNames)

\* A path that addFile stores ("/" before each segment) leads back to the same
\* file when it is uploaded again, so no path has two define rows; a path that
\* begins with "." is the exception, "/./a" leads to "/a".
StoredPathIsStable ==
    vNames # <<>> /\ vNames[1] # "." =>
        SplitSegments(<<"">> \o SplitSegments(vNames)) = SplitSegments(vNames)

-----------------------------------------------------------------------------
(* The properties of Quoting. *)

\* Whatever characters a name has, MySQL accepts the statement that holds it, and the
\* columns hold the very names that were uploaded.
StoredVerbatim == Sql!StoredVerbatim

\* The cache after a restart holds the paths of the rows, as long as no name has a NUL.
PlainPathsCached == Sql!PlainPathsCached
=============================================================================

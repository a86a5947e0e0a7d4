--------------------------- MODULE NormalizePath ---------------------------
(***************************************************************************)
(* WsjcppCore::doNormalizePath and the way addFile splits its result.      *)
(* A path string is the sequence of the names between its slashes, which   *)
(* is what the first loop of doNormalizePath makes of it: "" is <<>>, "/"  *)
(* is <<"", "">>, "/a/b" is <<"", "a", "b">> and "a/" is <<"a", "">>.      *)
(***************************************************************************)
EXTENDS Naturals, Sequences

\* Mutant of DotDot: a ".." takes away whatever is before it.
DotDotPops(vNewNames) == SubSeq(vNewNames, 1, Len(vNewNames) - 1)

\* What a ".." does to the names kept so far.
DotDot(vNewNames) ==
    LET n == Len(vNewNames)
        sPrev == vNewNames[n]
    IN  CASE sPrev = "" -> Append(SubSeq(vNewNames, 1, n - 1), "..")
          [] sPrev \notin {"", ".", ".."} -> SubSeq(vNewNames, 1, n - 1)
          [] OTHER -> Append(vNewNames, "..")

\* One turn of the filtering loop, on the i-th of nLen names (counted from 1).
Filter(vNewNames, sCurrent, i, nLen) ==
    IF sCurrent = "" /\ i = nLen THEN Append(vNewNames, sCurrent)
    ELSE IF sCurrent \in {"", "."} /\ i # 1 THEN vNewNames
    ELSE IF sCurrent = ".." /\ Len(vNewNames) > 0 THEN DotDot(vNewNames)
    ELSE Append(vNewNames, sCurrent)

\* vNewNames, which the code joins with "/" at the end.
doNormalizePath(vNames) ==
    LET nLen == Len(vNames)
        kept[i \in 0..nLen] ==
            IF i = 0 THEN <<>> ELSE Filter(kept[i - 1], vNames[i], i, nLen)
    IN  kept[nLen]

\* Mutant of SplitSegments: empty names are not skipped.
SplitWithEmpty(vNames) ==
    IF vNames \in {<<>>, <<"", "">>} THEN <<>> ELSE doNormalizePath(vNames)

\* split(join(names)) gives the same names, but for empty ones at the ends; the
\* loop of addFile skips every empty name, so these are the segments it walks.
\* It returns at once for "" and "/".
SplitSegments(vNames) ==
    LET vPath == doNormalizePath(vNames)
        walked[i \in 0..Len(vPath)] ==
            IF i = 0 THEN <<>>
            ELSE IF vPath[i] = "" THEN walked[i - 1] ELSE Append(walked[i - 1], vPath[i])
    IN  IF vNames \in {<<>>, <<"", "">>} THEN <<>> ELSE walked[Len(vPath)]

=============================================================================

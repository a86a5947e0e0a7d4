------------------------------ MODULE DiffProofs ------------------------------
(***************************************************************************)
(* Proofs about getDiff and the comments: the answer is exactly the        *)
(* difference of the two versions, each file once, with the rows directly  *)
(* above and the visible comments, for every database that satisfies what  *)
(* is proved of the upload path and every order in which rows are fetched. *)
(***************************************************************************)
EXTENDS Diff, FiniteSetTheorems, SequenceTheorems, WellFoundedInduction, TLAPS

\* The database is one the assumptions speak of.
KnownDb == db \in Databases

\* An entry is filled from its row, and marked for what the row is.
FromRow(g, e) ==
    /\ e.id \in DOMAIN db.files
    /\ db.files[e.id].file_group_id = g
    /\ e.parent = db.files[e.id].parent_id
    /\ e.define = db.files[e.id].define_file_id
    /\ e.state = "missing" => e.id \in DiffFiles(left, right)
    /\ e.state = "new" => e.id \in DiffFiles(right, left)

EntriesFromRows ==
    \A g \in DOMAIN m_mapGroups : \A n \in DOMAIN m_mapGroups[g] : FromRow(g, m_mapGroups[g][n])

\* No file has two entries.
OneEntryEach ==
    \A g \in DOMAIN m_mapGroups : \A m, n \in DOMAIN m_mapGroups[g] :
        m_mapGroups[g][m].id = m_mapGroups[g][n].id => m = n

\* Row i has an entry with that state.
Marked(i, state) ==
    \E g \in DOMAIN m_mapGroups : \E n \in DOMAIN m_mapGroups[g] :
        m_mapGroups[g][n].id = i /\ m_mapGroups[g][n].state = state

\* Row i has no entry.
Unmarked(i) ==
    \A g \in DOMAIN m_mapGroups : \A n \in DOMAIN m_mapGroups[g] : m_mapGroups[g][n].id # i

\* What is selected is fetched: every row of the two SELECTs has its entry or waits for it.
Selecting == {"missing", "new"}

RowsFetched ==
    /\ pc = "missing" => rows \subseteq DiffFiles(left, right)
    /\ pc = "missing" => \A i \in DOMAIN db.files : ~Marked(i, "new")
    /\ pc = "new" => rows \subseteq DiffFiles(right, left)
    /\ pc \in Selecting => \A i \in rows : Unmarked(i)
    /\ pc # "idle" => \A i \in DiffFiles(left, right) :
                         Marked(i, "missing") \/ (pc = "missing" /\ i \in rows)
    /\ pc \notin {"idle", "missing"} => \A i \in DiffFiles(right, left) :
                         Marked(i, "new") \/ (pc = "new" /\ i \in rows)

\* Entry n of group g is missing or new.
Changed(g, n) == m_mapGroups[g][n].state # ""

\* Only rows above a changed one are added, and none before its group's turn comes.
AboveChanged ==
    \A g \in DOMAIN m_mapGroups : \A n \in DOMAIN m_mapGroups[g] :
        ~Changed(g, n) =>
            /\ pc \notin Selecting
            /\ g \in todo => pc = "parents" /\ g = group
            /\ \E k \in DOMAIN m_mapGroups[g] :
                  Changed(g, k) /\ m_mapGroups[g][k].parent = m_mapGroups[g][n].id

\* Every group that had its turn has the parents of its changed rows, the group at hand
\* has them or has them on the stack.
ParentsFound ==
    /\ pc \in {"missing", "idle", "new"} => todo = {}
    /\ pc \in {"comments", "reply"} => todo = {}
    /\ pc = "parents" => todo # {}
    /\ todo \subseteq DOMAIN m_mapGroups
    /\ pc \notin {"missing", "idle", "new"} =>
          \A g \in DOMAIN m_mapGroups : \A n \in DOMAIN m_mapGroups[g] :
              Changed(g, n) /\ m_mapGroups[g][n].parent # 0 =>
                  \/ g \in todo /\ (pc = "parents" => g # group)
                  \/ hasFileId(g, m_mapGroups[g][n].parent)
                  \/ /\ pc = "parents" /\ g = group
                     /\ \E k \in DOMAIN vIds : vIds[k] = m_mapGroups[g][n].parent

\* The stack holds parents of changed rows and rows that were just added.
StackKnown ==
    pc = "parents" =>
        \A k \in DOMAIN vIds :
            \/ vIds[k] = 0
            \/ hasFileId(group, vIds[k])
            \/ \E n \in DOMAIN m_mapGroups[group] :
                  Changed(group, n) /\ m_mapGroups[group][n].parent = vIds[k]

\* m_vFileDefineIds are the files of the entries.
DefinesListed ==
    /\ \A g \in DOMAIN m_mapGroups : \A n \in DOMAIN m_mapGroups[g] :
          \E k \in DOMAIN m_vFileDefineIds : m_vFileDefineIds[k] = m_mapGroups[g][n].define
    /\ \A k \in DOMAIN m_vFileDefineIds :
          \E g \in DOMAIN m_mapGroups : \E n \in DOMAIN m_mapGroups[g] :
              m_mapGroups[g][n].define = m_vFileDefineIds[k]

\* The comments of the first files of m_vFileDefineIds are read.
CommentsRead ==
    /\ pc \notin {"comments", "reply"} => nComments = 0
    /\ nComments <= Len(m_vFileDefineIds)
    /\ pc = "reply" => nComments = Len(m_vFileDefineIds)
    /\ DOMAIN m_mapComments = {m_vFileDefineIds[k] : k \in 1..nComments}
    /\ \A d \in DOMAIN m_mapComments : m_mapComments[d] = Comments(d)

DiffInv ==
    /\ TypeOK /\ KnownDb /\ EntriesFromRows /\ OneEntryEach /\ RowsFetched
    /\ AboveChanged /\ ParentsFound /\ StackKnown /\ DefinesListed /\ CommentsRead

-----------------------------------------------------------------------------
(* Operators *)

\* A nonempty set of numbers has a least one.
LEMMA LeastNumber ==
    ASSUME NEW T, T \subseteq Nat, T # {}
    PROVE  \E x \in T : \A y \in T : x <= y
  <1> DEFINE R == {p \in Nat \X Nat : p[1] < p[2]}
  <1>1. IsWellFoundedOn(R, Nat)
    <2>1. IsWellFoundedOn(OpToRel(<, Nat), Nat)
      BY NatLessThanWellFounded
    <2>2. R \cap (Nat \X Nat) \subseteq OpToRel(<, Nat)
      BY DEF OpToRel
    <2> QED  BY <2>1, <2>2, IsWellFoundedOnSubrelation
  <1>2. \A x, y \in Nat : <<y, x>> \in R <=> y < x
    OBVIOUS
  <1> HIDE DEF R
  <1>3. PICK x \in T : \A y \in T : ~(<<y, x>> \in R)
    BY <1>1, WFMin
  <1>4. \A y \in T : ~(y < x)
    BY <1>2, <1>3
  <1> QED  BY <1>4

\* std::map::begin: the least key.
LEMMA GroupInTodo ==
    ASSUME todo \subseteq Nat, todo # {}
    PROVE  group \in todo
  <1>1. \E g \in todo : \A x \in todo : g <= x
    BY LeastNumber
  <1> QED  BY <1>1 DEF group

\* What the databases have by assumption.
LEMMA Tables ==
    ASSUME KnownDb
    PROVE  /\ db.files \in Seq(FileRow) /\ db.comments \in Seq(CommentRow)
           /\ WellFormed(db)
  BY DatabasesAssumption DEF KnownDb

LEMMA Rows ==
    ASSUME KnownDb, NEW i \in DOMAIN db.files
    PROVE  /\ i \in Nat /\ i # 0
           /\ db.files[i].version_id \in Nat /\ db.files[i].file_group_id \in Nat
           /\ db.files[i].define_file_id \in Nat /\ db.files[i].parent_id \in Nat
  <1>1. db.files \in Seq(FileRow)
    BY Tables
  <1>2. i \in 1..Len(db.files) /\ Len(db.files) \in Nat /\ db.files[i] \in FileRow
    BY <1>1
  <1> QED  BY <1>2 DEF FileRow

\* The entry of a row.
LEMMA EntryType ==
    ASSUME KnownDb, NEW i \in DOMAIN db.files, NEW state \in {"missing", "new", ""}
    PROVE  /\ DiffFile(i, state) \in DiffFileType
           /\ DiffFile(i, state).id = i
           /\ DiffFile(i, state).parent = db.files[i].parent_id
           /\ DiffFile(i, state).define = db.files[i].define_file_id
           /\ DiffFile(i, state).state = state
  BY Rows DEF DiffFile, DiffFileType

\* There is an entry at that place.
In(m, g, n) == g \in DOMAIN m /\ n \in DOMAIN m[g]

\* addDiffFile: one entry more, and its file is listed.
LEMMA Added ==
    ASSUME TypeOK, NEW g \in Nat, NEW e \in DiffFileType, AddDiffFile(g, e)
    PROVE  /\ DOMAIN m_mapGroups' = DOMAIN m_mapGroups \cup {g}
           /\ \A x \in DOMAIN m_mapGroups' : m_mapGroups'[x] \in Seq(DiffFileType)
           /\ \E new \in Nat :
                 /\ ~In(m_mapGroups, g, new)
                 /\ \A x, n : In(m_mapGroups', x, n) <=> In(m_mapGroups, x, n) \/ (x = g /\ n = new)
                 /\ \A x, n : In(m_mapGroups, x, n) => m_mapGroups'[x][n] = m_mapGroups[x][n]
                 /\ m_mapGroups'[g][new] = e
  <1>1. \A x \in DOMAIN m_mapGroups : m_mapGroups[x] \in Seq(DiffFileType)
    BY DEF TypeOK
  <1>2. CASE g \in DOMAIN m_mapGroups
    <2> DEFINE q == m_mapGroups[g]
    <2>1. m_mapGroups' = [m_mapGroups EXCEPT ![g] = Append(q, e)]
      BY <1>2 DEF AddDiffFile
    <2>2. /\ DOMAIN m_mapGroups' = DOMAIN m_mapGroups
          /\ m_mapGroups'[g] = Append(q, e)
          /\ \A x \in DOMAIN m_mapGroups : x # g => m_mapGroups'[x] = m_mapGroups[x]
      BY <1>2, <2>1
    <2>3. q \in Seq(DiffFileType)
      BY <1>1, <1>2
    <2> HIDE DEF q
    <2>4. /\ Append(q, e) \in Seq(DiffFileType) /\ Len(q) \in Nat
          /\ DOMAIN q = 1..Len(q) /\ DOMAIN Append(q, e) = 1..(Len(q) + 1)
          /\ \A n \in 1..Len(q) : Append(q, e)[n] = q[n]
          /\ Append(q, e)[Len(q) + 1] = e
      BY <2>3
    <2> DEFINE new == Len(q) + 1
    <2>5. /\ new \in Nat /\ new \notin DOMAIN q
          /\ \A n : n \in DOMAIN Append(q, e) <=> n \in DOMAIN q \/ n = new
      BY <2>4
    <2> HIDE DEF new
    <2>6. ~In(m_mapGroups, g, new)
      BY <2>5 DEF In, q
    <2>7. \A x, n : In(m_mapGroups', x, n) <=> In(m_mapGroups, x, n) \/ (x = g /\ n = new)
      BY <1>2, <2>2, <2>5 DEF In, q
    <2>8. \A x, n : In(m_mapGroups, x, n) => m_mapGroups'[x][n] = m_mapGroups[x][n]
      BY <2>2, <2>4 DEF In, q
    <2>9. m_mapGroups'[g][new] = e
      BY <2>2, <2>4 DEF new
    <2>10. \A x \in DOMAIN m_mapGroups' : m_mapGroups'[x] \in Seq(DiffFileType)
      BY <1>1, <2>2, <2>4
    <2>11. DOMAIN m_mapGroups' = DOMAIN m_mapGroups \cup {g}
      BY <1>2, <2>2
    <2> QED  BY <2>5, <2>6, <2>7, <2>8, <2>9, <2>10, <2>11
  <1>3. CASE g \notin DOMAIN m_mapGroups
    <2>1. m_mapGroups' = [x \in DOMAIN m_mapGroups \cup {g} |->
                             IF x = g THEN <<e>> ELSE m_mapGroups[x]]
      BY <1>3 DEF AddDiffFile
    <2>2. /\ DOMAIN m_mapGroups' = DOMAIN m_mapGroups \cup {g}
          /\ m_mapGroups'[g] = <<e>>
          /\ \A x \in DOMAIN m_mapGroups : m_mapGroups'[x] = m_mapGroups[x]
      BY <1>3, <2>1
    <2>3. <<e>> \in Seq(DiffFileType) /\ <<e>>[1] = e /\ \A n : n \in DOMAIN <<e>> <=> n = 1
      OBVIOUS
    <2>4. \A x, n : In(m_mapGroups', x, n) <=> In(m_mapGroups, x, n) \/ (x = g /\ n = 1)
      BY <1>3, <2>2, <2>3 DEF In
    <2>5. \A x, n : In(m_mapGroups, x, n) => m_mapGroups'[x][n] = m_mapGroups[x][n]
      BY <2>2 DEF In
    <2>6. \A x \in DOMAIN m_mapGroups' : m_mapGroups'[x] \in Seq(DiffFileType)
      BY <1>1, <2>2, <2>3
    <2>7. ~In(m_mapGroups, g, 1) /\ m_mapGroups'[g][1] = e
      BY <1>3, <2>2, <2>3 DEF In
    <2> QED  BY <2>2, <2>4, <2>5, <2>6, <2>7
  <1> QED  BY <1>2, <1>3

LEMMA Listed ==
    ASSUME TypeOK, NEW g \in Nat, NEW e \in DiffFileType, AddDiffFile(g, e)
    PROVE  /\ m_vFileDefineIds' \in Seq(Nat)
           /\ \A d : (\E k \in DOMAIN m_vFileDefineIds' : m_vFileDefineIds'[k] = d)
                     <=> \/ \E k \in DOMAIN m_vFileDefineIds : m_vFileDefineIds[k] = d
                         \/ d = e.define
  <1> DEFINE v == m_vFileDefineIds
  <1>1. v \in Seq(Nat) /\ e.define \in Nat
    BY DEF TypeOK, DiffFileType
  <1>2. v' = IF e.define \in Range(v) THEN v ELSE Append(v, e.define)
    BY DEF AddDiffFile
  <1> HIDE DEF v
  <1>3. CASE e.define \in Range(v)
    BY <1>1, <1>2, <1>3 DEF Range, v
  <1>4. CASE e.define \notin Range(v)
    <2>1. v' = Append(v, e.define)
      BY <1>2, <1>4
    <2>2. /\ v' \in Seq(Nat) /\ Len(v) \in Nat
          /\ DOMAIN v = 1..Len(v) /\ DOMAIN v' = 1..(Len(v) + 1)
          /\ \A n \in 1..Len(v) : v'[n] = v[n]
          /\ v'[Len(v) + 1] = e.define
      BY <1>1, <2>1
    <2>3. /\ Len(v) + 1 \in DOMAIN v' /\ \A k \in DOMAIN v : k \in DOMAIN v'
          /\ \A k \in DOMAIN v' : k \in DOMAIN v \/ k = Len(v) + 1
      BY <2>2
    <2>4. \A d : (\E k \in DOMAIN v' : v'[k] = d)
                 <=> (\E k \in DOMAIN v : v[k] = d) \/ d = e.define
      BY <2>2, <2>3
    <2> QED  BY <2>2, <2>4 DEF v
  <1> QED  BY <1>3, <1>4

-----------------------------------------------------------------------------
(* Steps that add an entry *)

\* Row i of group g gets its first entry.
LEMMA AddedEntry ==
    ASSUME TypeOK, KnownDb, EntriesFromRows, OneEntryEach, DefinesListed,
           NEW i \in DOMAIN db.files, NEW state \in {"missing", "new", ""},
           Unmarked(i),
           state = "missing" => i \in DiffFiles(left, right),
           state = "new" => i \in DiffFiles(right, left),
           AddDiffFile(db.files[i].file_group_id, DiffFile(i, state)),
           UNCHANGED <<db, left, right>>
    PROVE  /\ EntriesFromRows' /\ OneEntryEach' /\ DefinesListed'
           /\ \A j, s : Marked(j, s)' <=> Marked(j, s) \/ (j = i /\ s = state)
           /\ \A j : Unmarked(j)' <=> Unmarked(j) /\ j # i
           /\ m_vFileDefineIds' \in Seq(Nat)
  <1> DEFINE g == db.files[i].file_group_id
             e == DiffFile(i, state)
  <1>1. g \in Nat /\ e \in DiffFileType
    BY Rows, EntryType
  <1>2. /\ e.id = i /\ e.parent = db.files[i].parent_id
        /\ e.define = db.files[i].define_file_id /\ e.state = state
    BY EntryType
  <1>3. AddDiffFile(g, e)
    OBVIOUS
  <1>g. g = db.files[i].file_group_id
    OBVIOUS
  <1> HIDE DEF g, e
  <1>4. PICK new \in Nat :
           /\ ~In(m_mapGroups, g, new)
           /\ \A x, n : In(m_mapGroups', x, n) <=> In(m_mapGroups, x, n) \/ (x = g /\ n = new)
           /\ \A x, n : In(m_mapGroups, x, n) => m_mapGroups'[x][n] = m_mapGroups[x][n]
           /\ m_mapGroups'[g][new] = e
    BY <1>1, <1>3, Added
  <1>now. \A x, n : In(m_mapGroups', x, n) <=> In(m_mapGroups, x, n) \/ (x = g /\ n = new)
    BY <1>4
  <1>old. \A x, n : In(m_mapGroups, x, n) => m_mapGroups'[x][n] = m_mapGroups[x][n]
    BY <1>4
  <1>new. In(m_mapGroups', g, new) /\ m_mapGroups'[g][new] = e
    BY <1>4
  <1>5. EntriesFromRows'
    <2> SUFFICES ASSUME NEW x, NEW n, In(m_mapGroups', x, n)
                 PROVE  FromRow(x, m_mapGroups[x][n])'
      BY DEF EntriesFromRows, In
    <2>1. DiffFiles(left, right)' = DiffFiles(left, right)
          /\ DiffFiles(right, left)' = DiffFiles(right, left)
      BY DEF DiffFiles
    <2>2. CASE In(m_mapGroups, x, n)
      <3>1. FromRow(x, m_mapGroups[x][n])
        BY <2>2 DEF EntriesFromRows, In
      <3>2. m_mapGroups'[x][n] = m_mapGroups[x][n]
        BY <1>old, <2>2
      <3> QED  BY <2>1, <3>1, <3>2 DEF FromRow
    <2>3. CASE x = g /\ n = new
      <3>1. m_mapGroups'[x][n] = e
        BY <1>new, <2>3
      <3> QED  BY <1>2, <1>g, <2>1, <2>3, <3>1 DEF FromRow
    <2> QED  BY <1>now, <2>2, <2>3
  <1>6. OneEntryEach'
    <2> SUFFICES ASSUME NEW x, NEW m, NEW n, In(m_mapGroups', x, m), In(m_mapGroups', x, n),
                        m_mapGroups'[x][m].id = m_mapGroups'[x][n].id
                 PROVE  m = n
      BY DEF OneEntryEach, In
    <2>1. CASE In(m_mapGroups, x, m) /\ In(m_mapGroups, x, n)
      <3>1. m_mapGroups[x][m].id = m_mapGroups[x][n].id
        BY <1>old, <2>1
      <3> QED  BY <2>1, <3>1 DEF OneEntryEach, In
    <2>2. ASSUME NEW k, In(m_mapGroups, x, k)
          PROVE  m_mapGroups'[x][k].id # i
      <3>1. m_mapGroups[x][k].id # i
        BY <2>2 DEF Unmarked, In
      <3> QED  BY <1>old, <2>2, <3>1
    <2>3. (In(m_mapGroups, x, m) \/ (x = g /\ m = new)) /\ (In(m_mapGroups, x, n) \/ (x = g /\ n = new))
      BY <1>now
    <2>4. x = g => m_mapGroups'[x][new].id = i
      BY <1>2, <1>new
    <2> QED  BY <2>1, <2>2, <2>3, <2>4
  <1>7. /\ m_vFileDefineIds' \in Seq(Nat)
        /\ \A d : (\E k \in DOMAIN m_vFileDefineIds' : m_vFileDefineIds'[k] = d)
                  <=> \/ \E k \in DOMAIN m_vFileDefineIds : m_vFileDefineIds[k] = d
                      \/ d = e.define
    BY <1>1, <1>3, Listed
  <1>8. DefinesListed'
    <2>1. ASSUME NEW x, NEW n, In(m_mapGroups', x, n)
          PROVE  \E k \in DOMAIN m_vFileDefineIds' :
                    m_vFileDefineIds'[k] = m_mapGroups'[x][n].define
      <3>1. CASE In(m_mapGroups, x, n)
        <4>1. m_mapGroups'[x][n] = m_mapGroups[x][n]
          BY <1>4, <3>1
        <4>2. \E k \in DOMAIN m_vFileDefineIds : m_vFileDefineIds[k] = m_mapGroups[x][n].define
          BY <3>1 DEF DefinesListed, In
        <4> QED  BY <1>7, <4>1, <4>2
      <3>2. CASE x = g /\ n = new
        BY <1>4, <1>7, <3>2
      <3> QED  BY <1>4, <2>1, <3>1, <3>2
    <2>2. ASSUME NEW k \in DOMAIN m_vFileDefineIds'
          PROVE  \E x, n : In(m_mapGroups', x, n) /\ m_mapGroups'[x][n].define = m_vFileDefineIds'[k]
      <3>1. CASE m_vFileDefineIds'[k] = e.define
        BY <1>4, <3>1
      <3>2. CASE \E j \in DOMAIN m_vFileDefineIds : m_vFileDefineIds[j] = m_vFileDefineIds'[k]
        <4>1. PICK j \in DOMAIN m_vFileDefineIds : m_vFileDefineIds[j] = m_vFileDefineIds'[k]
          BY <3>2
        <4>2. PICK x \in DOMAIN m_mapGroups : \E n \in DOMAIN m_mapGroups[x] :
                 m_mapGroups[x][n].define = m_vFileDefineIds[j]
          BY DEF DefinesListed
        <4>3. PICK n \in DOMAIN m_mapGroups[x] : m_mapGroups[x][n].define = m_vFileDefineIds[j]
          BY <4>2
        <4>4. In(m_mapGroups, x, n)
          BY DEF In
        <4> QED  BY <1>old, <1>now, <4>1, <4>3, <4>4
      <3> QED  BY <1>7, <3>1, <3>2
    <2>3. \A x \in DOMAIN m_mapGroups' : \A n \in DOMAIN m_mapGroups'[x] :
             \E k \in DOMAIN m_vFileDefineIds' : m_vFileDefineIds'[k] = m_mapGroups'[x][n].define
      BY ONLY <2>1 DEF In
    <2>4. \A k \in DOMAIN m_vFileDefineIds' :
             \E x \in DOMAIN m_mapGroups' : \E n \in DOMAIN m_mapGroups'[x] :
                m_mapGroups'[x][n].define = m_vFileDefineIds'[k]
      BY ONLY <2>2 DEF In
    <2> QED  BY ONLY <2>3, <2>4 DEF DefinesListed
  <1>9. \A j, s : Marked(j, s)' <=> Marked(j, s) \/ (j = i /\ s = state)
    <2> TAKE j, s
    <2>1. Marked(j, s) <=> \E x, n : In(m_mapGroups, x, n) /\ m_mapGroups[x][n].id = j
                                     /\ m_mapGroups[x][n].state = s
      BY DEF Marked, In
    <2>2. Marked(j, s)' <=> \E x, n : In(m_mapGroups', x, n) /\ m_mapGroups'[x][n].id = j
                                      /\ m_mapGroups'[x][n].state = s
      BY DEF Marked, In
    <2>3. Marked(j, s) => Marked(j, s)'
      BY <1>4, <2>1, <2>2
    <2>4. j = i /\ s = state => Marked(j, s)'
      BY <1>2, <1>4, <2>2
    <2>5. ASSUME Marked(j, s)' PROVE Marked(j, s) \/ (j = i /\ s = state)
      <3>1. PICK x, n : In(m_mapGroups', x, n) /\ m_mapGroups'[x][n].id = j /\ m_mapGroups'[x][n].state = s
        BY <2>2, <2>5
      <3>2. CASE In(m_mapGroups, x, n)
        BY <1>old, <2>1, <3>1, <3>2
      <3>3. CASE x = g /\ n = new
        BY <1>2, <1>new, <3>1, <3>3
      <3> QED  BY <1>now, <3>1, <3>2, <3>3
    <2> QED  BY <2>3, <2>4, <2>5
  <1>10. \A j : Unmarked(j)' <=> Unmarked(j) /\ j # i
    <2> TAKE j
    <2>1. Unmarked(j) <=> \A x, n : In(m_mapGroups, x, n) => m_mapGroups[x][n].id # j
      BY DEF Unmarked, In
    <2>2. Unmarked(j)' <=> \A x, n : In(m_mapGroups', x, n) => m_mapGroups'[x][n].id # j
      BY DEF Unmarked, In
    <2>3. ASSUME Unmarked(j)' PROVE Unmarked(j) /\ j # i
      <3>1. j # i
        BY <1>2, <1>new, <2>2, <2>3
      <3>2. \A x, n : In(m_mapGroups, x, n) => m_mapGroups[x][n].id # j
        BY <1>now, <1>old, <2>2, <2>3
      <3> QED  BY <2>1, <3>1, <3>2
    <2>4. ASSUME Unmarked(j), j # i PROVE Unmarked(j)'
      <3>1. ASSUME NEW x, NEW n, In(m_mapGroups', x, n)
            PROVE  m_mapGroups'[x][n].id # j
        <4>1. CASE In(m_mapGroups, x, n)
          BY <1>old, <2>1, <2>4, <4>1
        <4>2. CASE x = g /\ n = new
          BY <1>2, <1>new, <2>4, <4>2
        <4> QED  BY <1>now, <3>1, <4>1, <4>2
      <3> QED  BY <2>2, <3>1
    <2> QED  BY <2>3, <2>4
  <1> QED  BY <1>5, <1>6, <1>7, <1>8, <1>9, <1>10

\* One row of getDiffFiles.
LEMMA FetchRowStep ==
    ASSUME DiffInv, FetchRow
    PROVE  DiffInv'
  <1>1. TypeOK /\ KnownDb /\ EntriesFromRows /\ OneEntryEach /\ RowsFetched
        /\ AboveChanged /\ ParentsFound /\ DefinesListed /\ CommentsRead
    BY DEF DiffInv
  <1>2. PICK i \in rows : /\ AddDiffFile(db.files[i].file_group_id, DiffFile(i, pc))
                          /\ rows' = rows \ {i}
    BY DEF FetchRow
  <1>3. /\ pc \in Selecting
        /\ UNCHANGED <<db, webdiff_define_files_comments, pc, left, right, todo, vIds,
                       nComments, m_mapComments>>
    BY DEF FetchRow, Selecting
  <1>4. /\ i \in DOMAIN db.files /\ Unmarked(i)
        /\ pc = "missing" => i \in DiffFiles(left, right)
        /\ pc = "new" => i \in DiffFiles(right, left)
        /\ pc \in {"missing", "new", ""}
    BY <1>1, <1>3 DEF TypeOK, RowsFetched, Selecting
  <1>5. /\ EntriesFromRows' /\ OneEntryEach' /\ DefinesListed'
        /\ \A j, s : Marked(j, s)' <=> Marked(j, s) \/ (j = i /\ s = pc)
        /\ \A j : Unmarked(j)' <=> Unmarked(j) /\ j # i
        /\ m_vFileDefineIds' \in Seq(Nat)
    BY <1>1, <1>2, <1>3, <1>4, AddedEntry, ZenonT(30)
  <1> DEFINE g == db.files[i].file_group_id
             e == DiffFile(i, pc)
  <1>6. g \in Nat /\ e \in DiffFileType /\ e.state # "" /\ AddDiffFile(g, e)
    BY <1>1, <1>2, <1>3, <1>4, Rows, EntryType DEF Selecting
  <1> HIDE DEF g, e
  <1>7. /\ DOMAIN m_mapGroups' = DOMAIN m_mapGroups \cup {g}
        /\ \A x \in DOMAIN m_mapGroups' : m_mapGroups'[x] \in Seq(DiffFileType)
    BY <1>1, <1>6, Added
  <1>8. PICK new \in Nat :
           /\ ~In(m_mapGroups, g, new)
           /\ \A x, n : In(m_mapGroups', x, n) <=> In(m_mapGroups, x, n) \/ (x = g /\ n = new)
           /\ \A x, n : In(m_mapGroups, x, n) => m_mapGroups'[x][n] = m_mapGroups[x][n]
           /\ m_mapGroups'[g][new] = e
    BY <1>1, <1>6, Added
  <1>9. TypeOK'
    BY <1>1, <1>2, <1>3, <1>5, <1>6, <1>7 DEF TypeOK
  <1>10. RowsFetched'
    <2>1. DiffFiles(left, right)' = DiffFiles(left, right)
          /\ DiffFiles(right, left)' = DiffFiles(right, left)
      BY <1>3 DEF DiffFiles
    <2>2. \A j \in rows' : Unmarked(j)'
      BY <1>1, <1>2, <1>3, <1>5 DEF RowsFetched
    <2>3. \A j \in DiffFiles(left, right) :
             Marked(j, "missing")' \/ (pc = "missing" /\ j \in rows')
      BY <1>1, <1>2, <1>3, <1>5 DEF RowsFetched, Selecting
    <2>4. pc = "new" => \A j \in DiffFiles(right, left) :
             Marked(j, "new")' \/ (pc = "new" /\ j \in rows')
      BY <1>1, <1>2, <1>3, <1>5 DEF RowsFetched, Selecting
    <2>5. pc = "missing" => \A j \in DOMAIN db.files : ~Marked(j, "new")'
      BY <1>1, <1>5 DEF RowsFetched
    <2>6. /\ pc = "missing" => rows' \subseteq DiffFiles(left, right)
          /\ pc = "new" => rows' \subseteq DiffFiles(right, left)
      BY <1>1, <1>2 DEF RowsFetched
    <2>7. db' = db /\ pc' = pc /\ pc \in {"missing", "new"}
      BY <1>3 DEF Selecting
    <2> QED  BY <2>1, <2>2, <2>3, <2>4, <2>5, <2>6, <2>7 DEF RowsFetched
  <1>11. AboveChanged'
    <2>1. \A x, n : In(m_mapGroups, x, n) => m_mapGroups[x][n].state # ""
      BY <1>1, <1>3 DEF AboveChanged, Changed, In
    <2>2. \A x, n : In(m_mapGroups', x, n) => m_mapGroups'[x][n].state # ""
      BY <1>6, <1>8, <2>1, ZenonT(30)
    <2> QED  BY <2>2 DEF AboveChanged, Changed, In
  <1>12. ParentsFound' /\ StackKnown'
    <2>1. pc \in {"missing", "new"} /\ pc' = pc /\ todo' = todo
      BY <1>3 DEF Selecting
    <2>2. todo = {}
      BY <1>1, <2>1 DEF ParentsFound
    <2> QED  BY <2>1, <2>2 DEF ParentsFound, StackKnown
  <1>13. CommentsRead'
    <2>1. nComments = 0 /\ pc \in {"missing", "new"}
      BY <1>1, <1>3 DEF CommentsRead, Selecting
    <2>2. Len(m_vFileDefineIds') \in Nat
      BY <1>5
    <2>3. DOMAIN m_mapComments = {}
      BY <1>1, <2>1 DEF CommentsRead
    <2> QED  BY <1>3, <2>1, <2>2, <2>3 DEF CommentsRead
  <1>14. KnownDb'
    BY <1>1, <1>3 DEF KnownDb
  <1> QED  BY <1>5, <1>9, <1>10, <1>11, <1>12, <1>13, <1>14 DEF DiffInv


-----------------------------------------------------------------------------
(* The search for parents *)

\* hasFileId in terms of places.
LEMMA HasFile ==
    ASSUME NEW g \in DOMAIN m_mapGroups, NEW i
    PROVE  hasFileId(g, i) <=> \E n : In(m_mapGroups, g, n) /\ m_mapGroups[g][n].id = i
  BY DEF hasFileId, In, Range

\* The row above an entry's row is a row of the same group.
LEMMA RowAbove ==
    ASSUME KnownDb, EntriesFromRows, NEW g, NEW n, In(m_mapGroups, g, n),
           m_mapGroups[g][n].parent # 0
    PROVE  /\ m_mapGroups[g][n].parent \in DOMAIN db.files
           /\ db.files[m_mapGroups[g][n].parent].file_group_id = g
  <1> DEFINE e == m_mapGroups[g][n]
  <1>1. FromRow(g, e)
    BY DEF EntriesFromRows, In
  <1> HIDE DEF e
  <1>2. e.id \in DOMAIN db.files /\ db.files[e.id].file_group_id = g
        /\ e.parent = db.files[e.id].parent_id
    BY <1>1 DEF FromRow
  <1>3. WellFormed(db)
    BY Tables
  <1> QED  BY <1>2, <1>3 DEF WellFormed, e

\* Taking the top off the stack.
LEMMA Popped ==
    ASSUME vIds \in Seq(Nat), vIds # <<>>
    PROVE  LET rest == SubSeq(vIds, 1, Len(vIds) - 1) IN
           /\ Len(vIds) \in DOMAIN vIds
           /\ rest \in Seq(Nat)
           /\ \A k \in DOMAIN rest : k \in DOMAIN vIds /\ rest[k] = vIds[k]
           /\ \A k \in DOMAIN vIds : k # Len(vIds) => k \in DOMAIN rest
  <1> DEFINE m == Len(vIds)
  <1>1. m \in Nat /\ m # 0 /\ DOMAIN vIds = 1..m
    BY EmptySeq
  <1>2. \A k \in 1..(m - 1) : vIds[k] \in Nat
    BY <1>1
  <1>3. /\ SubSeq(vIds, 1, m - 1) \in Seq(Nat)
        /\ Len(SubSeq(vIds, 1, m - 1)) = m - 1
        /\ \A k \in 1..(m - 1) : SubSeq(vIds, 1, m - 1)[k] = vIds[k]
    BY <1>1, <1>2, SubSeqProperties
  <1>4. DOMAIN SubSeq(vIds, 1, m - 1) = 1..(m - 1)
    BY <1>1, <1>3
  <1> QED  BY <1>1, <1>3, <1>4

\* A parent id that needs no search.
LEMMA PopSkipStep ==
    ASSUME DiffInv, pc = "parents", vIds # <<>>,
           LET i == vIds[Len(vIds)] IN i = 0 \/ hasFileId(group, i) \/ i \notin DOMAIN db.files,
           vIds' = SubSeq(vIds, 1, Len(vIds) - 1),
           UNCHANGED <<m_mapGroups, m_vFileDefineIds, db, webdiff_define_files_comments, pc,
                       left, right, rows, todo, nComments, m_mapComments>>
    PROVE  DiffInv'
  <1>1. TypeOK /\ KnownDb /\ EntriesFromRows /\ OneEntryEach /\ RowsFetched
        /\ AboveChanged /\ ParentsFound /\ StackKnown /\ DefinesListed /\ CommentsRead
    BY DEF DiffInv
  <1>2. /\ Len(vIds) \in DOMAIN vIds /\ vIds' \in Seq(Nat)
        /\ \A k \in DOMAIN vIds' : k \in DOMAIN vIds /\ vIds'[k] = vIds[k]
        /\ \A k \in DOMAIN vIds : k # Len(vIds) => k \in DOMAIN vIds'
    BY <1>1, Popped DEF TypeOK
  <1>3. group' = group
    BY DEF group
  <1>4. TypeOK'
    BY <1>1, <1>2 DEF TypeOK
  <1>5. KnownDb' /\ EntriesFromRows' /\ OneEntryEach' /\ DefinesListed'
    BY <1>1 DEF KnownDb, EntriesFromRows, FromRow, DiffFiles, OneEntryEach, DefinesListed
  <1>6. RowsFetched'
    BY <1>1 DEF RowsFetched, Selecting, DiffFiles, Marked, Unmarked
  <1>7. AboveChanged'
    <2>1. \A x \in DOMAIN m_mapGroups : \A n \in DOMAIN m_mapGroups[x] :
             ~(m_mapGroups[x][n].state # "") =>
                 /\ pc \notin Selecting
                 /\ x \in todo => pc = "parents" /\ x = group
                 /\ \E k \in DOMAIN m_mapGroups[x] :
                       /\ m_mapGroups[x][k].state # ""
                       /\ m_mapGroups[x][k].parent = m_mapGroups[x][n].id
      BY ONLY <1>1 DEF AboveChanged, Changed
    <2>2. m_mapGroups' = m_mapGroups /\ pc' = pc /\ todo' = todo
      OBVIOUS
    <2> QED  BY ONLY <1>3, <2>1, <2>2 DEF AboveChanged, Selecting, Changed
  <1>8. CommentsRead'
    BY <1>1 DEF CommentsRead, Comments
  <1>9. StackKnown'
    BY <1>1, <1>2, <1>3, ZenonT(30) DEF StackKnown, Changed, hasFileId
  <1>10. ParentsFound'
    <2>1. ASSUME NEW x \in DOMAIN m_mapGroups, NEW n \in DOMAIN m_mapGroups[x],
                 Changed(x, n), m_mapGroups[x][n].parent # 0
          PROVE  \/ x \in todo /\ x # group
                 \/ hasFileId(x, m_mapGroups[x][n].parent)
                 \/ x = group /\ \E k \in DOMAIN vIds' : vIds'[k] = m_mapGroups[x][n].parent
      <3>1. \/ x \in todo /\ x # group
            \/ hasFileId(x, m_mapGroups[x][n].parent)
            \/ x = group /\ \E k \in DOMAIN vIds : vIds[k] = m_mapGroups[x][n].parent
        BY <1>1, <2>1 DEF ParentsFound
      <3>2. m_mapGroups[x][n].parent \in DOMAIN db.files
        BY <1>1, <2>1, RowAbove DEF In
      <3>3. ASSUME x = group, NEW k \in DOMAIN vIds, vIds[k] = m_mapGroups[x][n].parent
            PROVE  \/ hasFileId(x, m_mapGroups[x][n].parent)
                   \/ k \in DOMAIN vIds' /\ vIds'[k] = m_mapGroups[x][n].parent
        <4>1. CASE k = Len(vIds)
          BY <2>1, <3>2, <3>3, <4>1
        <4>2. CASE k # Len(vIds)
          BY <1>2, <3>3, <4>2
        <4> QED  BY <4>1, <4>2
      <3> QED  BY <3>1, <3>3
    <2>2. /\ pc' = "parents" /\ todo' = todo /\ todo # {} /\ todo \subseteq DOMAIN m_mapGroups
          /\ m_mapGroups' = m_mapGroups
      BY <1>1 DEF ParentsFound
    <2>3. ASSUME NEW x \in DOMAIN m_mapGroups', NEW n \in DOMAIN m_mapGroups'[x],
                 Changed(x, n)', m_mapGroups'[x][n].parent # 0
          PROVE  \/ x \in todo' /\ x # group'
                 \/ hasFileId(x, m_mapGroups[x][n].parent)'
                 \/ x = group' /\ \E k \in DOMAIN vIds' : vIds'[k] = m_mapGroups'[x][n].parent
      <3>1. Changed(x, n) /\ x \in DOMAIN m_mapGroups /\ n \in DOMAIN m_mapGroups[x]
        BY ONLY <2>2, <2>3 DEF Changed
      <3>2. \/ x \in todo /\ x # group
            \/ hasFileId(x, m_mapGroups[x][n].parent)
            \/ x = group /\ \E k \in DOMAIN vIds' : vIds'[k] = m_mapGroups[x][n].parent
        BY <2>1, <2>2, <2>3, <3>1
      <3>3. hasFileId(x, m_mapGroups[x][n].parent) => hasFileId(x, m_mapGroups[x][n].parent)'
        BY ONLY <2>2 DEF hasFileId
      <3> QED  BY ONLY <1>3, <2>2, <3>2, <3>3
    <2> QED  BY ONLY <2>2, <2>3 DEF ParentsFound
  <1> QED  BY <1>4, <1>5, <1>6, <1>7, <1>8, <1>9, <1>10 DEF DiffInv


\* findAndAddFile for a row that has no entry yet.
LEMMA PopFindStep ==
    ASSUME DiffInv, pc = "parents", vIds # <<>>,
           NEW i, i = vIds[Len(vIds)], i # 0, ~hasFileId(group, i), i \in DOMAIN db.files,
           AddDiffFile(group, DiffFile(i, "")),
           vIds' = PushAfterFind(SubSeq(vIds, 1, Len(vIds) - 1), i),
           UNCHANGED <<db, webdiff_define_files_comments, pc, left, right, rows, todo,
                       nComments, m_mapComments>>
    PROVE  DiffInv'
  <1>1. TypeOK /\ KnownDb /\ EntriesFromRows /\ OneEntryEach /\ RowsFetched
        /\ AboveChanged /\ ParentsFound /\ StackKnown /\ DefinesListed /\ CommentsRead
    BY DEF DiffInv
  <1>2. PICK g : g = group
    OBVIOUS
  <1>3. group' = group
    BY DEF group
  <1>4. g \in todo /\ g \in DOMAIN m_mapGroups /\ g \in Nat
    BY <1>1, <1>2, GroupInTodo DEF TypeOK, ParentsFound
  <1> DEFINE rest == SubSeq(vIds, 1, Len(vIds) - 1)
  <1>5. /\ Len(vIds) \in DOMAIN vIds /\ rest \in Seq(Nat)
        /\ \A k \in DOMAIN rest : k \in DOMAIN vIds /\ rest[k] = vIds[k]
        /\ \A k \in DOMAIN vIds : k # Len(vIds) => k \in DOMAIN rest
    BY <1>1, Popped DEF TypeOK
  <1>6. vIds' = Append(rest, i)
    BY DEF PushAfterFind
  <1>7. i \in Nat
    BY <1>1, Rows
  <1> HIDE DEF rest
  <1>8. /\ vIds' \in Seq(Nat)
        /\ \A k \in DOMAIN rest : k \in DOMAIN vIds' /\ vIds'[k] = rest[k]
        /\ \A k \in DOMAIN vIds' : k \in DOMAIN rest \/ vIds'[k] = i
    <2>1. /\ Append(rest, i) \in Seq(Nat) /\ Len(rest) \in Nat
          /\ DOMAIN rest = 1..Len(rest) /\ DOMAIN Append(rest, i) = 1..(Len(rest) + 1)
          /\ \A n \in 1..Len(rest) : Append(rest, i)[n] = rest[n]
          /\ Append(rest, i)[Len(rest) + 1] = i
      BY ONLY <1>5, <1>7
    <2>2. \A k : k \in 1..(Len(rest) + 1) <=> k \in 1..Len(rest) \/ k = Len(rest) + 1
      BY ONLY <2>1
    <2> QED  BY ONLY <1>6, <2>1, <2>2
  <1>9. PICK c \in DOMAIN m_mapGroups[g] : Changed(g, c) /\ m_mapGroups[g][c].parent = i
    BY <1>1, <1>2, <1>5 DEF StackKnown
  <1>10. In(m_mapGroups, g, c) /\ m_mapGroups[g][c].state # ""
    BY <1>4, <1>9 DEF In, Changed
  <1>11. db.files[i].file_group_id = g
    BY <1>1, <1>9, <1>10, RowAbove
  <1>12. Unmarked(i)
    <2> SUFFICES ASSUME NEW x \in DOMAIN m_mapGroups, NEW n \in DOMAIN m_mapGroups[x],
                        m_mapGroups[x][n].id = i
                 PROVE  FALSE
      BY DEF Unmarked
    <2>1. FromRow(x, m_mapGroups[x][n])
      BY <1>1 DEF EntriesFromRows
    <2>2. x = g
      BY <1>11, <2>1 DEF FromRow
    <2>3. hasFileId(g, i)
      BY <2>2, HasFile DEF In
    <2> QED  BY <1>2, <2>3
  <1>13. AddDiffFile(db.files[i].file_group_id, DiffFile(i, ""))
    BY <1>2, <1>11
  <1>14. /\ EntriesFromRows' /\ OneEntryEach' /\ DefinesListed'
         /\ \A j, s : Marked(j, s)' <=> Marked(j, s) \/ (j = i /\ s = "")
         /\ m_vFileDefineIds' \in Seq(Nat)
    BY <1>1, <1>12, <1>13, AddedEntry
  <1> DEFINE e == DiffFile(i, "")
  <1>15. e \in DiffFileType /\ e.id = i /\ e.state = "" /\ AddDiffFile(g, e)
    BY <1>1, <1>2, EntryType
  <1> HIDE DEF e
  <1>16. /\ DOMAIN m_mapGroups' = DOMAIN m_mapGroups \cup {g}
         /\ \A x \in DOMAIN m_mapGroups' : m_mapGroups'[x] \in Seq(DiffFileType)
    BY <1>1, <1>4, <1>15, Added
  <1>17. PICK new \in Nat :
           /\ ~In(m_mapGroups, g, new)
           /\ \A x, n : In(m_mapGroups', x, n) <=> In(m_mapGroups, x, n) \/ (x = g /\ n = new)
           /\ \A x, n : In(m_mapGroups, x, n) => m_mapGroups'[x][n] = m_mapGroups[x][n]
           /\ m_mapGroups'[g][new] = e
    BY <1>1, <1>4, <1>15, Added
  <1>18. DOMAIN m_mapGroups' = DOMAIN m_mapGroups
    BY <1>4, <1>16
  <1>19. TypeOK'
    BY <1>1, <1>8, <1>14, <1>16, <1>18 DEF TypeOK
  <1>20. KnownDb'
    BY <1>1 DEF KnownDb
  <1>21. RowsFetched'
    <2>1. DiffFiles(left, right)' = DiffFiles(left, right)
          /\ DiffFiles(right, left)' = DiffFiles(right, left)
      BY DEF DiffFiles
    <2>2. /\ \A j \in DiffFiles(left, right) : Marked(j, "missing")'
          /\ \A j \in DiffFiles(right, left) : Marked(j, "new")'
      BY <1>1, <1>14 DEF RowsFetched
    <2> QED  BY <2>1, <2>2 DEF RowsFetched, Selecting
  <1>22. \A x \in DOMAIN m_mapGroups : \A j : hasFileId(x, j) => hasFileId(x, j)'
    <2> SUFFICES ASSUME NEW x \in DOMAIN m_mapGroups, NEW j, hasFileId(x, j)
                 PROVE  hasFileId(x, j)'
      OBVIOUS
    <2>1. PICK n : In(m_mapGroups, x, n) /\ m_mapGroups[x][n].id = j
      BY HasFile
    <2>2. In(m_mapGroups', x, n) /\ m_mapGroups'[x][n].id = j
      BY <1>17, <2>1
    <2> QED  BY <2>2 DEF hasFileId, In, Range
  <1>23. hasFileId(g, i)'
    <2>1. In(m_mapGroups', g, new) /\ m_mapGroups'[g][new].id = i
      BY <1>15, <1>17
    <2> QED  BY <2>1 DEF hasFileId, In, Range
  <1>24. AboveChanged'
    <2> SUFFICES ASSUME NEW x, NEW n, In(m_mapGroups', x, n), m_mapGroups'[x][n].state = ""
                 PROVE  /\ x \in todo => x = group
                        /\ \E k : /\ In(m_mapGroups', x, k) /\ m_mapGroups'[x][k].state # ""
                                  /\ m_mapGroups'[x][k].parent = m_mapGroups'[x][n].id
      BY <1>3 DEF AboveChanged, In, Changed, Selecting
    <2>1. CASE In(m_mapGroups, x, n)
      <3>1. m_mapGroups'[x][n] = m_mapGroups[x][n]
        BY <1>17, <2>1
      <3>2. /\ x \in todo => x = group
            /\ \E k : /\ In(m_mapGroups, x, k) /\ m_mapGroups[x][k].state # ""
                      /\ m_mapGroups[x][k].parent = m_mapGroups[x][n].id
        BY <1>1, <2>1, <3>1 DEF AboveChanged, In, Changed
      <3>3. PICK k : /\ In(m_mapGroups, x, k) /\ m_mapGroups[x][k].state # ""
                     /\ m_mapGroups[x][k].parent = m_mapGroups[x][n].id
        BY <3>2
      <3>4. In(m_mapGroups', x, k) /\ m_mapGroups'[x][k] = m_mapGroups[x][k]
        BY <1>17, <3>3
      <3> QED  BY <3>1, <3>2, <3>3, <3>4
    <2>2. CASE x = g /\ n = new
      <3>1. In(m_mapGroups', g, c) /\ m_mapGroups'[g][c] = m_mapGroups[g][c]
        BY <1>10, <1>17
      <3> QED  BY <1>2, <1>9, <1>10, <1>15, <1>17, <2>2, <3>1
    <2> QED  BY <1>17, <2>1, <2>2
  <1>25. ParentsFound'
    <2> DEFINE P(x, n) == \/ x \in todo /\ x # g
                          \/ hasFileId(x, m_mapGroups[x][n].parent)'
                          \/ x = g /\ \E k \in DOMAIN vIds' : vIds'[k] = m_mapGroups'[x][n].parent
    <2>all. ASSUME \A x, n : /\ In(m_mapGroups', x, n) /\ m_mapGroups'[x][n].state # ""
                             /\ m_mapGroups'[x][n].parent # 0
                             => P(x, n)
            PROVE  ParentsFound'
      <3>1. /\ pc' = "parents" /\ todo' = todo /\ todo # {} /\ todo \subseteq DOMAIN m_mapGroups'
            /\ group' = g
        BY <1>1, <1>2, <1>3, <1>18 DEF ParentsFound
      <3>2. \A x \in DOMAIN m_mapGroups' : \A n \in DOMAIN m_mapGroups'[x] :
               Changed(x, n)' /\ m_mapGroups'[x][n].parent # 0 => P(x, n)
        BY ONLY <2>all DEF In, Changed
      <3> QED  BY ONLY <3>1, <3>2 DEF ParentsFound
    <2> HIDE DEF P
    <2> SUFFICES ASSUME NEW x, NEW n, In(m_mapGroups', x, n), m_mapGroups'[x][n].state # "",
                        m_mapGroups'[x][n].parent # 0
                 PROVE  P(x, n)
      BY <2>all
    <2> USE DEF P
    <2>1. In(m_mapGroups, x, n) /\ m_mapGroups'[x][n] = m_mapGroups[x][n]
      BY <1>15, <1>17
    <2>2. x \in DOMAIN m_mapGroups /\ n \in DOMAIN m_mapGroups[x] /\ Changed(x, n)
      BY <2>1 DEF In, Changed
    <2>3. PICK j : j = m_mapGroups[x][n].parent
      OBVIOUS
    <2>4. \/ x \in todo /\ x # group
          \/ hasFileId(x, j)
          \/ x = group /\ \E k \in DOMAIN vIds : vIds[k] = j
      BY <1>1, <2>1, <2>2, <2>3 DEF ParentsFound
    <2>5. CASE hasFileId(x, j)
      <3>1. hasFileId(x, j)'
        BY <1>22, <2>2, <2>5
      <3> QED  BY <2>1, <2>3, <3>1 DEF hasFileId
    <2>6. ASSUME x = group, NEW k \in DOMAIN vIds, vIds[k] = j
          PROVE  hasFileId(x, j)' \/ \E m \in DOMAIN vIds' : vIds'[m] = j
      <3>1. CASE k = Len(vIds)
        BY <1>2, <1>23, <2>6, <3>1
      <3>2. CASE k # Len(vIds)
        BY <1>5, <1>8, <2>6, <3>2
      <3> QED  BY <3>1, <3>2
    <2>7. hasFileId(x, j)' => hasFileId(x, m_mapGroups[x][n].parent)'
      BY <2>1, <2>3 DEF hasFileId
    <2> QED  BY <1>2, <2>1, <2>3, <2>4, <2>5, <2>6, <2>7
  <1>26. StackKnown'
    <2> SUFFICES ASSUME NEW k \in DOMAIN vIds'
                 PROVE  \/ vIds'[k] = 0
                        \/ hasFileId(g, vIds[k])'
                        \/ \E n : /\ In(m_mapGroups', g, n) /\ m_mapGroups'[g][n].state # ""
                                  /\ m_mapGroups'[g][n].parent = vIds'[k]
      BY <1>2, <1>3 DEF StackKnown, In, Changed, hasFileId
    <2>1. CASE vIds'[k] = i
      BY <1>23, <2>1 DEF hasFileId
    <2>2. CASE k \in DOMAIN rest
      <3>1. k \in DOMAIN vIds /\ vIds'[k] = vIds[k]
        BY <1>5, <1>8, <2>2
      <3>2. PICK j : j = vIds[k]
        OBVIOUS
      <3>3. \/ j = 0 \/ hasFileId(g, j)
            \/ \E n : /\ In(m_mapGroups, g, n) /\ m_mapGroups[g][n].state # ""
                      /\ m_mapGroups[g][n].parent = j
        BY <1>1, <1>2, <1>4, <3>1, <3>2 DEF StackKnown, In, Changed
      <3>4. CASE hasFileId(g, j)
        <4>1. hasFileId(g, j)'
          BY <1>4, <1>22, <3>4
        <4> QED  BY <3>1, <3>2, <4>1 DEF hasFileId
      <3>5. ASSUME NEW n, In(m_mapGroups, g, n), m_mapGroups[g][n].state # "",
                   m_mapGroups[g][n].parent = j
            PROVE  /\ In(m_mapGroups', g, n) /\ m_mapGroups'[g][n].state # ""
                   /\ m_mapGroups'[g][n].parent = j
        BY <1>17, <3>5
      <3> QED  BY <3>1, <3>2, <3>3, <3>4, <3>5
    <2> QED  BY <1>8, <2>1, <2>2
  <1>27. CommentsRead'
    <2>1. nComments = 0 /\ DOMAIN m_mapComments = {m_vFileDefineIds[k] : k \in 1..nComments}
      BY ONLY <1>1, pc = "parents" DEF CommentsRead
    <2>2. DOMAIN m_mapComments = {}
      BY ONLY <2>1
    <2>3. Len(m_vFileDefineIds') \in Nat
      BY <1>14, LenProperties
    <2>4. pc' = "parents" /\ nComments' = nComments /\ m_mapComments' = m_mapComments
      OBVIOUS
    <2> QED  BY ONLY <2>1, <2>2, <2>3, <2>4 DEF CommentsRead
  <1> QED  BY <1>14, <1>19, <1>20, <1>21, <1>24, <1>25, <1>26, <1>27 DEF DiffInv

LEMMA PopParentStep ==
    ASSUME DiffInv, PopParent
    PROVE  DiffInv'
  <1>1. PICK i : i = vIds[Len(vIds)]
    OBVIOUS
  <1>2. CASE i = 0 \/ hasFileId(group, i) \/ i \notin DOMAIN db.files
    BY <1>1, <1>2, PopSkipStep DEF PopParent
  <1>3. CASE ~(i = 0 \/ hasFileId(group, i) \/ i \notin DOMAIN db.files)
    <2>1. /\ pc = "parents" /\ vIds # <<>>
          /\ AddDiffFile(group, DiffFile(i, ""))
          /\ vIds' = PushAfterFind(SubSeq(vIds, 1, Len(vIds) - 1), i)
          /\ UNCHANGED <<db, webdiff_define_files_comments, pc, left, right, rows, todo,
                         nComments, m_mapComments>>
      BY <1>1, <1>3 DEF PopParent
    <2> QED  BY <1>1, <1>3, <2>1, PopFindStep
  <1> QED  BY <1>2, <1>3


-----------------------------------------------------------------------------
(* The other steps *)

\* A request that has not fetched anything yet, or none at all.
Blank ==
    /\ KnownDb
    /\ webdiff_define_files_comments \in Seq(CommentRow)
    /\ left \in Nat /\ right \in Nat
    /\ \/ pc = "idle" /\ rows = {}
       \/ pc = "missing" /\ rows = DiffFiles(left, right)
    /\ m_mapGroups = <<>> /\ m_vFileDefineIds = <<>> /\ todo = {} /\ vIds = <<>>
    /\ nComments = 0 /\ m_mapComments = <<>>

LEMMA BlankInv == Blank => DiffInv
  <1> SUFFICES ASSUME Blank PROVE DiffInv
    OBVIOUS
  <1>1. /\ KnownDb /\ pc \in {"idle", "missing"} /\ todo = {} /\ vIds = <<>> /\ nComments = 0
        /\ m_vFileDefineIds = <<>>
        /\ pc = "missing" => rows = DiffFiles(left, right)
        /\ pc = "idle" => rows = {}
    BY DEF Blank
  <1>2. DOMAIN m_mapGroups = {} /\ DOMAIN m_mapComments = {} /\ DOMAIN m_vFileDefineIds = {}
        /\ Len(m_vFileDefineIds) = 0 /\ m_vFileDefineIds \in Seq(Nat) /\ vIds \in Seq(Nat)
    BY DEF Blank
  <1>3. TypeOK
    <2>1. rows \subseteq DOMAIN db.files
      BY <1>1 DEF DiffFiles
    <2>2. db.files \in Seq(FileRow)
      BY <1>1, Tables
    <2> QED  BY <1>1, <1>2, <2>1, <2>2 DEF Blank, TypeOK
  <1>4. EntriesFromRows /\ OneEntryEach /\ AboveChanged /\ DefinesListed
    BY <1>2 DEF EntriesFromRows, OneEntryEach, AboveChanged, DefinesListed
  <1>5. RowsFetched
    BY <1>1, <1>2 DEF RowsFetched, Marked, Unmarked, Selecting
  <1>6. ParentsFound /\ StackKnown
    BY <1>1, <1>2 DEF ParentsFound, StackKnown
  <1>7. CommentsRead
    BY <1>1, <1>2 DEF CommentsRead
  <1> QED  BY <1>1, <1>3, <1>4, <1>5, <1>6, <1>7 DEF DiffInv

LEMMA DiffInit == Init => DiffInv
  <1>1. Init => Blank
    <2> SUFFICES ASSUME Init PROVE Blank
      OBVIOUS
    <2>1. KnownDb
      BY DEF Init, KnownDb
    <2>2. db.comments \in Seq(CommentRow)
      BY <2>1, Tables
    <2> QED  BY <2>1, <2>2 DEF Init, Blank
  <1> QED  BY <1>1, BlankInv

LEMMA SelectMissingStep ==
    ASSUME DiffInv, NEW l \in VersionIds, NEW r \in VersionIds, SelectMissing(l, r)
    PROVE  DiffInv'
  <1>1. Blank'
    <2>1. KnownDb' /\ webdiff_define_files_comments' \in Seq(CommentRow) /\ db' = db
      BY DEF DiffInv, KnownDb, TypeOK, SelectMissing
    <2>2. rows' = DiffFiles(left, right)'
      BY <2>1 DEF SelectMissing, DiffFiles
    <2>3. left' \in Nat /\ right' \in Nat
      BY IdsAssumption DEF SelectMissing
    <2> QED  BY <2>1, <2>2, <2>3 DEF SelectMissing, Blank
  <1>2. Blank' => DiffInv'
    BY BlankInv, PTL
  <1> QED  BY <1>1, <1>2

LEMMA ReplyStep ==
    ASSUME DiffInv, Reply
    PROVE  DiffInv'
  <1>1. Blank'
    <2>1. KnownDb' /\ webdiff_define_files_comments' \in Seq(CommentRow)
      BY DEF DiffInv, KnownDb, TypeOK, Reply
    <2> QED  BY <2>1 DEF Reply, Blank
  <1>2. Blank' => DiffInv'
    BY BlankInv, PTL
  <1> QED  BY <1>1, <1>2

\* The parts of the invariant that speak of the entries alone.
LEMMA EntriesKept ==
    ASSUME DiffInv,
           UNCHANGED <<db, left, right, m_mapGroups, m_vFileDefineIds>>
    PROVE  /\ KnownDb' /\ EntriesFromRows' /\ OneEntryEach' /\ DefinesListed'
           /\ DiffFiles(left, right)' = DiffFiles(left, right)
           /\ DiffFiles(right, left)' = DiffFiles(right, left)
           /\ \A j, s : Marked(j, s)' <=> Marked(j, s)
           /\ \A j : Unmarked(j)' <=> Unmarked(j)
           /\ \A x, j : hasFileId(x, j)' <=> hasFileId(x, j)
           /\ \A x, n : Changed(x, n)' <=> Changed(x, n)
  BY DEF DiffInv, KnownDb, EntriesFromRows, FromRow, DiffFiles, OneEntryEach, DefinesListed,
         Marked, Unmarked, hasFileId, Changed

\* The second SELECT: none of its rows has an entry yet.
LEMMA SelectNewStep ==
    ASSUME DiffInv, SelectNew
    PROVE  DiffInv'
  <1>1. TypeOK /\ EntriesFromRows /\ RowsFetched
        /\ AboveChanged /\ ParentsFound /\ CommentsRead
    BY DEF DiffInv
  <1>2. /\ pc = "missing" /\ rows = {} /\ rows' = DiffFiles(right, left) /\ pc' = "new"
        /\ UNCHANGED <<db, webdiff_define_files_comments, left, right, m_mapGroups,
                       m_vFileDefineIds, todo, vIds, nComments, m_mapComments>>
    BY DEF SelectNew, result
  <1>3. /\ KnownDb' /\ EntriesFromRows' /\ OneEntryEach' /\ DefinesListed'
        /\ DiffFiles(left, right)' = DiffFiles(left, right)
        /\ DiffFiles(right, left)' = DiffFiles(right, left)
        /\ \A j, s : Marked(j, s)' <=> Marked(j, s)
        /\ \A j : Unmarked(j)' <=> Unmarked(j)
    BY <1>2, EntriesKept
  <1>4. ASSUME NEW i \in DiffFiles(right, left)
        PROVE  Unmarked(i)
    <2> SUFFICES ASSUME NEW x \in DOMAIN m_mapGroups, NEW n \in DOMAIN m_mapGroups[x],
                        m_mapGroups[x][n].id = i
                 PROVE  FALSE
      BY DEF Unmarked
    <2>1. m_mapGroups[x][n] \in DiffFileType
      BY <1>1, ElementOfSeq DEF TypeOK
    <2>2. m_mapGroups[x][n].state # ""
      BY <1>1, <1>2 DEF AboveChanged, Changed, Selecting
    <2>3. m_mapGroups[x][n].state # "new"
      BY <1>1, <1>2, <1>4 DEF RowsFetched, Marked, DiffFiles
    <2>4. m_mapGroups[x][n].state = "missing"
      BY <2>1, <2>2, <2>3 DEF DiffFileType
    <2>5. FromRow(x, m_mapGroups[x][n])
      BY <1>1 DEF EntriesFromRows
    <2>6. i \in DiffFiles(left, right)
      BY <2>4, <2>5 DEF FromRow
    <2> QED  BY <1>4, <2>6 DEF DiffFiles
  <1>5. TypeOK'
    <2>1. rows' \subseteq DOMAIN db.files
      BY <1>2 DEF DiffFiles
    <2> QED  BY <1>1, <1>2, <2>1 DEF TypeOK
  <1>6. RowsFetched'
    <2>1. \A i \in DiffFiles(left, right) : Marked(i, "missing")
      BY <1>1, <1>2 DEF RowsFetched
    <2> QED  BY <1>2, <1>3, <1>4, <2>1 DEF RowsFetched, Selecting
  <1>7. AboveChanged'
    <2>1. \A x \in DOMAIN m_mapGroups : \A n \in DOMAIN m_mapGroups[x] :
             m_mapGroups[x][n].state # ""
      BY <1>1, <1>2 DEF AboveChanged, Changed, Selecting
    <2> QED  BY <1>2, <2>1 DEF AboveChanged, Changed
  <1>8. ParentsFound' /\ StackKnown'
    BY <1>1, <1>2 DEF ParentsFound, StackKnown
  <1>9. CommentsRead'
    BY <1>1, <1>2 DEF CommentsRead, Comments
  <1> QED  BY <1>3, <1>5, <1>6, <1>7, <1>8, <1>9 DEF DiffInv


\* The loop over the groups begins: no group has had its turn.
LEMMA SearchParentsStep ==
    ASSUME DiffInv, SearchParents
    PROVE  DiffInv'
  <1>1. TypeOK /\ RowsFetched /\ AboveChanged /\ ParentsFound /\ CommentsRead
    BY DEF DiffInv
  <1>2. /\ pc = "new" /\ rows = {} /\ todo' = DOMAIN m_mapGroups /\ pc' = "groups"
        /\ UNCHANGED <<db, webdiff_define_files_comments, left, right, rows, m_mapGroups,
                       m_vFileDefineIds, vIds, nComments, m_mapComments>>
    BY DEF SearchParents, result
  <1>3. /\ KnownDb' /\ EntriesFromRows' /\ OneEntryEach' /\ DefinesListed'
        /\ DiffFiles(left, right)' = DiffFiles(left, right)
        /\ DiffFiles(right, left)' = DiffFiles(right, left)
        /\ \A j, s : Marked(j, s)' <=> Marked(j, s)
    BY <1>2, EntriesKept
  <1>4. TypeOK'
    BY <1>1, <1>2 DEF TypeOK
  <1>5. RowsFetched'
    BY <1>1, <1>2, <1>3 DEF RowsFetched, Selecting
  <1>6. AboveChanged'
    <2>1. \A x \in DOMAIN m_mapGroups : \A n \in DOMAIN m_mapGroups[x] :
             m_mapGroups[x][n].state # ""
      BY <1>1, <1>2 DEF AboveChanged, Changed, Selecting
    <2> QED  BY <1>2, <2>1 DEF AboveChanged, Changed
  <1>7. ParentsFound' /\ StackKnown'
    BY <1>1, <1>2 DEF ParentsFound, StackKnown
  <1>8. CommentsRead'
    BY <1>1, <1>2 DEF CommentsRead, Comments
  <1> QED  BY <1>3, <1>4, <1>5, <1>6, <1>7, <1>8 DEF DiffInv

\* The stack starts with the parents of all entries of the group, all of them changed rows.
LEMMA NextGroupStep ==
    ASSUME DiffInv, NextGroup
    PROVE  DiffInv'
  <1>1. TypeOK /\ RowsFetched /\ AboveChanged /\ ParentsFound /\ CommentsRead
    BY DEF DiffInv
  <1>2. /\ pc = "groups" /\ todo # {} /\ vIds' = ParentFilesIds(group) /\ pc' = "parents"
        /\ UNCHANGED <<db, webdiff_define_files_comments, left, right, rows, m_mapGroups,
                       m_vFileDefineIds, todo, nComments, m_mapComments>>
    BY DEF NextGroup, result
  <1>3. /\ KnownDb' /\ EntriesFromRows' /\ OneEntryEach' /\ DefinesListed'
        /\ DiffFiles(left, right)' = DiffFiles(left, right)
        /\ DiffFiles(right, left)' = DiffFiles(right, left)
        /\ \A j, s : Marked(j, s)' <=> Marked(j, s)
        /\ \A x, j : hasFileId(x, j)' <=> hasFileId(x, j)
        /\ \A x, n : Changed(x, n)' <=> Changed(x, n)
    BY <1>2, EntriesKept
  <1>4. PICK g : g = group
    OBVIOUS
  <1>5. g \in todo /\ g \in DOMAIN m_mapGroups /\ group' = g
    BY <1>1, <1>2, <1>4, GroupInTodo DEF TypeOK, ParentsFound, group
  <1> DEFINE q == m_mapGroups[g]
  <1>6. vIds' = [n \in DOMAIN q |-> q[n].parent]
    BY <1>2, <1>4 DEF ParentFilesIds
  <1>7. q \in Seq(DiffFileType)
    BY <1>1, <1>5 DEF TypeOK
  <1>8. vIds' \in Seq(Nat) /\ DOMAIN vIds' = DOMAIN q /\ \A n \in DOMAIN q : vIds'[n] = q[n].parent
    <2>1. Len(q) \in Nat /\ DOMAIN q = 1..Len(q) /\ \A n \in 1..Len(q) : q[n] \in DiffFileType
      BY <1>7
    <2>2. \A n \in 1..Len(q) : q[n].parent \in Nat
      BY <2>1 DEF DiffFileType
    <2>3. vIds' \in [1..Len(q) -> Nat]
      BY <1>6, <2>1, <2>2
    <2> QED  BY <1>6, <2>1, <2>3, IsASeq
  <1>9. \A n \in DOMAIN q : Changed(g, n)
    BY <1>1, <1>2, <1>5 DEF AboveChanged
  <1>10. TypeOK'
    BY <1>1, <1>2, <1>8 DEF TypeOK
  <1>11. RowsFetched'
    BY <1>1, <1>2, <1>3 DEF RowsFetched, Selecting
  <1>12. AboveChanged'
    BY <1>1, <1>2, <1>3, <1>4, <1>5 DEF AboveChanged, Selecting
  <1>13. ParentsFound'
    <2> SUFFICES ASSUME NEW x \in DOMAIN m_mapGroups, NEW n \in DOMAIN m_mapGroups[x],
                        Changed(x, n), m_mapGroups[x][n].parent # 0
                 PROVE  \/ x \in todo /\ x # g
                        \/ hasFileId(x, m_mapGroups[x][n].parent)
                        \/ x = g /\ \E k \in DOMAIN vIds' : vIds'[k] = m_mapGroups[x][n].parent
      BY <1>1, <1>2, <1>3, <1>5 DEF ParentsFound
    <2>1. CASE x = g
      BY <1>8, <2>1
    <2>2. CASE x # g
      BY <1>1, <1>2, <2>2 DEF ParentsFound
    <2> QED  BY <2>1, <2>2
  <1>14. StackKnown'
    BY <1>2, <1>3, <1>5, <1>8, <1>9 DEF StackKnown
  <1>15. CommentsRead'
    BY <1>1, <1>2 DEF CommentsRead, Comments
  <1> QED  BY <1>3, <1>10, <1>11, <1>12, <1>13, <1>14, <1>15 DEF DiffInv

\* The stack is empty, so the group has its parents.
LEMMA GroupDoneStep ==
    ASSUME DiffInv, GroupDone
    PROVE  DiffInv'
  <1>1. TypeOK /\ RowsFetched /\ AboveChanged /\ ParentsFound /\ CommentsRead
    BY DEF DiffInv
  <1>2. /\ pc = "parents" /\ vIds = <<>> /\ todo' = todo \ {group} /\ pc' = "groups"
        /\ UNCHANGED <<db, webdiff_define_files_comments, left, right, rows, m_mapGroups,
                       m_vFileDefineIds, vIds, nComments, m_mapComments>>
    BY DEF GroupDone, result
  <1>3. /\ KnownDb' /\ EntriesFromRows' /\ OneEntryEach' /\ DefinesListed'
        /\ DiffFiles(left, right)' = DiffFiles(left, right)
        /\ DiffFiles(right, left)' = DiffFiles(right, left)
        /\ \A j, s : Marked(j, s)' <=> Marked(j, s)
        /\ \A x, j : hasFileId(x, j)' <=> hasFileId(x, j)
        /\ \A x, n : Changed(x, n)' <=> Changed(x, n)
    BY <1>2, EntriesKept
  <1>4. TypeOK'
    BY <1>1, <1>2 DEF TypeOK
  <1>5. RowsFetched'
    BY <1>1, <1>2, <1>3 DEF RowsFetched, Selecting
  <1>6. AboveChanged'
    BY <1>1, <1>2, <1>3 DEF AboveChanged, Selecting
  <1>7. ParentsFound'
    <2> SUFFICES ASSUME NEW x \in DOMAIN m_mapGroups, NEW n \in DOMAIN m_mapGroups[x],
                        Changed(x, n), m_mapGroups[x][n].parent # 0
                 PROVE  x \in todo' \/ hasFileId(x, m_mapGroups[x][n].parent)
      BY <1>1, <1>2, <1>3 DEF ParentsFound
    <2>1. \/ x \in todo /\ x # group
          \/ hasFileId(x, m_mapGroups[x][n].parent)
          \/ \E k \in DOMAIN vIds : vIds[k] = m_mapGroups[x][n].parent
      BY <1>1, <1>2 DEF ParentsFound
    <2> QED  BY <1>2, <2>1
  <1>8. StackKnown'
    BY <1>2 DEF StackKnown
  <1>9. CommentsRead'
    BY <1>1, <1>2 DEF CommentsRead, Comments
  <1> QED  BY <1>3, <1>4, <1>5, <1>6, <1>7, <1>8, <1>9 DEF DiffInv

\* On to the comments, and from them to the response.
LEMMA AdvanceStep ==
    ASSUME DiffInv, SearchComments \/ CommentsDone
    PROVE  DiffInv'
  <1>1. TypeOK /\ RowsFetched /\ AboveChanged /\ ParentsFound /\ CommentsRead
    BY DEF DiffInv
  <1>2. /\ todo = {}
        /\ \/ pc = "groups" /\ pc' = "comments"
           \/ pc = "comments" /\ nComments = Len(m_vFileDefineIds) /\ pc' = "reply"
        /\ UNCHANGED <<db, webdiff_define_files_comments, left, right, rows, m_mapGroups,
                       m_vFileDefineIds, todo, vIds, nComments, m_mapComments>>
    BY <1>1 DEF SearchComments, CommentsDone, request, result, ParentsFound
  <1>3. /\ KnownDb' /\ EntriesFromRows' /\ OneEntryEach' /\ DefinesListed'
        /\ DiffFiles(left, right)' = DiffFiles(left, right)
        /\ DiffFiles(right, left)' = DiffFiles(right, left)
        /\ \A j, s : Marked(j, s)' <=> Marked(j, s)
        /\ \A x, j : hasFileId(x, j)' <=> hasFileId(x, j)
        /\ \A x, n : Changed(x, n)' <=> Changed(x, n)
    BY <1>2, EntriesKept
  <1>4. TypeOK'
    BY <1>1, <1>2 DEF TypeOK
  <1>5. RowsFetched'
    BY <1>1, <1>2, <1>3 DEF RowsFetched, Selecting
  <1>6. AboveChanged'
    BY <1>1, <1>2, <1>3 DEF AboveChanged, Selecting
  <1>7. ParentsFound' /\ StackKnown'
    BY <1>1, <1>2, <1>3 DEF ParentsFound, StackKnown
  <1>8. CommentsRead'
    <2>1. nComments <= Len(m_vFileDefineIds)
          /\ DOMAIN m_mapComments = {m_vFileDefineIds[k] : k \in 1..nComments}
          /\ \A d \in DOMAIN m_mapComments : m_mapComments[d] = Comments(d)
      BY <1>1 DEF CommentsRead
    <2> QED  BY <1>2, <2>1 DEF CommentsRead, Comments
  <1> QED  BY <1>3, <1>4, <1>5, <1>6, <1>7, <1>8 DEF DiffInv


LEMMA SetCommentsStep ==
    ASSUME DiffInv, SetComments
    PROVE  DiffInv'
  <1>1. TypeOK /\ RowsFetched /\ AboveChanged /\ ParentsFound /\ CommentsRead
    BY DEF DiffInv
  <1>2. /\ pc = "comments" /\ nComments < Len(m_vFileDefineIds) /\ nComments' = nComments + 1
        /\ UNCHANGED <<db, webdiff_define_files_comments, pc, left, right, rows, m_mapGroups,
                       m_vFileDefineIds, todo, vIds>>
    BY DEF SetComments, result
  <1>3. /\ KnownDb' /\ EntriesFromRows' /\ OneEntryEach' /\ DefinesListed'
        /\ DiffFiles(left, right)' = DiffFiles(left, right)
        /\ DiffFiles(right, left)' = DiffFiles(right, left)
        /\ \A j, s : Marked(j, s)' <=> Marked(j, s)
        /\ \A x, j : hasFileId(x, j)' <=> hasFileId(x, j)
        /\ \A x, n : Changed(x, n)' <=> Changed(x, n)
    BY <1>2, EntriesKept
  <1>4. PICK d : d = m_vFileDefineIds[nComments + 1]
    OBVIOUS
  <1>5. m_mapComments' = [x \in DOMAIN m_mapComments \cup {d} |->
                             IF x = d THEN Comments(d) ELSE m_mapComments[x]]
    BY <1>4 DEF SetComments
  <1>6. /\ nComments \in Nat /\ Len(m_vFileDefineIds) \in Nat /\ d \in Nat
        /\ DOMAIN m_mapComments = {m_vFileDefineIds[k] : k \in 1..nComments}
        /\ \A x \in DOMAIN m_mapComments : m_mapComments[x] = Comments(x)
    <2>1. m_vFileDefineIds \in Seq(Nat) /\ nComments \in Nat
      BY <1>1 DEF TypeOK
    <2>2. d \in Nat /\ Len(m_vFileDefineIds) \in Nat
      BY <1>2, <1>4, <2>1
    <2> QED  BY <1>1, <2>1, <2>2 DEF CommentsRead
  <1>7. \A x : Comments(x)' = Comments(x) /\ Comments(x) \subseteq DOMAIN webdiff_define_files_comments
    BY <1>2 DEF Comments
  <1>8. \A x \in DOMAIN m_mapComments' : m_mapComments'[x] = Comments(x)
    BY <1>5, <1>6
  <1>9. DOMAIN m_mapComments' = {m_vFileDefineIds[k] : k \in 1..(nComments + 1)}
    <2>1. \A k : k \in 1..(nComments + 1) <=> k \in 1..nComments \/ k = nComments + 1
      BY <1>6
    <2>2. DOMAIN m_mapComments' = DOMAIN m_mapComments \cup {d}
      BY <1>5
    <2> QED  BY <1>4, <1>6, <2>1, <2>2
  <1>10. CommentsRead'
    <2>1. nComments + 1 <= Len(m_vFileDefineIds)
      BY <1>2, <1>6
    <2> QED  BY <1>2, <1>7, <1>8, <1>9, <2>1 DEF CommentsRead
  <1>11. TypeOK'
    <2>1. DOMAIN m_mapComments' \subseteq Nat /\ nComments' \in Nat
      BY <1>1, <1>2, <1>5, <1>6 DEF TypeOK
    <2>2. \A x \in DOMAIN m_mapComments' :
             m_mapComments'[x] \subseteq DOMAIN webdiff_define_files_comments
      BY <1>7, <1>8
    <2> QED  BY <1>1, <1>2, <2>1, <2>2 DEF TypeOK
  <1>12. RowsFetched'
    BY <1>1, <1>2, <1>3 DEF RowsFetched, Selecting
  <1>13. AboveChanged'
    BY <1>1, <1>2, <1>3 DEF AboveChanged, Selecting, group
  <1>14. ParentsFound' /\ StackKnown'
    BY <1>1, <1>2, <1>3 DEF ParentsFound, StackKnown
  <1> QED  BY <1>3, <1>10, <1>11, <1>12, <1>13, <1>14 DEF DiffInv

\* Between requests nothing has been read, so the comments may change.
LEMMA CommentStep ==
    ASSUME DiffInv, pc = "idle", UNCHANGED <<db, pc, request>>,
           webdiff_define_files_comments' \in Seq(CommentRow)
    PROVE  DiffInv'
  <1>1. TypeOK /\ RowsFetched /\ AboveChanged /\ ParentsFound /\ CommentsRead
    BY DEF DiffInv
  <1>2. UNCHANGED <<db, pc, left, right, rows, m_mapGroups, m_vFileDefineIds, todo, vIds,
                    nComments, m_mapComments>>
    BY DEF request, result
  <1>3. /\ KnownDb' /\ EntriesFromRows' /\ OneEntryEach' /\ DefinesListed'
        /\ \A x, n : Changed(x, n)' <=> Changed(x, n)
    BY <1>2, EntriesKept
  <1>4. nComments = 0 /\ DOMAIN m_mapComments = {m_vFileDefineIds[k] : k \in 1..nComments}
    BY <1>1 DEF CommentsRead
  <1>5. DOMAIN m_mapComments = {}
    BY ONLY <1>4
  <1>6. TypeOK'
    BY <1>1, <1>2, <1>5 DEF TypeOK
  <1>7. RowsFetched'
    BY <1>2 DEF RowsFetched, Selecting
  <1>8. AboveChanged'
    BY <1>1, <1>2, <1>3 DEF AboveChanged, Selecting, group
  <1>9. ParentsFound' /\ StackKnown'
    BY <1>1, <1>2 DEF ParentsFound, StackKnown
  <1>10. CommentsRead'
    <2>1. nComments <= Len(m_vFileDefineIds)
      BY <1>1 DEF CommentsRead
    <2> QED  BY <1>2, <1>4, <1>5, <2>1 DEF CommentsRead
  <1> QED  BY <1>3, <1>6, <1>7, <1>8, <1>9, <1>10 DEF DiffInv

LEMMA AddCommentStep ==
    ASSUME DiffInv, NEW d \in CommentedIds, AddComment(d)
    PROVE  DiffInv'
  <1>1. webdiff_define_files_comments \in Seq(CommentRow)
    BY DEF DiffInv, TypeOK
  <1>2. [define_file_id |-> d, hided |-> FALSE] \in CommentRow
    BY IdsAssumption DEF CommentRow
  <1>3. webdiff_define_files_comments' \in Seq(CommentRow)
    BY <1>1, <1>2, AppendProperties DEF AddComment
  <1> QED  BY <1>3, CommentStep DEF AddComment

LEMMA HideCommentStep ==
    ASSUME DiffInv, NEW c \in DOMAIN webdiff_define_files_comments, HideComment(c)
    PROVE  DiffInv'
  <1> DEFINE w == webdiff_define_files_comments
             x == [w[c] EXCEPT !.hided = TRUE]
  <1>1. w \in Seq(CommentRow)
    BY DEF DiffInv, TypeOK
  <1>2. w' = [w EXCEPT ![c] = x]
    BY DEF HideComment
  <1>3. w[c] \in CommentRow
    BY <1>1, ElementOfSeq
  <1>4. x \in CommentRow
    BY <1>3 DEF CommentRow
  <1> HIDE DEF w, x
  <1>5. c \in 1..Len(w)
    BY <1>1 DEF w
  <1>6. [w EXCEPT ![c] = x] \in Seq(CommentRow)
    BY <1>1, <1>4, <1>5, ExceptSeq
  <1>7. w' \in Seq(CommentRow)
    BY ONLY <1>2, <1>6
  <1> QED  BY <1>7, CommentStep DEF HideComment, w

LEMMA DiffStutter ==
    ASSUME DiffInv, UNCHANGED vars
    PROVE  DiffInv'
  <1>1. TypeOK /\ RowsFetched /\ AboveChanged /\ ParentsFound /\ StackKnown /\ CommentsRead
    BY DEF DiffInv
  <1>2. UNCHANGED <<db, webdiff_define_files_comments, pc, left, right, rows, m_mapGroups,
                    m_vFileDefineIds, todo, vIds, nComments, m_mapComments>>
    BY DEF vars, request, result
  <1>3. /\ KnownDb' /\ EntriesFromRows' /\ OneEntryEach' /\ DefinesListed'
        /\ DiffFiles(left, right)' = DiffFiles(left, right)
        /\ DiffFiles(right, left)' = DiffFiles(right, left)
        /\ \A j, s : Marked(j, s)' <=> Marked(j, s)
        /\ \A j : Unmarked(j)' <=> Unmarked(j)
        /\ \A x, j : hasFileId(x, j)' <=> hasFileId(x, j)
        /\ \A x, n : Changed(x, n)' <=> Changed(x, n)
        /\ group' = group
    BY <1>2, EntriesKept DEF group
  <1>4. TypeOK'
    BY <1>1, <1>2 DEF TypeOK
  <1>5. RowsFetched'
    BY <1>1, <1>2, <1>3 DEF RowsFetched, Selecting
  <1>6. AboveChanged'
    BY <1>1, <1>2, <1>3 DEF AboveChanged
  <1>7. ParentsFound'
    BY <1>1, <1>2, <1>3 DEF ParentsFound
  <1>8. StackKnown'
    <2>1. group' = group /\ vIds' = vIds /\ m_mapGroups' = m_mapGroups /\ pc' = pc /\ StackKnown
      BY <1>1, <1>2, <1>3
    <2> QED  BY ONLY <2>1 DEF StackKnown, Changed, hasFileId
  <1>9. CommentsRead'
    BY <1>1, <1>2 DEF CommentsRead, Comments
  <1> QED  BY <1>3, <1>4, <1>5, <1>6, <1>7, <1>8, <1>9 DEF DiffInv

\* DiffInv holds in every reachable state.
THEOREM DiffInvariant == Spec => []DiffInv
  <1>1. Init => DiffInv
    BY DiffInit
  <1>2. DiffInv /\ [Next]_vars => DiffInv'
    <2> SUFFICES ASSUME DiffInv, [Next]_vars PROVE DiffInv'
      OBVIOUS
    <2>1. CASE FetchRow            BY <2>1, FetchRowStep
    <2>2. CASE SelectNew           BY <2>2, SelectNewStep
    <2>3. CASE SearchParents       BY <2>3, SearchParentsStep
    <2>4. CASE NextGroup           BY <2>4, NextGroupStep
    <2>5. CASE PopParent           BY <2>5, PopParentStep
    <2>6. CASE GroupDone           BY <2>6, GroupDoneStep
    <2>7. CASE SearchComments      BY <2>7, AdvanceStep
    <2>8. CASE SetComments         BY <2>8, SetCommentsStep
    <2>9. CASE CommentsDone        BY <2>9, AdvanceStep
    <2>10. CASE Reply              BY <2>10, ReplyStep
    <2>11. ASSUME NEW l \in VersionIds, NEW r \in VersionIds, SelectMissing(l, r)
           PROVE  DiffInv'
      BY <2>11, SelectMissingStep
    <2>12. ASSUME NEW d \in CommentedIds, AddComment(d)
           PROVE  DiffInv'
      BY <2>12, AddCommentStep
    <2>13. ASSUME NEW c \in DOMAIN webdiff_define_files_comments, HideComment(c)
           PROVE  DiffInv'
      BY <2>13, HideCommentStep
    <2>14. CASE UNCHANGED vars     BY <2>14, DiffStutter
    <2> QED
      BY <2>1, <2>2, <2>3, <2>4, <2>5, <2>6, <2>7, <2>8, <2>9, <2>10, <2>11, <2>12, <2>13,
         <2>14 DEF Next, Step
  <1> QED  BY <1>1, <1>2, PTL DEF Spec


-----------------------------------------------------------------------------
(* What the answer is *)

\* Every variable has the type the classes give it.
THEOREM DiffTypes == Spec => []TypeOK
  <1>1. DiffInv => TypeOK
    BY DEF DiffInv
  <1> QED  BY <1>1, DiffInvariant, PTL

\* ModelDiffGroup::addDiffFile never gets a file twice, nor one of another group: the JSON
\* object keyed by file id loses no entry.
THEOREM FilesOnce == Spec => []EachFileOnce
  <1>1. DiffInv => EachFileOnce
    BY DEF DiffInv, OneEntryEach, EntriesFromRows, FromRow, EachFileOnce
  <1> QED  BY <1>1, DiffInvariant, PTL

\* The parents getDiff searches for are found, and nothing else is added.
THEOREM ParentsDirect == Spec => []DirectParents
  <1>1. DiffInv => DirectParents
    <2> SUFFICES ASSUME DiffInv, pc = "reply", NEW g \in DOMAIN m_mapGroups,
                        NEW e \in Range(m_mapGroups[g])
                 PROVE  /\ e.state # "" /\ e.parent # 0 => hasFileId(g, e.parent)
                        /\ e.state = "" => \E c \in Range(m_mapGroups[g]) :
                                              c.state # "" /\ c.parent = e.id
      BY DEF DirectParents
    <2>1. AboveChanged /\ ParentsFound
      BY DEF DiffInv
    <2>2. PICK n \in DOMAIN m_mapGroups[g] : m_mapGroups[g][n] = e
      BY DEF Range
    <2>3. g \notin todo
      BY <2>1 DEF ParentsFound
    <2>4. ASSUME e.state # "", e.parent # 0 PROVE hasFileId(g, e.parent)
      BY <2>1, <2>2, <2>3, <2>4 DEF ParentsFound, Changed
    <2>5. ASSUME e.state = ""
          PROVE  \E c \in Range(m_mapGroups[g]) : c.state # "" /\ c.parent = e.id
      <3>1. PICK k \in DOMAIN m_mapGroups[g] :
               m_mapGroups[g][k].state # "" /\ m_mapGroups[g][k].parent = m_mapGroups[g][n].id
        BY <2>1, <2>2, <2>5 DEF AboveChanged, Changed
      <3>2. m_mapGroups[g][k] \in Range(m_mapGroups[g])
        BY DEF Range
      <3> QED  BY <2>2, <3>1, <3>2
    <2> QED  BY <2>4, <2>5
  <1> QED  BY <1>1, DiffInvariant, PTL

\* The comments of the answer are those of its files that are not hidden.
THEOREM CommentsAreExact == Spec => []CommentsExact
  <1>1. DiffInv => CommentsExact
    <2> SUFFICES ASSUME DiffInv, pc = "reply" PROVE CommentsExact
      BY DEF CommentsExact
    <2>1. TypeOK /\ DefinesListed /\ CommentsRead
      BY DEF DiffInv
    <2>2. /\ DOMAIN m_mapComments = {m_vFileDefineIds[k] : k \in 1..Len(m_vFileDefineIds)}
          /\ \A d \in DOMAIN m_mapComments : m_mapComments[d] = Comments(d)
      BY <2>1 DEF CommentsRead
    <2>3. DOMAIN m_vFileDefineIds = 1..Len(m_vFileDefineIds)
      BY <2>1, LenProperties DEF TypeOK
    <2>4. \A d : d \in DOMAIN m_mapComments
                 <=> \E g \in DOMAIN m_mapGroups : \E n \in DOMAIN m_mapGroups[g] :
                        m_mapGroups[g][n].define = d
      BY <2>1, <2>2, <2>3 DEF DefinesListed
    <2>5. DOMAIN m_mapComments =
             UNION {{e.define : e \in Range(m_mapGroups[g])} : g \in DOMAIN m_mapGroups}
      <3> DEFINE U == UNION {{e.define : e \in Range(m_mapGroups[g])} : g \in DOMAIN m_mapGroups}
      <3>1. \A d : d \in U <=> \E g \in DOMAIN m_mapGroups : d \in {e.define : e \in Range(m_mapGroups[g])}
        OBVIOUS
      <3>2. \A d, g : d \in {e.define : e \in Range(m_mapGroups[g])}
                       <=> \E n \in DOMAIN m_mapGroups[g] : m_mapGroups[g][n].define = d
        BY DEF Range
      <3> HIDE DEF U
      <3>3. \A d : d \in U <=> d \in DOMAIN m_mapComments
        BY <2>4, <3>1, <3>2
      <3>4. DOMAIN m_mapComments = U
        BY <3>3
      <3> QED  BY <3>4 DEF U
    <2>6. ASSUME NEW d \in DOMAIN m_mapComments,
                 NEW c \in DOMAIN webdiff_define_files_comments
          PROVE  c \in m_mapComments[d] <=>
                    webdiff_define_files_comments[c] = [define_file_id |-> d, hided |-> FALSE]
      <3> DEFINE row == webdiff_define_files_comments[c]
      <3>1. row \in CommentRow
        BY <2>1, ElementOfSeq DEF TypeOK
      <3>2. c \in m_mapComments[d] <=> row.define_file_id = d /\ ~row.hided
        BY <2>2 DEF Comments
      <3> HIDE DEF row
      <3>3. row = [define_file_id |-> row.define_file_id, hided |-> row.hided]
            /\ row.hided \in BOOLEAN
        BY <3>1 DEF CommentRow
      <3>4. row = [define_file_id |-> d, hided |-> FALSE] => row.define_file_id = d /\ ~row.hided
        OBVIOUS
      <3>5. ASSUME row.define_file_id = d, ~row.hided
            PROVE  row = [define_file_id |-> d, hided |-> FALSE]
        <4>1. row.hided = FALSE
          BY <3>3, <3>5
        <4> QED  BY <3>3, <3>5, <4>1
      <3> QED  BY <3>2, <3>4, <3>5 DEF row
    <2> QED  BY <2>5, <2>6 DEF CommentsExact
  <1> QED  BY <1>1, DiffInvariant, PTL


\* The entries with that state are the rows of version l that version r lacks.
StandFor(state, l, r) ==
    /\ \A x, n : In(m_mapGroups, x, n) /\ m_mapGroups[x][n].state = state
                    => m_mapGroups[x][n].id \in DiffFiles(l, r)
    /\ \A i \in DiffFiles(l, r) : Marked(i, state)

\* One side of the comparison: entries with that state stand for the rows of version l that
\* version r lacks, hence for the paths; the positions and the paths are in bijection.
LEMMA SideExact ==
    ASSUME DiffInv, NEW l, NEW r, NEW state, NEW g, StandFor(state, l, r)
    PROVE  /\ PathsInState(g, state) = PathsOf(l, g) \ PathsOf(r, g)
           /\ Cardinality(InState(g, state)) = Cardinality(PathsOf(l, g) \ PathsOf(r, g))
  <1> DEFINE P == PathsOf(l, g) \ PathsOf(r, g)
             I == InState(g, state)
             row(n) == m_mapGroups[g][n].id
             path(i) == db.defines[db.files[i].define_file_id].filepath
  <1>1. TypeOK /\ KnownDb /\ EntriesFromRows /\ OneEntryEach
    BY DEF DiffInv
  <1>2. WellFormed(db)
    BY <1>1, Tables
  <1>3. \A n : n \in I <=> In(m_mapGroups, g, n) /\ m_mapGroups[g][n].state = state
    BY DEF InState, In
  <1>4. \A n \in I : /\ row(n) \in DiffFiles(l, r)
                     /\ row(n) \in DOMAIN db.files /\ db.files[row(n)].file_group_id = g
                     /\ m_mapGroups[g][n].define = db.files[row(n)].define_file_id
    BY <1>1, <1>3 DEF EntriesFromRows, In, FromRow, StandFor
  <1>5. \A m, n \in I : row(m) = row(n) => m = n
    BY <1>1, <1>3 DEF OneEntryEach, In
  <1>6. ASSUME NEW i \in DOMAIN db.files, db.files[i].file_group_id = g, i \in DiffFiles(l, r)
        PROVE  \E n \in I : row(n) = i
    <2>1. PICK x \in DOMAIN m_mapGroups : \E n \in DOMAIN m_mapGroups[x] :
             m_mapGroups[x][n].id = i /\ m_mapGroups[x][n].state = state
      BY <1>6 DEF Marked, StandFor
    <2>2. PICK n \in DOMAIN m_mapGroups[x] :
             m_mapGroups[x][n].id = i /\ m_mapGroups[x][n].state = state
      BY <2>1
    <2>3. FromRow(x, m_mapGroups[x][n])
      BY <1>1 DEF EntriesFromRows
    <2>4. x = g
      BY <1>6, <2>2, <2>3 DEF FromRow
    <2> QED  BY <1>3, <2>2, <2>4 DEF In
  <1>7. PathsInState(g, state) = {path(row(n)) : n \in I}
    BY <1>4 DEF PathsInState
  <1>8. \A v : PathsOf(v, g) = {path(i) : i \in {j \in DOMAIN db.files :
                                   db.files[j].version_id = v /\ db.files[j].file_group_id = g}}
    BY DEF PathsOf
  <1>9. \A i, j \in DOMAIN db.files :
           path(i) = path(j) => db.files[i].define_file_id = db.files[j].define_file_id
    BY <1>2 DEF WellFormed
  <1>10. \A i, j \in DOMAIN db.files :
            /\ db.files[i].version_id = db.files[j].version_id
            /\ db.files[i].file_group_id = db.files[j].file_group_id
            /\ db.files[i].define_file_id = db.files[j].define_file_id
            => i = j
    BY <1>2 DEF WellFormed
  <1>11. \A i : i \in DiffFiles(l, r) <=>
            /\ i \in DOMAIN db.files /\ db.files[i].version_id = l
            /\ ~ \E j \in DOMAIN db.files :
                  /\ db.files[j].version_id = r
                  /\ db.files[j].file_group_id = db.files[i].file_group_id
                  /\ db.files[j].define_file_id = db.files[i].define_file_id
    BY DEF DiffFiles
  <1> HIDE DEF I, row
  <1>12. ASSUME NEW n \in I PROVE path(row(n)) \in P
    <2>1. /\ row(n) \in DOMAIN db.files /\ db.files[row(n)].version_id = l
          /\ db.files[row(n)].file_group_id = g
      BY <1>4, <1>11
    <2>2. path(row(n)) \in PathsOf(l, g)
      BY <1>8, <2>1
    <2>3. ASSUME path(row(n)) \in PathsOf(r, g) PROVE FALSE
      <3>1. PICK j \in DOMAIN db.files : /\ db.files[j].version_id = r
                                         /\ db.files[j].file_group_id = g
                                         /\ path(row(n)) = path(j)
        BY <1>8, <2>3
      <3>2. db.files[j].define_file_id = db.files[row(n)].define_file_id
        BY <1>9, <2>1, <3>1
      <3> QED  BY <1>4, <1>11, <2>1, <3>1, <3>2
    <2> QED  BY <2>2, <2>3
  <1>13. ASSUME NEW p \in P PROVE \E n \in I : path(row(n)) = p
    <2>1. PICK i \in DOMAIN db.files : /\ db.files[i].version_id = l
                                       /\ db.files[i].file_group_id = g
                                       /\ p = path(i)
      BY <1>8
    <2>2. ASSUME NEW j \in DOMAIN db.files, db.files[j].version_id = r,
                 db.files[j].file_group_id = g,
                 db.files[j].define_file_id = db.files[i].define_file_id
          PROVE  FALSE
      <3>1. path(j) \in PathsOf(r, g)
        BY <1>8, <2>2
      <3>2. path(j) = p
        BY <2>1, <2>2
      <3> QED  BY <3>1, <3>2
    <2>3. i \in DiffFiles(l, r)
      BY <1>11, <2>1, <2>2
    <2>4. PICK n \in I : row(n) = i
      BY <1>6, <2>1, <2>3
    <2> QED  BY <2>1, <2>4
  <1>14. \A m, n \in I : path(row(m)) = path(row(n)) => m = n
    <2> SUFFICES ASSUME NEW m \in I, NEW n \in I, path(row(m)) = path(row(n)) PROVE m = n
      OBVIOUS
    <2>1. db.files[row(m)].version_id = l /\ db.files[row(n)].version_id = l
      BY <1>4, <1>11
    <2>2. db.files[row(m)].define_file_id = db.files[row(n)].define_file_id
      BY <1>4, <1>9
    <2>3. row(m) = row(n)
      BY <1>4, <1>10, <2>1, <2>2
    <2> QED  BY <1>5, <2>3
  <1> HIDE DEF P, path
  <1>15. PathsInState(g, state) = P
    BY <1>7, <1>12, <1>13
  <1>16. ExistsBijection(I, P)
    <2> DEFINE f == [n \in I |-> path(row(n))]
    <2>1. f \in [I -> P]
      BY <1>12
    <2>2. \A m, n \in I : f[m] = f[n] => m = n
      BY <1>14
    <2>3. \A p \in P : \E n \in I : f[n] = p
      BY <1>13
    <2> HIDE DEF f
    <2>4. f \in Bijection(I, P)
      BY <2>1, <2>2, <2>3 DEF Bijection, Injection, Surjection, IsInjective
    <2> QED  BY <2>4 DEF ExistsBijection
  <1>17. IsFiniteSet(I)
    <2>1. CASE g \in DOMAIN m_mapGroups
      <3>1. m_mapGroups[g] \in Seq(DiffFileType)
        BY <1>1, <2>1 DEF TypeOK
      <3>2. Len(m_mapGroups[g]) \in Nat /\ DOMAIN m_mapGroups[g] = 1..Len(m_mapGroups[g])
        BY <3>1
      <3>3. IsFiniteSet(DOMAIN m_mapGroups[g])
        BY <3>2, FS_Interval
      <3>4. I \subseteq DOMAIN m_mapGroups[g]
        BY <1>3 DEF In
      <3> QED  BY <3>3, <3>4, FS_Subset
    <2>2. CASE g \notin DOMAIN m_mapGroups
      <3>1. I = {}
        BY <1>3, <2>2 DEF In
      <3> QED  BY <3>1, FS_EmptySet
    <2> QED  BY <2>1, <2>2
  <1>18. Cardinality(I) = Cardinality(P)
    BY <1>16, <1>17, FS_Bijection
  <1> QED  BY <1>15, <1>18 DEF I, P

\* The answer marks exactly the paths in which the versions differ, and its counters count them.
THEOREM DiffIsExact == Spec => []DiffExact
  <1>1. DiffInv => DiffExact
    <2> SUFFICES ASSUME DiffInv, pc = "reply", NEW g \in DOMAIN db.groups
                 PROVE  LET missing == PathsOf(left, g) \ PathsOf(right, g)
                            new     == PathsOf(right, g) \ PathsOf(left, g)
                        IN  /\ PathsInState(g, "missing") = missing
                            /\ PathsInState(g, "new") = new
                            /\ Cardinality(InState(g, "missing")) = Cardinality(missing)
                            /\ Cardinality(InState(g, "new")) = Cardinality(new)
      BY DEF DiffExact
    <2>1. EntriesFromRows /\ RowsFetched
      BY DEF DiffInv
    <2>2. StandFor("missing", left, right)
      BY <2>1 DEF RowsFetched, EntriesFromRows, FromRow, In, StandFor
    <2>3. StandFor("new", right, left)
      BY <2>1 DEF RowsFetched, EntriesFromRows, FromRow, In, StandFor
    <2>4. /\ PathsInState(g, "missing") = PathsOf(left, g) \ PathsOf(right, g)
          /\ Cardinality(InState(g, "missing"))
                = Cardinality(PathsOf(left, g) \ PathsOf(right, g))
      BY <2>2, SideExact
    <2>5. /\ PathsInState(g, "new") = PathsOf(right, g) \ PathsOf(left, g)
          /\ Cardinality(InState(g, "new"))
                = Cardinality(PathsOf(right, g) \ PathsOf(left, g))
      BY <2>3, SideExact
    <2> QED  BY <2>4, <2>5
  <1> QED  BY <1>1, DiffInvariant, PTL
=============================================================================

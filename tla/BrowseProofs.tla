---------------------------- MODULE BrowseProofs ----------------------------
(***************************************************************************)
(* The page of browser.html against the tables, for all uploads, crashes   *)
(* and restarts between its requests and every order in which items are    *)
(* opened and closed.                                                      *)
(***************************************************************************)
EXTENDS Browse, StorageProofs

\* The path of a row, and of the top of a group.
PathOf(p) == IF p = 0 THEN <<>> ELSE webdiff_define_files[webdiff_files[p].define_file_id].filepath

\* The item of a version (g = 0), of a group of it (p = 0) or of a directory.
ItemOf(v, g, p) ==
    [version_id |-> v, group_id |-> g, parent_id |-> p,
     node |-> <<webdiff_versions[v], IF g = 0 THEN "" ELSE webdiff_file_groups[g], PathOf(p)>>]

\* The ids are those of rows that belong together.
AreIds(v, g, p) ==
    /\ v \in DOMAIN webdiff_versions
    /\ IF g = 0 THEN p = 0 ELSE g \in DOMAIN webdiff_file_groups
    /\ p # 0 => /\ p \in DOMAIN webdiff_files
                /\ webdiff_files[p].version_id = v /\ webdiff_files[p].file_group_id = g

\* The ids an item holds still denote what its name says.
ItemTrue(item) ==
    /\ AreIds(item.version_id, item.group_id, item.parent_id)
    /\ item = ItemOf(item.version_id, item.group_id, item.parent_id)

ItemsTrue == \A item \in todo \cup opened : ItemTrue(item)

\* The item whose list a row is in.
ItemAbove(f) == ItemOf(webdiff_files[f].version_id, webdiff_files[f].file_group_id, webdiff_files[f].parent_id)

RowsTrue ==
    \A x \in shown : x.file_id \in DOMAIN webdiff_files /\ Node(webdiff_files[x.file_id]) = x.node

\* The page is a tree: what it has below an item it has while the item is open, and once.
Nested ==
    /\ todo \cap opened = {}
    /\ \A item \in todo \cup opened :
          /\ item.group_id # 0 => ItemOf(item.version_id, 0, 0) \in opened
          /\ item.parent_id # 0 => \E x \in shown : x.file_id = item.parent_id
    /\ \A x \in shown : ItemAbove(x.file_id) \in opened
    /\ \A x, y \in shown : x.file_id = y.file_id => x = y

\* Before it is loaded there is nothing, and then began is what was acknowledged.
BeganTrue ==
    IF began = {NoRequest} THEN todo = {} /\ opened = {} /\ shown = {} /\ listed = {}
    ELSE began \subseteq acked

Of(nodes, v, g) == {n \in nodes : n[1] = v /\ n[2] = g}

Began == UNION {Needs(r) : r \in began}

ListedTrue ==
    \A l \in listed :
        /\ l.amount \in Nat /\ l.amount > 0
        /\ l.amount <= Cardinality(Of(Stored, l.version, l.group))
        /\ l.amount >= Cardinality(Of(Began, l.version, l.group))

\* x is a row without a plus, because of a crash, above the node n.
CutAbove(x, n) ==
    /\ x.cut /\ ~x.plus
    /\ \E k \in 1..(Len(n[3]) - 1) : x.node = [n EXCEPT ![3] = SubSeq(@, 1, k)]

\* What was acknowledged is shown, below an item that is still to be opened, or cut off.
Covered(n) ==
    \/ \E x \in shown : x.node = n
    \/ \E item \in todo : Below(item, n)
    \/ \E x \in shown : CutAbove(x, n)

BeganCovered == began # {NoRequest} => \A n \in Began : Covered(n)

PageInv == ItemsTrue /\ RowsTrue /\ Nested /\ BeganTrue /\ ListedTrue /\ BeganCovered


-----------------------------------------------------------------------------
(* Paths *)

\* The names of p are the first names of q.
IsPrefixOf(p, q) == Len(q) >= Len(p) /\ SubSeq(q, 1, Len(p)) = p

\* The same, name by name.
LEMMA PrefixByName ==
    ASSUME NEW S, NEW p \in Seq(S), NEW q \in Seq(S)
    PROVE  IsPrefixOf(p, q) <=> Len(p) <= Len(q) /\ \A m \in 1..Len(p) : q[m] = p[m]
  <1>1. CASE Len(p) <= Len(q)
    <2>1. /\ SubSeq(q, 1, Len(p)) \in Seq(S) /\ Len(SubSeq(q, 1, Len(p))) = Len(p)
          /\ \A m \in 1..Len(p) : SubSeq(q, 1, Len(p))[m] = q[m]
      BY <1>1, PrefixFacts
    <2>2. SubSeq(q, 1, Len(p)) = p <=> \A m \in 1..Len(p) : q[m] = p[m]
      BY <2>1, SeqEqual
    <2> QED  BY <1>1, <2>2 DEF IsPrefixOf
  <1>2. CASE ~(Len(p) <= Len(q))
    BY <1>2 DEF IsPrefixOf
  <1> QED  BY <1>1, <1>2

LEMMA PrefixTransitive ==
    ASSUME NEW S, NEW p \in Seq(S), NEW q \in Seq(S), NEW r \in Seq(S),
           IsPrefixOf(p, q), IsPrefixOf(q, r)
    PROVE  IsPrefixOf(p, r)
  <1>1. Len(p) \in Nat /\ Len(q) \in Nat /\ Len(r) \in Nat
    OBVIOUS
  <1>2. Len(p) <= Len(q) /\ \A m \in 1..Len(p) : q[m] = p[m]
    BY PrefixByName
  <1>3. Len(q) <= Len(r) /\ \A m \in 1..Len(q) : r[m] = q[m]
    BY PrefixByName
  <1>4. Len(p) <= Len(r) /\ \A m \in 1..Len(p) : r[m] = p[m]
    BY <1>1, <1>2, <1>3
  <1> QED  BY <1>4, PrefixByName

\* A path is a prefix of the one with a name more, and is shorter.
LEMMA PrefixOfAppend ==
    ASSUME NEW S, NEW p \in Seq(S), NEW e \in S
    PROVE  /\ Append(p, e) \in Seq(S) /\ IsPrefixOf(p, Append(p, e)) /\ Append(p, e) # p
           /\ Len(Append(p, e)) = Len(p) + 1
  <1>1. /\ Append(p, e) \in Seq(S) /\ Len(p) \in Nat /\ Len(Append(p, e)) = Len(p) + 1
        /\ \A m \in 1..Len(p) : Append(p, e)[m] = p[m]
    BY AppendFacts
  <1>2. IsPrefixOf(p, Append(p, e))
    <2>1. PICK q \in Seq(S) : q = Append(p, e)
      BY <1>1
    <2>2. Len(p) <= Len(q) /\ \A m \in 1..Len(p) : q[m] = p[m]
      BY <1>1, <2>1
    <2> QED  BY <2>1, <2>2, PrefixByName
  <1>3. Append(p, e) # p
    BY <1>1
  <1> QED  BY <1>1, <1>2, <1>3

\* A prefix that is another path is shorter.
LEMMA PrefixShorter ==
    ASSUME NEW S, NEW p \in Seq(S), NEW q \in Seq(S), IsPrefixOf(p, q), p # q
    PROVE  Len(p) < Len(q)
  <1>1. Len(p) <= Len(q) /\ \A m \in 1..Len(p) : q[m] = p[m]
    BY PrefixByName
  <1>2. Len(p) # Len(q)
    BY <1>1, SeqEqual
  <1> QED  BY <1>1, <1>2

\* A path that is not empty is the path above it and its last name.
LEMMA FrontAndLast ==
    ASSUME NEW S, NEW q \in Seq(S), Len(q) > 0
    PROVE  q = Append(SubSeq(q, 1, Len(q) - 1), q[Len(q)])
  <1>1. Len(q) \in Nat /\ Len(q) - 1 \in Nat /\ Len(q) - 1 <= Len(q) /\ q[Len(q)] \in S
    OBVIOUS
  <1>2. PICK n \in Nat : n = Len(q) - 1
    BY <1>1
  <1>3. /\ SubSeq(q, 1, n) \in Seq(S) /\ Len(SubSeq(q, 1, n)) = n
        /\ \A m \in 1..n : SubSeq(q, 1, n)[m] = q[m]
    BY <1>1, <1>2, PrefixFacts
  <1>4. PICK a \in Seq(S) : a = SubSeq(q, 1, n)
    BY <1>3
  <1>5. PICK e \in S : e = q[Len(q)]
    BY <1>1
  <1>6. /\ Append(a, e) \in Seq(S) /\ Len(Append(a, e)) = Len(a) + 1
        /\ \A m \in 1..Len(a) : Append(a, e)[m] = a[m]
        /\ Append(a, e)[Len(a) + 1] = e
    BY AppendFacts
  <1>7. Len(Append(a, e)) = Len(q) /\ \A m \in 1..Len(q) : Append(a, e)[m] = q[m]
    BY <1>1, <1>2, <1>3, <1>4, <1>5, <1>6
  <1>8. Append(a, e) = q
    BY <1>6, <1>7, SeqEqual
  <1> QED  BY <1>2, <1>4, <1>5, <1>8

\* The empty path is a prefix of every path.
LEMMA EmptyPrefix ==
    ASSUME NEW S, NEW q \in Seq(S), NEW p, p = <<>>
    PROVE  p \in Seq(S) /\ Len(p) = 0 /\ IsPrefixOf(p, q)
  <1>1. p \in Seq(S) /\ Len(p) = 0 /\ Len(q) \in Nat
    OBVIOUS
  <1>2. Len(p) <= Len(q) /\ \A m \in 1..Len(p) : q[m] = p[m]
    BY <1>1
  <1>3. IsPrefixOf(p, q)
    BY ONLY <1>1, <1>2, q \in Seq(S), PrefixByName
  <1> QED  BY <1>1, <1>3

\* The first names of a path are a prefix of it, and so are fewer of more.
LEMMA PrefixOfSubSeq ==
    ASSUME NEW S, NEW q \in Seq(S), NEW n \in Nat, n <= Len(q)
    PROVE  SubSeq(q, 1, n) \in Seq(S) /\ Len(SubSeq(q, 1, n)) = n /\ IsPrefixOf(SubSeq(q, 1, n), q)
  <1>1. /\ SubSeq(q, 1, n) \in Seq(S) /\ Len(SubSeq(q, 1, n)) = n
        /\ \A m \in 1..n : SubSeq(q, 1, n)[m] = q[m]
    BY PrefixFacts
  <1> QED  BY <1>1, PrefixByName


-----------------------------------------------------------------------------
(* Rows and items *)

\* Types of the tables, row by row.
LEMMA RowTypes ==
    ASSUME TreeInv
    PROVE  /\ webdiff_versions \in Seq(Names) /\ webdiff_file_groups \in Seq(Names)
           /\ webdiff_define_files \in Seq(DefineFile) /\ webdiff_files \in Seq(File)
           /\ \A f \in DOMAIN webdiff_files :
                 /\ f \in Nat \ {0} /\ webdiff_files[f] \in File
                 /\ webdiff_files[f].parent_id \in Nat
                 /\ webdiff_files[f].amount_of_children \in Nat
           /\ \A d \in DOMAIN webdiff_define_files :
                 /\ d \in Nat \ {0}
                 /\ webdiff_define_files[d].filepath \in Seq(Names)
                 /\ webdiff_define_files[d].filename \in Names
           /\ \A v \in DOMAIN webdiff_versions : v \in Nat \ {0} /\ webdiff_versions[v] \in Names
           /\ \A g \in DOMAIN webdiff_file_groups : g \in Nat \ {0} /\ webdiff_file_groups[g] \in Names
  <1>1. TablesType
    BY DEF TreeInv, RowsInv, TypeOK
  <1>2. /\ webdiff_versions \in Seq(Names) /\ webdiff_file_groups \in Seq(Names)
        /\ webdiff_define_files \in Seq(DefineFile) /\ webdiff_files \in Seq(File)
    BY <1>1 DEF TablesType
  <1>3. ASSUME NEW S, NEW q \in Seq(S), NEW n \in DOMAIN q
        PROVE  n \in Nat \ {0} /\ q[n] \in S
    BY <1>3
  <1>4. \A f \in DOMAIN webdiff_files : f \in Nat \ {0} /\ webdiff_files[f] \in File
    BY <1>2, <1>3
  <1>5. \A d \in DOMAIN webdiff_define_files : d \in Nat \ {0} /\ webdiff_define_files[d] \in DefineFile
    BY <1>2, <1>3
  <1>6. \A f \in DOMAIN webdiff_files :
           webdiff_files[f].parent_id \in Nat /\ webdiff_files[f].amount_of_children \in Nat
    BY <1>4 DEF File
  <1>7. \A d \in DOMAIN webdiff_define_files :
           webdiff_define_files[d].filepath \in Seq(Names) /\ webdiff_define_files[d].filename \in Names
    BY <1>5 DEF DefineFile, Paths
  <1>8. /\ \A v \in DOMAIN webdiff_versions : v \in Nat \ {0} /\ webdiff_versions[v] \in Names
        /\ \A g \in DOMAIN webdiff_file_groups : g \in Nat \ {0} /\ webdiff_file_groups[g] \in Names
    BY <1>2, <1>3
  <1> QED  BY <1>2, <1>4, <1>5, <1>6, <1>7, <1>8

\* Two rows do not stand for the same node.
LEMMA NodeInjective ==
    ASSUME TreeInv, NEW e \in DOMAIN webdiff_files, NEW f \in DOMAIN webdiff_files,
           Node(webdiff_files[e]) = Node(webdiff_files[f])
    PROVE  e = f
  <1>1. /\ webdiff_files[e].version_id \in DOMAIN webdiff_versions
        /\ webdiff_files[e].file_group_id \in DOMAIN webdiff_file_groups
        /\ webdiff_files[e].define_file_id \in DOMAIN webdiff_define_files
        /\ webdiff_files[f].version_id \in DOMAIN webdiff_versions
        /\ webdiff_files[f].file_group_id \in DOMAIN webdiff_file_groups
        /\ webdiff_files[f].define_file_id \in DOMAIN webdiff_define_files
    BY DEF TreeInv, FilesConsistent
  <1>2. NoDuplicateRows
    BY DEF TreeInv, RowsInv
  <1>3. /\ webdiff_versions[webdiff_files[e].version_id] = webdiff_versions[webdiff_files[f].version_id]
        /\ webdiff_file_groups[webdiff_files[e].file_group_id]
              = webdiff_file_groups[webdiff_files[f].file_group_id]
        /\ webdiff_define_files[webdiff_files[e].define_file_id].filepath
              = webdiff_define_files[webdiff_files[f].define_file_id].filepath
    BY DEF Node
  <1>4. FileKey(webdiff_files[e]) = FileKey(webdiff_files[f])
    BY <1>1, <1>2, <1>3 DEF NoDuplicateRows, FileKey
  <1> QED  BY <1>2, <1>4 DEF NoDuplicateRows

\* A row is in the list of an item whose ids belong together.
LEMMA RowIds ==
    ASSUME TreeInv, NEW f \in DOMAIN webdiff_files
    PROVE  /\ AreIds(webdiff_files[f].version_id, webdiff_files[f].file_group_id, webdiff_files[f].parent_id)
           /\ webdiff_files[f].file_group_id # 0
  <1>1. /\ webdiff_files[f].version_id \in DOMAIN webdiff_versions
        /\ webdiff_files[f].file_group_id \in DOMAIN webdiff_file_groups
        /\ IsParentFile(webdiff_files[f].parent_id, webdiff_files[f])
    BY DEF TreeInv, FilesConsistent
  <1>2. webdiff_files[f].file_group_id # 0
    BY <1>1, RowTypes
  <1>3. webdiff_files[f].parent_id = 0 \/
          /\ webdiff_files[f].parent_id \in DOMAIN webdiff_files
          /\ webdiff_files[webdiff_files[f].parent_id].version_id = webdiff_files[f].version_id
          /\ webdiff_files[webdiff_files[f].parent_id].file_group_id = webdiff_files[f].file_group_id
    BY <1>1 DEF IsParentFile, FileKey
  <1> QED  BY <1>1, <1>2, <1>3 DEF AreIds

\* The path of a row is that of the item above it and the name of its define row.
LEMMA RowPath ==
    ASSUME TreeInv, NEW f \in DOMAIN webdiff_files
    PROVE  LET d == webdiff_define_files[webdiff_files[f].define_file_id] IN
           /\ PathOf(webdiff_files[f].parent_id) \in Seq(Names) /\ d.filename \in Names
           /\ d.filepath = Append(PathOf(webdiff_files[f].parent_id), d.filename)
  <1>1. /\ webdiff_files[f].define_file_id \in DOMAIN webdiff_define_files
        /\ IsParentFile(webdiff_files[f].parent_id, webdiff_files[f])
    BY DEF TreeInv, FilesConsistent
  <1>2. PICK d : d = webdiff_define_files[webdiff_files[f].define_file_id]
    OBVIOUS
  <1>3. PICK p : p = webdiff_files[f].parent_id
    OBVIOUS
  <1>4. /\ Len(d.filepath) > 0 /\ d.filename = d.filepath[Len(d.filepath)]
        /\ IsParentDefine(d.parent_id, d.filepath)
    BY <1>1, <1>2 DEF TreeInv, DefinesConsistent
  <1>5. d.filepath \in Seq(Names) /\ d.filename \in Names
    BY <1>1, <1>2, RowTypes
  <1>6. d.filepath = Append(SubSeq(d.filepath, 1, Len(d.filepath) - 1), d.filename)
    BY <1>4, <1>5, FrontAndLast
  <1>7. CASE Len(d.filepath) = 1
    <2>1. d.parent_id = 0
      BY <1>4, <1>7 DEF IsParentDefine
    <2>2. p = 0
      BY <1>1, <1>2, <1>3, <2>1 DEF IsParentFile
    <2>3. SubSeq(d.filepath, 1, Len(d.filepath) - 1) = <<>>
      BY <1>5, <1>7
    <2> QED  BY <1>2, <1>3, <1>5, <1>6, <2>2, <2>3, SMTT(30) DEF PathOf
  <1>8. CASE Len(d.filepath) # 1
    <2>1. /\ d.parent_id \in DOMAIN webdiff_define_files
          /\ webdiff_define_files[d.parent_id].filepath = SubSeq(d.filepath, 1, Len(d.filepath) - 1)
      BY <1>4, <1>8 DEF IsParentDefine
    <2>2. d.parent_id # 0 /\ webdiff_define_files[d.parent_id].filepath \in Seq(Names)
      BY <2>1, RowTypes
    <2>3. p \in DOMAIN webdiff_files /\ webdiff_files[p].define_file_id = d.parent_id
      BY <1>1, <1>2, <1>3, <2>2 DEF IsParentFile, FileKey
    <2>4. p # 0
      BY <2>3, RowTypes
    <2>5. PathOf(p) = SubSeq(d.filepath, 1, Len(d.filepath) - 1)
      BY <2>1, <2>3, <2>4 DEF PathOf
    <2> QED  BY <1>2, <1>3, <1>5, <1>6, <2>1, <2>2, <2>5
  <1> QED  BY <1>7, <1>8


\* Rows that are kept keep the meaning of ids.
LEMMA ItemKept ==
    ASSUME TreeInv, RowsKept, NEW v, NEW g, NEW p, AreIds(v, g, p)
    PROVE  AreIds(v, g, p)' /\ ItemOf(v, g, p)' = ItemOf(v, g, p)
  <1>1. v \in DOMAIN webdiff_versions' /\ webdiff_versions'[v] = webdiff_versions[v]
    BY DEF AreIds, RowsKept
  <1>2. g # 0 => g \in DOMAIN webdiff_file_groups' /\ webdiff_file_groups'[g] = webdiff_file_groups[g]
    BY DEF AreIds, RowsKept
  <1>3. p # 0 => /\ p \in DOMAIN webdiff_files' /\ webdiff_files[p].define_file_id \in DOMAIN webdiff_define_files
                 /\ webdiff_files'[p].version_id = webdiff_files[p].version_id
                 /\ webdiff_files'[p].file_group_id = webdiff_files[p].file_group_id
                 /\ webdiff_files'[p].define_file_id = webdiff_files[p].define_file_id
    BY DEF AreIds, RowsKept, FileKey, TreeInv, FilesConsistent
  <1>4. PathOf(p)' = PathOf(p)
    BY <1>3 DEF PathOf, RowsKept
  <1>5. AreIds(v, g, p)'
    BY <1>1, <1>2, <1>3 DEF AreIds
  <1> QED  BY <1>1, <1>2, <1>4, <1>5 DEF ItemOf

LEMMA ItemAboveKept ==
    ASSUME TreeInv, RowsKept, NEW f \in DOMAIN webdiff_files
    PROVE  ItemAbove(f)' = ItemAbove(f)
  <1>1. /\ webdiff_files'[f].version_id = webdiff_files[f].version_id
        /\ webdiff_files'[f].file_group_id = webdiff_files[f].file_group_id
        /\ webdiff_files'[f].parent_id = webdiff_files[f].parent_id
    BY DEF RowsKept, FileKey
  <1>2. PICK v, g, p : /\ v = webdiff_files[f].version_id /\ g = webdiff_files[f].file_group_id
                       /\ p = webdiff_files[f].parent_id
    OBVIOUS
  <1>3. ItemOf(v, g, p)' = ItemOf(v, g, p)
    BY <1>2, RowIds, ItemKept
  <1> QED  BY <1>1, <1>2, <1>3 DEF ItemAbove

\* The tables are finite, and so are the nodes.
LEMMA StoredFinite ==
    ASSUME TreeInv
    PROVE  IsFiniteSet(DOMAIN webdiff_files) /\ IsFiniteSet(Stored)
  <1>1. IsFiniteSet(1..Len(webdiff_files)) /\ DOMAIN webdiff_files = 1..Len(webdiff_files)
    BY RowTypes, FS_Interval
  <1>2. PICK S : S = DOMAIN webdiff_files
    OBVIOUS
  <1>3. PICK f : f = [n \in S |-> Node(webdiff_files[n])]
    OBVIOUS
  <1>4. f \in Surjection(S, Stored)
    BY <1>2, <1>3 DEF Stored, Surjection
  <1> QED  BY <1>1, <1>2, <1>4, FS_Surjection

\* More nodes are at least as many.
LEMMA OfMore ==
    ASSUME NEW S, NEW T, S \subseteq T, IsFiniteSet(T), NEW v, NEW g
    PROVE  /\ IsFiniteSet(Of(T, v, g)) /\ IsFiniteSet(Of(S, v, g))
           /\ Cardinality(Of(T, v, g)) \in Nat /\ Cardinality(Of(S, v, g)) \in Nat
           /\ Cardinality(Of(S, v, g)) <= Cardinality(Of(T, v, g))
  <1>1. Of(T, v, g) \subseteq T /\ Of(S, v, g) \subseteq Of(T, v, g)
    BY DEF Of
  <1>2. IsFiniteSet(Of(T, v, g))
    BY <1>1, FS_Subset
  <1> QED  BY <1>1, <1>2, FS_Subset, FS_CardinalityType

\* A step of the server: the page says the same, and it is as true.
LEMMA ServerStep ==
    ASSUME TreeInv, PageInv, Next, UNCHANGED page
    PROVE  PageInv'
  <1>0. RowsKept /\ UNCHANGED <<todo, opened, shown, listed, began>>
    BY RowsKeptStep DEF page
  <1>1. ASSUME NEW item, ItemTrue(item) PROVE ItemTrue(item)'
    <2>1. PICK v, g, p : v = item.version_id /\ g = item.group_id /\ p = item.parent_id
      OBVIOUS
    <2>2. AreIds(v, g, p) /\ item = ItemOf(v, g, p)
      BY <1>1, <2>1 DEF ItemTrue
    <2>3. AreIds(v, g, p)' /\ ItemOf(v, g, p)' = ItemOf(v, g, p)
      BY <1>0, <2>2, ItemKept
    <2> QED  BY <2>1, <2>2, <2>3 DEF ItemTrue
  <1>2. ItemsTrue'
    BY <1>0, <1>1 DEF PageInv, ItemsTrue
  <1>3. RowsTrue'
    BY <1>0, NodeKept DEF PageInv, RowsTrue
  <1>4. Nested'
    <2>1. ASSUME NEW item \in todo \cup opened
          PROVE  ItemOf(item.version_id, 0, 0)' = ItemOf(item.version_id, 0, 0)
      <3>1. PICK v, z : v = item.version_id /\ z = 0
        OBVIOUS
      <3>2. AreIds(v, z, z)
        BY <3>1 DEF AreIds, PageInv, ItemsTrue, ItemTrue
      <3> QED  BY <1>0, <3>1, <3>2, ItemKept
    <2>2. \A x \in shown : ItemAbove(x.file_id)' = ItemAbove(x.file_id)
      BY <1>0, ItemAboveKept DEF PageInv, RowsTrue
    <2> QED  BY <1>0, <2>1, <2>2 DEF PageInv, Nested
  <1>5. BeganTrue'
    <2>1. acked \subseteq acked'
      BY AckedChanges DEF Reply
    <2> QED  BY <1>0, <2>1 DEF PageInv, BeganTrue
  <1>6. ListedTrue'
    <2> SUFFICES ASSUME NEW l \in listed
                 PROVE  /\ l.amount \in Nat /\ l.amount > 0
                        /\ l.amount <= Cardinality(Of(Stored', l.version, l.group))
                        /\ l.amount >= Cardinality(Of(Began, l.version, l.group))
      BY <1>0 DEF ListedTrue, Began, Needs, PathNeeds
    <2>1. /\ l.amount \in Nat /\ l.amount > 0 /\ l.amount >= Cardinality(Of(Began, l.version, l.group))
          /\ l.amount <= Cardinality(Of(Stored, l.version, l.group))
      BY DEF PageInv, ListedTrue
    <2>2. Stored \subseteq Stored' /\ IsFiniteSet(Stored')
      BY StoredGrows, StoredFinite, StoredSame, StoredInserted, FS_AddElement
    <2>3. PICK S, T : S = Stored /\ T = Stored'
      OBVIOUS
    <2>4. PICK v, g : v = l.version /\ g = l.group
      OBVIOUS
    <2>5. /\ Cardinality(Of(T, v, g)) \in Nat /\ Cardinality(Of(S, v, g)) \in Nat
          /\ Cardinality(Of(S, v, g)) <= Cardinality(Of(T, v, g))
      BY <2>2, <2>3, OfMore
    <2> QED  BY <2>1, <2>3, <2>4, <2>5
  <1>7. BeganCovered'
    BY <1>0 DEF PageInv, BeganCovered, Began, Covered, CutAbove, Below, Needs, PathNeeds
  <1> QED  BY <1>2, <1>3, <1>4, <1>5, <1>6, <1>7 DEF PageInv


-----------------------------------------------------------------------------
(* Below *)

\* The parts of the name of an item.
LEMMA ItemNode ==
    ASSUME TreeInv, NEW item, ItemTrue(item)
    PROVE  /\ item.node = <<item.node[1], item.node[2], item.node[3]>>
           /\ item.version_id \in DOMAIN webdiff_versions
           /\ item.node[1] = webdiff_versions[item.version_id]
           /\ item.group_id = 0 => item.parent_id = 0 /\ item.node[2] = "" /\ item.node[3] = <<>>
           /\ item.group_id # 0 => item.node[2] = webdiff_file_groups[item.group_id]
           /\ item.node[3] = PathOf(item.parent_id) /\ item.node[3] \in Seq(Names)
  <1>1. PICK v, g, p : v = item.version_id /\ g = item.group_id /\ p = item.parent_id
    OBVIOUS
  <1>2. AreIds(v, g, p) /\ item = ItemOf(v, g, p)
    BY <1>1 DEF ItemTrue
  <1>3. item.node = <<webdiff_versions[v], IF g = 0 THEN "" ELSE webdiff_file_groups[g], PathOf(p)>>
    BY <1>2 DEF ItemOf
  <1>4. PathOf(p) \in Seq(Names)
    <2>1. CASE p = 0
      BY <2>1 DEF PathOf
    <2>2. CASE p # 0
      <3>1. p \in DOMAIN webdiff_files /\ webdiff_files[p].define_file_id \in DOMAIN webdiff_define_files
        BY <1>2, <2>2 DEF AreIds, TreeInv, FilesConsistent
      <3> QED  BY <2>2, <3>1, RowTypes DEF PathOf
    <2> QED  BY <2>1, <2>2
  <1>5. v \in DOMAIN webdiff_versions /\ (g = 0 => p = 0)
    BY <1>2 DEF AreIds
  <1>6. g = 0 => PathOf(p) = <<>>
    BY <1>5 DEF PathOf
  <1>7. PICK a, b, c : /\ a = webdiff_versions[v] /\ c = PathOf(p)
                       /\ b = IF g = 0 THEN "" ELSE webdiff_file_groups[g]
    OBVIOUS
  <1>8. item.node = <<a, b, c>>
    BY <1>3, <1>7
  <1>9. item.node[1] = a /\ item.node[2] = b /\ item.node[3] = c
    BY ONLY <1>8
  <1> QED  BY <1>1, <1>4, <1>5, <1>6, <1>7, <1>8, <1>9

\* What is below something below an item is below the item.
LEMMA BelowLower ==
    ASSUME NEW item, item.node = <<item.node[1], item.node[2], item.node[3]>>, item.node[3] \in Seq(Names),
           NEW a, a = <<a[1], a[2], a[3]>>, a[3] \in Seq(Names),
           NEW b, b[3] \in Seq(Names), b[1] = a[1], b[2] = a[2], IsPrefixOf(a[3], b[3]),
           Below(item, a)
    PROVE  Below(item, b)
  <1>1. a[1] = item.node[1]
    BY DEF Below
  <1>2. CASE item.group_id # 0
    <2>1. a # item.node /\ a[2] = item.node[2] /\ IsPrefixOf(item.node[3], a[3])
      BY <1>2 DEF Below, IsPrefixOf
    <2>2. PICK p \in Seq(Names) : p = item.node[3]
      OBVIOUS
    <2>3. PICK q \in Seq(Names) : q = a[3]
      OBVIOUS
    <2>4. PICK r \in Seq(Names) : r = b[3]
      OBVIOUS
    <2>5. p # q /\ IsPrefixOf(p, q) /\ IsPrefixOf(q, r)
      BY <1>1, <2>1, <2>2, <2>3, <2>4
    <2>6. IsPrefixOf(p, r)
      BY <2>5, PrefixTransitive
    <2>7. Len(p) < Len(q) /\ Len(q) <= Len(r)
      BY <2>5, PrefixShorter DEF IsPrefixOf
    <2>8. p # r
      BY <2>7
    <2> QED  BY <1>1, <2>1, <2>2, <2>4, <2>6, <2>8 DEF Below, IsPrefixOf
  <1>3. CASE item.group_id = 0
    BY <1>1, <1>3 DEF Below
  <1> QED  BY <1>2, <1>3

\* The name of a row: that of the item above it and one name more.
LEMMA RowNode ==
    ASSUME TreeInv, NEW f \in DOMAIN webdiff_files, NEW up, up = ItemAbove(f)
    PROVE  LET n == Node(webdiff_files[f])
               e == webdiff_define_files[webdiff_files[f].define_file_id].filename IN
           /\ ItemTrue(up) /\ up.group_id # 0
           /\ n = <<n[1], n[2], n[3]>> /\ n[1] = up.node[1] /\ n[2] = up.node[2]
           /\ n[3] = Append(up.node[3], e) /\ e \in Names
           /\ n[3] \in Seq(Names) /\ IsPrefixOf(up.node[3], n[3]) /\ n[3] # up.node[3]
  <1>1. PICK v, g, p : /\ v = webdiff_files[f].version_id /\ g = webdiff_files[f].file_group_id
                       /\ p = webdiff_files[f].parent_id
    OBVIOUS
  <1>2. AreIds(v, g, p) /\ g # 0
    BY <1>1, RowIds
  <1>3. up = ItemOf(v, g, p)
    BY <1>1 DEF ItemAbove
  <1>4. /\ up.version_id = v /\ up.group_id = g /\ up.parent_id = p
        /\ up.node = <<webdiff_versions[v], webdiff_file_groups[g], PathOf(p)>>
    BY <1>2, <1>3 DEF ItemOf
  <1>5. ItemTrue(up)
    BY <1>2, <1>3, <1>4 DEF ItemTrue
  <1>6. PICK d : d = webdiff_define_files[webdiff_files[f].define_file_id]
    OBVIOUS
  <1>7. /\ PathOf(p) \in Seq(Names) /\ d.filename \in Names
        /\ d.filepath = Append(PathOf(p), d.filename)
    BY <1>1, <1>6, RowPath
  <1>8. Node(webdiff_files[f]) = <<webdiff_versions[v], webdiff_file_groups[g], d.filepath>>
    BY <1>1, <1>6 DEF Node
  <1>9. PICK q \in Seq(Names), e \in Names : q = PathOf(p) /\ e = d.filename
    BY <1>7
  <1>10. /\ Append(q, e) \in Seq(Names) /\ IsPrefixOf(q, Append(q, e)) /\ Append(q, e) # q
    BY PrefixOfAppend
  <1> QED  BY <1>2, <1>4, <1>5, <1>6, <1>7, <1>8, <1>9, <1>10

\* A row is below the item above it, and below what that is below.
LEMMA RowBelow ==
    ASSUME TreeInv, NEW f \in DOMAIN webdiff_files, NEW item, ItemTrue(item),
           item = ItemAbove(f) \/ Below(item, ItemAbove(f).node)
    PROVE  Below(item, Node(webdiff_files[f]))
  <1>1. PICK up : up = ItemAbove(f)
    OBVIOUS
  <1>2. PICK n : n = Node(webdiff_files[f])
    OBVIOUS
  <1>3. /\ ItemTrue(up) /\ n[1] = up.node[1] /\ n[2] = up.node[2] /\ n[3] \in Seq(Names)
        /\ IsPrefixOf(up.node[3], n[3]) /\ n[3] # up.node[3]
    BY <1>1, <1>2, RowNode
  <1>4. CASE item = up
    BY <1>2, <1>3, <1>4 DEF Below, IsPrefixOf
  <1>5. CASE Below(item, up.node)
    <2>1. PICK a : a = up.node
      OBVIOUS
    <2>2. a = <<a[1], a[2], a[3]>> /\ a[3] \in Seq(Names)
      BY <1>3, <2>1, ItemNode
    <2>3. item.node = <<item.node[1], item.node[2], item.node[3]>> /\ item.node[3] \in Seq(Names)
      BY ItemNode
    <2>4. Below(item, n)
      BY <1>3, <1>5, <2>1, <2>2, <2>3, BelowLower
    <2> QED  BY <1>2, <2>4
  <1> QED  BY <1>1, <1>4, <1>5

\* A version is below no other item.
LEMMA VersionNotBelow ==
    ASSUME TreeInv, NEW v \in DOMAIN webdiff_versions, NEW item, ItemTrue(item),
           NEW top, top = ItemOf(v, 0, 0), Below(item, top.node)
    PROVE  item = top
  <1>1. top.node = <<webdiff_versions[v], "", <<>>>>
    BY DEF ItemOf, PathOf
  <1> DEFINE n == top.node
  <1>0. n[1] = webdiff_versions[v] /\ n[2] = "" /\ n[3] = <<>>
    <2>1. PICK a, b, c : a = webdiff_versions[v] /\ b = "" /\ c = <<>>
      OBVIOUS
    <2>2. n = <<a, b, c>>
      BY <1>1, <2>1
    <2> HIDE DEF n
    <2>3. n[1] = a /\ n[2] = b /\ n[3] = c
      BY ONLY <2>2
    <2> QED  BY <2>1, <2>3
  <1>6. /\ n[1] = item.node[1]
        /\ item.group_id # 0 => n # item.node /\ n[2] = item.node[2] /\ Len(n[3]) >= Len(item.node[3])
    BY DEF Below
  <1> HIDE DEF n
  <1>2. /\ item.node = <<item.node[1], item.node[2], item.node[3]>>
        /\ item.version_id \in DOMAIN webdiff_versions
        /\ item.node[1] = webdiff_versions[item.version_id]
        /\ item.node[3] \in Seq(Names)
    BY ItemNode
  <1>3. item.version_id = v
    BY <1>0, <1>2, <1>6 DEF TreeInv, RowsInv, NoDuplicateRows
  <1>4. CASE item.group_id = 0
    <2>1. item.parent_id = 0
      BY <1>4, ItemNode
    <2> QED  BY <1>3, <1>4, <2>1 DEF ItemTrue
  <1>5. CASE item.group_id # 0
    <2>1. item.node # n /\ item.node[2] = "" /\ item.node[1] = webdiff_versions[v]
      BY <1>0, <1>5, <1>6
    <2>2. Len(n[3]) = 0 /\ Len(n[3]) >= Len(item.node[3])
      BY <1>0, <1>5, <1>6
    <2>3. item.node[3] = <<>>
      BY <1>2, <2>2
    <2> QED  BY <1>1, <1>2, <2>1, <2>3 DEF n
  <1> QED  BY <1>4, <1>5


-----------------------------------------------------------------------------
(* The steps of the page *)

\* The page does not change the tables.
LEMMA TablesSame ==
    ASSUME UNCHANGED vars
    PROVE  /\ \A item : ItemTrue(item)' <=> ItemTrue(item)
           /\ \A v, g, p : ItemOf(v, g, p)' = ItemOf(v, g, p)
           /\ \A v : ItemOf(v, 0, 0)' = ItemOf(v, 0, 0)
           /\ \A f : ItemAbove(f)' = ItemAbove(f)
           /\ \A f : Node(webdiff_files[f])' = Node(webdiff_files[f])
           /\ webdiff_files' = webdiff_files /\ acked' = acked
           /\ Stored' = Stored
  <1>1. /\ webdiff_files' = webdiff_files /\ webdiff_define_files' = webdiff_define_files
        /\ webdiff_versions' = webdiff_versions /\ webdiff_file_groups' = webdiff_file_groups
        /\ acked' = acked
    BY DEF vars, tables, history
  <1>2. \A v, g, p : ItemOf(v, g, p)' = ItemOf(v, g, p)
    BY <1>1 DEF ItemOf, PathOf
  <1>3. \A v, g, p : AreIds(v, g, p)' <=> AreIds(v, g, p)
    BY <1>1 DEF AreIds
  <1>4. \A f : Node(webdiff_files[f])' = Node(webdiff_files[f])
    BY <1>1 DEF Node
  <1>5. \A v : ItemOf(v, 0, 0)' = ItemOf(v, 0, 0)
    BY <1>1 DEF ItemOf, PathOf
  <1> QED  BY <1>1, <1>2, <1>3, <1>4, <1>5 DEF ItemTrue, ItemAbove, Stored

\* The item is closed: what is kept is what is not below it.
LEMMA CollapseNested ==
    ASSUME TreeInv, PageInv, NEW item \in opened, Collapse(item)
    PROVE  ItemsTrue' /\ RowsTrue' /\ Nested'
  <1> DEFINE Kept(items) == {x \in items : ~Below(item, x.node)}
  <1>0. /\ opened' = Kept(opened \ {item}) /\ todo' = Kept(todo) \cup {item} /\ shown' = Kept(shown)
        /\ UNCHANGED vars
    BY DEF Collapse
  <1>1. ItemsTrue /\ RowsTrue /\ Nested
    BY DEF PageInv
  <1>2. ItemTrue(item)
    BY <1>1 DEF ItemsTrue
  <1>3. ItemsTrue'
    BY <1>0, <1>1, TablesSame DEF ItemsTrue
  <1>4. RowsTrue'
    BY <1>0, <1>1, TablesSame DEF RowsTrue
  <1>5. todo' \cap opened' = {}
    BY <1>0, <1>1 DEF Nested
  <1>6. ASSUME NEW x \in todo' \cup opened'
        PROVE  /\ x.group_id # 0 => ItemOf(x.version_id, 0, 0) \in opened'
               /\ x.parent_id # 0 => \E y \in shown' : y.file_id = x.parent_id
    <2>1. x \in todo \cup opened /\ (x = item \/ ~Below(item, x.node)) /\ ItemTrue(x)
      BY <1>0, <1>1, <1>6 DEF ItemsTrue
    <2>2. ASSUME x.group_id # 0 PROVE ItemOf(x.version_id, 0, 0) \in opened'
      <3>1. PICK top : top = ItemOf(x.version_id, 0, 0)
        OBVIOUS
      <3>2. top \in opened /\ top.group_id = 0 /\ top.node[1] = webdiff_versions[x.version_id]
        BY <1>1, <2>1, <2>2, <3>1 DEF Nested, ItemOf
      <3>3. x.node[1] = webdiff_versions[x.version_id] /\ x.version_id \in DOMAIN webdiff_versions
        BY <2>1, ItemNode
      <3>4. top # item
        <4> SUFFICES ASSUME top = item PROVE FALSE
          OBVIOUS
        <4>1. Below(item, x.node)
          BY <3>2, <3>3 DEF Below
        <4> QED  BY <2>1, <2>2, <3>2, <4>1
      <3>5. ~Below(item, top.node)
        BY <1>2, <3>1, <3>3, <3>4, VersionNotBelow
      <3> QED  BY <1>0, <3>1, <3>2, <3>4, <3>5
    <2>3. ASSUME x.parent_id # 0 PROVE \E y \in shown' : y.file_id = x.parent_id
      <3>1. PICK y \in shown : y.file_id = x.parent_id
        BY <1>1, <2>1, <2>3 DEF Nested
      <3>2. y.node = x.node
        <4>1. y.node = Node(webdiff_files[x.parent_id])
          BY <1>1, <3>1 DEF RowsTrue
        <4>2. PICK v, g, p : v = x.version_id /\ g = x.group_id /\ p = x.parent_id
          OBVIOUS
        <4>3. AreIds(v, g, p) /\ x = ItemOf(v, g, p)
          BY <2>1, <4>2 DEF ItemTrue
        <4>4. g # 0 /\ webdiff_files[p].version_id = v /\ webdiff_files[p].file_group_id = g
          BY <2>3, <4>2, <4>3 DEF AreIds
        <4>5. x.node = <<webdiff_versions[v], webdiff_file_groups[g], PathOf(p)>>
          BY <4>3, <4>4 DEF ItemOf
        <4> QED  BY <2>3, <4>1, <4>2, <4>4, <4>5 DEF Node, PathOf
      <3>3. ~Below(item, x.node)
        <4>1. x.group_id # 0
          BY <2>1, <2>3, ItemNode
        <4> QED  BY <2>1, <4>1 DEF Below
      <3> QED  BY <1>0, <3>1, <3>2, <3>3
    <2> QED  BY <2>2, <2>3
  <1>7. ASSUME NEW x \in shown' PROVE ItemAbove(x.file_id) \in opened'
    <2>1. /\ x \in shown /\ ~Below(item, x.node) /\ x.file_id \in DOMAIN webdiff_files
          /\ x.node = Node(webdiff_files[x.file_id])
      BY <1>0, <1>1, <1>7 DEF RowsTrue
    <2>2. ItemAbove(x.file_id) \in opened
      BY <1>1, <2>1 DEF Nested
    <2>3. ItemAbove(x.file_id) # item /\ ~Below(item, ItemAbove(x.file_id).node)
      BY <1>2, <2>1, RowBelow
    <2> QED  BY <1>0, <2>2, <2>3
  <1>8. \A x, y \in shown' : x.file_id = y.file_id => x = y
    BY <1>0, <1>1 DEF Nested
  <1> HIDE DEF Kept
  <1>9. Nested'
    <2>1. \A x \in todo' \cup opened' : ItemOf(x.version_id, 0, 0)' = ItemOf(x.version_id, 0, 0)
      BY <1>0, TablesSame
    <2>2. \A x \in shown' : ItemAbove(x.file_id)' = ItemAbove(x.file_id)
      BY <1>0, TablesSame
    <2> QED  BY ONLY <1>5, <1>6, <1>7, <1>8, <2>1, <2>2 DEF Nested
  <1> QED  BY <1>3, <1>4, <1>9


\* Names of three parts.
LEMMA Third ==
    ASSUME NEW a, NEW b, NEW c, NEW e, NEW n, n = <<a, b, c>>
    PROVE  n[1] = a /\ n[2] = b /\ n[3] = c /\ [n EXCEPT ![3] = e] = <<a, b, e>>
  OBVIOUS

LEMMA Second ==
    ASSUME NEW a, NEW b, NEW c, NEW e, NEW n, n = <<a, b, c>>
    PROVE  [n EXCEPT ![2] = e] = <<a, e, c>>
  OBVIOUS

\* A node an upload asks for: it has a path, and the nodes above it are asked for too.
LEMMA NeededNode ==
    ASSUME NEW r \in Requests, NEW n \in Needs(r)
    PROVE  /\ n = <<n[1], n[2], n[3]>> /\ n[3] \in Seq(Names) /\ Len(n[3]) > 0
           /\ \A k \in 1..Len(n[3]) : <<n[1], n[2], SubSeq(n[3], 1, k)>> \in Needs(r)
  <1>1. PICK i \in DOMAIN r.files : r.files[i] # Malformed /\ n \in PathNeeds(r, r.files[i])
    BY DEF Needs
  <1>2. r.files[i] \in RawPaths
    <2>1. r.files \in Seq(RawPaths \cup {Malformed})
      BY RequestsAssumption
    <2> QED  BY <1>1, <2>1
  <1>3. PICK q \in Seq(Names) : q = Segments(r.files[i])
    BY <1>2, SegmentsAssumption
  <1>4. PICK m \in 1..Len(q) : n = <<r.version, r.group, SubSeq(q, 1, m)>>
    BY <1>1, <1>3 DEF PathNeeds
  <1>5. m \in Nat /\ m <= Len(q) /\ m > 0 /\ Len(q) \in Nat
    OBVIOUS
  <1>6. PICK c \in Seq(Names) : /\ c = SubSeq(q, 1, m) /\ Len(c) = m
                                /\ \A j \in 1..m : c[j] = q[j]
    <2>1. /\ SubSeq(q, 1, m) \in Seq(Names) /\ Len(SubSeq(q, 1, m)) = m
          /\ \A j \in 1..m : SubSeq(q, 1, m)[j] = q[j]
      BY <1>5, PrefixFacts
    <2> QED  BY <2>1
  <1>7. PICK v, g : v = r.version /\ g = r.group
    OBVIOUS
  <1>8. n = <<v, g, c>>
    BY <1>4, <1>6, <1>7
  <1>9. n[1] = v /\ n[2] = g /\ n[3] = c
    BY ONLY <1>8
  <1>10. ASSUME NEW k \in 1..m PROVE <<v, g, SubSeq(c, 1, k)>> \in Needs(r)
    <2>1. k \in Nat /\ k <= Len(c) /\ k <= Len(q) /\ k \in 1..Len(q)
      BY <1>5, <1>6
    <2>2. /\ SubSeq(c, 1, k) \in Seq(Names) /\ Len(SubSeq(c, 1, k)) = k
          /\ \A j \in 1..k : SubSeq(c, 1, k)[j] = c[j]
      BY <2>1, PrefixFacts
    <2>3. /\ SubSeq(q, 1, k) \in Seq(Names) /\ Len(SubSeq(q, 1, k)) = k
          /\ \A j \in 1..k : SubSeq(q, 1, k)[j] = q[j]
      BY <2>1, PrefixFacts
    <2>4. \A j \in 1..k : SubSeq(c, 1, k)[j] = SubSeq(q, 1, k)[j]
      BY <1>5, <1>6, <2>1, <2>2, <2>3
    <2>5. SubSeq(c, 1, k) = SubSeq(q, 1, k)
      BY <2>2, <2>3, <2>4, SeqEqual
    <2>6. <<v, g, SubSeq(c, 1, k)>> \in PathNeeds(r, r.files[i])
      BY <1>3, <1>7, <2>1, <2>5 DEF PathNeeds
    <2> QED  BY <1>1, <2>6 DEF Needs
  <1> QED  BY <1>5, <1>6, <1>8, <1>9, <1>10

\* The node a cut row stands for is above the node it cuts off.
LEMMA CutPrefix ==
    ASSUME NEW x, NEW n, n = <<n[1], n[2], n[3]>>, n[3] \in Seq(Names), CutAbove(x, n)
    PROVE  /\ x.node = <<x.node[1], x.node[2], x.node[3]>> /\ x.node[3] \in Seq(Names)
           /\ n[1] = x.node[1] /\ n[2] = x.node[2] /\ IsPrefixOf(x.node[3], n[3])
  <1>1. PICK k \in 1..(Len(n[3]) - 1) : x.node = [n EXCEPT ![3] = SubSeq(n[3], 1, k)]
    BY DEF CutAbove
  <1>2. PICK a, b, c : a = n[1] /\ b = n[2] /\ c = n[3]
    OBVIOUS
  <1>3. PICK e : e = SubSeq(c, 1, k)
    OBVIOUS
  <1>4. n = <<a, b, c>>
    BY <1>2
  <1>5. [n EXCEPT ![3] = e] = <<a, b, e>>
    BY ONLY <1>4, Third
  <1>6. x.node = <<a, b, e>>
    BY <1>1, <1>2, <1>3, <1>5
  <1>7. x.node[1] = a /\ x.node[2] = b /\ x.node[3] = e
    BY ONLY <1>6
  <1>8. c \in Seq(Names) /\ k \in Nat /\ k <= Len(c)
    BY <1>2
  <1>9. e \in Seq(Names) /\ IsPrefixOf(e, c)
    BY <1>3, <1>8, PrefixOfSubSeq
  <1> QED  BY <1>2, <1>6, <1>7, <1>9

\* The nodes of the acknowledged uploads are stored.
LEMMA BeganStored ==
    ASSUME AckInv, PageInv, began # {NoRequest}
    PROVE  /\ \A r \in began : r \in Requests /\ Needs(r) \subseteq Stored
           /\ Began \subseteq Stored
  <1>1. began \subseteq acked
    BY DEF PageInv, BeganTrue
  <1>2. acked \subseteq Requests
    BY DEF AckInv, TreeInv, RowsInv, TypeOK, HistoryType
  <1>3. \A r \in began : r \in Requests /\ Needs(r) \subseteq Stored
    BY <1>1, <1>2 DEF AckInv, AckedStored
  <1> QED  BY <1>3 DEF Began

LEMMA CollapseCovered ==
    ASSUME AckInv, PageInv, NEW item \in opened, Collapse(item)
    PROVE  BeganTrue' /\ ListedTrue' /\ BeganCovered'
  <1> DEFINE Kept(items) == {x \in items : ~Below(item, x.node)}
  <1>0. /\ opened' = Kept(opened \ {item}) /\ todo' = Kept(todo) \cup {item} /\ shown' = Kept(shown)
        /\ listed' \subseteq listed /\ began' = began /\ UNCHANGED vars
    BY DEF Collapse
  <1>1. ItemsTrue /\ RowsTrue /\ Nested /\ BeganTrue /\ ListedTrue /\ BeganCovered /\ TreeInv
    BY DEF PageInv, AckInv
  <1>2. ItemTrue(item) /\ began # {NoRequest}
    BY <1>1 DEF ItemsTrue, BeganTrue
  <1>3. BeganTrue'
    BY <1>0, <1>1, <1>2, TablesSame DEF BeganTrue
  <1>4. ListedTrue'
    <2>1. Stored' = Stored /\ Began' = Began
      BY <1>0, TablesSame DEF Began, Needs, PathNeeds
    <2> QED  BY <1>0, <1>1, <2>1 DEF ListedTrue
  <1>5. ASSUME NEW r \in began, NEW n \in Needs(r)
        PROVE  \/ \E x \in shown' : x.node = n
               \/ \E i \in todo' : Below(i, n)
               \/ \E x \in shown' : CutAbove(x, n)
    <2>1. n = <<n[1], n[2], n[3]>> /\ n[3] \in Seq(Names)
      BY <1>2, BeganStored, NeededNode
    <2>2. item.node = <<item.node[1], item.node[2], item.node[3]>> /\ item.node[3] \in Seq(Names)
      BY <1>1, <1>2, ItemNode
    <2>3. CASE Below(item, n)
      BY <1>0, <2>3
    <2>4. CASE ~Below(item, n)
      <3>1. \/ \E x \in shown : x.node = n
            \/ \E i \in todo : Below(i, n)
            \/ \E x \in shown : CutAbove(x, n)
        BY <1>1, <1>2 DEF BeganCovered, Began, Covered
      <3>2. ASSUME NEW x \in shown, x.node = n PROVE x \in shown'
        BY <1>0, <2>4, <3>2
      <3>3. ASSUME NEW i \in todo, Below(i, n) PROVE i \in todo'
        <4>1. ItemTrue(i) /\ i # item
          BY <1>1 DEF ItemsTrue, Nested
        <4>2. PICK a : a = i.node
          OBVIOUS
        <4>3. a = <<a[1], a[2], a[3]>> /\ a[3] \in Seq(Names)
          BY <1>1, <4>1, <4>2, ItemNode
        <4>4. CASE i.group_id # 0
          <5>1. n[1] = a[1] /\ n[2] = a[2] /\ IsPrefixOf(a[3], n[3])
            BY <3>3, <4>2, <4>4 DEF Below, IsPrefixOf
          <5>2. ~Below(item, a)
            BY <2>1, <2>2, <2>4, <4>3, <5>1, BelowLower
          <5> QED  BY <1>0, <4>2, <5>2
        <4>5. CASE i.group_id = 0
          <5>1. i.version_id \in DOMAIN webdiff_versions /\ i.parent_id = 0
            BY <1>1, <4>1, <4>5, ItemNode
          <5>2. i = ItemOf(i.version_id, 0, 0)
            BY <4>1, <4>5, <5>1 DEF ItemTrue
          <5>3. ~Below(item, i.node)
            BY <1>1, <1>2, <4>1, <5>1, <5>2, VersionNotBelow
          <5> QED  BY <1>0, <5>3
        <4> QED  BY <4>4, <4>5
      <3>4. ASSUME NEW x \in shown, CutAbove(x, n) PROVE x \in shown'
        <4>1. PICK a : a = x.node
          OBVIOUS
        <4>2. /\ a = <<a[1], a[2], a[3]>> /\ a[3] \in Seq(Names)
              /\ n[1] = a[1] /\ n[2] = a[2] /\ IsPrefixOf(a[3], n[3])
          BY <2>1, <3>4, <4>1, CutPrefix
        <4>3. ~Below(item, a)
          BY <2>1, <2>2, <2>4, <4>2, BelowLower
        <4> QED  BY <1>0, <4>1, <4>3
      <3> QED  BY <3>1, <3>2, <3>3, <3>4
    <2> QED  BY <2>3, <2>4
  <1>6. BeganCovered'
    <2>1. \A n \in Began : Covered(n)'
      BY <1>5 DEF Began, Covered
    <2>2. Began' = Began
      BY <1>0 DEF Began
    <2> QED  BY <2>1, <2>2 DEF BeganCovered
  <1> QED  BY <1>3, <1>4, <1>6


\* The item of a version.
LEMMA TopItem ==
    ASSUME TreeInv, NEW v \in DOMAIN webdiff_versions, NEW top, top = ItemOf(v, 0, 0)
    PROVE  /\ ItemTrue(top) /\ top.version_id = v /\ top.group_id = 0 /\ top.parent_id = 0
           /\ top.node[1] = webdiff_versions[v]
  <1>1. top.version_id = v /\ top.group_id = 0 /\ top.parent_id = 0
    BY DEF ItemOf
  <1>2. AreIds(v, 0, 0)
    BY DEF AreIds
  <1>3. ItemTrue(top)
    BY <1>1, <1>2 DEF ItemTrue
  <1>4. top.node[1] = webdiff_versions[v]
    BY <1>1, <1>3, ItemNode
  <1> QED  BY <1>1, <1>3, <1>4

\* The page is loaded with the versions of the cache, which are those of the table.
LEMMA LoadStep ==
    ASSUME AckInv, PageInv, Load
    PROVE  PageInv'
  <1>0. /\ pc = "idle" /\ began = {NoRequest} /\ began' = acked
        /\ todo' = {[version_id |-> v.id, group_id |-> 0, parent_id |-> 0,
                     node |-> <<v.name, "", <<>>>>] : v \in m_vVersions}
        /\ UNCHANGED <<opened, shown, listed>> /\ UNCHANGED vars
    BY DEF Load, getVersionsAll
  <1>1. TreeInv /\ AckedStored /\ opened = {} /\ shown = {} /\ listed = {}
    BY <1>0 DEF AckInv, PageInv, BeganTrue
  <1>2. m_vVersions = {[id |-> i, name |-> webdiff_versions[i]] : i \in DOMAIN webdiff_versions}
    BY <1>0, <1>1 DEF TreeInv, RowsInv, CacheMirrorsTables
  <1>3. todo' = {ItemOf(v, 0, 0) : v \in DOMAIN webdiff_versions}
    <2> DEFINE Top(i, name) == [version_id |-> i, group_id |-> 0, parent_id |-> 0,
                                node |-> <<name, "", <<>>>>]
    <2>0. todo' = {Top(v.id, v.name) : v \in m_vVersions}
      BY <1>0
    <2>1. \A v \in DOMAIN webdiff_versions : Top(v, webdiff_versions[v]) = ItemOf(v, 0, 0)
      BY DEF ItemOf, PathOf
    <2> HIDE DEF Top
    <2>2. todo' = {Top(v, webdiff_versions[v]) : v \in DOMAIN webdiff_versions}
      <3>1. \A v \in m_vVersions : v.id \in DOMAIN webdiff_versions /\ v.name = webdiff_versions[v.id]
        BY <1>2
      <3>2. ASSUME NEW i \in DOMAIN webdiff_versions PROVE \E v \in m_vVersions : v.id = i
        <4>1. PICK v : v = [id |-> i, name |-> webdiff_versions[i]]
          OBVIOUS
        <4> QED  BY <1>2, <4>1
      <3> QED  BY ONLY <2>0, <3>1, <3>2
    <2> QED  BY <2>1, <2>2
  <1>4. \A x \in todo' : ItemTrue(x) /\ x.group_id = 0 /\ x.parent_id = 0
    BY <1>1, <1>3, TopItem
  <1>5. ItemsTrue'
    BY <1>0, <1>1, <1>4, TablesSame DEF ItemsTrue
  <1>6. RowsTrue' /\ Nested' /\ ListedTrue'
    BY <1>0, <1>1, <1>4 DEF RowsTrue, Nested, ListedTrue
  <1>7. acked \subseteq Requests /\ NoRequest \notin Requests
    BY <1>1, RequestsAssumption DEF TreeInv, RowsInv, TypeOK, HistoryType
  <1>8. BeganTrue'
    BY <1>0, <1>7, TablesSame DEF BeganTrue
  <1>9. ASSUME NEW r \in acked, NEW n \in Needs(r) PROVE \E x \in todo' : Below(x, n)
    <2>1. PICK f \in DOMAIN webdiff_files : n = Node(webdiff_files[f])
      BY <1>1 DEF AckedStored, Stored
    <2>2. webdiff_files[f].version_id \in DOMAIN webdiff_versions
      BY <1>1 DEF TreeInv, FilesConsistent
    <2>3. PICK v \in DOMAIN webdiff_versions : v = webdiff_files[f].version_id
      BY <2>2
    <2>4. PICK top : top = ItemOf(v, 0, 0)
      OBVIOUS
    <2>5. top \in todo' /\ top.group_id = 0 /\ top.node[1] = webdiff_versions[v]
      BY <1>1, <1>3, <2>4, TopItem
    <2>6. n[1] = webdiff_versions[v]
      BY <2>1, <2>3 DEF Node
    <2> QED  BY <2>5, <2>6 DEF Below
  <1>10. BeganCovered'
    <2>1. ASSUME NEW n \in Began' PROVE Covered(n)'
      <3>1. PICK r \in acked : n \in Needs(r)
        BY <1>0, <2>1 DEF Began
      <3> QED  BY <1>9, <3>1 DEF Covered
    <2> QED  BY <2>1 DEF BeganCovered
  <1> QED  BY <1>5, <1>6, <1>8, <1>10 DEF PageInv

-----------------------------------------------------------------------------
(* A version is opened *)

\* As many nodes of a version and a group are stored as there are rows of their ids.
LEMMA NodesCounted ==
    ASSUME TreeInv, NEW v \in DOMAIN webdiff_versions, NEW g \in DOMAIN webdiff_file_groups,
           NEW rows, rows = {f \in DOMAIN webdiff_files : /\ webdiff_files[f].version_id = v
                                                          /\ webdiff_files[f].file_group_id = g}
    PROVE  /\ Cardinality(rows) \in Nat /\ (rows # {} => Cardinality(rows) > 0)
           /\ Cardinality(rows) = Cardinality(Of(Stored, webdiff_versions[v], webdiff_file_groups[g]))
  <1>1. IsFiniteSet(rows)
    <2>1. IsFiniteSet(DOMAIN webdiff_files)
      BY StoredFinite
    <2>2. rows \subseteq DOMAIN webdiff_files
      OBVIOUS
    <2> QED  BY <2>1, <2>2, FS_Subset
  <1>2. PICK T : T = Of(Stored, webdiff_versions[v], webdiff_file_groups[g])
    OBVIOUS
  <1>3. PICK F : F = [f \in rows |-> Node(webdiff_files[f])]
    OBVIOUS
  <1>4. \A f \in rows : F[f] \in T
    BY <1>2, <1>3 DEF Of, Stored, Node
  <1>5. \A e, f \in rows : F[e] = F[f] => e = f
    BY <1>3, NodeInjective
  <1>6. ASSUME NEW n \in T PROVE \E f \in rows : F[f] = n
    <2>1. PICK f \in DOMAIN webdiff_files : n = Node(webdiff_files[f])
      BY <1>2 DEF Of, Stored
    <2>2. /\ webdiff_versions[webdiff_files[f].version_id] = webdiff_versions[v]
          /\ webdiff_file_groups[webdiff_files[f].file_group_id] = webdiff_file_groups[g]
      BY <1>2, <2>1 DEF Of, Node
    <2>3. /\ webdiff_files[f].version_id \in DOMAIN webdiff_versions
          /\ webdiff_files[f].file_group_id \in DOMAIN webdiff_file_groups
      BY DEF TreeInv, FilesConsistent
    <2>4. webdiff_files[f].version_id = v /\ webdiff_files[f].file_group_id = g
      BY <2>2, <2>3 DEF TreeInv, RowsInv, NoDuplicateRows
    <2> QED  BY <1>3, <2>1, <2>4
  <1>7. F \in Bijection(rows, T)
    BY <1>3, <1>4, <1>5, <1>6 DEF Bijection, Injection, Surjection, IsInjective
  <1>8. Cardinality(T) = Cardinality(rows)
    BY <1>1, <1>7, FS_Bijection DEF ExistsBijection
  <1>9. Cardinality(rows) \in Nat /\ (rows # {} => Cardinality(rows) > 0)
    BY <1>1, FS_CardinalityType, FS_EmptySet
  <1> QED  BY <1>2, <1>8, <1>9


\* The groups of a version and the number of rows each has in it.
GroupsOf(v) == {webdiff_files[f].file_group_id : f \in {e \in DOMAIN webdiff_files : webdiff_files[e].version_id = v}}

RowsOf(v, g) == {f \in DOMAIN webdiff_files : /\ webdiff_files[f].version_id = v
                                              /\ webdiff_files[f].file_group_id = g}

LEMMA GroupIds ==
    ASSUME TreeInv, NEW v, NEW g \in GroupsOf(v)
    PROVE  g \in DOMAIN webdiff_file_groups /\ g # 0 /\ RowsOf(v, g) # {}
  <1>1. PICK f \in DOMAIN webdiff_files : webdiff_files[f].version_id = v /\ g = webdiff_files[f].file_group_id
    BY DEF GroupsOf
  <1>2. g \in DOMAIN webdiff_file_groups
    BY <1>1 DEF TreeInv, FilesConsistent
  <1> QED  BY <1>1, <1>2, RowTypes DEF RowsOf

\* The item of a group of a version.
LEMMA GroupItem ==
    ASSUME TreeInv, NEW v \in DOMAIN webdiff_versions, NEW g \in DOMAIN webdiff_file_groups,
           NEW x, x = ItemOf(v, g, 0)
    PROVE  /\ ItemTrue(x) /\ x.version_id = v /\ x.group_id = g /\ x.parent_id = 0 /\ g # 0
           /\ x.node[1] = webdiff_versions[v] /\ x.node[2] = webdiff_file_groups[g] /\ x.node[3] = <<>>
  <1>1. x.version_id = v /\ x.group_id = g /\ x.parent_id = 0
    BY DEF ItemOf
  <1>2. g # 0
    BY RowTypes
  <1>3. AreIds(v, g, 0)
    BY <1>2 DEF AreIds
  <1>4. ItemTrue(x)
    BY <1>1, <1>3 DEF ItemTrue
  <1>5. PathOf(0) = <<>>
    BY DEF PathOf
  <1>6. /\ x.node[1] = webdiff_versions[v] /\ x.node[2] = webdiff_file_groups[g] /\ x.node[3] = <<>>
    BY <1>1, <1>2, <1>4, <1>5, ItemNode
  <1> QED  BY <1>1, <1>2, <1>4, <1>6

\* What ExpandVersion does, in terms of the tables.
LEMMA VersionOpened ==
    ASSUME TreeInv, NEW item, ItemTrue(item), item.group_id = 0, ExpandVersion(item),
           NEW v, v = item.version_id
    PROVE  /\ todo' = (todo \ {item}) \cup {ItemOf(v, g, 0) : g \in GroupsOf(v)}
           /\ listed' = listed \cup {[version |-> webdiff_versions[v], group |-> webdiff_file_groups[g],
                                      amount |-> Cardinality(RowsOf(v, g))] : g \in GroupsOf(v)}
           /\ item \in todo /\ opened' = opened \cup {item} /\ shown' = shown /\ began' = began
           /\ UNCHANGED vars
  <1> DEFINE Row(g) == [group_id |-> g, title |-> webdiff_file_groups[g],
                        amount_of_files |-> Cardinality(RowsOf(v, g))]
             New(id, title) == [item EXCEPT !.group_id = id, !.node[2] = title]
             Listed(title, n) == [version |-> item.node[1], group |-> title, amount |-> n]
  <1>1. getGroups(v) = {Row(g) : g \in GroupsOf(v)}
    <2>1. \A g : {f \in {e \in DOMAIN webdiff_files : webdiff_files[e].version_id = v} :
                     webdiff_files[f].file_group_id = g} = RowsOf(v, g)
      BY DEF RowsOf
    <2> QED  BY <2>1 DEF getGroups, GroupsOf
  <1>2. /\ todo' = (todo \ {item}) \cup {New(g.group_id, g.title) : g \in getGroups(v)}
        /\ listed' = listed \cup {Listed(g.title, g.amount_of_files) : g \in getGroups(v)}
        /\ item \in todo /\ opened' = opened \cup {item} /\ shown' = shown /\ began' = began
        /\ UNCHANGED vars
    BY DEF ExpandVersion
  <1>3. \A g : Row(g).group_id = g /\ Row(g).title = webdiff_file_groups[g]
                /\ Row(g).amount_of_files = Cardinality(RowsOf(v, g))
    OBVIOUS
  <1>4. v \in DOMAIN webdiff_versions /\ item.node[1] = webdiff_versions[v] /\ item = ItemOf(v, 0, 0)
    BY ItemNode DEF ItemTrue
  <1>5. ASSUME NEW g \in GroupsOf(v)
        PROVE  New(g, webdiff_file_groups[g]) = ItemOf(v, g, 0)
    <2>1. g # 0 /\ g \in DOMAIN webdiff_file_groups
      BY GroupIds
    <2>2. PICK a, b, c, e : a = webdiff_versions[v] /\ b = "" /\ c = <<>> /\ e = webdiff_file_groups[g]
      OBVIOUS
    <2>3. PICK n : n = <<a, b, c>>
      OBVIOUS
    <2>4. item = [version_id |-> v, group_id |-> 0, parent_id |-> 0, node |-> n]
      BY <1>4, <2>2, <2>3 DEF ItemOf, PathOf
    <2>5. [n EXCEPT ![2] = e] = <<a, e, c>>
      BY ONLY <2>3, Second
    <2>6. New(g, e) = [version_id |-> v, group_id |-> g, parent_id |-> 0, node |-> [n EXCEPT ![2] = e]]
      <3>1. item.node = n
        BY <2>4
      <3>2. PICK m : m = [n EXCEPT ![2] = e]
        OBVIOUS
      <3>3. PICK x : x = [item EXCEPT !.group_id = g]
        OBVIOUS
      <3>4. x = [version_id |-> v, group_id |-> g, parent_id |-> 0, node |-> n]
        BY ONLY <2>4, <3>3
      <3>5. [x EXCEPT !.node = m] = [version_id |-> v, group_id |-> g, parent_id |-> 0, node |-> m]
        BY ONLY <3>4
      <3>6. New(g, e) = [x EXCEPT !.node = m]
        BY <3>1, <3>2, <3>3, <3>4
      <3> QED  BY <3>2, <3>5, <3>6
    <2>7. ItemOf(v, g, 0) = [version_id |-> v, group_id |-> g, parent_id |-> 0, node |-> <<a, e, c>>]
      BY <2>1, <2>2 DEF ItemOf, PathOf
    <2> QED  BY <2>2, <2>5, <2>6, <2>7
  <1> HIDE DEF Row, New
  <1>6. {New(g.group_id, g.title) : g \in getGroups(v)} = {ItemOf(v, g, 0) : g \in GroupsOf(v)}
    BY <1>1, <1>3, <1>5
  <1>7. {Listed(g.title, g.amount_of_files) : g \in getGroups(v)}
          = {Listed(webdiff_file_groups[g], Cardinality(RowsOf(v, g))) : g \in GroupsOf(v)}
    <2> HIDE DEF Listed
    <2> QED  BY <1>1, <1>3
  <1> QED  BY <1>2, <1>4, <1>6, <1>7


LEMMA VersionStep ==
    ASSUME AckInv, PageInv, NEW item, ExpandVersion(item)
    PROVE  PageInv'
  <1>1. ItemsTrue /\ RowsTrue /\ Nested /\ BeganTrue /\ ListedTrue /\ BeganCovered /\ TreeInv
    BY DEF PageInv, AckInv
  <1>2. item \in todo /\ item.group_id = 0 /\ ItemTrue(item)
    BY <1>1 DEF ExpandVersion, ItemsTrue
  <1>3. PICK v : v = item.version_id
    OBVIOUS
  <1>4. v \in DOMAIN webdiff_versions /\ item.node[1] = webdiff_versions[v] /\ item = ItemOf(v, 0, 0)
    BY <1>1, <1>2, <1>3, ItemNode DEF ItemTrue
  <1> DEFINE New == {ItemOf(v, g, 0) : g \in GroupsOf(v)}
             Line(g) == [version |-> webdiff_versions[v], group |-> webdiff_file_groups[g],
                         amount |-> Cardinality(RowsOf(v, g))]
  <1>5. /\ todo' = (todo \ {item}) \cup New
        /\ listed' = listed \cup {Line(g) : g \in GroupsOf(v)}
        /\ opened' = opened \cup {item} /\ shown' = shown /\ began' = began /\ UNCHANGED vars
    BY <1>1, <1>2, <1>3, VersionOpened
  <1>6. \A x \in New : /\ ItemTrue(x) /\ x.version_id = v /\ x.group_id # 0 /\ x.parent_id = 0
    BY <1>1, <1>4, GroupIds, GroupItem
  <1>7. item \notin opened /\ began # {NoRequest}
    BY <1>1, <1>2 DEF Nested, BeganTrue
  <1>8. ItemsTrue'
    <2> HIDE DEF New
    <2>1. \A x \in todo' \cup opened' : ItemTrue(x)
      BY <1>1, <1>2, <1>5, <1>6 DEF ItemsTrue
    <2>2. \A x \in todo' \cup opened' : ItemTrue(x)'
      BY <1>5, <2>1, TablesSame
    <2> QED  BY <2>2 DEF ItemsTrue
  <1>9. RowsTrue'
    BY <1>1, <1>5, TablesSame DEF RowsTrue
  <1>10. Nested'
    <2>1. \A x \in New : x \notin opened /\ x # item
      BY <1>1, <1>2, <1>4, <1>6, <1>7 DEF Nested
    <2>2. todo' \cap opened' = {}
      BY <1>1, <1>5, <2>1 DEF Nested
    <2> HIDE DEF New
    <2>3. ASSUME NEW x \in todo' \cup opened'
          PROVE  /\ x.group_id # 0 => ItemOf(x.version_id, 0, 0)' \in opened'
                 /\ x.parent_id # 0 => \E y \in shown' : y.file_id = x.parent_id
      <3>1. ItemOf(x.version_id, 0, 0)' = ItemOf(x.version_id, 0, 0)
        BY <1>5, TablesSame
      <3>2. CASE x \in todo \cup opened
        BY <1>1, <1>5, <3>1, <3>2 DEF Nested
      <3>3. CASE x \in New
        BY <1>4, <1>5, <1>6, <3>1, <3>3
      <3> QED  BY <1>2, <1>5, <3>2, <3>3
    <2>4. \A x \in shown' : ItemAbove(x.file_id)' \in opened'
      <3>1. \A x \in shown' : ItemAbove(x.file_id)' = ItemAbove(x.file_id)
        BY <1>5, TablesSame
      <3> QED  BY <1>1, <1>5, <3>1 DEF Nested
    <2>5. \A x, y \in shown' : x.file_id = y.file_id => x = y
      BY <1>1, <1>5 DEF Nested
    <2> QED  BY ONLY <2>2, <2>3, <2>4, <2>5 DEF Nested
  <1>11. BeganTrue'
    BY <1>1, <1>5, <1>7, TablesSame DEF BeganTrue
  <1>12. ListedTrue'
    <2>1. Stored' = Stored /\ Began' = Began
      BY <1>5, TablesSame DEF Began
    <2>2. ASSUME NEW g \in GroupsOf(v)
          PROVE  LET l == Line(g) IN
                 /\ l.amount \in Nat /\ l.amount > 0
                 /\ l.amount <= Cardinality(Of(Stored, l.version, l.group))
                 /\ l.amount >= Cardinality(Of(Began, l.version, l.group))
      <3>1. g \in DOMAIN webdiff_file_groups /\ RowsOf(v, g) # {}
        BY <1>1, GroupIds
      <3>2. PICK a, b : a = webdiff_versions[v] /\ b = webdiff_file_groups[g]
        OBVIOUS
      <3>3. PICK c : c = Cardinality(RowsOf(v, g))
        OBVIOUS
      <3>4. c \in Nat /\ c > 0 /\ c = Cardinality(Of(Stored, a, b))
        BY <1>1, <1>4, <3>1, <3>2, <3>3, NodesCounted DEF RowsOf
      <3>5. Began \subseteq Stored /\ IsFiniteSet(Stored)
        BY <1>1, <1>7, BeganStored, StoredFinite
      <3>6. Cardinality(Of(Began, a, b)) \in Nat /\ Cardinality(Of(Began, a, b)) <= Cardinality(Of(Stored, a, b))
        BY <3>5, OfMore
      <3>7. Line(g).amount = c /\ Line(g).version = a /\ Line(g).group = b
        BY <3>2, <3>3
      <3> HIDE DEF Line
      <3> QED  BY <3>4, <3>6, <3>7
    <2> HIDE DEF Line
    <2> QED  BY <1>1, <1>5, <2>1, <2>2 DEF ListedTrue
  <1>13. ASSUME NEW r \in began, NEW n \in Needs(r)
         PROVE  \/ \E x \in shown' : x.node = n
                \/ \E i \in todo' : Below(i, n)
                \/ \E x \in shown' : CutAbove(x, n)
    <2>1. CASE Below(item, n)
      <3>1. n \in Stored /\ r \in Requests
        BY <1>7, BeganStored
      <3>2. PICK f \in DOMAIN webdiff_files : n = Node(webdiff_files[f])
        BY <3>1 DEF Stored
      <3>3. /\ webdiff_files[f].version_id \in DOMAIN webdiff_versions
            /\ webdiff_files[f].file_group_id \in DOMAIN webdiff_file_groups
        BY <1>1 DEF TreeInv, FilesConsistent
      <3>4. PICK g \in DOMAIN webdiff_file_groups : g = webdiff_files[f].file_group_id
        BY <3>3
      <3>5. /\ n[1] = webdiff_versions[webdiff_files[f].version_id] /\ n[2] = webdiff_file_groups[g]
            /\ n[1] = webdiff_versions[v]
        BY <1>4, <2>1, <3>2, <3>4 DEF Node, Below
      <3>6. g \in GroupsOf(v)
        BY <1>1, <1>4, <3>3, <3>4, <3>5 DEF GroupsOf, TreeInv, RowsInv, NoDuplicateRows
      <3>7. PICK i : i = ItemOf(v, g, 0)
        OBVIOUS
      <3>8. /\ i \in todo' /\ i.node[1] = webdiff_versions[v] /\ i.node[2] = webdiff_file_groups[g]
            /\ i.node[3] = <<>>
        BY <1>1, <1>4, <1>5, <3>6, <3>7, GroupItem
      <3>9. n[3] \in Seq(Names) /\ Len(n[3]) > 0
        BY <3>1, NeededNode
      <3>10. i.node[3] \in Seq(Names) /\ Len(i.node[3]) = 0 /\ IsPrefixOf(i.node[3], n[3])
        BY <3>8, <3>9, EmptyPrefix
      <3>11. n # i.node
        BY <3>9, <3>10
      <3>12. Below(i, n)
        BY <3>5, <3>8, <3>10, <3>11 DEF Below, IsPrefixOf
      <3> QED  BY <3>8, <3>12
    <2>2. CASE ~Below(item, n)
      <3>1. Covered(n)
        BY <1>1, <1>7 DEF BeganCovered, Began
      <3> QED  BY <1>5, <2>2, <3>1 DEF Covered
    <2> QED  BY <2>1, <2>2
  <1>14. BeganCovered'
    <2>1. \A n \in Began : Covered(n)'
      BY <1>13 DEF Began, Covered
    <2>2. Began' = Began
      BY <1>5 DEF Began
    <2> QED  BY <2>1, <2>2 DEF BeganCovered
  <1> QED  BY <1>8, <1>9, <1>10, <1>11, <1>12, <1>14 DEF PageInv


-----------------------------------------------------------------------------
(* A group or a directory is opened *)

\* The rows in the list of an item, and how the page shows one.
ListOf(item) == {f \in DOMAIN webdiff_files : ItemAbove(f) = item}

ShownRow(f) == [file_id |-> f, node |-> Node(webdiff_files[f]),
                plus |-> webdiff_files[f].amount_of_children > 0, cut |-> f \in interrupted]

\* The ids of the request select the rows of the item.
LEMMA ListById ==
    ASSUME TreeInv, NEW item, ItemTrue(item)
    PROVE  ListOf(item) = {f \in Children(webdiff_files, item.parent_id) :
                              /\ webdiff_files[f].version_id = item.version_id
                              /\ webdiff_files[f].file_group_id = item.group_id}
  <1>1. item = ItemOf(item.version_id, item.group_id, item.parent_id)
    BY DEF ItemTrue
  <1>2. ASSUME NEW f \in DOMAIN webdiff_files
        PROVE  ItemAbove(f) = item <=> /\ webdiff_files[f].parent_id = item.parent_id
                                       /\ webdiff_files[f].version_id = item.version_id
                                       /\ webdiff_files[f].file_group_id = item.group_id
    <2>1. PICK v, g, p : /\ v = webdiff_files[f].version_id /\ g = webdiff_files[f].file_group_id
                         /\ p = webdiff_files[f].parent_id
      OBVIOUS
    <2>2. ItemAbove(f) = ItemOf(v, g, p)
      BY <2>1 DEF ItemAbove
    <2>3. ItemOf(v, g, p).version_id = v /\ ItemOf(v, g, p).group_id = g /\ ItemOf(v, g, p).parent_id = p
      BY DEF ItemOf
    <2> QED  BY <1>1, <2>1, <2>2, <2>3
  <1> QED  BY <1>2 DEF ListOf, Children

\* The item of a directory.
LEMMA DirectoryItem ==
    ASSUME TreeInv, NEW f \in DOMAIN webdiff_files, NEW up, up = ItemAbove(f),
           NEW x, x = ItemOf(up.version_id, up.group_id, f)
    PROVE  /\ ItemTrue(x) /\ x.version_id = up.version_id /\ x.group_id = up.group_id /\ x.group_id # 0
           /\ x.parent_id = f /\ x.node = Node(webdiff_files[f])
  <1>1. PICK v, g : v = webdiff_files[f].version_id /\ g = webdiff_files[f].file_group_id
    OBVIOUS
  <1>2. up.version_id = v /\ up.group_id = g
    BY <1>1 DEF ItemAbove, ItemOf
  <1>3. g # 0 /\ AreIds(v, g, webdiff_files[f].parent_id) /\ f # 0
    BY <1>1, RowIds, RowTypes
  <1>4. AreIds(v, g, f)
    BY <1>1, <1>3 DEF AreIds
  <1>5. x.version_id = v /\ x.group_id = g /\ x.parent_id = f /\ x = ItemOf(v, g, f)
    BY <1>2 DEF ItemOf
  <1>6. x.node = <<webdiff_versions[v], webdiff_file_groups[g], PathOf(f)>>
    BY <1>3, <1>5 DEF ItemOf
  <1>7. x.node = Node(webdiff_files[f])
    BY <1>1, <1>3, <1>6 DEF Node, PathOf
  <1> QED  BY <1>2, <1>3, <1>4, <1>5, <1>7 DEF ItemTrue

\* What ExpandFiles does, in terms of the tables.
LEMMA LevelOpened ==
    ASSUME TreeInv, NEW item, ItemTrue(item), ExpandFiles(item)
    PROVE  /\ shown' = shown \cup {ShownRow(f) : f \in ListOf(item)}
           /\ todo' = (todo \ {item}) \cup
                      {ItemOf(item.version_id, item.group_id, f) :
                          f \in {e \in ListOf(item) : webdiff_files[e].amount_of_children > 0}}
           /\ pc = "idle" /\ item \in todo /\ item.group_id # 0
           /\ opened' = opened \cup {item} /\ listed' = listed /\ began' = began /\ UNCHANGED vars
  <1> DEFINE Row(f) == [file_id |-> f, amount_of_children |-> webdiff_files[f].amount_of_children,
                        title |-> webdiff_define_files[webdiff_files[f].define_file_id].filename]
             rows == getFiles(item.version_id, item.group_id, item.parent_id)
             NodeOf(title) == [item.node EXCEPT ![3] = Append(item.node[3], title)]
             Shown(f, title, n) == [file_id |-> f, node |-> NodeOf(title), plus |-> n > 0,
                                    cut |-> f \in interrupted]
             New(f, title) == [item EXCEPT !.parent_id = f, !.node = NodeOf(title)]
  <1>1. rows = {Row(f) : f \in ListOf(item)}
    BY ListById DEF getFiles
  <1>2. /\ shown' = shown \cup {Shown(row.file_id, row.title, row.amount_of_children) : row \in rows}
        /\ todo' = (todo \ {item}) \cup {New(row.file_id, row.title)
                                            : row \in {x \in rows : x.amount_of_children > 0}}
    BY DEF ExpandFiles, Opens
  <1>3. /\ pc = "idle" /\ item \in todo /\ item.group_id # 0
        /\ opened' = opened \cup {item} /\ listed' = listed /\ began' = began /\ UNCHANGED vars
    BY DEF ExpandFiles
  <1>4. \A f : /\ Row(f).file_id = f /\ Row(f).amount_of_children = webdiff_files[f].amount_of_children
               /\ Row(f).title = webdiff_define_files[webdiff_files[f].define_file_id].filename
    OBVIOUS
  <1>5. ASSUME NEW f \in ListOf(item)
        PROVE  NodeOf(webdiff_define_files[webdiff_files[f].define_file_id].filename) = Node(webdiff_files[f])
    <2>1. f \in DOMAIN webdiff_files /\ item = ItemAbove(f)
      BY DEF ListOf
    <2>2. PICK n, e : /\ n = Node(webdiff_files[f])
                      /\ e = webdiff_define_files[webdiff_files[f].define_file_id].filename
      OBVIOUS
    <2>3. /\ n = <<n[1], n[2], n[3]>> /\ n[1] = item.node[1] /\ n[2] = item.node[2]
          /\ n[3] = Append(item.node[3], e)
      BY <2>1, <2>2, RowNode
    <2>4. item.node = <<item.node[1], item.node[2], item.node[3]>>
      BY ItemNode
    <2>5. PICK a, b, c, m : a = item.node[1] /\ b = item.node[2] /\ c = item.node[3] /\ m = item.node
      OBVIOUS
    <2>6. PICK d : d = Append(c, e)
      OBVIOUS
    <2>7. m = <<a, b, c>>
      BY <2>4, <2>5
    <2>8. [m EXCEPT ![3] = d] = <<a, b, d>>
      BY ONLY <2>7, Third
    <2>9. n = <<a, b, d>>
      BY <2>3, <2>5, <2>6
    <2> QED  BY <2>2, <2>5, <2>6, <2>8, <2>9
  <1>6. ASSUME NEW f \in ListOf(item)
        PROVE  New(f, webdiff_define_files[webdiff_files[f].define_file_id].filename)
                 = ItemOf(item.version_id, item.group_id, f)
    <2>1. f \in DOMAIN webdiff_files /\ item = ItemAbove(f)
      BY DEF ListOf
    <2>2. PICK v, g, p, n, m : /\ v = item.version_id /\ g = item.group_id /\ p = item.parent_id
                               /\ n = item.node /\ m = Node(webdiff_files[f])
      OBVIOUS
    <2>3. item = [version_id |-> v, group_id |-> g, parent_id |-> p, node |-> n]
      BY <2>2 DEF ItemTrue, ItemOf
    <2>4. PICK x : x = [item EXCEPT !.parent_id = f]
      OBVIOUS
    <2>5. x = [version_id |-> v, group_id |-> g, parent_id |-> f, node |-> n]
      BY ONLY <2>3, <2>4
    <2>6. [x EXCEPT !.node = m] = [version_id |-> v, group_id |-> g, parent_id |-> f, node |-> m]
      BY ONLY <2>5
    <2>7. New(f, webdiff_define_files[webdiff_files[f].define_file_id].filename) = [x EXCEPT !.node = m]
      BY <1>5, <2>2, <2>4
    <2>8. ItemOf(v, g, f).node = m
      BY <2>1, <2>2, DirectoryItem
    <2>9. ItemOf(v, g, f) = [version_id |-> v, group_id |-> g, parent_id |-> f, node |-> m]
      BY <2>8 DEF ItemOf
    <2> QED  BY <2>2, <2>6, <2>7, <2>9
  <1>7. ASSUME NEW f \in ListOf(item)
        PROVE  Shown(f, webdiff_define_files[webdiff_files[f].define_file_id].filename,
                     webdiff_files[f].amount_of_children) = ShownRow(f)
    BY <1>5 DEF ShownRow
  <1> HIDE DEF Row, New, Shown, rows
  <1>8. {Shown(row.file_id, row.title, row.amount_of_children) : row \in rows}
          = {ShownRow(f) : f \in ListOf(item)}
    BY <1>1, <1>4, <1>7
  <1>9. {New(row.file_id, row.title) : row \in {x \in rows : x.amount_of_children > 0}}
          = {ItemOf(item.version_id, item.group_id, f) :
                f \in {e \in ListOf(item) : webdiff_files[e].amount_of_children > 0}}
    BY <1>1, <1>4, <1>6
  <1> QED  BY <1>2, <1>3, <1>8, <1>9


\* A group or directory has one item.
LEMMA ItemByNode ==
    ASSUME TreeInv, NEW i, NEW j, ItemTrue(i), ItemTrue(j), i.group_id # 0, j.group_id # 0,
           i.node = j.node
    PROVE  i = j
  <1>1. PICK v, g, p : v = i.version_id /\ g = i.group_id /\ p = i.parent_id
    OBVIOUS
  <1>2. PICK w, k, q : w = j.version_id /\ k = j.group_id /\ q = j.parent_id
    OBVIOUS
  <1>3. AreIds(v, g, p) /\ AreIds(w, k, q) /\ g # 0 /\ k # 0 /\ i = ItemOf(v, g, p) /\ j = ItemOf(w, k, q)
    BY <1>1, <1>2 DEF ItemTrue
  <1>4. /\ webdiff_versions[v] = webdiff_versions[w] /\ webdiff_file_groups[g] = webdiff_file_groups[k]
        /\ PathOf(p) = PathOf(q)
    <2>1. /\ i.node[1] = webdiff_versions[v] /\ i.node[2] = webdiff_file_groups[g] /\ i.node[3] = PathOf(p)
      BY <1>1, ItemNode
    <2>2. /\ j.node[1] = webdiff_versions[w] /\ j.node[2] = webdiff_file_groups[k] /\ j.node[3] = PathOf(q)
      BY <1>2, ItemNode
    <2> QED  BY <2>1, <2>2
  <1>5. v = w /\ g = k
    BY <1>3, <1>4 DEF AreIds, TreeInv, RowsInv, NoDuplicateRows
  <1>6. ASSUME NEW e, e # 0, AreIds(v, g, e)
        PROVE  /\ e \in DOMAIN webdiff_files /\ PathOf(e) # <<>>
               /\ Node(webdiff_files[e]) = <<webdiff_versions[v], webdiff_file_groups[g], PathOf(e)>>
    <2>1. e \in DOMAIN webdiff_files /\ webdiff_files[e].version_id = v /\ webdiff_files[e].file_group_id = g
      BY <1>6 DEF AreIds
    <2>2. webdiff_files[e].define_file_id \in DOMAIN webdiff_define_files
      BY <2>1 DEF TreeInv, FilesConsistent
    <2>3. PathOf(e) = webdiff_define_files[webdiff_files[e].define_file_id].filepath
      BY <1>6 DEF PathOf
    <2>4. Len(PathOf(e)) > 0
      BY <2>2, <2>3 DEF TreeInv, DefinesConsistent
    <2>5. PathOf(e) # <<>>
      BY <2>4
    <2> QED  BY <2>1, <2>3, <2>5 DEF Node
  <1>7. PathOf(0) = <<>>
    BY DEF PathOf
  <1>8. p = q
    <2>1. CASE p = 0 \/ q = 0
      BY <1>3, <1>4, <1>5, <1>6, <1>7, <2>1
    <2>2. CASE p # 0 /\ q # 0
      <3>1. /\ p \in DOMAIN webdiff_files /\ q \in DOMAIN webdiff_files
            /\ Node(webdiff_files[p]) = Node(webdiff_files[q])
        BY <1>3, <1>4, <1>5, <1>6, <2>2
      <3> QED  BY <3>1, NodeInjective
    <2> QED  BY <2>1, <2>2
  <1> QED  BY <1>3, <1>5, <1>8

\* A name of three parts, and s the node one name below item on the way to n.
IsNode(n) == n = <<n[1], n[2], n[3]>> /\ n[3] \in Seq(Names)

IsNext(item, n, s) == s = <<n[1], n[2], SubSeq(n[3], 1, Len(item.node[3]) + 1)>>

\* The row of the next name on the way from an item to a stored node below it is in its list.
LEMMA NextOnTheWay ==
    ASSUME TreeInv, NEW item, ItemTrue(item), item.group_id # 0,
           NEW n, IsNode(n), Below(item, n), NEW s, s \in Stored, IsNext(item, n, s)
    PROVE  \E f \in ListOf(item) : Node(webdiff_files[f]) = s
  <1>0. PICK k : k = Len(item.node[3]) + 1
    OBVIOUS
  <1>1. /\ item.node = <<item.node[1], item.node[2], item.node[3]>> /\ item.node[3] \in Seq(Names)
    BY ItemNode
  <1>2. PICK p, q \in Seq(Names) : p = item.node[3] /\ q = n[3]
    BY <1>1 DEF IsNode
  <1>3. n # item.node /\ n[1] = item.node[1] /\ n[2] = item.node[2] /\ IsPrefixOf(p, q)
    BY <1>2 DEF Below, IsPrefixOf
  <1>4. p # q
    BY <1>1, <1>2, <1>3 DEF IsNode
  <1>5. Len(p) < Len(q) /\ Len(p) \in Nat /\ Len(q) \in Nat
    BY <1>3, <1>4, PrefixShorter
  <1>6. k \in 1..Len(q) /\ k \in Nat /\ k <= Len(q) /\ k = Len(p) + 1
    BY <1>0, <1>2, <1>5
  <1>7. PICK f \in DOMAIN webdiff_files : Node(webdiff_files[f]) = s /\ s = <<n[1], n[2], SubSeq(n[3], 1, k)>>
    BY <1>0 DEF Stored, IsNext
  <1>8. PICK m, up, e : /\ m = Node(webdiff_files[f]) /\ up = ItemAbove(f)
                        /\ e = webdiff_define_files[webdiff_files[f].define_file_id].filename
    OBVIOUS
  <1>9. /\ ItemTrue(up) /\ up.group_id # 0 /\ m[1] = up.node[1] /\ m[2] = up.node[2]
        /\ m[3] = Append(up.node[3], e) /\ e \in Names
    BY <1>8, RowNode
  <1>10. /\ up.node = <<up.node[1], up.node[2], up.node[3]>> /\ up.node[3] \in Seq(Names)
    BY <1>9, ItemNode
  <1>11. PICK a, b, c : a = n[1] /\ b = n[2] /\ c = SubSeq(q, 1, k)
    OBVIOUS
  <1>12. m = <<a, b, c>>
    BY <1>2, <1>7, <1>8, <1>11
  <1>13. m[1] = a /\ m[2] = b /\ m[3] = c
    BY ONLY <1>12
  <1>14. PICK u \in Seq(Names) : u = up.node[3]
    BY <1>10
  <1>15. /\ c \in Seq(Names) /\ Len(c) = k /\ \A j \in 1..k : c[j] = q[j]
    BY <1>6, <1>11, PrefixFacts
  <1>16. /\ Len(Append(u, e)) = Len(u) + 1 /\ Len(u) \in Nat
         /\ \A j \in 1..Len(u) : Append(u, e)[j] = u[j]
    BY <1>9, AppendFacts
  <1>17. c = Append(u, e)
    BY <1>9, <1>13, <1>14
  <1>18. Len(u) = Len(p)
    BY <1>5, <1>6, <1>15, <1>16, <1>17
  <1>19. \A j \in 1..Len(p) : q[j] = p[j]
    BY <1>3, PrefixByName
  <1>20. \A j \in 1..Len(u) : u[j] = p[j]
    <2> SUFFICES ASSUME NEW j \in 1..Len(u) PROVE u[j] = p[j]
      OBVIOUS
    <2>1. j \in 1..k /\ j \in 1..Len(p)
      BY <1>5, <1>6, <1>18
    <2>2. u[j] = c[j] /\ c[j] = q[j] /\ q[j] = p[j]
      BY <1>15, <1>16, <1>17, <1>19, <2>1
    <2> QED  BY <2>2
  <1>21. u = p
    BY <1>18, <1>20, SeqEqual
  <1>22. up.node = item.node
    BY <1>1, <1>2, <1>3, <1>9, <1>10, <1>11, <1>13, <1>14, <1>21
  <1>23. up = item
    BY <1>9, <1>22, ItemByNode
  <1>24. f \in ListOf(item)
    BY <1>8, <1>23 DEF ListOf
  <1> QED  BY <1>2, <1>6, <1>7, <1>24


\* A row with a child row and no plus lost its count in a crash.
LEMMA CutByCrash ==
    ASSUME TreeInv, pc = "idle", NEW f \in DOMAIN webdiff_files, NEW c \in DOMAIN webdiff_files,
           webdiff_files[c].parent_id = f, ~(webdiff_files[f].amount_of_children > 0)
    PROVE  f \in interrupted
  <1>1. IsFiniteSet(Children(webdiff_files, f)) /\ Cardinality(Children(webdiff_files, f)) \in Nat
    BY ChildrenFinite, RowTypes
  <1>2. c \in Children(webdiff_files, f)
    BY DEF Children
  <1>3. Cardinality(Children(webdiff_files, f)) # 0
    BY <1>1, <1>2, FS_EmptySet
  <1>4. webdiff_files[f].amount_of_children \in Nat
    BY RowTypes
  <1>5. \/ webdiff_files[f].amount_of_children = Cardinality(Children(webdiff_files, f))
        \/ f \in interrupted
    BY DEF TreeInv, ChildCounts
  <1> QED  BY <1>1, <1>3, <1>4, <1>5

\* What was below the item is shown now, below a new item, or cut off.
LEMMA LevelCovered ==
    ASSUME AckInv, PageInv, NEW item, ItemTrue(item), ExpandFiles(item),
           NEW r \in Requests, NEW n \in Needs(r), Needs(r) \subseteq Stored, Below(item, n)
    PROVE  \/ \E x \in shown' : x.node = n
           \/ \E i \in todo' : Below(i, n)
           \/ \E x \in shown' : CutAbove(x, n)
  <1>1. TreeInv
    BY DEF AckInv
  <1>2. /\ shown' = shown \cup {ShownRow(f) : f \in ListOf(item)}
        /\ todo' = (todo \ {item}) \cup
                   {ItemOf(item.version_id, item.group_id, f) :
                       f \in {e \in ListOf(item) : webdiff_files[e].amount_of_children > 0}}
        /\ pc = "idle" /\ item.group_id # 0
    BY <1>1, LevelOpened
  <1>3. /\ n = <<n[1], n[2], n[3]>> /\ n[3] \in Seq(Names)
        /\ \A j \in 1..Len(n[3]) : <<n[1], n[2], SubSeq(n[3], 1, j)>> \in Needs(r)
    BY NeededNode
  <1>4. item.node[3] \in Seq(Names)
    BY <1>1, ItemNode
  <1>5. PICK k : k = Len(item.node[3]) + 1
    OBVIOUS
  <1>6. k \in Nat /\ k \in 1..Len(n[3])
    <2>1. PICK p, q \in Seq(Names) : p = item.node[3] /\ q = n[3]
      BY <1>3, <1>4
    <2>2. IsPrefixOf(p, q) /\ n # item.node /\ n[1] = item.node[1] /\ n[2] = item.node[2]
      BY <1>2, <2>1 DEF Below, IsPrefixOf
    <2>3. item.node = <<item.node[1], item.node[2], item.node[3]>>
      BY <1>1, ItemNode
    <2>4. p # q
      BY <1>3, <2>1, <2>2, <2>3
    <2>5. Len(p) < Len(q)
      BY <2>2, <2>4, PrefixShorter
    <2> QED  BY <1>5, <2>1, <2>5
  <1>7. <<n[1], n[2], SubSeq(n[3], 1, k)>> \in Stored
    BY <1>3, <1>6
  <1>8. PICK f \in ListOf(item) : Node(webdiff_files[f]) = <<n[1], n[2], SubSeq(n[3], 1, k)>>
    <2>1. PICK s : s \in Stored /\ s = <<n[1], n[2], SubSeq(n[3], 1, k)>>
      BY <1>7
    <2>2. IsNode(n) /\ IsNext(item, n, s)
      BY <1>3, <1>5, <2>1 DEF IsNode, IsNext
    <2>3. \E f \in ListOf(item) : Node(webdiff_files[f]) = s
      BY <1>1, <1>2, <2>1, <2>2, NextOnTheWay
    <2> QED  BY <2>1, <2>3
  <1>9. f \in DOMAIN webdiff_files /\ item = ItemAbove(f)
    BY DEF ListOf
  <1>10. PICK a, b, q : a = n[1] /\ b = n[2] /\ q = n[3]
    OBVIOUS
  <1>11. PICK c : c = SubSeq(q, 1, k)
    OBVIOUS
  <1>12. PICK m : m = <<a, b, c>>
    OBVIOUS
  <1>13. Node(webdiff_files[f]) = m /\ n = <<a, b, q>> /\ q \in Seq(Names) /\ k \in 1..Len(q) /\ k \in Nat
    BY <1>3, <1>6, <1>8, <1>10, <1>11, <1>12
  <1>14. m[1] = a /\ m[2] = b /\ m[3] = c
    BY ONLY <1>12
  <1>15. c \in Seq(Names) /\ Len(c) = k /\ IsPrefixOf(c, q)
    BY <1>11, <1>13, PrefixOfSubSeq
  <1>16. /\ ShownRow(f) \in shown' /\ ShownRow(f).node = m /\ (ShownRow(f).cut <=> f \in interrupted)
         /\ ShownRow(f).plus <=> webdiff_files[f].amount_of_children > 0
    BY <1>2, <1>13 DEF ShownRow
  <1>17. CASE k = Len(q)
    <2>1. \A j \in 1..Len(c) : q[j] = c[j]
      BY <1>13, <1>15, PrefixByName
    <2>2. c = q
      BY <1>13, <1>15, <1>17, <2>1, SeqEqual
    <2> QED  BY <1>12, <1>13, <1>16, <2>2
  <1>18. CASE k # Len(q) /\ webdiff_files[f].amount_of_children > 0
    <2>1. PICK i : i = ItemOf(item.version_id, item.group_id, f)
      OBVIOUS
    <2>2. i \in todo'
      BY <1>2, <1>18, <2>1
    <2>3. i.group_id # 0 /\ i.node = m
      BY <1>1, <1>9, <1>13, <2>1, DirectoryItem
    <2>4. c # q
      BY <1>15, <1>18
    <2>5. n # m
      BY <1>10, <1>14, <2>4
    <2>6. Below(i, n)
      BY <1>10, <1>14, <1>15, <2>3, <2>5 DEF Below, IsPrefixOf
    <2> QED  BY <2>2, <2>6
  <1>19. CASE k # Len(q) /\ ~(webdiff_files[f].amount_of_children > 0)
    <2>1. PICK i : i = ItemOf(item.version_id, item.group_id, f)
      OBVIOUS
    <2>2. ItemTrue(i) /\ i.group_id # 0 /\ i.node = m /\ i.parent_id = f
      BY <1>1, <1>9, <1>13, <2>1, DirectoryItem
    <2>3. c # q
      BY <1>15, <1>19
    <2>4. n # m
      BY <1>10, <1>14, <2>3
    <2>5. Below(i, n)
      BY <1>10, <1>14, <1>15, <2>2, <2>4 DEF Below, IsPrefixOf
    <2>6. PICK l : l = Len(i.node[3]) + 1
      OBVIOUS
    <2>7. l = k + 1 /\ l \in 1..Len(n[3])
      BY <1>10, <1>13, <1>14, <1>15, <1>19, <2>2, <2>6
    <2>8. <<n[1], n[2], SubSeq(n[3], 1, l)>> \in Stored
      BY <1>3, <2>7
    <2>9. PICK e \in ListOf(i) : Node(webdiff_files[e]) = <<n[1], n[2], SubSeq(n[3], 1, l)>>
      <3>1. PICK s : s \in Stored /\ s = <<n[1], n[2], SubSeq(n[3], 1, l)>>
        BY <2>8
      <3>2. IsNode(n) /\ IsNext(i, n, s)
        BY <1>3, <2>6, <3>1 DEF IsNode, IsNext
      <3>3. \E e \in ListOf(i) : Node(webdiff_files[e]) = s
        BY <1>1, <2>2, <2>5, <3>1, <3>2, NextOnTheWay
      <3> QED  BY <3>1, <3>3
    <2>10. e \in DOMAIN webdiff_files /\ webdiff_files[e].parent_id = f
      BY <1>1, <2>2, <2>9, ListById DEF Children
    <2>11. f \in interrupted
      BY <1>1, <1>2, <1>9, <1>19, <2>10, CutByCrash
    <2>12. k \in 1..(Len(n[3]) - 1)
      BY <1>10, <1>13, <1>19
    <2>13. [n EXCEPT ![3] = c] = m
      <3>1. n = <<a, b, q>>
        BY <1>13
      <3>2. [n EXCEPT ![3] = c] = <<a, b, c>>
        BY ONLY <3>1, Third
      <3> QED  BY <1>12, <3>2
    <2>14. ShownRow(f).node = [n EXCEPT ![3] = SubSeq(n[3], 1, k)]
      BY <1>10, <1>11, <1>16, <2>13
    <2>15. CutAbove(ShownRow(f), n)
      BY <1>16, <1>19, <2>11, <2>12, <2>14 DEF CutAbove
    <2> QED  BY <1>16, <2>15
  <1> QED  BY <1>17, <1>18, <1>19


LEMMA LevelStep ==
    ASSUME AckInv, PageInv, NEW item, ExpandFiles(item)
    PROVE  PageInv'
  <1>1. ItemsTrue /\ RowsTrue /\ Nested /\ BeganTrue /\ ListedTrue /\ BeganCovered /\ TreeInv
    BY DEF PageInv, AckInv
  <1>2. item \in todo /\ item.group_id # 0 /\ ItemTrue(item)
    BY <1>1 DEF ExpandFiles, ItemsTrue
  <1> DEFINE Item(f) == ItemOf(item.version_id, item.group_id, f)
             Full == {e \in ListOf(item) : webdiff_files[e].amount_of_children > 0}
             New == {Item(f) : f \in Full}
             Rows == {ShownRow(f) : f \in ListOf(item)}
  <1>3. /\ todo' = (todo \ {item}) \cup New /\ shown' = shown \cup Rows
        /\ opened' = opened \cup {item} /\ listed' = listed /\ began' = began /\ UNCHANGED vars
    BY <1>1, <1>2, LevelOpened
  <1>4. item \notin opened /\ began # {NoRequest}
    BY <1>1, <1>2 DEF Nested, BeganTrue
  <1>5. \A f \in ListOf(item) : f \in DOMAIN webdiff_files /\ ItemAbove(f) = item
    BY DEF ListOf
  <1>6. \A f \in ListOf(item) : \A x \in shown : x.file_id # f
    BY <1>1, <1>4, <1>5 DEF Nested
  <1>7. ASSUME NEW f \in ListOf(item), NEW x, x = Item(f)
        PROVE  /\ ItemTrue(x) /\ x.version_id = item.version_id /\ x.group_id # 0 /\ x.parent_id = f
               /\ f # 0
    BY <1>1, <1>5, <1>7, DirectoryItem, RowTypes
  <1>8. \A f : ShownRow(f).file_id = f /\ ShownRow(f).node = Node(webdiff_files[f])
    BY DEF ShownRow
  <1> HIDE DEF Item
  <1>9. ASSUME NEW x \in New
        PROVE  /\ ItemTrue(x) /\ x.version_id = item.version_id /\ x.group_id # 0 /\ x.parent_id # 0
               /\ x.parent_id \in ListOf(item)
    BY <1>7
  <1>10. ASSUME NEW y \in Rows
         PROVE  y.file_id \in ListOf(item) /\ y = ShownRow(y.file_id) /\ y.node = Node(webdiff_files[y.file_id])
    BY <1>8
  <1>11. \A f \in ListOf(item) : \E y \in Rows : y.file_id = f
    BY <1>8
  <1> HIDE DEF New, Rows, Full
  <1>12. ItemsTrue'
    <2>1. \A x \in todo' \cup opened' : ItemTrue(x)
      BY <1>1, <1>2, <1>3, <1>9 DEF ItemsTrue
    <2>2. \A x \in todo' \cup opened' : ItemTrue(x)'
      BY <1>3, <2>1, TablesSame
    <2> QED  BY <2>2 DEF ItemsTrue
  <1>13. RowsTrue'
    <2>1. \A x \in shown' : x.file_id \in DOMAIN webdiff_files /\ Node(webdiff_files[x.file_id]) = x.node
      BY <1>1, <1>3, <1>5, <1>10 DEF RowsTrue
    <2>2. \A x \in shown' : Node(webdiff_files[x.file_id])' = Node(webdiff_files[x.file_id])
      BY <1>3, TablesSame
    <2>3. webdiff_files' = webdiff_files
      BY <1>3, TablesSame
    <2> QED  BY <2>1, <2>2, <2>3 DEF RowsTrue
  <1>14. Nested'
    <2>1. \A x \in New : x \notin todo \cup opened
      BY <1>1, <1>6, <1>9 DEF Nested
    <2>2. todo' \cap opened' = {}
      BY <1>1, <1>2, <1>3, <2>1 DEF Nested
    <2>3. ASSUME NEW x \in todo' \cup opened'
          PROVE  /\ x.group_id # 0 => ItemOf(x.version_id, 0, 0)' \in opened'
                 /\ x.parent_id # 0 => \E y \in shown' : y.file_id = x.parent_id
      <3>1. ItemOf(x.version_id, 0, 0)' = ItemOf(x.version_id, 0, 0)
        BY <1>3, TablesSame
      <3>2. CASE x \in todo \cup opened
        BY <1>1, <1>3, <3>1, <3>2 DEF Nested
      <3>3. CASE x \in New
        <4>1. x.version_id = item.version_id /\ x.parent_id \in ListOf(item)
          BY <1>9, <3>3
        <4>2. ItemOf(item.version_id, 0, 0) \in opened
          BY <1>1, <1>2 DEF Nested
        <4> QED  BY <1>3, <1>11, <3>1, <4>1, <4>2
      <3> QED  BY <1>2, <1>3, <3>2, <3>3
    <2>4. \A x \in shown' : ItemAbove(x.file_id)' \in opened'
      <3>1. \A x \in shown' : ItemAbove(x.file_id)' = ItemAbove(x.file_id)
        BY <1>3, TablesSame
      <3>2. \A x \in shown' : ItemAbove(x.file_id) \in opened'
        BY <1>1, <1>3, <1>5, <1>10 DEF Nested
      <3> QED  BY <3>1, <3>2
    <2>5. \A x, y \in shown' : x.file_id = y.file_id => x = y
      BY <1>1, <1>3, <1>6, <1>10 DEF Nested
    <2> QED  BY ONLY <2>2, <2>3, <2>4, <2>5 DEF Nested
  <1>15. BeganTrue'
    BY <1>1, <1>3, <1>4, TablesSame DEF BeganTrue
  <1>16. Stored' = Stored /\ Began' = Began
    BY <1>3, TablesSame DEF Began
  <1>17. ListedTrue'
    BY <1>1, <1>3, <1>16 DEF ListedTrue
  <1>18. ASSUME NEW r \in began, NEW n \in Needs(r)
         PROVE  \/ \E x \in shown' : x.node = n
                \/ \E i \in todo' : Below(i, n)
                \/ \E x \in shown' : CutAbove(x, n)
    <2>1. CASE Below(item, n)
      <3>1. r \in Requests /\ Needs(r) \subseteq Stored
        BY <1>4, BeganStored
      <3> QED  BY <1>2, <2>1, <3>1, LevelCovered
    <2>2. CASE ~Below(item, n)
      <3>1. Covered(n)
        BY <1>1, <1>4 DEF BeganCovered, Began
      <3> QED  BY <1>3, <2>2, <3>1 DEF Covered
    <2> QED  BY <2>1, <2>2
  <1>19. BeganCovered'
    <2>1. \A n \in Began : Covered(n)'
      BY <1>18 DEF Began, Covered
    <2> QED  BY <1>16, <2>1 DEF BeganCovered
  <1> QED  BY <1>12, <1>13, <1>14, <1>15, <1>17, <1>19 DEF PageInv


-----------------------------------------------------------------------------
(* The page *)

\* The strengthened invariant holds in every state of the page and the server.
LEMMA PageInvariant == BrowseSpec => [](AckInv /\ PageInv)
  <1>1. BrowseInit => Init /\ PageInv
    BY DEF BrowseInit, PageInv, ItemsTrue, RowsTrue, Nested, BeganTrue, ListedTrue, BeganCovered
  <1>2. [BrowseNext]_bvars => [Next]_vars
    BY DEF BrowseNext, bvars, Browsing, Load, ExpandVersion, ExpandFiles, Collapse
  <1>3. BrowseSpec => Spec
    BY <1>1, <1>2, PTL DEF BrowseSpec, Spec
  <1>4. ASSUME AckInv, PageInv, [BrowseNext]_bvars PROVE PageInv'
    <2>0. TreeInv
      BY <1>4 DEF AckInv
    <2>1. CASE Next /\ UNCHANGED page
      BY <1>4, <2>0, <2>1, ServerStep
    <2>2. CASE Load
      BY <1>4, <2>2, LoadStep
    <2>3. ASSUME NEW item \in todo, ExpandVersion(item) PROVE PageInv'
      BY <1>4, <2>3, VersionStep
    <2>4. ASSUME NEW item \in todo, ExpandFiles(item) PROVE PageInv'
      BY <1>4, <2>4, LevelStep
    <2>5. ASSUME NEW item \in opened, Collapse(item) PROVE PageInv'
      <3>1. ItemsTrue' /\ RowsTrue' /\ Nested'
        BY <1>4, <2>0, <2>5, CollapseNested
      <3>2. BeganTrue' /\ ListedTrue' /\ BeganCovered'
        BY <1>4, <2>5, CollapseCovered
      <3> QED  BY <3>1, <3>2 DEF PageInv
    <2>6. CASE UNCHANGED bvars
      <3>1. UNCHANGED vars /\ UNCHANGED <<todo, opened, shown, listed, began>>
        BY <2>6 DEF bvars, page
      <3>2. ItemsTrue'
        BY <1>4, <3>1, TablesSame DEF PageInv, ItemsTrue
      <3>3. RowsTrue'
        BY <1>4, <3>1, TablesSame DEF PageInv, RowsTrue
      <3>4. Nested'
        <4>1. /\ \A x \in todo \cup opened : ItemOf(x.version_id, 0, 0)' = ItemOf(x.version_id, 0, 0)
              /\ \A x \in shown : ItemAbove(x.file_id)' = ItemAbove(x.file_id)
          BY <3>1, TablesSame
        <4>2. Nested
          BY <1>4 DEF PageInv
        <4> QED  BY ONLY <3>1, <4>1, <4>2 DEF Nested
      <3>5. BeganTrue'
        BY <1>4, <3>1, TablesSame DEF PageInv, BeganTrue
      <3>6. ListedTrue'
        BY <1>4, <3>1, TablesSame DEF PageInv, ListedTrue, Began
      <3>7. BeganCovered'
        BY <1>4, <3>1 DEF PageInv, BeganCovered, Began, Covered
      <3> QED  BY <3>2, <3>3, <3>4, <3>5, <3>6, <3>7 DEF PageInv
    <2> QED  BY <1>4, <2>1, <2>2, <2>3, <2>4, <2>5, <2>6 DEF BrowseNext, Browsing
  <1> QED  BY <1>1, <1>3, <1>4, AckInvariant, PTL DEF BrowseSpec

\* The page says the truth about the tables: every row it shows has the name the page put
\* together for it, level by level, and is shown once, and the amount of a group that
\* /api/groups/ gave lies between what was acknowledged and what is stored; for any
\* number of uploads, crashes and restarts between the requests of the page.
THEOREM ShownIsTrue == BrowseSpec => []ShownTruly
  <1>1. ASSUME AckInv, PageInv PROVE ShownTruly
    <2>1. RowsTrue /\ Nested /\ ListedTrue /\ TreeInv
      BY <1>1 DEF PageInv, AckInv
    <2>2. \A x \in shown : x.file_id \in DOMAIN webdiff_files /\ Node(webdiff_files[x.file_id]) = x.node
      BY <2>1 DEF RowsTrue
    <2>3. ASSUME NEW x \in shown, NEW y \in shown, x.file_id = y.file_id \/ x.node = y.node PROVE x = y
      <3>1. x.file_id = y.file_id
        BY <2>1, <2>2, <2>3, NodeInjective
      <3> QED  BY <2>1, <3>1 DEF Nested
    <2>4. ASSUME NEW l \in listed
          PROVE  /\ l.amount <= Cardinality(Of(Stored, l.version, l.group))
                 /\ l.amount >= Cardinality(Of(Began, l.version, l.group)) /\ l.amount > 0
      BY <2>1 DEF ListedTrue
    <2> QED  BY <2>2, <2>3, <2>4 DEF ShownTruly, Of, Began
  <1> QED  BY <1>1, PageInvariant, PTL

\* A page whose items are all open shows all that was acknowledged before it was loaded, or
\* a row above it that a crash of an upload has left without a plus: opening and closing
\* items in any order, with uploads and restarts in between, hides nothing else.
THEOREM WalkIsComplete == BrowseSpec => []WalkComplete
  <1>1. ASSUME PageInv PROVE WalkComplete
    <2> SUFFICES ASSUME began # {NoRequest}, todo = {}, NEW r \in began, NEW n \in Needs(r)
                 PROVE  \/ \E x \in shown : x.node = n
                        \/ \E x \in shown : CutAbove(x, n)
      BY DEF WalkComplete, CutAbove
    <2>1. Covered(n)
      BY <1>1 DEF PageInv, BeganCovered, Began
    <2> QED  BY <2>1 DEF Covered
  <1> QED  BY <1>1, PageInvariant, PTL
=============================================================================

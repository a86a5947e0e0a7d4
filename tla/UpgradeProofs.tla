----------------------------- MODULE UpgradeProofs -----------------------------
(***************************************************************************)
(* Proofs about the migrations: whatever crashes and clock changes come,   *)
(* the updates are done in order, none twice, and the server serves only   *)
(* with the schema its queries need.                                       *)
(***************************************************************************)
EXTENDS Upgrade, FiniteSetTheorems, SequenceTheorems, WellFoundedInduction, TLAPS

-----------------------------------------------------------------------------
(* The updates *)

\* The one column an update drops: update 2 creates it, update 7 drops it.
Dropped == <<"define_files", "file_group_id">>

LEMMA UpdateList ==
    /\ Len(Updates) = 9
    /\ Updates[1] = Update_0001 /\ Updates[2] = Update_0002 /\ Updates[3] = Update_0003
    /\ Updates[4] = Update_0004 /\ Updates[5] = Update_0005 /\ Updates[6] = Update_0006
    /\ Updates[7] = Update_0007 /\ Updates[8] = Update_0008 /\ Updates[9] = Update_0009
  BY DEF Updates

LEMMA UpdateLengths ==
    /\ Len(Update_0001) = 4 /\ Len(Update_0002) = 3 /\ Len(Update_0003) = 1
    /\ Len(Update_0004) = 2 /\ Len(Update_0005) = 1 /\ Len(Update_0006) = 1
    /\ Len(Update_0007) = 1 /\ Len(Update_0008) = 2 /\ Len(Update_0009) = 1
  BY DEF Update_0001, Update_0002, Update_0003, Update_0004, Update_0005, Update_0006,
         Update_0007, Update_0008, Update_0009

\* A statement that drops nothing, and adds no dropped column.
Growing(st) ==
    /\ st.drops = {}
    /\ Dropped \notin st.adds
    /\ \A x \in st.adds : Len(x) \in 1..3
    /\ st.adds # {}

LEMMA CreateGrows ==
    ASSUME NEW t, NEW cols, t # "define_files"
    PROVE  Growing(Create(t, cols))
  <1> DEFINE A == {<<t>>} \cup {<<t, c>> : c \in cols}
  <1>1. Create(t, cols).drops = {} /\ Create(t, cols).adds = A
    BY DEF Create
  <1>2. <<t>> \in A
    OBVIOUS
  <1>3. ASSUME NEW x \in A PROVE Len(x) \in 1..3 /\ x # Dropped
    <2>1. CASE x = <<t>>
      <3>1. Len(<<t>>) = 1 /\ Len(Dropped) = 2
        BY DEF Dropped
      <3> QED  BY <2>1, <3>1
    <2>2. ASSUME NEW c \in cols, x = <<t, c>> PROVE Len(x) \in 1..3 /\ x # Dropped
      <3>1. Len(<<t, c>>) = 2 /\ <<t, c>>[1] = t
        OBVIOUS
      <3> QED  BY <2>2, <3>1 DEF Dropped
    <2> QED  BY <1>3, <2>1, <2>2
  <1> HIDE DEF A
  <1> QED  BY <1>1, <1>2, <1>3 DEF Growing

LEMMA AddColumnGrows ==
    ASSUME NEW t, NEW c, <<t, c>> # Dropped
    PROVE  Growing(AddColumn(t, c)) /\ <<t, c>> \in AddColumn(t, c).adds
  <1>1. AddColumn(t, c).drops = {} /\ AddColumn(t, c).adds = {<<t, c>>}
    BY DEF AddColumn
  <1>2. Len(<<t, c>>) = 2
    OBVIOUS
  <1> QED  BY <1>1, <1>2 DEF Growing

LEMMA AdminRowGrows == Growing(AdminRow)
  <1>1. AdminRow.drops = {} /\ AdminRow.adds = {<<"users", "row", "admin">>}
    BY DEF AdminRow
  <1>2. Len(<<"users", "row", "admin">>) = 3 /\ Len(Dropped) = 2
    BY DEF Dropped
  <1> QED  BY <1>1, <1>2 DEF Growing

\* The statements one by one.  Update 2 creates define_files with the column that update 7 drops.
LEMMA Statements ==
    ASSUME NEW m \in 1..9, NEW j \in 1..Len(Updates[m])
    PROVE  /\ m # 7 /\ <<m, j>> # <<2, 2>> => Growing(Updates[m][j])
           /\ m = 7 => j = 1
  <1>1. CASE m = 1
    <2>1. j \in 1..4
      BY <1>1, UpdateList, UpdateLengths
    <2>2. j = 1 \/ j = 2 \/ j = 3 \/ j = 4
      BY <2>1
    <2>3. /\ Update_0001[1] = Create("users", {"username", "userpass", "role", "comment", "created"})
          /\ Update_0001[2] = AdminRow
          /\ Update_0001[3] = Create("users_tokens", {"token", "role", "userid", "created"})
          /\ Update_0001[4] = Create("versions", {"name", "comment"})
      BY DEF Update_0001
    <2>4. Growing(Update_0001[1]) /\ Growing(Update_0001[2]) /\ Growing(Update_0001[3])
          /\ Growing(Update_0001[4])
      BY <2>3, CreateGrows, AdminRowGrows
    <2> QED  BY <1>1, <2>2, <2>4, UpdateList
  <1>2. CASE m = 2
    <2>1. j = 1 \/ j = 2 \/ j = 3
      BY <1>2, UpdateList, UpdateLengths
    <2>2. /\ Update_0002[1] = Create("file_groups", {"name"})
          /\ Update_0002[3] = Create("define_files_comments",
                                     {"define_file_id", "comment", "dt_created"})
      BY DEF Update_0002
    <2>3. Growing(Update_0002[1]) /\ Growing(Update_0002[3])
      BY <2>2, CreateGrows
    <2> QED  BY <1>2, <2>1, <2>3, UpdateList
  <1>3. CASE m = 3
    <2>1. j = 1
      BY <1>3, UpdateList, UpdateLengths
    <2>2. Update_0003[1] = Create("files", {"version_id", "define_file_id"})
      BY DEF Update_0003
    <2>3. Growing(Update_0003[1])
      BY <2>2, CreateGrows
    <2> QED  BY <1>3, <2>1, <2>3, UpdateList
  <1>4. CASE m = 4
    <2>1. j = 1 \/ j = 2
      BY <1>4, UpdateList, UpdateLengths
    <2>2. /\ Update_0004[1] = AddColumn("define_files", "childs")
          /\ Update_0004[2] = AddColumn("define_files", "parent_id")
      BY DEF Update_0004
    <2>3. <<"define_files", "childs">> # Dropped /\ <<"define_files", "parent_id">> # Dropped
      BY DEF Dropped
    <2>4. Growing(Update_0004[1]) /\ Growing(Update_0004[2])
      BY <2>2, <2>3, AddColumnGrows
    <2> QED  BY <1>4, <2>1, <2>4, UpdateList
  <1>5. CASE m = 5
    <2>1. j = 1
      BY <1>5, UpdateList, UpdateLengths
    <2>2. Update_0005[1] = AddColumn("define_files", "filename")
      BY DEF Update_0005
    <2>3. <<"define_files", "filename">> # Dropped
      BY DEF Dropped
    <2>4. Growing(Update_0005[1])
      BY <2>2, <2>3, AddColumnGrows
    <2> QED  BY <1>5, <2>1, <2>4, UpdateList
  <1>6. CASE m = 6
    <2>1. j = 1
      BY <1>6, UpdateList, UpdateLengths
    <2>2. Update_0006[1] = AddColumn("files", "file_group_id")
      BY DEF Update_0006
    <2>3. <<"files", "file_group_id">> # Dropped
      BY DEF Dropped
    <2>4. Growing(Update_0006[1])
      BY <2>2, <2>3, AddColumnGrows
    <2> QED  BY <1>6, <2>1, <2>4, UpdateList
  <1>7. CASE m = 7
    BY <1>7, UpdateList, UpdateLengths
  <1>8. CASE m = 8
    <2>1. j = 1 \/ j = 2
      BY <1>8, UpdateList, UpdateLengths
    <2>2. /\ Update_0008[1] = AddColumn("files", "parent_id")
          /\ Update_0008[2] = AddColumn("files", "amount_of_children")
      BY DEF Update_0008
    <2>3. <<"files", "parent_id">> # Dropped /\ <<"files", "amount_of_children">> # Dropped
      BY DEF Dropped
    <2>4. Growing(Update_0008[1]) /\ Growing(Update_0008[2])
      BY <2>2, <2>3, AddColumnGrows
    <2> QED  BY <1>8, <2>1, <2>4, UpdateList
  <1>9. CASE m = 9
    <2>1. j = 1
      BY <1>9, UpdateList, UpdateLengths
    <2>2. Update_0009[1] = AddColumn("define_files_comments", "hided")
      BY DEF Update_0009
    <2>3. <<"define_files_comments", "hided">> # Dropped
      BY DEF Dropped
    <2>4. Growing(Update_0009[1])
      BY <2>2, <2>3, AddColumnGrows
    <2> QED  BY <1>9, <2>1, <2>4, UpdateList
  <1>10. m = 1 \/ m = 2 \/ m = 3 \/ m = 4 \/ m = 5 \/ m = 6 \/ m = 7 \/ m = 8 \/ m = 9
    OBVIOUS
  <1> QED  BY <1>1, <1>2, <1>3, <1>4, <1>5, <1>6, <1>7, <1>8, <1>9, <1>10

\* The two statements about the dropped column.
LEMMA DefineFiles ==
    /\ Updates[2][2] = Create("define_files", {"file_group_id", "filepath"})
    /\ Updates[2][2].drops = {}
    /\ \A x \in Updates[2][2].adds : Len(x) \in 1..3
  <1>1. Updates[2][2] = Create("define_files", {"file_group_id", "filepath"})
    BY UpdateList DEF Update_0002
  <1> DEFINE C == Create("define_files", {"file_group_id", "filepath"})
             A == {<<"define_files">>} \cup {<<"define_files", c>> : c \in {"file_group_id", "filepath"}}
  <1>2. C.drops = {} /\ C.adds = A
    BY DEF Create
  <1>3. \A x \in A : Len(x) \in 1..3
    OBVIOUS
  <1> HIDE DEF C, A
  <1>4. Updates[2][2] = C
    BY <1>1 DEF C
  <1> QED  BY <1>1, <1>2, <1>3, <1>4

LEMMA DropStatement ==
    Updates[7][1].adds = {} /\ Updates[7][1].drops = {Dropped} /\ Updates[7][1].needs = {Dropped}
  <1>1. Updates[7][1] = DropColumn("define_files", "file_group_id")
    BY UpdateList DEF Update_0007
  <1> QED  BY <1>1 DEF DropColumn, Dropped

LEMMA Lengths ==
    ASSUME NEW m \in 1..9
    PROVE  Len(Updates[m]) \in 1..4 /\ 1 \in 1..Len(Updates[m])
  <1>1. m = 1 \/ m = 2 \/ m = 3 \/ m = 4 \/ m = 5 \/ m = 6 \/ m = 7 \/ m = 8 \/ m = 9
    OBVIOUS
  <1>2. \/ Len(Updates[m]) = 1 \/ Len(Updates[m]) = 2
        \/ Len(Updates[m]) = 3 \/ Len(Updates[m]) = 4
    BY <1>1, UpdateList, UpdateLengths
  <1>3. \A l \in 1..4 : 1 \in 1..l
    OBVIOUS
  <1>4. Len(Updates[m]) \in 1..4
    BY <1>2
  <1> QED  BY <1>3, <1>4, Zenon

-----------------------------------------------------------------------------
(* The recursion of After and SchemaAt *)

\* Induction over the natural numbers, for a set instead of a predicate.
LEMMA AllNumbers ==
    ASSUME NEW T, 0 \in T, \A n \in Nat : n \in T => n + 1 \in T
    PROVE  Nat \subseteq T
  <1> DEFINE R == {p \in Nat \X Nat : p[1] < p[2]}
             B == Nat \ T
  <1>1. IsWellFoundedOn(R, Nat)
    <2>1. IsWellFoundedOn(OpToRel(<, Nat), Nat)
      BY NatLessThanWellFounded
    <2>2. R \cap (Nat \X Nat) \subseteq OpToRel(<, Nat)
      BY DEF OpToRel
    <2> QED  BY <2>1, <2>2, IsWellFoundedOnSubrelation
  <1>2. \A x, y \in Nat : <<y, x>> \in R <=> y < x
    OBVIOUS
  <1> HIDE DEF R
  <1>3. SUFFICES ASSUME B # {} PROVE FALSE
    OBVIOUS
  <1>4. PICK x \in B : \A y \in B : ~(<<y, x>> \in R)
    BY <1>1, <1>3, WFMin
  <1>5. x \in Nat /\ x \notin T /\ x # 0
    OBVIOUS
  <1>6. x - 1 \in Nat /\ x - 1 < x /\ (x - 1) + 1 = x
    BY <1>5
  <1>7. x - 1 \notin T
    BY <1>5, <1>6
  <1> QED  BY <1>2, <1>4, <1>5, <1>6, <1>7


\* The n-th step of the two recursions: a statement of an update, or a whole update.
Then(kind, update, n, sch) ==
    IF kind = "statement" THEN Effect(update[n], sch)
                          ELSE After(Updates[n], Len(Updates[n]), sch)

\* f holds the schemas after the first 0..k steps.
Makes(f, kind, update, k, sch) ==
    f = [n \in 0..k |-> IF n = 0 THEN sch ELSE Then(kind, update, n, f[n - 1])]

LEMMA MakesValues ==
    ASSUME NEW f, NEW kind, NEW update, NEW k \in Nat, NEW sch, Makes(f, kind, update, k, sch)
    PROVE  /\ f[0] = sch
           /\ \A n \in 1..k : f[n] = Then(kind, update, n, f[n - 1])
  BY DEF Makes

LEMMA MakesExists ==
    ASSUME NEW kind, NEW update, NEW sch
    PROVE  \A k \in Nat : \E f : Makes(f, kind, update, k, sch)
  <1> DEFINE T == {k \in Nat : \E f : Makes(f, kind, update, k, sch)}
  <1>1. 0 \in T
    <2> DEFINE f == [n \in 0..0 |-> sch]
    <2>1. Makes(f, kind, update, 0, sch)
      BY DEF Makes
    <2> QED  BY <2>1
  <1>2. ASSUME NEW k \in Nat, k \in T PROVE k + 1 \in T
    <2>1. PICK f : Makes(f, kind, update, k, sch)
      BY <1>2
    <2> DEFINE g == [n \in 0..(k + 1) |-> IF n = k + 1 THEN Then(kind, update, n, f[k]) ELSE f[n]]
    <2>2. /\ g[0] = sch
          /\ \A n \in 1..(k + 1) : g[n] = Then(kind, update, n, g[n - 1])
      <3>1. f[0] = sch /\ \A n \in 1..k : f[n] = Then(kind, update, n, f[n - 1])
        BY <2>1, MakesValues
      <3>2. \A n \in 1..k : n - 1 \in 0..(k + 1) /\ n - 1 # k + 1 /\ n \in 0..(k + 1) /\ n # k + 1
        OBVIOUS
      <3>3. \A n \in 1..k : g[n] = f[n] /\ g[n - 1] = f[n - 1]
        BY <3>2
      <3>4. g[k + 1] = Then(kind, update, k + 1, f[k])
        OBVIOUS
      <3>5. g[k] = f[k] /\ g[0] = f[0]
        OBVIOUS
      <3>6. (k + 1) - 1 = k /\ \A n \in 1..(k + 1) : n \in 1..k \/ n = k + 1
        OBVIOUS
      <3> HIDE DEF g
      <3> QED  BY <3>1, <3>3, <3>4, <3>5, <3>6
    <2>3. g = [n \in 0..(k + 1) |-> g[n]]
      OBVIOUS
    <2> HIDE DEF g
    <2>4. \A n \in 0..(k + 1) : g[n] = IF n = 0 THEN sch ELSE Then(kind, update, n, g[n - 1])
      BY <2>2
    <2>5. Makes(g, kind, update, k + 1, sch)
      BY <2>3, <2>4 DEF Makes
    <2> QED  BY <2>5
  <1>3. Nat \subseteq T
    <2> HIDE DEF T
    <2> QED  BY <1>1, <1>2, AllNumbers
  <1> QED  BY <1>3

LEMMA MakesAgree ==
    ASSUME NEW kind, NEW update, NEW sch, NEW k \in Nat, NEW l \in Nat, NEW f, NEW g,
           Makes(f, kind, update, k, sch), Makes(g, kind, update, l, sch), k <= l
    PROVE  f[k] = g[k]
  <1> DEFINE T == {n \in Nat : n <= k => f[n] = g[n]}
  <1>1. /\ f[0] = sch /\ g[0] = sch
        /\ \A n \in 1..k : f[n] = Then(kind, update, n, f[n - 1])
        /\ \A n \in 1..k : g[n] = Then(kind, update, n, g[n - 1])
    <2>1. f[0] = sch /\ \A n \in 1..k : f[n] = Then(kind, update, n, f[n - 1])
      BY MakesValues
    <2>2. g[0] = sch /\ \A n \in 1..l : g[n] = Then(kind, update, n, g[n - 1])
      BY MakesValues
    <2>3. \A n \in 1..k : n \in 1..l
      OBVIOUS
    <2> QED  BY <2>1, <2>2, <2>3
  <1>2. 0 \in T
    BY <1>1
  <1>3. ASSUME NEW n \in Nat, n \in T PROVE n + 1 \in T
    <2>1. ASSUME n + 1 <= k PROVE f[n + 1] = g[n + 1]
      <3>1. n + 1 \in 1..k /\ (n + 1) - 1 = n /\ f[n] = g[n]
        BY <1>3, <2>1
      <3> QED  BY <1>1, <3>1
    <2> QED  BY <2>1
  <1>4. Nat \subseteq T
    <2> HIDE DEF T
    <2> QED  BY <1>2, <1>3, AllNumbers
  <1> QED  BY <1>4

\* After runs one statement after the other.
LEMMA AfterStep ==
    ASSUME NEW update, NEW sch, NEW k \in Nat
    PROVE  /\ After(update, 0, sch) = sch
           /\ After(update, k + 1, sch) = Effect(update[k + 1], After(update, k, sch))
  <1> DEFINE kind == "statement"
             made(l) == CHOOSE f : Makes(f, kind, update, l, sch)
  <1>1. \A l \in Nat : Makes(made(l), kind, update, l, sch)
    BY MakesExists
  <1>2. \A l : After(update, l, sch) = made(l)[l]
    BY DEF After, Makes, Then
  <1> HIDE DEF made, kind
  <1>3. made(0)[0] = sch
    BY <1>1, MakesValues
  <1>4. k + 1 \in Nat /\ k + 1 \in 1..(k + 1) /\ (k + 1) - 1 = k /\ k <= k + 1
    OBVIOUS
  <1>5. made(k + 1)[k + 1] = Then(kind, update, k + 1, made(k + 1)[k])
    <2>1. \A n \in 1..(k + 1) : made(k + 1)[n] = Then(kind, update, n, made(k + 1)[n - 1])
      BY <1>1, <1>4, MakesValues, ZenonT(30)
    <2> QED  BY <1>4, <2>1
  <1>6. made(k)[k] = made(k + 1)[k]
    BY <1>1, <1>4, MakesAgree
  <1> QED  BY <1>2, <1>3, <1>5, <1>6 DEF Then, kind

\* SchemaAt runs one update after the other.
LEMMA SchemaStep ==
    /\ SchemaAt[0] = {}
    /\ \A v \in 0..8 : SchemaAt[v + 1] = After(Updates[v + 1], Len(Updates[v + 1]), SchemaAt[v])
  <1> DEFINE kind == "update"
             none == <<>>
             blank == {}
             made(l) == CHOOSE f : Makes(f, kind, none, l, blank)
  <1>1. \A l \in Nat : Makes(made(l), kind, none, l, blank)
    BY MakesExists
  <1>2. \A v \in 0..9 : SchemaAt[v] = made(v)[v]
    BY UpdateList DEF SchemaAt, Makes, Then
  <1> HIDE DEF made, kind, none, blank
  <1>3. made(0)[0] = blank
    BY <1>1, MakesValues
  <1>4. ASSUME NEW v \in 0..8
        PROVE  made(v + 1)[v + 1] = After(Updates[v + 1], Len(Updates[v + 1]), made(v)[v])
    <2>1. /\ v \in Nat /\ v + 1 \in Nat /\ v + 1 \in 1..(v + 1) /\ (v + 1) - 1 = v
          /\ v <= v + 1
      OBVIOUS
    <2>2. made(v + 1)[v + 1] = Then(kind, none, v + 1, made(v + 1)[v])
      <3>1. \A n \in 1..(v + 1) : made(v + 1)[n] = Then(kind, none, n, made(v + 1)[n - 1])
        BY <1>1, <2>1, MakesValues, ZenonT(30)
      <3> QED  BY <2>1, <3>1
    <2>3. made(v)[v] = made(v + 1)[v]
      BY <1>1, <2>1, MakesAgree
    <2> QED  BY <2>2, <2>3 DEF Then, kind
  <1>5. \A v \in 0..8 : v \in 0..9 /\ v + 1 \in 0..9
    OBVIOUS
  <1> QED  BY <1>2, <1>3, <1>4, <1>5, SMTT(30) DEF blank


-----------------------------------------------------------------------------
(* What is in a schema *)

\* The statements of the first n updates have left their marks.
Upgraded(n, sch) ==
    /\ \A m \in 1..n : \A j \in 1..Len(Updates[m]) : Updates[m][j].adds \ {Dropped} \subseteq sch
    /\ n >= 7 => Dropped \notin sch

Sized(sch) == \A x \in sch : Len(x) \in 1..3

\* What a statement does to any schema.
LEMMA EffectFacts ==
    ASSUME NEW m \in 1..9, NEW j \in 1..Len(Updates[m]), NEW sch, Sized(sch)
    PROVE  LET new == Effect(Updates[m][j], sch) IN
           /\ Sized(new)
           /\ sch \ {Dropped} \subseteq new
           /\ Updates[m][j].adds \ {Dropped} \subseteq new
           /\ m = 7 => Dropped \notin new
           /\ m > 7 /\ Dropped \notin sch => Dropped \notin new
  <1> DEFINE st == Updates[m][j]
  <1>1. CASE m = 7
    <2>1. st.adds = {} /\ st.drops = {Dropped}
      BY <1>1, Statements, DropStatement
    <2> HIDE DEF st
    <2> QED  BY <1>1, <2>1 DEF Effect, Sized, st
  <1>2. CASE m = 2 /\ j = 2
    <2>1. st.drops = {} /\ \A x \in st.adds : Len(x) \in 1..3
      BY <1>2, DefineFiles
    <2> HIDE DEF st
    <2> QED  BY <1>2, <2>1 DEF Effect, Sized, st
  <1>3. CASE m # 7 /\ ~(m = 2 /\ j = 2)
    <2>1. Growing(st)
      BY <1>3, Statements
    <2>2. st.drops = {} /\ Dropped \notin st.adds /\ \A x \in st.adds : Len(x) \in 1..3
      BY <2>1 DEF Growing
    <2> HIDE DEF st
    <2> QED  BY <1>3, <2>2 DEF Effect, Sized, st
  <1> QED  BY <1>1, <1>2, <1>3

\* What the first k statements of update m leave.
LEMMA AfterFacts ==
    ASSUME NEW m \in 1..9, NEW sch, Sized(sch), m > 7 => Dropped \notin sch
    PROVE  \A k \in 0..Len(Updates[m]) :
              LET new == After(Updates[m], k, sch) IN
              /\ Sized(new)
              /\ sch \ {Dropped} \subseteq new
              /\ \A j \in 1..k : Updates[m][j].adds \ {Dropped} \subseteq new
              /\ m >= 7 /\ k >= 1 => Dropped \notin new
  <1> DEFINE L == Len(Updates[m])
             new(k) == After(Updates[m], k, sch)
             P(k) == /\ Sized(new(k))
                     /\ sch \ {Dropped} \subseteq new(k)
                     /\ \A j \in 1..k : Updates[m][j].adds \ {Dropped} \subseteq new(k)
                     /\ m >= 7 /\ k >= 1 => Dropped \notin new(k)
                     /\ m > 7 => Dropped \notin new(k)
             T == {k \in Nat : k <= L => P(k)}
  <1>1. L \in 1..4
    BY Lengths
  <1>2. 0 \in T
    <2>1. new(0) = sch
      BY AfterStep
    <2> HIDE DEF new
    <2>2. P(0)
      BY <2>1
    <2> QED  BY <2>2
  <1>3. ASSUME NEW k \in Nat, k \in T PROVE k + 1 \in T
    <2> SUFFICES ASSUME k + 1 <= L PROVE P(k + 1)
      OBVIOUS
    <2>1. P(k) /\ k + 1 \in 1..L
      BY <1>1, <1>3
    <2>2. new(k + 1) = Effect(Updates[m][k + 1], new(k))
      BY AfterStep
    <2>3. k + 1 \in 1..Len(Updates[m])
      BY <2>1
    <2> HIDE DEF new, L
    <2>4. PICK old : old = new(k)
      OBVIOUS
    <2>5. Sized(old)
      BY <2>1, <2>4
    <2>6. /\ Sized(new(k + 1))
          /\ old \ {Dropped} \subseteq new(k + 1)
          /\ Updates[m][k + 1].adds \ {Dropped} \subseteq new(k + 1)
          /\ m = 7 => Dropped \notin new(k + 1)
          /\ m > 7 /\ Dropped \notin old => Dropped \notin new(k + 1)
      <3> DEFINE q == k + 1
                 next == Effect(Updates[m][q], old)
      <3>1. q \in 1..Len(Updates[m])
        BY <2>3
      <3>2. next = new(q)
        BY <2>2, <2>4
      <3> HIDE DEF q
      <3>3. /\ Sized(next)
            /\ old \ {Dropped} \subseteq next
            /\ Updates[m][q].adds \ {Dropped} \subseteq next
            /\ m = 7 => Dropped \notin next
            /\ m > 7 /\ Dropped \notin old => Dropped \notin next
        BY <2>5, <3>1, EffectFacts
      <3> HIDE DEF next
      <3> QED  BY <3>2, <3>3 DEF q
    <2>7. sch \ {Dropped} \subseteq new(k + 1)
      BY <2>1, <2>4, <2>6
    <2>8. ASSUME NEW j \in 1..(k + 1)
          PROVE  Updates[m][j].adds \ {Dropped} \subseteq new(k + 1)
      <3>1. CASE j = k + 1
        BY <2>6, <3>1
      <3>2. CASE j # k + 1
        <4>1. j \in 1..k
          BY <3>2
        <4>2. Updates[m][j].adds \ {Dropped} \subseteq old
          BY <2>1, <2>4, <4>1
        <4> QED  BY <2>6, <4>2
      <3> QED  BY <3>1, <3>2
    <2>9. m >= 7 => Dropped \notin new(k + 1)
      BY <2>1, <2>4, <2>6
    <2> QED  BY <2>6, <2>7, <2>8, <2>9
  <1>4. Nat \subseteq T
    <2> HIDE DEF T
    <2> QED  BY <1>2, <1>3, AllNumbers
  <1>5. \A k \in 0..L : k \in Nat /\ k <= L
    BY <1>1
  <1>6. \A k \in 0..L : P(k)
    <2> HIDE DEF P, L
    <2> QED  BY <1>4, <1>5
  <1> QED  BY <1>6

\* What the schema of a version has.
LEMMA SchemaFacts ==
    \A n \in 0..9 : Sized(SchemaAt[n]) /\ Upgraded(n, SchemaAt[n])
  <1> DEFINE T == {n \in Nat : n <= 9 => Sized(SchemaAt[n]) /\ Upgraded(n, SchemaAt[n])}
  <1>1. 0 \in T
    BY SchemaStep, SMTT(30) DEF Sized, Upgraded
  <1>2. ASSUME NEW n \in Nat, n \in T PROVE n + 1 \in T
    <2> SUFFICES ASSUME n + 1 <= 9
                 PROVE  Sized(SchemaAt[n + 1]) /\ Upgraded(n + 1, SchemaAt[n + 1])
      OBVIOUS
    <2>1. Sized(SchemaAt[n]) /\ Upgraded(n, SchemaAt[n]) /\ n \in 0..8 /\ n + 1 \in 1..9
      BY <1>2
    <2> DEFINE L == Len(Updates[n + 1])
               new == After(Updates[n + 1], L, SchemaAt[n])
    <2>2. SchemaAt[n + 1] = new
      BY <2>1, SchemaStep
    <2>3. L \in 1..4
      BY <2>1, Lengths
    <2>4. n + 1 > 7 => Dropped \notin SchemaAt[n]
      BY <2>1 DEF Upgraded
    <2>5. L \in 0..L
      BY <2>3
    <2>6. /\ Sized(new)
          /\ SchemaAt[n] \ {Dropped} \subseteq new
          /\ \A j \in 1..L : Updates[n + 1][j].adds \ {Dropped} \subseteq new
          /\ n + 1 >= 7 /\ L >= 1 => Dropped \notin new
      BY <2>1, <2>4, <2>5, AfterFacts
    <2> HIDE DEF new, L
    <2>7. Upgraded(n + 1, new)
      <3>1. ASSUME NEW m \in 1..(n + 1), NEW j \in 1..Len(Updates[m])
            PROVE  Updates[m][j].adds \ {Dropped} \subseteq new
        <4>1. CASE m = n + 1
          BY <2>6, <4>1 DEF L
        <4>2. CASE m # n + 1
          <5>1. m \in 1..n
            BY <4>2
          <5>2. Updates[m][j].adds \ {Dropped} \subseteq SchemaAt[n]
            BY <2>1, <5>1 DEF Upgraded
          <5> QED  BY <2>6, <5>2
        <4> QED  BY <4>1, <4>2
      <3>2. n + 1 >= 7 => Dropped \notin new
        BY <2>3, <2>6
      <3> QED  BY ONLY <3>1, <3>2 DEF Upgraded
    <2> QED  BY <2>2, <2>6, <2>7
  <1>3. Nat \subseteq T
    <2> HIDE DEF T
    <2> QED  BY <1>1, <1>2, AllNumbers
  <1> QED  BY <1>3


\* An update that is done does not start again: its first statement fails.
LEMMA Blocked ==
    ASSUME NEW n \in 0..9, NEW sch, Upgraded(n, sch), NEW m \in 1..n
    PROVE  ~Runs(Updates[m][1], sch)
  <1>m. m \in 1..9
    OBVIOUS
  <1>1. m \in 1..9 /\ Len(Updates[m]) \in 1..4
    BY <1>m, Lengths
  <1>2. 1 \in 1..Len(Updates[m])
    BY <1>m, Lengths
  <1>3. CASE m = 7
    <2>1. Dropped \notin sch
      BY <1>3 DEF Upgraded
    <2> QED  BY <1>3, <2>1, DropStatement DEF Runs
  <1>4. CASE m # 7
    <2>1. Growing(Updates[m][1])
      <3>1. <<m, 1>> # <<2, 2>>
        OBVIOUS
      <3> QED  BY <1>1, <1>2, <1>4, <3>1, Statements
    <2>2. Updates[m][1].adds \ {Dropped} \subseteq sch
      BY <1>2 DEF Upgraded
    <2>3. PICK x \in Updates[m][1].adds : x # Dropped
      BY <2>1 DEF Growing
    <2>4. x \in sch
      BY <2>2, <2>3
    <2> QED  BY <2>4 DEF Runs
  <1> QED  BY <1>3, <1>4

\* Nor does one that was cut short, and the updates before it stay done.
LEMMA CutShortBlocked ==
    ASSUME NEW n \in 0..8, NEW k \in 1..Len(Updates[n + 1])
    PROVE  LET sch == After(Updates[n + 1], k, SchemaAt[n]) IN
           /\ Sized(sch)
           /\ Upgraded(n, sch)
           /\ ~Runs(Updates[n + 1][1], sch)
  <1> DEFINE m == n + 1
             sch == After(Updates[m], k, SchemaAt[n])
  <1>1. n \in 0..9 /\ m \in 1..9 /\ Len(Updates[m]) \in 1..4
    BY Lengths, SMTT(30)
  <1>2. Sized(SchemaAt[n]) /\ Upgraded(n, SchemaAt[n])
    BY <1>1, SchemaFacts
  <1>3. m > 7 => Dropped \notin SchemaAt[n]
    BY <1>2 DEF Upgraded
  <1>4. k \in 0..Len(Updates[m]) /\ k >= 1 /\ 1 \in 1..k
    BY <1>1
  <1>5. /\ Sized(sch)
        /\ SchemaAt[n] \ {Dropped} \subseteq sch
        /\ \A j \in 1..k : Updates[m][j].adds \ {Dropped} \subseteq sch
        /\ m >= 7 /\ k >= 1 => Dropped \notin sch
    <2> HIDE DEF m
    <2> QED  BY <1>1, <1>2, <1>3, <1>4, AfterFacts
  <1> HIDE DEF sch
  <1>6. Upgraded(n, sch)
    <2>1. n >= 7 => Dropped \notin sch
      BY <1>4, <1>5
    <2> QED  BY <1>2, <1>5, <2>1 DEF Upgraded
  <1>7. ~Runs(Updates[m][1], sch)
    <2>1. CASE m = 7
      <3>1. Dropped \notin sch
        BY <1>4, <1>5, <2>1
      <3> QED  BY <2>1, <3>1, DropStatement DEF Runs
    <2>2. CASE m # 7
      <3>1. Growing(Updates[m][1])
        <4>1. <<m, 1>> # <<2, 2>> /\ 1 \in 1..Len(Updates[m])
          BY <1>1
        <4> HIDE DEF m
        <4> QED  BY <1>1, <2>2, <4>1, Statements
      <3>2. PICK x \in Updates[m][1].adds : x # Dropped
        BY <3>1 DEF Growing
      <3>3. x \in sch
        BY <1>4, <1>5, <3>2
      <3> QED  BY <3>3 DEF Runs
    <2> QED  BY <2>1, <2>2
  <1> QED  BY <1>5, <1>6, <1>7 DEF sch

\* All columns the queries name are added by some statement.
LEMMA FullSchema ==
    ASSUME NEW sch, Upgraded(9, sch)
    PROVE  Queried \subseteq sch /\ Dropped \notin sch
  <1>1. ASSUME NEW m \in 1..9, NEW j \in 1..Len(Updates[m]), NEW x \in Updates[m][j].adds,
               x # Dropped
        PROVE  x \in sch
    BY <1>1 DEF Upgraded
  <1>2. <<"versions", "name">> \in sch /\ <<"versions", "comment">> \in sch
    <2>1. Updates[1][4] = Create("versions", {"name", "comment"}) /\ 4 \in 1..Len(Updates[1])
      BY UpdateList, UpdateLengths DEF Update_0001
    <2>2. <<"versions", "name">> \in Updates[1][4].adds
          /\ <<"versions", "comment">> \in Updates[1][4].adds
      BY <2>1 DEF Create
    <2>3. <<"versions", "name">> # Dropped /\ <<"versions", "comment">> # Dropped
      BY DEF Dropped
    <2> QED  BY <1>1, <2>1, <2>2, <2>3
  <1>3. <<"file_groups", "name">> \in sch
    <2>1. Updates[2][1] = Create("file_groups", {"name"}) /\ 1 \in 1..Len(Updates[2])
      BY UpdateList, UpdateLengths DEF Update_0002
    <2>2. <<"file_groups", "name">> \in Updates[2][1].adds
      BY <2>1 DEF Create
    <2>3. <<"file_groups", "name">> # Dropped
      BY DEF Dropped
    <2> QED  BY <1>1, <2>1, <2>2, <2>3
  <1>4. <<"define_files", "filepath">> \in sch
    <2>1. Updates[2][2] = Create("define_files", {"file_group_id", "filepath"})
          /\ 2 \in 1..Len(Updates[2])
      BY UpdateList, UpdateLengths DEF Update_0002
    <2>2. <<"define_files", "filepath">> \in Updates[2][2].adds
      BY <2>1 DEF Create
    <2>3. <<"define_files", "filepath">> # Dropped
      BY DEF Dropped
    <2> QED  BY <1>1, <2>1, <2>2, <2>3
  <1>5. /\ <<"define_files_comments", "define_file_id">> \in sch
        /\ <<"define_files_comments", "comment">> \in sch
        /\ <<"define_files_comments", "dt_created">> \in sch
    <2>1. /\ Updates[2][3] = Create("define_files_comments",
                                    {"define_file_id", "comment", "dt_created"})
          /\ 3 \in 1..Len(Updates[2])
      BY UpdateList, UpdateLengths DEF Update_0002
    <2>2. /\ <<"define_files_comments", "define_file_id">> \in Updates[2][3].adds
          /\ <<"define_files_comments", "comment">> \in Updates[2][3].adds
          /\ <<"define_files_comments", "dt_created">> \in Updates[2][3].adds
      BY <2>1 DEF Create
    <2>3. /\ <<"define_files_comments", "define_file_id">> # Dropped
          /\ <<"define_files_comments", "comment">> # Dropped
          /\ <<"define_files_comments", "dt_created">> # Dropped
      BY DEF Dropped
    <2> QED  BY <1>1, <2>1, <2>2, <2>3
  <1>6. <<"files", "version_id">> \in sch /\ <<"files", "define_file_id">> \in sch
    <2>1. Updates[3][1] = Create("files", {"version_id", "define_file_id"})
          /\ 1 \in 1..Len(Updates[3])
      BY UpdateList, UpdateLengths DEF Update_0003
    <2>2. <<"files", "version_id">> \in Updates[3][1].adds
          /\ <<"files", "define_file_id">> \in Updates[3][1].adds
      BY <2>1 DEF Create
    <2>3. <<"files", "version_id">> # Dropped /\ <<"files", "define_file_id">> # Dropped
      BY DEF Dropped
    <2> QED  BY <1>1, <2>1, <2>2, <2>3
  <1>7. <<"define_files", "parent_id">> \in sch /\ <<"define_files", "filename">> \in sch
    <2>1. /\ Updates[4][2] = AddColumn("define_files", "parent_id") /\ 2 \in 1..Len(Updates[4])
          /\ Updates[5][1] = AddColumn("define_files", "filename") /\ 1 \in 1..Len(Updates[5])
      BY UpdateList, UpdateLengths DEF Update_0004, Update_0005
    <2>2. <<"define_files", "parent_id">> \in Updates[4][2].adds
          /\ <<"define_files", "filename">> \in Updates[5][1].adds
      BY <2>1 DEF AddColumn
    <2>3. <<"define_files", "parent_id">> # Dropped /\ <<"define_files", "filename">> # Dropped
      BY DEF Dropped
    <2> QED  BY <1>1, <2>1, <2>2, <2>3
  <1>8. /\ <<"files", "file_group_id">> \in sch
        /\ <<"files", "parent_id">> \in sch /\ <<"files", "amount_of_children">> \in sch
    <2>1. /\ Updates[6][1] = AddColumn("files", "file_group_id") /\ 1 \in 1..Len(Updates[6])
          /\ Updates[8][1] = AddColumn("files", "parent_id") /\ 1 \in 1..Len(Updates[8])
          /\ Updates[8][2] = AddColumn("files", "amount_of_children")
          /\ 2 \in 1..Len(Updates[8])
      BY UpdateList, UpdateLengths DEF Update_0006, Update_0008
    <2>2. /\ <<"files", "file_group_id">> \in Updates[6][1].adds
          /\ <<"files", "parent_id">> \in Updates[8][1].adds
          /\ <<"files", "amount_of_children">> \in Updates[8][2].adds
      BY <2>1 DEF AddColumn
    <2>3. /\ <<"files", "file_group_id">> # Dropped /\ <<"files", "parent_id">> # Dropped
          /\ <<"files", "amount_of_children">> # Dropped
      BY DEF Dropped
    <2> QED  BY <1>1, <2>1, <2>2, <2>3
  <1>9. <<"define_files_comments", "hided">> \in sch
    <2>1. Updates[9][1] = AddColumn("define_files_comments", "hided") /\ 1 \in 1..Len(Updates[9])
      BY UpdateList, UpdateLengths DEF Update_0009
    <2>2. <<"define_files_comments", "hided">> \in Updates[9][1].adds
      BY <2>1 DEF AddColumn
    <2>3. <<"define_files_comments", "hided">> # Dropped
      BY DEF Dropped
    <2> QED  BY <1>1, <2>1, <2>2, <2>3
  <1>10. Dropped \notin sch
    BY DEF Upgraded
  <1> QED  BY <1>2, <1>3, <1>4, <1>5, <1>6, <1>7, <1>8, <1>9, <1>10 DEF Queried


-----------------------------------------------------------------------------
(* The last row of webdiff_db_updates *)

\* A nonempty set of numbers has a least one.
LEMMA LeastNumber ==
    ASSUME NEW T, T \subseteq Nat, T # {}
    PROVE  \E x \in T : \A y \in T : x <= y
  <1> DEFINE R == {p \in Nat \X Nat : p[1] < p[2]}
  <1>1. IsWellFoundedOn(R, Nat)
    <2>1. IsWellFoundedOn(OpToRel(<, Nat), Nat)
      BY NatLessThanWellFounded
    <2>2. R \cap (Nat \X Nat) \subseteq OpToRel(<, Nat)
      BY DEF OpToRel
    <2> QED  BY <2>1, <2>2, IsWellFoundedOnSubrelation
  <1>2. \A x, y \in Nat : <<y, x>> \in R <=> y < x
    OBVIOUS
  <1> HIDE DEF R
  <1>3. PICK x \in T : \A y \in T : ~(<<y, x>> \in R)
    BY <1>1, WFMin
  <1>4. \A y \in T : ~(y < x)
    BY <1>2, <1>3
  <1> QED  BY <1>4

\* ORDER BY dt DESC, version DESC: there is a first row, and it is one of the table.
LEMMA LastRowIn ==
    ASSUME NEW table, table # {}, NEW V \in Nat, NEW D \in Nat,
           \A r \in table : r.version \in 0..V /\ r.dt \in 0..D
    PROVE  LastRow(table) \in table
  <1> DEFINE A == {D - r.dt : r \in table}
  <1>1. A \subseteq Nat /\ A # {}
    OBVIOUS
  <1>2. PICK a \in A : \A b \in A : a <= b
    <2> HIDE DEF A
    <2> QED  BY <1>1, LeastNumber
  <1>3. PICK r1 \in table : a = D - r1.dt
    OBVIOUS
  <1>4. \A q \in table : q.dt <= r1.dt
    <2> SUFFICES ASSUME NEW q \in table PROVE q.dt <= r1.dt
      OBVIOUS
    <2>1. D - r1.dt <= D - q.dt
      BY <1>2, <1>3
    <2>2. q.dt \in 0..D /\ r1.dt \in 0..D
      OBVIOUS
    <2> QED  BY ONLY <2>1, <2>2, D \in Nat
  <1> DEFINE U == {r \in table : r.dt = r1.dt}
             B == {V - r.version : r \in U}
  <1>5. B \subseteq Nat /\ B # {}
    OBVIOUS
  <1>6. PICK b \in B : \A c \in B : b <= c
    <2> HIDE DEF B
    <2> QED  BY <1>5, LeastNumber
  <1>7. PICK r2 \in U : b = V - r2.version
    OBVIOUS
  <1>8. \A q \in U : q.version <= r2.version
    <2> SUFFICES ASSUME NEW q \in U PROVE q.version <= r2.version
      OBVIOUS
    <2>1. V - r2.version <= V - q.version
      BY <1>6, <1>7
    <2>2. q.version \in 0..V /\ r2.version \in 0..V
      OBVIOUS
    <2> QED  BY ONLY <2>1, <2>2, V \in Nat
  <1>9. \A q \in table : q.dt < r2.dt \/ (q.dt = r2.dt /\ q.version <= r2.version)
    BY <1>4, <1>7, <1>8
  <1>10. \E r \in table : \A q \in table :
            q.dt < r.dt \/ (q.dt = r.dt /\ q.version <= r.version)
    BY <1>7, <1>9
  <1> QED  BY <1>10 DEF LastRow

-----------------------------------------------------------------------------
(* The invariant *)

\* How many updates are recorded.
Done == Cardinality(webdiff_db_updates)

\* The for loop: what it has passed was not due; an update it has begun is the next one and
\* its statements so far are done, or it is not and its first statement will fail.
LoopInv ==
    /\ nDbVersion <= Done
    /\ pc = "scan" => i >= 1
    /\ pc = "scan" /\ ~bFoundUpdate => \A j \in 1..9 : j < i => j - 1 # nDbVersion
    /\ pc = "apply" =>
          /\ i = nDbVersion + 1 /\ i \in 1..9 /\ s \in 0..Len(Updates[i])
          /\ \/ i = Done + 1 /\ schema = After(Updates[i], s, SchemaAt[Done])
             \/ s = 0 /\ ~Runs(Updates[i][1], schema)
    /\ pc = "serving" => nDbVersion = 9

UpInv ==
    /\ TypeOK /\ UpdatesInOrder /\ LoopInv
    /\ IsFiniteSet(webdiff_db_updates) /\ Done \in 0..9


\* The schema of every state the invariant allows.
LEMMA SchemaNow ==
    ASSUME UpInv
    PROVE  /\ Upgraded(Done, schema)
           /\ \/ schema = SchemaAt[Done]
              \/ Done \in 0..8 /\ ~Runs(Updates[Done + 1][1], schema)
  <1> DEFINE n == Done
  <1>1. n \in 0..9
    BY DEF UpInv
  <1>2. CASE schema = SchemaAt[n]
    BY <1>1, <1>2, SchemaFacts
  <1>3. CASE n < Len(Updates) /\ \E k \in 1..Len(Updates[n + 1]) :
                                    schema = After(Updates[n + 1], k, SchemaAt[n])
    <2>1. n \in 0..8
      BY <1>1, <1>3, UpdateList
    <2>2. PICK k \in 1..Len(Updates[n + 1]) : schema = After(Updates[n + 1], k, SchemaAt[n])
      BY <1>3
    <2> HIDE DEF n
    <2>3. Upgraded(n, schema) /\ ~Runs(Updates[n + 1][1], schema)
      BY <2>1, <2>2, CutShortBlocked
    <2> QED  BY <2>1, <2>3 DEF n
  <1> QED  BY <1>2, <1>3 DEF UpInv, UpdatesInOrder, Done

\* The database as it was, the loop abandoned.
LEMMA UpInvDown ==
    ASSUME UpInv, UNCHANGED disk, now' \in 0..MaxTime, pc' = "down" \/ pc' = "last",
           nDbVersion' = 0, bFoundUpdate' = FALSE, i' = 0, s' = 0,
           crashes' \in 0..MaxCrashes, backs' \in 0..MaxBacks
    PROVE  UpInv'
  <1>1. schema' = schema /\ hasUpdatesTable' = hasUpdatesTable
        /\ webdiff_db_updates' = webdiff_db_updates
    BY DEF disk
  <1>2. Done' = Done /\ Done \in 0..9
    BY <1>1 DEF Done, UpInv
  <1>3. TypeOK'
    <2>1. 0 \in 0..Len(Updates) /\ 0 \in 0..Len(Updates) + 1
      BY UpdateList
    <2>2. TypeOK
      BY DEF UpInv
    <2>3. 0 \in 0..4 /\ pc' \in {"down", "last", "scan", "apply", "serving"}
      OBVIOUS
    <2>4. hasUpdatesTable' \in BOOLEAN /\ bFoundUpdate' \in BOOLEAN
      BY <1>1, <2>2, Zenon DEF TypeOK
    <2>5. /\ \A x \in schema' : Len(x) \in 1..3
          /\ \A r \in webdiff_db_updates' : r.version \in 1..Len(Updates) /\ r.dt \in 0..MaxTime
      BY <1>1, <2>2 DEF TypeOK
    <2> QED  BY <2>1, <2>3, <2>4, <2>5 DEF TypeOK
  <1>4. UpdatesInOrder'
    BY <1>1 DEF UpInv, UpdatesInOrder, Recorded
  <1>5. LoopInv'
    BY <1>2 DEF LoopInv
  <1>6. IsFiniteSet(webdiff_db_updates')
    BY <1>1 DEF UpInv
  <1> QED  BY <1>2, <1>3, <1>4, <1>5, <1>6 DEF UpInv

LEMMA UpInit == Init => UpInv
  <1> SUFFICES ASSUME Init PROVE UpInv
    OBVIOUS
  <1>1. PICK v \in 0..9 : /\ schema = SchemaAt[v]
                          /\ webdiff_db_updates = {[version |-> u, dt |-> 0] : u \in 1..v}
                          /\ hasUpdatesTable = (v > 0)
    BY UpdateList DEF Init
  <1> DEFINE W == {[version |-> u, dt |-> 0] : u \in 1..v}
             f == [u \in 1..v |-> [version |-> u, dt |-> 0]]
  <1>2. IsFiniteSet(W) /\ Cardinality(W) = v
    <2>1. IsFiniteSet(1..v) /\ Cardinality(1..v) = v
      <3>1. v \in Int /\ 1 \in Int /\ (IF 1 > v THEN 0 ELSE v - 1 + 1) = v
        OBVIOUS
      <3> QED  BY <3>1, FS_Interval
    <2>2. \A a, b \in 1..v : f[a] = f[b] => a = b
      <3>1. \A a \in 1..v : f[a].version = a
        OBVIOUS
      <3> QED  BY <3>1
    <2>3. f \in [1..v -> W] /\ \A w \in W : \E u \in 1..v : f[u] = w
      OBVIOUS
    <2> HIDE DEF f, W
    <2>4. f \in Bijection(1..v, W)
      BY <2>2, <2>3 DEF Bijection, Injection, Surjection, IsInjective
    <2> QED  BY <2>1, <2>4, FS_Bijection DEF ExistsBijection
  <1>3. Done = v /\ Done \in 0..9
    BY <1>1, <1>2 DEF Done
  <1>4. Recorded = 1..v
    <2>1. \A u : u \in Recorded <=> \E r \in W : r.version = u
      BY <1>1 DEF Recorded
    <2>2. \A u \in 1..v : [version |-> u, dt |-> 0] \in W /\ [version |-> u, dt |-> 0].version = u
      OBVIOUS
    <2>3. \A r \in W : r.version \in 1..v
      OBVIOUS
    <2> HIDE DEF W
    <2> QED  BY <2>1, <2>2, <2>3
  <1>5. UpdatesInOrder
    BY <1>1, <1>3, <1>4 DEF UpdatesInOrder, Done
  <1>6. TypeOK
    <2>1. \A x \in schema : Len(x) \in 1..3
      BY <1>1, SchemaFacts DEF Sized
    <2>2. \A r \in webdiff_db_updates : r.version \in 1..9 /\ r.dt \in 0..MaxTime
      BY <1>1, BoundsAssumption
    <2>3. hasUpdatesTable \in BOOLEAN
      BY <1>1
    <2>4. /\ 0 \in 0..Len(Updates) /\ 0 \in 0..Len(Updates) + 1 /\ Len(Updates) = 9
          /\ 0 \in 0..MaxTime /\ 0 \in 0..MaxCrashes /\ 0 \in 0..MaxBacks /\ 0 \in 0..4
      BY UpdateList, BoundsAssumption
    <2>5. /\ now = 0 /\ pc = "down" /\ crashes = 0 /\ backs = 0
          /\ nDbVersion = 0 /\ bFoundUpdate = FALSE /\ i = 0 /\ s = 0
      BY DEF Init
    <2> QED  BY ONLY <2>1, <2>2, <2>3, <2>4, <2>5 DEF TypeOK
  <1>7. LoopInv
    BY <1>3 DEF Init, LoopInv
  <1> QED  BY <1>1, <1>2, <1>3, <1>5, <1>6, <1>7 DEF UpInv


LEMMA DiskKept ==
    ASSUME UpInv, schema' = schema, webdiff_db_updates' = webdiff_db_updates
    PROVE  Done' = Done /\ UpdatesInOrder' /\ IsFiniteSet(webdiff_db_updates') /\ Done' \in 0..9
  BY DEF UpInv, UpdatesInOrder, Recorded, Done

\* The part of TypeOK a step that leaves the schema and the bounds alone can change.
LEMMA LocalTypes ==
    ASSUME TypeOK, UNCHANGED <<schema, webdiff_db_updates, now, crashes, backs>>,
           hasUpdatesTable' \in BOOLEAN, bFoundUpdate' \in BOOLEAN,
           pc' \in {"down", "last", "scan", "apply", "serving"},
           nDbVersion' \in 0..9, i' \in 0..10, s' \in 0..4
    PROVE  TypeOK'
  <1>1. /\ \A x \in schema' : Len(x) \in 1..3
        /\ \A r \in webdiff_db_updates' : r.version \in 1..Len(Updates) /\ r.dt \in 0..MaxTime
        /\ now' \in 0..MaxTime /\ crashes' \in 0..MaxCrashes /\ backs' \in 0..MaxBacks
    BY DEF TypeOK
  <1>2. nDbVersion' \in 0..Len(Updates) /\ i' \in 0..Len(Updates) + 1
    BY UpdateList
  <1> QED  BY <1>1, <1>2 DEF TypeOK

\* lastDatabaseVersion returns a recorded version, or 0 when there is none.
LEMMA LastDatabaseVersionStep ==
    ASSUME UpInv, LastDatabaseVersion
    PROVE  UpInv'
  <1>1. TypeOK /\ UpdatesInOrder /\ Done \in 0..9
    BY DEF UpInv
  <1>2. /\ UNCHANGED <<schema, webdiff_db_updates, now, crashes, backs>>
        /\ hasUpdatesTable' = TRUE /\ bFoundUpdate' = FALSE /\ i' = 1 /\ s' = 0 /\ pc' = "scan"
        /\ nDbVersion' = LastVersion(webdiff_db_updates)
    BY DEF LastDatabaseVersion, bounds
  <1>3. nDbVersion' \in 0..Done
    <2>1. CASE webdiff_db_updates = {}
      BY <1>1, <1>2, <2>1 DEF LastVersion
    <2>2. CASE webdiff_db_updates # {}
      <3>1. \A r \in webdiff_db_updates : r.version \in 0..9 /\ r.dt \in 0..MaxTime
        BY <1>1, UpdateList DEF TypeOK
      <3>2. LastRow(webdiff_db_updates) \in webdiff_db_updates
        BY <2>2, <3>1, BoundsAssumption, LastRowIn
      <3>3. LastRow(webdiff_db_updates).version \in Recorded
        BY <3>2 DEF Recorded
      <3>4. Recorded = 1..Done
        BY <1>1 DEF UpdatesInOrder, Done
      <3> QED  BY <1>1, <1>2, <2>2, <3>3, <3>4 DEF LastVersion
    <2> QED  BY <2>1, <2>2
  <1>4. Done' = Done /\ UpdatesInOrder' /\ IsFiniteSet(webdiff_db_updates') /\ Done' \in 0..9
    BY <1>2, DiskKept
  <1>5. TypeOK'
    <2>1. /\ hasUpdatesTable' \in BOOLEAN /\ bFoundUpdate' \in BOOLEAN
          /\ pc' \in {"down", "last", "scan", "apply", "serving"}
      BY <1>2
    <2>2. i' \in 0..10 /\ nDbVersion' \in 0..9 /\ s' \in 0..4
      BY <1>1, <1>2, <1>3
    <2> QED  BY <1>1, <1>2, <2>1, <2>2, LocalTypes
  <1>6. LoopInv'
    BY <1>1, <1>2, <1>3, <1>4 DEF LoopInv
  <1> QED  BY <1>4, <1>5, <1>6 DEF UpInv

LEMMA SkipUpdateStep ==
    ASSUME UpInv, SkipUpdate
    PROVE  UpInv'
  <1>1. TypeOK /\ LoopInv /\ Done \in 0..9
    BY DEF UpInv
  <1>2. /\ UNCHANGED <<schema, hasUpdatesTable, webdiff_db_updates, now, pc, nDbVersion,
                       bFoundUpdate, s, crashes, backs>>
        /\ pc = "scan" /\ i <= 9 /\ i - 1 # nDbVersion /\ i' = i + 1
    BY UpdateList DEF SkipUpdate, disk, bounds
  <1>3. i \in 0..10 /\ nDbVersion \in 0..9 /\ s \in 0..4
    BY <1>1, UpdateList DEF TypeOK
  <1>4. Done' = Done /\ UpdatesInOrder' /\ IsFiniteSet(webdiff_db_updates') /\ Done' \in 0..9
    BY <1>2, DiskKept
  <1>5. TypeOK'
    <2>1. hasUpdatesTable' \in BOOLEAN /\ bFoundUpdate' \in BOOLEAN
      BY <1>1, <1>2, Zenon DEF TypeOK
    <2>2. i' \in 0..10 /\ nDbVersion' \in 0..9 /\ s' \in 0..4
      BY <1>2, <1>3
    <2>3. pc' \in {"down", "last", "scan", "apply", "serving"}
      BY <1>2
    <2> QED  BY <1>1, <1>2, <2>1, <2>2, <2>3, LocalTypes
  <1>6. ASSUME ~bFoundUpdate, NEW j \in 1..9, j < i + 1 PROVE j - 1 # nDbVersion
    BY <1>1, <1>2, <1>3, <1>6 DEF LoopInv
  <1>7. LoopInv'
    BY <1>1, <1>2, <1>3, <1>4, <1>6 DEF LoopInv
  <1> QED  BY <1>4, <1>5, <1>7 DEF UpInv

\* An update is begun: the next one, or one whose first statement fails.
LEMMA BeginUpdateStep ==
    ASSUME UpInv, BeginUpdate
    PROVE  UpInv'
  <1>1. TypeOK /\ LoopInv /\ Done \in 0..9
    BY DEF UpInv
  <1>2. /\ UNCHANGED <<schema, hasUpdatesTable, webdiff_db_updates, now, nDbVersion,
                       bFoundUpdate, i, crashes, backs>>
        /\ pc = "scan" /\ i <= 9 /\ i - 1 = nDbVersion /\ s' = 0 /\ pc' = "apply"
    BY UpdateList DEF BeginUpdate, disk, bounds
  <1>3. i \in 0..10 /\ nDbVersion \in 0..9 /\ i >= 1 /\ nDbVersion <= Done
    BY <1>1, <1>2, UpdateList DEF TypeOK, LoopInv
  <1>4. Done' = Done /\ UpdatesInOrder' /\ IsFiniteSet(webdiff_db_updates') /\ Done' \in 0..9
    BY <1>2, DiskKept
  <1>5. TypeOK'
    <2>1. hasUpdatesTable' \in BOOLEAN /\ bFoundUpdate' \in BOOLEAN
      BY <1>1, <1>2, Zenon DEF TypeOK
    <2>2. i' \in 0..10 /\ nDbVersion' \in 0..9 /\ s' \in 0..4
      BY <1>2, <1>3
    <2>3. pc' \in {"down", "last", "scan", "apply", "serving"}
      BY <1>2
    <2> QED  BY <1>1, <1>2, <2>1, <2>2, <2>3, LocalTypes
  <1>6. i \in 1..9 /\ i = nDbVersion + 1 /\ (i = Done + 1 \/ i \in 1..Done)
    BY <1>1, <1>2, <1>3
  <1>7. \/ i = Done + 1 /\ schema = After(Updates[i], 0, SchemaAt[Done])
        \/ ~Runs(Updates[i][1], schema)
    <2>1. CASE i = Done + 1
      <3>1. After(Updates[i], 0, SchemaAt[Done]) = SchemaAt[Done]
        BY AfterStep
      <3> QED  BY <2>1, <3>1, SchemaNow
    <2>2. CASE i \in 1..Done
      <3>1. Upgraded(Done, schema)
        BY SchemaNow
      <3> QED  BY <1>1, <2>2, <3>1, Blocked
    <2> QED  BY <1>6, <2>1, <2>2
  <1>8. Len(Updates[i]) \in 1..4
    BY <1>6, Lengths
  <1>9. 0 \in 0..Len(Updates[i])
    <2>1. \A l \in 1..4 : 0 \in 0..l
      OBVIOUS
    <2> QED  BY <1>8, <2>1, Zenon
  <1>10. LoopInv'
    <2>1. /\ i' = nDbVersion' + 1 /\ i' \in 1..9 /\ s' \in 0..Len(Updates[i'])
          /\ nDbVersion' <= Done'
      BY <1>2, <1>3, <1>4, <1>6, <1>9
    <2>2. \/ i' = Done' + 1 /\ schema' = After(Updates[i'], s', SchemaAt[Done'])
          \/ s' = 0 /\ ~Runs(Updates[i'][1], schema')
      BY <1>2, <1>4, <1>7
    <2> QED  BY <1>2, <2>1, <2>2 DEF LoopInv
  <1> QED  BY <1>4, <1>5, <1>10 DEF UpInv


\* A statement runs only in the update that is next, after those before it.
LEMMA ExecuteStep ==
    ASSUME UpInv, Execute
    PROVE  UpInv'
  <1>1. TypeOK /\ LoopInv /\ UpdatesInOrder /\ Done \in 0..9 /\ IsFiniteSet(webdiff_db_updates)
    BY DEF UpInv
  <1>2. /\ UNCHANGED <<hasUpdatesTable, webdiff_db_updates, now, pc, nDbVersion, bFoundUpdate, i,
                       crashes, backs>>
        /\ pc = "apply" /\ s < Len(Updates[i]) /\ Runs(Updates[i][s + 1], schema)
        /\ schema' = Effect(Updates[i][s + 1], schema) /\ s' = s + 1
    BY DEF Execute, bounds
  <1>3. PICK n : n = Done
    OBVIOUS
  <1>4. PICK l : l = Len(Updates[i])
    OBVIOUS
  <1>5. /\ i = nDbVersion + 1 /\ i \in 1..9 /\ s \in 0..l /\ s < l
        /\ \/ i = n + 1 /\ schema = After(Updates[i], s, SchemaAt[n])
           \/ s = 0 /\ ~Runs(Updates[i][1], schema)
    BY <1>1, <1>2, <1>3, <1>4 DEF LoopInv
  <1>6. l \in 1..4
    BY <1>4, <1>5, Lengths
  <1>7. i = n + 1 /\ schema = After(Updates[i], s, SchemaAt[n])
    <2>1. s = 0 => s + 1 = 1
      OBVIOUS
    <2> QED  BY <1>2, <1>5, <2>1
  <1>8. s \in Nat /\ s + 1 \in 1..l /\ s + 1 \in 0..l /\ s + 1 \in 0..4 /\ n \in 0..8
    BY <1>1, <1>3, <1>5, <1>6, <1>7
  <1>9. schema' = After(Updates[i], s + 1, SchemaAt[n])
    BY <1>2, <1>7, <1>8, AfterStep
  <1>10. Done' = n
    BY <1>2, <1>3 DEF Done
  <1>11. UpdatesInOrder'
    <2>1. Recorded' = 1..n
      BY <1>1, <1>2, <1>3 DEF UpdatesInOrder, Recorded, Done
    <2>2. n < Len(Updates) /\ \E k \in 1..Len(Updates[n + 1]) :
                                 schema' = After(Updates[n + 1], k, SchemaAt[n])
      BY <1>4, <1>7, <1>8, <1>9, UpdateList
    <2> QED  BY <1>10, <2>1, <2>2 DEF UpdatesInOrder, Done
  <1>12. LoopInv'
    <2>1. /\ nDbVersion' <= Done'
          /\ i' = nDbVersion' + 1 /\ i' \in 1..9 /\ s' \in 0..Len(Updates[i'])
          /\ i' = Done' + 1 /\ schema' = After(Updates[i'], s', SchemaAt[Done'])
      BY <1>1, <1>2, <1>3, <1>4, <1>5, <1>7, <1>8, <1>9, <1>10 DEF LoopInv
    <2> QED  BY <1>2, <2>1 DEF LoopInv
  <1>13. TypeOK'
    <2>1. \A x \in schema' : Len(x) \in 1..3
      <3>1. s + 1 \in 1..Len(Updates[n + 1]) /\ schema' = After(Updates[n + 1], s + 1, SchemaAt[n])
        BY <1>4, <1>7, <1>8, <1>9
      <3>2. Sized(schema')
        BY <1>8, <3>1, CutShortBlocked
      <3> QED  BY <3>2 DEF Sized
    <2>2. hasUpdatesTable' \in BOOLEAN /\ bFoundUpdate' \in BOOLEAN
      BY <1>1, <1>2, Zenon DEF TypeOK
    <2>3. /\ \A r \in webdiff_db_updates' : r.version \in 1..Len(Updates) /\ r.dt \in 0..MaxTime
          /\ now' \in 0..MaxTime /\ crashes' \in 0..MaxCrashes /\ backs' \in 0..MaxBacks
          /\ nDbVersion' \in 0..Len(Updates) /\ i' \in 0..Len(Updates) + 1
          /\ pc' \in {"down", "last", "scan", "apply", "serving"}
      BY <1>1, <1>2 DEF TypeOK
    <2>4. s' \in 0..4
      BY <1>2, <1>8
    <2> QED  BY ONLY <2>1, <2>2, <2>3, <2>4 DEF TypeOK
  <1> QED  BY <1>1, <1>2, <1>3, <1>10, <1>11, <1>12, <1>13 DEF UpInv

\* The update is recorded when all its statements are done.
LEMMA InsertUpdateInfoStep ==
    ASSUME UpInv, InsertUpdateInfo
    PROVE  UpInv'
  <1> DEFINE W == webdiff_db_updates
             row == [version |-> i, dt |-> now]
  <1>1. TypeOK /\ LoopInv /\ UpdatesInOrder /\ Done \in 0..9 /\ IsFiniteSet(W)
    BY DEF UpInv
  <1>2. /\ UNCHANGED <<schema, hasUpdatesTable, now, crashes, backs>>
        /\ pc = "apply" /\ s = Len(Updates[i])
        /\ bFoundUpdate' = TRUE /\ nDbVersion' = i /\ i' = i + 1 /\ s' = 0 /\ pc' = "scan"
        /\ W' = W \cup {row}
    BY DEF InsertUpdateInfo, bounds
  <1>3. PICK n : n = Done
    OBVIOUS
  <1>4. /\ i \in 1..9
        /\ \/ i = n + 1 /\ schema = After(Updates[i], s, SchemaAt[n])
           \/ s = 0
    BY <1>1, <1>2, <1>3 DEF LoopInv
  <1>5. s # 0
    <2>1. Len(Updates[i]) \in 1..4
      BY <1>4, Lengths
    <2>2. \A l \in 1..4 : l # 0
      OBVIOUS
    <2> QED  BY <1>2, <2>1, <2>2, Zenon
  <1>6. i = n + 1 /\ n \in 0..8 /\ n + 1 \in 0..9
    BY <1>1, <1>3, <1>4, <1>5
  <1>7. schema = SchemaAt[n + 1]
    BY <1>2, <1>4, <1>5, <1>6, SchemaStep
  <1>8. {r.version : r \in W} = 1..n
    BY <1>1, <1>3 DEF UpdatesInOrder, Recorded, Done
  <1>9. row \notin W
    <2>1. row.version = n + 1
      BY <1>6
    <2>2. n + 1 \notin 1..n
      BY <1>6
    <2> QED  BY <1>8, <2>1, <2>2
  <1>10. IsFiniteSet(W') /\ Cardinality(W') = n + 1
    <2>1. Cardinality(W) = n
      BY <1>3 DEF Done
    <2> HIDE DEF W, row
    <2> QED  BY <1>1, <1>2, <1>9, <2>1, FS_AddElement
  <1>11. Done' = n + 1
    BY <1>10 DEF Done
  <1>12. Recorded' = 1..(n + 1)
    <2>1. Recorded' = {r.version : r \in W} \cup {row.version}
      BY <1>2 DEF Recorded
    <2>2. row.version = n + 1
      BY <1>6
    <2>3. 1..(n + 1) = (1..n) \cup {n + 1}
      BY <1>6
    <2> QED  BY <1>8, <2>1, <2>2, <2>3
  <1>13. UpdatesInOrder'
    BY <1>2, <1>7, <1>11, <1>12 DEF UpdatesInOrder, Done
  <1>14. LoopInv'
    BY <1>2, <1>4, <1>6, <1>11 DEF LoopInv
  <1>15. TypeOK'
    <2>1. \A r \in W' : r.version \in 1..Len(Updates) /\ r.dt \in 0..MaxTime
      <3>1. row.version \in 1..Len(Updates) /\ row.dt \in 0..MaxTime
        BY <1>1, <1>4, UpdateList DEF TypeOK
      <3>2. \A r \in W : r.version \in 1..Len(Updates) /\ r.dt \in 0..MaxTime
        BY <1>1 DEF TypeOK
      <3> HIDE DEF W, row
      <3> QED  BY <1>2, <3>1, <3>2
    <2>2. hasUpdatesTable' \in BOOLEAN /\ bFoundUpdate' \in BOOLEAN
      BY <1>1, <1>2, Zenon DEF TypeOK
    <2>3. /\ \A x \in schema' : Len(x) \in 1..3
          /\ now' \in 0..MaxTime /\ crashes' \in 0..MaxCrashes /\ backs' \in 0..MaxBacks
          /\ pc' \in {"down", "last", "scan", "apply", "serving"}
      BY <1>1, <1>2 DEF TypeOK
    <2>4. s' \in 0..4 /\ nDbVersion' \in 0..Len(Updates) /\ i' \in 0..Len(Updates) + 1
      BY <1>2, <1>4, UpdateList
    <2> QED  BY ONLY <2>1, <2>2, <2>3, <2>4 DEF TypeOK
  <1> QED  BY <1>6, <1>10, <1>11, <1>13, <1>14, <1>15 DEF UpInv

\* Only a scan that has found nothing to do, at version 9, leads on to serving.
LEMMA EndScanStep ==
    ASSUME UpInv, EndScan
    PROVE  UpInv'
  <1>1. TypeOK /\ LoopInv /\ Done \in 0..9
    BY DEF UpInv
  <1>2. /\ UNCHANGED <<schema, hasUpdatesTable, webdiff_db_updates, now, nDbVersion, s,
                       crashes, backs>>
        /\ pc = "scan" /\ i = 10 /\ bFoundUpdate' = FALSE
        /\ \/ i' = 1 /\ pc' = "scan"
           \/ i' = 0 /\ pc' = "serving" /\ ~bFoundUpdate
    BY UpdateList DEF EndScan, disk, bounds
  <1>3. nDbVersion \in 0..9 /\ s \in 0..4
    BY <1>1, UpdateList DEF TypeOK
  <1>4. Done' = Done /\ UpdatesInOrder' /\ IsFiniteSet(webdiff_db_updates') /\ Done' \in 0..9
    BY <1>2, DiskKept
  <1>5. TypeOK'
    <2>1. hasUpdatesTable' \in BOOLEAN /\ bFoundUpdate' \in BOOLEAN
      BY <1>1, <1>2, Zenon DEF TypeOK
    <2>2. i' \in 0..10 /\ nDbVersion' \in 0..9 /\ s' \in 0..4
      BY <1>2, <1>3
    <2>3. pc' \in {"down", "last", "scan", "apply", "serving"}
      BY <1>2
    <2> QED  BY <1>1, <1>2, <2>1, <2>2, <2>3, LocalTypes
  <1>6. pc' = "serving" => nDbVersion = 9
    <2> SUFFICES ASSUME pc' = "serving" PROVE nDbVersion = 9
      OBVIOUS
    <2>1. \A j \in 1..9 : j - 1 # nDbVersion
      BY <1>1, <1>2 DEF LoopInv
    <2>2. nDbVersion + 1 \notin 1..9
      BY <1>3, <2>1
    <2> QED  BY <1>3, <2>2
  <1>7. LoopInv'
    BY <1>1, <1>2, <1>4, <1>6 DEF LoopInv
  <1> QED  BY <1>4, <1>5, <1>7 DEF UpInv


\* The process starts, or the clock moves: neither touches the database or the loop.
LEMMA OutsideStep ==
    ASSUME UpInv, UNCHANGED <<disk, locals, crashes>>,
           now' \in 0..MaxTime, backs' \in 0..MaxBacks, pc' = pc \/ pc' = "last"
    PROVE  UpInv'
  <1>1. TypeOK /\ LoopInv /\ Done \in 0..9
    BY DEF UpInv
  <1>2. UNCHANGED <<schema, hasUpdatesTable, webdiff_db_updates, nDbVersion, bFoundUpdate, i, s,
                    crashes>>
    BY DEF disk, locals
  <1>3. Done' = Done /\ UpdatesInOrder' /\ IsFiniteSet(webdiff_db_updates') /\ Done' \in 0..9
    BY <1>2, DiskKept
  <1>4. TypeOK'
    <2>1. hasUpdatesTable' \in BOOLEAN /\ bFoundUpdate' \in BOOLEAN
      BY <1>1, <1>2, Zenon DEF TypeOK
    <2>2. /\ \A x \in schema' : Len(x) \in 1..3
          /\ \A r \in webdiff_db_updates' : r.version \in 1..Len(Updates) /\ r.dt \in 0..MaxTime
          /\ crashes' \in 0..MaxCrashes
          /\ nDbVersion' \in 0..Len(Updates) /\ i' \in 0..Len(Updates) + 1 /\ s' \in 0..4
      BY <1>1, <1>2 DEF TypeOK
    <2>3. pc' \in {"down", "last", "scan", "apply", "serving"}
      BY <1>1 DEF TypeOK
    <2> QED  BY <2>1, <2>2, <2>3 DEF TypeOK
  <1>5. LoopInv'
    BY <1>1, <1>2, <1>3 DEF LoopInv
  <1> QED  BY <1>3, <1>4, <1>5 DEF UpInv

\* UpInv holds in every reachable state.
THEOREM UpgradeInvariant == Spec => []UpInv
  <1>1. Init => UpInv
    BY UpInit
  <1>2. UpInv /\ [Next]_vars => UpInv'
    <2> SUFFICES ASSUME UpInv, [Next]_vars PROVE UpInv'
      OBVIOUS
    <2>1. now \in 0..MaxTime /\ crashes \in 0..MaxCrashes /\ backs \in 0..MaxBacks
      BY DEF UpInv, TypeOK
    <2>2. CASE Start                 BY <2>1, <2>2, OutsideStep DEF Start, bounds
    <2>3. CASE LastDatabaseVersion   BY <2>3, LastDatabaseVersionStep
    <2>4. CASE SkipUpdate            BY <2>4, SkipUpdateStep
    <2>5. CASE BeginUpdate           BY <2>5, BeginUpdateStep
    <2>6. CASE Execute               BY <2>6, ExecuteStep
    <2>7. CASE ExecuteFails          BY <2>1, <2>7, UpInvDown DEF ExecuteFails, Die
    <2>8. CASE InsertUpdateInfo      BY <2>8, InsertUpdateInfoStep
    <2>9. CASE EndScan               BY <2>9, EndScanStep
    <2>10. CASE Crash
      <3>1. crashes' \in 0..MaxCrashes
        BY <2>1, <2>10, BoundsAssumption DEF Crash
      <3> QED  BY <2>1, <2>10, <3>1, UpInvDown DEF Crash, Die
    <2>11. CASE Tick
      <3>1. now' \in 0..MaxTime
        BY <2>1, <2>11, BoundsAssumption DEF Tick
      <3> QED  BY <2>1, <2>11, <3>1, OutsideStep DEF Tick, bounds
    <2>12. CASE SetBack
      <3>1. now' \in 0..MaxTime /\ backs' \in 0..MaxBacks
        BY <2>1, <2>12, BoundsAssumption DEF SetBack
      <3> QED  BY <2>12, <3>1, OutsideStep DEF SetBack
    <2>13. CASE UNCHANGED vars
      BY <2>1, <2>13, OutsideStep DEF vars, bounds
    <2> QED
      BY <2>2, <2>3, <2>4, <2>5, <2>6, <2>7, <2>8, <2>9, <2>10, <2>11, <2>12, <2>13
         DEF Next, Step
  <1> QED  BY <1>1, <1>2, PTL DEF Spec

\* Every variable has the type the code gives it.
THEOREM UpgradeTypes == Spec => []TypeOK
  <1>1. UpInv => TypeOK
    BY DEF UpInv
  <1> QED  BY <1>1, UpgradeInvariant, PTL

\* The updates are recorded in order, each once, and the schema is that of the last one and
\* at most the first statements of the next: for any number of crashes, at any point, and for
\* any way the clock of the database is set.
THEOREM UpgradesInOrder == Spec => []UpdatesInOrder
  <1>1. UpInv => UpdatesInOrder
    BY DEF UpInv
  <1> QED  BY <1>1, UpgradeInvariant, PTL

\* A server that takes requests has every column its queries name and not the column that
\* insertDefineFile would have to fill.
THEOREM ServesWithFullSchema == Spec => []ServesFullSchema
  <1>1. UpInv => ServesFullSchema
    <2> SUFFICES ASSUME UpInv, pc = "serving"
                 PROVE  Queried \subseteq schema /\ Dropped \notin schema
      BY DEF ServesFullSchema, Dropped
    <2>1. Done = 9
      BY DEF UpInv, LoopInv
    <2>2. Upgraded(9, schema)
      BY <2>1, SchemaNow
    <2> QED  BY <2>2, FullSchema
  <1> QED  BY <1>1, UpgradeInvariant, PTL
=============================================================================

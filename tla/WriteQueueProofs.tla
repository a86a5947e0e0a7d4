-------------------------- MODULE WriteQueueProofs --------------------------
(***************************************************************************)
(* Proof that the write queue of a connection is the byte stream its       *)
(* callers rely on, for messages of any lengths and a kernel that takes    *)
(* any part of each.                                                       *)
(***************************************************************************)
EXTENDS WriteQueue, SequenceTheorems, WellFoundedInduction, TLAPS

-----------------------------------------------------------------------------
(* Runs of numbered bytes *)

\* The bytes behind number a up to number b.
Bytes(a, b) == [i \in 1..(b - a) |-> a + i]

LEMMA BytesSeq ==
    ASSUME NEW a \in Nat, NEW b \in Nat, a <= b
    PROVE  Bytes(a, b) \in Seq(Nat) /\ Len(Bytes(a, b)) = b - a
           /\ \A i \in 1..(b - a) : Bytes(a, b)[i] = a + i
  BY DEF Bytes

\* Two runs that meet are one.
LEMMA BytesJoin ==
    ASSUME NEW a \in Nat, NEW b \in Nat, NEW c \in Nat, a <= b, b <= c
    PROVE  Bytes(a, b) \o Bytes(b, c) = Bytes(a, c)
  <1> DEFINE s == Bytes(a, b)
             t == Bytes(b, c)
             u == Bytes(a, c)
  <1>1. /\ s \in Seq(Nat) /\ Len(s) = b - a
        /\ \A i \in 1..(b - a) : s[i] = a + i
    BY BytesSeq
  <1>2. /\ t \in Seq(Nat) /\ Len(t) = c - b
        /\ \A i \in 1..(c - b) : t[i] = b + i
    BY BytesSeq
  <1>3. /\ u \in Seq(Nat) /\ Len(u) = c - a
        /\ \A i \in 1..(c - a) : u[i] = a + i
    BY BytesSeq
  <1> HIDE DEF s, t, u
  <1>4. /\ s \o t \in Seq(Nat) /\ Len(s \o t) = Len(s) + Len(t)
        /\ \A i \in 1..(Len(s) + Len(t)) :
              (s \o t)[i] = IF i <= Len(s) THEN s[i] ELSE t[i - Len(s)]
    BY <1>1, <1>2, ConcatProperties
  <1>5. ASSUME NEW i \in 1..(c - a) PROVE (s \o t)[i] = u[i]
    <2>1. i \in 1..(Len(s) + Len(t)) /\ u[i] = a + i
      BY <1>1, <1>2, <1>3
    <2>2. CASE i <= b - a
      <3>1. i \in 1..(b - a) /\ s[i] = a + i
        BY <1>1, <2>2
      <3> QED  BY <1>1, <1>4, <2>1, <2>2, <3>1
    <2>3. CASE ~(i <= b - a)
      <3>1. i - (b - a) \in 1..(c - b) /\ b + (i - (b - a)) = a + i
        BY <2>3
      <3>2. t[i - (b - a)] = a + i
        BY <1>2, <3>1
      <3> QED  BY <1>1, <1>4, <2>1, <2>3, <3>2
    <2> QED  BY <2>2, <2>3
  <1>6. Len(s \o t) = c - a
    BY <1>1, <1>2, <1>4
  <1>7. s \o t = u
    BY <1>3, <1>4, <1>5, <1>6, SeqEqual
  <1> QED  BY <1>7 DEF s, t, u

\* A part of a run, from its beginning or to its end.
LEMMA BytesFirst ==
    ASSUME NEW a \in Nat, NEW b \in Nat, a <= b, NEW k \in 0..(b - a)
    PROVE  SubSeq(Bytes(a, b), 1, k) = Bytes(a, a + k)
  BY DEF Bytes

LEMMA BytesLast ==
    ASSUME NEW a \in Nat, NEW b \in Nat, a <= b, NEW k \in 0..(b - a)
    PROVE  SubSeq(Bytes(a, b), k + 1, Len(Bytes(a, b))) = Bytes(a + k, b)
  <1>1. Len(Bytes(a, b)) = b - a
    BY BytesSeq
  <1>2. SubSeq(Bytes(a, b), k + 1, b - a) = [i \in 1..(b - a - k) |-> Bytes(a, b)[k + i]]
    BY BytesSeq
  <1>3. \A i \in 1..(b - a - k) : Bytes(a, b)[k + i] = a + k + i
    BY BytesSeq
  <1> QED  BY <1>1, <1>2, <1>3 DEF Bytes

\* Induction in the form the provers can use: a set of numbers has a least one.
LEMMA LeastNumber ==
    ASSUME NEW B, B \subseteq Nat, B # {}
    PROVE  \E x \in B : \A y \in B : x <= y
  <1> DEFINE R == OpToRel(<, Nat)
  <1>1. IsWellFoundedOn(R, Nat)
    BY NatLessThanWellFounded
  <1>2. \A x, y \in Nat : y < x => <<y, x>> \in R
    BY DEF OpToRel
  <1> HIDE DEF R
  <1>3. PICK x \in B : \A y \in B : ~(<<y, x>> \in R)
    BY <1>1, WFMin
  <1>4. ASSUME NEW y \in B PROVE x <= y
    <2>1. x \in Nat /\ y \in Nat /\ <<y, x>> \notin R
      BY <1>3
    <2>2. ~(y < x)
      BY <1>2, <2>1
    <2> QED  BY <2>1, <2>2
  <1> QED  BY <1>4

\* s[1], s[2] and so on are runs of bytes, each from where the one before ends.
RunsMeet(s, e) ==
    /\ \A i \in 0..Len(s) : e[i] \in Nat
    /\ \A i \in 1..Len(s) : e[i - 1] <= e[i] /\ s[i] = Bytes(e[i - 1], e[i])

\* The recursion in FlattenSeq.
Flattens(f, s) == f = [i \in 1..Len(s) |-> IF i = 1 THEN s[i] ELSE f[i - 1] \o s[i]]

LEMMA RunsGrow ==
    ASSUME NEW s, NEW e, Len(s) \in Nat, RunsMeet(s, e), NEW i \in 0..Len(s)
    PROVE  e[0] <= e[i]
  <1> DEFINE B == {k \in 0..Len(s) : ~(e[0] <= e[k])}
  <1>1. SUFFICES ASSUME B # {} PROVE FALSE
    OBVIOUS
  <1>2. B \subseteq Nat
    OBVIOUS
  <1>3. PICK x \in B : \A y \in B : x <= y
    BY <1>1, <1>2, LeastNumber
  <1>4. x \in 1..Len(s) /\ x - 1 \in 0..Len(s) /\ ~(x <= x - 1)
    BY DEF RunsMeet
  <1>5. e[0] <= e[x - 1]
    BY <1>3, <1>4
  <1>6. e[x - 1] <= e[x] /\ e[0] \in Nat /\ e[x] \in Nat /\ e[x - 1] \in Nat
    BY <1>4 DEF RunsMeet
  <1> QED  BY <1>5, <1>6

\* Runs that meet make up one run.
LEMMA FlattenRuns ==
    ASSUME NEW s, NEW e, Len(s) \in Nat \ {0}, RunsMeet(s, e)
    PROVE  FlattenSeq(s) = Bytes(e[0], e[Len(s)])
  <1> DEFINE g == [i \in 1..Len(s) |-> Bytes(e[0], e[i])]
  <1>1. Flattens(g, s)
    <2>1. ASSUME NEW i \in 1..Len(s)
          PROVE  Bytes(e[0], e[i]) = IF i = 1 THEN s[i] ELSE g[i - 1] \o s[i]
      <3>1. s[i] = Bytes(e[i - 1], e[i]) /\ e[i - 1] <= e[i]
            /\ e[0] \in Nat /\ e[i - 1] \in Nat /\ e[i] \in Nat
        BY DEF RunsMeet
      <3>2. CASE i = 1
        BY <3>1, <3>2
      <3>3. CASE i # 1
        <4>1. i - 1 \in 1..Len(s) /\ i - 1 \in 0..Len(s)
          BY <3>3
        <4>2. e[0] <= e[i - 1]
          BY <4>1, RunsGrow
        <4>3. g[i - 1] = Bytes(e[0], e[i - 1])
          BY <4>1
        <4>4. Bytes(e[0], e[i - 1]) \o Bytes(e[i - 1], e[i]) = Bytes(e[0], e[i])
          BY <3>1, <4>2, BytesJoin
        <4> QED  BY <3>1, <3>3, <4>3, <4>4
      <3> QED  BY <3>2, <3>3
    <2> QED  BY <2>1 DEF Flattens
  <1> DEFINE f == CHOOSE f : Flattens(f, s)
  <1>2. Flattens(f, s)
    BY <1>1
  <1>3. FlattenSeq(s) = f[Len(s)]
    BY DEF FlattenSeq, Flattens
  <1> HIDE DEF f
  <1>4. \A i \in 1..Len(s) : f[i] = IF i = 1 THEN s[i] ELSE f[i - 1] \o s[i]
    BY <1>2 DEF Flattens
  <1>5. \A i \in 1..Len(s) : g[i] = IF i = 1 THEN s[i] ELSE g[i - 1] \o s[i]
    BY <1>1 DEF Flattens
  <1>6. g[Len(s)] = Bytes(e[0], e[Len(s)])
    OBVIOUS
  <1> HIDE DEF g
  <1> DEFINE B == {k \in 1..Len(s) : f[k] # g[k]}
  <1>7. B = {}
    <2>1. SUFFICES ASSUME B # {} PROVE FALSE
      OBVIOUS
    <2>2. PICK x \in B : \A y \in B : x <= y
      <3>1. B \subseteq Nat
        OBVIOUS
      <3> HIDE DEF B
      <3> QED  BY <2>1, <3>1, LeastNumber
    <2>3. x \in 1..Len(s) /\ f[x] # g[x]
      OBVIOUS
    <2>4. CASE x = 1
      BY <1>4, <1>5, <2>3, <2>4
    <2>5. CASE x # 1
      <3>1. x - 1 \in 1..Len(s) /\ ~(x <= x - 1)
        BY <2>3, <2>5
      <3>2. f[x - 1] = g[x - 1]
        BY <2>2, <3>1
      <3> QED  BY <1>4, <1>5, <2>3, <2>5, <3>2
    <2> QED  BY <2>4, <2>5
  <1> QED  BY <1>3, <1>6, <1>7

-----------------------------------------------------------------------------
(* What the queue holds *)

\* The buffer has the bytes behind number from up to number to left to send, at least one.
Holds(pbuf, from, to) ==
    /\ from < to
    /\ pbuf.offset \in 0..from
    /\ pbuf = [base |-> Bytes(from - pbuf.offset, to), offset |-> pbuf.offset]

\* The buffers hold what is behind number e[0], and e[i] is the last number of the i-th one.
Queued(q, e) ==
    /\ q \in Seq(Buf)
    /\ e \in [0..Len(q) -> Nat]
    /\ \A i \in 1..Len(q) : Holds(q[i], e[i - 1], e[i])

LEMMA HoldsRemaining ==
    ASSUME NEW pbuf, NEW from \in Nat, NEW to \in Nat, Holds(pbuf, from, to)
    PROVE  Remaining(pbuf) = Bytes(from, to)
  <1> DEFINE o == pbuf.offset
  <1>1. o \in 0..from /\ from < to /\ pbuf.base = Bytes(from - o, to)
    BY DEF Holds
  <1>2. from - o \in Nat /\ from - o <= to /\ o \in 0..(to - (from - o)) /\ (from - o) + o = from
    BY <1>1
  <1>3. SubSeq(Bytes(from - o, to), o + 1, Len(Bytes(from - o, to))) = Bytes((from - o) + o, to)
    BY <1>2, BytesLast
  <1> QED  BY <1>1, <1>2, <1>3 DEF Remaining

\* A buffer of which k bytes more were sent.
LEMMA HoldsLess ==
    ASSUME NEW pbuf \in Buf, NEW from \in Nat, NEW to \in Nat, Holds(pbuf, from, to),
           NEW k \in 0..(to - from - 1)
    PROVE  /\ [pbuf EXCEPT !.offset = @ + k] \in Buf
           /\ Holds([pbuf EXCEPT !.offset = @ + k], from + k, to)
  <1> DEFINE o == pbuf.offset
             c == [pbuf EXCEPT !.offset = @ + k]
  <1>1. o \in 0..from /\ from < to /\ pbuf.base = Bytes(from - o, to) /\ o \in Nat
    BY DEF Holds
  <1>2. c = [base |-> pbuf.base, offset |-> o + k]
    BY SMTT(30) DEF Buf
  <1>3. c \in Buf
    BY <1>1, <1>2 DEF Buf
  <1>4. (from + k) - (o + k) = from - o /\ o + k \in 0..(from + k) /\ from + k < to
    BY <1>1
  <1> QED  BY <1>1, <1>2, <1>3, <1>4 DEF Holds

\* A message of n bytes of which the kernel took k.
LEMMA HoldsMessage ==
    ASSUME NEW a \in Nat, NEW n \in Nat, NEW k \in 0..(n - 1)
    PROVE  /\ [base |-> Bytes(a, a + n), offset |-> k] \in Buf
           /\ Holds([base |-> Bytes(a, a + n), offset |-> k], a + k, a + n)
  <1>1. Bytes(a, a + n) \in Seq(Nat) /\ k \in Nat
    BY BytesSeq
  <1>2. (a + k) - k = a /\ k \in 0..(a + k) /\ a + k < a + n
    OBVIOUS
  <1> QED  BY <1>1, <1>2 DEF Holds, Buf

\* A buffer is appended.
LEMMA QueuedAppend ==
    ASSUME NEW q, NEW e, Queued(q, e), NEW pbuf \in Buf, NEW to \in Nat,
           Holds(pbuf, e[Len(q)], to)
    PROVE  \E d : /\ Queued(Append(q, pbuf), d)
                  /\ d[0] = e[0] /\ d[Len(Append(q, pbuf))] = to
                  /\ Append(q, pbuf) # <<>>
  <1> DEFINE s == Append(q, pbuf)
             d == [i \in 0..(Len(q) + 1) |-> IF i <= Len(q) THEN e[i] ELSE to]
  <1>1. q \in Seq(Buf) /\ Len(q) \in Nat /\ e \in [0..Len(q) -> Nat]
    BY DEF Queued
  <1>2. /\ s \in Seq(Buf) /\ Len(s) = Len(q) + 1 /\ s # <<>>
        /\ \A i \in 1..Len(q) : s[i] = q[i]
        /\ s[Len(q) + 1] = pbuf
    BY <1>1
  <1>3. d \in [0..(Len(q) + 1) -> Nat] /\ d[0] = e[0] /\ d[Len(q) + 1] = to
    BY <1>1
  <1>4. ASSUME NEW i \in 1..(Len(q) + 1) PROVE Holds(s[i], d[i - 1], d[i])
    <2>1. CASE i = Len(q) + 1
      <3>1. d[i - 1] = e[Len(q)] /\ d[i] = to /\ s[i] = pbuf
        BY <1>1, <1>2, <2>1
      <3> QED  BY <3>1
    <2>2. CASE i # Len(q) + 1
      <3>1. i \in 1..Len(q) /\ d[i - 1] = e[i - 1] /\ d[i] = e[i]
        BY <1>1, <2>2
      <3>2. s[i] = q[i] /\ Holds(q[i], e[i - 1], e[i])
        BY <1>2, <3>1 DEF Queued
      <3> QED  BY <3>1, <3>2
    <2> QED  BY <2>1, <2>2
  <1> HIDE DEF s, d
  <1>5. Queued(s, d)
    BY <1>2, <1>3, <1>4 DEF Queued
  <1> QED  BY <1>2, <1>3, <1>5 DEF s

\* The first m buffers, as nio_write sends them.
LEMMA QueuedRuns ==
    ASSUME NEW q, NEW e, Queued(q, e), NEW m \in 0..Len(q)
    PROVE  /\ Len([i \in 1..m |-> Remaining(q[i])]) = m
           /\ RunsMeet([i \in 1..m |-> Remaining(q[i])], e)
  <1> DEFINE s == [i \in 1..m |-> Remaining(q[i])]
  <1>1. Len(q) \in Nat /\ m \in Nat /\ e \in [0..Len(q) -> Nat]
    BY DEF Queued
  <1>2. Len(s) = m
    BY <1>1
  <1>3. \A i \in 0..m : e[i] \in Nat
    BY <1>1
  <1>4. ASSUME NEW i \in 1..m PROVE e[i - 1] <= e[i] /\ s[i] = Bytes(e[i - 1], e[i])
    <2>1. i \in 1..Len(q) /\ e[i - 1] \in Nat /\ e[i] \in Nat
      BY <1>1
    <2>2. Holds(q[i], e[i - 1], e[i])
      BY <2>1 DEF Queued
    <2>3. e[i - 1] < e[i]
      BY <2>2 DEF Holds
    <2>4. Remaining(q[i]) = Bytes(e[i - 1], e[i])
      BY <2>1, <2>2, HoldsRemaining
    <2> QED  BY <2>1, <2>3, <2>4
  <1> HIDE DEF s
  <1>5. RunsMeet(s, e)
    BY <1>2, <1>3, <1>4 DEF RunsMeet
  <1> QED  BY <1>2, <1>5 DEF s

LEMMA QueuedGrows ==
    ASSUME NEW q, NEW e, Queued(q, e)
    PROVE  /\ Len(q) \in Nat /\ e[0] \in Nat /\ e[Len(q)] \in Nat
           /\ \A m \in 0..Len(q) : e[m] \in Nat /\ e[0] <= e[m]
           /\ q # <<>> => e[0] < e[Len(q)]
  <1>1. q \in Seq(Buf) /\ Len(q) \in Nat /\ e \in [0..Len(q) -> Nat]
    BY DEF Queued
  <1>2. ASSUME NEW m \in 0..Len(q) PROVE e[m] \in Nat /\ e[0] <= e[m]
    <2> DEFINE s == [i \in 1..m |-> Remaining(q[i])]
    <2>1. Len(s) = m /\ RunsMeet(s, e)
      BY QueuedRuns
    <2> HIDE DEF s
    <2>2. m \in 0..Len(s) /\ Len(s) \in Nat
      BY <1>1, <2>1
    <2>3. e[0] <= e[m]
      BY <2>1, <2>2, RunsGrow
    <2> QED  BY <1>1, <2>3
  <1>3. ASSUME q # <<>> PROVE e[0] < e[Len(q)]
    <2>1. Len(q) \in 1..Len(q) /\ Len(q) - 1 \in 0..Len(q)
      BY <1>1, <1>3
    <2>2. e[Len(q) - 1] < e[Len(q)]
      BY <2>1 DEF Queued, Holds
    <2>3. e[0] <= e[Len(q) - 1] /\ e[Len(q) - 1] \in Nat /\ e[0] \in Nat /\ e[Len(q)] \in Nat
      BY <1>1, <1>2, <2>1
    <2> QED  BY <2>2, <2>3
  <1> QED  BY <1>1, <1>2, <1>3

\* How much of the next buffer a write may take.
LEMMA PartialBytes ==
    ASSUME NEW e, Queued(write_queue, e), NEW m \in 0..Len(write_queue), NEW j \in Partial(m)
    PROVE  /\ j \in Nat
           /\ m = Len(write_queue) => j = 0
           /\ m # Len(write_queue) =>
                 /\ m + 1 \in 1..Len(write_queue)
                 /\ e[m] \in Nat /\ e[m + 1] \in Nat
                 /\ Holds(write_queue[m + 1], e[m], e[m + 1])
                 /\ j \in 0..(e[m + 1] - e[m] - 1)
  <1>1. CASE m = Len(write_queue)
    BY <1>1 DEF Partial
  <1>2. CASE m # Len(write_queue)
    <2>1. Len(write_queue) \in Nat /\ e \in [0..Len(write_queue) -> Nat]
      BY DEF Queued
    <2>2. m + 1 \in 1..Len(write_queue) /\ (m + 1) - 1 = m /\ e[m] \in Nat /\ e[m + 1] \in Nat
      BY <1>2, <2>1
    <2>3. Holds(write_queue[m + 1], e[(m + 1) - 1], e[m + 1])
      BY <2>2 DEF Queued
    <2>4. Holds(write_queue[m + 1], e[m], e[m + 1])
      BY <2>2, <2>3
    <2>5. Remaining(write_queue[m + 1]) = Bytes(e[m], e[m + 1]) /\ e[m] < e[m + 1]
      BY <2>2, <2>4, HoldsRemaining DEF Holds
    <2>6. Len(Remaining(write_queue[m + 1])) = e[m + 1] - e[m]
      <3>1. e[m] <= e[m + 1]
        BY <2>2, <2>5
      <3>2. Len(Bytes(e[m], e[m + 1])) = e[m + 1] - e[m]
        BY ONLY <2>2, <3>1, BytesSeq
      <3> QED  BY <2>5, <3>2
    <2>7. Partial(m) = 0..((e[m + 1] - e[m]) - 1)
      <3>1. Partial(m) = 0..(Len(Remaining(write_queue[m + 1])) - 1)
        BY ONLY <1>2, Zenon DEF Partial
      <3> QED  BY <2>6, <3>1
    <2>8. j \in 0..((e[m + 1] - e[m]) - 1)
      BY <2>7
    <2> QED  BY <1>2, <2>2, <2>4, <2>8
  <1> QED  BY <1>1, <1>2

\* nio_write sends the bytes that are next, and no other.
LEMMA SentBytes ==
    ASSUME NEW e, Queued(write_queue, e), NEW m \in 0..Len(write_queue), NEW j \in Partial(m)
    PROVE  Sent(m, j) = Bytes(e[0], e[m] + j)
  <1> DEFINE s == [i \in 1..m |-> Remaining(write_queue[i])]
             t == IF j = 0 THEN <<>> ELSE SubSeq(Remaining(write_queue[m + 1]), 1, j)
  <1>1. /\ e[0] \in Nat /\ e[m] \in Nat /\ e[0] <= e[m] /\ j \in Nat /\ m \in Nat
    BY QueuedGrows, PartialBytes
  <1>2. Len(s) = m /\ RunsMeet(s, e)
    BY QueuedRuns
  <1>3. t = Bytes(e[m], e[m] + j)
    <2>1. CASE j = 0
      BY <1>1, <2>1 DEF Bytes
    <2>2. CASE j # 0
      <3>1. /\ e[m + 1] \in Nat /\ e[m] <= e[m + 1] /\ j \in 0..(e[m + 1] - e[m])
            /\ Remaining(write_queue[m + 1]) = Bytes(e[m], e[m + 1])
        <4>1. m # Len(write_queue)
          BY <2>2, PartialBytes
        <4>2. /\ e[m] \in Nat /\ e[m + 1] \in Nat /\ j \in 0..(e[m + 1] - e[m] - 1)
              /\ Holds(write_queue[m + 1], e[m], e[m + 1])
          BY <4>1, PartialBytes
        <4>3. e[m] < e[m + 1]
          BY <4>2 DEF Holds
        <4>4. Remaining(write_queue[m + 1]) = Bytes(e[m], e[m + 1])
          BY <4>2, HoldsRemaining
        <4> QED  BY <4>2, <4>3, <4>4
      <3>2. SubSeq(Bytes(e[m], e[m + 1]), 1, j) = Bytes(e[m], e[m] + j)
        BY <1>1, <3>1, BytesFirst
      <3> QED  BY <2>2, <3>1, <3>2
    <2> QED  BY <2>1, <2>2
  <1> HIDE DEF t
  <1>4. FlattenSeq(s) = Bytes(e[0], e[m])
    <2>1. CASE m = 0
      <3>1. FlattenSeq(s) = s
        BY <1>2, <2>1 DEF FlattenSeq
      <3>2. s = Bytes(e[0], e[m])
        BY <1>1, <2>1 DEF Bytes
      <3> QED  BY <3>1, <3>2
    <2>2. CASE m # 0
      <3> HIDE DEF s
      <3>1. Len(s) \in Nat \ {0}
        BY <1>1, <1>2, <2>2
      <3> QED  BY <1>2, <3>1, FlattenRuns
    <2> QED  BY <2>1, <2>2
  <1>5. Sent(m, j) = FlattenSeq(s) \o t
    BY ONLY Zenon DEF Sent, s, t
  <1> HIDE DEF s
  <1>6. Bytes(e[0], e[m]) \o Bytes(e[m], e[m] + j) = Bytes(e[0], e[m] + j)
    <2>1. e[m] + j \in Nat /\ e[m] <= e[m] + j
      BY <1>1
    <2> QED  BY ONLY <1>1, <2>1, BytesJoin
  <1> QED  BY <1>3, <1>4, <1>5, <1>6

\* And it leaves the rest.
LEMMA LeftQueued ==
    ASSUME NEW e, Queued(write_queue, e), NEW m \in 0..Len(write_queue), NEW j \in Partial(m)
    PROVE  /\ \E d : /\ Queued(Left(m, j), d)
                     /\ d[0] = e[m] + j
                     /\ d[Len(Left(m, j))] = e[Len(write_queue)]
           /\ m # Len(write_queue) => Left(m, j) # <<>>
  <1> DEFINE q == write_queue
             n == Len(q) - m
             s == Left(m, j)
             d == [i \in 0..n |-> IF i = 0 THEN e[m] + j ELSE e[m + i]]
  <1>1. /\ q \in Seq(Buf) /\ Len(q) \in Nat /\ n \in Nat /\ m \in Nat
        /\ e \in [0..Len(q) -> Nat] /\ j \in Nat
    BY PartialBytes DEF Queued
  <1>2. s = [i \in 1..n |-> IF i = 1 THEN [q[m + 1] EXCEPT !.offset = @ + j] ELSE q[m + i]]
    BY DEF Left
  <1>3. d \in [0..n -> Nat] /\ d[0] = e[m] + j /\ d[n] = e[Len(q)]
    <2>1. ASSUME NEW i \in 0..n PROVE d[i] \in Nat
      BY <1>1
    <2>2. d[n] = e[Len(q)]
      <3>1. CASE n = 0
        <4>1. m = Len(q) /\ j = 0 /\ e[m] + 0 = e[m]
          BY <1>1, <3>1, PartialBytes
        <4> QED  BY <3>1, <4>1
      <3>2. CASE n # 0
        BY <1>1, <3>2
      <3> QED  BY <3>1, <3>2
    <2> QED  BY <1>1, <2>1, <2>2
  <1>4. ASSUME NEW i \in 1..n PROVE s[i] \in Buf /\ Holds(s[i], d[i - 1], d[i])
    <2>1. CASE i = 1
      <3>1. m # Len(q) /\ m + 1 \in 1..Len(q)
        BY <1>1
      <3>2. /\ Holds(q[m + 1], e[m], e[m + 1]) /\ j \in 0..(e[m + 1] - e[m] - 1)
            /\ e[m] \in Nat /\ e[m + 1] \in Nat
        BY <3>1, PartialBytes
      <3>3. q[m + 1] \in Buf
        BY <1>1, <3>1
      <3>4. /\ [q[m + 1] EXCEPT !.offset = @ + j] \in Buf
            /\ Holds([q[m + 1] EXCEPT !.offset = @ + j], e[m] + j, e[m + 1])
        BY <3>2, <3>3, HoldsLess
      <3>5. s[i] = [q[m + 1] EXCEPT !.offset = @ + j] /\ d[i - 1] = e[m] + j /\ d[i] = e[m + 1]
        BY <1>1, <1>2, <2>1
      <3> QED  BY <3>4, <3>5
    <2>2. CASE i # 1
      <3>1. /\ m + i \in 1..Len(q) /\ s[i] = q[m + i]
            /\ d[i - 1] = e[(m + i) - 1] /\ d[i] = e[m + i]
        BY <1>1, <1>2, <2>2, SMTT(30)
      <3>2. \A k \in 1..Len(q) : q[k] \in Buf /\ Holds(q[k], e[k - 1], e[k])
        BY <1>1 DEF Queued
      <3>3. q[m + i] \in Buf /\ Holds(q[m + i], e[(m + i) - 1], e[m + i])
        BY <3>1, <3>2
      <3> QED  BY <3>1, <3>3
    <2> QED  BY <2>1, <2>2
  <1>5. Len(s) = n
    BY <1>1, <1>2
  <1>6. s \in Seq(Buf)
    BY <1>1, <1>2, <1>4, IsASeq, SMTT(30)
  <1>7. m # Len(q) => s # <<>>
    BY <1>1, <1>5
  <1> HIDE DEF s, d
  <1>8. Queued(s, d)
    BY <1>3, <1>4, <1>5, <1>6 DEF Queued
  <1> QED  BY <1>3, <1>5, <1>7, <1>8 DEF s

-----------------------------------------------------------------------------
(* The invariant *)

\* The bytes up to number r were received, and while the connection is open the queue
\* holds those behind them, up to the last that was accepted.
BytesKept ==
    /\ accepted \in Nat /\ accepted <= MaxBytes
    /\ \E r \in Nat : received = Bytes(0, r)
    /\ opened => \E e : /\ Queued(write_queue, e)
                        /\ e[0] = Len(received) /\ e[Len(write_queue)] = accepted

\* A close waits for what is in the queue, and its timer for the close.
CloseWaits ==
    /\ opened \in BOOLEAN /\ close \in BOOLEAN /\ close_timer \in BOOLEAN
    /\ close => opened /\ write_queue # <<>>
    /\ close_timer => close

QueueInv == BytesKept /\ CloseWaits

\* The peer gets the bytes behind number r up to number k.
LEMMA Delivers ==
    ASSUME NEW r \in Nat, NEW k \in Nat, NEW last \in Nat, r <= k, k <= last,
           received = Bytes(0, r), received' = received \o Bytes(r, k)
    PROVE  /\ Len(received) = r
           /\ received' = Bytes(0, k) /\ Len(received') = k
           /\ Stream!Deliver(last)
  <1>1. Len(received) = r
    BY BytesSeq
  <1>2. received' = Bytes(0, k)
    <2>1. 0 \in Nat /\ 0 <= r
      OBVIOUS
    <2>2. Bytes(0, r) \o Bytes(r, k) = Bytes(0, k)
      BY ONLY <2>1, r \in Nat, k \in Nat, r <= k, BytesJoin
    <2> QED  BY <2>2
  <1>3. Len(received') = k
    BY <1>2, BytesSeq
  <1>4. k \in r..last /\ received' = received \o [i \in 1..(k - r) |-> r + i]
    BY DEF Bytes
  <1>5. Stream!Deliver(last)
    BY <1>1, <1>4 DEF Stream!Deliver
  <1> QED  BY <1>1, <1>2, <1>3, <1>5

LEMMA NothingMore ==
    ASSUME NEW r \in Nat, received = Bytes(0, r), received' = received
    PROVE  received' = received \o Bytes(r, r)
  <1>1. received \in Seq(Nat) /\ Bytes(r, r) = <<>>
    <2>1. Bytes(r, r) \in Seq(Nat) /\ Len(Bytes(r, r)) = 0
      BY BytesSeq
    <2>2. Bytes(0, r) \in Seq(Nat)
      BY BytesSeq
    <2> QED  BY <2>1, <2>2
  <1> QED  BY <1>1

\* While the connection is open no more was received than accepted.
LEMMA OpenQueue ==
    ASSUME QueueInv, opened
    PROVE  /\ accepted \in Nat /\ Len(received) \in Nat /\ received = Bytes(0, Len(received))
           /\ Len(received) <= accepted
           /\ write_queue = <<>> => Len(received) = accepted
           /\ write_queue # <<>> => Len(received) < accepted
           /\ \E e : /\ Queued(write_queue, e)
                     /\ e[0] = Len(received) /\ e[Len(write_queue)] = accepted
  <1>1. PICK r \in Nat : received = Bytes(0, r)
    BY DEF QueueInv, BytesKept
  <1>2. Len(received) = r
    BY <1>1, BytesSeq
  <1>3. PICK e : /\ Queued(write_queue, e)
                 /\ e[0] = Len(received) /\ e[Len(write_queue)] = accepted
    BY DEF QueueInv, BytesKept
  <1>4. /\ Len(write_queue) \in Nat /\ e[0] <= e[Len(write_queue)]
        /\ write_queue # <<>> => e[0] < e[Len(write_queue)]
    BY <1>3, QueuedGrows
  <1>5. write_queue = <<>> => Len(write_queue) = 0
    OBVIOUS
  <1>6. accepted \in Nat
    BY DEF QueueInv, BytesKept
  <1> QED  BY <1>1, <1>2, <1>3, <1>4, <1>5, <1>6

\* The connection is closed; what was received stays as it is or has grown in order.
LEMMA ClosedInv ==
    ASSUME accepted' \in Nat, accepted' <= MaxBytes, \E r \in Nat : received' = Bytes(0, r), DoClose
    PROVE  QueueInv'
  <1>1. opened' = FALSE /\ close' = FALSE /\ close_timer' = FALSE
    BY DEF DoClose
  <1>2. BytesKept'
    BY <1>1 DEF BytesKept
  <1>3. CloseWaits'
    BY <1>1 DEF CloseWaits
  <1> QED  BY <1>2, <1>3 DEF QueueInv

\* Closing without sending.
LEMMA CloseStep ==
    ASSUME QueueInv, opened, DoClose, UNCHANGED <<accepted, received, peer>>,
           write_queue = <<>> \/ close \/ peer = "reset"
    PROVE  QueueInv' /\ Stream!End
  <1>0. PICK r, a : r = Len(received) /\ a = accepted
    OBVIOUS
  <1>1. /\ a \in Nat /\ r \in Nat /\ received = Bytes(0, r) /\ r <= a
        /\ write_queue = <<>> => r = a
    BY <1>0, OpenQueue
  <1>2. QueueInv'
    BY <1>0, <1>1, ClosedInv DEF QueueInv, BytesKept
  <1>3. received' = received \o Bytes(r, r)
    BY <1>1, NothingMore
  <1>4. Stream!Deliver(a) /\ Len(received') = r
    <2>1. r <= r
      BY <1>1
    <2> QED  BY <1>1, <1>3, <2>1, Delivers
  <1>5. Len(received') = accepted \/ close \/ peer = "reset"
    BY <1>0, <1>1, <1>4
  <1> QED  BY <1>0, <1>2, <1>4, <1>5 DEF Stream!End, DoClose

-----------------------------------------------------------------------------
(* Every action keeps the invariant and is a step of the stream *)

\* A step that leaves the connection open, with the invariant of what it sends and queues.
LEMMA PassStep ==
    ASSUME QueueInv, opened, UNCHANGED <<opened, close, close_timer, peer>>,
           NEW r \in Nat, NEW k \in Nat, NEW a \in Nat, r <= k, k <= a,
           accepted' = a, accepted <= a, a <= MaxBytes,
           received = Bytes(0, r), received' = received \o Bytes(r, k),
           \E d : Queued(write_queue', d) /\ d[0] = k /\ d[Len(write_queue')] = a,
           close => write_queue' # <<>>
    PROVE  QueueInv' /\ Stream!Pass
  <1>1. received' = Bytes(0, k) /\ Len(received') = k /\ Stream!Deliver(a)
    BY Delivers
  <1>2. BytesKept'
    BY <1>1 DEF BytesKept
  <1>3. CloseWaits'
    BY DEF QueueInv, CloseWaits
  <1>4. accepted' \in accepted..MaxBytes
    BY SizesAssumption DEF QueueInv, BytesKept
  <1>5. Stream!Deliver(accepted')
    BY <1>1
  <1> QED  BY <1>2, <1>3, <1>4, <1>5 DEF QueueInv, Stream!Pass

LEMMA MessageBytes ==
    ASSUME NEW a \in Nat, a = accepted, NEW n \in Nat
    PROVE  Message(n) = Bytes(a, a + n)
  <1>1. (a + n) - a = n
    OBVIOUS
  <1> QED  BY <1>1 DEF Message, Bytes

\* An empty queue.
LEMMA QueuedNothing ==
    ASSUME NEW q, q = <<>>, NEW a \in Nat
    PROVE  \E d : Queued(q, d) /\ d[0] = a /\ d[Len(q)] = a
  <1> DEFINE d == [i \in 0..0 |-> a]
  <1>1. q \in Seq(Buf) /\ Len(q) = 0 /\ d \in [0..0 -> Nat] /\ d[0] = a
    OBVIOUS
  <1>2. Queued(q, d)
    BY <1>1 DEF Queued
  <1> QED  BY <1>1, <1>2

\* A message that is queued behind what the kernel took of it.
LEMMA EnqueueStep ==
    ASSUME NEW q, NEW e, Queued(q, e), q = write_queue,
           NEW a \in Nat, NEW n \in Nat, NEW k \in 0..(n - 1),
           e[Len(q)] = a + k, Enqueue(Bytes(a, a + n), k)
    PROVE  /\ \E d : Queued(write_queue', d) /\ d[0] = e[0] /\ d[Len(write_queue')] = a + n
           /\ write_queue' # <<>>
  <1>0. PICK b : b = [base |-> Bytes(a, a + n), offset |-> k]
    OBVIOUS
  <1>1. b \in Buf /\ Holds(b, a + k, a + n) /\ a + n \in Nat
    <2>1. /\ [base |-> Bytes(a, a + n), offset |-> k] \in Buf
          /\ Holds([base |-> Bytes(a, a + n), offset |-> k], a + k, a + n)
      BY ONLY a \in Nat, n \in Nat, k \in 0..(n - 1), HoldsMessage
    <2> QED  BY <1>0, <2>1
  <1>2. write_queue' = Append(q, b)
    BY <1>0 DEF Enqueue
  <1>3. \E d : /\ Queued(Append(q, b), d)
               /\ d[0] = e[0] /\ d[Len(Append(q, b))] = a + n
               /\ Append(q, b) # <<>>
    BY <1>1, QueuedAppend
  <1> QED  BY <1>2, <1>3

LEMMA WriteStep ==
    ASSUME QueueInv, NEW n \in Sizes, hio_write(n)
    PROVE  QueueInv' /\ Stream!Pass
  <1>0. PICK r, a, q : r = Len(received) /\ a = accepted /\ q = write_queue
    OBVIOUS
  <1>1. /\ opened /\ UNCHANGED <<opened, close, close_timer, peer>>
        /\ accepted' = a + n /\ a + n <= MaxBytes
    BY <1>0 DEF hio_write
  <1>2. /\ a \in Nat /\ r \in Nat /\ received = Bytes(0, r) /\ r <= a
        /\ q = <<>> => r = a
        /\ \E e : Queued(q, e) /\ e[0] = r /\ e[Len(q)] = a
    BY <1>0, <1>1, OpenQueue
  <1>3. n \in Nat /\ n # 0 /\ a + n \in Nat
    BY <1>2, SizesAssumption
  <1>4. Message(n) = Bytes(a, a + n) /\ a <= a + n
    BY <1>0, <1>2, <1>3, MessageBytes
  <1>5. CASE q = <<>>
    <2>1. PICK nwrite \in Taken(n) :
             /\ received' = received \o SubSeq(Message(n), 1, nwrite)
             /\ IF nwrite = n
                THEN UNCHANGED <<write_queue, armed>>
                ELSE Enqueue(Message(n), nwrite) /\ armed' = TRUE
      BY <1>0, <1>5 DEF hio_write
    <2>2. nwrite \in 0..n
      BY <1>3 DEF Taken
    <2>3. nwrite \in 0..((a + n) - a)
      BY <1>2, <1>3, <2>2
    <2>4. SubSeq(Message(n), 1, nwrite) = Bytes(a, a + nwrite)
      <3>1. SubSeq(Bytes(a, a + n), 1, nwrite) = Bytes(a, a + nwrite)
        BY ONLY <1>2, <1>3, <1>4, <2>3, BytesFirst
      <3> QED  BY <1>4, <3>1
    <2>5. /\ r = a /\ a + nwrite \in Nat /\ a <= a + nwrite /\ a + nwrite <= a + n
      BY <1>2, <1>5, <2>2, <1>3
    <2>6. received' = received \o Bytes(r, a + nwrite)
      BY <2>1, <2>4, <2>5
    <2>7. ~close
      BY <1>0, <1>5 DEF QueueInv, CloseWaits
    <2>8. \E d : Queued(write_queue', d) /\ d[0] = a + nwrite /\ d[Len(write_queue')] = a + n
      <3>1. CASE nwrite = n
        <4>1. write_queue' = q /\ q = <<>> /\ a + nwrite = a + n
          BY <1>0, <1>5, <2>1, <3>1
        <4>2. \E d : Queued(q, d) /\ d[0] = a + n /\ d[Len(q)] = a + n
          BY <1>3, <4>1, QueuedNothing
        <4> QED  BY <4>1, <4>2
      <3>2. CASE nwrite # n
        <4>1. PICK e : Queued(q, e) /\ e[0] = a + nwrite /\ e[Len(q)] = a + nwrite
          BY <1>5, <2>5, QueuedNothing
        <4>2. nwrite \in 0..(n - 1) /\ Enqueue(Bytes(a, a + n), nwrite)
          BY <1>3, <1>4, <2>1, <2>2, <3>2
        <4>3. /\ \E d : Queued(write_queue', d) /\ d[0] = e[0] /\ d[Len(write_queue')] = a + n
              /\ write_queue' # <<>>
          <5>1. Queued(q, e) /\ e[Len(q)] = a + nwrite
            BY <4>1
          <5>2. q = write_queue /\ a \in Nat /\ n \in Nat
            BY <1>0, <1>2, <1>3
          <5>3. PICK k : k = nwrite
            OBVIOUS
          <5>4. e[Len(q)] = a + k /\ k \in 0..(n - 1) /\ Enqueue(Bytes(a, a + n), k)
            BY <4>2, <5>1, <5>3
          <5> QED  BY ONLY <4>2, <5>1, <5>2, <5>4, EnqueueStep
        <4> QED  BY <4>1, <4>3
      <3> QED  BY <3>1, <3>2
    <2> QED  BY <1>0, <1>1, <1>2, <1>3, <1>4, <2>5, <2>6, <2>7, <2>8, PassStep
  <1>6. CASE q # <<>>
    <2>1. Enqueue(Message(n), 0) /\ received' = received
      BY <1>0, <1>6 DEF hio_write
    <2>2. PICK e : Queued(q, e) /\ e[0] = r /\ e[Len(q)] = a
      BY <1>2
    <2> DEFINE z == 0
    <2>3. z \in 0..(n - 1) /\ a + z = a /\ r <= r /\ r <= a + n
      BY <1>2, <1>3
    <2>6. e[Len(q)] = a + z /\ Enqueue(Bytes(a, a + n), z)
      BY <1>4, <2>1, <2>2, <2>3
    <2> HIDE DEF z
    <2>4. /\ \E d : Queued(write_queue', d) /\ d[0] = e[0] /\ d[Len(write_queue')] = a + n
          /\ write_queue' # <<>>
      BY ONLY <1>0, <1>2, <1>3, <2>2, <2>3, <2>6, EnqueueStep
    <2>5. received' = received \o Bytes(r, r)
      BY <1>2, <2>1, NothingMore
    <2> QED  BY <1>0, <1>1, <1>2, <1>3, <1>4, <2>2, <2>3, <2>4, <2>5, PassStep
  <1> QED  BY <1>5, <1>6

LEMMA WriteEventStep ==
    ASSUME QueueInv, WriteEvent
    PROVE  QueueInv' /\ (Stream!Pass \/ Stream!End)
  <1>0. PICK m \in 0..Len(write_queue) : \E j \in Partial(m) : nio_write(m, j)
    BY DEF WriteEvent
  <1>1. PICK j \in Partial(m) : nio_write(m, j)
    BY <1>0
  <1>2. PICK r, a, q : r = Len(received) /\ a = accepted /\ q = write_queue
    OBVIOUS
  <1>3. /\ opened /\ received' = received \o Sent(m, j)
        /\ accepted' = a /\ peer' = peer
    BY <1>1, <1>2 DEF nio_write
  <1>4. /\ a \in Nat /\ r \in Nat /\ received = Bytes(0, r)
        /\ \E e : Queued(q, e) /\ e[0] = r /\ e[Len(q)] = a
    BY <1>2, <1>3, OpenQueue
  <1>5. PICK e : Queued(q, e) /\ e[0] = r /\ e[Len(q)] = a
    BY <1>4
  <1>6. Queued(write_queue, e) /\ e[Len(write_queue)] = a /\ a <= MaxBytes
    BY <1>2, <1>5 DEF QueueInv, BytesKept
  <1>7. PICK k : k = e[m] + j
    OBVIOUS
  <1>8. received' = received \o Bytes(r, k)
    BY <1>3, <1>5, <1>6, <1>7, SentBytes
  <1>9. /\ \E d : Queued(Left(m, j), d) /\ d[0] = k /\ d[Len(Left(m, j))] = a
        /\ m # Len(write_queue) => Left(m, j) # <<>>
    BY <1>6, <1>7, LeftQueued
  <1>10. k \in Nat /\ r <= k /\ k <= a
    <2>1. j \in Nat /\ e[m] \in Nat /\ r <= e[m]
      BY <1>5, <1>6, PartialBytes, QueuedGrows
    <2>2. PICK s, d : s = Left(m, j) /\ Queued(s, d) /\ d[0] = k /\ d[Len(s)] = a
      BY <1>9
    <2>3. Len(s) \in Nat /\ \A i \in 0..Len(s) : d[0] <= d[i]
      BY <2>2, QueuedGrows
    <2>4. k <= a
      BY <2>2, <2>3
    <2> QED  BY <1>4, <1>7, <2>1, <2>4
  <1>11. CASE m = Len(write_queue) /\ close
    <2>1. DoClose
      BY <1>1, <1>11 DEF nio_write
    <2>2. k = a
      BY <1>4, <1>6, <1>7, <1>11, PartialBytes
    <2>3. received' = Bytes(0, a) /\ Len(received') = a /\ Stream!Deliver(a)
      BY <1>4, <1>8, <1>10, <2>2, Delivers
    <2>4. QueueInv'
      BY <1>3, <1>4, <1>6, <2>1, <2>3, ClosedInv
    <2>5. Stream!End
      BY <1>2, <1>3, <2>1, <2>3 DEF Stream!End, DoClose
    <2> QED  BY <2>4, <2>5
  <1>12. CASE ~(m = Len(write_queue) /\ close)
    <2>1. write_queue' = Left(m, j) /\ UNCHANGED <<opened, close, close_timer>>
      BY <1>1, <1>12 DEF nio_write
    <2>2. \E d : Queued(write_queue', d) /\ d[0] = k /\ d[Len(write_queue')] = a
      BY <1>9, <2>1
    <2>3. close => write_queue' # <<>>
      BY <1>9, <1>12, <2>1
    <2>4. accepted <= a
      BY <1>2, <1>4
    <2> QED  BY <1>3, <1>4, <1>6, <1>8, <1>10, <2>1, <2>2, <2>3, <2>4, PassStep
  <1> QED  BY <1>11, <1>12

LEMMA HioCloseStep ==
    ASSUME QueueInv, hio_close
    PROVE  QueueInv' /\ (Stream!Ask \/ Stream!End)
  <1>1. opened /\ UNCHANGED <<accepted, received, peer>>
    BY DEF hio_close
  <1>2. CASE write_queue # <<>> /\ ~close
    <2>1. close' = TRUE /\ close_timer' = TRUE /\ UNCHANGED <<opened, write_queue, armed>>
      BY <1>2 DEF hio_close
    <2>2. BytesKept'
      BY <1>1, <2>1 DEF QueueInv, BytesKept
    <2>3. CloseWaits'
      BY <1>1, <1>2, <2>1 DEF QueueInv, CloseWaits
    <2>4. Len(received) < accepted
      BY <1>1, <1>2, OpenQueue
    <2> QED  BY <1>1, <1>2, <2>1, <2>2, <2>3, <2>4 DEF QueueInv, Stream!Ask
  <1>3. CASE ~(write_queue # <<>> /\ ~close)
    <2>1. DoClose
      BY <1>3 DEF hio_close
    <2> QED  BY <1>1, <1>3, <2>1, CloseStep DEF QueueInv, CloseWaits
  <1> QED  BY <1>2, <1>3

LEMMA PeerStep ==
    ASSUME QueueInv, NEW how, Peer(how)
    PROVE  QueueInv' /\ (Stream!Reset \/ UNCHANGED Stream!svars)
  <1>1. /\ opened /\ peer # "reset" /\ peer' = how
        /\ UNCHANGED <<opened, close, close_timer, write_queue, armed, accepted, received>>
    BY DEF Peer, hio
  <1>2. QueueInv'
    BY <1>1 DEF QueueInv, BytesKept, CloseWaits
  <1>3. CASE how = "reset"
    BY <1>1, <1>2, <1>3 DEF Stream!Reset
  <1>4. CASE how # "reset"
    BY <1>1, <1>2, <1>4 DEF Stream!svars
  <1> QED  BY <1>3, <1>4

\* The invariant is inductive, and every step is one of the stream.
LEMMA QueueStep ==
    ASSUME QueueInv, [QueueNext]_queueVars
    PROVE  QueueInv' /\ [Stream!Next]_(Stream!svars)
  <1>1. ASSUME NEW n \in Sizes, hio_write(n) PROVE QueueInv' /\ Stream!Next
    BY <1>1, WriteStep DEF Stream!Next
  <1>2. CASE WriteError
    <2>1. /\ opened /\ peer = "reset" /\ DoClose
          /\ UNCHANGED <<accepted, received, peer>>
      BY <1>2 DEF WriteError
    <2> QED  BY <2>1, CloseStep DEF Stream!Next
  <1>3. CASE WriteEvent
    BY <1>3, WriteEventStep DEF Stream!Next
  <1>4. CASE hio_close
    BY <1>4, HioCloseStep DEF Stream!Next
  <1>5. CASE CloseTimeout
    <2>1. /\ close /\ opened /\ DoClose
          /\ UNCHANGED <<accepted, received, peer>>
      BY <1>5 DEF CloseTimeout, QueueInv, CloseWaits
    <2> QED  BY <2>1, CloseStep DEF Stream!Next
  <1>6. ASSUME NEW how \in {"reading", "stalled", "reset"}, Peer(how)
        PROVE  QueueInv' /\ [Stream!Next]_(Stream!svars)
    BY <1>6, PeerStep DEF Stream!Next
  <1>7. CASE UNCHANGED queueVars
    BY <1>7 DEF queueVars, hio, QueueInv, BytesKept, CloseWaits, Stream!svars
  <1> QED  BY <1>1, <1>2, <1>3, <1>4, <1>5, <1>6, <1>7 DEF QueueNext

LEMMA QueueStart ==
    ASSUME QueueInit
    PROVE  QueueInv /\ Stream!Init
  <1>1. opened = TRUE /\ close = FALSE /\ close_timer = FALSE /\ write_queue = <<>>
        /\ accepted = 0 /\ received = <<>> /\ peer = "reading"
    BY DEF QueueInit
  <1>2. received = Bytes(0, 0) /\ Len(received) = 0
    BY <1>1 DEF Bytes
  <1>3. PICK q : q = write_queue
    OBVIOUS
  <1>4. \E d : Queued(q, d) /\ d[0] = 0 /\ d[Len(q)] = 0
    <2> DEFINE a == 0
    <2>1. q = <<>> /\ a \in Nat
      BY <1>1, <1>3
    <2> HIDE DEF a
    <2>2. \E d : Queued(q, d) /\ d[0] = a /\ d[Len(q)] = a
      BY ONLY <2>1, QueuedNothing
    <2> QED  BY <2>2 DEF a
  <1>5. BytesKept
    BY <1>1, <1>2, <1>3, <1>4, SizesAssumption DEF BytesKept
  <1>6. CloseWaits
    BY <1>1 DEF CloseWaits
  <1>7. Stream!Init
    BY <1>1 DEF Stream!Init
  <1> QED  BY <1>5, <1>6, <1>7 DEF QueueInv

-----------------------------------------------------------------------------

\* What was received and what is queued make up what was accepted, whatever the kernel
\* takes of each write, and a close waits only while something is queued.
THEOREM QueueInvariant == QueueSpec => []QueueInv
  <1>1. QueueInit => QueueInv
    BY QueueStart
  <1>2. QueueInv /\ [QueueNext]_queueVars => QueueInv'
    BY QueueStep
  <1> QED  BY <1>1, <1>2, PTL DEF QueueSpec

\* The connection is the stream its callers rely on: hio_write, the write event, hio_close
\* and its timer neither reorder, repeat nor lose a byte, and only a reset or a close that
\* waits cuts the stream short.
THEOREM QueueIsStream == QueueSpec => StreamSpec
  <1>1. QueueInit => QueueInv /\ Stream!Init
    BY QueueStart
  <1>2. QueueInv /\ [QueueNext]_queueVars => QueueInv' /\ [Stream!Next]_(Stream!svars)
    BY QueueStep
  <1> QED  BY <1>1, <1>2, PTL DEF QueueSpec, StreamSpec, Stream!Spec
=============================================================================

----------------------------- MODULE FilesProofs -----------------------------
(***************************************************************************)
(* Proofs about what MCFiles checks one by one: pages in the browser, for  *)
(* any intervals, sizes and times; names in a statement, of any length and *)
(* in any number; path strings with any names.                             *)
(***************************************************************************)
EXTENDS MCFiles, SequenceTheorems, WellFoundedInduction, TLAPS

-----------------------------------------------------------------------------
(* Pages: the browser's copy of a page against the page on disk *)

Locals == [at : Nat, modified : BOOLEAN, need_read : BOOLEAN, get : BOOLEAN,
           since : Nat \cup {None}, fd : File \cup {None}]

TypeOK ==
    /\ now \in Nat /\ sweep \in Nat /\ saves \in Nat
    /\ disk \in File \cup {None} /\ fc \in Entry \cup {None} /\ copy \in Copy \cup {None}
    /\ pc \in {"idle", "open", "read", "answer"} /\ h \in Locals

\* The modification times that the cache, the request and the browser remember.
Seen ==
    (IF fc = None THEN {} ELSE {fc.st.mtime, fc.last_modified})
      \cup (IF copy = None THEN {} ELSE {copy.last_modified})

\* They are of the page on disk or of an earlier one; a time that is still running and
\* is not that of the page on disk was used by two pages.
SeenEarlier ==
    /\ disk # None => disk.mtime <= now
    /\ \A t \in Seen \ {None} :
          /\ t <= now /\ (disk # None => t <= disk.mtime)
          /\ t = now => now \in twice \/ disk # None

\* An entry that was compared after the last save has the state of the page, and one
\* that has its modification time has its size.
StatTrue ==
    fc # None =>
        /\ fc.stat_time <= now
        /\ fc.last_modified # None => fc.last_modified <= fc.st.mtime
        /\ disk # None =>
              /\ disk.mtime < fc.stat_time => fc.st.mtime = disk.mtime
              /\ disk.mtime = fc.st.mtime /\ disk.mtime \notin twice => fc.st.size = disk.size

\* The request at hand: its entry was compared within the interval, a GET reads the page
\* before it answers or finds it complete, and the open file is the page on disk
\* as long as that has the modification time of the entry.
RequestTrue ==
    /\ pc = "idle" => h = NoRequest
    /\ pc # "idle" =>
          /\ h.at <= now
          /\ fc # None => h.at <= fc.stat_time + file_stat_interval
          /\ h.since # None => copy # None /\ copy.last_modified = h.since
          /\ h.modified => fc # None
    /\ pc \in {"open", "read"} /\ h.get => h.need_read
    /\ pc \in {"read", "answer"} => fc # None
    /\ pc = "answer" /\ h.get => is_complete(fc, fc.st)
    /\ pc = "read" =>
          /\ h.fd # None
          /\ disk # None /\ disk.mtime = fc.st.mtime /\ disk.mtime \notin twice => h.fd = disk

\* The running request has noticed a modification and has not read the page yet.
Noticed == pc \in {"open", "read"} /\ h.modified

\* The page on disk is the only one with its modification time, and it was read when that
\* was noticed.
Plain == disk # None /\ disk.mtime \notin twice \cup missed

\* A complete buffer with the modification time of the page holds the page, and says so.
BufferTrue ==
    Plain /\ fc # None /\ fc.st.mtime = disk.mtime /\ ~Noticed =>
        /\ is_complete(fc, fc.st) => fc.buf = disk.content
        /\ fc.last_modified \in {None, disk.mtime}

\* So does the browser's copy.
CopyTrue ==
    Plain /\ copy # None /\ copy.last_modified = disk.mtime => copy.content = disk.content

\* A page of no size has no content.
DiskTrue == disk # None /\ disk.size = 0 => disk.content = Empty

CacheInv == TypeOK /\ SeenEarlier /\ StatTrue /\ RequestTrue /\ BufferTrue /\ CopyTrue /\ DiskTrue


-----------------------------------------------------------------------------
(* Init and the steps *)

LEMMA InitTrue == Init => CacheInv
  <1> SUFFICES ASSUME Init PROVE CacheInv
    OBVIOUS
  <1> USE TimesAssumption, NoneAssumption
  <1>1. TypeOK
    BY DEF Init, TypeOK, NoRequest, Locals
  <1>2. SeenEarlier /\ StatTrue /\ BufferTrue /\ CopyTrue /\ DiskTrue
    BY DEF Init, SeenEarlier, Seen, StatTrue, BufferTrue, CopyTrue, DiskTrue, Plain
  <1>3. RequestTrue
    BY DEF Init, RequestTrue
  <1> QED  BY <1>1, <1>2, <1>3 DEF CacheInv

LEMMA OpenTrue ==
    ASSUME CacheInv, NEW get \in BOOLEAN, NEW since \in Nat \cup {None}, Open(get, since),
           since # None => copy # None /\ copy.last_modified = since
    PROVE  CacheInv'
  <1> USE TimesAssumption, NoneAssumption
  <1> DEFINE looks == fc # None /\ now - fc.stat_time > file_stat_interval
             modified == looks /\ is_modified(fc.st)
             st == IF looks /\ disk # None THEN [mtime |-> disk.mtime, size |-> disk.size] ELSE fc.st
             need_read == get /\ (fc = None \/ modified \/ ~is_complete(fc, st))
  <1>0. TypeOK /\ SeenEarlier /\ StatTrue /\ RequestTrue /\ BufferTrue /\ CopyTrue /\ DiskTrue
    BY DEF CacheInv
  <1>1. /\ pc = "idle" /\ UNCHANGED <<now, sweep, disk, saves, copy, twice, missed>>
        /\ fc' = IF looks THEN [fc EXCEPT !.st = st, !.stat_time = now] ELSE fc
        /\ pc' = IF fc = None \/ modified \/ need_read THEN "open" ELSE "answer"
        /\ h' = [at |-> now, modified |-> modified, need_read |-> need_read, get |-> get,
                 since |-> since, fd |-> None]
    BY DEF Open
  <1>2. looks \in BOOLEAN /\ modified \in BOOLEAN /\ need_read \in BOOLEAN /\ (fc # None => st \in Stat)
    BY <1>0 DEF TypeOK, Entry, File, Stat
  <1>3. /\ fc = None => fc' = None
        /\ fc # None => /\ fc' \in Entry /\ fc'.st = st /\ fc'.buf = fc.buf /\ fc'.len = fc.len
                        /\ fc'.last_modified = fc.last_modified
                        /\ fc'.stat_time = IF looks THEN now ELSE fc.stat_time
    BY <1>0, <1>1, <1>2 DEF TypeOK, Entry, Stat
  <1>4. /\ fc # None => st.mtime \in Nat /\ st.size \in Nat
        /\ fc # None /\ looks /\ disk # None => st.mtime = disk.mtime /\ st.size = disk.size
        /\ ~(looks /\ disk # None) => st = fc.st
    BY <1>2 DEF Stat
  <1>5. modified <=> looks /\ disk # None /\ disk.mtime # fc.st.mtime
    BY DEF is_modified
  <1>6. need_read <=> get /\ (fc = None \/ modified \/ fc.len # st.size)
    BY DEF is_complete
  <1>7. /\ fc # None => fc \in Entry /\ fc.st \in Stat /\ fc.st.mtime \in Nat /\ fc.st.size \in Nat
                        /\ fc.stat_time \in Nat /\ fc.last_modified \in Nat \cup {None}
        /\ disk # None => disk \in File /\ disk.mtime \in Nat
        /\ now \in Nat
    BY <1>0 DEF TypeOK, Entry, Stat, File
  <1> HIDE DEF looks, modified, st, need_read
  <1>8. looks <=> fc # None /\ now - fc.stat_time > file_stat_interval
    BY DEF looks
  <1>10. TypeOK'
    BY <1>0, <1>1, <1>2, <1>3 DEF TypeOK, Locals
  <1>11. SeenEarlier'
    BY <1>0, <1>1, <1>3, <1>4, <1>7, <1>8 DEF SeenEarlier, Seen
  <1>12. StatTrue'
    BY <1>0, <1>1, <1>3, <1>4, <1>7, <1>8 DEF StatTrue, SeenEarlier, Seen
  <1>13. RequestTrue'
    BY <1>0, <1>1, <1>3, <1>4, <1>5, <1>6, <1>7, <1>8 DEF RequestTrue, StatTrue, is_complete
  <1>14. BufferTrue'
    BY <1>0, <1>1, <1>3, <1>4, <1>5, <1>6, <1>7, <1>8 DEF BufferTrue, StatTrue, is_complete, Plain, Noticed
  <1>15. CopyTrue' /\ DiskTrue'
    BY <1>0, <1>1 DEF CopyTrue, DiskTrue, Plain
  <1> QED  BY <1>10, <1>11, <1>12, <1>13, <1>14, <1>15 DEF CacheInv


\* The fields of what is there.
LEMMA Fields ==
    ASSUME TypeOK
    PROVE  /\ now \in Nat /\ saves \in Nat /\ sweep \in Nat
           /\ fc # None => /\ fc \in Entry /\ fc.st \in Stat /\ fc.st.mtime \in Nat /\ fc.st.size \in Nat
                           /\ fc.stat_time \in Nat /\ fc.last_modified \in Nat \cup {None}
                           /\ fc.buf \in Nat /\ fc.len \in Nat
           /\ disk # None => /\ disk \in File /\ disk.mtime \in Nat /\ disk.size \in Nat
                             /\ disk.content \in Nat
           /\ copy # None => copy.last_modified \in Nat \cup {None} /\ copy.content \in Nat
           /\ h \in Locals /\ h.at \in Nat /\ h.get \in BOOLEAN /\ h.since \in Nat \cup {None}
           /\ h.modified \in BOOLEAN /\ h.need_read \in BOOLEAN /\ h.fd \in File \cup {None}
           /\ h.fd # None => h.fd.size \in Nat /\ h.fd.content \in Nat /\ h.fd.ino \in Nat
  BY DEF TypeOK, Entry, Stat, File, Copy, Locals

LEMMA OpenFileTrue ==
    ASSUME CacheInv, OpenFile
    PROVE  CacheInv'
  <1> USE TimesAssumption, NoneAssumption
  <1>0. TypeOK /\ SeenEarlier /\ StatTrue /\ RequestTrue /\ BufferTrue /\ CopyTrue /\ DiskTrue
    BY DEF CacheInv
  <1>2. /\ pc = "open" /\ disk # None /\ pc' = "read"
        /\ h' = [h EXCEPT !.fd = disk]
        /\ UNCHANGED <<now, sweep, disk, saves, copy, twice, missed>>
    BY DEF OpenFile
  <1>3. /\ fc # None => fc' = fc
        /\ fc = None => /\ fc' \in Entry /\ fc'.st.mtime = disk.mtime /\ fc'.st.size = disk.size
                        /\ fc'.stat_time = now /\ fc'.buf = Empty /\ fc'.len = 0
                        /\ fc'.last_modified = None
    BY <1>0, Fields, <1>2 DEF OpenFile, Entry, Stat, Empty
  <1>4. /\ h' \in Locals /\ h'.fd = disk /\ h'.at = h.at /\ h'.get = h.get /\ h'.since = h.since
        /\ h'.modified = h.modified /\ h'.need_read = h.need_read
    BY <1>0, Fields, <1>2 DEF Locals
  <1>10. TypeOK'
    BY <1>0, <1>2, <1>3, <1>4 DEF TypeOK
  <1>11. SeenEarlier'
    BY <1>0, Fields, <1>2, <1>3 DEF SeenEarlier, Seen
  <1>12. StatTrue'
    BY <1>0, Fields, <1>2, <1>3 DEF StatTrue, SeenEarlier
  <1>13. RequestTrue'
    BY <1>0, Fields, <1>2, <1>3, <1>4 DEF RequestTrue, StatTrue
  <1>14. BufferTrue'
    BY <1>0, Fields, <1>2, <1>3, <1>4 DEF BufferTrue, RequestTrue, is_complete, Plain, Noticed, DiskTrue
  <1>15. CopyTrue' /\ DiskTrue'
    BY <1>0, <1>2 DEF CopyTrue, DiskTrue, Plain
  <1> QED  BY <1>10, <1>11, <1>12, <1>13, <1>14, <1>15 DEF CacheInv

\* The request ends, and what it noticed is missed.
LEMMA OpenFailsTrue ==
    ASSUME CacheInv, OpenFails
    PROVE  CacheInv'
  <1> USE TimesAssumption, NoneAssumption
  <1>0. TypeOK /\ SeenEarlier /\ StatTrue /\ RequestTrue /\ BufferTrue /\ CopyTrue /\ DiskTrue
    BY DEF CacheInv
  <1>2. /\ pc = "open" /\ pc' = "idle" /\ h' = NoRequest
        /\ UNCHANGED <<now, sweep, disk, saves, fc, copy, twice>>
        /\ missed' = IF h.modified THEN missed \cup {fc.st.mtime} ELSE missed
    BY DEF OpenFails, Missed
  <1>3. NoRequest \in Locals
    BY DEF NoRequest, Locals
  <1>10. TypeOK'
    BY <1>0, <1>2, <1>3 DEF TypeOK
  <1>11. SeenEarlier' /\ StatTrue' /\ DiskTrue'
    BY <1>0, <1>2 DEF SeenEarlier, Seen, StatTrue, DiskTrue
  <1>12. RequestTrue'
    BY <1>2 DEF RequestTrue
  <1>13. BufferTrue'
    BY <1>0, Fields, <1>2 DEF BufferTrue, RequestTrue, is_complete, Plain, Noticed
  <1>14. CopyTrue'
    BY <1>0, <1>2 DEF CopyTrue, Plain
  <1> QED  BY <1>10, <1>11, <1>12, <1>13, <1>14 DEF CacheInv

LEMMA ReadFileTrue ==
    ASSUME CacheInv, ReadFile
    PROVE  CacheInv'
  <1> USE TimesAssumption, NoneAssumption
  <1>0. TypeOK /\ SeenEarlier /\ StatTrue /\ RequestTrue /\ BufferTrue /\ CopyTrue /\ DiskTrue
    BY DEF CacheInv
  <1>2. /\ pc = "read" /\ pc' = "answer" /\ fc # None /\ h.fd # None
        /\ UNCHANGED <<now, sweep, disk, saves, h, copy, twice>>
        /\ missed' = IF ~h.need_read /\ h.modified THEN missed \cup {fc.st.mtime} ELSE missed
    BY <1>0 DEF ReadFile, Missed, RequestTrue
  <1>3. BytesRead \in Nat
    BY <1>0, Fields, <1>2 DEF BytesRead, Empty, Torn
  <1>4. /\ fc' \in Entry /\ fc' # None /\ fc'.st = fc.st /\ fc'.stat_time = fc.stat_time
        /\ fc'.last_modified = fc.st.mtime
        /\ fc'.buf = IF h.need_read THEN BytesRead ELSE fc.buf
        /\ fc'.len = IF h.need_read THEN fc.st.size ELSE fc.len
    BY <1>0, Fields, <1>2, <1>3 DEF ReadFile, Entry
  <1>5. ASSUME disk # None, disk.mtime \notin twice, disk.mtime = fc.st.mtime
        PROVE  BytesRead = disk.content
    <2>1. h.fd = disk /\ fc.st.size = disk.size
      BY <1>0, <1>2, <1>5 DEF RequestTrue, StatTrue
    <2> QED  BY <1>0, Fields, <1>5, <2>1 DEF BytesRead, DiskTrue
  <1>10. TypeOK'
    BY <1>0, <1>2, <1>4 DEF TypeOK
  <1>11. SeenEarlier'
    BY <1>0, Fields, <1>2, <1>4 DEF SeenEarlier, Seen
  <1>12. StatTrue' /\ DiskTrue'
    BY <1>0, Fields, <1>2, <1>4 DEF StatTrue, DiskTrue
  <1>13. RequestTrue'
    BY <1>0, Fields, <1>2, <1>4 DEF RequestTrue, is_complete
  <1>14. BufferTrue'
    BY <1>0, Fields, <1>2, <1>4, <1>5 DEF BufferTrue, is_complete, Plain, Noticed
  <1>15. CopyTrue'
    BY <1>0, <1>2 DEF CopyTrue, Plain
  <1> QED  BY <1>10, <1>11, <1>12, <1>13, <1>14, <1>15 DEF CacheInv


\* A file that is shorter than the entry says is not the page the entry is about.
LEMMA ReadFailsTrue ==
    ASSUME CacheInv, ReadFails
    PROVE  CacheInv'
  <1> USE TimesAssumption, NoneAssumption
  <1>0. TypeOK /\ SeenEarlier /\ StatTrue /\ RequestTrue /\ BufferTrue /\ CopyTrue /\ DiskTrue
    BY DEF CacheInv
  <1>2. /\ pc = "read" /\ pc' = "idle" /\ h' = NoRequest /\ fc # None /\ h.fd # None
        /\ h.fd.size < fc.st.size
        /\ UNCHANGED <<now, sweep, disk, saves, copy, twice>>
        /\ missed' = IF h.modified THEN missed \cup {fc.st.mtime} ELSE missed
    BY <1>0 DEF ReadFails, Missed, RequestTrue
  <1>3. NoRequest \in Locals /\ Torn \in Nat
    BY DEF NoRequest, Locals, Torn
  <1>4. /\ fc' \in Entry /\ fc' # None /\ fc'.st = fc.st /\ fc'.stat_time = fc.stat_time
        /\ fc'.last_modified = fc.last_modified
    BY <1>0, Fields, <1>2, <1>3 DEF ReadFails, Entry
  <1>5. disk # None /\ disk.mtime = fc.st.mtime => disk.mtime \in twice
    BY <1>0, Fields, <1>2 DEF RequestTrue, StatTrue
  <1>10. TypeOK'
    BY <1>0, <1>2, <1>3, <1>4 DEF TypeOK
  <1>11. SeenEarlier' /\ DiskTrue'
    BY <1>0, <1>2, <1>4 DEF SeenEarlier, Seen, DiskTrue
  <1>12. StatTrue'
    BY <1>0, <1>2, <1>4 DEF StatTrue
  <1>13. RequestTrue'
    BY <1>2 DEF RequestTrue
  <1>14. BufferTrue'
    BY <1>2, <1>4, <1>5 DEF BufferTrue, Plain
  <1>15. CopyTrue'
    BY <1>0, <1>2 DEF CopyTrue, Plain
  <1> QED  BY <1>10, <1>11, <1>12, <1>13, <1>14, <1>15 DEF CacheInv

LEMMA RemoveExpiredTrue ==
    ASSUME CacheInv, RemoveExpiredFileCache
    PROVE  CacheInv'
  <1> USE TimesAssumption, NoneAssumption
  <1>0. TypeOK /\ SeenEarlier /\ StatTrue /\ RequestTrue /\ BufferTrue /\ CopyTrue /\ DiskTrue
    BY DEF CacheInv
  <1>2. /\ pc = "idle" /\ UNCHANGED <<now, disk, saves, pc, h, copy, twice, missed>>
        /\ fc' = None \/ fc' = fc
        /\ sweep' = now + file_expired_time
    BY DEF RemoveExpiredFileCache
  <1>10. TypeOK'
    BY <1>0, <1>2 DEF TypeOK
  <1>11. SeenEarlier' /\ DiskTrue' /\ StatTrue'
    BY <1>0, <1>2 DEF SeenEarlier, Seen, DiskTrue, StatTrue
  <1>13. RequestTrue'
    BY <1>0, <1>2 DEF RequestTrue
  <1>14. BufferTrue'
    BY <1>0, <1>2 DEF BufferTrue, Plain, Noticed, is_complete
  <1>15. CopyTrue'
    BY <1>0, <1>2 DEF CopyTrue, Plain
  <1> QED  BY <1>10, <1>11, <1>13, <1>14, <1>15 DEF CacheInv

\* The browser keeps a complete buffer; with the modification time of the page it is the page.
LEMMA AnswerTrue ==
    ASSUME CacheInv, Answer
    PROVE  CacheInv'
  <1> USE TimesAssumption, NoneAssumption
  <1>0. TypeOK /\ SeenEarlier /\ StatTrue /\ RequestTrue /\ BufferTrue /\ CopyTrue /\ DiskTrue
    BY DEF CacheInv
  <1>2. /\ pc = "answer" /\ pc' = "idle" /\ h' = NoRequest /\ fc # None
        /\ UNCHANGED <<now, sweep, disk, saves, fc, twice, missed>>
    BY <1>0 DEF Answer, RequestTrue
  <1>3. \/ copy' = copy
        \/ /\ h.get /\ copy' \in Copy /\ copy' # None
           /\ copy'.content = fc.buf /\ copy'.last_modified = fc.last_modified
    BY <1>0, Fields, <1>2 DEF Answer, Copy
  <1>4. NoRequest \in Locals
    BY DEF NoRequest, Locals
  <1>10. TypeOK'
    BY <1>0, <1>2, <1>3, <1>4 DEF TypeOK
  <1>11. SeenEarlier'
    BY <1>0, <1>2, <1>3 DEF SeenEarlier, Seen
  <1>12. StatTrue' /\ DiskTrue'
    BY <1>0, <1>2 DEF StatTrue, DiskTrue
  <1>13. RequestTrue'
    BY <1>2 DEF RequestTrue
  <1>14. BufferTrue'
    BY <1>0, <1>2 DEF BufferTrue, Plain, Noticed, is_complete
  <1>15. CopyTrue'
    <2>1. CASE copy' = copy
      BY <1>0, <1>2, <2>1 DEF CopyTrue, Plain
    <2>2. CASE /\ h.get /\ copy' \in Copy /\ copy' # None
               /\ copy'.content = fc.buf /\ copy'.last_modified = fc.last_modified
      <3>1. ASSUME Plain, fc.last_modified = disk.mtime
            PROVE  fc.st.mtime = disk.mtime
        BY <1>0, Fields, <1>2, <3>1 DEF Plain, StatTrue, SeenEarlier, Seen
      <3>2. is_complete(fc, fc.st) /\ ~Noticed
        BY <1>0, <1>2, <2>2 DEF RequestTrue, Noticed
      <3> QED  BY <1>0, <1>2, <2>2, <3>1, <3>2 DEF CopyTrue, BufferTrue, Plain
    <2> QED  BY <1>3, <2>1, <2>2
  <1> QED  BY <1>10, <1>11, <1>12, <1>13, <1>14, <1>15 DEF CacheInv


\* A new page has a new modification time, or one that was used twice.
LEMMA SaveTrue ==
    ASSUME CacheInv, NEW size \in Sizes, NEW inplace \in BOOLEAN, Save(size, inplace)
    PROVE  CacheInv'
  <1> USE TimesAssumption, NoneAssumption, SizesAssumption
  <1>0. TypeOK /\ SeenEarlier /\ StatTrue /\ RequestTrue /\ BufferTrue /\ CopyTrue /\ DiskTrue
    BY DEF CacheInv
  <1>1. /\ disk' \in File /\ disk' # None /\ disk'.mtime = now
        /\ disk'.size = size /\ disk'.content = IF size = 0 THEN Empty ELSE saves + 1
    BY <1>0, Fields DEF Save, File, Empty
  <1>2. /\ UNCHANGED <<now, sweep, fc, pc, copy, missed>> /\ saves' = saves + 1
        /\ twice' = IF disk # None /\ disk.mtime = now THEN twice \cup {now} ELSE twice
        /\ h' = h \/ (h.fd # None /\ h' = [h EXCEPT !.fd = disk'])
    BY DEF Save
  <1>3. \A t \in Seen \ {None} : t <= now /\ (t = now => now \in twice')
    BY <1>0, Fields, <1>2, SMTT(30) DEF SeenEarlier, Seen
  <1>4. /\ h' \in Locals /\ (h.fd # None => h'.fd # None) /\ h'.at = h.at /\ h'.get = h.get
        /\ h'.since = h.since /\ h'.modified = h.modified /\ h'.need_read = h.need_read
        /\ h.fd = None => h' = h
    BY <1>0, Fields, <1>1, <1>2 DEF Locals
  <1>10. TypeOK'
    BY <1>0, Fields, <1>1, <1>2, <1>4 DEF TypeOK
  <1>11. SeenEarlier'
    BY <1>0, Fields, <1>1, <1>2, <1>3 DEF SeenEarlier, Seen
  <1>12. StatTrue' /\ DiskTrue'
    BY <1>0, Fields, <1>1, <1>2, <1>3 DEF StatTrue, DiskTrue, Seen
  <1>13. RequestTrue'
    BY <1>0, Fields, <1>1, <1>2, <1>3, <1>4 DEF RequestTrue, Seen, is_complete, NoRequest
  <1>14. BufferTrue' /\ CopyTrue'
    BY <1>0, Fields, <1>1, <1>2, <1>3 DEF BufferTrue, CopyTrue, Plain, Seen
  <1> QED  BY <1>10, <1>11, <1>12, <1>13, <1>14 DEF CacheInv

LEMMA RemoveTrue ==
    ASSUME CacheInv, Remove
    PROVE  CacheInv'
  <1> USE TimesAssumption, NoneAssumption
  <1>0. TypeOK /\ SeenEarlier /\ StatTrue /\ RequestTrue /\ BufferTrue /\ CopyTrue /\ DiskTrue
    BY DEF CacheInv
  <1>2. /\ disk # None /\ disk' = None /\ UNCHANGED <<now, sweep, saves, fc, pc, h, copy, missed>>
        /\ twice' = twice \cup (IF disk.mtime = now THEN {now} ELSE {})
    BY DEF Remove
  <1>10. TypeOK'
    BY <1>0, <1>2 DEF TypeOK
  <1>11. SeenEarlier'
    BY <1>0, Fields, <1>2 DEF SeenEarlier, Seen
  <1>12. StatTrue' /\ DiskTrue' /\ BufferTrue' /\ CopyTrue'
    BY <1>0, <1>2 DEF StatTrue, DiskTrue, BufferTrue, CopyTrue, Plain
  <1>13. RequestTrue'
    BY <1>0, <1>2 DEF RequestTrue, is_complete
  <1> QED  BY <1>10, <1>11, <1>12, <1>13 DEF CacheInv

LEMMA TickTrue ==
    ASSUME CacheInv, Tick
    PROVE  CacheInv'
  <1> USE TimesAssumption, NoneAssumption
  <1>0. TypeOK /\ SeenEarlier /\ StatTrue /\ RequestTrue /\ BufferTrue /\ CopyTrue /\ DiskTrue
    BY DEF CacheInv
  <1>2. now' = now + 1 /\ UNCHANGED <<sweep, disk, saves, fc, pc, h, copy, twice, missed>>
    BY DEF Tick
  <1>10. TypeOK'
    BY <1>0, <1>2 DEF TypeOK
  <1>11. SeenEarlier'
    <2>1. Seen' = Seen
      BY <1>2 DEF Seen
    <2>2. \A t \in Seen \ {None} : t \in Nat /\ t <= now /\ (disk # None => t <= disk.mtime)
      BY <1>0, Fields DEF SeenEarlier, Seen
    <2>3. now \in Nat /\ (disk # None => disk.mtime \in Nat /\ disk.mtime <= now)
      BY <1>0, Fields DEF SeenEarlier
    <2> QED  BY <1>2, <2>1, <2>2, <2>3 DEF SeenEarlier
  <1>12. StatTrue' /\ DiskTrue' /\ CopyTrue'
    BY <1>0, Fields, <1>2 DEF StatTrue, DiskTrue, CopyTrue, Plain
  <1>13. RequestTrue'
    BY <1>0, Fields, <1>2 DEF RequestTrue, is_complete
  <1>14. BufferTrue'
    BY <1>0, <1>2 DEF BufferTrue, Plain, Noticed, is_complete
  <1> QED  BY <1>10, <1>11, <1>12, <1>13, <1>14 DEF CacheInv

LEMMA CacheInvariant == Spec => []CacheInv
  <1>1. CacheInv /\ [Next]_vars => CacheInv'
    <2> SUFFICES ASSUME CacheInv, [Next]_vars PROVE CacheInv'
      OBVIOUS
    <2>1. CASE Get
      <3>1. PICK since : since = IF copy = None THEN None ELSE copy.last_modified
        OBVIOUS
      <3>2. Open(TRUE, since)
        BY <2>1, <3>1 DEF Get
      <3>3. since \in Nat \cup {None} /\ (since # None => copy # None /\ copy.last_modified = since)
        BY <3>1, Fields, NoneAssumption DEF CacheInv
      <3> QED  BY <3>2, <3>3, OpenTrue
    <2>2. CASE HeadOrRange
      <3>1. PICK since : since = None
        OBVIOUS
      <3> QED  BY <2>2, <3>1, OpenTrue DEF HeadOrRange
    <2>3. CASE UNCHANGED vars
      BY <2>3 DEF vars, CacheInv, TypeOK, SeenEarlier, Seen, StatTrue, RequestTrue, BufferTrue, CopyTrue,
                  DiskTrue, Plain, Noticed, is_complete
    <2> QED  BY <2>1, <2>2, <2>3, OpenFileTrue, OpenFailsTrue, ReadFileTrue, ReadFailsTrue, AnswerTrue,
                RemoveExpiredTrue, SaveTrue, RemoveTrue, TickTrue DEF Next
  <1> QED  BY <1>1, InitTrue, PTL DEF Spec

\* Every answer to a GET leaves the browser with the page on disk, once that has not been
\* touched for longer than the interval, if its saves set the current time.
THEOREM AnswersAreFresh == Spec => FreshAnswers
  <1>1. CacheInv /\ [Next]_vars
          => [Answered /\ Settled /\ disk.mtime \notin twice \cup missed => copy'.content = disk.content]_vars
    <2> SUFFICES ASSUME CacheInv, Next, Answered, Settled, disk.mtime \notin twice \cup missed
                 PROVE  copy'.content = disk.content
      OBVIOUS
    <2> USE TimesAssumption, NoneAssumption
    <2>0. TypeOK /\ StatTrue /\ RequestTrue /\ BufferTrue /\ CopyTrue
      BY DEF CacheInv
    <2>1. Answer
      BY DEF Next, Answered, Get, HeadOrRange, Open, OpenFile, OpenFails, ReadFile, ReadFails,
             RemoveExpiredFileCache, Save, Remove, Tick
    <2>2. Plain /\ fc # None /\ is_complete(fc, fc.st) /\ ~Noticed
      BY <2>0 DEF Plain, Settled, Answered, RequestTrue, Noticed
    <2>3. disk.mtime < fc.stat_time
      BY <2>0, <2>2, Fields DEF Settled, RequestTrue, Answered, Plain
    <2>4. fc.st.mtime = disk.mtime
      BY <2>0, <2>2, <2>3 DEF StatTrue, Plain
    <2>5. fc.buf = disk.content /\ fc.last_modified \in {None, disk.mtime}
      BY <2>0, <2>2, <2>4 DEF BufferTrue
    <2>6. CASE NotModifiedAnswer
      <3>1. copy # None /\ copy.last_modified = disk.mtime
        BY <2>0, <2>5, <2>6 DEF NotModifiedAnswer, RequestTrue, Answered
      <3> QED  BY <2>0, <2>1, <2>2, <2>6, <3>1 DEF CopyTrue, Answer
    <2>7. CASE ~NotModifiedAnswer
      BY <2>1, <2>5, <2>7 DEF Answer, Answered
    <2> QED  BY <2>6, <2>7
  <1> QED  BY <1>1, CacheInvariant, PTL DEF Spec, FreshAnswers

-----------------------------------------------------------------------------
(* Numbers, and functions defined by recursion *)

\* Induction over a set of numbers.
LEMMA AllNumbers ==
    ASSUME NEW T, 0 \in T, \A n \in Nat : n \in T => n + 1 \in T
    PROVE  Nat \subseteq T
  <1> DEFINE B == Nat \ T
  <1>1. IsWellFoundedOn(OpToRel(<, Nat), Nat)
    BY NatLessThanWellFounded
  <1>2. PICK R : R = OpToRel(<, Nat)
    OBVIOUS
  <1>3. IsWellFoundedOn(R, Nat) /\ \A x, y \in Nat : y < x => <<y, x>> \in R
    BY <1>1, <1>2 DEF OpToRel
  <1>4. SUFFICES ASSUME B # {} PROVE FALSE
    OBVIOUS
  <1>5. PICK x \in B : \A y \in B : ~(<<y, x>> \in R)
    BY <1>3, <1>4, WFMin
  <1>6. x \in Nat /\ x \notin T /\ x # 0
    OBVIOUS
  <1>7. x - 1 \in Nat /\ x - 1 < x /\ (x - 1) + 1 = x
    BY <1>6
  <1>8. x - 1 \notin T
    BY <1>6, <1>7
  <1> QED  BY <1>3, <1>5, <1>6, <1>7, <1>8

\* H leads from values of A to values of A, and f begins with a and follows H.
StaysIn(H, n, A) == \A i \in 1..n : \A b \in A : H[<<i, b>>] \in A

Follows(f, H, n, A, a) ==
    /\ \A i \in 0..n : f[i] \in A
    /\ f[0] = a /\ \A i \in 1..n : f[i] = H[<<i, f[i - 1]>>]

LEMMA RecursionExists ==
    ASSUME NEW A, NEW H, NEW a \in A, NEW n \in Nat, StaysIn(H, n, A)
    PROVE  \E f : Follows(f, H, n, A, a)
  <1> DEFINE Upto(f, m) == f \in [0..n -> A] /\ f[0] = a /\ \A i \in 1..m : f[i] = H[<<i, f[i - 1]>>]
             T == {m \in Nat : m <= n => \E f : Upto(f, m)}
  <1>1. 0 \in T
    <2>1. PICK f : f = [i \in 0..n |-> a]
      OBVIOUS
    <2>2. Upto(f, 0)
      BY <2>1
    <2> HIDE DEF Upto
    <2> QED  BY <2>2
  <1>2. ASSUME NEW m \in Nat, m \in T PROVE m + 1 \in T
    <2>1. SUFFICES ASSUME m + 1 <= n PROVE \E f : Upto(f, m + 1)
      BY ONLY <2>1, m \in Nat DEF T
    <2>2. PICK f : Upto(f, m)
      BY <1>2, <2>1
    <2>3. PICK b : b = H[<<m + 1, f[m]>>]
      OBVIOUS
    <2>4. f[m] \in A /\ b \in A /\ m + 1 \in 1..n
      BY <2>1, <2>2, <2>3 DEF StaysIn
    <2>5. PICK g : g = [i \in 0..n |-> IF i = m + 1 THEN b ELSE f[i]]
      OBVIOUS
    <2>6. g \in [0..n -> A]
      BY <2>2, <2>4, <2>5
    <2>7. g[0] = a /\ \A i \in 1..(m + 1) : g[i] = H[<<i, g[i - 1]>>]
      <3>1. g[m + 1] = b /\ \A i \in 0..m : g[i] = f[i]
        BY <2>1, <2>5
      <3>2. ASSUME NEW i \in 1..(m + 1) PROVE g[i] = H[<<i, g[i - 1]>>]
        <4>1. CASE i = m + 1
          BY <2>3, <3>1, <4>1
        <4>2. CASE i # m + 1
          <5>1. i \in 1..m /\ i \in 0..m /\ i - 1 \in 0..m
            BY <4>2
          <5> QED  BY <2>2, <3>1, <5>1
        <4> QED  BY <4>1, <4>2
      <3> QED  BY <2>2, <3>1, <3>2
    <2>8. Upto(g, m + 1)
      BY <2>6, <2>7
    <2> HIDE DEF Upto
    <2> QED  BY <2>8
  <1>3. n \in T
    <2> HIDE DEF T
    <2> QED  BY <1>1, <1>2, AllNumbers
  <1>4. PICK f : Upto(f, n)
    BY <1>3
  <1> QED  BY <1>4 DEF Follows

-----------------------------------------------------------------------------
(* Names: sequences of characters *)

LEMMA ConcatFacts ==
    ASSUME NEW S, NEW a \in Seq(S), NEW b \in Seq(S)
    PROVE  /\ a \o b \in Seq(S) /\ Len(a \o b) = Len(a) + Len(b)
           /\ Len(a) \in Nat /\ Len(b) \in Nat
           /\ DOMAIN a = 1..Len(a) /\ DOMAIN b = 1..Len(b) /\ DOMAIN (a \o b) = 1..(Len(a) + Len(b))
           /\ \A k \in 1..Len(a) : (a \o b)[k] = a[k]
           /\ \A k \in 1..Len(b) : (a \o b)[Len(a) + k] = b[k]
  OBVIOUS

LEMMA OneFacts ==
    ASSUME NEW S, NEW e \in S
    PROVE  <<e>> \in Seq(S) /\ Len(<<e>>) = 1 /\ <<e>>[1] = e
  OBVIOUS

LEMMA TwoFacts ==
    ASSUME NEW S, NEW d \in S, NEW e \in S
    PROVE  <<d, e>> \in Seq(S) /\ Len(<<d, e>>) = 2 /\ <<d, e>>[1] = d /\ <<d, e>>[2] = e
  OBVIOUS

\* The characters of a statement.
Letter == Chars \cup {"/", "(", "comma", ")"}

LEMMA Letters ==
    /\ {"n", "r", "0", "backslash", "quote", "apostrophe", "NUL", "LF", "CR",
         "CtrlZ", "%", "Z", "(", ")", "comma", "/"} \subseteq Letter
    /\ "end" \notin Letter /\ Chars \subseteq Letter
  BY DEF Letter, Chars

\* A character is written as it is, or as a backslash and a letter that MySQL reads as it.
LEMMA EscapedForms ==
    ASSUME NEW c \in Letter
    PROVE  \/ Sql!Escaped(c) = <<c>> /\ c \notin {"backslash", "quote", "NUL"}
           \/ \E d \in Letter : /\ Sql!Escaped(c) = <<"backslash", d>> /\ d # "NUL"
                                /\ Sql!Unescaped(d) = <<c>>
  <1> USE DEF Sql!Escaped, Sql!Unescaped, Sql!LF, Sql!CR, Sql!NUL, Sql!CtrlZ, Sql!Backslash, Sql!Quote,
              Sql!Apostrophe
  <1>1. CASE c = "LF"
    <2>1. PICK d \in Letter : d = "n"
      BY Letters
    <2>2. Sql!Escaped(c) = <<"backslash", d>> /\ Sql!Unescaped(d) = <<c>> /\ d # "NUL"
      BY <1>1, <2>1
    <2> HIDE DEF Sql!Escaped, Sql!Unescaped
    <2> QED  BY <2>2
  <1>2. CASE c = "CR"
    <2>1. PICK d \in Letter : d = "r"
      BY Letters
    <2>2. Sql!Escaped(c) = <<"backslash", d>> /\ Sql!Unescaped(d) = <<c>> /\ d # "NUL"
      BY <1>2, <2>1
    <2> HIDE DEF Sql!Escaped, Sql!Unescaped
    <2> QED  BY <2>2
  <1>3. CASE c = "NUL"
    <2>1. PICK d \in Letter : d = "0"
      BY Letters
    <2>2. Sql!Escaped(c) = <<"backslash", d>> /\ Sql!Unescaped(d) = <<c>> /\ d # "NUL"
      BY <1>3, <2>1
    <2> HIDE DEF Sql!Escaped, Sql!Unescaped
    <2> QED  BY <2>2
  <1>4. CASE c \in {"backslash", "quote", "apostrophe"}
    <2>1. Sql!Escaped(c) = <<"backslash", c>> /\ Sql!Unescaped(c) = <<c>> /\ c # "NUL"
      BY <1>4
    <2> QED  BY ONLY <2>1
  <1>5. CASE c \notin {"LF", "CR", "NUL", "backslash", "quote", "apostrophe"}
    <2>1. Sql!Escaped(c) = <<c>>
      BY <1>5
    <2> QED  BY ONLY <1>5, <2>1
  <1> QED  BY <1>1, <1>2, <1>3, <1>4, <1>5

\* The recursion in FlattenSeq.
Flattens(f, s) == f = [i \in 1..Len(s) |-> IF i = 1 THEN s[i] ELSE f[i - 1] \o s[i]]

LEMMA FlattensExists ==
    ASSUME NEW S, NEW s, NEW n \in Nat, n = Len(s), \A i \in 1..n : s[i] \in Seq(S)
    PROVE  \E f : Flattens(f, s)
  <1>3. PICK H : H = [x \in (1..n) \X Seq(S) |-> x[2] \o s[x[1]]]
    OBVIOUS
  <1>4. \A i \in 1..n : \A b \in Seq(S) : H[<<i, b>>] = b \o s[i] /\ H[<<i, b>>] \in Seq(S)
    BY <1>3, ConcatFacts
  <1>5. PICK a \in Seq(S) : a = <<>> /\ Len(a) = 0
    BY EmptySeq
  <1>6. PICK f : /\ \A i \in 0..n : f[i] \in Seq(S)
                 /\ f[0] = a /\ \A i \in 1..n : f[i] = H[<<i, f[i - 1]>>]
    <2>1. PICK A : A = Seq(S)
      OBVIOUS
    <2>2. a \in A /\ StaysIn(H, n, A)
      BY <1>4, <2>1 DEF StaysIn
    <2>3. \E f : Follows(f, H, n, A, a)
      BY ONLY <2>2, n \in Nat, RecursionExists
    <2> QED  BY <2>1, <2>3 DEF Follows
  <1>7. ASSUME NEW i \in 1..n PROVE i - 1 \in 0..n /\ f[i - 1] \in Seq(S) /\ f[i] = f[i - 1] \o s[i]
    <2>1. i - 1 \in 0..n
      OBVIOUS
    <2>2. PICK b \in Seq(S) : b = f[i - 1]
      BY <1>6, <2>1
    <2>3. f[i] = H[<<i, b>>]
      BY <1>6, <2>2
    <2> QED  BY <1>4, <2>1, <2>2, <2>3
  <1>8. PICK g : g = [i \in 1..n |-> f[i]]
    OBVIOUS
  <1>9. ASSUME NEW i \in 1..n PROVE f[i] = IF i = 1 THEN s[i] ELSE g[i - 1] \o s[i]
    <2>1. CASE i = 1
      <3>1. a \o s[1] = s[1]
        <4>1. s[1] \in Seq(S) /\ Len(a) = 0
          BY <1>5, <2>1
        <4>2. Len(a \o s[1]) = Len(s[1]) /\ a \o s[1] \in Seq(S) /\ \A k \in 1..Len(s[1]) : (a \o s[1])[k] = s[1][k]
          BY <4>1, ConcatFacts
        <4> QED  BY <4>1, <4>2, SeqEqual
      <3>2. f[1] = f[0] \o s[1] /\ f[0] = a
        <4>1. f[i] = f[i - 1] \o s[i]
          BY <1>7
        <4>2. i - 1 = 0
          BY <2>1
        <4> QED  BY <1>6, <2>1, <4>1, <4>2
      <3> QED  BY <2>1, <3>1, <3>2
    <2>2. CASE i # 1
      <3>1. i - 1 \in 1..n
        BY <2>2
      <3> QED  BY <1>7, <1>8, <2>2, <3>1
    <2> QED  BY <2>1, <2>2
  <1>10. Flattens(g, s)
    BY <1>8, <1>9 DEF Flattens
  <1> QED  BY <1>10

\* The i-th of the sequences is in FlattenSeq(s) behind e[i - 1] elements.
Places(s, e) ==
    /\ e[0] = 0 /\ \A i \in 0..Len(s) : e[i] \in Nat
    /\ \A i \in 1..Len(s) : e[i] = e[i - 1] + Len(s[i])

PutTogether(m, s, e) ==
    /\ Places(s, e) /\ Len(m) = e[Len(s)] /\ \A i \in 1..Len(s) : e[i] <= e[Len(s)]
    /\ \A i \in 1..Len(s) : \A j \in 1..Len(s[i]) : m[e[i - 1] + j] = s[i][j]

SeqsOf(s, n, S) == n = Len(s) /\ (\A i \in 1..n : s[i] \in Seq(S)) /\ (n = 0 => s = <<>>)

LEMMA FlattenPlaces ==
    ASSUME NEW S, NEW s, NEW n \in Nat, SeqsOf(s, n, S)
    PROVE  /\ Sql!FlattenSeq(s) \in Seq(S)
           /\ \E e : PutTogether(Sql!FlattenSeq(s), s, e)
  <1>1. n = Len(s) /\ (\A i \in 1..n : s[i] \in Seq(S)) /\ (n = 0 => s = <<>>)
    BY DEF SeqsOf
  <1>2. \A i \in 1..n : s[i] \in Seq(S) /\ Len(s[i]) \in Nat
    BY <1>1
  <1>3. CASE n = 0
    <2>1. Sql!FlattenSeq(s) = s
      BY <1>1, <1>3 DEF Sql!FlattenSeq
    <2>2. s \in Seq(S) /\ Len(s) = 0
      BY <1>1, <1>3, EmptySeq
    <2>3. PICK e : e = [i \in 0..0 |-> 0]
      OBVIOUS
    <2>4. Places(s, e)
      BY <1>1, <1>3, <2>3 DEF Places
    <2>5. e[0] = 0
      BY <2>3
    <2> QED  BY <1>1, <1>3, <2>1, <2>2, <2>4, <2>5 DEF PutTogether
  <1>4. CASE n # 0
    <2> DEFINE f == CHOOSE f : Flattens(f, s)
    <2>1. Flattens(f, s)
      BY <1>1, FlattensExists
    <2>2. Sql!FlattenSeq(s) = f[n]
      BY <1>1, <1>4 DEF Sql!FlattenSeq, Flattens
    <2> HIDE DEF f
    <2>3. \A i \in 1..n : f[i] = IF i = 1 THEN s[i] ELSE f[i - 1] \o s[i]
      BY <1>1, <2>1 DEF Flattens
    <2>4. PICK e : e = [i \in 0..n |-> IF i = 0 THEN 0 ELSE Len(f[i])]
      OBVIOUS
    <2>5. e[0] = 0 /\ \A i \in 1..n : e[i] = Len(f[i])
      BY <1>2, <2>4
    <2> DEFINE Good(i) == /\ f[i] \in Seq(S) /\ e[i - 1] \in Nat /\ e[i] = e[i - 1] + Len(s[i])
                          /\ \A m \in 1..i : \A j \in 1..Len(s[m]) : f[i][e[m - 1] + j] = s[m][j]
                          /\ \A m \in 1..i : e[m - 1] + Len(s[m]) <= e[i]
               T == {i \in Nat : i + 1 <= n => Good(i + 1)}
    <2>6. 0 \in T
      <3>1. f[1] = s[1] /\ 1 \in 1..n
        BY <1>2, <1>4, <2>3
      <3>2. Good(1)
        BY <1>2, <2>5, <3>1
      <3> HIDE DEF Good
      <3> QED  BY <3>2
    <2>7. ASSUME NEW k \in Nat, k \in T PROVE k + 1 \in T
      <3>1. SUFFICES ASSUME (k + 1) + 1 <= n PROVE Good((k + 1) + 1)
        BY ONLY <3>1, k \in Nat DEF T
      <3>2. PICK i \in 1..n : i = (k + 1) + 1 /\ i - 1 = k + 1 /\ i - 1 \in 1..n /\ i # 1
        BY <1>2, <3>1
      <3>3. Good(i - 1)
        BY <2>7, <3>1, <3>2
      <3>4. f[i] = f[i - 1] \o s[i] /\ f[i - 1] \in Seq(S) /\ s[i] \in Seq(S)
        BY <1>2, <2>3, <3>2, <3>3
      <3>5. /\ f[i] \in Seq(S) /\ Len(f[i]) = Len(f[i - 1]) + Len(s[i])
            /\ Len(f[i - 1]) \in Nat
            /\ \A j \in 1..Len(f[i - 1]) : f[i][j] = f[i - 1][j]
            /\ \A j \in 1..Len(s[i]) : f[i][Len(f[i - 1]) + j] = s[i][j]
        <4>1. PICK a, b, c : a = f[i - 1] /\ b = s[i] /\ c = f[i]
          OBVIOUS
        <4>2. c = a \o b /\ a \in Seq(S) /\ b \in Seq(S)
          BY <3>4, <4>1
        <4>3. /\ c \in Seq(S) /\ Len(c) = Len(a) + Len(b) /\ Len(a) \in Nat
              /\ \A j \in 1..Len(a) : c[j] = a[j]
              /\ \A j \in 1..Len(b) : c[Len(a) + j] = b[j]
          BY ONLY <4>2, ConcatFacts
        <4> QED  BY ONLY <4>1, <4>3
      <3>6. e[i] = Len(f[i]) /\ e[i - 1] = Len(f[i - 1])
        BY <2>5, <3>2
      <3>7. ASSUME NEW m \in 1..i
            PROVE  /\ \A j \in 1..Len(s[m]) : f[i][e[m - 1] + j] = s[m][j]
                   /\ e[m - 1] + Len(s[m]) <= e[i]
        <4>1. CASE m = i
          <5>1. /\ \A j \in 1..Len(s[i]) : f[i][e[i - 1] + j] = s[i][j]
                /\ e[i] = e[i - 1] + Len(s[i]) /\ Len(s[i]) \in Nat /\ e[i - 1] \in Nat
            BY <1>2, <3>2, <3>5, <3>6
          <5> QED  BY ONLY <4>1, <5>1
        <4>2. CASE m # i
          <5>1. m \in 1..(i - 1) /\ m \in 1..n /\ m - 1 \in 0..n
            BY <1>2, <3>2, <4>2
          <5>2. e[m - 1] \in Nat
            BY <2>5, <3>3, <3>5, <5>1, <1>2, <2>4
          <5>3. e[m - 1] + Len(s[m]) <= e[i - 1] /\ \A j \in 1..Len(s[m]) : f[i - 1][e[m - 1] + j] = s[m][j]
            BY <3>3, <5>1
          <5>4. ASSUME NEW j \in 1..Len(s[m]) PROVE f[i][e[m - 1] + j] = s[m][j]
            <6>1. e[m - 1] + j \in 1..Len(f[i - 1])
              BY <1>2, <3>5, <3>6, <5>1, <5>2, <5>3, SMTT(30)
            <6> QED  BY <3>5, <5>3, <6>1
          <5>5. e[i - 1] <= e[i] /\ e[i - 1] \in Nat /\ e[i] \in Nat /\ Len(s[m]) \in Nat
            <6>1. Len(s[m]) \in Nat
              BY <1>2, <5>1
            <6>2. Len(s[i]) \in Nat
              BY <1>2, <3>2
            <6>3. e[i] = e[i - 1] + Len(s[i]) /\ e[i - 1] \in Nat
              BY <3>5, <3>6
            <6> QED  BY ONLY <6>1, <6>2, <6>3
          <5>6. e[m - 1] + Len(s[m]) <= e[i]
            BY <5>2, <5>3, <5>5
          <5> QED  BY ONLY <5>4, <5>6
        <4> QED  BY <4>1, <4>2
      <3>8. Good(i)
        BY <3>5, <3>6, <3>7
      <3> QED  BY <3>2, <3>8
    <2>8. \A i \in 1..n : Good(i)
      <3> HIDE DEF Good
      <3>1. Nat \subseteq T
        <4> HIDE DEF T
        <4> QED  BY <2>6, <2>7, AllNumbers
      <3>2. ASSUME NEW i \in 1..n PROVE Good(i)
        <4>1. i - 1 \in Nat /\ (i - 1) + 1 = i /\ i <= n
          BY <1>2
        <4> QED  BY <3>1, <4>1
      <3> QED  BY <3>2
    <2>9. Places(s, e)
      <3>1. \A i \in 1..n : e[i] = e[i - 1] + Len(s[i]) /\ e[i] \in Nat
        BY <1>2, <2>8
      <3>2. \A i \in 0..n : e[i] \in Nat
        BY <2>5, <3>1
      <3> HIDE DEF Good, T
      <3> QED  BY <1>1, <2>5, <3>1, <3>2 DEF Places
    <2>10. Good(n) /\ n \in 1..n
      <3>1. n \in 1..n
        BY <1>4
      <3> HIDE DEF Good
      <3> QED  BY <2>8, <3>1
    <2>11. \A i \in 1..n : e[i] <= e[n]
      BY <2>8, <2>10
    <2> QED  BY <1>1, <2>2, <2>5, <2>9, <2>10, <2>11 DEF PutTogether
  <1> QED  BY <1>3, <1>4

-----------------------------------------------------------------------------
(* Names: the literals *)

At(text, k) == IF k \in DOMAIN text THEN text[k] ELSE "end"

\* What MySQL has read at position k, from what it has read at the next two.
Step(text, k, a, b) ==
    CASE At(text, k) = "end" -> [value |-> <<>>, next |-> 0]
      [] At(text, k) = "backslash" /\ At(text, k + 1) # "end" ->
            [b EXCEPT !.value = Sql!Unescaped(At(text, k + 1)) \o @]
      [] At(text, k) = "quote" /\ At(text, k + 1) = "quote" ->
            [b EXCEPT !.value = <<"quote">> \o @]
      [] At(text, k) = "quote" /\ At(text, k + 1) # "quote" -> [value |-> <<>>, next |-> k + 1]
      [] OTHER -> [a EXCEPT !.value = <<At(text, k)>> \o @]

ReadsText(f, text) == f = [k \in 1..Len(text) + 2 |-> Step(text, k, f[k + 1], f[k + 2])]

Result == [value : Seq(Letter), next : Nat]

LEMMA WithValue ==
    ASSUME NEW r \in Result, NEW v \in Seq(Letter)
    PROVE  [r EXCEPT !.value = v \o @] \in Result
  <1>1. v \o r.value \in Seq(Letter) /\ r.next \in Nat
    BY ConcatFacts DEF Result
  <1> QED  BY <1>1 DEF Result

LEMMA UnescapedType ==
    ASSUME NEW c \in Letter
    PROVE  Sql!Unescaped(c) \in Seq(Letter)
  <1> USE DEF Sql!Unescaped, Sql!LF, Sql!CR, Sql!NUL, Sql!CtrlZ, Sql!Backslash
  <1>1. CASE c = "%"
    <2>1. PICK a, b \in Letter : a = "backslash" /\ b = "%"
      BY Letters
    <2>2. Sql!Unescaped(c) = <<a, b>>
      BY <1>1, <2>1
    <2> QED  BY <2>2, TwoFacts
  <1>2. CASE c # "%"
    <2>1. \E a \in {"LF", "CR", "NUL", "CtrlZ", c} : Sql!Unescaped(c) = <<a>>
      BY <1>2
    <2>2. PICK a : a \in {"LF", "CR", "NUL", "CtrlZ", c} /\ Sql!Unescaped(c) = <<a>>
      BY <2>1
    <2>3. a \in Letter
      BY <2>2, Letters
    <2> QED  BY <2>2, <2>3, OneFacts
  <1> QED  BY <1>1, <1>2

LEMMA StepType ==
    ASSUME NEW text \in Seq(Letter), NEW k \in Nat, NEW a \in Result, NEW b \in Result
    PROVE  Step(text, k, a, b) \in Result
  <1>1. At(text, k) \in Letter \cup {"end"} /\ At(text, k + 1) \in Letter \cup {"end"}
    BY DEF At
  <1>2. CASE At(text, k) = "end"
    <2>1. Step(text, k, a, b) = [value |-> <<>>, next |-> 0]
      BY <1>2 DEF Step
    <2>2. <<>> \in Seq(Letter)
      BY EmptySeq
    <2> QED  BY <2>1, <2>2 DEF Result
  <1>3. CASE At(text, k) = "backslash" /\ At(text, k + 1) # "end"
    <2>1. Step(text, k, a, b) = [b EXCEPT !.value = Sql!Unescaped(At(text, k + 1)) \o @]
      BY <1>3 DEF Step
    <2>2. Sql!Unescaped(At(text, k + 1)) \in Seq(Letter)
      BY <1>1, <1>3, UnescapedType
    <2> QED  BY <2>1, <2>2, WithValue
  <1>4. CASE At(text, k) = "quote" /\ At(text, k + 1) = "quote"
    <2>1. Step(text, k, a, b) = [b EXCEPT !.value = <<"quote">> \o @]
      BY <1>4 DEF Step
    <2>2. <<"quote">> \in Seq(Letter)
      <3>1. PICK c \in Letter : c = "quote"
        BY Letters
      <3> QED  BY <3>1, OneFacts
    <2> QED  BY <2>1, <2>2, WithValue
  <1>5. CASE At(text, k) = "quote" /\ At(text, k + 1) # "quote"
    <2>1. Step(text, k, a, b) = [value |-> <<>>, next |-> k + 1]
      BY <1>5 DEF Step
    <2>2. <<>> \in Seq(Letter)
      BY EmptySeq
    <2> QED  BY <2>1, <2>2 DEF Result
  <1>6. CASE /\ At(text, k) # "end" /\ At(text, k) # "quote"
             /\ ~(At(text, k) = "backslash" /\ At(text, k + 1) # "end")
    <2>1. Step(text, k, a, b) = [a EXCEPT !.value = <<At(text, k)>> \o @]
      BY <1>6 DEF Step
    <2>2. <<At(text, k)>> \in Seq(Letter)
      BY <1>1, <1>6, OneFacts
    <2> QED  BY <2>1, <2>2, WithValue
  <1> QED  BY <1>2, <1>3, <1>4, <1>5, <1>6

\* The recursion in Literal has a value for every text.
LEMMA ReadsExists ==
    ASSUME NEW text \in Seq(Letter)
    PROVE  \E f : ReadsText(f, text)
  <1>1. PICK N \in Nat : N = Len(text) + 2
    OBVIOUS
  <1>2. PICK base : base = [value |-> <<>>, next |-> 0]
    OBVIOUS
  <1>3. base \in Result
    BY <1>2, EmptySeq DEF Result
  <1>4. PICK A : A = Result \X Result
    OBVIOUS
  <1>5. PICK H : H = [x \in (1..N) \X A |-> <<Step(text, N + 1 - x[1], x[2][1], x[2][2]), x[2][1]>>]
    OBVIOUS
  <1>6. ASSUME NEW j \in 1..N, NEW b \in A
        PROVE  /\ H[<<j, b>>] \in A
               /\ H[<<j, b>>][1] = Step(text, N + 1 - j, b[1], b[2]) /\ H[<<j, b>>][2] = b[1]
    <2>1. b[1] \in Result /\ b[2] \in Result
      BY <1>4
    <2>2. N + 1 - j \in Nat
      OBVIOUS
    <2>3. PICK s : s = Step(text, N + 1 - j, b[1], b[2])
      OBVIOUS
    <2>4. s \in Result
      BY <2>1, <2>2, <2>3, StepType
    <2>5. H[<<j, b>>] = <<s, b[1]>>
      BY <1>5, <2>3
    <2> QED  BY <1>4, <2>1, <2>3, <2>4, <2>5
  <1>7. PICK a : a = <<base, base>>
    OBVIOUS
  <1>8. PICK g : Follows(g, H, N, A, a)
    <2>1. StaysIn(H, N, A)
      BY <1>6 DEF StaysIn
    <2>2. a \in A
      BY <1>3, <1>4, <1>7
    <2> QED  BY ONLY <2>1, <2>2, <1>1, N \in Nat, RecursionExists
  <1>9. PICK f : f = [k \in 1..N |-> g[N + 1 - k][1]]
    OBVIOUS
  <1>10. ASSUME NEW k \in 1..N PROVE f[k] = Step(text, k, f[k + 1], f[k + 2])
    <2>1. N + 1 - k \in 1..N /\ N + 1 - k - 1 = N - k /\ N - k \in 0..N /\ N + 1 - (N + 1 - k) = k
      OBVIOUS
    <2>2. g[N + 1 - k] = H[<<N + 1 - k, g[N - k]>>] /\ g[N - k] \in A
      BY <1>8, <2>1 DEF Follows
    <2>3. f[k] = Step(text, k, g[N - k][1], g[N - k][2])
      BY <1>6, <1>9, <2>1, <2>2
    <2>4. CASE k >= N - 1
      <3>1. At(text, k) = "end"
        BY <1>1, <2>4 DEF At
      <3> QED  BY <2>3, <3>1 DEF Step
    <2>5. CASE k < N - 1
      <3>1. k + 1 \in 1..N /\ k + 2 \in 1..N /\ N + 1 - (k + 1) = N - k /\ N + 1 - (k + 2) = N - k - 1
        BY <2>5
      <3>2. f[k + 1] = g[N - k][1] /\ f[k + 2] = g[N - k - 1][1]
        BY <1>9, <3>1
      <3>3. N - k \in 1..N /\ N - k - 1 \in 0..N
        BY <2>5
      <3>4. g[N - k] = H[<<N - k, g[N - k - 1]>>] /\ g[N - k - 1] \in A
        BY <1>8, <3>3 DEF Follows
      <3>5. g[N - k][2] = g[N - k - 1][1]
        BY <1>6, <3>3, <3>4
      <3> QED  BY <2>3, <3>2, <3>5
    <2> QED  BY <2>4, <2>5
  <1>11. f = [k \in 1..N |-> Step(text, k, f[k + 1], f[k + 2])]
    BY <1>9, <1>10
  <1> QED  BY <1>1, <1>11 DEF ReadsText

\* What Literal reads at a position follows from what it reads behind it.
LEMMA LiteralReads ==
    ASSUME NEW text \in Seq(Letter)
    PROVE  \E f : /\ \A k \in 1..Len(text) + 2 : f[k] = Step(text, k, f[k + 1], f[k + 2])
                  /\ \A i : Sql!Literal(text, i) = f[i]
  <1> DEFINE f == CHOOSE f : ReadsText(f, text)
  <1>1. ReadsText(f, text)
    BY ReadsExists
  <1>2. \A i : Sql!Literal(text, i) = f[i]
    BY DEF Sql!Literal, ReadsText, At, Step, Sql!Backslash, Sql!Quote
  <1> HIDE DEF f
  <1>3. \A k \in 1..Len(text) + 2 : f[k] = Step(text, k, f[k + 1], f[k + 2])
    BY <1>1 DEF ReadsText
  <1> QED  BY <1>2, <1>3

\* The characters of a name behind the first k.
Rest(name, k) == [j \in 1..(Len(name) - k) |-> name[k + j]]

LEMMA RestFacts ==
    ASSUME NEW S, NEW name \in Seq(S)
    PROVE  /\ Rest(name, 0) = name /\ Rest(name, Len(name)) = <<>>
           /\ \A k \in 1..Len(name) : <<name[k]>> \o Rest(name, k) = Rest(name, k - 1)
  <1>1. Len(name) \in Nat /\ DOMAIN name = 1..Len(name) /\ \A j \in 1..Len(name) : name[j] \in S
    OBVIOUS
  <1>2. ASSUME NEW k \in 0..Len(name)
        PROVE  /\ Rest(name, k) \in Seq(S) /\ Len(Rest(name, k)) = Len(name) - k
               /\ \A j \in 1..(Len(name) - k) : Rest(name, k)[j] = name[k + j]
    BY <1>1 DEF Rest
  <1>3. Rest(name, 0) = name
    <2>1. PICK k \in 0..Len(name) : k = 0
      BY <1>1
    <2>2. PICK b : b = Rest(name, k)
      OBVIOUS
    <2>3. b \in Seq(S) /\ Len(b) = Len(name) /\ \A j \in 1..Len(name) : b[j] = name[j]
      <3>1. b \in Seq(S) /\ Len(b) = Len(name) - k /\ \A j \in 1..(Len(name) - k) : b[j] = name[k + j]
        BY <1>2, <2>2
      <3>2. Len(name) - k = Len(name) /\ \A j \in 1..Len(name) : k + j = j
        BY <1>1, <2>1
      <3> QED  BY ONLY <3>1, <3>2
    <2>4. b = name
      BY ONLY <2>3, name \in Seq(S), SeqEqual
    <2> QED  BY <2>1, <2>2, <2>4
  <1>4. Rest(name, Len(name)) = <<>>
    <2>1. PICK b : b = Rest(name, Len(name))
      OBVIOUS
    <2>2. b \in Seq(S) /\ Len(b) = 0
      <3>0. PICK k : k = Len(name)
        OBVIOUS
      <3>1. k = Len(name) /\ k \in 0..Len(name)
        BY <1>1, <3>0
      <3>2. Rest(name, k) \in Seq(S) /\ Len(Rest(name, k)) = Len(name) - k
        BY <1>2, <3>1
      <3> QED  BY <1>1, <2>1, <3>1, <3>2
    <2> QED  BY <2>1, <2>2, EmptySeq
  <1>5. ASSUME NEW k \in 1..Len(name) PROVE <<name[k]>> \o Rest(name, k) = Rest(name, k - 1)
    <2>1. k \in 0..Len(name) /\ k - 1 \in 0..Len(name) /\ name[k] \in S
      BY <1>1
    <2>2. PICK a : a = <<name[k]>>
      OBVIOUS
    <2>3. a \in Seq(S) /\ Len(a) = 1 /\ a[1] = name[k]
      BY <2>1, <2>2, OneFacts
    <2>4. PICK b, c : b = Rest(name, k) /\ c = Rest(name, k - 1)
      OBVIOUS
    <2>5. /\ b \in Seq(S) /\ Len(b) = Len(name) - k /\ \A j \in 1..(Len(name) - k) : b[j] = name[k + j]
          /\ c \in Seq(S) /\ Len(c) = Len(name) - (k - 1)
          /\ \A j \in 1..(Len(name) - (k - 1)) : c[j] = name[(k - 1) + j]
      BY <1>2, <2>1, <2>4
    <2>6. /\ a \o b \in Seq(S) /\ Len(a \o b) = 1 + Len(b) /\ (a \o b)[1] = name[k]
          /\ \A j \in 1..Len(b) : (a \o b)[1 + j] = b[j]
      <3>1. a \in Seq(S) /\ b \in Seq(S)
        BY <2>3, <2>5
      <3>2. /\ a \o b \in Seq(S) /\ Len(a \o b) = Len(a) + Len(b)
            /\ \A j \in 1..Len(a) : (a \o b)[j] = a[j]
            /\ \A j \in 1..Len(b) : (a \o b)[Len(a) + j] = b[j]
        BY ONLY <3>1, ConcatFacts
      <3> QED  BY ONLY <2>3, <3>2
    <2>7. Len(a \o b) = Len(c)
      BY <1>1, <2>5, <2>6
    <2>8. ASSUME NEW j \in 1..Len(c) PROVE (a \o b)[j] = c[j]
      <3>1. CASE j = 1
        BY <1>1, <2>5, <2>6, <3>1
      <3>2. CASE j # 1
        <4>1. j - 1 \in 1..Len(b) /\ 1 + (j - 1) = j /\ k + (j - 1) = (k - 1) + j
          BY <1>1, <2>5, <3>2
        <4> QED  BY <2>5, <2>6, <4>1, ZenonT(30)
      <3> QED  BY <3>1, <3>2
    <2> QED  BY <2>2, <2>4, <2>5, <2>6, <2>7, <2>8, SeqEqual
  <1> QED  BY <1>3, <1>4, <1>5

\* How many characters prepareStringValue writes for one.
Width(c) == Len(Sql!Escaped(c))

\* The text has them from position x on.
HasChar(text, x, c) ==
    /\ x + Width(c) - 1 <= Len(text)
    /\ \A j \in 1..Width(c) : text[x + j - 1] = Sql!Escaped(c)[j]

\* At position x the value v is read up to the position last.
Reads(f, x, v, last) == f[x] = [value |-> v, next |-> last]

IsStep(text, f, x) == f[x] = Step(text, x, f[x + 1], f[x + 2])

LEMMA CharRead ==
    ASSUME NEW text \in Seq(Letter), NEW x \in Nat \ {0}, NEW c \in Letter, HasChar(text, x, c),
           NEW f, IsStep(text, f, x), NEW v, NEW last, Reads(f, x + Width(c), v, last)
    PROVE  Reads(f, x, <<c>> \o v, last)
  <1>0. f[x] = Step(text, x, f[x + 1], f[x + 2]) /\ f[x + Width(c)] = [value |-> v, next |-> last]
    BY DEF IsStep, Reads
  <1>1. PICK L \in Nat : L = Len(text) /\ DOMAIN text = 1..L
    OBVIOUS
  <1>2. PICK s, w : s = Sql!Escaped(c) /\ w = Len(s)
    OBVIOUS
  <1>3. Width(c) = w
    BY <1>2 DEF Width
  <1>4. x + w - 1 <= L /\ \A j \in 1..w : text[x + j - 1] = s[j]
    BY <1>1, <1>2, <1>3 DEF HasChar
  <1>5. PICK u : u = <<c>> \o v
    OBVIOUS
  <1>6. PICK r : r = [value |-> v, next |-> last]
    OBVIOUS
  <1>7. [r EXCEPT !.value = <<c>> \o @] = [value |-> u, next |-> last]
    <2>1. r.value = v
      BY ONLY <1>6
    <2>2. [r EXCEPT !.value = u] = [value |-> u, next |-> last]
      BY ONLY <1>6
    <2> QED  BY <1>5, <2>1, <2>2
  <1>8. CASE s = <<c>> /\ c \notin {"backslash", "quote", "NUL"}
    <2>1. w = 1 /\ s[1] = c
      <3>1. Len(<<c>>) = 1 /\ <<c>>[1] = c
        BY OneFacts
      <3> QED  BY <1>2, <1>8, <3>1
    <2>2. text[x] = c /\ x \in 1..L
      <3>1. 1 \in 1..w /\ x + 1 - 1 = x /\ x \in 1..L
        BY <1>4, <2>1
      <3> QED  BY <1>4, <2>1, <3>1
    <2>3. At(text, x) = c /\ c # "end"
      BY <1>1, <2>2, Letters DEF At
    <2>4. f[x] = [f[x + 1] EXCEPT !.value = <<c>> \o @]
      BY <1>0, <1>8, <2>3 DEF Step
    <2>5. f[x + 1] = r
      BY <1>0, <1>3, <1>6, <2>1
    <2> QED  BY <1>5, <1>7, <2>4, <2>5 DEF Reads
  <1>9. CASE \E d \in Letter : /\ s = <<"backslash", d>> /\ d # "NUL" /\ Sql!Unescaped(d) = <<c>>
    <2>1. PICK d \in Letter : s = <<"backslash", d>> /\ Sql!Unescaped(d) = <<c>>
      BY <1>9
    <2>2. w = 2 /\ s[1] = "backslash" /\ s[2] = d
      BY ONLY <1>2, <2>1
    <2>3. text[x] = "backslash" /\ text[x + 1] = d /\ x \in 1..L /\ x + 1 \in 1..L
      <3>1. 1 \in 1..w /\ 2 \in 1..w /\ x + 1 - 1 = x /\ x + 2 - 1 = x + 1 /\ x \in 1..L /\ x + 1 \in 1..L
        BY <1>4, <2>2
      <3> QED  BY <1>4, <2>2, <3>1
    <2>4. At(text, x) = "backslash" /\ At(text, x + 1) = d /\ d # "end"
      BY <1>1, <2>3, Letters DEF At
    <2>5. f[x] = [f[x + 2] EXCEPT !.value = <<c>> \o @]
      BY <1>0, <2>1, <2>4 DEF Step
    <2>6. f[x + 2] = r
      BY <1>0, <1>3, <1>6, <2>2
    <2> QED  BY <1>5, <1>7, <2>5, <2>6 DEF Reads
  <1> QED  BY <1>2, <1>8, <1>9, EscapedForms

LEMMA WidthType ==
    ASSUME NEW c \in Letter
    PROVE  /\ Width(c) \in Nat \ {0}
           /\ Sql!Escaped(c) \in Seq(Letter \ {"NUL"})
  <1> DEFINE S == Letter \ {"NUL"}
  <1>1. CASE Sql!Escaped(c) = <<c>> /\ c \notin {"backslash", "quote", "NUL"}
    <2>1. c \in S
      BY <1>1
    <2> HIDE DEF S
    <2>2. <<c>> \in Seq(S) /\ Len(<<c>>) = 1
      BY <2>1, OneFacts
    <2>3. PICK q : q = <<c>>
      OBVIOUS
    <2>4. Sql!Escaped(c) = q /\ q \in Seq(S) /\ Len(q) = 1
      BY <1>1, <2>2, <2>3
    <2> QED  BY <2>4 DEF Width, S
  <1>2. CASE \E d \in Letter : Sql!Escaped(c) = <<"backslash", d>> /\ d # "NUL"
    <2>1. PICK d \in Letter : Sql!Escaped(c) = <<"backslash", d>> /\ d # "NUL"
      BY <1>2
    <2>2. PICK b : b = "backslash"
      OBVIOUS
    <2>3. b \in S /\ d \in S
      BY <2>1, <2>2, Letters
    <2> HIDE DEF S
    <2>4. <<b, d>> \in Seq(S) /\ Len(<<b, d>>) = 2
      BY <2>3, TwoFacts
    <2> QED  BY <2>1, <2>2, <2>4 DEF Width, S
  <1> QED  BY <1>1, <1>2, EscapedForms

\* From position i on the text has the characters of a name, each behind the e[k - 1]
\* characters written before it, and a closing quote.
HasName(text, i, name, e) ==
    /\ e[0] = 0 /\ \A k \in 0..Len(name) : e[k] \in Nat
    /\ \A k \in 1..Len(name) : /\ e[k] = e[k - 1] + Width(name[k])
                               /\ HasChar(text, i + e[k - 1], name[k])
    /\ i + e[Len(name)] <= Len(text) /\ text[i + e[Len(name)]] = "quote"
    /\ At(text, i + e[Len(name)] + 1) # "quote"

\* MySQL reads the name, and ends behind the closing quote.
LEMMA LiteralValue ==
    ASSUME NEW text \in Seq(Letter), NEW name \in Seq(Letter), NEW i \in Nat \ {0}, NEW e,
           HasName(text, i, name, e)
    PROVE  Sql!Literal(text, i) = [value |-> name, next |-> i + e[Len(name)] + 1]
  <1>1. PICK n \in Nat : n = Len(name)
    OBVIOUS
  <1>2. \A k \in 1..n : name[k] \in Letter /\ Width(name[k]) \in Nat \ {0}
    BY <1>1, WidthType
  <1>3. /\ e[0] = 0 /\ \A k \in 0..n : e[k] \in Nat
        /\ \A k \in 1..n : e[k] = e[k - 1] + Width(name[k]) /\ HasChar(text, i + e[k - 1], name[k])
    BY <1>1 DEF HasName
  <1>4. PICK L \in Nat : L = Len(text) /\ DOMAIN text = 1..L
    OBVIOUS
  <1>5. PICK f : /\ \A k \in 1..Len(text) + 2 : f[k] = Step(text, k, f[k + 1], f[k + 2])
                 /\ \A k : Sql!Literal(text, k) = f[k]
    BY LiteralReads
  <1>6. PICK last : last = i + e[n] + 1
    OBVIOUS
  <1> DEFINE Good(k) == Reads(f, i + e[k], Rest(name, k), last)
             T == {m \in Nat : m <= n => Good(n - m)}
  <1>7. 0 \in T
    <2>1. PICK x : x = i + e[n]
      OBVIOUS
    <2>2. x \in Nat /\ x > 0 /\ x <= L /\ text[x] = "quote" /\ At(text, x + 1) # "quote"
      <3>1. e[n] \in Nat
        BY <1>3
      <3>2. i + e[n] <= L /\ text[i + e[n]] = "quote" /\ At(text, i + e[n] + 1) # "quote"
        BY <1>1, <1>4 DEF HasName
      <3>3. x \in Nat /\ x > 0 /\ x <= L
        BY <2>1, <3>1, <3>2
      <3>4. text[x] = "quote" /\ At(text, x + 1) # "quote"
        BY ONLY <2>1, <3>2
      <3> QED  BY ONLY <3>3, <3>4
    <2>3. At(text, x) = "quote" /\ x \in 1..Len(text) + 2
      <3>1. x \in 1..L
        BY <2>2
      <3>2. x \in 1..Len(text) + 2
        BY <1>4, <3>1
      <3>3. At(text, x) = "quote"
        BY <1>4, <2>2, <3>1 DEF At
      <3> QED  BY <3>2, <3>3
    <2>4. f[x] = [value |-> <<>>, next |-> x + 1]
      BY <1>5, <2>2, <2>3 DEF Step
    <2>5. Rest(name, n) = <<>>
      BY <1>1, RestFacts
    <2>6. Good(n) /\ n - 0 = n
      BY <1>6, <2>1, <2>4, <2>5 DEF Reads
    <2> HIDE DEF Good
    <2> QED  BY <2>6
  <1>8. ASSUME NEW m \in Nat, m \in T PROVE m + 1 \in T
    <2>1. SUFFICES ASSUME m + 1 <= n PROVE Good(n - (m + 1))
      BY ONLY <2>1, m \in Nat DEF T
    <2>2. PICK k : k = n - m
      OBVIOUS
    <2>3. k \in 1..n /\ k \in 0..n /\ n - (m + 1) = k - 1 /\ k - 1 \in 0..n /\ Good(k)
      BY <1>8, <2>1, <2>2
    <2>4. PICK x, c, v : x = i + e[k - 1] /\ c = name[k] /\ v = Rest(name, k)
      OBVIOUS
    <2>5. x \in Nat \ {0} /\ c \in Letter /\ HasChar(text, x, c) /\ i + e[k] = x + Width(c)
      <3>1. /\ e[k - 1] \in Nat /\ e[k] = e[k - 1] + Width(name[k]) /\ HasChar(text, i + e[k - 1], name[k])
            /\ name[k] \in Letter /\ Width(name[k]) \in Nat
        BY <1>2, <1>3, <2>3
      <3> QED  BY <2>4, <3>1
    <2>6. x \in 1..Len(text) + 2
      <3>1. x + Width(c) - 1 <= L /\ Width(c) \in Nat \ {0}
        BY <1>4, <2>5, WidthType DEF HasChar
      <3> QED  BY <1>4, <2>5, <3>1
    <2>7. IsStep(text, f, x) /\ Reads(f, x + Width(c), v, last)
      BY <1>5, <2>3, <2>4, <2>5, <2>6 DEF IsStep
    <2>8. Reads(f, x, <<c>> \o v, last)
      BY ONLY <2>5, <2>7, text \in Seq(Letter), CharRead
    <2>9. <<c>> \o v = Rest(name, k - 1)
      BY <1>1, <2>3, <2>4, RestFacts
    <2> QED  BY <2>3, <2>4, <2>8, <2>9
  <1>9. Good(0)
    <2> HIDE DEF Good
    <2>1. n \in T
      <3> HIDE DEF T
      <3> QED  BY <1>7, <1>8, AllNumbers
    <2> QED  BY <2>1
  <1>10. i + e[0] = i /\ Rest(name, 0) = name
    BY <1>3, RestFacts
  <1> QED  BY <1>1, <1>5, <1>6, <1>9, <1>10 DEF Reads

-----------------------------------------------------------------------------
(* Names: the statement *)

PlainLetter == Letter \ {"NUL"}

\* How prepareStringValue writes a name: q is quoted, and its k-th character is behind the
\* e[k - 1] characters written before it.
Written(q, name, e) ==
    /\ e[0] = 0 /\ \A k \in 0..Len(name) : e[k] \in Nat /\ e[k] <= e[Len(name)]
    /\ \A k \in 1..Len(name) :
          /\ e[k] = e[k - 1] + Width(name[k])
          /\ \A j \in 1..Width(name[k]) : q[1 + e[k - 1] + j] = Sql!Escaped(name[k])[j]
    /\ Len(q) = e[Len(name)] + 2 /\ q[1] = "quote" /\ q[e[Len(name)] + 2] = "quote"

LEMMA Prepared ==
    ASSUME NEW name \in Seq(Letter)
    PROVE  /\ Sql!prepareStringValue(name) \in Seq(PlainLetter)
           /\ \E e : Written(Sql!prepareStringValue(name), name, e)
  <1>1. PICK n \in Nat : n = Len(name) /\ DOMAIN name = 1..n
    OBVIOUS
  <1>2. PICK s : s = [k \in DOMAIN name |-> Sql!Escaped(name[k])]
    OBVIOUS
  <1>3. \A k \in 1..n : name[k] \in Letter
    BY <1>1
  <1>4. \A k \in 1..n : s[k] = Sql!Escaped(name[k]) /\ Len(s[k]) = Width(name[k]) /\ s[k] \in Seq(PlainLetter)
    BY <1>1, <1>2, <1>3, WidthType DEF Width, PlainLetter
  <1>5. Len(s) = n /\ (n = 0 => s = <<>>)
    BY <1>1, <1>2
  <1>6. PICK m : m = Sql!FlattenSeq(s)
    OBVIOUS
  <1>7. /\ m \in Seq(PlainLetter)
        /\ \E e : /\ Places(s, e) /\ Len(m) = e[n] /\ \A k \in 1..n : e[k] <= e[n]
                  /\ \A k \in 1..n : \A j \in 1..Len(s[k]) : m[e[k - 1] + j] = s[k][j]
    <2>1. SeqsOf(s, n, PlainLetter)
      BY <1>4, <1>5 DEF SeqsOf
    <2>2. m \in Seq(PlainLetter) /\ \E e : PutTogether(m, s, e)
      BY ONLY <1>6, <2>1, n \in Nat, FlattenPlaces
    <2> QED  BY <1>5, <2>2 DEF PutTogether
  <1>8. PICK e : /\ Places(s, e) /\ Len(m) = e[n] /\ \A k \in 1..n : e[k] <= e[n]
                 /\ \A k \in 1..n : \A j \in 1..Len(s[k]) : m[e[k - 1] + j] = s[k][j]
    BY <1>7
  <1>9. /\ e[0] = 0 /\ (\A k \in 0..n : e[k] \in Nat) /\ \A k \in 1..n : e[k] = e[k - 1] + Width(name[k])
    BY <1>4, <1>5, <1>8 DEF Places
  <1>10. PICK c \in PlainLetter : c = "quote"
    BY Letters DEF PlainLetter
  <1>11. PICK a : a = <<c>>
    OBVIOUS
  <1>12. a \in Seq(PlainLetter) /\ Len(a) = 1 /\ a[1] = c
    BY <1>11, OneFacts
  <1>13. PICK b : b = a \o m
    OBVIOUS
  <1>14. b \in Seq(PlainLetter) /\ Len(b) = 1 + e[n] /\ b[1] = c /\ \A j \in 1..e[n] : b[1 + j] = m[j]
    <2>1. /\ b \in Seq(PlainLetter) /\ Len(b) = Len(a) + Len(m)
          /\ (\A j \in 1..Len(a) : b[j] = a[j]) /\ \A j \in 1..Len(m) : b[Len(a) + j] = m[j]
      <3>1. a \in Seq(PlainLetter) /\ m \in Seq(PlainLetter)
        BY <1>7, <1>12
      <3> QED  BY ONLY <1>13, <3>1, ConcatFacts
    <2> QED  BY ONLY <1>8, <1>12, <2>1
  <1>15. PICK q : q = b \o a
    OBVIOUS
  <1>16. /\ q \in Seq(PlainLetter) /\ Len(q) = Len(b) + 1 /\ q[Len(b) + 1] = c
         /\ \A j \in 1..Len(b) : q[j] = b[j]
    <2>1. /\ q \in Seq(PlainLetter) /\ Len(q) = Len(b) + Len(a)
          /\ (\A j \in 1..Len(b) : q[j] = b[j]) /\ \A j \in 1..Len(a) : q[Len(b) + j] = a[j]
      <3>1. a \in Seq(PlainLetter) /\ b \in Seq(PlainLetter)
        BY <1>12, <1>14
      <3> QED  BY ONLY <1>15, <3>1, ConcatFacts
    <2> QED  BY ONLY <1>12, <2>1
  <1>17. q = Sql!prepareStringValue(name)
    BY <1>2, <1>6, <1>10, <1>11, <1>13, <1>15 DEF Sql!prepareStringValue, Sql!Quote
  <1>18. e[n] \in Nat
    BY <1>9
  <1>19. Len(q) = e[n] + 2 /\ q[1] = "quote" /\ q[e[n] + 2] = "quote"
    <2>1. 1 \in 1..Len(b) /\ Len(b) + 1 = e[n] + 2
      BY <1>14, <1>18
    <2> QED  BY <1>10, <1>14, <1>16, <2>1
  <1>20. ASSUME NEW k \in 1..n, NEW j \in 1..Width(name[k])
         PROVE  q[1 + e[k - 1] + j] = Sql!Escaped(name[k])[j]
    <2>1. /\ e[k - 1] \in Nat /\ e[k] <= e[n] /\ e[k] = e[k - 1] + Width(name[k])
          /\ Width(name[k]) \in Nat
      BY <1>3, <1>8, <1>9, WidthType
    <2>2. PICK l : l = e[k - 1] + j
      OBVIOUS
    <2>3. l \in 1..e[n] /\ 1 + l \in 1..Len(b) /\ 1 + e[k - 1] + j = 1 + l
      <3>1. PICK u, w, v : u = e[k - 1] /\ w = Width(name[k]) /\ v = e[n]
        OBVIOUS
      <3>2. u \in Nat /\ w \in Nat /\ v \in Nat /\ u + w <= v /\ j \in 1..w /\ l = u + j /\ Len(b) = 1 + v
        BY <1>14, <1>18, <2>1, <2>2, <3>1
      <3>3. l \in 1..v /\ 1 + l \in 1..(1 + v) /\ 1 + u + j = 1 + l
        BY ONLY <3>2
      <3> QED  BY <3>1, <3>2, <3>3
    <2>4. m[l] = Sql!Escaped(name[k])[j]
      BY <1>4, <1>8, <2>2
    <2> QED  BY <1>14, <1>16, <2>3, <2>4
  <1>21. Written(q, name, e)
    <2>1. \A k \in 0..n : e[k] \in Nat /\ e[k] <= e[n]
      BY <1>8, <1>9, <1>18
    <2> QED  BY <1>1, <1>9, <1>19, <1>20, <2>1 DEF Written
  <1> QED  BY <1>16, <1>17, <1>21

\* The text has q behind its first x characters, and no quote follows.
Holds(text, x, q) ==
    /\ x + Len(q) <= Len(text) /\ \A j \in 1..Len(q) : text[x + j] = q[j]
    /\ At(text, x + Len(q) + 1) # "quote"

\* A text that has the quoted name behind x characters has the characters of the name.
LEMMA WrittenIn ==
    ASSUME NEW text, NEW name \in Seq(Letter), NEW q, NEW e, Written(q, name, e), NEW x \in Nat,
           Len(text) \in Nat, Holds(text, x, q)
    PROVE  HasName(text, x + 2, name, e) /\ x + 2 + e[Len(name)] + 1 = x + Len(q) + 1
  <1>0. x + Len(q) <= Len(text) /\ (\A j \in 1..Len(q) : text[x + j] = q[j])
        /\ At(text, x + Len(q) + 1) # "quote"
    BY DEF Holds
  <1>1. PICK n \in Nat : n = Len(name)
    OBVIOUS
  <1>2. /\ e[0] = 0 /\ \A k \in 0..n : e[k] \in Nat /\ e[k] <= e[n]
        /\ \A k \in 1..n :
             /\ e[k] = e[k - 1] + Width(name[k])
             /\ \A j \in 1..Width(name[k]) : q[1 + e[k - 1] + j] = Sql!Escaped(name[k])[j]
        /\ Len(q) = e[n] + 2 /\ q[1] = "quote" /\ q[e[n] + 2] = "quote"
    BY <1>1 DEF Written
  <1>3. e[n] \in Nat
    BY <1>2
  <1>4. ASSUME NEW k \in 1..n PROVE HasChar(text, (x + 2) + e[k - 1], name[k])
    <2>1. name[k] \in Letter /\ Width(name[k]) \in Nat
      BY <1>1, WidthType
    <2>2. k - 1 \in 0..n /\ k \in 0..n
      OBVIOUS
    <2>3. e[k] <= e[n] /\ e[k] = e[k - 1] + Width(name[k]) /\ e[k - 1] \in Nat /\ e[k] \in Nat
      BY <1>2, <2>2
    <2>4. (x + 2) + e[k - 1] + Width(name[k]) - 1 <= Len(text)
      <3>1. PICK u, w, v : u = e[k - 1] /\ w = Width(name[k]) /\ v = e[n]
        OBVIOUS
      <3>2. u \in Nat /\ w \in Nat /\ v \in Nat /\ u + w <= v /\ x + (v + 2) <= Len(text)
        BY <1>0, <1>2, <1>3, <2>1, <2>3, <3>1
      <3>3. (x + 2) + u + w - 1 <= Len(text)
        BY ONLY <3>2, x \in Nat, Len(text) \in Nat
      <3> QED  BY <3>1, <3>3
    <2>5. ASSUME NEW j \in 1..Width(name[k]) PROVE text[(x + 2) + e[k - 1] + j - 1] = Sql!Escaped(name[k])[j]
      <3>1. PICK l : l = 1 + e[k - 1] + j
        OBVIOUS
      <3>2. l \in 1..Len(q) /\ (x + 2) + e[k - 1] + j - 1 = x + l
        <4>1. PICK u, w, v : u = e[k - 1] /\ w = Width(name[k]) /\ v = e[n]
          OBVIOUS
        <4>2. u \in Nat /\ w \in Nat /\ v \in Nat /\ u + w <= v /\ j \in 1..w /\ l = 1 + u + j /\ Len(q) = v + 2
          BY <1>2, <1>3, <2>1, <2>3, <3>1, <4>1
        <4>3. l \in 1..(v + 2) /\ (x + 2) + u + j - 1 = x + l
          BY ONLY <4>2, x \in Nat
        <4> QED  BY <4>1, <4>2, <4>3
      <3>3. q[l] = Sql!Escaped(name[k])[j]
        BY <1>2, <3>1
      <3> QED  BY <1>0, <3>2, <3>3
    <2> QED  BY <2>4, <2>5 DEF HasChar
  <1>5. (x + 2) + e[n] = x + Len(q) /\ Len(q) \in 1..Len(q) /\ Len(q) = e[n] + 2
    <2>1. PICK v : v = e[n]
      OBVIOUS
    <2>2. v \in Nat /\ Len(q) = v + 2
      BY <1>2, <1>3, <2>1
    <2>3. (x + 2) + v = x + Len(q) /\ Len(q) \in 1..Len(q)
      BY ONLY <2>2, x \in Nat
    <2> QED  BY <2>1, <2>2, <2>3
  <1>6. text[(x + 2) + e[n]] = "quote" /\ (x + 2) + e[n] <= Len(text)
    BY <1>0, <1>2, <1>5
  <1>7. At(text, (x + 2) + e[n] + 1) # "quote"
    BY <1>0, <1>5
  <1> QED  BY <1>1, <1>2, <1>4, <1>5, <1>6, <1>7 DEF HasName

\* Where a text has a written name, MySQL reads that name.
LEMMA LiteralOfWritten ==
    ASSUME NEW text \in Seq(Letter), NEW name \in Seq(Letter), NEW x \in Nat,
           Holds(text, x, Sql!prepareStringValue(name))
    PROVE  /\ Sql!Literal(text, x + 2).value = name
           /\ Sql!Literal(text, x + 2).next = x + Len(Sql!prepareStringValue(name)) + 1
  <1>1. PICK q : q = Sql!prepareStringValue(name)
    OBVIOUS
  <1>2. PICK e : Written(q, name, e)
    BY <1>1, Prepared
  <1>3. Len(text) \in Nat
    OBVIOUS
  <1>4. Holds(text, x, q)
    BY <1>1
  <1>5. HasName(text, x + 2, name, e) /\ x + 2 + e[Len(name)] + 1 = x + Len(q) + 1
    BY ONLY name \in Seq(Letter), x \in Nat, <1>2, <1>3, <1>4, WrittenIn
  <1>6. x + 2 \in Nat \ {0}
    OBVIOUS
  <1>7. Sql!Literal(text, x + 2) = [value |-> name, next |-> x + 2 + e[Len(name)] + 1]
    BY ONLY text \in Seq(Letter), name \in Seq(Letter), <1>5, <1>6, LiteralValue
  <1>8. Sql!Literal(text, x + 2) = [value |-> name, next |-> x + Len(q) + 1]
    BY ONLY <1>5, <1>7
  <1> QED
    BY ONLY <1>1, <1>8

\* A text t put together from five parts, three of them of one character.
Parts(S, a, b, c, d, e, t) ==
    /\ a \in Seq(S) /\ b \in Seq(S) /\ c \in Seq(S) /\ d \in Seq(S) /\ e \in Seq(S)
    /\ Len(a) = 1 /\ Len(c) = 1 /\ Len(e) = 1
    /\ t = a \o b \o c \o d \o e

Arranged(S, a, b, c, d, e, t) ==
    /\ t \in Seq(S) /\ Len(t) = Len(b) + Len(d) + 3 /\ DOMAIN t = 1..Len(t)
    /\ t[1] = a[1] /\ t[Len(b) + 2] = c[1] /\ t[Len(b) + Len(d) + 3] = e[1]
    /\ \A j \in 1..Len(b) : t[1 + j] = b[j]
    /\ \A j \in 1..Len(d) : t[Len(b) + 2 + j] = d[j]

LEMMA FiveParts ==
    ASSUME NEW S, NEW a, NEW b, NEW c, NEW d, NEW e, NEW t, Parts(S, a, b, c, d, e, t)
    PROVE  Arranged(S, a, b, c, d, e, t)
  <1>a. a \in Seq(S)
    BY DEF Parts
  <1>b. b \in Seq(S)
    BY DEF Parts
  <1>c. c \in Seq(S)
    BY DEF Parts
  <1>d. d \in Seq(S)
    BY DEF Parts
  <1>e. e \in Seq(S)
    BY DEF Parts
  <1>p. /\ Len(a) = 1 /\ Len(c) = 1 /\ Len(e) = 1 /\ t = a \o b \o c \o d \o e
    BY DEF Parts
  <1>0. PICK m \in Nat : m = Len(b)
    BY <1>b
  <1>1. PICK n \in Nat : n = Len(d)
    BY <1>d
  <1>2. PICK ab : ab = a \o b
    OBVIOUS
  <1>3. /\ ab \in Seq(S) /\ Len(ab) = 1 + m /\ ab[1] = a[1]
        /\ \A j \in 1..m : ab[1 + j] = b[j]
    <2>1. /\ a \o b \in Seq(S) /\ Len(a \o b) = Len(a) + Len(b)
          /\ \A k \in 1..Len(a) : (a \o b)[k] = a[k]
          /\ \A k \in 1..Len(b) : (a \o b)[Len(a) + k] = b[k]
      BY ONLY <1>a, <1>b, ConcatFacts
    <2> QED
      BY <1>p, <1>0, <1>2, <2>1
  <1>4. PICK abc : abc = ab \o c
    OBVIOUS
  <1>5. /\ abc \in Seq(S) /\ Len(abc) = m + 2 /\ \A j \in 1..(1 + m) : abc[j] = ab[j]
        /\ abc[m + 2] = c[1]
    <2>1. ab \in Seq(S)
      BY <1>3
    <2>2. /\ ab \o c \in Seq(S) /\ Len(ab \o c) = Len(ab) + Len(c)
          /\ \A k \in 1..Len(ab) : (ab \o c)[k] = ab[k]
          /\ \A k \in 1..Len(c) : (ab \o c)[Len(ab) + k] = c[k]
      BY ONLY <2>1, <1>c, ConcatFacts
    <2>3. 1 \in 1..Len(c) /\ Len(ab) + 1 = m + 2
      BY <1>p, <1>3
    <2> QED
      BY <1>p, <1>3, <1>4, <2>2, <2>3
  <1>6. PICK abcd : abcd = abc \o d
    OBVIOUS
  <1>7. /\ abcd \in Seq(S) /\ Len(abcd) = m + 2 + n /\ \A j \in 1..(m + 2) : abcd[j] = abc[j]
        /\ \A j \in 1..n : abcd[m + 2 + j] = d[j]
    <2>1. abc \in Seq(S)
      BY <1>5
    <2>2. /\ abc \o d \in Seq(S) /\ Len(abc \o d) = Len(abc) + Len(d)
          /\ \A k \in 1..Len(abc) : (abc \o d)[k] = abc[k]
          /\ \A k \in 1..Len(d) : (abc \o d)[Len(abc) + k] = d[k]
      BY ONLY <2>1, <1>d, ConcatFacts
    <2> QED
      BY <1>1, <1>5, <1>6, <2>2
  <1>8. t = abcd \o e
    BY <1>p, <1>2, <1>4, <1>6
  <1>9. /\ t \in Seq(S) /\ Len(t) = m + n + 3 /\ \A j \in 1..(m + 2 + n) : t[j] = abcd[j]
        /\ t[m + n + 3] = e[1]
    <2>1. abcd \in Seq(S)
      BY <1>7
    <2>2. /\ abcd \o e \in Seq(S) /\ Len(abcd \o e) = Len(abcd) + Len(e)
          /\ \A k \in 1..Len(abcd) : (abcd \o e)[k] = abcd[k]
          /\ \A k \in 1..Len(e) : (abcd \o e)[Len(abcd) + k] = e[k]
      BY ONLY <2>1, <1>e, ConcatFacts
    <2>3. 1 \in 1..Len(e) /\ Len(abcd) + 1 = m + n + 3
      BY <1>p, <1>7
    <2> QED
      BY <1>p, <1>7, <1>8, <2>2, <2>3
  <1>10. DOMAIN t = 1..Len(t)
    BY <1>9
  <1>11. t[1] = a[1] /\ t[m + 2] = c[1]
    <2>1. 1 \in 1..(1 + m) /\ 1 \in 1..(m + 2) /\ 1 \in 1..(m + 2 + n)
          /\ m + 2 \in 1..(m + 2) /\ m + 2 \in 1..(m + 2 + n)
      BY ONLY m \in Nat, n \in Nat
    <2> QED
      BY ONLY <2>1, <1>3, <1>5, <1>7, <1>9
  <1>12. ASSUME NEW j \in 1..m PROVE t[1 + j] = b[j]
    <2>1. 1 + j \in 1..(1 + m) /\ 1 + j \in 1..(m + 2) /\ 1 + j \in 1..(m + 2 + n)
      OBVIOUS
    <2> QED
      BY ONLY <2>1, <1>3, <1>5, <1>7, <1>9, j \in 1..m
  <1>13. ASSUME NEW j \in 1..n PROVE t[m + 2 + j] = d[j]
    <2>1. m + 2 + j \in 1..(m + 2 + n)
      OBVIOUS
    <2> QED
      BY ONLY <2>1, <1>7, <1>9, j \in 1..n
  <1> QED
    BY ONLY m \in Nat, n \in Nat, <1>0, <1>1, <1>9, <1>10, <1>11, <1>12, <1>13 DEF Arranged

\* The statement with two names is one that MySQL accepts, and inserts a row with these names.
LEMMA StatementRead ==
    ASSUME NEW path \in Seq(Letter), NEW name \in Seq(Letter)
    PROVE  Sql!Inserted(Sql!CString(Sql!Statement(path, name)))
               = <<[filepath |-> path, filename |-> name]>>
  <1>1. PICK p : p = Sql!prepareStringValue(path)
    OBVIOUS
  <1>2. PICK q : q = Sql!prepareStringValue(name)
    OBVIOUS
  <1>3. p \in Seq(PlainLetter) /\ q \in Seq(PlainLetter)
    BY <1>1, <1>2, Prepared
  <1>4. PICK dp : Written(p, path, dp)
    BY <1>1, Prepared
  <1>5. PICK dq : Written(q, name, dq)
    BY <1>2, Prepared
  <1>6. Len(p) \in Nat /\ Len(q) \in Nat /\ Len(p) >= 2 /\ Len(q) >= 2
        /\ p[1] = "quote" /\ q[1] = "quote"
    <2>1. Len(path) \in 0..Len(path) /\ Len(name) \in 0..Len(name)
      OBVIOUS
    <2>2. dp[Len(path)] \in Nat /\ dq[Len(name)] \in Nat
      BY <1>4, <1>5, <2>1 DEF Written
    <2>3. Len(p) = dp[Len(path)] + 2 /\ Len(q) = dq[Len(name)] + 2
      BY <1>4, <1>5 DEF Written
    <2>4. p[1] = "quote" /\ q[1] = "quote"
      BY <1>4, <1>5 DEF Written
    <2> QED
      BY <2>2, <2>3, <2>4
  <1>7. PICK a, b, c : a = <<"(">> /\ b = <<"comma">> /\ c = <<")">>
    OBVIOUS
  <1>8. /\ a \in Seq(PlainLetter) /\ b \in Seq(PlainLetter) /\ c \in Seq(PlainLetter)
        /\ Len(a) = 1 /\ Len(b) = 1 /\ Len(c) = 1
        /\ a[1] = "(" /\ b[1] = "comma" /\ c[1] = ")"
    <2>1. PICK x, y, z : x = "(" /\ y = "comma" /\ z = ")"
      OBVIOUS
    <2>2. x \in PlainLetter /\ y \in PlainLetter /\ z \in PlainLetter
      BY <2>1, Letters DEF PlainLetter
    <2> QED
      BY <1>7, <2>1, <2>2, OneFacts
  <1>9. PICK t : t = a \o p \o b \o q \o c
    OBVIOUS
  <1>10. Sql!Statement(path, name) = t
    BY <1>1, <1>2, <1>7, <1>9 DEF Sql!Statement, Sql!Comma
  <1>11. PICK m : m = Len(p)
    OBVIOUS
  <1>12. PICK n : n = Len(q)
    OBVIOUS
  <1>13. /\ t \in Seq(PlainLetter) /\ Len(t) = m + n + 3 /\ DOMAIN t = 1..Len(t)
         /\ t[1] = "(" /\ t[m + 2] = "comma" /\ t[m + n + 3] = ")"
         /\ \A j \in 1..m : t[1 + j] = p[j]
         /\ \A j \in 1..n : t[m + 2 + j] = q[j]
    <2>0. Parts(PlainLetter, a, p, b, q, c, t)
      BY <1>3, <1>8, <1>9 DEF Parts
    <2>1. Arranged(PlainLetter, a, p, b, q, c, t)
      BY <2>0, FiveParts
    <2>2. /\ t \in Seq(PlainLetter) /\ Len(t) = Len(p) + Len(q) + 3 /\ DOMAIN t = 1..Len(t)
          /\ t[1] = a[1] /\ t[Len(p) + 2] = b[1] /\ t[Len(p) + Len(q) + 3] = c[1]
          /\ \A j \in 1..Len(p) : t[1 + j] = p[j]
          /\ \A j \in 1..Len(q) : t[Len(p) + 2 + j] = q[j]
      BY <2>1 DEF Arranged
    <2> QED
      BY ONLY <1>8, <1>11, <1>12, <2>2
  <1>14. m \in Nat /\ n \in Nat /\ m >= 2 /\ n >= 2
    BY <1>6, <1>11, <1>12
  <1>15. t[2] = "quote" /\ t[m + 3] = "quote"
    <2>1. 1 \in 1..m /\ 1 \in 1..n /\ 1 + 1 = 2 /\ m + 2 + 1 = m + 3
      BY <1>14
    <2> QED
      BY <1>6, <1>13, <2>1
  <1>16. t \in Seq(Letter)
    <2>1. \A k \in 1..Len(t) : t[k] \in Letter
      BY <1>13 DEF PlainLetter
    <2> QED
      BY <1>13, <2>1
  <1>17. Sql!CString(t) = t
    <2>1. "NUL" \notin Sql!Range(t)
      BY <1>13 DEF PlainLetter, Sql!Range
    <2> QED
      BY <2>1 DEF Sql!CString, Sql!NUL
  <1>18. Sql!Literal(t, 3).value = path /\ Sql!Literal(t, 3).next = m + 2
    <2>1. Holds(t, 1, p)
      <3>1. 1 + m <= Len(t) /\ 1 + m + 1 = m + 2 /\ m + 2 \in 1..Len(t)
        BY <1>13, <1>14
      <3>2. At(t, 1 + m + 1) = "comma"
        BY <1>13, <3>1 DEF At
      <3> QED
        BY <1>11, <1>13, <3>1, <3>2 DEF Holds
    <2>2. 1 \in Nat /\ 1 + 2 = 3 /\ 1 + m + 1 = m + 2
      BY <1>14
    <2>3. /\ Sql!Literal(t, 1 + 2).value = path
          /\ Sql!Literal(t, 1 + 2).next = 1 + Len(p) + 1
      BY ONLY <1>1, <1>16, <2>1, <2>2, path \in Seq(Letter), LiteralOfWritten
    <2> QED
      BY <1>11, <2>2, <2>3
  <1>19. Sql!Literal(t, m + 4).value = name /\ Sql!Literal(t, m + 4).next = m + n + 3
    <2>1. Holds(t, m + 2, q)
      <3>1. m + 2 + n <= Len(t) /\ m + 2 + n + 1 = m + n + 3 /\ m + n + 3 \in 1..Len(t)
        BY <1>13, <1>14
      <3>2. At(t, m + 2 + n + 1) = ")"
        BY <1>13, <3>1 DEF At
      <3> QED
        BY <1>12, <1>13, <3>1, <3>2 DEF Holds
    <2>2. m + 2 \in Nat /\ (m + 2) + 2 = m + 4 /\ (m + 2) + n + 1 = m + n + 3
      BY <1>14
    <2>3. /\ Sql!Literal(t, (m + 2) + 2).value = name
          /\ Sql!Literal(t, (m + 2) + 2).next = (m + 2) + Len(q) + 1
      BY ONLY <1>2, <1>16, <2>1, <2>2, name \in Seq(Letter), LiteralOfWritten
    <2> QED
      BY <1>12, <2>2, <2>3
  <1>20. (m + 2) + 2 = m + 4 /\ (m + 2) + 1 = m + 3 /\ m + 2 > 0 /\ m + 3 < Len(t) /\ Len(t) > 2
         /\ m + n + 3 = Len(t)
    BY <1>13, <1>14
  <1>21. Sql!Inserted(t) = <<[filepath |-> path, filename |-> name]>>
    <2>1. PICK first : first = Sql!Literal(t, 3)
      OBVIOUS
    <2>2. first.value = path /\ first.next = m + 2
      BY <1>18, <2>1
    <2>3. PICK second : second = Sql!Literal(t, first.next + 2)
      OBVIOUS
    <2>4. second.value = name /\ second.next = Len(t) /\ t[second.next] = ")"
      BY <1>13, <1>19, <1>20, <2>2, <2>3
    <2>5. /\ Len(t) > 2 /\ t[1] = "(" /\ t[2] = "quote"
          /\ first.next > 0 /\ first.next + 1 < Len(t)
          /\ t[first.next] = "comma" /\ t[first.next + 1] = "quote"
      BY <1>13, <1>15, <1>20, <2>2
    <2> QED
      BY <2>1, <2>2, <2>3, <2>4, <2>5 DEF Sql!Inserted, Sql!Comma, Sql!Quote
  <1> QED
    BY <1>10, <1>17, <1>21

-----------------------------------------------------------------------------
(* The rows of Quoting and its cache *)

Row == [filepath : Seq(Letter), filename : Seq(Letter)]

NoNul == \A i \in DOMAIN asked : "NUL" \notin Sql!Range(asked[i])

\* The rows hold the uploaded names, and no name without a NUL was inserted twice.
NameInv ==
    /\ asked \in Seq(Seq(Chars)) /\ webdiff_define_files \in Seq(Row)
    /\ StoredVerbatim /\ PlainPathsCached
    /\ NoNul => \A i, j \in DOMAIN asked : asked[i] = asked[j] => i = j

LEMMA PathFacts ==
    ASSUME NEW name \in Seq(Chars)
    PROVE  /\ name \in Seq(Letter) /\ Sql!sNewFilePath(name) \in Seq(Letter)
           /\ Sql!sNewFilePath(name) = <<"/">> \o name
           /\ "NUL" \notin Sql!Range(name) => Sql!CString(<<"/">> \o name) = <<"/">> \o name
  <1>1. PICK c : c = "/"
    OBVIOUS
  <1>2. c \in Letter /\ c # "NUL"
    BY <1>1, Letters
  <1>3. name \in Seq(Letter)
    BY Letters
  <1>4. PICK p : p = <<c>> \o name
    OBVIOUS
  <1>5. p \in Seq(Letter) /\ Len(p) = Len(name) + 1
        /\ p[1] = c /\ \A k \in 1..Len(name) : p[k + 1] = name[k]
    BY <1>2, <1>3, <1>4
  <1>6. ASSUME "NUL" \notin Sql!Range(name) PROVE Sql!CString(p) = p
    <2>1. ASSUME NEW k \in DOMAIN p PROVE p[k] # "NUL"
      <3>1. CASE k = 1
        BY <1>2, <1>5, <3>1
      <3>2. CASE k # 1
        <4>1. k - 1 \in 1..Len(name) /\ (k - 1) + 1 = k
          BY <1>5, <3>2
        <4>2. p[k] = name[k - 1] /\ k - 1 \in DOMAIN name
          BY <1>5, <4>1
        <4> QED
          BY <1>6, <4>2 DEF Sql!Range
      <3> QED
        BY <3>1, <3>2
    <2> QED
      BY <2>1 DEF Sql!CString, Sql!NUL, Sql!Range
  <1> QED
    BY <1>1, <1>3, <1>4, <1>5, <1>6 DEF Sql!sNewFilePath

\* Two names with the same path are the same.
LEMMA PathInjective ==
    ASSUME NEW a \in Seq(Chars), NEW b \in Seq(Chars), <<"/">> \o a = <<"/">> \o b
    PROVE  a = b
  <1>1. PICK c : c = "/"
    OBVIOUS
  <1>2. <<c>> \o a = <<c>> \o b
    BY <1>1
  <1>3. c \in Letter /\ a \in Seq(Letter) /\ b \in Seq(Letter)
    BY <1>1, Letters
  <1>4. /\ Len(<<c>> \o a) = Len(a) + 1 /\ \A k \in 1..Len(a) : (<<c>> \o a)[k + 1] = a[k]
        /\ Len(<<c>> \o b) = Len(b) + 1 /\ \A k \in 1..Len(b) : (<<c>> \o b)[k + 1] = b[k]
    BY <1>3
  <1>5. Len(a) = Len(b) /\ \A k \in 1..Len(a) : a[k] = b[k]
    BY <1>2, <1>4
  <1> QED
    BY <1>5

LEMMA NameType ==
    ASSUME NEW name \in MCNames
    PROVE  name \in Seq(Chars)
  BY DEF MCNames

LEMMA NameInit ==
    ASSUME Sql!Init
    PROVE  NameInv
  <1>1. sql = "down" /\ webdiff_define_files = <<>> /\ asked = <<>>
    BY DEF Sql!Init
  <1>2. asked \in Seq(Seq(Chars)) /\ webdiff_define_files \in Seq(Row)
        /\ Len(webdiff_define_files) = Len(asked) /\ DOMAIN asked = {}
    BY <1>1
  <1>3. sql # "refused" /\ sql # "up"
    BY <1>1
  <1>4. StoredVerbatim
    BY <1>2, <1>3 DEF StoredVerbatim, Sql!StoredVerbatim
  <1>5. PlainPathsCached
    BY <1>3 DEF PlainPathsCached, Sql!PlainPathsCached
  <1> QED
    BY <1>2, <1>4, <1>5 DEF NameInv

\* The largest of one number.
LEMMA MaxOne ==
    ASSUME NEW i \in Nat
    PROVE  Sql!Max({i}) = i
  BY DEF Sql!Max

\* The cache that a start reads.
LEMMA CacheLoaded ==
    ASSUME NameInv, Sql!LoadCache, NoNul
    PROVE  /\ DOMAIN m_mapCacheFileDefinsIds' = {<<"/">> \o asked[i] : i \in DOMAIN asked}
           /\ \A i \in DOMAIN asked : m_mapCacheFileDefinsIds'[<<"/">> \o asked[i]] = i
  <1> DEFINE key(i) == Sql!CString(webdiff_define_files[i].filepath)
             rows == DOMAIN webdiff_define_files
             path(i) == <<"/">> \o asked[i]
  <1>1. m_mapCacheFileDefinsIds' =
            [p \in {key(i) : i \in rows} |-> Sql!Max({i \in rows : key(i) = p})]
    BY DEF Sql!LoadCache
  <1>2. /\ asked \in Seq(Seq(Chars)) /\ webdiff_define_files \in Seq(Row)
        /\ Len(webdiff_define_files) = Len(asked)
        /\ \A i \in DOMAIN asked :
              webdiff_define_files[i] = [filepath |-> <<"/">> \o asked[i], filename |-> asked[i]]
    BY DEF NameInv, StoredVerbatim, Sql!StoredVerbatim
  <1>3. rows = DOMAIN asked
    BY <1>2
  <1>4. ASSUME NEW i \in rows PROVE key(i) = path(i) /\ i \in Nat /\ asked[i] \in Seq(Chars)
    <2>1. asked[i] \in Seq(Chars) /\ i \in Nat
      BY <1>2, <1>3
    <2>2. "NUL" \notin Sql!Range(asked[i])
      BY <1>3 DEF NoNul
    <2>3. webdiff_define_files[i].filepath = path(i)
      BY <1>2, <1>3
    <2>4. Sql!CString(path(i)) = path(i)
      BY <2>1, <2>2, PathFacts
    <2> QED
      BY <2>1, <2>3, <2>4
  <1>5. ASSUME NEW i \in rows PROVE {j \in rows : key(j) = path(i)} = {i}
    <2>1. ASSUME NEW j \in rows, key(j) = path(i) PROVE j = i
      <3>1. path(j) = path(i)
        BY <1>4, <2>1
      <3>2. asked[j] = asked[i]
        BY <1>4, <3>1, PathInjective
      <3> QED
        BY <1>3, <3>2 DEF NameInv
    <2>2. key(i) = path(i)
      BY <1>4
    <2> HIDE DEF key, path, rows
    <2> QED
      BY <2>1, <2>2
  <1>6. {key(i) : i \in rows} = {path(i) : i \in DOMAIN asked}
    <2> HIDE DEF path, key, rows
    <2> QED
      BY <1>3, <1>4
  <1>7. ASSUME NEW i \in rows PROVE m_mapCacheFileDefinsIds'[path(i)] = i
    <2>1. path(i) \in {key(j) : j \in rows}
      BY <1>3, <1>6
    <2>2. m_mapCacheFileDefinsIds'[path(i)] = Sql!Max({j \in rows : key(j) = path(i)})
      <3> HIDE DEF path, key, rows
      <3> QED
        BY <1>1, <2>1
    <2>3. Sql!Max({i}) = i
      BY <1>4, MaxOne
    <2> QED
      BY <1>5, <2>2, <2>3
  <1>8. DOMAIN m_mapCacheFileDefinsIds' = {path(i) : i \in DOMAIN asked}
    BY <1>1, <1>6
  <1> QED
    BY <1>3, <1>7, <1>8

LEMMA LoadKeepsNames ==
    ASSUME NameInv, Sql!LoadCache
    PROVE  NameInv'
  <1>1. webdiff_define_files' = webdiff_define_files /\ asked' = asked /\ sql' = "up"
    BY DEF Sql!LoadCache
  <1>2. StoredVerbatim'
    BY <1>1 DEF NameInv, StoredVerbatim, Sql!StoredVerbatim
  <1>3. NoNul' <=> NoNul
    BY <1>1 DEF NoNul
  <1>4. PlainPathsCached'
    <2>1. NoNul => /\ DOMAIN m_mapCacheFileDefinsIds' = {<<"/">> \o asked[i] : i \in DOMAIN asked}
                   /\ \A i \in DOMAIN asked : m_mapCacheFileDefinsIds'[<<"/">> \o asked[i]] = i
      BY CacheLoaded
    <2> QED
      BY <1>1, <2>1 DEF PlainPathsCached, Sql!PlainPathsCached, Sql!NUL, NoNul
  <1> QED
    BY <1>1, <1>2, <1>3, <1>4 DEF NameInv

LEMMA StopKeepsNames ==
    ASSUME NameInv, Sql!Stop
    PROVE  NameInv'
  <1>1. webdiff_define_files' = webdiff_define_files /\ asked' = asked /\ sql' = "down"
    BY DEF Sql!Stop
  <1>2. sql' # "up" /\ sql' # "refused"
    BY <1>1
  <1>3. StoredVerbatim' /\ PlainPathsCached'
    BY <1>1, <1>2 DEF NameInv, StoredVerbatim, Sql!StoredVerbatim, PlainPathsCached,
          Sql!PlainPathsCached
  <1>4. NoNul' <=> NoNul
    BY <1>1 DEF NoNul
  <1> QED
    BY <1>1, <1>3, <1>4 DEF NameInv

\* An insert never fails, and appends the row of the name.
LEMMA InsertEffect ==
    ASSUME NEW name \in MCNames, Sql!InsertDefineFile(name)
    PROVE  /\ webdiff_define_files' = webdiff_define_files
                  \o <<[filepath |-> Sql!sNewFilePath(name), filename |-> name]>>
           /\ m_mapCacheFileDefinsIds' =
                  [p \in DOMAIN m_mapCacheFileDefinsIds \cup {Sql!sNewFilePath(name)} |->
                      IF p = Sql!sNewFilePath(name) THEN Len(webdiff_define_files) + 1
                                                    ELSE m_mapCacheFileDefinsIds[p]]
           /\ asked' = Append(asked, name) /\ sql' = "up" /\ sql = "up"
           /\ Sql!sNewFilePath(name) \notin DOMAIN m_mapCacheFileDefinsIds
  <1>1. name \in Seq(Letter) /\ Sql!sNewFilePath(name) \in Seq(Letter)
    BY NameType, PathFacts
  <1>2. PICK new : new = Sql!Inserted(Sql!CString(Sql!Statement(Sql!sNewFilePath(name), name)))
    OBVIOUS
  <1>3. new = <<[filepath |-> Sql!sNewFilePath(name), filename |-> name]>>
    BY <1>1, <1>2, StatementRead
  <1>4. new # <<>>
    BY <1>3
  <1> QED
    BY <1>2, <1>3, <1>4 DEF Sql!InsertDefineFile

LEMMA InsertKeepsNames ==
    ASSUME NameInv, NEW name \in MCNames, Sql!InsertDefineFile(name)
    PROVE  NameInv'
  <1>1. PICK path : path = Sql!sNewFilePath(name)
    OBVIOUS
  <1>2. PICK row : row = [filepath |-> path, filename |-> name]
    OBVIOUS
  <1>3. PICK n \in Nat : n = Len(asked)
    BY DEF NameInv
  <1>4. /\ webdiff_define_files' = webdiff_define_files \o <<row>>
        /\ m_mapCacheFileDefinsIds' =
               [p \in DOMAIN m_mapCacheFileDefinsIds \cup {path} |->
                   IF p = path THEN Len(webdiff_define_files) + 1 ELSE m_mapCacheFileDefinsIds[p]]
        /\ asked' = Append(asked, name) /\ sql' = "up" /\ sql = "up"
        /\ path \notin DOMAIN m_mapCacheFileDefinsIds
    BY <1>1, <1>2, InsertEffect
  <1>5. /\ asked \in Seq(Seq(Chars)) /\ webdiff_define_files \in Seq(Row)
        /\ Len(webdiff_define_files) = n
        /\ \A i \in DOMAIN asked :
              webdiff_define_files[i] = [filepath |-> <<"/">> \o asked[i], filename |-> asked[i]]
    BY <1>3 DEF NameInv, StoredVerbatim, Sql!StoredVerbatim
  <1>6. name \in Seq(Chars) /\ name \in Seq(Letter) /\ path \in Seq(Letter)
        /\ path = <<"/">> \o name
    BY <1>1, NameType, PathFacts
  <1>7. row \in Row
    BY <1>2, <1>6 DEF Row
  <1>8. /\ asked' \in Seq(Seq(Chars)) /\ DOMAIN asked' = 1..(n + 1) /\ Len(asked') = n + 1
        /\ \A i \in 1..n : asked'[i] = asked[i] 
        /\ asked'[n + 1] = name /\ DOMAIN asked = 1..n
    BY <1>3, <1>4, <1>5, <1>6
  <1>9. /\ webdiff_define_files' \in Seq(Row) /\ Len(webdiff_define_files') = n + 1
        /\ \A i \in 1..n : webdiff_define_files'[i] = webdiff_define_files[i]
        /\ webdiff_define_files'[n + 1] = row
    BY <1>4, <1>5, <1>7
  <1>10. StoredVerbatim'
    <2>1. ASSUME NEW i \in DOMAIN asked'
          PROVE  webdiff_define_files'[i] = [filepath |-> <<"/">> \o asked'[i], filename |-> asked'[i]]
      <3>1. CASE i = n + 1
        BY <1>2, <1>6, <1>8, <1>9, <3>1
      <3>2. CASE i \in 1..n
        BY <1>5, <1>8, <1>9, <3>2
      <3> QED
        BY <1>8, <3>1, <3>2
    <2>2. sql' # "refused"
      BY <1>4
    <2> QED
      BY <1>8, <1>9, <2>1, <2>2 DEF StoredVerbatim, Sql!StoredVerbatim
  <1>11. NoNul' => NoNul
    <2>1. ASSUME NEW i \in DOMAIN asked PROVE i \in DOMAIN asked' /\ asked'[i] = asked[i]
      BY <1>8
    <2> QED
      BY <2>1 DEF NoNul
  <1>12. NoNul =>
           /\ DOMAIN m_mapCacheFileDefinsIds = {<<"/">> \o asked[i] : i \in 1..n}
           /\ \A i \in 1..n : m_mapCacheFileDefinsIds[<<"/">> \o asked[i]] = i
           /\ \A i, j \in 1..n : asked[i] = asked[j] => i = j
    BY <1>4, <1>8 DEF NameInv, PlainPathsCached, Sql!PlainPathsCached, NoNul, Sql!NUL
  <1>13. ASSUME NoNul, NEW i \in 1..n PROVE <<"/">> \o asked[i] # path /\ asked[i] # name
    BY <1>4, <1>6, <1>12, <1>13
  <1>14. NoNul' => \A i, j \in DOMAIN asked' : asked'[i] = asked'[j] => i = j
    <2>1. ASSUME NoNul, NEW i \in 1..(n + 1), NEW j \in 1..(n + 1), asked'[i] = asked'[j]
          PROVE  i = j
      <3>1. CASE i \in 1..n /\ j \in 1..n
        BY <1>8, <1>12, <2>1, <3>1
      <3>2. CASE i \in 1..n /\ j = n + 1
        BY <1>8, <1>13, <2>1, <3>2
      <3>3. CASE i = n + 1 /\ j \in 1..n
        BY <1>8, <1>13, <2>1, <3>3
      <3> QED
        BY <3>1, <3>2, <3>3
    <2> QED
      BY <1>8, <1>11, <2>1
  <1>15. PlainPathsCached'
    <2>1. ASSUME NoNul
          PROVE  /\ DOMAIN m_mapCacheFileDefinsIds' = {<<"/">> \o asked'[i] : i \in 1..(n + 1)}
                 /\ \A i \in 1..(n + 1) : m_mapCacheFileDefinsIds'[<<"/">> \o asked'[i]] = i
      <3> DEFINE at(i) == <<"/">> \o asked[i]
                 next(i) == <<"/">> \o asked'[i]
      <3>1. ASSUME NEW i \in 1..n PROVE next(i) = at(i)
        BY <1>8
      <3>2. next(n + 1) = path
        BY <1>6, <1>8
      <3>3. DOMAIN m_mapCacheFileDefinsIds = {at(i) : i \in 1..n}
        BY <1>12, <2>1
      <3>4. DOMAIN m_mapCacheFileDefinsIds' = {at(i) : i \in 1..n} \cup {path}
        BY <1>4, <3>3
      <3>5. {at(i) : i \in 1..n} \cup {path} = {next(i) : i \in 1..(n + 1)}
        <4> HIDE DEF at, next
        <4>1. 1..(n + 1) = 1..n \cup {n + 1}
          OBVIOUS
        <4> QED
          BY <3>1, <3>2, <4>1
      <3>6. ASSUME NEW i \in 1..n PROVE m_mapCacheFileDefinsIds'[next(i)] = i
        <4>1. at(i) \in DOMAIN m_mapCacheFileDefinsIds /\ at(i) # path
              /\ m_mapCacheFileDefinsIds[at(i)] = i
          BY <1>12, <1>13, <2>1, <3>3
        <4> HIDE DEF at, next
        <4> QED
          BY <1>4, <3>1, <4>1
      <3>7. m_mapCacheFileDefinsIds'[path] = n + 1
        BY <1>4, <1>5
      <3>8. ASSUME NEW i \in 1..(n + 1) PROVE m_mapCacheFileDefinsIds'[next(i)] = i
        <4> HIDE DEF next
        <4> QED
          BY <3>2, <3>6, <3>7
      <3> QED
        BY <3>4, <3>5, <3>8
    <2> QED
      BY <1>8, <1>11, <2>1 DEF PlainPathsCached, Sql!PlainPathsCached, NoNul, Sql!NUL
  <1> QED
    BY <1>8, <1>9, <1>10, <1>14, <1>15 DEF NameInv

LEMMA NameNext ==
    ASSUME NameInv, [AllNext]_allVars
    PROVE  NameInv'
  <1>1. CASE UNCHANGED sqlVars
    BY <1>1 DEF NameInv, sqlVars, NoNul, StoredVerbatim, PlainPathsCached, Sql!StoredVerbatim,
          Sql!PlainPathsCached
  <1>2. CASE Sql!Next
    <2>1. CASE Sql!LoadCache
      BY <2>1, LoadKeepsNames
    <2>2. CASE Sql!Stop
      BY <2>2, StopKeepsNames
    <2>3. ASSUME NEW name \in MCNames, Sql!InsertDefineFile(name) PROVE NameInv'
      BY <2>3, InsertKeepsNames
    <2> QED
      BY <1>2, <2>1, <2>2, <2>3 DEF Sql!Next
  <1> QED
    BY <1>1, <1>2 DEF AllNext, allVars

LEMMA NamesInvariant == AllSpec => []NameInv
  <1>1. AllInit => NameInv
    BY NameInit DEF AllInit
  <1>2. NameInv /\ [AllNext]_allVars => NameInv'
    BY NameNext
  <1> QED
    BY <1>1, <1>2, PTL DEF AllSpec

\* Whatever characters the names have, and however long they are, MySQL accepts every
\* statement that prepareStringValue puts together, and the columns hold the very names.
THEOREM NamesAreStored == AllSpec => []StoredVerbatim
  <1>1. NameInv => StoredVerbatim
    BY DEF NameInv
  <1> QED
    BY <1>1, NamesInvariant, PTL

\* As long as no name has a NUL, the cache that a restart reads has the path of every row, under
\* the id of that row, and nothing else.
THEOREM PlainPathsAreCached == AllSpec => []PlainPathsCached
  <1>1. NameInv => PlainPathsCached
    BY DEF NameInv
  <1> QED
    BY <1>1, NamesInvariant, PTL

-----------------------------------------------------------------------------
(* Path strings *)

NoName == ""
Here   == "."
Above  == ".."

\* The names of a path string, and those that stay in it.
AnyName  == PathNames \cup {NoName, Here, Above}
Ordinary == AnyName \ {NoName, Here, Above}

LEMMA Specials ==
    /\ NoName # Here /\ NoName # Above /\ Here # Above
    /\ NoName \in AnyName /\ Here \in AnyName /\ Above \in AnyName
    /\ \A x \in AnyName : x \in Ordinary <=> x # NoName /\ x # Here /\ x # Above
  <1>1. NoName # Here /\ NoName # Above /\ Here # Above
    BY Zenon DEF NoName, Here, Above
  <1> QED
    BY <1>1 DEF AnyName, Ordinary

\* One turn of the loop of doNormalizePath, by the kind of the name.
LEMMA FilterFirst ==
    ASSUME NEW K, K = <<>>, NEW x, NEW n
    PROVE  Filter(K, x, 1, n) = Append(K, x)
  <1>1. Len(K) = 0
    OBVIOUS
  <1>2. ~(Len(K) > 0)
    BY <1>1
  <1> QED
    BY <1>2, Zenon DEF Filter

FilterForms(K, x, i, n) ==
    /\ x = NoName /\ i = n => Filter(K, x, i, n) = Append(K, x)
    /\ x = NoName /\ i # n => Filter(K, x, i, n) = K
    /\ x = Here => Filter(K, x, i, n) = K
    /\ x = Above /\ Len(K) > 0 => Filter(K, x, i, n) = DotDot(K)
    /\ x = Above /\ ~(Len(K) > 0) => Filter(K, x, i, n) = Append(K, x)
    /\ x \notin {NoName, Here, Above} => Filter(K, x, i, n) = Append(K, x)

LEMMA FilterLater ==
    ASSUME NEW K, NEW x, NEW i, i # 1, NEW n
    PROVE  FilterForms(K, x, i, n)
  <1>1. NoName # Here /\ NoName # Above /\ Here # Above
    BY Specials
  <1> QED
    BY <1>1, Zenon DEF FilterForms, Filter, NoName, Here, Above

DotDotForms(K) ==
    /\ K[Len(K)] = NoName => DotDot(K) = Append(SubSeq(K, 1, Len(K) - 1), Above)
    /\ K[Len(K)] \notin {NoName, Here, Above} => DotDot(K) = SubSeq(K, 1, Len(K) - 1)
    /\ K[Len(K)] \in {Here, Above} => DotDot(K) = Append(K, Above)

LEMMA DotDotTurn ==
    ASSUME NEW K
    PROVE  DotDotForms(K)
  <1>1. NoName # Here /\ NoName # Above /\ Here # Above
    BY Specials
  <1> QED
    BY <1>1, Zenon DEF DotDotForms, DotDot, NoName, Here, Above

\* What is kept of a path is written "..", u times, and the ordinary names S; a name more
\* makes that v and T.
Turns(u, S, x, v, T) ==
    \/ x \in {NoName, Here} /\ v = u /\ T = S
    \/ x = Above /\ Len(S) = 0 /\ v = u + 1 /\ T = S
    \/ x = Above /\ Len(S) > 0 /\ v = u /\ T = SubSeq(S, 1, Len(S) - 1)
    \/ x \in Ordinary /\ v = u /\ T = Append(S, x)

\* What Resolve has read from the right: names and the ".." that are not used yet.
Read == [kept : Seq(Ordinary), up : Nat]

ReadName(x, r) ==
    CASE x \in {NoName, Here} -> r
      [] x = Above -> [r EXCEPT !.up = @ + 1]
      [] OTHER -> IF r.up > 0 THEN [r EXCEPT !.up = @ - 1] ELSE [r EXCEPT !.kept = <<x>> \o @]

\* The path that both sides make together.
UpsOf(u, S, r)   == IF r.up <= Len(S) THEN u ELSE u + (r.up - Len(S))
NamesOf(S, r) == IF r.up <= Len(S) THEN Len(S) - r.up ELSE 0

Together(u, S, r) ==
    [k \in 1..(UpsOf(u, S, r) + NamesOf(S, r) + Len(r.kept)) |->
        IF k <= UpsOf(u, S, r) THEN Above
        ELSE IF k <= UpsOf(u, S, r) + NamesOf(S, r) THEN S[k - UpsOf(u, S, r)]
        ELSE r.kept[k - UpsOf(u, S, r) - NamesOf(S, r)]]

LEMMA WithoutLast ==
    ASSUME NEW A, NEW S \in Seq(A), Len(S) > 0
    PROVE  /\ SubSeq(S, 1, Len(S) - 1) \in Seq(A) /\ Len(SubSeq(S, 1, Len(S) - 1)) = Len(S) - 1
           /\ \A k \in 1..(Len(S) - 1) : SubSeq(S, 1, Len(S) - 1)[k] = S[k]
  <1>1. PICK n \in Nat : n = Len(S) - 1
    OBVIOUS
  <1>2. \A k \in 1..n : S[k] \in A
    BY <1>1
  <1>3. /\ SubSeq(S, 1, n) \in Seq(A) /\ Len(SubSeq(S, 1, n)) = IF 1 <= n THEN n - 1 + 1 ELSE 0
        /\ \A k \in 1..(n - 1 + 1) : SubSeq(S, 1, n)[k] = S[1 + k - 1]
    BY <1>2, SubSeqProperties
  <1>4. n - 1 + 1 = n /\ \A k \in 1..n : 1 + k - 1 = k
    OBVIOUS
  <1>5. Len(SubSeq(S, 1, n)) = n
    BY <1>3, <1>4
  <1> QED
    BY <1>1, <1>3, <1>4, <1>5

LEMMA ReadType ==
    ASSUME NEW x \in AnyName, NEW r \in Read
    PROVE  ReadName(x, r) \in Read
  <1>1. CASE x \in {NoName, Here}
    BY <1>1, Specials DEF ReadName
  <1>2. CASE x = Above
    <2>1. ReadName(x, r) = [r EXCEPT !.up = @ + 1]
      BY <1>2, Specials DEF ReadName
    <2> QED
      BY <2>1 DEF Read
  <1>3. CASE x \in Ordinary
    <2>1. ReadName(x, r) = IF r.up > 0 THEN [r EXCEPT !.up = @ - 1] ELSE [r EXCEPT !.kept = <<x>> \o @]
      BY <1>3, Specials DEF ReadName
    <2>2. <<x>> \o r.kept \in Seq(Ordinary)
      BY <1>3 DEF Read
    <2>3. [r EXCEPT !.kept = <<x>> \o @] \in Read
      BY <2>2 DEF Read
    <2>4. r.up > 0 => [r EXCEPT !.up = @ - 1] \in Read
      BY DEF Read
    <2> QED
      BY <2>1, <2>3, <2>4
  <1> QED
    BY <1>1, <1>2, <1>3, Specials

\* The path does not change when a name goes from the right to the left.
LEMMA TogetherTurn ==
    ASSUME NEW u \in Nat, NEW S \in Seq(Ordinary), NEW x \in AnyName, NEW v, NEW T,
           Turns(u, S, x, v, T), NEW r \in Read
    PROVE  Together(v, T, r) = Together(u, S, ReadName(x, r))
  <1>1. PICK q : q = ReadName(x, r)
    OBVIOUS
  <1>2. q \in Read
    BY <1>1, ReadType
  <1>3. CASE x \in {NoName, Here}
    <2>1. q = r /\ v = u /\ T = S
      BY <1>1, <1>3, Specials DEF ReadName, Turns
    <2> QED
      BY <1>1, <2>1
  <1>4. CASE x = Above
    <2>1. q = [r EXCEPT !.up = @ + 1]
      BY <1>1, <1>4, Specials DEF ReadName
    <2>2. q.up = r.up + 1 /\ q.kept = r.kept
      BY <2>1 DEF Read
    <2>3. CASE Len(S) = 0 /\ v = u + 1 /\ T = S
      <3>1. UpsOf(v, T, r) = UpsOf(u, S, q) /\ NamesOf(T, r) = 0 /\ NamesOf(S, q) = 0
        BY <2>2, <2>3 DEF UpsOf, NamesOf, Read
      <3>2. PICK m : m = UpsOf(u, S, q)
        OBVIOUS
      <3>3. Together(v, T, r) =
               [k \in 1..(m + 0 + Len(r.kept)) |-> IF k <= m THEN Above ELSE IF k <= m + 0 THEN T[k - m]
                                                ELSE r.kept[k - m - 0]]
        BY <3>1, <3>2 DEF Together
      <3>4. Together(u, S, q) =
               [k \in 1..(m + 0 + Len(r.kept)) |-> IF k <= m THEN Above ELSE IF k <= m + 0 THEN S[k - m]
                                                ELSE r.kept[k - m - 0]]
        BY <2>2, <3>1, <3>2 DEF Together
      <3> QED
        BY <1>1, <2>3, <3>3, <3>4
    <2>4. CASE Len(S) > 0 /\ v = u /\ T = SubSeq(S, 1, Len(S) - 1)
      <3>1. Len(T) = Len(S) - 1 /\ \A k \in 1..(Len(S) - 1) : T[k] = S[k]
        BY <2>4, WithoutLast
      <3>2. UpsOf(v, T, r) = UpsOf(u, S, q) /\ NamesOf(T, r) = NamesOf(S, q)
            /\ UpsOf(u, S, q) \in Nat /\ NamesOf(S, q) \in Nat /\ NamesOf(S, q) <= Len(S) - 1
        BY <2>2, <2>4, <3>1 DEF UpsOf, NamesOf, Read
      <3>3. PICK m \in Nat : m = UpsOf(u, S, q)
        BY <3>2
      <3>4. PICK n \in Nat : n = NamesOf(S, q)
        BY <3>2
      <3>5. ASSUME NEW k \in Nat, k > m, k <= m + n PROVE T[k - m] = S[k - m]
        <4>1. k - m \in 1..(Len(S) - 1)
          BY <3>2, <3>4, <3>5
        <4> QED
          BY <3>1, <4>1
      <3>6. PICK l : l = Len(r.kept) /\ l = Len(q.kept)
        BY <2>2
      <3>7. Together(v, T, r) =
               [k \in 1..(m + n + l) |-> IF k <= m THEN Above ELSE IF k <= m + n THEN T[k - m]
                                        ELSE r.kept[k - m - n]]
        BY <3>2, <3>3, <3>4, <3>6 DEF Together
      <3>8. Together(u, S, q) =
               [k \in 1..(m + n + l) |-> IF k <= m THEN Above ELSE IF k <= m + n THEN S[k - m]
                                        ELSE r.kept[k - m - n]]
        BY <2>2, <3>2, <3>3, <3>4, <3>6 DEF Together
      <3>9. ASSUME NEW k \in 1..(m + n + l)
            PROVE  (IF k <= m THEN Above ELSE IF k <= m + n THEN T[k - m] ELSE r.kept[k - m - n])
                     = (IF k <= m THEN Above ELSE IF k <= m + n THEN S[k - m] ELSE r.kept[k - m - n])
        <4>1. k \in Nat
          BY <3>6 DEF Read
        <4>2. k > m /\ k <= m + n => T[k - m] = S[k - m]
          BY <4>1, <3>5
        <4> QED
          BY <4>1, <4>2
      <3> QED
        BY <1>1, <3>7, <3>8, <3>9
    <2> QED
      BY <1>4, <2>3, <2>4, Specials DEF Turns
  <1>5. CASE x \in Ordinary
    <2>1. v = u /\ T = Append(S, x)
      BY <1>5, Specials DEF Turns
    <2>2. Len(T) = Len(S) + 1 /\ T[Len(S) + 1] = x /\ \A k \in 1..Len(S) : T[k] = S[k]
      BY <1>5, <2>1
    <2>3. CASE r.up > 0
      <3>1. q = [r EXCEPT !.up = @ - 1]
        BY <1>1, <1>5, <2>3, Specials DEF ReadName
      <3>2. q.up = r.up - 1 /\ q.kept = r.kept /\ r.up \in Nat
        BY <3>1 DEF Read
      <3>3. UpsOf(v, T, r) = UpsOf(u, S, q) /\ NamesOf(T, r) = NamesOf(S, q)
            /\ UpsOf(u, S, q) \in Nat /\ NamesOf(S, q) \in Nat /\ NamesOf(S, q) <= Len(S)
        BY <2>1, <2>2, <2>3, <3>2, SMTT(30) DEF UpsOf, NamesOf
      <3>4. PICK m \in Nat : m = UpsOf(u, S, q)
        BY <3>3
      <3>5. PICK n \in Nat : n = NamesOf(S, q)
        BY <3>3
      <3>6. ASSUME NEW k \in Nat, k > m, k <= m + n PROVE T[k - m] = S[k - m]
        <4>1. k - m \in 1..Len(S)
          BY <3>3, <3>5, <3>6
        <4> QED
          BY <2>2, <4>1
      <3>7. PICK l : l = Len(r.kept) /\ l = Len(q.kept)
        BY <3>2
      <3>8. Together(v, T, r) =
               [k \in 1..(m + n + l) |-> IF k <= m THEN Above ELSE IF k <= m + n THEN T[k - m]
                                        ELSE r.kept[k - m - n]]
        BY <3>3, <3>4, <3>5, <3>7 DEF Together
      <3>9. Together(u, S, q) =
               [k \in 1..(m + n + l) |-> IF k <= m THEN Above ELSE IF k <= m + n THEN S[k - m]
                                        ELSE r.kept[k - m - n]]
        BY <3>2, <3>3, <3>4, <3>5, <3>7 DEF Together
      <3>10. ASSUME NEW k \in 1..(m + n + l)
            PROVE  (IF k <= m THEN Above ELSE IF k <= m + n THEN T[k - m] ELSE r.kept[k - m - n])
                     = (IF k <= m THEN Above ELSE IF k <= m + n THEN S[k - m] ELSE r.kept[k - m - n])
        <4>1. k \in Nat
          BY <3>7 DEF Read
        <4>2. k > m /\ k <= m + n => T[k - m] = S[k - m]
          BY <4>1, <3>6
        <4> QED
          BY <4>1, <4>2
      <3> QED
        BY <1>1, <3>8, <3>9, <3>10
    <2>4. CASE r.up = 0
      <3>1. q = [r EXCEPT !.kept = <<x>> \o @]
        BY <1>1, <1>5, <2>4, Specials DEF ReadName
      <3>2. q.up = 0 /\ q.kept = <<x>> \o r.kept /\ r.kept \in Seq(Ordinary)
        BY <2>4, <3>1 DEF Read
      <3>3. PICK l \in Nat : l = Len(r.kept)
        BY <3>2
      <3>4. Len(q.kept) = l + 1 /\ q.kept[1] = x /\ \A k \in 1..l : q.kept[k + 1] = r.kept[k]
        BY <1>5, <3>2, <3>3
      <3>5. PICK n \in Nat : n = Len(S)
        OBVIOUS
      <3>6. UpsOf(v, T, r) = u /\ NamesOf(T, r) = n + 1 /\ UpsOf(u, S, q) = u /\ NamesOf(S, q) = n
        BY <2>1, <2>2, <2>4, <3>2, <3>5 DEF UpsOf, NamesOf
      <3>7. Together(v, T, r) =
               [k \in 1..(u + (n + 1) + l) |-> IF k <= u THEN Above ELSE IF k <= u + (n + 1) THEN T[k - u]
                                               ELSE r.kept[k - u - (n + 1)]]
        BY <3>3, <3>6 DEF Together
      <3>8. Together(u, S, q) =
               [k \in 1..(u + n + (l + 1)) |-> IF k <= u THEN Above ELSE IF k <= u + n THEN S[k - u]
                                               ELSE q.kept[k - u - n]]
        BY <3>4, <3>6 DEF Together
      <3>9. ASSUME NEW k \in 1..(u + n + (l + 1)), k > u
            PROVE  (IF k <= u + (n + 1) THEN T[k - u] ELSE r.kept[k - u - (n + 1)])
                     = (IF k <= u + n THEN S[k - u] ELSE q.kept[k - u - n])
        <4>1. CASE k <= u + n
          <5>1. k - u \in 1..n /\ k <= u + (n + 1)
            BY <3>9, <4>1
          <5> QED
            BY <2>2, <3>5, <4>1, <5>1
        <4>2. CASE k = u + n + 1
          <5>1. k - u = n + 1 /\ k - u - n = 1 /\ k <= u + (n + 1) /\ ~(k <= u + n)
            BY <4>2
          <5> QED
            BY <2>2, <3>4, <3>5, <5>1
        <4>3. CASE k > u + n + 1
          <5>1. k - u - (n + 1) \in 1..l /\ (k - u - (n + 1)) + 1 = k - u - n
                /\ ~(k <= u + (n + 1)) /\ ~(k <= u + n)
            BY <3>9, <4>3
          <5> QED
            BY <3>4, <5>1
        <4> QED
          BY <4>1, <4>2, <4>3
      <3>10. u + (n + 1) + l = u + n + (l + 1)
        OBVIOUS
      <3>11. PICK f, g : /\ f = [k \in 1..(u + n + (l + 1)) |->
                                   IF k <= u THEN Above ELSE IF k <= u + (n + 1) THEN T[k - u]
                                   ELSE r.kept[k - u - (n + 1)]]
                         /\ g = [k \in 1..(u + n + (l + 1)) |->
                                   IF k <= u THEN Above ELSE IF k <= u + n THEN S[k - u]
                                   ELSE q.kept[k - u - n]]
        OBVIOUS
      <3>12. ASSUME NEW k \in 1..(u + n + (l + 1)) PROVE f[k] = g[k]
        <4>1. CASE k <= u
          BY <3>11, <4>1
        <4>2. CASE ~(k <= u)
          <5>1. k > u
            BY <4>2
          <5> QED
            BY <3>9, <3>11, <4>2, <5>1
        <4> QED
          BY <4>1, <4>2
      <3>13. f = g
        BY ONLY <3>11, <3>12
      <3>14. Together(v, T, r) = f /\ Together(u, S, q) = g
        BY ONLY <3>7, <3>8, <3>10, <3>11
      <3> QED
        BY ONLY <1>1, <3>13, <3>14
    <2> QED
      BY <2>3, <2>4 DEF Read
  <1> QED
    BY <1>3, <1>4, <1>5, Specials

\* The names doNormalizePath has kept: a first "." stays, a first empty name does until a
\* ".." takes its place; behind it are the ".." and the ordinary names.
Lead(first, u) == IF first = Here \/ (first = NoName /\ u = 0) THEN 1 ELSE 0

Shape(K, first, u, S) ==
    /\ K \in Seq(AnyName) /\ u \in Nat /\ S \in Seq(Ordinary)
    /\ Len(K) = Lead(first, u) + u + Len(S)
    /\ \A k \in 1..Len(K) : K[k] = IF k <= Lead(first, u) THEN first
                                   ELSE IF k <= Lead(first, u) + u THEN Above
                                   ELSE S[k - Lead(first, u) - u]

LEMMA AppendFacts ==
    ASSUME NEW A, NEW S \in Seq(A), NEW x \in A
    PROVE  /\ Append(S, x) \in Seq(A) /\ Len(Append(S, x)) = Len(S) + 1
           /\ Append(S, x)[Len(S) + 1] = x /\ \A k \in 1..Len(S) : Append(S, x)[k] = S[k]
           /\ Len(S) \in Nat
  OBVIOUS

\* One turn keeps the shape.
LEMMA ShapeTurn ==
    ASSUME NEW K, NEW first \in AnyName, NEW u, NEW S, Shape(K, first, u, S), NEW x \in AnyName,
           NEW v, NEW T, Turns(u, S, x, v, T), NEW i, NEW n, i # 1, ~(x = NoName /\ i = n)
    PROVE  Shape(Filter(K, x, i, n), first, v, T)
  <1>1. PICK d : d = Lead(first, u)
    OBVIOUS
  <1>2. d \in {0, 1} /\ (d = 1 <=> first = Here \/ (first = NoName /\ u = 0))
    BY <1>1 DEF Lead
  <1>3. /\ K \in Seq(AnyName) /\ u \in Nat /\ S \in Seq(Ordinary) /\ Len(S) \in Nat
        /\ Len(K) = d + u + Len(S)
        /\ \A k \in 1..Len(K) :
              K[k] = IF k <= d THEN first ELSE IF k <= d + u THEN Above ELSE S[k - d - u]
    BY <1>1 DEF Shape
  <1>8. /\ x = NoName /\ i # n => Filter(K, x, i, n) = K
        /\ x = Here => Filter(K, x, i, n) = K
        /\ x = Above /\ Len(K) > 0 => Filter(K, x, i, n) = DotDot(K)
        /\ x = Above /\ ~(Len(K) > 0) => Filter(K, x, i, n) = Append(K, x)
        /\ x \notin {NoName, Here, Above} => Filter(K, x, i, n) = Append(K, x)
    <2>1. FilterForms(K, x, i, n)
      BY FilterLater
    <2> QED
      BY <2>1, Zenon DEF FilterForms
  <1>9. /\ K[Len(K)] = NoName => DotDot(K) = Append(SubSeq(K, 1, Len(K) - 1), Above)
        /\ K[Len(K)] \notin {NoName, Here, Above} => DotDot(K) = SubSeq(K, 1, Len(K) - 1)
        /\ K[Len(K)] \in {Here, Above} => DotDot(K) = Append(K, Above)
    <2>1. DotDotForms(K)
      BY DotDotTurn
    <2> QED
      BY <2>1, Zenon DEF DotDotForms
  <1>4. CASE x \in {NoName, Here}
    <2>1. Filter(K, x, i, n) = K /\ v = u /\ T = S
      BY <1>4, <1>8, Specials DEF Turns
    <2> QED
      BY <2>1
  <1>5. CASE x \in Ordinary
    <2>1. Filter(K, x, i, n) = Append(K, x) /\ v = u /\ T = Append(S, x)
      BY <1>5, <1>8, Specials DEF Turns
    <2>2. PICK L : L = Append(K, x)
      OBVIOUS
    <2>3. PICK m \in Nat : m = Len(S)
      BY <1>3
    <2>4. /\ L \in Seq(AnyName) /\ Len(L) = d + u + m + 1 /\ L[d + u + m + 1] = x
          /\ \A k \in 1..(d + u + m) : L[k] = K[k]
      BY <1>3, <2>2, <2>3, AppendFacts
    <2>5. /\ T \in Seq(Ordinary) /\ Len(T) = m + 1 /\ T[m + 1] = x /\ \A k \in 1..m : T[k] = S[k]
      BY <1>3, <1>5, <2>1, <2>3, AppendFacts
    <2>6. ASSUME NEW k \in 1..Len(L)
          PROVE  L[k] = IF k <= d THEN first ELSE IF k <= d + u THEN Above ELSE T[k - d - u]
      <3>1. k \in Nat /\ k >= 1 /\ k <= d + u + m + 1
        BY <2>4
      <3>2. CASE k = d + u + m + 1
        <4>1. ~(k <= d) /\ ~(k <= d + u) /\ k - d - u = m + 1
          BY <1>2, <1>3, <3>2
        <4> QED
          BY <2>4, <2>5, <3>2, <4>1
      <3>3. CASE k # d + u + m + 1
        <4>1. k \in 1..(d + u + m)
          <5>1. d + u + m \in Nat
            BY <1>2, <1>3
          <5> QED
            BY ONLY <3>1, <3>3, <5>1
        <4>2. L[k] = IF k <= d THEN first ELSE IF k <= d + u THEN Above ELSE S[k - d - u]
          BY <1>3, <2>3, <2>4, <4>1
        <4>3. k > d + u => k - d - u \in 1..m
          BY <1>2, <1>3, <4>1
        <4>4. k > d + u => S[k - d - u] = T[k - d - u]
          BY <2>5, <4>3
        <4>5. ~(k <= d + u) => k > d + u
          BY <1>2, <1>3, <3>1
        <4> QED
          BY <4>2, <4>4, <4>5
      <3> QED
        BY <3>2, <3>3
    <2>7. Len(L) = d + u + Len(T)
      BY <1>2, <1>3, <2>4, <2>5
    <2>8. Shape(L, first, u, T)
      BY <1>1, <1>3, <2>4, <2>5, <2>6, <2>7 DEF Shape
    <2> QED
      BY <2>1, <2>2, <2>8
  <1>6. CASE x = Above /\ Len(S) > 0 /\ v = u /\ T = SubSeq(S, 1, Len(S) - 1)
    <2>1. PICK m \in Nat : m = Len(S) - 1
      BY <1>3, <1>6
    <2>2. Len(K) = d + u + m + 1 /\ Len(K) > 0 /\ Len(K) - 1 = d + u + m /\ Len(S) = m + 1
      BY <1>2, <1>3, <2>1
    <2>3. K[Len(K)] = S[m + 1] /\ S[m + 1] \in Ordinary
      <3>1. ~(Len(K) <= d) /\ ~(Len(K) <= d + u) /\ Len(K) - d - u = m + 1 /\ Len(K) \in 1..Len(K)
        BY <1>2, <1>3, <2>2
      <3>2. m + 1 \in 1..Len(S)
        BY <2>2
      <3> QED
        BY <1>3, <3>1, <3>2
    <2>4. PICK L : L = SubSeq(K, 1, Len(K) - 1)
      OBVIOUS
    <2>5. Filter(K, x, i, n) = L
      BY <1>6, <2>2, <2>3, <2>4, <1>8, <1>9, Specials
    <2>6. L \in Seq(AnyName) /\ Len(L) = d + u + m /\ \A k \in 1..(d + u + m) : L[k] = K[k]
      BY <1>3, <2>2, <2>4, WithoutLast
    <2>7. T \in Seq(Ordinary) /\ Len(T) = m /\ \A k \in 1..m : T[k] = S[k]
      BY <1>3, <1>6, <2>1, <2>2, WithoutLast
    <2>8. ASSUME NEW k \in 1..Len(L)
          PROVE  L[k] = IF k <= d THEN first ELSE IF k <= d + u THEN Above ELSE T[k - d - u]
      <3>1. k \in 1..(d + u + m) /\ k \in 1..Len(K)
        BY <1>2, <1>3, <2>2, <2>6
      <3>2. L[k] = IF k <= d THEN first ELSE IF k <= d + u THEN Above ELSE S[k - d - u]
        BY <1>3, <2>6, <3>1
      <3>3. ~(k <= d + u) => k - d - u \in 1..m
        BY <1>2, <1>3, <3>1
      <3>4. ~(k <= d + u) => S[k - d - u] = T[k - d - u]
        BY <2>7, <3>3
      <3> QED
        BY <3>2, <3>4
    <2>9. Shape(L, first, u, T)
      BY <1>1, <1>3, <2>6, <2>7, <2>8 DEF Shape
    <2> QED
      BY <1>6, <2>5, <2>9
  <1>7. CASE x = Above /\ Len(S) = 0 /\ v = u + 1 /\ T = S
    <2>1. Len(K) = d + u /\ \A k \in 1..(d + u) : K[k] = IF k <= d THEN first ELSE Above
      BY <1>2, <1>3, <1>7
    <2>2. CASE d = 1 /\ first = NoName
      <3>1. u = 0 /\ Len(K) = 1 /\ K[1] = NoName
        <4>1. u = 0
          BY <1>2, <2>2, Specials
        <4> QED
          BY <2>1, <2>2, <4>1
      <3>2. Filter(K, x, i, n) = DotDot(K)
        BY <1>7, <3>1, <1>8
      <3>3. PICK E : E = SubSeq(K, 1, Len(K) - 1)
        OBVIOUS
      <3>4. DotDot(K) = Append(E, Above)
        BY <3>1, <3>3, <1>9
      <3>5. E \in Seq(AnyName) /\ Len(E) = 0
        BY <1>3, <3>1, <3>3, WithoutLast
      <3>6. PICK L : L = Append(E, Above)
        OBVIOUS
      <3>7. L \in Seq(AnyName) /\ Len(L) = 1 /\ L[1] = Above
        <4>1. L \in Seq(AnyName) /\ Len(L) = Len(E) + 1 /\ L[Len(E) + 1] = Above
          BY <3>5, <3>6, AppendFacts, Specials
        <4> QED
          BY <3>5, <4>1
      <3>8. Lead(first, v) = 0
        BY <1>7, <2>2, <3>1, Specials DEF Lead
      <3>9. Shape(L, first, v, T)
        BY <1>3, <1>7, <3>1, <3>7, <3>8 DEF Shape
      <3> QED
        BY <3>2, <3>4, <3>6, <3>9
    <2>3. CASE ~(d = 1 /\ first = NoName)
      <3>1. Filter(K, x, i, n) = Append(K, Above)
        <4>1. CASE Len(K) > 0
          <5>1. K[Len(K)] \in {Here, Above}
            <6>1. Len(K) \in 1..(d + u)
              BY <1>2, <1>3, <2>1, <4>1
            <6>2. K[Len(K)] = IF Len(K) <= d THEN first ELSE Above
              BY <2>1, <6>1
            <6>3. Len(K) <= d => first = Here
              BY <1>2, <2>1, <2>3, <4>1
            <6> QED
              BY <6>2, <6>3
          <5> QED
            BY <1>7, <4>1, <5>1, <1>8, <1>9
        <4>2. CASE ~(Len(K) > 0)
          BY <1>7, <4>2, <1>8
        <4> QED
          BY <4>1, <4>2
      <3>2. PICK L : L = Append(K, Above)
        OBVIOUS
      <3>3. /\ L \in Seq(AnyName) /\ Len(L) = d + u + 1 /\ L[d + u + 1] = Above
            /\ \A k \in 1..(d + u) : L[k] = K[k]
        BY <1>3, <2>1, <3>2, AppendFacts, Specials
      <3>4. Lead(first, v) = d
        <4>1. v # 0
          BY <1>3, <1>7
        <4>2. first = Here <=> d = 1
          BY <1>2, <2>3, Specials
        <4> QED
          BY <1>2, <4>1, <4>2 DEF Lead
      <3>5. ASSUME NEW k \in 1..Len(L)
            PROVE  L[k] = IF k <= d THEN first ELSE IF k <= d + v THEN Above ELSE T[k - d - v]
        <4>1. k \in 1..(d + u + 1) /\ k <= d + v
          BY <1>2, <1>3, <1>7, <3>3
        <4>2. CASE k = d + u + 1
          <5>1. ~(k <= d)
            BY <1>2, <1>3, <4>2
          <5> QED
            BY <3>3, <4>1, <4>2, <5>1
        <4>3. CASE k # d + u + 1
          <5>1. k \in 1..(d + u)
            BY <1>2, <1>3, <4>1, <4>3
          <5> QED
            BY <2>1, <3>3, <4>1, <5>1
        <4> QED
          BY <4>2, <4>3
      <3>6. Len(L) = d + v + Len(T)
        BY <1>2, <1>3, <1>7, <3>3
      <3>7. Shape(L, first, v, T)
        BY <1>3, <1>7, <3>3, <3>4, <3>5, <3>6 DEF Shape
      <3> QED
        BY <3>1, <3>2, <3>7
    <2> QED
      BY <2>2, <2>3
  <1> QED
    BY <1>3, <1>4, <1>5, <1>6, <1>7, Specials DEF Turns

-----------------------------------------------------------------------------
(* The loops are functions that exist *)

LEMMA FilterType ==
    ASSUME NEW K \in Seq(AnyName), NEW x \in AnyName, NEW i \in Nat \ {0}, NEW n, i = 1 => K = <<>>
    PROVE  Filter(K, x, i, n) \in Seq(AnyName)
  <1>1. Append(K, x) \in Seq(AnyName) /\ Append(K, Above) \in Seq(AnyName)
    BY AppendFacts, Specials
  <1>2. Len(K) > 0 => DotDot(K) \in Seq(AnyName)
    <2>1. ASSUME Len(K) > 0
          PROVE  SubSeq(K, 1, Len(K) - 1) \in Seq(AnyName)
                 /\ Append(SubSeq(K, 1, Len(K) - 1), Above) \in Seq(AnyName)
      BY <2>1, WithoutLast, AppendFacts, Specials
    <2>2. DotDotForms(K)
      BY DotDotTurn
    <2> QED
      BY <1>1, <2>1, <2>2 DEF DotDotForms
  <1>3. CASE i = 1
    <2>1. Filter(K, x, 1, n) = Append(K, x)
      BY <1>3, FilterFirst
    <2> QED
      BY <1>1, <1>3, <2>1
  <1>4. CASE i # 1
    <2>1. FilterForms(K, x, i, n)
      BY <1>4, FilterLater
    <2> QED
      BY <1>1, <1>2, <2>1 DEF FilterForms
  <1> QED
    BY <1>3, <1>4

\* What doNormalizePath keeps of the first i names.
Keeps(f, names) ==
    /\ f[0] = <<>> /\ \A i \in 0..Len(names) : f[i] \in Seq(AnyName)
    /\ \A i \in 1..Len(names) : f[i] = Filter(f[i - 1], names[i], i, Len(names))

LEMMA KeepsExists ==
    ASSUME NEW names \in Seq(AnyName)
    PROVE  \E f : Keeps(f, names) /\ doNormalizePath(names) = f[Len(names)]
  <1>1. PICK n \in Nat : n = Len(names)
    OBVIOUS
  <1>2. PICK A : A = Seq(AnyName)
    OBVIOUS
  <1>3. PICK a \in A : a = <<>>
    BY <1>2, EmptySeq
  <1>4. PICK H : H = [x \in (1..n) \X A |-> Filter(IF x[1] = 1 THEN a ELSE x[2], names[x[1]], x[1], n)]
    OBVIOUS
  <1>5. ASSUME NEW i \in 1..n, NEW b \in A
        PROVE  H[<<i, b>>] \in A /\ H[<<i, b>>] = Filter(IF i = 1 THEN a ELSE b, names[i], i, n)
    <2>1. PICK c : c = IF i = 1 THEN a ELSE b
      OBVIOUS
    <2>2. c \in Seq(AnyName) /\ (i = 1 => c = <<>>) /\ names[i] \in AnyName /\ i \in Nat \ {0}
      BY <1>1, <1>2, <1>3, <2>1
    <2>3. Filter(c, names[i], i, n) \in A
      BY <1>2, <2>2, FilterType
    <2>4. H[<<i, b>>] = Filter(c, names[i], i, n)
      BY <1>4, <2>1
    <2> QED
      BY <2>1, <2>3, <2>4
  <1>6. PICK f : Follows(f, H, n, A, a)
    <2>1. StaysIn(H, n, A)
      BY <1>5 DEF StaysIn
    <2> QED
      BY ONLY <2>1, n \in Nat, a \in A, RecursionExists
  <1>7. ASSUME NEW i \in 1..n PROVE f[i] = Filter(f[i - 1], names[i], i, n)
    <2>1. i - 1 \in 0..n /\ (i = 1 => i - 1 = 0)
      OBVIOUS
    <2>2. PICK b \in A : b = f[i - 1]
      BY <1>6, <2>1 DEF Follows
    <2>3. f[i] = H[<<i, b>>]
      BY <1>6, <2>2 DEF Follows
    <2>4. i = 1 => b = a
      BY <1>6, <2>1, <2>2 DEF Follows
    <2> QED
      BY <1>5, <2>2, <2>3, <2>4
  <1>8. PICK g : g = [i \in 0..n |-> f[i]]
    OBVIOUS
  <1>9. ASSUME NEW i \in 0..n
        PROVE  f[i] = IF i = 0 THEN <<>> ELSE Filter(g[i - 1], names[i], i, n)
    <2>1. CASE i = 0
      BY <1>3, <1>6, <2>1 DEF Follows
    <2>2. CASE i # 0
      <3>1. i \in 1..n /\ i - 1 \in 0..n
        BY <2>2
      <3> QED
        BY <1>7, <1>8, <2>2, <3>1
    <2> QED
      BY <2>1, <2>2
  <1> DEFINE Turn(t) == t = [i \in 0..Len(names) |->
                          IF i = 0 THEN <<>> ELSE Filter(t[i - 1], names[i], i, Len(names))]
             kept == CHOOSE t : Turn(t)
  <1>10. Turn(g)
    BY <1>1, <1>8, <1>9
  <1>11. Turn(kept)
    <2> HIDE DEF Turn
    <2> QED
      BY <1>10
  <1>12. doNormalizePath(names) = kept[n]
    BY <1>1 DEF doNormalizePath
  <1> HIDE DEF kept
  <1>13. PICK k : k = kept
    OBVIOUS
  <1>14. k = [i \in 0..n |-> IF i = 0 THEN <<>> ELSE Filter(k[i - 1], names[i], i, n)]
    BY <1>1, <1>11, <1>13
  <1>15. k[0] = <<>> /\ \A i \in 1..n : k[i] = Filter(k[i - 1], names[i], i, n)
    <2>1. 0 \in 0..n
      OBVIOUS
    <2>2. k[0] = <<>>
      BY <1>14, <2>1
    <2>3. ASSUME NEW i \in 1..n PROVE k[i] = Filter(k[i - 1], names[i], i, n)
      <3>1. i \in 0..n /\ i # 0
        OBVIOUS
      <3> QED
        BY <1>14, <3>1
    <2> QED
      BY <2>2, <2>3
  <1>16. \A i \in Nat : i <= n => k[i] \in Seq(AnyName)
    <2> DEFINE T == {i \in Nat : i <= n => k[i] \in Seq(AnyName)}
    <2>1. 0 \in T
      BY <1>2, <1>3, <1>15
    <2>2. ASSUME NEW i \in Nat, i \in T PROVE i + 1 \in T
      <3>1. CASE i + 1 <= n
        <4>1. i + 1 \in 1..n /\ (i + 1) - 1 = i /\ i + 1 \in Nat \ {0} /\ (i + 1 = 1 => i = 0)
          BY <3>1
        <4>2. k[i] \in Seq(AnyName) /\ names[i + 1] \in AnyName
          BY <1>1, <2>2, <3>1, <4>1
        <4>3. i + 1 = 1 => k[i] = <<>>
          BY <1>15, <4>1
        <4>4. Filter(k[i], names[i + 1], i + 1, n) \in Seq(AnyName)
          BY <4>1, <4>2, <4>3, FilterType
        <4>5. k[i + 1] = Filter(k[i], names[i + 1], i + 1, n)
          BY <1>15, <4>1
        <4> QED
          BY <4>4, <4>5
      <3>2. CASE ~(i + 1 <= n)
        BY <3>2
      <3> QED
        BY <3>1, <3>2
    <2> HIDE DEF T
    <2>3. Nat \subseteq T
      BY <2>1, <2>2, AllNumbers
    <2> QED
      BY <2>3 DEF T
  <1>17. Keeps(k, names)
    <2>1. \A i \in 0..n : k[i] \in Seq(AnyName)
      BY <1>16
    <2> QED
      BY <1>1, <1>15, <2>1 DEF Keeps
  <1> QED
    BY <1>1, <1>12, <1>13, <1>17

\* The names addFile has not skipped of the first i.
Walks(w, K) ==
    /\ w[0] = <<>>
    /\ \A i \in 1..Len(K) : w[i] = IF K[i] = NoName THEN w[i - 1] ELSE Append(w[i - 1], K[i])

\* addFile returns at once.
Nothing(names) == names \in {<<>>, <<NoName, NoName>>}

LEMMA WalksExists ==
    ASSUME NEW names, NEW K, K = doNormalizePath(names), K \in Seq(AnyName)
    PROVE  \E w : /\ Walks(w, K) /\ (~Nothing(names) => SplitSegments(names) = w[Len(K)])
                  /\ (Nothing(names) => SplitSegments(names) = <<>>)
  <1>1. PICK n \in Nat : n = Len(K)
    OBVIOUS
  <1>2. PICK A : A = Seq(AnyName)
    OBVIOUS
  <1>3. PICK a \in A : a = <<>>
    BY <1>2, EmptySeq
  <1>4. PICK H : H = [x \in (1..n) \X A |-> IF K[x[1]] = NoName THEN x[2] ELSE Append(x[2], K[x[1]])]
    OBVIOUS
  <1>5. ASSUME NEW i \in 1..n, NEW b \in A
        PROVE  H[<<i, b>>] \in A /\ H[<<i, b>>] = IF K[i] = NoName THEN b ELSE Append(b, K[i])
    <2>1. Append(b, K[i]) \in A
      BY <1>1, <1>2, AppendFacts
    <2> QED
      BY <1>4, <2>1
  <1>6. PICK f : Follows(f, H, n, A, a)
    <2>1. StaysIn(H, n, A)
      BY <1>5 DEF StaysIn
    <2> QED
      BY ONLY <2>1, n \in Nat, a \in A, RecursionExists
  <1>7. ASSUME NEW i \in 1..n
        PROVE  f[i] = IF K[i] = NoName THEN f[i - 1] ELSE Append(f[i - 1], K[i])
    <2>1. i - 1 \in 0..n
      OBVIOUS
    <2>2. PICK b \in A : b = f[i - 1]
      BY <1>6, <2>1 DEF Follows
    <2>3. f[i] = H[<<i, b>>]
      BY <1>6, <2>2 DEF Follows
    <2> QED
      BY <1>5, <2>2, <2>3
  <1>8. PICK g : g = [i \in 0..n |-> f[i]]
    OBVIOUS
  <1>9. ASSUME NEW i \in 0..n
        PROVE  f[i] = IF i = 0 THEN <<>>
                      ELSE IF K[i] = NoName THEN g[i - 1] ELSE Append(g[i - 1], K[i])
    <2>1. CASE i = 0
      BY <1>3, <1>6, <2>1 DEF Follows
    <2>2. CASE i # 0
      <3>1. i \in 1..n /\ i - 1 \in 0..n
        BY <2>2
      <3> QED
        BY <1>7, <1>8, <2>2, <3>1
    <2> QED
      BY <2>1, <2>2
  <1> DEFINE Turn(t, L) == t = [i \in 0..Len(L) |->
                             IF i = 0 THEN <<>>
                             ELSE IF L[i] = NoName THEN t[i - 1] ELSE Append(t[i - 1], L[i])]
             walked(L) == CHOOSE t : Turn(t, L)
  <1>10. Turn(g, K)
    BY <1>1, <1>8, <1>9
  <1>11. Turn(walked(K), K)
    <2> HIDE DEF Turn
    <2> QED
      BY <1>10
  <1>12. SplitSegments(names) = IF Nothing(names) THEN <<>> ELSE walked(K)[Len(K)]
    <2>1. SplitSegments(names) = IF Nothing(names) THEN <<>>
                                 ELSE walked(doNormalizePath(names))[Len(doNormalizePath(names))]
      BY Zenon DEF SplitSegments, Nothing, NoName
    <2> HIDE DEF walked
    <2> QED
      BY <2>1
  <1> HIDE DEF walked
  <1>13. PICK k : k = walked(K)
    OBVIOUS
  <1>14. k = [i \in 0..n |-> IF i = 0 THEN <<>>
                             ELSE IF K[i] = NoName THEN k[i - 1] ELSE Append(k[i - 1], K[i])]
    BY <1>1, <1>11, <1>13
  <1>15. Walks(k, K)
    <2>1. 0 \in 0..n
      OBVIOUS
    <2>2. k[0] = <<>>
      BY <1>14, <2>1
    <2>3. ASSUME NEW i \in 1..n
          PROVE  k[i] = IF K[i] = NoName THEN k[i - 1] ELSE Append(k[i - 1], K[i])
      <3>1. i \in 0..n /\ i # 0
        OBVIOUS
      <3> QED
        BY <1>14, <3>1
    <2> QED
      BY <1>1, <2>2, <2>3 DEF Walks
  <1> QED
    BY <1>12, <1>13, <1>15

\* How Resolve reads the names from the right, down to position m.
ReadsNames(f, names, m) ==
    /\ f[Len(names) + 1] = [kept |-> <<>>, up |-> 0]
    /\ \A i \in m..Len(names) : f[i] = ReadName(names[i], f[i + 1])

LEMMA ResolveReads ==
    ASSUME NEW names \in Seq(AnyName)
    PROVE  \E f : ReadsNames(f, names, 1) /\ Resolve(names) = Dots(f[1].up) \o f[1].kept
  <1>1. PICK n \in Nat : n = Len(names)
    OBVIOUS
  <1>2. PICK A : A = Read
    OBVIOUS
  <1>3. PICK a \in A : a = [kept |-> <<>>, up |-> 0]
    BY <1>2, EmptySeq DEF Read
  <1>4. PICK H : H = [x \in (1..n) \X A |-> ReadName(names[n + 1 - x[1]], x[2])]
    OBVIOUS
  <1>5. ASSUME NEW i \in 1..n, NEW b \in A
        PROVE  H[<<i, b>>] \in A /\ H[<<i, b>>] = ReadName(names[n + 1 - i], b)
    <2>1. n + 1 - i \in 1..n
      OBVIOUS
    <2>2. names[n + 1 - i] \in AnyName
      BY <1>1, <2>1
    <2>3. ReadName(names[n + 1 - i], b) \in A
      BY <1>2, <2>2, ReadType
    <2> QED
      BY <1>4, <2>3
  <1>6. PICK f : Follows(f, H, n, A, a)
    <2>1. StaysIn(H, n, A)
      BY <1>5 DEF StaysIn
    <2> QED
      BY ONLY <2>1, n \in Nat, a \in A, RecursionExists
  <1>7. PICK g : g = [i \in 1..(n + 1) |-> f[n + 1 - i]]
    OBVIOUS
  <1>8. ASSUME NEW i \in 1..(n + 1)
        PROVE  f[n + 1 - i] = IF i = n + 1 THEN [kept |-> <<>>, up |-> 0] ELSE ReadName(names[i], g[i + 1])
    <2>1. CASE i = n + 1
      <3>1. n + 1 - i = 0
        BY <2>1
      <3> QED
        BY <1>3, <1>6, <2>1, <3>1 DEF Follows
    <2>2. CASE i # n + 1
      <3>1. PICK j : j = n + 1 - i
        OBVIOUS
      <3>2. j \in 1..n /\ j - 1 \in 0..n /\ n + 1 - j = i /\ n + 1 - (i + 1) = j - 1 /\ i + 1 \in 1..(n + 1)
        BY <2>2, <3>1
      <3>3. PICK b \in A : b = f[j - 1]
        BY <1>6, <3>2 DEF Follows
      <3>4. f[j] = H[<<j, b>>]
        BY <1>6, <3>2, <3>3 DEF Follows
      <3>5. f[j] = ReadName(names[i], b)
        BY <1>5, <3>2, <3>4
      <3>6. g[i + 1] = b
        BY <1>7, <3>2, <3>3
      <3> QED
        BY <2>2, <3>1, <3>5, <3>6
    <2> QED
      BY <2>1, <2>2
  <1> DEFINE Turn(t) == t = [i \in 1..(Len(names) + 1) |->
                          IF i = Len(names) + 1 THEN [kept |-> <<>>, up |-> 0]
                          ELSE ReadName(names[i], t[i + 1])]
             from == CHOOSE t : Turn(t)
  <1>9. Turn(g)
    BY <1>1, <1>7, <1>8
  <1>10. Turn(from)
    <2> HIDE DEF Turn
    <2> QED
      BY <1>9
  <1>11. Resolve(names) = Dots(from[1].up) \o from[1].kept
    BY Zenon DEF Resolve, ReadName, NoName, Here, Above
  <1> HIDE DEF from
  <1>12. PICK k : k = from
    OBVIOUS
  <1>13. k = [i \in 1..(n + 1) |-> IF i = n + 1 THEN [kept |-> <<>>, up |-> 0]
                                   ELSE ReadName(names[i], k[i + 1])]
    BY <1>1, <1>10, <1>12
  <1>14. ReadsNames(k, names, 1)
    <2>1. n + 1 \in 1..(n + 1)
      OBVIOUS
    <2>2. k[n + 1] = [kept |-> <<>>, up |-> 0]
      BY <1>13, <2>1
    <2>3. ASSUME NEW i \in 1..n PROVE k[i] = ReadName(names[i], k[i + 1])
      <3>1. i \in 1..(n + 1) /\ i # n + 1
        OBVIOUS
      <3> QED
        BY <1>13, <3>1
    <2> QED
      BY <1>1, <2>2, <2>3 DEF ReadsNames
  <1> QED
    BY <1>11, <1>12, <1>14

LEMMA ReadsType ==
    ASSUME NEW names \in Seq(AnyName), NEW f, NEW m \in Nat \ {0}, ReadsNames(f, names, m)
    PROVE  \A i \in m..(Len(names) + 1) : f[i] \in Read
  <1>1. PICK n \in Nat : n = Len(names)
    OBVIOUS
  <1> DEFINE T == {j \in Nat : n + 1 - j >= m => f[n + 1 - j] \in Read}
  <1>2. 0 \in T
    <2>1. n + 1 - 0 = n + 1
      OBVIOUS
    <2>2. f[n + 1] = [kept |-> <<>>, up |-> 0]
      BY <1>1 DEF ReadsNames
    <2>3. [kept |-> <<>>, up |-> 0] \in Read
      BY EmptySeq DEF Read
    <2> QED
      BY <2>1, <2>2, <2>3
  <1>3. ASSUME NEW j \in Nat, j \in T PROVE j + 1 \in T
    <2>1. CASE n + 1 - (j + 1) >= m
      <3>1. PICK i : i = n + 1 - (j + 1)
        OBVIOUS
      <3>2. i \in m..n /\ i \in 1..n /\ i + 1 = n + 1 - j /\ n + 1 - j >= m
        BY <2>1, <3>1
      <3>3. f[i + 1] \in Read /\ names[i] \in AnyName
        BY <1>1, <1>3, <3>2
      <3>4. f[i] = ReadName(names[i], f[i + 1])
        BY <1>1, <3>2 DEF ReadsNames
      <3> QED
        BY <3>1, <3>3, <3>4, ReadType
    <2>2. CASE ~(n + 1 - (j + 1) >= m)
      BY <2>2
    <2> QED
      BY <2>1, <2>2
  <1>4. Nat \subseteq T
    <2> HIDE DEF T
    <2> QED
      BY <1>2, <1>3, AllNumbers
  <1>5. ASSUME NEW i \in m..(n + 1) PROVE f[i] \in Read
    <2>1. PICK j : j = n + 1 - i
      OBVIOUS
    <2>2. j \in Nat /\ n + 1 - j = i /\ n + 1 - j >= m
      BY <2>1
    <2> QED
      BY <1>4, <2>2
  <1> QED
    BY <1>1, <1>5

LEMMA TurnsExist ==
    ASSUME NEW u \in Nat, NEW S \in Seq(Ordinary), NEW x \in AnyName
    PROVE  \E v \in Nat : \E T \in Seq(Ordinary) : Turns(u, S, x, v, T)
  <1>1. CASE x \in {NoName, Here}
    BY <1>1 DEF Turns
  <1>2. CASE x = Above /\ Len(S) = 0
    <2>1. u + 1 \in Nat
      OBVIOUS
    <2> QED
      BY <1>2, <2>1 DEF Turns
  <1>3. CASE x = Above /\ Len(S) > 0
    <2>1. SubSeq(S, 1, Len(S) - 1) \in Seq(Ordinary)
      BY <1>3, WithoutLast
    <2> QED
      BY <1>3, <2>1 DEF Turns
  <1>4. CASE x \in Ordinary
    <2>1. Append(S, x) \in Seq(Ordinary)
      BY <1>4, AppendFacts
    <2> QED
      BY <1>4, <2>1 DEF Turns
  <1>5. Len(S) = 0 \/ Len(S) > 0
    OBVIOUS
  <1> QED
    BY <1>1, <1>2, <1>3, <1>4, <1>5, Specials

\* The first name is kept whatever it is.
LEMMA FirstShape ==
    ASSUME NEW x \in AnyName, NEW E, E = <<>>
    PROVE  \E v \in Nat : \E T \in Seq(Ordinary) :
              Turns(0, E, x, v, T) /\ Shape(Append(E, x), x, v, T)
  <1>1. E \in Seq(Ordinary) /\ E \in Seq(AnyName) /\ Len(E) = 0 /\ 0 \in Nat
    BY EmptySeq
  <1>2. PICK K : K = Append(E, x)
    OBVIOUS
  <1>3. K \in Seq(AnyName) /\ Len(K) = 1 /\ K[1] = x
    <2>1. K \in Seq(AnyName) /\ Len(K) = Len(E) + 1 /\ K[Len(E) + 1] = x
      BY <1>1, <1>2, AppendFacts
    <2> QED
      BY <1>1, <2>1
  <1>4. PICK v \in Nat, T \in Seq(Ordinary) : Turns(0, E, x, v, T)
    BY <1>1, TurnsExist
  <1>5. CASE x \in {NoName, Here}
    <2>1. v = 0 /\ T = E
      BY <1>4, <1>5, Specials DEF Turns
    <2>2. Lead(x, v) = 1
      BY <1>5, <2>1 DEF Lead
    <2>3. Shape(K, x, v, T)
      BY <1>1, <1>3, <2>1, <2>2 DEF Shape
    <2> QED
      BY <1>2, <1>4, <2>3
  <1>6. CASE x = Above
    <2>1. v = 1 /\ T = E
      BY <1>1, <1>4, <1>6, Specials DEF Turns
    <2>2. Lead(x, v) = 0
      BY <1>6, Specials DEF Lead
    <2>3. Shape(K, x, v, T)
      BY <1>1, <1>3, <1>6, <2>1, <2>2 DEF Shape
    <2> QED
      BY <1>2, <1>4, <2>3
  <1>7. CASE x \in Ordinary
    <2>1. v = 0 /\ T = Append(E, x)
      BY <1>4, <1>7, Specials DEF Turns
    <2>2. Lead(x, v) = 0
      BY <1>7, Specials DEF Lead
    <2>3. T \in Seq(Ordinary) /\ Len(T) = 1 /\ T[1] = x
      BY <1>2, <1>3, <2>1
    <2>4. Shape(K, x, v, T)
      BY <1>3, <2>1, <2>2, <2>3 DEF Shape
    <2> QED
      BY <1>2, <1>4, <2>4
  <1> QED
    BY <1>5, <1>6, <1>7, Specials

\* A path that both sides make, when Resolve has read all of it.
LEMMA TogetherResolve ==
    ASSUME NEW r \in Read, NEW E, E = <<>>
    PROVE  Together(0, E, r) = Dots(r.up) \o r.kept
  <1>1. PICK u \in Nat : u = r.up
    BY DEF Read
  <1>2. PICK s \in Seq(Ordinary) : s = r.kept
    BY DEF Read
  <1>3. Len(E) = 0
    OBVIOUS
  <1>4. UpsOf(0, E, r) = u /\ NamesOf(E, r) = 0
    BY <1>1, <1>3 DEF UpsOf, NamesOf
  <1>5. Together(0, E, r) =
           [k \in 1..(u + 0 + Len(s)) |-> IF k <= u THEN Above ELSE IF k <= u + 0 THEN E[k - u]
                                          ELSE s[k - u - 0]]
    BY <1>2, <1>4 DEF Together
  <1>6. PICK d : d = Dots(u)
    OBVIOUS
  <1>7. d \in Seq(AnyName) /\ Len(d) = u /\ \A k \in 1..u : d[k] = Above
    <2>1. d = [k \in 1..u |-> Above]
      BY <1>6, Zenon DEF Dots, Above
    <2> QED
      BY <2>1, Specials
  <1>8. s \in Seq(AnyName)
    BY DEF Ordinary
  <1>9. /\ d \o s \in Seq(AnyName) /\ Len(d \o s) = Len(d) + Len(s)
        /\ \A k \in 1..Len(d) : (d \o s)[k] = d[k]
        /\ \A k \in 1..Len(s) : (d \o s)[Len(d) + k] = s[k]
    <2>1. d \in Seq(AnyName)
      BY <1>7
    <2> QED
      BY ONLY <2>1, <1>8, ConcatFacts
  <1>10. PICK p : p = d \o s
    OBVIOUS
  <1>11. PICK l \in Nat : l = Len(s)
    OBVIOUS
  <1>12. /\ p \in Seq(AnyName) /\ Len(p) = u + l /\ \A k \in 1..u : p[k] = Above
         /\ \A k \in 1..l : p[u + k] = s[k]
    BY <1>7, <1>9, <1>10, <1>11
  <1>13. ASSUME NEW k \in 1..(u + l)
         PROVE  p[k] = IF k <= u THEN Above ELSE IF k <= u + 0 THEN E[k - u] ELSE s[k - u - 0]
    <2>1. CASE k <= u
      BY <1>12, <2>1
    <2>2. CASE ~(k <= u)
      <3>1. k - u \in 1..l /\ u + (k - u) = k /\ k - u - 0 = k - u /\ ~(k <= u + 0)
        BY <2>2
      <3> QED
        BY <1>12, <2>2, <3>1
    <2> QED
      BY <2>1, <2>2
  <1>14. p = [k \in 1..(u + l) |-> IF k <= u THEN Above ELSE IF k <= u + 0 THEN E[k - u]
                                   ELSE s[k - u - 0]]
    BY <1>12, <1>13
  <1>15. u + 0 + Len(s) = u + l
    BY <1>11
  <1> QED
    BY <1>1, <1>2, <1>5, <1>6, <1>10, <1>14, <1>15

-----------------------------------------------------------------------------
(* The whole path *)

\* How Resolve starts: it does not read a first ".".
Start(names) == IF names[1] = Here THEN 2 ELSE 1

\* What is kept of the first i names, and what Resolve has read behind them.
Meets(K, names, f, i) ==
    \E u \in Nat : \E S \in Seq(Ordinary) :
        /\ Shape(K, names[1], u, S)
        /\ Together(u, S, f[i + 1]) = Together(0, <<>>, f[Start(names)])

LEMMA Meeting ==
    ASSUME NEW names \in Seq(AnyName), Len(names) > 0, NEW K, Keeps(K, names),
           NEW f, ReadsNames(f, names, Start(names))
    PROVE  \A i \in 1..Len(names) :
               ~(names[i] = NoName /\ i = Len(names) /\ i # 1) => Meets(K[i], names, f, i)
  <1>1. PICK n \in Nat : n = Len(names)
    OBVIOUS
  <1>2. PICK first : first = names[1]
    OBVIOUS
  <1>3. first \in AnyName /\ \A i \in 1..n : names[i] \in AnyName
    BY <1>1, <1>2
  <1>4. PICK m \in {1, 2} : m = Start(names)
    BY DEF Start
  <1>5. m = 2 <=> first = Here
    BY <1>2, <1>4 DEF Start
  <1>6. \A i \in m..(n + 1) : f[i] \in Read
    BY <1>1, <1>4, ReadsType
  <1>7. \A i \in m..n : f[i] = ReadName(names[i], f[i + 1])
    BY <1>1, <1>4 DEF ReadsNames
  <1>8. PICK E : E = <<>>
    OBVIOUS
  <1> DEFINE P(i) == ~(names[i] = NoName /\ i = n /\ i # 1) => Meets(K[i], names, f, i)
             T == {j \in Nat : j + 1 <= n => P(j + 1)}
  <1>9. Meets(K[1], names, f, 1)
    <2>1. PICK v \in Nat, S \in Seq(Ordinary) : Turns(0, E, first, v, S) /\ Shape(Append(E, first), first, v, S)
      BY <1>3, <1>8, FirstShape
    <2>2. K[1] = Append(E, first)
      <3>1. 1 \in 1..n /\ 1 - 1 = 0
        BY <1>1
      <3>2. K[1] = Filter(K[0], first, 1, n) /\ K[0] = E
        BY <1>1, <1>2, <1>8, <3>1 DEF Keeps
      <3> QED
        BY <1>8, <3>2, FilterFirst
    <2>3. 2 \in m..(n + 1) /\ 1 + 1 = 2
      BY <1>1
    <2>4. f[2] \in Read
      BY <1>6, <2>3
    <2>5. Together(v, S, f[2]) = Together(0, E, ReadName(first, f[2]))
      <3>1. E \in Seq(Ordinary) /\ 0 \in Nat
        BY <1>8, EmptySeq
      <3> QED
        BY <1>3, <2>1, <2>4, <3>1, TogetherTurn
    <2>6. ReadName(first, f[2]) = f[m]
      <3>1. CASE m = 1
        <4>1. 1 \in m..n
          BY <1>1, <3>1
        <4> QED
          BY <1>2, <1>7, <2>3, <3>1, <4>1
      <3>2. CASE m = 2
        BY <1>5, <3>2, Specials DEF ReadName
      <3> QED
        BY <3>1, <3>2
    <2> QED
      BY <1>2, <1>4, <1>8, <2>1, <2>2, <2>3, <2>5, <2>6 DEF Meets
  <1>10. 0 \in T
    BY <1>9
  <1>11. ASSUME NEW j \in Nat, j \in T PROVE j + 1 \in T
    <2>1. PICK i : i = j + 1
      OBVIOUS
    <2>2. SUFFICES ASSUME i + 1 <= n, ~(names[i + 1] = NoName /\ i + 1 = n /\ i + 1 # 1)
                   PROVE  Meets(K[i + 1], names, f, i + 1)
      BY <2>1
    <2>3. i \in 1..n /\ i + 1 \in 1..n /\ i + 1 \in m..n /\ (i + 1) + 1 \in m..(n + 1) /\ (i + 1) - 1 = i
          /\ i # n /\ i + 1 # 1
      BY <2>1, <2>2
    <2>4. Meets(K[i], names, f, i)
      BY <1>11, <2>1, <2>3
    <2>5. PICK u \in Nat, S \in Seq(Ordinary) :
             /\ Shape(K[i], first, u, S)
             /\ Together(u, S, f[i + 1]) = Together(0, <<>>, f[m])
      BY <1>2, <1>4, <2>4 DEF Meets
    <2>6. PICK x : x = names[i + 1]
      OBVIOUS
    <2>7. x \in AnyName /\ ~(x = NoName /\ i + 1 = n) /\ f[(i + 1) + 1] \in Read
          /\ f[i + 1] = ReadName(x, f[(i + 1) + 1])
      BY <1>3, <1>6, <1>7, <2>2, <2>3, <2>6
    <2>8. PICK v \in Nat, V \in Seq(Ordinary) : Turns(u, S, x, v, V)
      BY <2>7, TurnsExist
    <2>9. K[i + 1] = Filter(K[i], x, i + 1, n)
      BY <1>1, <2>3, <2>6 DEF Keeps
    <2>10. Shape(K[i + 1], first, v, V)
      BY ONLY <1>3, <2>3, <2>5, <2>7, <2>8, <2>9, ShapeTurn
    <2>11. Together(v, V, f[(i + 1) + 1]) = Together(u, S, f[i + 1])
      BY ONLY u \in Nat, S \in Seq(Ordinary), <2>7, <2>8, TogetherTurn
    <2> QED
      BY <1>2, <1>4, <2>5, <2>10, <2>11 DEF Meets
  <1>12. Nat \subseteq T
    <2> HIDE DEF T
    <2> QED
      BY <1>10, <1>11, AllNumbers
  <1>13. ASSUME NEW i \in 1..n PROVE P(i)
    <2>1. i - 1 \in Nat /\ (i - 1) + 1 = i
      OBVIOUS
    <2> QED
      BY <1>12, <2>1
  <1> QED
    BY <1>1, <1>13

\* The path of u times ".." and the names S.
Final(u, S) == [k \in 1..(u + Len(S)) |-> IF k <= u THEN Above ELSE S[k - u]]

LEMMA FinalTogether ==
    ASSUME NEW u \in Nat, NEW S \in Seq(Ordinary), NEW r, r = [kept |-> <<>>, up |-> 0]
    PROVE  Together(u, S, r) = Final(u, S)
  <1>1. PICK E : E = <<>>
    OBVIOUS
  <1>2. Len(E) = 0 /\ r.kept = E /\ r.up = 0
    BY <1>1
  <1>3. UpsOf(u, S, r) = u /\ NamesOf(S, r) = Len(S)
    BY <1>2 DEF UpsOf, NamesOf
  <1>4. Together(u, S, r) =
           [k \in 1..(u + Len(S) + 0) |-> IF k <= u THEN Above ELSE IF k <= u + Len(S) THEN S[k - u]
                                          ELSE E[k - u - Len(S)]]
    BY <1>2, <1>3 DEF Together
  <1> QED
    BY <1>4 DEF Final

\* At the end doNormalizePath may keep an empty name behind the path.
LEMMA EndShape ==
    ASSUME NEW names \in Seq(AnyName), Len(names) > 0, NEW K, Keeps(K, names),
           NEW f, ReadsNames(f, names, Start(names))
    PROVE  \E u \in Nat : \E S \in Seq(Ordinary) : \E L :
              /\ Shape(L, names[1], u, S) /\ Final(u, S) = Together(0, <<>>, f[Start(names)])
              /\ K[Len(names)] \in {L, Append(L, NoName)}
  <1>1. PICK n \in Nat : n = Len(names)
    OBVIOUS
  <1>2. PICK r : r = Together(0, <<>>, f[Start(names)])
    OBVIOUS
  <1>3. f[n + 1] = [kept |-> <<>>, up |-> 0]
    BY <1>1 DEF ReadsNames
  <1>4. CASE ~(names[n] = NoName /\ n # 1)
    <2>1. Meets(K[n], names, f, n)
      <3>1. n \in 1..n
        BY <1>1
      <3> QED
        BY <1>1, <1>4, <3>1, Meeting
    <2>2. PICK u \in Nat, S \in Seq(Ordinary) : Shape(K[n], names[1], u, S) /\ Together(u, S, f[n + 1]) = r
      BY <1>2, <2>1 DEF Meets
    <2>3. Final(u, S) = r
      BY <1>3, <2>2, FinalTogether
    <2> QED
      BY <1>1, <1>2, <2>2, <2>3
  <1>5. CASE names[n] = NoName /\ n # 1
    <2>1. n - 1 \in 1..n /\ n \in 1..n /\ n - 1 # n /\ (n - 1) + 1 = n /\ n \in Start(names)..n
      BY <1>1, <1>5 DEF Start
    <2>2. Meets(K[n - 1], names, f, n - 1)
      BY <1>1, <2>1, Meeting
    <2>3. PICK u \in Nat, S \in Seq(Ordinary) : Shape(K[n - 1], names[1], u, S) /\ Together(u, S, f[n]) = r
      BY <1>2, <2>1, <2>2 DEF Meets
    <2>4. f[n] = f[n + 1]
      <3>1. f[n] = ReadName(names[n], f[n + 1])
        BY <1>1, <2>1 DEF ReadsNames
      <3> QED
        BY <1>5, <3>1, Specials DEF ReadName
    <2>5. Final(u, S) = r
      BY <1>3, <2>3, <2>4, FinalTogether
    <2>6. K[n] = Append(K[n - 1], NoName)
      <3>1. K[n] = Filter(K[n - 1], names[n], n, n)
        BY <1>1, <2>1 DEF Keeps
      <3>2. FilterForms(K[n - 1], names[n], n, n)
        BY <1>5, FilterLater
      <3> QED
        BY <1>5, <3>1, <3>2 DEF FilterForms
    <2> QED
      BY <1>1, <1>2, <2>3, <2>5, <2>6
  <1> QED
    BY <1>4, <1>5

\* addFile walks the path, behind a first "." if there is one.
EndsAs(K, L) == K \in {L, Append(L, NoName)}

WalkedAs(v, first, u, S) ==
    v = IF first = Here THEN <<Here>> \o Final(u, S) ELSE Final(u, S)

LEMMA WalkShape ==
    ASSUME NEW L, NEW first \in AnyName, NEW u \in Nat, NEW S \in Seq(Ordinary), Shape(L, first, u, S),
           NEW K, EndsAs(K, L), NEW w, Walks(w, K)
    PROVE  WalkedAs(w[Len(K)], first, u, S)
  <1>1. PICK d : d = Lead(first, u)
    OBVIOUS
  <1>2. d \in {0, 1} /\ (d = 1 <=> first = Here \/ (first = NoName /\ u = 0))
    BY <1>1 DEF Lead
  <1>3. PICK s \in Nat : s = Len(S)
    OBVIOUS
  <1>4. /\ L \in Seq(AnyName) /\ Len(L) = d + u + s
        /\ \A k \in 1..(d + u + s) :
              L[k] = IF k <= d THEN first ELSE IF k <= d + u THEN Above ELSE S[k - d - u]
    BY <1>1, <1>3 DEF Shape
  <1>5. \A k \in 1..s : S[k] \in Ordinary
    BY <1>3
  <1>6. PICK l \in Nat : l = d + u + s
    BY <1>2
  <1>7. PICK z : z = IF d = 1 /\ first = NoName THEN 1 ELSE 0
    OBVIOUS
  <1>8. ASSUME NEW k \in 1..l PROVE L[k] \in AnyName /\ (L[k] = NoName <=> k <= z)
    <2>1. CASE k <= d
      <3>1. d = 1 /\ k = 1 /\ L[k] = first
        BY <1>2, <1>4, <1>6, <2>1
      <3> QED
        BY <1>7, <3>1
    <2>2. CASE ~(k <= d) /\ k <= d + u
      <3>1. L[k] = Above
        BY <1>4, <1>6, <2>2
      <3>2. ~(k <= z)
        BY <1>2, <1>7, <2>2
      <3> QED
        BY <3>1, <3>2, Specials
    <2>3. CASE ~(k <= d) /\ ~(k <= d + u)
      <3>1. L[k] = S[k - d - u]
        BY <1>4, <1>6, <2>3
      <3>2. k - d - u \in 1..s
        BY <1>2, <1>6, <2>3
      <3>3. L[k] \in Ordinary
        BY <1>5, <3>1, <3>2
      <3>4. ~(k <= z)
        BY <1>2, <1>7, <2>3
      <3> QED
        BY <3>3, <3>4, Specials DEF Ordinary
    <2> QED
      BY <2>1, <2>2, <2>3
  <1>9. Len(K) \in {l, l + 1} /\ Len(K) \in Nat /\ (\A k \in 1..l : K[k] = L[k])
        /\ (Len(K) = l + 1 => K[l + 1] = NoName)
    <2>1. CASE K = L
      <3>1. Len(K) # l + 1
        BY <1>4, <1>6, <2>1
      <3> QED
        BY <1>4, <1>6, <2>1, <3>1
    <2>2. CASE K = Append(L, NoName)
      <3>1. Len(K) = Len(L) + 1 /\ K[Len(L) + 1] = NoName /\ \A k \in 1..Len(L) : K[k] = L[k]
        BY <1>4, <2>2, AppendFacts, Specials
      <3> QED
        BY <1>4, <1>6, <3>1
    <2> QED
      BY <2>1, <2>2 DEF EndsAs
  <1>10. \A k \in 1..l : w[k] = IF k <= z THEN w[k - 1] ELSE Append(w[k - 1], L[k])
    <2>1. ASSUME NEW k \in 1..l PROVE w[k] = IF k <= z THEN w[k - 1] ELSE Append(w[k - 1], L[k])
      <3>1. k \in 1..Len(K)
        BY <1>9
      <3>2. w[k] = IF K[k] = NoName THEN w[k - 1] ELSE Append(w[k - 1], K[k])
        BY <3>1 DEF Walks
      <3> QED
        BY <1>8, <1>9, <3>2
    <2> QED
      BY <2>1
  <1>11. z \in {0, 1} /\ z <= l
    BY <1>2, <1>6, <1>7
  <1> DEFINE T == {j \in Nat : z + j <= l => w[z + j] \in Seq(AnyName) /\ Len(w[z + j]) = j
                                             /\ \A k \in 1..j : w[z + j][k] = L[z + k]}
  <1>12. 0 \in T
    <2>1. w[z] = <<>>
      <3>1. w[0] = <<>>
        BY DEF Walks
      <3>2. CASE z = 0
        BY <3>1, <3>2
      <3>3. CASE z = 1
        <4>1. 1 \in 1..l /\ 1 - 1 = 0 /\ 1 <= z
          BY <1>11, <3>3
        <4>2. w[1] = w[0]
          BY <1>10, <4>1
        <4> QED
          BY <3>1, <3>3, <4>2
      <3> QED
        BY <1>11, <3>2, <3>3
    <2>2. z + 0 = z /\ 1..0 = {}
      BY <1>11
    <2> QED
      BY <2>1, <2>2, EmptySeq
  <1>13. ASSUME NEW j \in Nat, j \in T PROVE j + 1 \in T
    <2>1. SUFFICES ASSUME z + (j + 1) <= l
                   PROVE  w[z + (j + 1)] \in Seq(AnyName) /\ Len(w[z + (j + 1)]) = j + 1
                          /\ \A k \in 1..(j + 1) : w[z + (j + 1)][k] = L[z + k]
      OBVIOUS
    <2>2. PICK i : i = z + (j + 1)
      OBVIOUS
    <2>3. i \in 1..l /\ i - 1 = z + j /\ z + j <= l /\ ~(i <= z)
      BY <1>11, <2>1, <2>2
    <2>4. PICK v : v = w[z + j]
      OBVIOUS
    <2>5. v \in Seq(AnyName) /\ Len(v) = j /\ \A k \in 1..j : v[k] = L[z + k]
      BY <1>13, <2>3, <2>4
    <2>6. w[i] = Append(v, L[i]) /\ L[i] \in AnyName
      BY <1>8, <1>10, <2>3, <2>4
    <2>7. /\ w[i] \in Seq(AnyName) /\ Len(w[i]) = j + 1 /\ w[i][j + 1] = L[i]
          /\ \A k \in 1..j : w[i][k] = v[k]
      <3>1. /\ Append(v, L[i]) \in Seq(AnyName) /\ Len(Append(v, L[i])) = Len(v) + 1
            /\ Append(v, L[i])[Len(v) + 1] = L[i]
            /\ \A k \in 1..Len(v) : Append(v, L[i])[k] = v[k]
        BY <2>5, <2>6, AppendFacts
      <3> QED
        BY <2>5, <2>6, <3>1
    <2>8. ASSUME NEW k \in 1..(j + 1) PROVE w[i][k] = L[z + k]
      <3>1. CASE k = j + 1
        BY <2>2, <2>7, <3>1
      <3>2. CASE k # j + 1
        <4>1. k \in 1..j
          BY <3>2
        <4> QED
          BY <2>5, <2>7, <4>1
      <3> QED
        BY <3>1, <3>2
    <2> QED
      BY <2>2, <2>7, <2>8
  <1>14. Nat \subseteq T
    <2> HIDE DEF T
    <2> QED
      BY <1>12, <1>13, AllNumbers
  <1>15. PICK j \in Nat : z + j = l
    <2>1. l - z \in Nat /\ z + (l - z) = l
      BY <1>11
    <2> QED
      BY <2>1
  <1>16. PICK v : v = w[l]
    OBVIOUS
  <1>17. v \in Seq(AnyName) /\ Len(v) = j /\ \A k \in 1..j : v[k] = L[z + k]
    <2>1. j \in T
      BY <1>14
    <2>2. z + j <= l
      BY <1>15
    <2> QED
      BY <1>15, <1>16, <2>1, <2>2
  <1> HIDE DEF T
  <1>18. w[Len(K)] = v
    <2>1. CASE Len(K) = l
      BY <1>16, <2>1
    <2>2. CASE Len(K) = l + 1
      <3>1. Len(K) \in 1..Len(K) /\ Len(K) - 1 = l
        BY <2>2
      <3>2. K[Len(K)] = NoName
        BY <1>9, <2>2
      <3> QED
        BY <1>16, <3>1, <3>2 DEF Walks
    <2> QED
      BY <1>9, <2>1, <2>2
  <1>19. PICK p : p = Final(u, S)
    OBVIOUS
  <1>20. /\ p \in Seq(AnyName) /\ Len(p) = u + s
         /\ \A k \in 1..(u + s) : p[k] = IF k <= u THEN Above ELSE S[k - u]
    <2>1. p = [k \in 1..(u + s) |-> IF k <= u THEN Above ELSE S[k - u]]
      BY <1>3, <1>19 DEF Final
    <2>2. ASSUME NEW k \in 1..(u + s) PROVE (IF k <= u THEN Above ELSE S[k - u]) \in AnyName
      <3>1. ~(k <= u) => k - u \in 1..s
        OBVIOUS
      <3> QED
        BY <1>5, <3>1, Specials DEF Ordinary
    <2> QED
      BY <2>1, <2>2
  <1>21. \A k \in 1..(u + s) : d + k \in 1..l /\ L[d + k] = p[k]
    <2>1. ASSUME NEW k \in 1..(u + s) PROVE d + k \in 1..l /\ L[d + k] = p[k]
      <3>1. d + k \in 1..l /\ ~(d + k <= d) /\ (d + k <= d + u <=> k <= u) /\ (d + k) - d - u = k - u
        BY <1>2, <1>6
      <3> QED
        BY <1>4, <1>6, <1>20, <3>1
    <2> QED
      BY <2>1
  <1>22. CASE first = Here
    <2>1. d = 1 /\ z = 0 /\ j = 1 + (u + s) /\ L[1] = Here
      <3>1. d = 1 /\ z = 0
        BY <1>2, <1>7, <1>22, Specials
      <3>2. 1 \in 1..(d + u + s)
        BY <3>1
      <3>3. L[1] = Here
        BY <1>4, <1>22, <3>1, <3>2
      <3> QED
        BY <1>6, <1>15, <3>1, <3>3
    <2>2. PICK dot : dot = Here
      OBVIOUS
    <2>3. dot \in AnyName
      BY <2>2, Specials
    <2>4. <<dot>> \o p \in Seq(AnyName) /\ Len(<<dot>> \o p) = 1 + (u + s) /\ (<<dot>> \o p)[1] = dot
          /\ \A k \in 1..(u + s) : (<<dot>> \o p)[1 + k] = p[k]
      BY <1>20, <2>3
    <2>5. PICK q : q = <<dot>> \o p
      OBVIOUS
    <2>6. ASSUME NEW k \in 1..(1 + (u + s)) PROVE v[k] = q[k]
      <3>1. CASE k = 1
        BY <1>17, <2>1, <2>2, <2>4, <2>5, <3>1
      <3>2. CASE k # 1
        <4>1. PICK i \in 1..(u + s) : k = 1 + i
          <5>1. k - 1 \in 1..(u + s) /\ k = 1 + (k - 1)
            BY <3>2
          <5> QED
            BY <5>1
        <4>2. v[k] = L[z + k] /\ z + k = d + i
          BY <1>17, <2>1, <4>1
        <4> QED
          BY <1>21, <2>4, <2>5, <4>1, <4>2
      <3> QED
        BY <3>1, <3>2
    <2>7. v = q
      BY <1>17, <2>1, <2>4, <2>5, <2>6, SeqEqual
    <2> QED
      BY <1>18, <1>19, <1>22, <2>2, <2>5, <2>7 DEF WalkedAs
  <1>23. CASE first # Here
    <2>1. z = d /\ j = u + s
      <3>1. z = d
        BY <1>2, <1>7, <1>23
      <3> QED
        BY <1>2, <1>6, <1>15, <3>1
    <2>2. ASSUME NEW k \in 1..(u + s) PROVE v[k] = p[k]
      BY <1>17, <1>21, <2>1
    <2>3. v = p
      BY <1>17, <1>20, <2>1, <2>2, SeqEqual
    <2> QED
      BY <1>18, <1>19, <1>23, <2>3 DEF WalkedAs
  <1> QED
    BY <1>22, <1>23 DEF WalkedAs

\* What Resolve reads of the names behind a first ".", by their positions in the path.
LEMMA TailReads ==
    ASSUME NEW names \in Seq(AnyName), Len(names) > 0, NEW g, ReadsNames(g, Tail(names), 1)
    PROVE  \E f : ReadsNames(f, names, 2) /\ f[2] = g[1]
  <1>1. PICK n \in Nat : n + 1 = Len(names)
    <2>1. Len(names) - 1 \in Nat /\ (Len(names) - 1) + 1 = Len(names)
      OBVIOUS
    <2> QED
      BY <2>1
  <1>2. PICK t : t = Tail(names)
    OBVIOUS
  <1>3. Len(t) = n /\ \A i \in 1..n : t[i] = names[i + 1]
    BY <1>1, <1>2
  <1>4. PICK f : f = [i \in 2..(n + 2) |-> g[i - 1]]
    OBVIOUS
  <1>5. f[(n + 1) + 1] = [kept |-> <<>>, up |-> 0]
    <2>1. n + 2 \in 2..(n + 2) /\ (n + 1) + 1 = n + 2 /\ (n + 2) - 1 = n + 1
      OBVIOUS
    <2>2. g[n + 1] = [kept |-> <<>>, up |-> 0]
      BY <1>2, <1>3 DEF ReadsNames
    <2> QED
      BY <1>4, <2>1, <2>2
  <1>6. ASSUME NEW i \in 2..(n + 1) PROVE f[i] = ReadName(names[i], f[i + 1])
    <2>1. PICK j : j = i - 1
      OBVIOUS
    <2>2. j \in 1..n /\ j + 1 = i /\ i \in 2..(n + 2) /\ i + 1 \in 2..(n + 2) /\ (i + 1) - 1 = j + 1
      BY <2>1
    <2>3. g[j] = ReadName(t[j], g[j + 1])
      BY <1>2, <1>3, <2>2 DEF ReadsNames
    <2>4. f[i] = g[j] /\ f[i + 1] = g[j + 1] /\ t[j] = names[i]
      BY <1>3, <1>4, <2>1, <2>2
    <2> QED
      BY <2>3, <2>4
  <1>7. ReadsNames(f, names, 2)
    BY <1>1, <1>5, <1>6 DEF ReadsNames
  <1>8. f[2] = g[1]
    <2>1. 2 \in 2..(n + 2) /\ 2 - 1 = 1
      OBVIOUS
    <2> QED
      BY <1>4, <2>1
  <1> QED
    BY <1>7, <1>8

\* What addFile walks of a path with names, when something is read from its end to position m.
LEMMA SplitResult ==
    ASSUME NEW names \in Seq(AnyName), Len(names) > 0, ~Nothing(names),
           NEW f, ReadsNames(f, names, Start(names))
    PROVE  SplitSegments(names) =
               IF names[1] = Here
               THEN <<Here>> \o (Dots(f[Start(names)].up) \o f[Start(names)].kept)
               ELSE Dots(f[Start(names)].up) \o f[Start(names)].kept
  <1>1. PICK m \in {1, 2} : m = Start(names)
    BY DEF Start
  <1>2. PICK r : r = f[m]
    OBVIOUS
  <1>3. r \in Read
    <2>1. m \in m..(Len(names) + 1) /\ m \in Nat \ {0}
      BY <1>1
    <2>2. ReadsNames(f, names, m)
      BY <1>1
    <2> QED
      BY <1>2, <2>1, <2>2, ReadsType
  <1>4. PICK K : Keeps(K, names) /\ doNormalizePath(names) = K[Len(names)]
    BY KeepsExists
  <1>0. PICK u \in Nat, S \in Seq(Ordinary) : \E L :
           /\ Shape(L, names[1], u, S) /\ Final(u, S) = Together(0, <<>>, f[Start(names)])
           /\ K[Len(names)] \in {L, Append(L, NoName)}
    BY <1>4, EndShape
  <1>5. PICK L :
           /\ Shape(L, names[1], u, S) /\ Final(u, S) = Together(0, <<>>, f[Start(names)])
           /\ K[Len(names)] \in {L, Append(L, NoName)}
    BY <1>0
  <1>6. PICK k : k = K[Len(names)]
    OBVIOUS
  <1>7. k \in Seq(AnyName)
    <2>1. Len(names) \in 0..Len(names)
      OBVIOUS
    <2> QED
      BY <1>4, <1>6, <2>1 DEF Keeps
  <1>8. PICK w : Walks(w, k) /\ SplitSegments(names) = w[Len(k)]
    BY <1>4, <1>6, <1>7, WalksExists
  <1>9. PICK first \in AnyName : first = names[1]
    OBVIOUS
  <1>10. w[Len(k)] = IF first = Here THEN <<Here>> \o Final(u, S) ELSE Final(u, S)
    <2>1. Shape(L, first, u, S) /\ Walks(w, k)
      BY <1>5, <1>6, <1>8, <1>9
    <2>2. EndsAs(k, L)
      BY <1>5, <1>6 DEF EndsAs
    <2>3. WalkedAs(w[Len(k)], first, u, S)
      BY ONLY <2>1, <2>2, first \in AnyName, u \in Nat, S \in Seq(Ordinary), WalkShape
    <2> QED
      BY <2>3 DEF WalkedAs
  <1>11. PICK E : E = <<>>
    OBVIOUS
  <1>12. Final(u, S) = Dots(r.up) \o r.kept
    <2>1. Together(0, E, r) = Dots(r.up) \o r.kept
      BY <1>3, <1>11, TogetherResolve
    <2> QED
      BY <1>1, <1>2, <1>5, <1>11, <2>1
  <1> QED
    BY <1>1, <1>2, <1>8, <1>9, <1>10, <1>12

\* Nothing is left of "" and "/".
LEMMA NothingResolves ==
    ASSUME NEW names \in Seq(AnyName), Nothing(names)
    PROVE  Resolve(names) = <<>> /\ (names # <<>> => names[1] # Here)
  <1>1. PICK f : ReadsNames(f, names, 1) /\ Resolve(names) = Dots(f[1].up) \o f[1].kept
    BY ResolveReads
  <1>2. PICK E : E = <<>>
    OBVIOUS
  <1>3. PICK r : r = [kept |-> E, up |-> 0]
    OBVIOUS
  <1>4. r \in Read /\ r.kept = E /\ r.up = 0
    BY <1>2, <1>3, EmptySeq DEF Read
  <1>5. f[1] = r
    <2>1. CASE names = <<>>
      <3>1. Len(names) + 1 = 1
        BY <2>1
      <3> QED
        BY <1>1, <1>2, <1>3, <3>1 DEF ReadsNames
    <2>2. CASE names = <<NoName, NoName>>
      <3>1. Len(names) = 2 /\ names[1] = NoName /\ names[2] = NoName
        <4>1. PICK e : e = NoName
          OBVIOUS
        <4>2. names = <<e, e>>
          BY <2>2, <4>1
        <4> QED
          BY <4>1, <4>2
      <3>2. 1 \in 1..2 /\ 2 \in 1..2 /\ 1 + 1 = 2 /\ 2 + 1 = 3
        OBVIOUS
      <3>3. f[3] = r /\ f[2] = ReadName(NoName, f[3]) /\ f[1] = ReadName(NoName, f[2])
        BY <1>1, <1>2, <1>3, <3>1, <3>2 DEF ReadsNames
      <3>4. \A q : ReadName(NoName, q) = q
        BY Specials DEF ReadName
      <3> QED
        BY <3>3, <3>4
    <2> QED
      BY <2>1, <2>2 DEF Nothing
  <1>6. Together(0, E, r) = Dots(f[1].up) \o f[1].kept
    BY <1>2, <1>4, <1>5, TogetherResolve
  <1>7. Together(0, E, r) = E
    <2>1. Len(E) = 0
      BY <1>2
    <2>2. UpsOf(0, E, r) = 0 /\ NamesOf(E, r) = 0
      BY <1>4, <2>1 DEF UpsOf, NamesOf
    <2>3. DOMAIN Together(0, E, r) = {}
      BY <1>4, <2>1, <2>2 DEF Together
    <2>4. Together(0, E, r) = [k \in {} |-> Above]
      BY <2>3 DEF Together
    <2>5. E = [k \in {} |-> Above]
      BY <1>2
    <2> QED
      BY <2>4, <2>5
  <1>8. names # <<>> => names[1] # Here
    <2>1. PICK e : e = NoName
      OBVIOUS
    <2>2. names # <<>> => names = <<e, e>>
      BY <2>1 DEF Nothing
    <2> QED
      BY <2>1, <2>2, Specials
  <1> QED
    BY <1>1, <1>2, <1>6, <1>7, <1>8

\* The segments of any path.
LEMMA SegmentsResolve ==
    ASSUME NEW names \in Seq(AnyName)
    PROVE  SplitSegments(names) =
               IF names # <<>> /\ names[1] = Here THEN <<Here>> \o Resolve(Tail(names))
               ELSE Resolve(names)
  <1>1. CASE Nothing(names)
    <2>1. Resolve(names) = <<>> /\ (names # <<>> => names[1] # Here)
      BY <1>1, NothingResolves
    <2>2. SplitSegments(names) = <<>>
      <3>1. PICK K : Keeps(K, names) /\ doNormalizePath(names) = K[Len(names)]
        BY KeepsExists
      <3>2. Len(names) \in 0..Len(names)
        OBVIOUS
      <3>3. doNormalizePath(names) \in Seq(AnyName)
        BY <3>1, <3>2 DEF Keeps
      <3> QED
        BY <1>1, <3>3, WalksExists
    <2> QED
      BY <2>1, <2>2
  <1>2. CASE ~Nothing(names) /\ names[1] = Here
    <2>1. names # <<>> /\ Len(names) > 0
      <3>1. names # <<>>
        BY <1>2 DEF Nothing
      <3> QED
        BY <3>1
    <2>2. Tail(names) \in Seq(AnyName)
      BY <2>1
    <2>3. PICK g : ReadsNames(g, Tail(names), 1) /\ Resolve(Tail(names)) = Dots(g[1].up) \o g[1].kept
      BY <2>2, ResolveReads
    <2>4. PICK f : ReadsNames(f, names, 2) /\ f[2] = g[1]
      BY <2>1, <2>3, TailReads
    <2>5. Start(names) = 2
      BY <1>2 DEF Start
    <2>6. SplitSegments(names) = <<Here>> \o (Dots(f[2].up) \o f[2].kept)
      BY <1>2, <2>1, <2>4, <2>5, SplitResult
    <2> QED
      BY <1>2, <2>1, <2>3, <2>4, <2>6
  <1>3. CASE ~Nothing(names) /\ names[1] # Here
    <2>1. Len(names) > 0
      <3>1. names # <<>>
        BY <1>3 DEF Nothing
      <3> QED
        BY <3>1
    <2>2. PICK f : ReadsNames(f, names, 1) /\ Resolve(names) = Dots(f[1].up) \o f[1].kept
      BY ResolveReads
    <2>3. Start(names) = 1
      BY <1>3 DEF Start
    <2> QED
      BY <1>3, <2>1, <2>2, <2>3, SplitResult
  <1> QED
    BY <1>1, <1>2, <1>3

\* What Resolve returns is u times ".." and ordinary names.
LEMMA FinalDots ==
    ASSUME NEW u \in Nat, NEW S \in Seq(Ordinary)
    PROVE  /\ Dots(u) \o S = Final(u, S)
           /\ Final(u, S) \in Seq(AnyName) /\ Len(Final(u, S)) = u + Len(S)
           /\ \A k \in 1..u : Final(u, S)[k] = Above
           /\ \A k \in 1..Len(S) : Final(u, S)[u + k] = S[k]
  <1>1. PICK s \in Nat : s = Len(S)
    OBVIOUS
  <1>2. PICK p : p = Final(u, S)
    OBVIOUS
  <1>3. p = [k \in 1..(u + s) |-> IF k <= u THEN Above ELSE S[k - u]]
    BY <1>1, <1>2 DEF Final
  <1>4. ASSUME NEW k \in 1..(u + s) PROVE (IF k <= u THEN Above ELSE S[k - u]) \in AnyName
    <2>1. ~(k <= u) => k - u \in 1..s
      OBVIOUS
    <2>2. ~(k <= u) => S[k - u] \in Ordinary
      BY <1>1, <2>1
    <2> QED
      BY <2>2, Specials DEF Ordinary
  <1>5. p \in Seq(AnyName) /\ Len(p) = u + s
    BY <1>3, <1>4
  <1>6. ASSUME NEW k \in 1..u PROVE p[k] = Above
    <2>1. k \in 1..(u + s) /\ k <= u
      OBVIOUS
    <2> QED
      BY <1>3, <2>1
  <1>7. ASSUME NEW k \in 1..s PROVE p[u + k] = S[k]
    <2>1. u + k \in 1..(u + s) /\ ~(u + k <= u) /\ (u + k) - u = k
      OBVIOUS
    <2> QED
      BY <1>3, <2>1
  <1>8. Dots(u) \o S = p
    <2>1. PICK E : E = <<>>
      OBVIOUS
    <2>2. PICK r : r = [kept |-> S, up |-> u]
      OBVIOUS
    <2>3. r \in Read /\ r.kept = S /\ r.up = u
      BY <2>2 DEF Read
    <2>4. Together(0, E, r) = Dots(u) \o S
      BY <2>1, <2>3, TogetherResolve
    <2>5. UpsOf(0, E, r) = u /\ NamesOf(E, r) = 0
      <3>1. Len(E) = 0
        BY <2>1
      <3> QED
        BY <2>3, <3>1 DEF UpsOf, NamesOf
    <2>6. Together(0, E, r) =
             [k \in 1..(u + 0 + s) |-> IF k <= u THEN Above ELSE IF k <= u + 0 THEN E[k - u]
                                       ELSE S[k - u - 0]]
      BY <1>1, <2>3, <2>5 DEF Together
    <2>7. ASSUME NEW k \in 1..(u + s)
          PROVE  (IF k <= u THEN Above ELSE IF k <= u + 0 THEN E[k - u] ELSE S[k - u - 0])
                   = (IF k <= u THEN Above ELSE S[k - u])
      <3>1. k - u - 0 = k - u /\ u + 0 = u
        OBVIOUS
      <3> QED
        BY <3>1
    <2>8. u + 0 + s = u + s
      OBVIOUS
    <2> QED
      BY <1>3, <2>4, <2>6, <2>7, <2>8
  <1> QED
    BY <1>1, <1>2, <1>5, <1>6, <1>7, <1>8

\* The first j names of S.
Front(S, j) == [k \in 1..j |-> S[k]]

LEMMA FrontFacts ==
    ASSUME NEW A, NEW S \in Seq(A)
    PROVE  /\ Front(S, 0) = <<>> /\ Front(S, Len(S)) = S
           /\ \A j \in 0..Len(S) : Front(S, j) \in Seq(A)
           /\ \A j \in 0..(Len(S) - 1) : Front(S, j + 1) = Append(Front(S, j), S[j + 1])
  <1>1. PICK s \in Nat : s = Len(S)
    OBVIOUS
  <1>2. ASSUME NEW j \in 0..s
        PROVE  Front(S, j) \in Seq(A) /\ Len(Front(S, j)) = j /\ \A k \in 1..j : Front(S, j)[k] = S[k]
    <2>1. \A k \in 1..j : S[k] \in A
      BY <1>1
    <2> QED
      BY <2>1 DEF Front
  <1>3. Front(S, 0) = <<>>
    <2>1. 0 \in 0..s
      OBVIOUS
    <2>2. Front(S, 0) \in Seq(A) /\ Len(Front(S, 0)) = 0
      BY <1>2, <2>1
    <2> QED
      BY <2>2
  <1>4. Front(S, s) = S
    <2>1. s \in 0..s
      OBVIOUS
    <2>2. Front(S, s) \in Seq(A) /\ Len(Front(S, s)) = s /\ \A k \in 1..s : Front(S, s)[k] = S[k]
      BY <1>2, <2>1
    <2> QED
      BY <1>1, <2>2, SeqEqual
  <1>5. ASSUME NEW j \in 0..(s - 1) PROVE Front(S, j + 1) = Append(Front(S, j), S[j + 1])
    <2>1. j \in 0..s /\ j + 1 \in 0..s /\ j + 1 \in 1..s /\ j \in Nat
      OBVIOUS
    <2>2. PICK a, b : a = Front(S, j) /\ b = Front(S, j + 1)
      OBVIOUS
    <2>3. a \in Seq(A) /\ Len(a) = j /\ \A k \in 1..j : a[k] = S[k]
      BY <1>2, <2>1, <2>2
    <2>4. b \in Seq(A) /\ Len(b) = j + 1 /\ \A k \in 1..(j + 1) : b[k] = S[k]
      BY <1>2, <2>1, <2>2
    <2>5. PICK x \in A : x = S[j + 1]
      BY <1>1, <2>1
    <2>6. PICK c : c = Append(a, x)
      OBVIOUS
    <2>7. c \in Seq(A) /\ Len(c) = j + 1 /\ c[j + 1] = x /\ \A k \in 1..j : c[k] = a[k]
      <3>1. c \in Seq(A) /\ Len(c) = Len(a) + 1 /\ c[Len(a) + 1] = x /\ \A k \in 1..Len(a) : c[k] = a[k]
        BY <2>3, <2>6, AppendFacts
      <3> QED
        BY <2>3, <3>1
    <2>8. ASSUME NEW k \in 1..(j + 1) PROVE b[k] = c[k]
      <3>1. CASE k = j + 1
        BY <2>4, <2>5, <2>7, <3>1
      <3>2. CASE k # j + 1
        <4>1. k \in 1..j
          BY <3>2
        <4> QED
          BY <2>3, <2>4, <2>7, <4>1
      <3> QED
        BY <3>1, <3>2
    <2>9. b = c
      BY <2>4, <2>7, <2>8, SeqEqual
    <2> QED
      BY <2>2, <2>5, <2>6, <2>9
  <1> QED
    BY <1>1, <1>2, <1>3, <1>4, <1>5

\* A path that addFile stores resolves to itself.
LEMMA StoredResolves ==
    ASSUME NEW u \in Nat, NEW S \in Seq(Ordinary), NEW Q, Q = <<NoName>> \o Final(u, S)
    PROVE  Q \in Seq(AnyName) /\ Q # <<>> /\ Q[1] = NoName /\ Resolve(Q) = Final(u, S)
  <1>1. PICK s \in Nat : s = Len(S)
    OBVIOUS
  <1>2. PICK p : p = Final(u, S)
    OBVIOUS
  <1>3. p \in Seq(AnyName) /\ Len(p) = u + s /\ (\A k \in 1..u : p[k] = Above)
        /\ \A k \in 1..s : p[u + k] = S[k]
    BY <1>1, <1>2, FinalDots
  <1>4. PICK e \in AnyName : e = NoName
    BY Specials
  <1>5. Q = <<e>> \o p
    BY <1>2, <1>4
  <1>6. Q \in Seq(AnyName) /\ Len(Q) = 1 + (u + s) /\ Q[1] = e /\ \A k \in 1..(u + s) : Q[1 + k] = p[k]
    <2>1. PICK l \in Nat : l = u + s
      OBVIOUS
    <2>2. p \in Seq(AnyName) /\ Len(p) = l
      BY <1>3, <2>1
    <2>3. Q \in Seq(AnyName) /\ Len(Q) = 1 + l /\ Q[1] = e /\ \A k \in 1..l : Q[1 + k] = p[k]
      BY ONLY <1>5, <2>2, e \in AnyName
    <2> QED
      BY <2>1, <2>3
  <1>7. PICK g : ReadsNames(g, Q, 1) /\ Resolve(Q) = Dots(g[1].up) \o g[1].kept
    BY <1>6, ResolveReads
  <1>8. ASSUME NEW i \in 1..(1 + (u + s))
        PROVE  g[i] = ReadName(Q[i], g[i + 1]) /\ g[i] \in Read /\ g[i + 1] \in Read
    <2>1. i \in 1..Len(Q) /\ i \in 1..(Len(Q) + 1) /\ i + 1 \in 1..(Len(Q) + 1) /\ 1 \in Nat \ {0}
      BY <1>6
    <2>2. \A k \in 1..(Len(Q) + 1) : g[k] \in Read
      BY ONLY <1>6, <1>7, <2>1, ReadsType
    <2> QED
      BY <1>7, <2>1, <2>2 DEF ReadsNames
  <1>9. PICK E \in Seq(Ordinary) : E = <<>> /\ Len(E) = 0
    BY EmptySeq
  <1>10. PICK r : r = Together(0, E, g[1])
    OBVIOUS
  <1> DEFINE T == {j \in Nat : j <= u => Together(j, E, g[j + 2]) = r}
             V == {j \in Nat : j <= s => Together(u, Front(S, j), g[u + j + 2]) = r}
  <1>11. Nat \subseteq T
    <2>1. 0 \in T
      <3>1. 1 \in 1..(1 + (u + s)) /\ 1 + 1 = 2 /\ 0 + 2 = 2
        OBVIOUS
      <3>2. g[1] = ReadName(NoName, g[2])
        BY <1>4, <1>6, <1>8, <3>1
      <3>3. g[1] = g[2]
        BY <3>2, Specials DEF ReadName
      <3> QED
        BY <1>10, <3>1, <3>3
    <2>2. ASSUME NEW j \in Nat, j \in T PROVE j + 1 \in T
      <3>1. CASE j + 1 <= u
        <4>1. j + 2 \in 1..(1 + (u + s)) /\ 1 + (j + 1) = j + 2 /\ j + 1 \in 1..u /\ j + 1 \in 1..(u + s)
              /\ (j + 2) + 1 = (j + 1) + 2 /\ j <= u
          BY <3>1
        <4>2. Q[j + 2] = Above
          BY <1>3, <1>6, <4>1
        <4>3. g[j + 2] = ReadName(Above, g[(j + 1) + 2]) /\ g[(j + 1) + 2] \in Read
          BY <1>8, <4>1, <4>2
        <4>4. Turns(j, E, Above, j + 1, E)
          BY <1>9 DEF Turns
        <4>5. Together(j + 1, E, g[(j + 1) + 2]) = Together(j, E, g[j + 2])
          BY <4>3, <4>4, Specials, TogetherTurn
        <4> QED
          BY <2>2, <4>1, <4>5
      <3>2. CASE ~(j + 1 <= u)
        BY <3>2
      <3> QED
        BY <3>1, <3>2
    <2> HIDE DEF T
    <2> QED
      BY <2>1, <2>2, AllNumbers
  <1>12. Nat \subseteq V
    <2>1. 0 \in V
      <3>1. Together(u, E, g[u + 2]) = r
        BY <1>11
      <3>2. Front(S, 0) = E
        BY <1>9, FrontFacts
      <3>3. u + 0 + 2 = u + 2
        OBVIOUS
      <3> QED
        BY <3>1, <3>2, <3>3
    <2>2. ASSUME NEW j \in Nat, j \in V PROVE j + 1 \in V
      <3>1. CASE j + 1 <= s
        <4>1. PICK i : i = u + j + 2
          OBVIOUS
        <4>2. i \in 1..(1 + (u + s)) /\ 1 + (u + (j + 1)) = i /\ j + 1 \in 1..s /\ u + (j + 1) \in 1..(u + s)
              /\ i + 1 = u + (j + 1) + 2 /\ j <= s /\ j \in 0..s /\ j \in 0..(s - 1)
          BY <3>1, <4>1
        <4>3. PICK x \in Ordinary : x = S[j + 1]
          BY <1>1, <4>2
        <4>4. Q[i] = x
          <5>1. p[u + (j + 1)] = S[j + 1]
            BY <1>3, <4>2
          <5>2. Q[1 + (u + (j + 1))] = p[u + (j + 1)]
            BY <1>6, <4>2
          <5> QED
            BY <4>2, <4>3, <5>1, <5>2
        <4>5. g[i] = ReadName(x, g[i + 1]) /\ g[i + 1] \in Read
          BY <1>8, <4>2, <4>4
        <4>6. PICK a \in Seq(Ordinary) : a = Front(S, j)
          BY <1>1, <4>2, FrontFacts
        <4>7. Front(S, j + 1) = Append(a, x)
          BY <1>1, <4>2, <4>3, <4>6, FrontFacts
        <4>8. Turns(u, a, x, u, Append(a, x)) /\ x \in AnyName
          BY DEF Turns, Ordinary
        <4>9. Together(u, Append(a, x), g[i + 1]) = Together(u, a, g[i])
          BY <4>5, <4>8, TogetherTurn
        <4>10. Together(u, a, g[i]) = r
          BY <2>2, <4>1, <4>2, <4>6
        <4>11. Together(u, Front(S, j + 1), g[i + 1]) = r
          BY <4>7, <4>9, <4>10
        <4>12. Together(u, Front(S, j + 1), g[u + (j + 1) + 2]) = r
          BY <4>2, <4>11
        <4> QED
          BY <4>12
      <3>2. CASE ~(j + 1 <= s)
        BY <3>2
      <3> QED
        BY <3>1, <3>2
    <2> HIDE DEF V
    <2> QED
      BY <2>1, <2>2, AllNumbers
  <1>13. Final(u, S) = r
    <2>1. Together(u, Front(S, s), g[u + s + 2]) = r
      BY <1>12
    <2>2. Front(S, s) = S
      BY <1>1, FrontFacts
    <2>3. g[u + s + 2] = [kept |-> <<>>, up |-> 0]
      <3>1. Len(Q) + 1 = u + s + 2
        BY <1>6
      <3> QED
        BY <1>7, <3>1 DEF ReadsNames
    <2> QED
      BY <2>1, <2>2, <2>3, FinalTogether
  <1>14. r = Resolve(Q)
    <2>1. 1 \in 1..(1 + (u + s))
      OBVIOUS
    <2>2. g[1] \in Read
      BY <1>8, <2>1
    <2> QED
      BY <1>7, <1>9, <1>10, <2>2, TogetherResolve
  <1>15. Q # <<>>
    BY <1>6
  <1> QED
    BY <1>4, <1>6, <1>13, <1>14, <1>15

-----------------------------------------------------------------------------
(* The theorems about paths *)

PathInv == vNames \in Seq(AnyName)

LEMMA PathsInvariant == AllSpec => []PathInv
  <1>1. AllInit => PathInv
    BY EmptySeq DEF AllInit, PathInv
  <1>2. PathInv /\ [AllNext]_allVars => PathInv'
    <2>1. SUFFICES ASSUME PathInv, [AllNext]_allVars PROVE PathInv'
      OBVIOUS
    <2>3. CASE UNCHANGED vNames
      BY <2>1, <2>3 DEF PathInv
    <2>2. CASE AddName
      <3>1. PICK x \in AnyName : vNames' = <<NoName, NoName>> \/ vNames' = Append(vNames, x)
        BY <2>2, Zenon DEF AddName, AnyName, NoName, Here, Above
      <3>2. PICK e \in AnyName : e = NoName
        BY Specials
      <3>3. <<e, e>> \in Seq(AnyName)
        BY TwoFacts
      <3>4. Append(vNames, x) \in Seq(AnyName)
        BY <2>1, AppendFacts DEF PathInv
      <3> QED
        BY <3>1, <3>2, <3>3, <3>4 DEF PathInv
    <2> QED
      BY <2>1, <2>2, <2>3 DEF AllNext, allVars
  <1> QED
    BY <1>1, <1>2, PTL DEF AllSpec

\* Whatever names a path string has, and however many, the segments that addFile walks are the
\* names the path resolves to; only a leading "." is kept in front of them.
THEOREM PathsResolve == AllSpec => []ResolvesPath
  <1>1. PathInv => ResolvesPath
    <2>1. SUFFICES ASSUME PathInv PROVE ResolvesPath
      OBVIOUS
    <2>2. SplitSegments(vNames) =
              IF vNames # <<>> /\ vNames[1] = Here THEN <<Here>> \o Resolve(Tail(vNames))
              ELSE Resolve(vNames)
      BY <2>1, SegmentsResolve DEF PathInv
    <2> QED
      BY <2>2, Zenon DEF ResolvesPath, Here
  <1> QED
    BY <1>1, PathsInvariant, PTL

\* A path that addFile stores leads back to the same segments when it is uploaded again, unless
\* it begins with ".": no file gets a second row under another spelling.
THEOREM StoredPathsAreStable == AllSpec => []StoredPathIsStable
  <1>1. PathInv => StoredPathIsStable
    <2>1. SUFFICES ASSUME PathInv, vNames # <<>>, vNames[1] # Here
                   PROVE  SplitSegments(<<NoName>> \o SplitSegments(vNames)) = SplitSegments(vNames)
      BY Zenon DEF StoredPathIsStable, Here, NoName
    <2>2. PICK p : p = SplitSegments(vNames)
      OBVIOUS
    <2>3. p = Resolve(vNames)
      BY <2>1, <2>2, SegmentsResolve DEF PathInv
    <2>4. PICK f : ReadsNames(f, vNames, 1) /\ Resolve(vNames) = Dots(f[1].up) \o f[1].kept
      BY <2>1, ResolveReads DEF PathInv
    <2>5. f[1] \in Read
      <3>1. 1 \in Nat \ {0} /\ 1 \in 1..(Len(vNames) + 1) /\ vNames \in Seq(AnyName)
        BY <2>1 DEF PathInv
      <3> QED
        BY <2>4, <3>1, ReadsType
    <2>6. PICK u \in Nat : u = f[1].up
      BY <2>5 DEF Read
    <2>7. PICK S \in Seq(Ordinary) : S = f[1].kept
      BY <2>5 DEF Read
    <2>8. p = Final(u, S)
      BY <2>3, <2>4, <2>6, <2>7, FinalDots
    <2>9. PICK Q : Q = <<NoName>> \o p
      OBVIOUS
    <2>10. Q \in Seq(AnyName) /\ Q # <<>> /\ Q[1] = NoName /\ Resolve(Q) = p
      BY <2>8, <2>9, StoredResolves
    <2>11. SplitSegments(Q) = p
      BY <2>10, SegmentsResolve, Specials
    <2> QED
      BY <2>2, <2>9, <2>11
  <1> QED
    BY <1>1, PathsInvariant, PTL

=============================================================================

----------------------------- MODULE StaticFiles -----------------------------
(***************************************************************************)
(* One page under document_root: FileCache::Open and the static handler    *)
(* of libhv, which answer GET, HEAD and Range requests from a buffer that  *)
(* is compared with the file at most every file_stat_interval seconds,     *)
(* and a browser that asks again with If-Modified-Since.                   *)
(*                                                                         *)
(* The loop is one thread, so requests and the sweep of expired entries do *)
(* not overlap; the file system does not wait for them, and the page may   *)
(* be saved or removed between stat, open and read.  Times are seconds.    *)
(* The ETag is compared with a header "if-not-match", which no browser     *)
(* sends, and is left out; so are directories and files of more than 16 MB.*)
(***************************************************************************)
EXTENDS Naturals

CONSTANTS file_stat_interval, file_expired_time,
          Sizes,      \* sizes of the page
          MaxNow,     \* bound: the last second
          MaxSaves,   \* bound: how often the page is saved
          None        \* no file, no entry, no copy

ASSUME TimesAssumption == /\ file_stat_interval \in Nat /\ file_expired_time \in Nat
                          /\ MaxNow \in Nat /\ MaxSaves \in Nat
                          /\ file_stat_interval < file_expired_time

ASSUME SizesAssumption == Sizes \subseteq Nat /\ Sizes # {}

Stat == [mtime : Nat, size : Nat]
File == [content : Nat, size : Nat, mtime : Nat, ino : Nat]
Entry == [st : Stat, stat_time : Nat, buf : Nat, len : Nat, last_modified : Nat \cup {None}]
Copy == [content : Nat, last_modified : Nat \cup {None}]

ASSUME NoneAssumption == None \notin Nat /\ None \notin File /\ None \notin Entry /\ None \notin Copy

VARIABLES
    now,       \* time(NULL)
    sweep,     \* when the timer of RemoveExpiredFileCache fires
    disk,      \* the file, or None
    saves,     \* how often it was saved; also names contents and inodes
    fc,        \* the entry of cached_files, or None
    pc, h,     \* the running request and its local variables
    copy,      \* what the browser holds, or None
    twice,     \* history: seconds in which the page was saved more than once
    missed     \* history: modification times that were noticed but not followed
               \* by a complete read

vars == <<now, sweep, disk, saves, fc, pc, h, copy, twice, missed>>

Empty == 0               \* the content of a file of no size
Torn == MaxSaves + 1     \* bytes that are not the content of any saved file

NoRequest == [at |-> 0, modified |-> FALSE, need_read |-> FALSE, get |-> FALSE, since |-> None,
              fd |-> None]

Init ==
    /\ now = 0 /\ sweep = file_expired_time
    /\ disk = None /\ saves = 0 /\ fc = None
    /\ pc = "idle" /\ h = NoRequest /\ copy = None
    /\ twice = {} /\ missed = {}

-----------------------------------------------------------------------------
(* FileCache::Open *)

\* Mutant of is_modified: the answer is thrown away.
NotModified(st) == FALSE

\* The modification time differs; a file that is gone leaves st alone.
is_modified(st) == disk # None /\ disk.mtime # st.mtime

is_complete(entry, st) == entry.len = st.size

\* The entry is looked up and, when it was not for a while, compared with the file.
\* A page that is there and complete is answered from the buffer.
Open(get, since) ==
    LET looks == fc # None /\ now - fc.stat_time > file_stat_interval
        modified == looks /\ is_modified(fc.st)
        st == IF looks /\ disk # None THEN [mtime |-> disk.mtime, size |-> disk.size] ELSE fc.st
        need_read == get /\ (fc = None \/ modified \/ ~is_complete(fc, st)) IN
    /\ pc = "idle"
    /\ fc' = IF looks THEN [fc EXCEPT !.st = st, !.stat_time = now] ELSE fc
    /\ pc' = IF fc = None \/ modified \/ need_read THEN "open" ELSE "answer"
    /\ h' = [at |-> now, modified |-> modified, need_read |-> need_read, get |-> get,
             since |-> since, fd |-> None]
    /\ UNCHANGED <<now, sweep, disk, saves, copy, twice, missed>>

\* open(), and fstat() for a page that has no entry yet.
OpenFile ==
    /\ pc = "open" /\ disk # None
    /\ h' = [h EXCEPT !.fd = disk]
    /\ fc' = IF fc # None THEN fc
             ELSE [st |-> [mtime |-> disk.mtime, size |-> disk.size], stat_time |-> now,
                   buf |-> Empty, len |-> 0, last_modified |-> None]
    /\ pc' = "read"
    /\ UNCHANGED <<now, sweep, disk, saves, copy, twice, missed>>

\* The request noticed a modification and ends without having read the page.
Missed == missed' = IF h.modified THEN missed \cup {fc.st.mtime} ELSE missed

\* open() fails, because the page is gone or for another reason: 404.
OpenFails ==
    /\ pc = "open"
    /\ Missed
    /\ pc' = "idle" /\ h' = NoRequest
    /\ UNCHANGED <<now, sweep, disk, saves, fc, copy, twice>>

\* What st.size bytes of the open file are, when there are as many.
BytesRead == CASE fc.st.size = 0 -> Empty
               [] fc.st.size # 0 /\ h.fd.size = fc.st.size -> h.fd.content
               [] OTHER -> Torn

\* The file is read into a buffer of st.size, if the request needs it, and
\* Last-Modified is set from st.
ReadFile ==
    /\ pc = "read" /\ (h.need_read => h.fd.size >= fc.st.size)
    /\ fc' = [fc EXCEPT !.buf = IF h.need_read THEN BytesRead ELSE @,
                        !.len = IF h.need_read THEN fc.st.size ELSE @,
                        !.last_modified = fc.st.mtime]
    /\ IF h.need_read THEN UNCHANGED missed ELSE Missed
    /\ pc' = "answer"
    /\ UNCHANGED <<now, sweep, disk, saves, h, copy, twice>>

\* There are fewer bytes than st says: 404, with the buffer resized.
ReadFails ==
    /\ pc = "read" /\ h.need_read /\ h.fd.size < fc.st.size
    /\ fc' = [fc EXCEPT !.buf = Torn, !.len = fc.st.size]
    /\ Missed
    /\ pc' = "idle" /\ h' = NoRequest
    /\ UNCHANGED <<now, sweep, disk, saves, copy, twice>>

\* The timer of loop_thread.
RemoveExpiredFileCache ==
    /\ pc = "idle" /\ now = sweep
    /\ fc' = IF fc # None /\ now - fc.stat_time > file_expired_time THEN None ELSE fc
    /\ sweep' = now + file_expired_time
    /\ UNCHANGED <<now, disk, saves, pc, h, copy, twice, missed>>

-----------------------------------------------------------------------------
(* defaultStaticHandler and the browser *)

\* The page is what the browser's copy already is: 304 Not Modified.
NotModifiedAnswer == h.since # None /\ h.since = fc.last_modified

\* A GET is answered with 304 or with the buffer, which the browser keeps.
Answer ==
    /\ pc = "answer"
    /\ copy' = IF h.get /\ ~NotModifiedAnswer
                 THEN [content |-> fc.buf, last_modified |-> fc.last_modified] ELSE copy
    /\ pc' = "idle" /\ h' = NoRequest
    /\ UNCHANGED <<now, sweep, disk, saves, fc, twice, missed>>

\* The browser asks for the page, conditionally when it has a copy.
Get == Open(TRUE, IF copy = None THEN None ELSE copy.last_modified)

\* HEAD, or a GET with Range, by anybody: the buffer is not needed.
HeadOrRange == Open(FALSE, None)

-----------------------------------------------------------------------------
(* The file system and the clock *)

\* The page is saved in place or by a rename, and gets the current time; a request that has it
\* open sees the first.
Save(size, inplace) ==
    LET file == [content |-> IF size = 0 THEN Empty ELSE saves + 1, size |-> size, mtime |-> now,
                 ino |-> IF inplace /\ disk # None THEN disk.ino ELSE saves + 1] IN
    /\ saves < MaxSaves
    /\ saves' = saves + 1 /\ disk' = file
    /\ h' = IF h.fd # None /\ h.fd.ino = file.ino THEN [h EXCEPT !.fd = file] ELSE h
    /\ twice' = IF disk # None /\ disk.mtime = now THEN twice \cup {now} ELSE twice
    /\ UNCHANGED <<now, sweep, fc, pc, copy, missed>>

Remove ==
    /\ disk # None /\ disk' = None
    /\ twice' = twice \cup (IF disk.mtime = now THEN {now} ELSE {})
    /\ UNCHANGED <<now, sweep, saves, fc, pc, h, copy, missed>>

\* A second passes; the loop does not miss the sweep by a second.
Tick ==
    /\ now < sweep /\ now < MaxNow /\ now' = now + 1
    /\ UNCHANGED <<sweep, disk, saves, fc, pc, h, copy, twice, missed>>

Next == \/ Get \/ HeadOrRange \/ OpenFile \/ OpenFails \/ ReadFile \/ ReadFails \/ Answer
        \/ RemoveExpiredFileCache
        \/ \E size \in Sizes, inplace \in BOOLEAN : Save(size, inplace)
        \/ Remove \/ Tick

Spec == Init /\ [][Next]_vars

-----------------------------------------------------------------------------
(* Properties *)

\* When the request came the page had not been touched for longer than the interval.
Settled == disk # None /\ h.at > disk.mtime + file_stat_interval

Answered == pc = "answer" /\ h.get /\ pc' = "idle"

\* Once the page has been left alone for longer than the interval, every answer to the
\* browser, the page itself or Not Modified, leaves it with what is on disk, whatever
\* happened between stat, open and read; unless the page was saved twice in a second,
\* or the request that noticed the change did not get to read the page.
FreshAnswers ==
    [][Answered /\ Settled /\ disk.mtime \notin twice \cup missed
         => copy'.content = disk.content]_vars

=============================================================================

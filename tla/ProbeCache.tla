----------------------------- MODULE ProbeCache -----------------------------
(***************************************************************************)
(* src/ranger/plugins/inocache.py and vdprobe.py: what is known of media   *)
(* files, keyed by inode and valid while mtime and size stay the same.     *)
(* Each process has a memo and rows it has not saved yet; all share one    *)
(* sqlite table.  Threads of ranger and the workers that the command line  *)
(* forks look files up: they take a stat, look in the memo and the table,  *)
(* read the file, and keep what they read.  Files are written, replaced    *)
(* and renamed at the same time.                                           *)
(*                                                                         *)
(* A stamp stands for mtime and size and grows with each change of a file. *)
(* A verdict, the duration and codecs, stands for the content it was read  *)
(* from: <<inode, stamp>>.                                                 *)
(***************************************************************************)
EXTENDS Integers, FiniteSets

CONSTANTS Inode, MediaPath,
          Thread, Process,
          ProcessOf,        \* [Thread -> Process]
          Keeper,           \* [Process -> Process]: whose rows a process finds, its own
                            \* or, for a forked worker, those of the process that waits for it
          Deferring,        \* the command line and all workers: mediainfo is asked at the end
          Odd,              \* inodes of files only mediainfo can read
          FlushEvery,
          MaxStamp, MaxLookups, MaxErrors,  \* bounds on writes, lookups and failures
          Renames           \* "never", "quiet": not between a stat and its verdict, "ever"
ASSUME ProbeAssumption ==
  /\ ProcessOf \in [Thread -> Process]
  /\ Keeper \in [Process -> Process] /\ Deferring \subseteq Process
  /\ Odd \subseteq Inode
  /\ FlushEvery \in Nat /\ MaxStamp \in Nat /\ MaxLookups \in Nat /\ MaxErrors \in Nat

VARIABLES inodeAt, stampOf,  \* the files: [MediaPath -> Inode], [Inode -> Nat]
          memo,              \* vdprobe._mem in front of Store._mem, per process
          unsaved,           \* Store._new, per process
          table,             \* the table in sqlite
          thread,            \* what each thread is doing
          lookups, errors    \* counted for the bounds
probeVars == <<inodeAt, stampOf, memo, unsaved, table, thread, lookups, errors>>

NoRow   == [stamp |-> -1, verdict |-> << >>]  \* no row; as a memo _ABSENT, which fits no file
Verdict == (Inode \X Nat) \cup {<< >>}        \* << >>: None, not media or not known
Row     == [stamp : Nat \cup {-1}, verdict : Verdict]
Rows    == [Inode -> Row]
NoRows  == [i \in Inode |-> NoRow]
Idle    == [at |-> "idle"]
Saved(rows) == {i \in Inode : rows[i] # NoRow}

ProbeInit ==
  /\ inodeAt \in {f \in [MediaPath -> Inode] : \A p, q \in MediaPath : f[p] = f[q] => p = q}
  /\ stampOf = [i \in Inode |-> 0]
  /\ memo = [p \in Process |-> << >>]
  /\ unsaved = [p \in Process |-> NoRows]
  /\ table = NoRows
  /\ thread = [t \in Thread |-> Idle]
  /\ lookups = 0 /\ errors = 0

Files == <<inodeAt, stampOf>>
Recalls(p, i)   == i \in DOMAIN memo[p]
Remember(p, i, row) == memo' = [memo EXCEPT ![p] = [j \in DOMAIN @ \cup {i} |->
                                                    IF j = i THEN row ELSE @[j]]]
Turns(t, s)     == thread' = [thread EXCEPT ![t] = s]
Fails           == errors < MaxErrors /\ errors' = errors + 1

(***************************************************************************)
(* lookup, one thread                                                      *)
(***************************************************************************)
\* os.stat, by lookup itself, by many, or long before by _prime.
Stat(t, path) ==
  /\ thread[t] = Idle /\ lookups < MaxLookups
  /\ Turns(t, [at |-> "ask", path |-> path, ino |-> inodeAt[path], stamp |-> stampOf[inodeAt[path]]])
  /\ lookups' = lookups + 1
  /\ UNCHANGED <<inodeAt, stampOf, memo, unsaved, table, errors>>

\* A row answers when it has the stamp of the stat (Store._valid).
Fits(row, s) == row.stamp = s.stamp

\* The memo knows: answered, or to be read again.
Recall(t) ==
  LET s == thread[t]  p == ProcessOf[t] IN
  /\ s.at = "ask" /\ Recalls(p, s.ino)
  /\ Turns(t, IF Fits(memo[p][s.ino], s) THEN Idle ELSE [s EXCEPT !.at = "read"])
  /\ UNCHANGED <<inodeAt, stampOf, memo, unsaved, table, lookups, errors>>

\* Store.get and get_many: the table is read, or found locked, and what it says remembered.
Fetch(t) ==
  LET s == thread[t]  p == ProcessOf[t] IN
  /\ s.at = "ask" /\ ~Recalls(p, s.ino)
  /\ \E row \in {table[s.ino], NoRow} :
       /\ IF row = table[s.ino] THEN UNCHANGED errors ELSE Fails
       /\ LET got == IF Fits(row, s) THEN row ELSE NoRow IN
          /\ Remember(p, s.ino, got)
          /\ Turns(t, IF got # NoRow THEN Idle ELSE [s EXCEPT !.at = "read"])
  /\ UNCHANGED <<inodeAt, stampOf, unsaved, table, lookups>>

\* probe_path, _mediainfo_one: what the file at the path says now, whichever file that is.
ReadNow(path) == <<inodeAt[path], stampOf[inodeAt[path]]>>
Read(t) ==
  LET s == thread[t] IN
  /\ s.at = "read"
  /\ Turns(t, [at |-> IF inodeAt[s.path] \in Odd THEN "odd"
                  ELSE IF Keeper[ProcessOf[t]] # ProcessOf[t] THEN "report" ELSE "keep",
            path |-> s.path, ino |-> s.ino, stamp |-> s.stamp, verdict |-> ReadNow(s.path)])
  /\ UNCHANGED <<inodeAt, stampOf, memo, unsaved, table, lookups, errors>>

\* The path still is the file that was looked up.
Unchanged(s) == inodeAt[s.path] = s.ino /\ stampOf[s.ino] = s.stamp

\* The parsers cannot tell: mediainfo is asked, at once or later.  It may fail, which is
\* remembered as None for the session (by ranger; the command line is about to end).
AskMediainfo(t) ==
  LET s == thread[t]  p == ProcessOf[t]  k == Keeper[p] IN
  /\ s.at = "odd"
  /\ \/ /\ Turns(t, [s EXCEPT !.at = IF p \in Deferring THEN "report" ELSE "keep",
                           !.verdict = ReadNow(s.path)])
        /\ UNCHANGED <<memo, errors>>
     \/ /\ Fails /\ Turns(t, Idle)
        /\ IF k \notin Deferring /\ (p = k \/ Unchanged(s))
           THEN Remember(k, s.ino, [stamp |-> s.stamp, verdict |-> << >>])
           ELSE UNCHANGED memo
  /\ UNCHANGED <<inodeAt, stampOf, unsaved, table, lookups>>

\* _put and Store.put: with the stamp of the stat, memo and unsaved rows; the row that fills them
\* flushes.
RowNow(s) == [stamp |-> stampOf[s.ino], verdict |-> s.verdict]
RowOf(s)  == [stamp |-> s.stamp, verdict |-> s.verdict]
KeepIn(t, p, s) ==
  LET row  == RowOf(s)
      rows == [unsaved[p] EXCEPT ![s.ino] = row]
  IN  /\ Remember(p, s.ino, row)
      /\ unsaved' = [unsaved EXCEPT ![p] = IF Cardinality(Saved(rows)) >= FlushEvery
                                            THEN NoRows ELSE rows]
      /\ Turns(t, IF Cardinality(Saved(rows)) >= FlushEvery
               THEN [at |-> "write", rows |-> rows, for |-> p] ELSE Idle)
Keep(t) ==
  /\ thread[t].at = "keep"
  /\ KeepIn(t, ProcessOf[t], thread[t])
  /\ UNCHANGED <<inodeAt, stampOf, table, lookups, errors>>

\* _parallel and _mediainfo_batch: what a worker found, or mediainfo told later, is kept by the
\* process that forked it, if the path still is the file that was looked up.
Report(t) ==
  LET s == thread[t]  p == Keeper[ProcessOf[t]] IN
  /\ s.at = "report"
  /\ IF Unchanged(s) THEN KeepIn(t, p, s) ELSE Turns(t, Idle) /\ UNCHANGED <<memo, unsaved>>
  /\ UNCHANGED <<inodeAt, stampOf, table, lookups, errors>>

(***************************************************************************)
(* Store.flush                                                             *)
(***************************************************************************)
\* The rows are taken, so that puts can go on ...
Flush(t) ==
  LET p == ProcessOf[t] IN
  /\ thread[t] = Idle /\ unsaved[p] # NoRows
  /\ unsaved' = [unsaved EXCEPT ![p] = NoRows]
  /\ Turns(t, [at |-> "write", rows |-> unsaved[p], for |-> p])
  /\ UNCHANGED <<inodeAt, stampOf, memo, table, lookups, errors>>

\* ... and written in one transaction ...
Write(t) ==
  LET s == thread[t] IN
  /\ s.at = "write"
  /\ table' = [i \in Inode |-> IF s.rows[i] # NoRow THEN s.rows[i] ELSE table[i]]
  /\ Turns(t, Idle)
  /\ UNCHANGED <<inodeAt, stampOf, memo, unsaved, lookups, errors>>

\* ... or, when the table is locked or the disk full, put back for the next flush, where no
\* row was put meanwhile.
PutAllBack(rows, now) == [i \in Inode |-> IF rows[i] # NoRow THEN rows[i] ELSE now[i]]
PutBackRows(rows, now) == [i \in Inode |-> IF now[i] # NoRow THEN now[i] ELSE rows[i]]
WriteFails(t) ==
  LET s == thread[t] IN
  /\ s.at = "write" /\ Fails
  /\ unsaved' = [unsaved EXCEPT ![s.for] = PutBackRows(s.rows, @)]
  /\ Turns(t, Idle)
  /\ UNCHANGED <<inodeAt, stampOf, memo, table, lookups>>

\* A process is killed and started again.
Restart(p) ==
  /\ Fails
  /\ memo' = [memo EXCEPT ![p] = << >>] /\ unsaved' = [unsaved EXCEPT ![p] = NoRows]
  /\ thread' = [t \in Thread |->
       IF (IF thread[t].at = "write" THEN thread[t].for ELSE ProcessOf[t]) = p THEN Idle ELSE thread[t]]
  /\ UNCHANGED <<inodeAt, stampOf, table, lookups>>

\* A process whose schema has another version opens the database: the table starts anew.
Migrate == Fails /\ table' = NoRows /\ UNCHANGED <<inodeAt, stampOf, memo, unsaved, thread, lookups>>

(***************************************************************************)
(* The files                                                               *)
(***************************************************************************)
WriteFile(i) ==
  /\ stampOf[i] < MaxStamp
  /\ stampOf' = [stampOf EXCEPT ![i] = @ + 1]
  /\ UNCHANGED <<inodeAt, memo, unsaved, table, thread, lookups, errors>>

\* Two files exchange their names.
Reading(p) == \E t \in Thread : thread[t].at \in {"ask", "read", "odd"} /\ thread[t].path = p
Exchange(p, q) ==
  /\ p # q /\ Renames # "never" /\ Fails
  /\ Renames = "quiet" => ~Reading(p) /\ ~Reading(q)
  /\ inodeAt' = [inodeAt EXCEPT ![p] = inodeAt[q], ![q] = inodeAt[p]]
  /\ UNCHANGED <<stampOf, memo, unsaved, table, thread, lookups>>

LookupStep(t) == Recall(t) \/ Fetch(t) \/ Read(t) \/ AskMediainfo(t) \/ Keep(t) \/ Report(t)
ProbeNext ==
  \/ \E t \in Thread : \/ LookupStep(t) \/ Flush(t) \/ Write(t) \/ WriteFails(t)
                       \/ \E path \in MediaPath : Stat(t, path)
  \/ \E p \in Process : Restart(p)
  \/ Migrate
  \/ \E i \in Inode : WriteFile(i)
  \/ \E p, q \in MediaPath : Exchange(p, q)

ProbeSpec == ProbeInit /\ [][ProbeNext]_probeVars

ProbeTypeOK ==
  /\ inodeAt \in [MediaPath -> Inode] /\ stampOf \in [Inode -> 0 .. MaxStamp]
  /\ \A p \in Process : DOMAIN memo[p] \subseteq Inode /\ \A i \in DOMAIN memo[p] : memo[p][i] \in Row
  /\ unsaved \in [Process -> Rows] /\ table \in Rows
  /\ \A t \in Thread : /\ thread[t].at \in {"idle", "ask", "read", "odd", "keep", "report", "write"}
                       /\ thread[t].at \in {"ask", "read", "odd", "keep", "report"}
                            => thread[t].ino \in Inode /\ thread[t].stamp \in 0 .. MaxStamp
                       /\ thread[t].at \in {"keep", "report"} => thread[t].verdict \in Verdict
                       /\ thread[t].at = "write" => thread[t].rows \in Rows /\ thread[t].for \in Process
  /\ lookups \in 0 .. MaxLookups /\ errors \in 0 .. MaxErrors

\* Whatever is written in place or restarted between the steps of a lookup, and renamed outside of
\* one (where Renames is "quiet"): no row, remembered, unsaved, being written or in the table,
\* tells of another file than its inode, or of older content than its stamp ("media keyed by
\* inode, valid while (mtime_ns, size) match").
Describes(row, i) == row.verdict # << >> => row.verdict[1] = i /\ row.verdict[2] >= row.stamp
RowsDescribeTheirFile ==
  \A i \in Inode :
    /\ Describes(table[i], i)
    /\ \A p \in Process : Describes(unsaved[p][i], i) /\ (Recalls(p, i) => Describes(memo[p][i], i))
    /\ \A t \in Thread : thread[t].at = "write" => Describes(thread[t].rows[i], i)

\* A row that was put is not lost before it was written, unless its process ends: it is taken by
\* a flush, or replaced by a newer put; and what a flush took is written, or put back unless a
\* newer row waits ("locked / disk full: keep for the next flush").
RowsAreKept ==
  [][/\ \A p \in Process, i \in Inode :
          LET old == unsaved[p][i]  now == unsaved'[p][i] IN
          old # NoRow /\ now # old =>
            \/ memo'[p] = << >>
            \/ now # NoRow /\ now = memo'[p][i]
            \/ \E t \in Thread : thread'[t].at = "write" /\ thread'[t].for = p
                                  /\ (thread'[t].rows[i] = old \/ thread'[t].rows[i] = memo'[p][i])
     /\ \A t \in Thread : thread[t].at = "write" /\ thread'[t] # thread[t] =>
          LET p == thread[t].for IN
          \/ memo'[p] = << >>
          \/ \A i \in Saved(thread[t].rows) : \/ table'[i] = thread[t].rows[i]
                                              \/ unsaved'[p][i] # NoRow]_probeVars

\* The table is true and keeps what was written: what vdprobe answers is worth its cache.
RowsAreTrue == [][RowsDescribeTheirFile']_probeVars /\ RowsAreKept
=============================================================================

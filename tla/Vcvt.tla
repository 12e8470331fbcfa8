-------------------------------- MODULE Vcvt --------------------------------
(***************************************************************************)
(* src/ffmpeg/vcvt.py: a watcher ("-w", function watch) moves arriving     *)
(* videos from todo/ to queue/ and submits them to the executor, which     *)
(* runs one conversion ("-i -D", function convert) per attempt.  A         *)
(* conversion encodes queue/NAME into a marker file beside it, publishes   *)
(* the marker as queue/OUTPUT, and moves both files to done/.              *)
(*                                                                         *)
(* The executor is the queue of JobQueue, which TmuxJobs implements.  What *)
(* is a file is an inode: a video, or the file an attempt's ffmpeg made,   *)
(* which has the name of the attempt.  A step is one directory operation,  *)
(* one lock operation, one scan or one process event; a process may be     *)
(* interrupted or killed between any two of them.                          *)
(***************************************************************************)
EXTENDS Naturals, Sequences, FiniteSets, Functions

CONSTANTS Name,      \* file names of sources
          Out,       \* file names of outputs
          OutOf,     \* OutOf[n]: the output name of source name n; may be shared
          Video,     \* inodes that producers deliver
          Codec,     \* Codec[v]: what ffprobe says of v
          Job,       \* ids of the executor
          Attempt,   \* execution attempts, and the files they encode
          None,
          Faults,    \* kinds of faults that may occur
          MaxFaults  \* bound on their number

ASSUME NamesAssumption ==
  /\ Name \cap Out = {}
  /\ OutOf \in [Name -> Out]
  /\ Codec \in [Video -> {"other", "av1", "unreadable"}]
ASSUME InodesAssumption ==
  /\ Video \cap Attempt = {}
  /\ None \notin Video \cup Attempt \cup Job \cup Name
  /\ None \notin Video \X Nat
ASSUME JobIdsAssumption == Job \subseteq Nat
ASSUME BoundsAssumption ==
  /\ Faults \subseteq {"encoder", "interrupt", "kill", "replay", "watcher", "writer"}
  /\ MaxFaults \in Nat

Dir  == {"todo", "queue", "done"}
Path == Dir \X (Name \cup Out)

InTodo(f)  == <<"todo", f>>
InQueue(f) == <<"queue", f>>
InDone(f)  == <<"done", f>>

VARIABLES
  \* directories
  fs,        \* fs[p]: the inode at path p, or None
  prev,      \* prev[o]: queue/o's backups _prev1, _prev2, ...
  cvt,       \* cvt[j]: the marker file of job j, or None
  \* producers
  delivered, \* videos delivered so far
  ver,       \* ver[v]: how often v was written after its delivery
  \* the executor: the state of JobQueue, and
  status, attempt, outcome, begun, result,
  argv,      \* argv[j]: the source of job j
  held,      \* failed jobs that still occupy their slot
  \* conversions
  pc,        \* pc[a]: where attempt a is
  jobOf,     \* jobOf[a]: VCVT_JOB_ID of attempt a
  took,      \* took[a]: the source as stat'ed before encoding, or None
  enc,       \* enc[a]: state of its ffmpeg
  torn,      \* attempts whose source changed between that stat and ffmpeg's end
  lock,      \* lock[o]: holder of the output lock of o
  published, \* attempts that have put their file at the output path
  \* the watcher
  wpc,       \* where it is
  heard,     \* names with unread close-write or moved-to events
  pending,   \* names found in todo/ at its start and not settled yet
  backlog,   \* names it found in queue/
  wname,     \* the name it is moving
  faults     \* faults so far

dirs     == <<fs, prev, cvt>>
media    == <<delivered, ver>>
queue    == <<status, attempt, outcome, begun, result>>
jobs     == <<queue, argv, held>>
encoding == <<took, enc, torn, published>>
attempts == <<pc, jobOf, encoding, lock>>
watcher  == <<wpc, heard, pending, backlog, wname>>
vars == <<dirs, media, jobs, attempts, watcher, faults>>

Q == INSTANCE JobQueue

PC == {"idle", "collect", "lock", "stat", "encode", "publish", "replace", "archive",
       "linkSource", "unlinkSource", "linkOutput", "unlinkOutput", "finish",
       "restore", "unrestore", "ended", "killed"}
Over == {"idle", "ended", "killed"}
EncState == {"none", "starting", "writing", "whole", "failed"}
WatcherPC == {"off", "scan", "backlog", "listen", "link", "unlink", "submit"}

FilesOK ==
  /\ fs \in [Path -> Video \cup Attempt \cup {None}]
  /\ \A d \in Dir, n \in Name : fs[<<d, n>>] \in Video \cup {None}
  /\ \A d \in Dir, o \in Out : fs[<<d, o>>] \in Attempt \cup {None}
  /\ prev \in [Out -> Seq(Attempt)]
  /\ cvt \in [Job -> Attempt \cup {None}]

JobsOK ==
  /\ Q!TypeOK
  /\ argv \in [Job -> Name \cup {None}]
  /\ held \subseteq Job

AttemptsOK ==
  /\ pc \in [Attempt -> PC]
  /\ jobOf \in [Attempt -> Job \cup {None}]
  /\ took \in [Attempt -> (Video \X Nat) \cup {None}]
  /\ enc \in [Attempt -> EncState]
  /\ torn \subseteq Attempt
  /\ lock \in [Out -> Attempt \cup {None}]
  /\ published \subseteq Attempt

WatcherOK ==
  /\ wpc \in WatcherPC
  /\ heard \subseteq Name
  /\ pending \subseteq Name
  /\ backlog \subseteq Name
  /\ wname \in Name \cup {None}
  /\ wpc \in {"link", "unlink", "submit"} => wname \in Name

TypeOK ==
  /\ FilesOK
  /\ JobsOK
  /\ AttemptsOK
  /\ WatcherOK
  /\ delivered \subseteq Video
  /\ ver \in [Video -> Nat]
  /\ faults \in 0..MaxFaults

Init ==
  /\ Q!Init
  /\ fs = [p \in Path |-> None]
  /\ prev = [o \in Out |-> << >>]
  /\ cvt = [j \in Job |-> None]
  /\ delivered = {}
  /\ ver = [v \in Video |-> 0]
  /\ argv = [j \in Job |-> None]
  /\ held = {}
  /\ pc = [a \in Attempt |-> "idle"]
  /\ jobOf = [a \in Attempt |-> None]
  /\ took = [a \in Attempt |-> None]
  /\ enc = [a \in Attempt |-> "none"]
  /\ torn = {}
  /\ lock = [o \in Out |-> None]
  /\ published = {}
  /\ wpc = "off"
  /\ heard = {}
  /\ pending = {}
  /\ backlog = {}
  /\ wname = None
  /\ faults = 0

Fault(kind) ==
  /\ kind \in Faults
  /\ faults < MaxFaults
  /\ faults' = faults + 1

-----------------------------------------------------------------------------
(***************************************************************************)
(* Directory operations.  os.link refuses an existing destination, so no   *)
(* caller of Link may have one; os.replace overwrites it.                  *)
(***************************************************************************)
Exists(p) == fs[p] # None
Link(p, q) == fs' = [fs EXCEPT ![q] = fs[p]]
Unlink(p)  == fs' = [fs EXCEPT ![p] = None]

\* ffprobe: an error for what is no video; only videos that are not AV1 yet are eligible.
Unreadable(p) == Exists(p) /\ Codec[fs[p]] = "unreadable"
Eligible(p)   == Exists(p) /\ Codec[fs[p]] = "other"

(***************************************************************************)
(* Producers deliver complete files by renaming them into todo/; a delivery*)
(* counted as complete may be written to again (a paused writer).          *)
(***************************************************************************)
Hear(names) == heard' = IF wpc = "off" THEN {} ELSE heard \cup names

Deliver(v) ==
  /\ v \notin delivered
  /\ delivered' = delivered \cup {v}
  /\ \E n \in Name :
       /\ ~Exists(InTodo(n))
       /\ fs' = [fs EXCEPT ![InTodo(n)] = v]
       /\ Hear({n})
  /\ UNCHANGED <<prev, cvt, ver, jobs, attempts, wpc, pending, backlog, wname, faults>>

Rewrite(v) ==
  /\ v \in delivered
  /\ Fault("writer")
  /\ ver' = [ver EXCEPT ![v] = @ + 1]
  /\ torn' = torn \cup {a \in Attempt : /\ took[a] # None /\ took[a][1] = v
                                        /\ enc[a] \in {"starting", "writing"}}
  /\ Hear({n \in Name : fs[InTodo(n)] = v})
  /\ UNCHANGED <<dirs, delivered, jobs, pc, jobOf, took, enc, published, lock,
                 wpc, pending, backlog, wname>>

-----------------------------------------------------------------------------
(***************************************************************************)
(* The executor, as JobQueue describes it.  A failed job is held until     *)
(* somebody releases it.                                                   *)
(***************************************************************************)

\* --unique: the same command is queued or active; a held failure counts as active.
Pending(n) == \E j \in Job : /\ argv[j] = n
                             /\ status[j] \in {"queued", "running"} \/ j \in held

\* One transaction of tmux-jobs.py --unique for a list of sources; ids are handed out in
\* ascending order.
Submit(names) ==
  LET new == {n \in names : ~Pending(n)} IN
  \E J \in SUBSET Job : \E f \in Bijection(J, new) :
    /\ Q!Submit(J)
    /\ \A i \in J, k \in Job \ J : status[k] = "absent" => i < k
    /\ argv' = [j \in Job |-> IF j \in J THEN f[j] ELSE argv[j]]
    /\ UNCHANGED held

Start(j, a) ==
  /\ Q!Start(j, a)
  /\ jobOf' = [jobOf EXCEPT ![a] = j]
  /\ pc' = [pc EXCEPT ![a] = "collect"]
  /\ UNCHANGED <<dirs, media, argv, held, encoding, lock, watcher, faults>>

Record(j) ==
  /\ Q!Record(j)
  /\ held' = IF result[attempt[j]] = "fail" THEN held \cup {j} ELSE held
  /\ UNCHANGED <<dirs, media, argv, attempts, watcher, faults>>

Release(j) ==
  /\ j \in held
  /\ held' = held \ {j}
  /\ UNCHANGED <<dirs, media, queue, argv, attempts, watcher, faults>>

\* The executor gives up an attempt: its pane was killed with it, or (a fault) -K, a restart
\* or a lost wrapper makes the executor forget an attempt that may still be running.
Abandoned(j) == attempt[j] \in Attempt /\ pc[attempt[j]] = "killed"

Requeue(j) ==
  /\ Q!Requeue({j})
  /\ \/ Abandoned(j) /\ UNCHANGED faults
     \/ Fault("replay")
  /\ UNCHANGED <<dirs, media, argv, held, attempts, watcher>>

Lose(j) ==
  /\ Q!Lose({j})
  /\ \/ Abandoned(j) /\ UNCHANGED faults
     \/ Fault("replay")
  /\ UNCHANGED <<dirs, media, argv, held, attempts, watcher>>

\* The wrapper survived its killed command and sees a failure.
Reap(a) ==
  /\ pc[a] = "killed"
  /\ Q!Return(a, "fail")
  /\ pc' = [pc EXCEPT ![a] = "ended"]
  /\ UNCHANGED <<dirs, media, argv, held, jobOf, encoding, lock, watcher, faults>>

-----------------------------------------------------------------------------
(***************************************************************************)
(* A conversion.  Every error of an operation ends the attempt with a      *)
(* failure; its lock goes with it, its marker stays.                       *)
(***************************************************************************)
Source(a) == argv[jobOf[a]]
Output(a) == OutOf[Source(a)]

Goto(a, label) == pc' = [pc EXCEPT ![a] = label]
Unlock(a) == lock' = [o \in Out |-> IF lock[o] = a THEN None ELSE lock[o]]

Return(a, r) ==
  /\ Q!Return(a, r)
  /\ Goto(a, "ended")
  /\ Unlock(a)

\* Control moves on and nothing else changes but the named groups of the action.
Proceed(a, label) ==
  /\ Goto(a, label)
  /\ UNCHANGED <<queue, lock>>

\* main: the source is named explicitly, so that it is not skipped for its output; an AV1
\* video is left alone, with success.
Collect(a) ==
  LET p == InQueue(Source(a)) IN
  /\ pc[a] = "collect"
  /\ IF Eligible(p)
     THEN Proceed(a, "lock")
     ELSE Return(a, IF Exists(p) /\ ~Unreadable(p) THEN "ok" ELSE "fail")
  /\ UNCHANGED <<dirs, media, argv, held, jobOf, encoding, watcher, faults>>

OutputLock(a) ==
  /\ pc[a] = "lock"
  /\ lock[Output(a)] = None
  /\ lock' = [lock EXCEPT ![Output(a)] = a]
  /\ Goto(a, "stat")
  /\ UNCHANGED <<dirs, media, jobs, jobOf, encoding, watcher, faults>>

\* before = source.stat(), the test for a marker, and the start of ffmpeg.
Stat(a) ==
  LET v == fs[InQueue(Source(a))] IN
  /\ pc[a] = "stat"
  /\ IF v = None \/ cvt[jobOf[a]] # None
     THEN /\ Return(a, "fail")
          /\ UNCHANGED encoding
     ELSE /\ Proceed(a, "encode")
          /\ took' = [took EXCEPT ![a] = <<v, ver[v]>>]
          /\ enc' = [enc EXCEPT ![a] = "starting"]
          /\ UNCHANGED <<torn, published>>
  /\ UNCHANGED <<dirs, media, argv, held, jobOf, watcher, faults>>

\* ffmpeg -n: refuses to overwrite.  It outlives a parent that is killed.
EncoderOpens(a) ==
  /\ enc[a] = "starting"
  /\ IF cvt[jobOf[a]] # None
     THEN enc' = [enc EXCEPT ![a] = "failed"] /\ UNCHANGED cvt
     ELSE /\ enc' = [enc EXCEPT ![a] = "writing"]
          /\ cvt' = [cvt EXCEPT ![jobOf[a]] = a]
  /\ UNCHANGED <<fs, prev, media, jobs, pc, jobOf, took, torn, published, lock,
                 watcher, faults>>

\* "failed" stands for an error of ffmpeg and for a file that ffprobe will not accept.
EncoderEnds(a) ==
  /\ enc[a] = "writing"
  /\ \/ enc' = [enc EXCEPT ![a] = "whole"] /\ UNCHANGED faults
     \/ enc' = [enc EXCEPT ![a] = "failed"] /\ Fault("encoder")
  /\ UNCHANGED <<dirs, media, jobs, pc, jobOf, took, torn, published, lock, watcher>>

\* A bug for the runs to find: the source is recognised by its inode alone.
UnchangedInode(a) ==
  LET v == fs[InQueue(Source(a))] IN v # None /\ took[a][1] = v

\* Validation of the marker, and after = source.stat().
Unchanged(a) ==
  LET v == fs[InQueue(Source(a))] IN v # None /\ took[a] = <<v, ver[v]>>

Validate(a) ==
  /\ pc[a] = "encode"
  /\ enc[a] \in {"whole", "failed"}
  /\ IF enc[a] = "whole" /\ Unchanged(a)
     THEN Proceed(a, "publish")
     ELSE Return(a, "fail")
  /\ UNCHANGED <<dirs, media, argv, held, jobOf, encoding, watcher, faults>>

\* A bug for the runs to find: the previous output is replaced without a link to it.
BackupNever(a) ==
  /\ pc[a] = "publish"
  /\ Proceed(a, "replace")
  /\ UNCHANGED <<dirs, media, argv, held, jobOf, encoding, watcher, faults>>

\* publish: a hard link keeps the previous output; its number is the first free one.
Backup(a) ==
  /\ pc[a] = "publish"
  /\ IF Exists(InQueue(Output(a)))
     THEN prev' = [prev EXCEPT ![Output(a)] = Append(@, fs[InQueue(Output(a))])]
     ELSE UNCHANGED prev
  /\ Proceed(a, "replace")
  /\ UNCHANGED <<fs, cvt, media, argv, held, jobOf, encoding, watcher, faults>>

\* A bug for the runs to find: the lock is given up with the publication.
ReplaceUnlocks(a) ==
  /\ pc[a] = "replace"
  /\ fs' = [fs EXCEPT ![InQueue(Output(a))] = cvt[jobOf[a]]]
  /\ cvt' = [cvt EXCEPT ![jobOf[a]] = None]
  /\ published' = published \cup {a}
  /\ Goto(a, "archive")
  /\ Unlock(a)
  /\ UNCHANGED <<prev, media, queue, argv, held, jobOf, took, enc, torn, watcher, faults>>

Replace(a) ==
  /\ pc[a] = "replace"
  /\ fs' = [fs EXCEPT ![InQueue(Output(a))] = cvt[jobOf[a]]]
  /\ cvt' = [cvt EXCEPT ![jobOf[a]] = None]
  /\ published' = published \cup {a}
  /\ Proceed(a, "archive")
  /\ UNCHANGED <<prev, media, argv, held, jobOf, took, enc, torn, watcher, faults>>

\* A bug for the runs to find: an archived source is taken for this attempt's own.
ArchiveResumes(a) ==
  /\ pc[a] = "archive"
  /\ Proceed(a, IF Exists(InDone(Source(a))) THEN "linkOutput" ELSE "linkSource")
  /\ UNCHANGED <<dirs, media, argv, held, jobOf, encoding, watcher, faults>>

\* archive: neither destination may exist.
ArchiveCheck(a) ==
  /\ pc[a] = "archive"
  /\ IF Exists(InDone(Source(a))) \/ Exists(InDone(Output(a)))
     THEN Return(a, "fail")
     ELSE Proceed(a, "linkSource")
  /\ UNCHANGED <<dirs, media, argv, held, jobOf, encoding, watcher, faults>>

\* move_no_replace of the source to done/.
LinkSource(a) ==
  LET from == InQueue(Source(a))  to == InDone(Source(a)) IN
  /\ pc[a] = "linkSource"
  /\ IF Exists(from) /\ ~Exists(to)
     THEN Link(from, to) /\ Proceed(a, "unlinkSource")
     ELSE UNCHANGED fs /\ Return(a, "fail")
  /\ UNCHANGED <<prev, cvt, media, argv, held, jobOf, encoding, watcher, faults>>

UnlinkSource(a) ==
  /\ pc[a] = "unlinkSource"
  /\ Unlink(InQueue(Source(a)))
  /\ Proceed(a, "linkOutput")
  /\ UNCHANGED <<prev, cvt, media, argv, held, jobOf, encoding, watcher, faults>>

\* move_no_replace of the output; a failure restores the source.
LinkOutput(a) ==
  LET from == InQueue(Output(a))  to == InDone(Output(a)) IN
  /\ pc[a] = "linkOutput"
  /\ IF Exists(from) /\ ~Exists(to)
     THEN Link(from, to) /\ Proceed(a, "unlinkOutput")
     ELSE UNCHANGED fs /\ Proceed(a, "restore")
  /\ UNCHANGED <<prev, cvt, media, argv, held, jobOf, encoding, watcher, faults>>

UnlinkOutput(a) ==
  /\ pc[a] = "unlinkOutput"
  /\ Unlink(InQueue(Output(a)))
  /\ Proceed(a, "finish")
  /\ UNCHANGED <<prev, cvt, media, argv, held, jobOf, encoding, watcher, faults>>

\* The directory is synced, the lock given up, and the success reported.
Finish(a) ==
  /\ pc[a] = "finish"
  /\ Return(a, "ok")
  /\ UNCHANGED <<dirs, media, argv, held, jobOf, encoding, watcher, faults>>

\* A bug for the runs to find: the roll-back goes on when its link is refused.
RestoreAnyway(a) ==
  LET from == InDone(Source(a))  to == InQueue(Source(a)) IN
  /\ pc[a] = "restore"
  /\ IF Exists(from) /\ ~Exists(to) THEN Link(from, to) ELSE UNCHANGED fs
  /\ Proceed(a, "unrestore")
  /\ UNCHANGED <<prev, cvt, media, argv, held, jobOf, encoding, watcher, faults>>

\* Roll-back: move_no_replace of the source in the other direction.
Restore(a) ==
  LET from == InDone(Source(a))  to == InQueue(Source(a)) IN
  /\ pc[a] = "restore"
  /\ IF Exists(from) /\ ~Exists(to)
     THEN Link(from, to) /\ Proceed(a, "unrestore")
     ELSE UNCHANGED fs /\ Return(a, "fail")
  /\ UNCHANGED <<prev, cvt, media, argv, held, jobOf, encoding, watcher, faults>>

Unrestore(a) ==
  /\ pc[a] = "unrestore"
  /\ Unlink(InDone(Source(a)))
  /\ Return(a, "fail")
  /\ UNCHANGED <<prev, cvt, media, argv, held, jobOf, encoding, watcher, faults>>

\* SIGTERM or SIGHUP (KeyboardInterrupt), or an I/O error of the operation at hand: only
\* the second move of archive has a handler; "linkOutput" begins before it and "finish" ends
\* after it.  ffmpeg is killed with its parent.
Interrupt(a) ==
  /\ pc[a] \notin Over
  /\ Fault("interrupt")
  /\ \/ pc[a] \in {"linkOutput", "unlinkOutput", "finish"} /\ Proceed(a, "restore")
     \/ pc[a] # "unlinkOutput" /\ Return(a, "fail")
  /\ enc' = [enc EXCEPT ![a] = IF @ \in {"starting", "writing"} THEN "failed" ELSE @]
  /\ UNCHANGED <<dirs, media, argv, held, jobOf, took, torn, published, watcher>>

\* SIGKILL: no handler runs, and a running ffmpeg is left behind.
Kill(a) ==
  /\ pc[a] \notin Over
  /\ Fault("kill")
  /\ Goto(a, "killed")
  /\ Unlock(a)
  /\ UNCHANGED <<dirs, media, jobs, jobOf, encoding, watcher>>

-----------------------------------------------------------------------------
(***************************************************************************)
(* The watcher.  One at a time: a second one fails on .vcvt-watch.lock.    *)
(***************************************************************************)
WatcherDies ==
  /\ wpc' = "off"
  /\ heard' = {}
  /\ pending' = {}
  /\ backlog' = {}
  /\ wname' = None

\* skip_existing for a file of directory d.
SkipExisting(d, n) == Exists(<<d, OutOf[n]>>)

\* The watch is installed before the scans.
WatcherStart ==
  /\ wpc = "off"
  /\ wpc' = "scan"
  /\ UNCHANGED <<dirs, media, jobs, attempts, heard, pending, backlog, wname, faults>>

\* The files of queue/; ffprobe's error on one of them is nobody's to catch.
WatcherScan ==
  /\ wpc = "scan"
  /\ IF \E n \in Name : Unreadable(InQueue(n))
     THEN WatcherDies
     ELSE /\ backlog' = {n \in Name : Eligible(InQueue(n)) /\ ~SkipExisting("queue", n)}
          /\ wpc' = "backlog"
          /\ UNCHANGED <<heard, pending, wname>>
  /\ UNCHANGED <<dirs, media, jobs, attempts, faults>>

\* A bug for the runs to find: only queue/ is a backlog.
WatcherBacklogOnly ==
  /\ wpc = "backlog"
  /\ Submit(backlog)
  /\ backlog' = {}
  /\ pending' = {}
  /\ wpc' = "listen"
  /\ UNCHANGED <<dirs, media, attempts, heard, wname, faults>>

\* Submission of the backlog, and the scan of todo/.
WatcherBacklog ==
  /\ wpc = "backlog"
  /\ Submit(backlog)
  /\ backlog' = {}
  /\ pending' = {n \in Name : Exists(InTodo(n))}
  /\ wpc' = "listen"
  /\ UNCHANGED <<dirs, media, attempts, heard, wname, faults>>

\* One path of `ready`, announced by an event or settled since the start.
WatcherTake(n) ==
  LET p == InTodo(n) IN
  /\ wpc = "listen"
  /\ n \in heard \cup pending
  /\ IF Unreadable(p)
     THEN WatcherDies
     ELSE /\ heard' = heard \ {n}
          /\ pending' = pending \ {n}
          /\ IF Eligible(p) /\ ~SkipExisting("todo", n)
             THEN wpc' = "link" /\ wname' = n
             ELSE UNCHANGED <<wpc, wname>>
          /\ UNCHANGED backlog
  /\ UNCHANGED <<dirs, media, jobs, attempts, faults>>

\* A bug for the runs to find: a plain rename to queue/.
WatcherRename ==
  /\ wpc = "link"
  /\ Link(InTodo(wname), InQueue(wname))
  /\ wpc' = "unlink"
  /\ UNCHANGED <<heard, pending, backlog, wname>>
  /\ UNCHANGED <<prev, cvt, media, jobs, attempts, faults>>

\* move_no_replace to queue/; FileExistsError ends the watcher.
WatcherLink ==
  /\ wpc = "link"
  /\ IF Exists(InQueue(wname))
     THEN WatcherDies /\ UNCHANGED fs
     ELSE /\ Link(InTodo(wname), InQueue(wname))
          /\ wpc' = "unlink"
          /\ UNCHANGED <<heard, pending, backlog, wname>>
  /\ UNCHANGED <<prev, cvt, media, jobs, attempts, faults>>

WatcherUnlink ==
  /\ wpc = "unlink"
  /\ Unlink(InTodo(wname))
  /\ wpc' = "submit"
  /\ UNCHANGED <<prev, cvt, media, jobs, attempts, heard, pending, backlog, wname, faults>>

WatcherSubmit ==
  /\ wpc = "submit"
  /\ Submit({wname})
  /\ wname' = None
  /\ wpc' = "listen"
  /\ UNCHANGED <<dirs, media, attempts, heard, pending, backlog, faults>>

\* A signal, an inotify overflow, or a submission that fails.
WatcherCrash ==
  /\ wpc # "off"
  /\ Fault("watcher")
  /\ WatcherDies
  /\ UNCHANGED <<dirs, media, jobs, attempts>>

-----------------------------------------------------------------------------
Convert(a) ==
  \/ Collect(a) \/ OutputLock(a) \/ Stat(a) \/ Validate(a) \/ Backup(a) \/ Replace(a)
  \/ ArchiveCheck(a) \/ LinkSource(a) \/ UnlinkSource(a) \/ LinkOutput(a)
  \/ UnlinkOutput(a) \/ Finish(a) \/ Restore(a) \/ Unrestore(a)

Encoder(a) == EncoderOpens(a) \/ EncoderEnds(a)

Watch ==
  \/ WatcherStart \/ WatcherScan \/ WatcherBacklog \/ WatcherLink \/ WatcherUnlink
  \/ WatcherSubmit \/ \E n \in Name : WatcherTake(n)

Execute(j) ==
  \/ Record(j) \/ Release(j) \/ Requeue(j) \/ Lose(j)
  \/ \E a \in Attempt : Start(j, a)

Next ==
  \/ \E v \in Video : Deliver(v) \/ Rewrite(v)
  \/ Watch \/ WatcherCrash
  \/ \E j \in Job : Execute(j)
  \/ \E a \in Attempt : Convert(a) \/ Encoder(a) \/ Reap(a) \/ Interrupt(a) \/ Kill(a)

Spec == Init /\ [][Next]_vars

(***************************************************************************)
(* Processes that are not killed keep running and ffmpeg terminates; the   *)
(* executor starts queued jobs, records returns, and gives killed attempts *)
(* up; somebody releases failed panes and restarts a watcher that ended.   *)
(* Nobody has to deliver anything.                                         *)
(***************************************************************************)
Fairness ==
  /\ WF_vars(Watch)
  /\ \A n \in Name : WF_vars(WatcherTake(n))
  /\ \A a \in Attempt :
       /\ WF_vars(Convert(a))
       /\ WF_vars(Encoder(a))
  /\ \A j \in Job :
       /\ WF_vars(\E a \in Attempt : Start(j, a))
       /\ WF_vars(Record(j))
       /\ WF_vars(Release(j))
       /\ WF_vars(Abandoned(j) /\ (Requeue(j) \/ Lose(j) \/ Reap(attempt[j])))

FairSpec == Spec /\ Fairness

-----------------------------------------------------------------------------
(* What the converter and its watcher promise *)

LinkedAt(i) == {p \in Path : fs[p] = i}

\* No input ever disappears: whatever is interrupted, killed, repeated or rolled back, a
\* delivered video has a name in todo/, queue/ or done/.
NoVideoLost == \A v \in delivered : LinkedAt(v) # {}

\* Nothing that was ever published disappears: it is an output, archived, or a backup.
NoOutputLost ==
  \A a \in published : LinkedAt(a) # {} \/ \E o \in Out : a \in Range(prev[o])

\* "Atomic output publication": what stands at an output path, in the archive or in a
\* backup is a complete encoding of a source that stood still while it was encoded, even
\* when an encoder outlives its attempt and a second attempt of the job runs beside it.
OutputsAreWhole ==
  \A a \in Attempt :
    (LinkedAt(a) # {} \/ \E o \in Out : a \in Range(prev[o]))
      => enc[a] = "whole" /\ a \notin torn

\* Source and output that stand in the archive under matching names belong together, also
\* when two sources share an output name, a name is delivered twice, or a move is undone.
ArchivedPairsMatch ==
  \A n \in Name :
    LET v == fs[InDone(n)]  a == fs[InDone(OutOf[n])] IN
    v # None /\ a # None /\ Source(a) = n => took[a][1] = v

\* A job that is recorded as successful has archived its source with an output, which
\* nobody removes again: success outlives crashes, replays and later jobs.
SuccessIsArchived ==
  \A j \in Job :
    outcome[j] = "ok" /\ (\A v \in Video : Codec[v] = "other")
      => Exists(InDone(argv[j])) /\ Exists(InDone(OutOf[argv[j]]))

\* The archive tells the truth: about which output belongs to which source, and about what
\* was converted.
ArchiveIsTrue == ArchivedPairsMatch /\ SuccessIsArchived

\* "Archive moves refuse collisions": an archived file is never overwritten, and its name
\* only goes away when its own attempt rolls it back and it is in queue/ again.
ArchiveIsAppendOnly ==
  [][\A f \in Name \cup Out :
       Exists(InDone(f)) /\ fs'[InDone(f)] # fs[InDone(f)]
       => /\ fs'[InDone(f)] = None
          /\ fs[InQueue(f)] = fs[InDone(f)]
          /\ \E a \in Attempt : /\ pc[a] = "unrestore" /\ Source(a) = f
                               /\ took[a][1] = fs[InDone(f)]]_vars

\* What was archived stays there, and stays right.
ArchiveIsKept == []ArchiveIsTrue /\ ArchiveIsAppendOnly

\* Every video that needs a conversion ends in the archive together with its own encoding,
\* although the watcher may be stopped at any point and be restarted.
ArrivalsAreArchived ==
  \A v \in Video :
    v \in delivered /\ Codec[v] = "other" ~>
      \E n \in Name, a \in Attempt :
        fs[InDone(n)] = v /\ fs[InDone(OutOf[n])] = a /\ took[a][1] = v

-----------------------------------------------------------------------------
(***************************************************************************)
(* The inductive invariant.                                                *)
(***************************************************************************)

\* Running jobs have an attempt; attempts that have started belong to jobs with a source.
Assigned ==
  /\ \A j \in Job : status[j] # "absent" => argv[j] \in Name
  /\ \A j \in Job : status[j] = "running" => attempt[j] \in Attempt
  /\ \A a \in Attempt : pc[a] # "idle" => jobOf[a] \in Job /\ status[jobOf[a]] # "absent"
  /\ \A a \in Attempt : pc[a] # "idle" => a \in begun
  /\ \A a \in begun : pc[a] # "idle"

\* What needs the output lock has it.
Critical == PC \ (Over \cup {"collect", "lock"})
Locked == \A a \in Attempt : pc[a] \in Critical => lock[Output(a)] = a

\* A file that is about to lose a name has another one.
Doubled ==
  /\ \A a \in Attempt :
       /\ pc[a] \in {"unlinkSource", "unrestore"} =>
            /\ Exists(InQueue(Source(a)))
            /\ fs[InDone(Source(a))] = fs[InQueue(Source(a))]
       /\ pc[a] = "unlinkOutput" =>
            /\ Exists(InQueue(Output(a)))
            /\ fs[InDone(Output(a))] = fs[InQueue(Output(a))]
       /\ pc[a] = "replace" =>
            \/ ~Exists(InQueue(Output(a)))
            \/ fs[InQueue(Output(a))] \in Range(prev[Output(a)])
  /\ wpc \in {"link", "unlink"} => Exists(InTodo(wname))
  /\ wpc = "unlink" => \E p \in Path : p # InTodo(wname) /\ fs[p] = fs[InTodo(wname)]

\* What is encoded is the attempt's own marker, and "before" is not newer than the source.
Encoded ==
  \A a \in Attempt :
    /\ pc[a] \in {"idle", "collect", "lock", "stat"} => enc[a] = "none" /\ a \notin torn
    /\ enc[a] # "none" => pc[a] # "idle" /\ took[a] # None
    /\ pc[a] = "encode" /\ enc[a] \in {"writing", "whole"} => cvt[jobOf[a]] = a
    /\ pc[a] \in {"publish", "replace"} =>
         cvt[jobOf[a]] = a /\ enc[a] = "whole" /\ a \notin torn
    /\ took[a] # None =>
         /\ took[a][2] <= ver[took[a][1]]
         /\ a \in torn => took[a][2] # ver[took[a][1]]

\* A conversion moves what it took and what it published, and nothing stands in its way when it
\* begins to.
OwnFiles ==
  \A a \in Attempt :
    /\ pc[a] \in {"publish", "replace", "archive", "linkSource", "unlinkSource"} =>
         took[a] # None /\ fs[InQueue(Source(a))] = took[a][1]
    /\ pc[a] \in {"unlinkSource", "linkOutput", "unlinkOutput", "finish", "restore", "unrestore"} =>
         took[a] # None /\ fs[InDone(Source(a))] = took[a][1]
    /\ pc[a] \in {"archive", "linkSource", "unlinkSource", "linkOutput", "unlinkOutput"} =>
         fs[InQueue(Output(a))] = a
    /\ pc[a] \in {"linkSource", "unlinkSource"} => ~Exists(InDone(Output(a)))
    /\ pc[a] \in {"unlinkOutput", "finish"} => fs[InDone(Output(a))] = a

\* Only the attempt of a job decides its outcome, once.
Outcomes ==
  /\ \A j \in Job : status[j] = "running" => attempt[j] \in begun /\ jobOf[attempt[j]] = j
  /\ \A j \in Job : outcome[j] # "none" => status[j] = "done"
  /\ \A a \in Attempt : result[a] # "none" => pc[a] = "ended"

\* Whether a conversion of n succeeded, which nobody archives again.
Archiving == {"linkSource", "unlinkSource", "linkOutput", "unlinkOutput", "finish",
              "restore", "unrestore"}
AllEligible == \A v \in Video : Codec[v] = "other"
Succeeded(n) ==
  \/ \E a \in Attempt : result[a] = "ok" /\ Source(a) = n
  \/ \E j \in Job : outcome[j] = "ok" /\ argv[j] = n
Successes ==
  AllEligible =>
    /\ \A n \in Name : Succeeded(n) => Exists(InDone(n)) /\ Exists(InDone(OutOf[n]))
    /\ \A a \in Attempt : pc[a] \in Archiving => ~Succeeded(Source(a))

IInv ==
  /\ TypeOK
  /\ Assigned
  /\ Locked
  /\ Doubled
  /\ Encoded
  /\ NoVideoLost
  /\ NoOutputLost
  /\ OutputsAreWhole
  /\ OwnFiles
  /\ Outcomes
  /\ Successes
  /\ ArchivedPairsMatch

-----------------------------------------------------------------------------
(***************************************************************************)
(* Statements of the documentation that the code does not keep.            *)
(***************************************************************************)

\* A job that will still look at what stands in queue/n.
WillSee(n) ==
  \E j \in Job : /\ argv[j] = n
                 /\ \/ status[j] = "queued"
                    \/ /\ status[j] = "running"
                       /\ pc[attempt[j]] \in {"collect", "lock", "stat"}

\* "Watch arrivals always enqueue": when the watcher has submitted what it moved to queue/,
\* some job will look at it.
ArrivalsEnqueue ==
  [][\A n \in Name : wpc = "submit" /\ wname = n /\ wpc' = "listen" => WillSee(n)']_vars
=============================================================================

------------------------------ MODULE TmuxJobs ------------------------------
(***************************************************************************)
(* src/tmux/bin/tmux-jobs.py: a persistent job queue executed in tmux      *)
(* panes.  Four kinds of processes share one SQLite database, two advisory *)
(* file locks and one tmux session:                                        *)
(*                                                                         *)
(*   clients   the command line: submit, resume, -c/-C, -k, -K (main)      *)
(*   workers   "--worker" panes; the one that holds coordinator.lock       *)
(*             reconciles the table with tmux and dispatches jobs          *)
(*   wrappers  "--run-job" panes, one per execution attempt, named by the  *)
(*             attempt's token; each runs the job's command as its child   *)
(*   tmux      creates panes on request, and may be late                   *)
(*                                                                         *)
(* A step is one SQL statement or transaction, one lock operation, one     *)
(* list-panes snapshot, one tmux request or one process event.  Any        *)
(* process may be interrupted between two steps.                           *)
(***************************************************************************)
EXTENDS Naturals, Sequences, FiniteSets, Functions, JobTable

CONSTANTS Job,       \* ids of the rows that may ever be inserted, 1..n
          Worker,    \* worker processes and their panes, in the order tmux starts them
          Client,    \* command-line invocations
          Requests,  \* what an invocation may ask for
          DefaultJobs, \* slots of a new database (4 in Store.__init__)
          MaxJobs,   \* bound on -j
          MaxFaults  \* bound on crashes, killed panes and timeouts

ASSUME JobAssumption     == Job \subseteq Nat /\ IsFiniteSet(Job)
ASSUME MaxJobsAssumption == MaxJobs \in Nat /\ DefaultJobs \in 1..MaxJobs
ASSUME MaxFaultsAssumption == MaxFaults \in Nat
ASSUME NoneAssumption    == None \notin Token \cup Worker \cup Client \cup Job /\ None \notin Requests
ASSUME DistinctAssumption ==
  /\ Token \cap Worker = {}
  /\ Client \cap Worker = {}

\* The parsed arguments. -k and -K read no commands; limit 0 is "no -j".
Request == [cmds : Seq(Command), unique : BOOLEAN,
            mode : {"keep", "blocking", "continue"},
            limit : 0..MaxJobs, stop : {"no", "drain", "kill"}]

ASSUME RequestsAssumption ==
  /\ Requests \subseteq Request
  /\ \A r \in Requests : r.stop # "no" => r.cmds = << >>

VARIABLES
  \* the database
  jobs,        \* jobs[j]: the row of job j
  mode,        \* setting "mode": "blocking" or "continue"
  stop,        \* setting "stop": dispatch is stopped
  limit,       \* setting "jobs": number of slots
  marker,      \* setting "worker": pane of the coordinator, None for ''
  \* the lock files: who holds them, or None
  launchLock,
  coordLock,
  \* the tmux session
  panes,       \* live panes, by worker or by attempt token
  owned,       \* option @tmux-jobs-python of the session is set
  \* execution attempts
  owner,       \* owner[t]: the job that attempt t executes, None before launch
  wrap,        \* wrap[t]: where the wrapper process of attempt t is
  child,       \* child[t]: the command of attempt t: not started, running, or how it ended
  \* workers
  wk,          \* wk[w]: where worker w is
  snap,        \* snap[w]: tokens of its last list-panes
  batch,       \* batch[w]: queued jobs it still has to launch in this round
  cur,         \* cur[w]: the attempt it waits for tmux to create
  \* clients
  cl,          \* cl[c]: where client c is
  req,         \* req[c]: what it was asked, None before it starts
  seen,        \* seen[c]: the panes it will kill (-K)
  cw,          \* cw[c]: the worker it started
  faults       \* crashes, kills and timeouts so far

settings == <<mode, stop, limit, marker>>
locks    == <<launchLock, coordLock>>
session  == <<panes, owned>>
attempts == <<owner, wrap, child>>
workers  == <<wk, snap, batch, cur>>
clients  == <<cl, req, seen, cw>>
vars == <<jobs, settings, locks, session, attempts, workers, clients, faults>>

WorkerPC == {"none", "boot", "mark", "recover", "requeue", "snap", "reconcile",
             "lock", "dispatch", "request", "release", "unlock", "closing", "gone"}
WrapPC   == {"none", "requested", "boot", "claimed", "forked", "exec",
             "killing", "held", "gone"}
ChildState == {"none", "run", "ok", "fail", "killed"}
ClientPC == {"idle", "owner", "settings", "enqueue", "wake", "probe", "trylock", "unprobe",
             "start", "window", "session", "own", "wait",
             "killSnap", "killRows", "fence", "killPanes", "done", "failed"}

TypeOK ==
  /\ jobs \in [Job -> Row]
  /\ mode \in {"blocking", "continue"}
  /\ stop \in BOOLEAN
  /\ limit \in 1..MaxJobs
  /\ marker \in Worker \cup {None}
  /\ launchLock \in Worker \cup Client \cup {None}
  /\ coordLock \in Worker \cup Client \cup {None}
  /\ panes \subseteq Worker \cup Token
  /\ owned \in BOOLEAN
  /\ owner \in [Token -> Job \cup {None}]
  /\ wrap \in [Token -> WrapPC]
  /\ child \in [Token -> ChildState]
  /\ wk \in [Worker -> WorkerPC]
  /\ snap \in [Worker -> SUBSET Token]
  /\ batch \in [Worker -> SUBSET Job]
  /\ cur \in [Worker -> Token \cup {None}]
  /\ cl \in [Client -> ClientPC]
  /\ req \in [Client -> Requests \cup {None}]
  /\ seen \in [Client -> SUBSET (Worker \cup Token)]
  /\ cw \in [Client -> Worker \cup {None}]
  /\ faults \in 0..MaxFaults

\* A new state directory (Store.__init__) and no tmux session.
Init ==
  /\ jobs = [j \in Job |-> AbsentRow]
  /\ mode = "blocking" /\ stop = FALSE /\ limit = DefaultJobs /\ marker = None
  /\ launchLock = None /\ coordLock = None
  /\ panes = {} /\ owned = FALSE
  /\ owner = [t \in Token |-> None]
  /\ wrap = [t \in Token |-> "none"]
  /\ child = [t \in Token |-> "none"]
  /\ wk = [w \in Worker |-> "none"]
  /\ snap = [w \in Worker |-> {}]
  /\ batch = [w \in Worker |-> {}]
  /\ cur = [w \in Worker |-> None]
  /\ cl = [c \in Client |-> "idle"]
  /\ req = [c \in Client |-> None]
  /\ seen = [c \in Client |-> {}]
  /\ cw = [c \in Client |-> None]
  /\ faults = 0

----------------------------------------------------------------------------
\* Queries.

InState(S) == {j \in Job : jobs[j].state \in S}
ActiveTokens == {jobs[j].token : j \in InState(ACTIVE)}
LiveTokens == panes \cap Token
SessionExists == panes # {}

WorkerAlive(w) == wk[w] \notin {"none", "gone"}
WrapperAlive(t) == wrap[t] \notin {"none", "requested", "gone"}

\* The n first elements of a set of ids (ORDER BY id, then the slice [:n]).
FirstIds(S, n) == {j \in S : Cardinality({i \in S : i < j}) < n}

\* tmux destroys panes; the session, with its options, goes with its last pane.
ClosePanes(S) ==
  /\ panes' = panes \ S
  /\ owned' = (owned /\ panes \ S # {})

\* flock is released when its holder exits.
Unlock(p) ==
  /\ launchLock' = IF launchLock = p THEN None ELSE launchLock
  /\ coordLock' = IF coordLock = p THEN None ELSE coordLock

Fault == faults < MaxFaults /\ faults' = faults + 1

----------------------------------------------------------------------------
(***************************************************************************)
(* The worker (worker, reconcile, launch_job).                             *)
(***************************************************************************)

WorkerGoto(w, pc) == wk' = [wk EXCEPT ![w] = pc]

\* A bug for the runs to find: a worker also wants launch.lock to start.
StartUnderLaunchLock(w) ==
  /\ wk[w] = "boot"
  /\ launchLock = None
  /\ coordLock = None
  /\ coordLock' = w
  /\ WorkerGoto(w, "mark")
  /\ UNCHANGED <<jobs, settings, launchLock, session, attempts, snap, batch, cur, clients,
                 faults>>

\* coordinator.lock is taken without blocking: a second worker just returns.
WorkerStart(w) ==
  /\ wk[w] = "boot"
  /\ \/ /\ coordLock = None
        /\ coordLock' = w
        /\ WorkerGoto(w, "mark")
        /\ UNCHANGED session
     \/ /\ coordLock # None
        /\ WorkerGoto(w, "gone")
        /\ ClosePanes({w})
        /\ UNCHANGED coordLock
  /\ UNCHANGED <<jobs, settings, launchLock, attempts, snap, batch, cur, clients, faults>>

\* A bug for the runs to find: a new coordinator does not recover first.
MarkWithoutRecovery(w) ==
  /\ wk[w] = "mark"
  /\ marker' = w
  /\ WorkerGoto(w, "snap")
  /\ UNCHANGED <<jobs, mode, stop, limit, locks, session, attempts, snap, batch, cur,
                 clients, faults>>

WorkerMark(w) ==
  /\ wk[w] = "mark"
  /\ marker' = w
  /\ WorkerGoto(w, "recover")
  /\ UNCHANGED <<jobs, mode, stop, limit, locks, session, attempts, snap, batch, cur,
                 clients, faults>>

\* reconcile takes its list-panes snapshot before it opens the transaction.
WorkerSnapshot(w) ==
  /\ \/ wk[w] = "recover" /\ WorkerGoto(w, "requeue")
     \/ wk[w] = "snap" /\ WorkerGoto(w, "reconcile")
  /\ snap' = [snap EXCEPT ![w] = LiveTokens]
  /\ UNCHANGED <<jobs, settings, locks, session, attempts, batch, cur, clients, faults>>

WorkerReconcile(w) ==
  /\ \/ wk[w] = "requeue" /\ WorkerGoto(w, "snap")
     \/ wk[w] = "reconcile" /\ WorkerGoto(w, "lock")
  /\ jobs' = [j \in Job |-> Reconciled(jobs[j], snap[w], wk[w] = "requeue")]
  /\ snap' = [snap EXCEPT ![w] = {}]
  /\ UNCHANGED <<settings, locks, session, attempts, batch, cur, clients, faults>>

\* A bug for the runs to find: active jobs are not counted.
AllSlots == limit

FreeSlots == LET used == Cardinality(InState(ACTIVE))
             IN  IF used < limit THEN limit - used ELSE 0

\* Under launch.lock: count the slots in use once and fix the jobs to launch.
WorkerLock(w) ==
  /\ wk[w] = "lock"
  /\ launchLock = None
  /\ launchLock' = w
  /\ batch' = [batch EXCEPT ![w] =
                  IF stop THEN {} ELSE FirstIds(InState({"queued"}), FreeSlots)]
  /\ WorkerGoto(w, "dispatch")
  /\ UNCHANGED <<jobs, settings, coordLock, session, attempts, snap, cur, clients, faults>>

\* launch_job: the fresh token is in the table before tmux is asked for a pane.
WorkerLaunch(w, j, t) ==
  /\ wk[w] = "dispatch"
  /\ j \in batch[w]
  /\ \A i \in batch[w] : j <= i
  /\ wrap[t] = "none"
  /\ jobs' = [jobs EXCEPT ![j] = Launched(@, t)]
  /\ owner' = [owner EXCEPT ![t] = j]
  /\ wrap' = [wrap EXCEPT ![t] = "requested"]
  /\ cur' = [cur EXCEPT ![w] = t]
  /\ WorkerGoto(w, "request")
  /\ UNCHANGED <<settings, locks, session, child, snap, batch, clients, faults>>

\* A bug for the runs to find: the worker goes on without waiting for the pane.
LaunchedUnanswered(w) ==
  /\ wk[w] = "request"
  /\ batch' = [batch EXCEPT ![w] = @ \ {owner[cur[w]]}]
  /\ cur' = [cur EXCEPT ![w] = None]
  /\ WorkerGoto(w, "dispatch")
  /\ UNCHANGED <<jobs, settings, locks, session, attempts, snap, clients, faults>>

\* tmux has answered with the pane.
WorkerLaunched(w) ==
  /\ wk[w] = "request"
  /\ wrap[cur[w]] # "requested"
  /\ batch' = [batch EXCEPT ![w] = @ \ {owner[cur[w]]}]
  /\ cur' = [cur EXCEPT ![w] = None]
  /\ WorkerGoto(w, "dispatch")
  /\ UNCHANGED <<jobs, settings, locks, session, attempts, snap, clients, faults>>

Idle == InState(ACTIVE) = {} /\ (stop \/ InState({"queued"}) = {})

\* A bug for the runs to find: the marker stays and launch.lock goes first.
RoundEndMarked(w) ==
  /\ wk[w] = "dispatch"
  /\ batch[w] = {}
  /\ launchLock' = None
  /\ WorkerGoto(w, IF Idle THEN "release" ELSE "snap")
  /\ UNCHANGED <<jobs, settings, coordLock, session, attempts, snap, batch, cur, clients,
                 faults>>

\* End of a round: leave when nothing is active and nothing may be started.
WorkerRoundEnd(w) ==
  /\ wk[w] = "dispatch"
  /\ batch[w] = {}
  /\ \/ /\ Idle
        /\ marker' = None
        /\ WorkerGoto(w, "release")
        /\ UNCHANGED launchLock
     \/ /\ ~Idle
        /\ launchLock' = None
        /\ WorkerGoto(w, "snap")
        /\ UNCHANGED marker
  /\ UNCHANGED <<jobs, mode, stop, limit, coordLock, session, attempts, snap, batch, cur,
                 clients, faults>>

\* A bug for the runs to find: coordinator.lock is kept beyond launch.lock.
ReleaseLate(w) ==
  /\ wk[w] = "release"
  /\ WorkerGoto(w, "unlock")
  /\ UNCHANGED <<jobs, settings, locks, session, attempts, snap, batch, cur, clients, faults>>

\* coordinator.lock goes first, launch.lock after it.
WorkerRelease(w) ==
  /\ wk[w] = "release"
  /\ coordLock' = None
  /\ WorkerGoto(w, "unlock")
  /\ UNCHANGED <<jobs, settings, launchLock, session, attempts, snap, batch, cur, clients,
                 faults>>

WorkerUnlock(w) ==
  /\ wk[w] = "unlock"
  /\ launchLock' = None
  /\ WorkerGoto(w, "closing")
  /\ UNCHANGED <<jobs, settings, coordLock, session, attempts, snap, batch, cur, clients,
                 faults>>

\* After the last notification the process exits and its pane closes.
WorkerExit(w) ==
  /\ wk[w] = "closing"
  /\ WorkerGoto(w, "gone")
  /\ ClosePanes({w})
  /\ UNCHANGED <<jobs, settings, locks, attempts, snap, batch, cur, clients, faults>>

\* A tmux request that fails or times out, a database error, a signal: the worker dies
\* where it is.  When its pane is gone the SIGHUP is already on its way.
WorkerDie(w) ==
  /\ WorkerAlive(w)
  /\ IF w \in panes THEN Fault ELSE UNCHANGED faults
  /\ WorkerGoto(w, "gone")
  /\ snap' = [snap EXCEPT ![w] = {}]
  /\ batch' = [batch EXCEPT ![w] = {}]
  /\ cur' = [cur EXCEPT ![w] = None]
  /\ ClosePanes({w})
  /\ Unlock(w)
  /\ UNCHANGED <<jobs, settings, attempts, clients>>

----------------------------------------------------------------------------
(***************************************************************************)
(* The attempt: tmux creates its pane, the wrapper (execute_job) claims    *)
(* the job, runs the command and writes the outcome.                       *)
(***************************************************************************)

WrapperGoto(t, pc) == wrap' = [wrap EXCEPT ![t] = pc]

JobOf(t) == jobs[owner[t]]

WrapperEnds(t) == WrapperGoto(t, "gone") /\ ClosePanes({t})

\* The pane of a requested attempt comes up, also after the worker gave up on the
\* request.  Without a session the request fails for good.
PaneAppears(t) ==
  /\ wrap[t] = "requested"
  /\ SessionExists
  /\ panes' = panes \cup {t}
  /\ WrapperGoto(t, "boot")
  /\ UNCHANGED <<jobs, settings, locks, owned, owner, child, workers, clients, faults>>

\* starting -> running, only for the attempt that still owns the row.
WrapperClaim(t) ==
  /\ wrap[t] = "boot"
  /\ \/ /\ Owned(JobOf(t), t, {"starting"})
        /\ jobs' = [jobs EXCEPT ![owner[t]] = Claimed(@)]
        /\ WrapperGoto(t, "claimed")
        /\ UNCHANGED session
     \/ /\ ~Owned(JobOf(t), t, {"starting"})
        /\ WrapperEnds(t)
        /\ UNCHANGED jobs
  /\ UNCHANGED <<settings, locks, owner, child, workers, clients, faults>>

\* Popen: the command runs before the variable the signal handler reads is assigned.
\* A command that cannot be executed is a failure with rc=127.
WrapperSpawn(t) ==
  /\ wrap[t] = "claimed"
  /\ \/ child' = [child EXCEPT ![t] = "run"] /\ WrapperGoto(t, "forked")
     \/ child' = [child EXCEPT ![t] = "fail"] /\ WrapperGoto(t, "exec")
  /\ UNCHANGED <<jobs, settings, locks, session, owner, workers, clients, faults>>

WrapperAssign(t) ==
  /\ wrap[t] = "forked"
  /\ WrapperGoto(t, "exec")
  /\ UNCHANGED <<jobs, settings, locks, session, owner, child, workers, clients, faults>>

\* The command ends by itself; it does not need its wrapper for that.
ChildExit(t) ==
  /\ child[t] = "run"
  /\ \E r \in {"ok", "fail"} : child' = [child EXCEPT ![t] = r]
  /\ UNCHANGED <<jobs, settings, locks, session, owner, wrap, workers, clients, faults>>

\* running -> done or held, only for the attempt that still owns the row.
WrapperCommit(t) ==
  /\ wrap[t] = "exec"
  /\ child[t] \in {"ok", "fail"}
  /\ \/ /\ Owned(JobOf(t), t, {"running"})
        /\ jobs' = [jobs EXCEPT ![owner[t]] = Recorded(@, child[t])]
        /\ IF child[t] = "fail" THEN WrapperGoto(t, "held") /\ UNCHANGED session
                                ELSE WrapperEnds(t)
     \/ /\ ~Owned(JobOf(t), t, {"running"})
        /\ WrapperEnds(t)
        /\ UNCHANGED jobs
  /\ UNCHANGED <<settings, locks, owner, child, workers, clients, faults>>

\* Leaving the wait for ENTER: the final UPDATE is fenced like the others.
HeldRelease(t) ==
  /\ wrap[t] = "held"
  /\ jobs' = IF Owned(JobOf(t), t, {"held"})
             THEN [jobs EXCEPT ![owner[t]] = Released(@)] ELSE jobs
  /\ WrapperEnds(t)
  /\ UNCHANGED <<settings, locks, owner, child, workers, clients, faults>>

HeldContinue(t) == mode = "continue" /\ HeldRelease(t)

\* The user presses ENTER in the pane of a job that is still held.
HeldEnter(t) ==
  /\ wrap[t] = "held"
  /\ mode # "continue"
  /\ Owned(JobOf(t), t, {"held"})
  /\ t \in panes
  /\ HeldRelease(t)

\* Somebody else released the slot.
HeldLost(t) ==
  /\ wrap[t] = "held"
  /\ mode # "continue"
  /\ ~Owned(JobOf(t), t, {"held"})
  /\ WrapperEnds(t)
  /\ UNCHANGED <<jobs, settings, locks, owner, child, workers, clients, faults>>

\* SIGHUP from a closed pane (or, as a fault, a signal to the process in a live one).
\* Only a wrapper that knows its child kills it; the database is left alone.
WrapperSignal(t) ==
  /\ WrapperAlive(t) /\ wrap[t] # "killing"
  /\ IF t \in panes THEN Fault ELSE UNCHANGED faults
  /\ IF wrap[t] = "exec" /\ child[t] = "run"
       THEN WrapperGoto(t, "killing") /\ UNCHANGED session
       ELSE WrapperEnds(t)
  /\ UNCHANGED <<jobs, settings, locks, owner, child, workers, clients>>

\* SIGTERM, five seconds later SIGKILL; the command may still end by itself before.
WrapperKilled(t) ==
  /\ wrap[t] = "killing"
  /\ child' = [child EXCEPT ![t] = IF @ = "run" THEN "killed" ELSE @]
  /\ WrapperEnds(t)
  /\ UNCHANGED <<jobs, settings, locks, owner, workers, clients, faults>>

----------------------------------------------------------------------------
(***************************************************************************)
(* The client (main, ensure_worker).  Every invocation works under         *)
(* launch.lock from its first write to its exit.                           *)
(***************************************************************************)

ClientGoto(c, pc) == cl' = [cl EXCEPT ![c] = pc]

Leave(c, pc) == ClientGoto(c, pc) /\ launchLock' = None

Killed == \E c \in Client : req[c] # None /\ req[c].stop = "kill"

\* What follows the settings; "done" is the end of an invocation that only changes them.
FirstStep(r) ==
  CASE r.stop = "kill"  -> "killSnap"
    [] r.stop = "drain" -> "done"
    [] r.stop = "no" /\ r.cmds # << >> -> "enqueue"
    [] r.stop = "no" /\ r.cmds = << >> /\ r.mode # "blocking" -> "wake"
    [] r.stop = "no" /\ r.cmds = << >> /\ r.mode = "blocking" -> "done"

\* Lock, and the has-session of check_owner.
ClientBegin(c, r) ==
  /\ cl[c] = "idle"
  /\ launchLock = None
  /\ Len(r.cmds) <= Cardinality(InState({"absent"}))  \* bound: Job
  /\ launchLock' = c
  /\ req' = [req EXCEPT ![c] = r]
  /\ ClientGoto(c, IF SessionExists THEN "owner" ELSE "settings")
  /\ UNCHANGED <<jobs, settings, coordLock, session, attempts, workers, seen, cw, faults>>

\* show-options: refuse a session without our option; fail on one that has just ended.
ClientCheckOwner(c) ==
  /\ cl[c] = "owner"
  /\ IF SessionExists /\ owned THEN ClientGoto(c, "settings") /\ UNCHANGED launchLock
                                ELSE Leave(c, "failed")
  /\ UNCHANGED <<jobs, settings, coordLock, session, attempts, workers, req, seen, cw,
                 faults>>

\* -c and -C, -j, -k and -K, in one step: wrappers read only the mode, workers the rest
\* under launch.lock.
ClientSettings(c) ==
  /\ cl[c] = "settings"
  /\ mode' = IF req[c].mode = "keep" THEN mode ELSE req[c].mode
  /\ limit' = IF req[c].limit = 0 THEN limit ELSE req[c].limit
  /\ stop' = (stop \/ req[c].stop # "no")
  /\ ClientGoto(c, FirstStep(req[c]))
  /\ launchLock' = IF FirstStep(req[c]) = "done" THEN None ELSE launchLock
  /\ UNCHANGED <<jobs, marker, coordLock, session, attempts, workers, req, seen, cw, faults>>

\* A bug for the runs to find: --unique looks at queued jobs only.
AcceptedUnlessQueued(r) ==
  {i \in DOMAIN r.cmds :
     r.unique => /\ r.cmds[i] \notin {jobs[j].cmd : j \in InState({"queued"})}
                 /\ \A k \in 1..(i - 1) : r.cmds[k] # r.cmds[i]}

\* The records of a batch that are inserted: --unique skips what is pending by then.
Accepted(r) ==
  LET pending == {jobs[j].cmd : j \in InState(ACTIVE \cup {"queued"})}
  IN  {i \in DOMAIN r.cmds :
         r.unique => /\ r.cmds[i] \notin pending
                     /\ \A k \in 1..(i - 1) : r.cmds[k] # r.cmds[i]}

\* Store.enqueue: one transaction; records get ascending ids.
ClientEnqueue(c) ==
  /\ cl[c] = "enqueue"
  /\ LET ids == FirstIds(InState({"absent"}), Cardinality(Accepted(req[c])))
     IN  \E record \in Bijection(ids, Accepted(req[c])) :
           /\ \A i, j \in ids : i < j => record[i] < record[j]
           /\ jobs' = [j \in Job |-> IF j \in ids THEN InsertedRow(req[c].cmds[record[j]])
                                                ELSE jobs[j]]
  /\ ClientGoto(c, "wake")
  /\ UNCHANGED <<settings, locks, session, attempts, workers, req, seen, cw, faults>>

ClientWake(c) ==
  /\ cl[c] = "wake"
  /\ stop' = FALSE
  /\ IF InState(ACTIVE \cup {"queued"}) # {}
       THEN ClientGoto(c, "probe") /\ UNCHANGED launchLock
       ELSE Leave(c, "done")
  /\ UNCHANGED <<jobs, mode, limit, marker, coordLock, session, attempts, workers, req,
                 seen, cw, faults>>

\* ensure_worker: the marked pane must be live before the lock is worth a try.
ClientProbe(c) ==
  /\ cl[c] = "probe"
  /\ ClientGoto(c, IF marker \in panes THEN "trylock" ELSE "start")
  /\ UNCHANGED <<jobs, settings, locks, session, attempts, workers, req, seen, cw, faults>>

\* A held coordinator.lock means the worker is serving; a free one is taken for a moment.
ClientTryLock(c) ==
  /\ cl[c] = "trylock"
  /\ IF coordLock # None
       THEN Leave(c, "done") /\ UNCHANGED coordLock
       ELSE coordLock' = c /\ ClientGoto(c, "unprobe") /\ UNCHANGED launchLock
  /\ UNCHANGED <<jobs, settings, session, attempts, workers, req, seen, cw, faults>>

ClientUnprobe(c) ==
  /\ cl[c] = "unprobe"
  /\ coordLock' = None
  /\ ClientGoto(c, "start")
  /\ UNCHANGED <<jobs, settings, launchLock, session, attempts, workers, req, seen, cw,
                 faults>>

\* ensure_worker asks for the session and its option once more.
ClientStart(c) ==
  /\ cl[c] = "start"
  /\ IF SessionExists /\ ~owned
       THEN Leave(c, "failed")
       ELSE ClientGoto(c, IF SessionExists THEN "window" ELSE "session") /\ UNCHANGED launchLock
  /\ UNCHANGED <<jobs, settings, coordLock, session, attempts, workers, req, seen, cw,
                 faults>>

\* new-window in the session that was there, or new-session.
ClientCreate(c, w) ==
  /\ \/ cl[c] = "window" /\ SessionExists /\ ClientGoto(c, "wait")
     \/ cl[c] = "session" /\ ~SessionExists /\ ClientGoto(c, "own")
  /\ wk[w] = "none"
  /\ panes' = panes \cup {w}
  /\ wk' = [wk EXCEPT ![w] = "boot"]
  /\ cw' = [cw EXCEPT ![c] = w]
  /\ UNCHANGED <<jobs, settings, locks, owned, attempts, snap, batch, cur, req, seen, faults>>

\* The session has ended since it was asked for: new-window fails.
ClientCreateFails(c) ==
  /\ cl[c] = "window"
  /\ ~SessionExists
  /\ Leave(c, "failed")
  /\ UNCHANGED <<jobs, settings, coordLock, session, attempts, workers, req, seen, cw,
                 faults>>

\* new-session marks the session as ours afterwards.
ClientOwn(c) ==
  /\ cl[c] = "own"
  /\ IF SessionExists
       THEN owned' = TRUE /\ ClientGoto(c, "wait") /\ UNCHANGED launchLock
       ELSE Leave(c, "failed") /\ UNCHANGED owned
  /\ UNCHANGED <<jobs, settings, coordLock, panes, attempts, workers, req, seen, cw, faults>>

ClientAcknowledged(c) ==
  /\ cl[c] = "wait"
  /\ marker = cw[c]
  /\ Leave(c, "done")
  /\ UNCHANGED <<jobs, settings, coordLock, session, attempts, workers, req, seen, cw,
                 faults>>

\* Ten seconds without the marker: nothing will come from a dead worker; giving up on
\* one that is only slow is a fault of the environment.
ClientTimeout(c) ==
  /\ cl[c] = "wait"
  /\ marker # cw[c]
  /\ IF WorkerAlive(cw[c]) THEN Fault ELSE UNCHANGED faults
  /\ Leave(c, "failed")
  /\ UNCHANGED <<jobs, settings, coordLock, session, attempts, workers, req, seen, cw>>

\* -K: list the panes, then the rows that are active ...
ClientKillSnapshot(c) ==
  /\ cl[c] = "killSnap"
  /\ seen' = [seen EXCEPT ![c] = panes]
  /\ ClientGoto(c, "killRows")
  /\ UNCHANGED <<jobs, settings, locks, session, attempts, workers, req, cw, faults>>

\* ... whose panes will be killed, and those of workers.
ClientKillRows(c) ==
  /\ cl[c] = "killRows"
  /\ seen' = [seen EXCEPT ![c] = @ \cap (Worker \cup ActiveTokens)]
  /\ ClientGoto(c, "fence")
  /\ UNCHANGED <<jobs, settings, locks, session, attempts, workers, req, cw, faults>>

\* -K: the tokens leave the table before any pane is killed.
ClientFence(c) ==
  /\ cl[c] = "fence"
  /\ jobs' = [j \in Job |-> Fenced(jobs[j])]
  /\ ClientGoto(c, "killPanes")
  /\ UNCHANGED <<settings, locks, session, attempts, workers, req, seen, cw, faults>>

ClientKillPane(c, t) ==
  /\ cl[c] = "killPanes"
  /\ t \in seen[c] \cap Token
  /\ seen' = [seen EXCEPT ![c] = @ \ {t}]
  /\ ClosePanes({t})
  /\ UNCHANGED <<jobs, settings, locks, attempts, workers, cl, req, cw, faults>>

\* -K: the marked worker goes last, if its pane was among the live ones.
ClientKillWorker(c) ==
  /\ cl[c] = "killPanes"
  /\ seen[c] \cap Token = {}
  /\ ClosePanes(seen[c] \cap {marker})
  /\ marker' = None
  /\ seen' = [seen EXCEPT ![c] = {}]
  /\ Leave(c, "done")
  /\ UNCHANGED <<jobs, mode, stop, limit, coordLock, attempts, workers, req, cw, faults>>

\* Ctrl-C, a tmux or database error: the client stops between two steps.
ClientCrash(c) ==
  /\ cl[c] \notin {"idle", "done", "failed"}
  /\ Fault
  /\ ClientGoto(c, "failed")
  /\ Unlock(c)
  /\ UNCHANGED <<jobs, settings, session, attempts, workers, req, seen, cw>>

----------------------------------------------------------------------------
(***************************************************************************)
(* The environment: a pane is closed by hand, a wrapper is killed without  *)
(* a chance to react, the machine restarts.                                *)
(***************************************************************************)

UserKillsPane(t) ==
  /\ t \in panes
  /\ Fault
  /\ ClosePanes({t})
  /\ UNCHANGED <<jobs, settings, locks, attempts, workers, clients>>

\* SIGKILL or out of memory: the command has its own session and survives.
WrapperVanishes(t) ==
  /\ WrapperAlive(t)
  /\ Fault
  /\ WrapperEnds(t)
  /\ UNCHANGED <<jobs, settings, locks, owner, child, workers, clients>>

\* Only the database survives.
Reboot ==
  /\ Fault
  /\ panes' = {} /\ owned' = FALSE
  /\ launchLock' = None /\ coordLock' = None
  /\ wrap' = [t \in Token |-> IF wrap[t] = "none" THEN "none" ELSE "gone"]
  /\ child' = [t \in Token |-> IF child[t] = "run" THEN "killed" ELSE child[t]]
  /\ wk' = [w \in Worker |-> IF wk[w] = "none" THEN "none" ELSE "gone"]
  /\ snap' = [w \in Worker |-> {}]
  /\ batch' = [w \in Worker |-> {}]
  /\ cur' = [w \in Worker |-> None]
  /\ cl' = [c \in Client |-> IF cl[c] \in {"idle", "done"} THEN cl[c] ELSE "failed"]
  /\ UNCHANGED <<jobs, settings, owner, req, seen, cw>>

----------------------------------------------------------------------------

WorkerStep(w) ==
  \/ WorkerStart(w) \/ WorkerMark(w) \/ WorkerSnapshot(w) \/ WorkerReconcile(w)
  \/ WorkerLock(w) \/ WorkerLaunched(w) \/ WorkerRoundEnd(w) \/ WorkerRelease(w)
  \/ WorkerUnlock(w) \/ WorkerExit(w)
  \/ \E j \in Job, t \in Token : WorkerLaunch(w, j, t)

WrapperStep(t) ==
  \/ WrapperClaim(t) \/ WrapperSpawn(t) \/ WrapperAssign(t)
  \/ ChildExit(t) \/ WrapperCommit(t) \/ HeldContinue(t) \/ HeldLost(t)
  \/ WrapperKilled(t)

ClientStep(c) ==
  \/ ClientCheckOwner(c) \/ ClientSettings(c) \/ ClientEnqueue(c) \/ ClientWake(c)
  \/ ClientProbe(c) \/ ClientTryLock(c) \/ ClientUnprobe(c) \/ ClientStart(c)
  \/ ClientCreateFails(c) \/ ClientOwn(c) \/ ClientAcknowledged(c) \/ ClientTimeout(c)
  \/ ClientKillSnapshot(c) \/ ClientKillRows(c) \/ ClientFence(c) \/ ClientKillWorker(c)
  \/ \E w \in Worker : ClientCreate(c, w)
  \/ \E t \in Token : ClientKillPane(c, t)

Environment ==
  \/ \E c \in Client, r \in Requests : ClientBegin(c, r)
  \/ \E c \in Client : ClientCrash(c)
  \/ \E w \in Worker : WorkerDie(w)
  \/ \E t \in Token : PaneAppears(t) \/ HeldEnter(t) \/ WrapperSignal(t) \/ UserKillsPane(t)
                        \/ WrapperVanishes(t)
  \/ Reboot

Next ==
  \/ \E w \in Worker : WorkerStep(w)
  \/ \E t \in Token : WrapperStep(t)
  \/ \E c \in Client : ClientStep(c)
  \/ Environment

Spec == Init /\ [][Next]_vars

(***************************************************************************)
(* Processes that are not killed keep running, and a closed pane is        *)
(* noticed: SIGHUP ends workers and wrappers.  tmux answers a worker that  *)
(* still waits for it (a timeout is a fault).  Commands terminate.  Nobody *)
(* has to call the program or to close panes.                              *)
(***************************************************************************)
Fairness ==
  /\ \A w \in Worker :
       /\ WF_vars(WorkerStep(w))
       /\ WF_vars(w \notin panes /\ WorkerDie(w))
  /\ \A t \in Token :
       /\ WF_vars(WrapperStep(t))
       /\ WF_vars(t \notin panes /\ WrapperSignal(t))
       /\ WF_vars((\E w \in Worker : cur[w] = t) /\ PaneAppears(t))
  /\ \A c \in Client : WF_vars(ClientStep(c))

\* Somebody looks at the failed panes and presses ENTER.
Attended == \A t \in Token : WF_vars(HeldEnter(t))

FairSpec == Spec /\ Fairness /\ Attended

=============================================================================

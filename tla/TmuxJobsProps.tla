--------------------------- MODULE TmuxJobsProps ---------------------------
(***************************************************************************)
(* What the executor of TmuxJobs promises: safety, action and liveness     *)
(* properties, the inductive invariant of the proofs, and the refinement   *)
(* of the abstract queue.                                                  *)
(***************************************************************************)
EXTENDS TmuxJobs

\* Nothing unusual has happened so far: no crash, no killed pane, no -K.
Undisturbed == faults = 0 /\ ~Killed

\* An attempt that the table considers active is the one tmux was asked to run for that
\* very job: reconcile, -K and the wrappers recognise it by a token that is never NULL
\* and never shared, so no attempt can answer for another job or for a later attempt.
ActiveAttemptsFenced ==
  \A j \in InState(ACTIVE) : jobs[j].token \in Token /\ owner[jobs[j].token] = j

\* A recorded return code was really returned by the command of the recorded attempt,
\* however many attempts, recoveries and kills came before it.
OutcomeIsReal ==
  \A j \in Job : jobs[j].rc \in {"ok", "fail"} =>
    /\ jobs[j].state \in {"held", "done"}
    /\ jobs[j].token \in Token
    /\ owner[jobs[j].token] = j
    /\ child[jobs[j].token] = jobs[j].rc

\* "At least once" degrades to "exactly once" while nothing is disturbed: no command is
\* ever started a second time and no job is reported interrupted.
ExactlyOnceUndisturbed ==
  Undisturbed =>
    \A j \in Job :
      /\ Cardinality({t \in Token : owner[t] = j /\ child[t] # "none"}) <= 1
      /\ jobs[j].rc # "interrupted"

\* Some worker holds coordinator.lock and is not on its way out.
SERVING == {"recover", "requeue", "snap", "reconcile", "lock"}
Served  == \E w \in Worker : coordLock = w /\ w \in panes /\ wk[w] \in SERVING

Backlog == launchLock = None /\ ~stop /\ InState({"queued"}) # {}

\* No lost wake-up, even while a worker that -K killed still dies: whenever launch.lock is
\* free, queued work that may run has a coordinator, unless an invocation reported failure.
NoLostWakeup ==
  faults = 0 /\ Backlog => Served \/ \E c \in Client : cl[c] = "failed"

\* "This closes the enqueue-versus-idle-exit race": without faults, work submitted while
\* the worker leaves is served, with no invocation excused.
IdleExitRaceClosed == Undisturbed /\ Backlog => Served

\* The one way in which an undisturbed invocation can fail: the session it had just seen
\* ended with the pane of a leaving worker.  Our own session is never refused as foreign
\* and no started worker is waited for in vain.
FailsOnlyOnVanishedSession ==
  [][\A c \in Client :
       Undisturbed /\ Undisturbed' /\ cl[c] # "failed" /\ cl'[c] = "failed" => ~SessionExists]_vars

\* "-K fences active attempts before killing their panes": while panes are being killed no
\* attempt owns a job any more, whatever wrappers, worker and tmux do meanwhile.
KillFences ==
  \A c \in Client : cl[c] = "killPanes" => InState(ACTIVE) = {}

\* A job is written off as interrupted only when its pane is really gone, although
\* reconcile works from a snapshot and tmux may create a requested pane late.
InterruptedIsGone ==
  [][\A j \in Job :
       jobs[j].rc = "none" /\ jobs'[j].rc = "interrupted" => jobs[j].token \notin panes]_vars

\* --unique: as long as every submission uses it, no command is pending twice.
UniquePending ==
  (\A c \in Client : req[c] # None => req[c].unique \/ req[c].cmds = << >>)
  => \A i, j \in InState(ACTIVE \cup {"queued"}) : jobs[i].cmd = jobs[j].cmd => i = j

\* Dispatch obeys the controls: a step that takes a job out of the queue happens while
\* dispatch is allowed and leaves no more active jobs than there are slots.
DispatchObeysControls ==
  [][(\E j \in Job : jobs[j].state = "queued" /\ jobs'[j].state = "starting")
       => ~stop /\ Cardinality(InState(ACTIVE))' <= limit]_vars

\* A finished job is finished: no late wrapper, recovery, -K or lost pane changes its
\* outcome or replays it; a held failure can only become finished, with its outcome.
RecordedIsFinal ==
  [][\A j \in Job :
       /\ jobs[j].state = "done" => jobs'[j] = jobs[j]
       /\ jobs[j].state = "held" => jobs'[j] \in {jobs[j], Released(jobs[j])}]_vars

\* With a coordinator serving and dispatch allowed, no job stays unfinished: not queued
\* behind a lost slot, not "running" in a pane that is gone, not starting for ever.
JobsFinish ==
  \A j \in Job : []<>(jobs[j].state \in {"absent", "done"} \/ stop \/ coordLock \notin Worker)

\* -k drains: a stopped executor gets rid of its coordinator, or is resumed.
DrainEnds == []<>(~stop \/ coordLock \notin Worker)

\* No invocation hangs: submitters wait for a worker under launch.lock, which that worker
\* must not need to start, and workers let go of launch.lock.
ClientsReturn == \A c \in Client : []<>(cl[c] \in {"idle", "done", "failed"})

\* Neither a drain nor an invocation waits for ever.
NobodyWaitsForever == DrainEnds /\ ClientsReturn

----------------------------------------------------------------------------
(***************************************************************************)
(* The inductive invariant behind ActiveAttemptsFenced, OutcomeIsReal and  *)
(* RecordedIsFinal.                                                        *)
(***************************************************************************)

\* A process that runs was given something to do.
Started ==
  /\ \A c \in Client : IF cl[c] = "idle" THEN req[c] = None ELSE req[c] \in Requests
  /\ \A t \in Token : IF wrap[t] = "none" THEN owner[t] = None ELSE owner[t] \in Job
  /\ \A t \in Token :
       wrap[t] \in {"none", "requested", "boot", "claimed"} => child[t] = "none"

\* The token of a row is an attempt of this job, and its outcome is that attempt's.
RowOK(j) ==
  LET row == jobs[j] IN
  /\ row.token # None => owner[row.token] = j
  /\ row.state \in ACTIVE => row.token # None
  /\ row.state \in {"absent", "queued"} => row.token = None
  /\ row.rc = "none" <=> row.state \in {"absent", "queued", "starting", "running"}
  /\ row.rc \in {"ok", "fail"} => row.token # None /\ child[row.token] = row.rc
  /\ row.state = "held" => row.rc = "fail"

\* launch.lock is what it says: one process at a time dispatches, leaves or submits.
Exclusion ==
  /\ \A w \in Worker :
       wk[w] \in {"dispatch", "request", "release", "unlock"} => launchLock = w
  /\ \A c \in Client : cl[c] \notin {"idle", "done", "failed"} => launchLock = c

\* What a dispatcher still has to launch is still queued.
BatchOK(w) ==
  /\ wk[w] \notin {"dispatch", "request"} => batch[w] = {}
  /\ wk[w] = "dispatch" => batch[w] \subseteq InState({"queued"})
  /\ wk[w] = "request" =>
       /\ cur[w] \in Token
       /\ wrap[cur[w]] # "none"
       /\ batch[w] \ {owner[cur[w]]} \subseteq InState({"queued"})

IInv ==
  /\ TypeOK
  /\ Started
  /\ \A j \in Job : RowOK(j)
  /\ Exclusion
  /\ KillFences
  /\ \A w \in Worker : BatchOK(w)

----------------------------------------------------------------------------
(***************************************************************************)
(* The inductive invariants behind DispatchObeysControls,                  *)
(* InterruptedIsGone, ExactlyOnceUndisturbed, NoLostWakeup and             *)
(* FailsOnlyOnVanishedSession.                                             *)
(***************************************************************************)

\* The slots a dispatcher counts on: those in use and those of the jobs it will launch.
Planned(w) ==
  InState(ACTIVE) \cup (IF wk[w] = "request" THEN batch[w] \ {owner[cur[w]]} ELSE batch[w])

SlotsOK(w) ==
  wk[w] \in {"dispatch", "request"} /\ batch[w] # {}
    => ~stop /\ Cardinality(Planned(w)) <= limit

\* coordinator.lock belongs to the worker that leads, or to a client that tries it.
DISPATCHING == {"dispatch", "request"}
LEADING     == {"mark", "release"} \cup SERVING \cup DISPATCHING
LeaderOK ==
  /\ \A w \in Worker : wk[w] \in LEADING <=> coordLock = w
  /\ \A c \in Client : cl[c] = "unprobe" <=> coordLock = c

\* Panes belong to processes that run, and panes once seen were created.
PanesOK ==
  /\ \A w \in Worker : w \in panes => WorkerAlive(w)
  /\ \A t \in Token : t \in panes => WrapperAlive(t)
  /\ \A w \in Worker : \A t \in snap[w] : wrap[t] \notin {"none", "requested"}

\* After its recovery a coordinator knows of every attempt whose pane may still appear, and
\* its snapshot of every active attempt that has a pane.
LostOK(w) ==
  /\ wk[w] \in (SERVING \ {"recover", "requeue"}) \cup DISPATCHING =>
       \A j \in InState(ACTIVE) :
         wrap[jobs[j].token] = "requested" => wk[w] = "request" /\ cur[w] = jobs[j].token
  /\ wk[w] = "reconcile" =>
       \A j \in InState(ACTIVE) : jobs[j].token \in snap[w] \/ jobs[j].token \notin panes

PanesInv == LeaderOK /\ PanesOK /\ \A w \in Worker : LostOK(w)

\* While nothing is disturbed nothing dies, an active row and the wrapper of its attempt are
\* at the same point, and a job has one attempt.
AtPoint(j) ==
  LET t == jobs[j].token IN
  /\ jobs[j].state = "starting" =>
       \/ wrap[t] = "boot"
       \/ wrap[t] = "requested" /\ \E w \in Worker : wk[w] = "request" /\ cur[w] = t
  /\ jobs[j].state = "running" => wrap[t] \in {"claimed", "forked", "exec"}
  /\ jobs[j].state = "held"    => wrap[t] = "held"

KILLING == {"killSnap", "killRows", "fence", "killPanes"}

UndisturbedOK ==
  /\ \A w \in Worker : WorkerAlive(w) => w \in panes
  /\ \A t \in Token : WrapperAlive(t) => t \in panes /\ wrap[t] # "killing"
  /\ \A j \in Job : AtPoint(j)
  /\ \A w \in Worker : wk[w] \in {"requeue", "reconcile"} =>
       \A j \in InState(ACTIVE) : jobs[j].token \in snap[w]
  /\ \A t \in Token : owner[t] \in Job => jobs[owner[t]].token = t
  /\ \A j \in Job : jobs[j].rc # "interrupted"

\* Without faults: a worker that starts is waited for, the marker names the coordinator as
\* long as it has its pane, and -K kills what it has stopped.
MarkerOK ==
  /\ \A w \in Worker : wk[w] \in {"boot", "mark"} =>
       w \in panes /\ \E c \in Client : cl[c] \in {"own", "wait"} /\ cw[c] = w
  /\ \A c \in Client : cl[c] \in {"own", "wait"} => cw[c] \in Worker
  /\ \A w \in Worker : marker = w <=> wk[w] \in SERVING \cup DISPATCHING /\ w \in panes
  /\ \A c \in Client : cl[c] = "trylock" => marker \in panes
  /\ \A c \in Client : cl[c] \in KILLING => stop /\ req[c].stop = "kill"
  /\ \A c \in Client : cl[c] \in KILLING \ {"killSnap"} => panes \cap Worker \subseteq seen[c]
  /\ panes # {} => owned \/ \E c \in Client : cl[c] = "own"

\* Unfinished work that may run has a coordinator, or an invocation that will see to it.
WAKING == {"wake", "probe", "trylock", "start", "window", "session", "own", "wait"}
WorkIsSeenTo ==
  ~stop /\ InState(ACTIVE \cup {"queued"}) # {} =>
    \/ Served
    \/ \E w \in Worker : wk[w] \in DISPATCHING /\ w \in panes
    \/ \E c \in Client : cl[c] \in WAKING \cup {"failed"}

\* An undisturbed invocation that needs a worker finds coordinator.lock free for it.
StarterOK ==
  \A c \in Client :
    /\ cl[c] \in {"start", "window", "session"} => coordLock = None
    /\ cl[c] \in {"own", "wait"} =>
         \/ wk[cw[c]] = "boot" /\ coordLock = None
         \/ wk[cw[c]] \in {"mark"} \cup SERVING

ExecutorInv ==
  /\ IInv
  /\ \A w \in Worker : SlotsOK(w)
  /\ PanesInv
  /\ Undisturbed => UndisturbedOK /\ StarterOK
  /\ faults = 0 => MarkerOK /\ WorkIsSeenTo

----------------------------------------------------------------------------
(***************************************************************************)
(* The executor implements the queue of JobQueue: a held failure is a      *)
(* finished job that still occupies a slot.                                *)
(***************************************************************************)

Status(row) == IF row.state \in {"starting", "running"} THEN "running"
               ELSE IF row.state = "held" THEN "done" ELSE row.state

Queue == INSTANCE JobQueue WITH
  Attempt <- Token,
  status  <- [j \in Job |-> Status(jobs[j])],
  attempt <- [j \in Job |-> jobs[j].token],
  outcome <- [j \in Job |-> jobs[j].rc],
  begun   <- {t \in Token : wrap[t] # "none"},
  result  <- [t \in Token |-> IF child[t] \in {"ok", "fail"} THEN child[t] ELSE "none"]

\* Every step of panes, processes, crashes and recoveries is a step of the abstract queue
\* or none: one attempt at a time per job, outcomes only from that attempt, no outcome
\* lost or changed, a batch accepted as a whole.
ImplementsQueue == Queue!Spec
=============================================================================

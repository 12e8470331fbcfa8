------------------------------ MODULE BashJobs ------------------------------
(***************************************************************************)
(* src/tmux/bin/tmux-jobs, the executor in Bash that tmux-jobs.py follows: *)
(* submitters append records to a queue file, one coordinator, which runs  *)
(* in a pane of a tmux session, claims them and starts each in a pane of   *)
(* its own, and a wrapper in that pane tells it of the end through a FIFO. *)
(*                                                                         *)
(* Records are distinct (they start with the time).  tmux is external: a   *)
(* session is there as long as it has a pane, a FIFO holds nothing that no *)
(* process has open.  Left out: the text of logs and notifications, the    *)
(* dry run, and what the run without a worker would do (it is unreachable).*)
(***************************************************************************)
EXTENDS Integers, Sequences, SequencesExt, FiniteSets

CONSTANTS MaxRecords,      \* what is submitted, numbered in this order
          Slots,           \* njobs
          MaxCoordinators, \* bounds: coordinators started,
          MaxMeddling      \* control commands, and panes that die or are closed
ASSUME BashAssumption ==
  MaxRecords \in Nat /\ Slots \in Nat \ {0} /\ MaxCoordinators \in Nat /\ MaxMeddling \in Nat

Submission == 1 .. MaxRecords

VARIABLES
  queueTxt,     \* the files of the session: queue.txt,
  inflight,     \*   inflight,
  logs,         \*   success.log and failure.log, <<record, how>>,
  stopFile,     \*   stop,
  modeFile,     \*   mode: "adaptive" if there is none
  coord,        \* the coordinator: [pc, gen, seq, claim, jobs, failed]
  panes,        \* the panes of jobs: [gen, job, record, st, titled, mapped, resume]
  eventsFifo,   \* events.fifo: [gen, job, state, ok]; gen is observed
  blocked,      \* the events that pane-died hooks wait to write
  submitting,   \* a submitter has queued its records and has not looked at the session
  submitted,    \* observed: the records submitted,
  torn,         \*   those whose coordinator died in the middle of the claim,
  untold,       \*   those whose failure was not told to the coordinator that read,
  confused,     \*   the coordinator took a former one's event for its own,
  starts,       \*   how often each record was started,
  meddled       \* counted for the bound
bashVars == <<queueTxt, inflight, logs, stopFile, modeFile, coord, panes, eventsFifo, blocked,
              submitting, submitted, torn, untold, confused, starts, meddled>>

NoCoord == [pc |-> "none", gen |-> 0, seq |-> 0, claim |-> {}, jobs |-> << >>, failed |-> {}]

BashInit ==
  /\ queueTxt = << >> /\ inflight = << >> /\ logs = {} /\ stopFile = FALSE
  /\ modeFile = "adaptive" /\ coord = NoCoord /\ panes = {} /\ eventsFifo = << >>
  /\ blocked = {} /\ submitting = FALSE /\ submitted = {} /\ torn = {} /\ untold = {}
  /\ confused = FALSE /\ starts = [r \in Submission |-> 0] /\ meddled = 0

SessionFiles    == <<queueTxt, inflight, logs, stopFile, modeFile>>
Observed == <<submitted, torn, untold, confused, starts, meddled>>

HasSession == coord.pc # "none" \/ panes # {}
Running    == Cardinality(DOMAIN coord.jobs)  \* running, and the tokens missing in sem.fifo
ReadsControl    == coord.pc \in {"starting", "popped", "claimed", "dispatched", "reading", "leaving"}
At(label)  == coord.pc = label

-----------------------------------------------------------------------------
(* Submitting, and the control commands *)

\* tmux new-session, or new-window: a coordinator that holds coordinator.lock
Launch ==
  /\ coord.gen < MaxCoordinators
  /\ coord' = [NoCoord EXCEPT !.pc = "locked", !.gen = coord.gen + 1]

Submit(r) ==
  /\ r = Cardinality(submitted) + 1 /\ submitted' = submitted \cup {r}
  /\ stopFile' = FALSE /\ queueTxt' = Append(queueTxt, r) /\ submitting' = TRUE
  /\ UNCHANGED <<inflight, logs, modeFile, coord, panes, eventsFifo, blocked, torn, untold,
                 confused, starts, meddled>>

\* A submitter starts a coordinator only with a session of its own (-c: unattended).
Submitted(keepgoing) ==
  /\ submitting /\ submitting' = FALSE
  /\ IF HasSession THEN UNCHANGED <<coord, modeFile>>
     ELSE Launch /\ modeFile' = IF keepgoing THEN "continue" ELSE modeFile
  /\ UNCHANGED <<queueTxt, inflight, logs, stopFile, panes, eventsFifo, blocked, Observed>>

Meddling == meddled < MaxMeddling /\ meddled' = meddled + 1

\* tmux-jobs -c and -C: the one for the panes that are held, and to start again what was left
Control(keepgoing) ==
  LET restarts == keepgoing /\ queueTxt \o inflight # << >> /\ At("none")
  IN /\ IF restarts THEN Launch /\ UNCHANGED meddled ELSE Meddling /\ UNCHANGED coord
     /\ modeFile' = IF keepgoing THEN "continue" ELSE "blocking"
     /\ UNCHANGED <<queueTxt, inflight, logs, stopFile, panes, eventsFifo, blocked, submitting,
                    submitted, torn, untold, confused, starts>>

\* What the end of its coordinator does: FIFOs lose their content, a claim may be half done.
CoordinatorGone ==
  /\ coord' = [NoCoord EXCEPT !.gen = coord.gen] /\ eventsFifo' = << >>
  /\ torn' = IF At("popped") THEN torn \cup coord.claim ELSE torn

\* tmux-jobs -k; -K also kills the coordinator's pane and those with a job's title
Drain(killAll) ==
  /\ Meddling /\ stopFile' = TRUE
  /\ IF killAll /\ ~At("none")
     THEN CoordinatorGone ELSE UNCHANGED <<coord, eventsFifo, torn>>
  /\ panes' = IF killAll THEN {p \in panes : ~p.titled} ELSE panes
  /\ UNCHANGED <<queueTxt, inflight, logs, modeFile, blocked, submitting, submitted, untold,
                 confused, starts>>

-----------------------------------------------------------------------------
(* The coordinator *)

\* Crash recovery: what a former coordinator had claimed goes back to the queue.
Requeue ==
  /\ At("locked")
  /\ IF inflight = << >> THEN coord' = [coord EXCEPT !.pc = "starting"] /\ UNCHANGED queueTxt
     ELSE coord' = [coord EXCEPT !.pc = "requeued"] /\ queueTxt' = queueTxt \o inflight
  /\ UNCHANGED <<inflight, logs, stopFile, modeFile, panes, eventsFifo, blocked, submitting,
                 Observed>>
ForgetClaims ==
  /\ At("requeued") /\ coord' = [coord EXCEPT !.pc = "starting"] /\ inflight' = << >>
  /\ UNCHANGED <<queueTxt, logs, stopFile, modeFile, panes, eventsFifo, blocked, submitting,
                 Observed>>

MayStart == Running < Slots /\ ~stopFile /\ queueTxt # << >>

\* _queue_take_first: the queue is replaced, then the record is written to inflight.
TakeFirst ==
  /\ At("starting") /\ MayStart
  /\ queueTxt' = Tail(queueTxt)
  /\ coord' = [coord EXCEPT !.pc = "popped", !.claim = {Head(queueTxt)}]
  /\ UNCHANGED <<inflight, logs, stopFile, modeFile, panes, eventsFifo, blocked, submitting,
                 Observed>>
ClaimedUnwritten(r) ==
  /\ At("popped") /\ r \in coord.claim
  /\ coord' = [coord EXCEPT !.pc = "claimed", !.seq = @ + 1]
  /\ UNCHANGED <<SessionFiles, panes, eventsFifo, blocked, submitting, Observed>>
Claimed(r) ==
  /\ At("popped") /\ r \in coord.claim /\ inflight' = Append(inflight, r)
  /\ coord' = [coord EXCEPT !.pc = "claimed", !.seq = @ + 1]
  /\ UNCHANGED <<queueTxt, logs, stopFile, modeFile, panes, eventsFifo, blocked, submitting,
                 Observed>>

\* dispatch: a new pane, by split-window or new-window
Dispatch(r) ==
  /\ At("claimed") /\ r \in coord.claim /\ coord' = [coord EXCEPT !.pc = "dispatched"]
  /\ panes' = panes \cup {[gen |-> coord.gen, job |-> coord.seq, record |-> r, st |-> "run",
                           titled |-> FALSE, mapped |-> FALSE, resume |-> FALSE]}
  /\ starts' = [starts EXCEPT ![r] = @ + 1]
  /\ UNCHANGED <<SessionFiles, eventsFifo, blocked, submitting, submitted, torn, untold, confused,
                 meddled>>

\* Neither: under errexit it is the end of the coordinator.
DispatchFails ==
  /\ At("claimed") /\ Meddling /\ CoordinatorGone
  /\ UNCHANGED <<SessionFiles, panes, blocked, submitting, submitted, untold, confused,
                 starts>>

Enqueued(job, r)  == [j \in DOMAIN coord.jobs \cup {job} |-> IF j = job THEN r ELSE coord.jobs[j]]
Forgotten(job) == [j \in DOMAIN coord.jobs \ {job} |-> coord.jobs[j]]

\* The pane gets its title and its map file, if it is still there, and counts.
Mapped(r) ==
  LET own(p) == p.gen = coord.gen /\ p.job = coord.seq
  IN /\ At("dispatched") /\ r \in coord.claim
     /\ panes' = {IF own(p) THEN [p EXCEPT !.titled = TRUE, !.mapped = TRUE] ELSE p : p \in panes}
     /\ coord' = [coord EXCEPT !.pc = "starting", !.claim = {},
                               !.jobs = Enqueued(coord.seq, r)]
     /\ UNCHANGED <<SessionFiles, eventsFifo, blocked, submitting, Observed>>

\* _start_queued has nothing more to start; without a job that runs, the coordinator leaves.
Started ==
  /\ At("starting") /\ ~MayStart
  /\ coord' = [coord EXCEPT !.pc = IF Running = 0 THEN "leaving" ELSE "reading"]
  /\ UNCHANGED <<SessionFiles, panes, eventsFifo, blocked, submitting, Observed>>
Leave ==
  /\ At("leaving") /\ CoordinatorGone
  /\ UNCHANGED <<SessionFiles, panes, blocked, submitting, submitted, untold, confused, starts,
                 meddled>>

\* The first line that is the record goes.
InflightRemove(lines, record) ==
  IF record \notin ToSet(lines) THEN lines
  ELSE RemoveAt(lines, CHOOSE k \in DOMAIN lines :
                         lines[k] = record /\ \A i \in 1 .. k - 1 : lines[i] # record)

\* The failed panes that _adaptive_resume_one may send USR1 to
Resumable == {p \in panes : p.mapped /\ p.st # "dead" /\ p.job \in coord.failed}

\* What an event does; one of a job that is unknown is the end of the coordinator (nounset).
Dead(e, r) ==
  /\ logs' = logs \cup {<<r, "interrupted">>} /\ inflight' = InflightRemove(inflight, r)
  /\ coord' = [coord EXCEPT !.pc = "starting", !.jobs = Forgotten(e.job)]
  /\ UNCHANGED panes
Failed(e, r) ==
  /\ logs' = logs \cup {<<r, "failed">>} /\ inflight' = InflightRemove(inflight, r)
  /\ coord' = [coord EXCEPT !.failed = @ \cup {e.job}]
  /\ UNCHANGED panes
Done(e, r) ==
  LET wellDone == e.ok /\ e.job \notin coord.failed
  IN /\ coord' = [coord EXCEPT !.pc = "starting", !.jobs = Forgotten(e.job),
                               !.failed = @ \ {e.job}]
     /\ logs' = IF wellDone THEN logs \cup {<<r, "ok">>} ELSE logs
     /\ inflight' = IF e.job \in coord.failed THEN inflight ELSE InflightRemove(inflight, r)
     /\ IF wellDone /\ modeFile = "adaptive" /\ Resumable # {}
        THEN \E p \in Resumable : panes' = (panes \ {p}) \cup {[p EXCEPT !.resume = TRUE]}
        ELSE UNCHANGED panes

HandleEvent ==
  /\ At("reading") /\ eventsFifo # << >>
  /\ LET e == Head(eventsFifo)
     IN IF e.job \notin DOMAIN coord.jobs
        THEN CoordinatorGone /\ UNCHANGED <<logs, inflight, panes, confused>>
        ELSE LET r == coord.jobs[e.job]
             IN /\ CASE e.state = "dead" -> Dead(e, r)
                     [] e.state = "fail" -> Failed(e, r)
                     [] e.state = "done" -> Done(e, r)
                /\ eventsFifo' = Tail(eventsFifo) /\ confused' = (confused \/ e.gen # coord.gen)
                /\ UNCHANGED torn
  /\ UNCHANGED <<queueTxt, stopFile, modeFile, blocked, submitting, submitted, untold, starts,
                 meddled>>

-----------------------------------------------------------------------------
(* A pane: _wrap, and the pane-died hook *)

\* _emit_event: it gives up after a second, and nobody knows; without a reader it always does.
Emit(p, state, ok) ==
  \/ /\ ReadsControl /\ UNCHANGED untold
     /\ eventsFifo' = Append(eventsFifo, [gen |-> p.gen, job |-> p.job, state |-> state, ok |-> ok])
  \/ /\ UNCHANGED eventsFifo
     /\ untold' = IF ReadsControl /\ state = "fail" THEN untold \cup {p.record} ELSE untold

PaneStep == UNCHANGED <<SessionFiles, coord, submitting, submitted, torn, confused, starts>>

Succeeds(p) ==
  /\ p \in panes /\ p.st = "run" /\ panes' = panes \ {p} /\ Emit(p, "done", TRUE)
  /\ UNCHANGED <<blocked, meddled>> /\ PaneStep
FailsJob(p) ==
  /\ p \in panes /\ p.st = "run" /\ Emit(p, "fail", FALSE)
  /\ panes' = (panes \ {p}) \cup {[p EXCEPT !.st = "held"]}
  /\ UNCHANGED <<blocked, meddled>> /\ PaneStep

\* ENTER, which the user may press at any time, or one of the signs that it polls
ReleasesJob(p, enter) ==
  /\ p \in panes /\ p.st = "held" /\ (enter \/ p.resume \/ modeFile = "continue")
  /\ panes' = panes \ {p} /\ Emit(p, "done", FALSE)
  /\ UNCHANGED <<blocked, meddled>> /\ PaneStep

\* The process of the pane is killed: the pane remains, and --pane-died writes an event if
\* there is a map file, however long it takes.
PaneDies(p) ==
  /\ p \in panes /\ p.st # "dead" /\ Meddling
  /\ panes' = (panes \ {p}) \cup {[p EXCEPT !.st = "dead", !.mapped = FALSE]}
  /\ blocked' = IF p.mapped
                THEN blocked \cup {[gen |-> p.gen, job |-> p.job, state |-> "dead", ok |-> FALSE]}
                ELSE blocked
  /\ UNCHANGED <<eventsFifo, untold>> /\ PaneStep
HookWrites(e) ==
  /\ ReadsControl /\ e \in blocked /\ blocked' = blocked \ {e} /\ eventsFifo' = Append(eventsFifo, e)
  /\ UNCHANGED <<panes, meddled, untold>> /\ PaneStep

\* The user closes a pane, for which there is no hook, or the coordinator's.
PaneClosed(p) ==
  /\ p \in panes /\ ((p.st = "dead" /\ UNCHANGED meddled) \/ Meddling)
  /\ panes' = panes \ {p}
  /\ UNCHANGED <<eventsFifo, blocked, untold>> /\ PaneStep
CoordinatorDies ==
  /\ ~At("none") /\ Meddling /\ CoordinatorGone
  /\ UNCHANGED <<SessionFiles, panes, blocked, submitting, submitted, untold, confused,
                 starts>>

Coordinator ==
  \/ Requeue \/ ForgetClaims \/ TakeFirst \/ DispatchFails \/ Started \/ Leave \/ HandleEvent
  \/ \E r \in Submission : Claimed(r) \/ Dispatch(r) \/ Mapped(r)
BashNext ==
  \/ Coordinator \/ CoordinatorDies
  \/ \E r \in Submission : Submit(r)
  \/ \E b \in BOOLEAN : Submitted(b) \/ Control(b) \/ Drain(b)
  \/ \E p \in panes : Succeeds(p) \/ FailsJob(p) \/ PaneDies(p) \/ PaneClosed(p)
  \/ \E p \in panes, enter \in BOOLEAN : ReleasesJob(p, enter)
  \/ \E e \in blocked : HookWrites(e)

BashSpec == BashInit /\ [][BashNext]_bashVars

-----------------------------------------------------------------------------
(* Properties *)

BashTypeOK ==
  /\ submitted \cup untold \subseteq Submission /\ torn \subseteq submitted
  /\ ToSet(queueTxt \o inflight) \subseteq submitted
  /\ coord.gen \in 0 .. MaxCoordinators /\ DOMAIN coord.jobs \subseteq 1 .. coord.seq

\* The panes of the present coordinator whose command runs or that are held
LiveCoord == {p \in panes : p.gen = coord.gen /\ p.st # "dead"}

\* A record is never lost, whatever dies and whenever ("so a worker crash between claim and
\* completion doesn't lose the job"): it is in a file until it is in a log.  Except in the middle
\* of the claim itself; and except for one whose failure could not be told in time to a
\* coordinator that was there, whose end then takes it out of inflight.  No more panes live than
\* there are slots ("Failed pane keeps its slot occupied"), and none is started twice where nobody
\* interfered.  All of it as long as no event of a former coordinator's pane is taken for one of
\* its own.
QueueIsKept ==
  ~confused =>
    /\ \A r \in submitted \ (torn \cup untold) :
         r \in ToSet(queueTxt \o inflight) \cup coord.claim \/ \E l \in logs : l[1] = r
    /\ Cardinality(LiveCoord) <= Slots
    /\ meddled = 0 => \A r \in Submission : starts[r] <= 1

\* What the program's page says of a failed pane: it "Writes one failure.log entry" and "Removes
\* its record from inflight".  It does not when the event got lost: undisturbed, a job that ends
\* after it has failed is in no file and in no log.
FailuresAreLogged ==
  meddled = 0 => \A r \in submitted : \/ r \in ToSet(queueTxt \o inflight) \cup coord.claim
                                       \/ \E l \in logs : l[1] = r
=============================================================================

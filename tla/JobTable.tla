------------------------------ MODULE JobTable ------------------------------
(***************************************************************************)
(* The rows of the "jobs" table of src/tmux/bin/tmux-jobs.py and what each *)
(* SQL UPDATE does to one of them.  A row keeps the columns the executor's *)
(* logic reads: state, token (the fencing token of the current attempt),   *)
(* rc and argv/cwd (one abstract command).  The columns rc and interrupted *)
(* are one outcome here: "interrupted" stands for rc=137, interrupted=1,   *)
(* which only Store.finish writes.  Times, environment and pane ids are    *)
(* stored by the code but never read by a decision, and are left out.      *)
(***************************************************************************)
CONSTANTS Token,    \* uuid4 fencing tokens, one per execution attempt
          Command,  \* what is executed: argv with its cwd
          None      \* SQL NULL, and "nobody" for locks and markers

ACTIVE  == {"starting", "running", "held"}
State   == {"absent", "queued", "done"} \cup ACTIVE
Outcome == {"none", "ok", "fail", "interrupted"}

Row == [state : State, token : Token \cup {None},
        rc : Outcome, cmd : Command \cup {None}]

\* An id that AUTOINCREMENT has not handed out yet.
AbsentRow == [state |-> "absent", token |-> None, rc |-> "none", cmd |-> None]

\* INSERT of Store.enqueue: the column defaults are state 'queued', NULL token.
InsertedRow(c) == [AbsentRow EXCEPT !.state = "queued", !.cmd = c]

\* launch_job: a new attempt forgets what an earlier one left behind.
Launched(row, t) == [row EXCEPT !.state = "starting", !.token = t, !.rc = "none"]

\* Two bugs for the runs to find: a WHERE clause lacks the token, or the state.
OwnedByState(row, t, states) == row.state \in states
OwnedByToken(row, t, states) == row.token = t

\* The WHERE clauses of the wrapper: id is implicit, token and state are not.
Owned(row, t, states) == row.token = t /\ row.state \in states

\* execute_job: the claim and the outcome of the attempt.
Claimed(row)     == [row EXCEPT !.state = "running"]
Recorded(row, r) == [row EXCEPT !.state = IF r = "ok" THEN "done" ELSE "held",
                                !.rc = r]

\* A held failure gives its slot back; the outcome stays.
Released(row) == [row EXCEPT !.state = "done"]

\* The unfinished attempt is abandoned and the job waits again.
Requeued(row) == [row EXCEPT !.state = "queued", !.token = None]

\* A bug for the runs to find: a finished job without a return code.
FinishedSilently(row) == [row EXCEPT !.state = "done"]

\* Store.finish(job, 137, interrupted=True).
Finished(row) == [row EXCEPT !.state = "done", !.rc = "interrupted"]

\* Two bugs for the runs to find: held failures are replayed like other unfinished jobs,
\* or lost panes are noticed by a new coordinator only.
ReconciledHeldToo(row, live, recovery) ==
  IF row.state \notin ACTIVE \/ row.token \in live THEN row
  ELSE IF recovery THEN Requeued(row)
  ELSE Finished(row)
ReconciledOnRecovery(row, live, recovery) ==
  IF row.state \in ACTIVE /\ row.token \notin live /\ recovery THEN Requeued(row) ELSE row

\* reconcile: one ACTIVE row against the tokens found in live panes.
Reconciled(row, live, recovery) ==
  IF row.state \notin ACTIVE \/ row.token \in live THEN row
  ELSE IF row.state = "held" THEN Released(row)
  ELSE IF recovery THEN Requeued(row)
  ELSE Finished(row)

\* A bug for the runs to find: attempts that have not claimed their job are forgotten.
FencedRunning(row) ==
  IF row.state = "running" THEN Requeued(row)
  ELSE IF row.state = "held" THEN Released(row)
  ELSE row

\* The transaction of -K: unfinished work waits, recorded failures are kept.
Fenced(row) ==
  IF row.state \in {"starting", "running"} THEN Requeued(row)
  ELSE IF row.state = "held" THEN Released(row)
  ELSE row
=============================================================================

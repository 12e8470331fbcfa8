------------------------------ MODULE JobQueue ------------------------------
(***************************************************************************)
(* What the executor promises, without panes, locks or processes: a queue  *)
(* that runs every job at least once, records an outcome at most once, and *)
(* records only an outcome that the job's current attempt really had.      *)
(***************************************************************************)
CONSTANTS Job,      \* job ids
          Attempt,  \* identities of execution attempts
          None

VARIABLES status,   \* status[j]: "absent", "queued", "running" or "done"
          attempt,  \* attempt[j]: the attempt j was last started as, or None
          outcome,  \* outcome[j]: the recorded outcome, "none" before there is one
          begun,    \* the attempts ever started
          result    \* result[a]: what the command of attempt a returned

vars == <<status, attempt, outcome, begun, result>>

TypeOK ==
  /\ status \in [Job -> {"absent", "queued", "running", "done"}]
  /\ attempt \in [Job -> Attempt \cup {None}]
  /\ outcome \in [Job -> {"none", "ok", "fail", "interrupted"}]
  /\ begun \subseteq Attempt
  /\ result \in [Attempt -> {"none", "ok", "fail"}]

Init ==
  /\ status = [j \in Job |-> "absent"]
  /\ attempt = [j \in Job |-> None]
  /\ outcome = [j \in Job |-> "none"]
  /\ begun = {}
  /\ result = [a \in Attempt |-> "none"]

\* A batch is accepted as a whole.
Submit(J) ==
  /\ \A j \in J : status[j] = "absent"
  /\ status' = [j \in Job |-> IF j \in J THEN "queued" ELSE status[j]]
  /\ UNCHANGED <<attempt, outcome, begun, result>>

Start(j, a) ==
  /\ status[j] = "queued"
  /\ a \notin begun
  /\ status' = [status EXCEPT ![j] = "running"]
  /\ attempt' = [attempt EXCEPT ![j] = a]
  /\ begun' = begun \cup {a}
  /\ UNCHANGED <<outcome, result>>

\* The command of an attempt ends, whether or not the queue still waits for it.
Return(a, r) ==
  /\ a \in begun
  /\ result[a] = "none"
  /\ result' = [result EXCEPT ![a] = r]
  /\ UNCHANGED <<status, attempt, outcome, begun>>

Record(j) ==
  /\ status[j] = "running"
  /\ result[attempt[j]] # "none"
  /\ status' = [status EXCEPT ![j] = "done"]
  /\ outcome' = [outcome EXCEPT ![j] = result[attempt[j]]]
  /\ UNCHANGED <<attempt, begun, result>>

\* Attempts are given up: their jobs wait for another attempt.
Requeue(J) ==
  /\ \A j \in J : status[j] = "running"
  /\ status' = [j \in Job |-> IF j \in J THEN "queued" ELSE status[j]]
  /\ attempt' = [j \in Job |-> IF j \in J THEN None ELSE attempt[j]]
  /\ UNCHANGED <<outcome, begun, result>>

\* Attempts are lost: their jobs fail without another attempt.
Lose(J) ==
  /\ \A j \in J : status[j] = "running"
  /\ status' = [j \in Job |-> IF j \in J THEN "done" ELSE status[j]]
  /\ outcome' = [j \in Job |-> IF j \in J THEN "interrupted" ELSE outcome[j]]
  /\ UNCHANGED <<attempt, begun, result>>

Next ==
  \/ \E J \in SUBSET Job : Submit(J) \/ Requeue(J) \/ Lose(J)
  \/ \E j \in Job : Record(j) \/ \E a \in Attempt : Start(j, a)
  \/ \E a \in Attempt, r \in {"ok", "fail"} : Return(a, r)

Spec == Init /\ [][Next]_vars
=============================================================================

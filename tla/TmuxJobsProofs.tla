--------------------------- MODULE TmuxJobsProofs ---------------------------
(***************************************************************************)
(* Proofs about TmuxJobs for any number of jobs, attempts, workers and     *)
(* clients, any requests and any number of faults: what a row may do, that *)
(* the executor implements the abstract queue of JobQueue, that --unique   *)
(* keeps pending commands apart, and that dispatch obeys -k and -j; then   *)
(* about the processes of the executor.                                    *)
(***************************************************************************)
EXTENDS TmuxJobsProps, FiniteSetTheorems, TLAPS

USE DEF ACTIVE, State, Outcome

(***************************************************************************)
(* What the UPDATE statements make of a row: a row.                        *)
(***************************************************************************)
\* An id that was not handed out yet and a freshly inserted one are rows.
LEMMA NewRows ==
  /\ AbsentRow \in Row
  /\ \A c \in Command : InsertedRow(c) \in Row
BY DEF Row, AbsentRow, InsertedRow

\* Every UPDATE of launch_job, execute_job and Store.finish makes a row of a row.
LEMMA RowUpdates ==
  ASSUME NEW row \in Row
  PROVE  /\ \A t \in Token : Launched(row, t) \in Row
         /\ Claimed(row) \in Row
         /\ \A r \in {"ok", "fail"} : Recorded(row, r) \in Row
         /\ Released(row) \in Row
         /\ Requeued(row) \in Row
         /\ Finished(row) \in Row
BY DEF Row, Launched, Claimed, Recorded, Released, Requeued, Finished

\* So do the transactions of reconcile and of -K.
LEMMA RowTransactions ==
  ASSUME NEW row \in Row
  PROVE  /\ \A live, recovery : Reconciled(row, live, recovery) \in Row
         /\ Fenced(row) \in Row
BY RowUpdates DEF Reconciled, Fenced

----------------------------------------------------------------------------
(***************************************************************************)
(* Type correctness, one lemma per kind of process.                        *)
(***************************************************************************)

\* No step of a worker, and not its death, breaks the types.
LEMMA WorkerTyped ==
  ASSUME TypeOK, NEW w \in Worker, WorkerStep(w) \/ WorkerDie(w)
  PROVE  TypeOK'
<1> USE DEF TypeOK, WorkerPC, WorkerGoto, ClosePanes, settings, locks, session, attempts,
            workers, clients
<1>1. CASE WorkerStart(w)
  BY <1>1 DEF WorkerStart
<1>2. CASE WorkerMark(w)
  BY <1>2 DEF WorkerMark
<1>3. CASE WorkerSnapshot(w)
  BY <1>3 DEF WorkerSnapshot, LiveTokens
<1>4. CASE WorkerLock(w)
  BY <1>4 DEF WorkerLock, FirstIds, InState
<1>5. CASE WorkerLaunched(w)
  BY <1>5 DEF WorkerLaunched
<1>6. CASE WorkerRoundEnd(w)
  BY <1>6 DEF WorkerRoundEnd
<1>7. CASE WorkerRelease(w)
  BY <1>7 DEF WorkerRelease
<1>8. CASE WorkerUnlock(w)
  BY <1>8 DEF WorkerUnlock
<1>9. CASE WorkerExit(w)
  BY <1>9 DEF WorkerExit
<1>10. CASE WorkerDie(w)
  BY <1>10, MaxFaultsAssumption DEF WorkerDie, Unlock, Fault, WorkerAlive
<1>11. CASE WorkerReconcile(w)
  <2>1. jobs' \in [Job -> Row]
    BY <1>11, RowTransactions DEF WorkerReconcile
  <2>2. QED
    BY <1>11, <2>1 DEF WorkerReconcile
<1>12. CASE \E j \in Job, t \in Token : WorkerLaunch(w, j, t)
  <2>1. PICK j \in Job, t \in Token : WorkerLaunch(w, j, t)
    BY <1>12
  <2>2. jobs' \in [Job -> Row]
    BY <2>1, RowUpdates DEF WorkerLaunch
  <2>3. QED
    BY <2>1, <2>2 DEF WorkerLaunch, WrapPC
<1>13. QED
  BY <1>1, <1>2, <1>3, <1>4, <1>5, <1>6, <1>7, <1>8, <1>9, <1>10, <1>11, <1>12 DEF WorkerStep

\* Nor does a step of an attempt, of its command or of its pane.
LEMMA WrapperTyped ==
  ASSUME TypeOK, Started, NEW t \in Token,
         \/ WrapperStep(t) \/ PaneAppears(t) \/ HeldEnter(t) \/ WrapperSignal(t)
         \/ UserKillsPane(t) \/ WrapperVanishes(t)
  PROVE  TypeOK'
<1> USE DEF TypeOK, WrapPC, ChildState, WrapperGoto, WrapperEnds, ClosePanes, settings, locks,
            session, attempts, workers, clients
<1>1. CASE PaneAppears(t)
  BY <1>1 DEF PaneAppears
<1>2. CASE WrapperClaim(t)
  <2>1. jobs' \in [Job -> Row]
    BY <1>2, RowUpdates DEF WrapperClaim, Started
  <2>2. QED
    BY <1>2, <2>1 DEF WrapperClaim
<1>3. CASE WrapperSpawn(t)
  BY <1>3 DEF WrapperSpawn
<1>4. CASE WrapperAssign(t)
  BY <1>4 DEF WrapperAssign
<1>5. CASE ChildExit(t)
  BY <1>5 DEF ChildExit
<1>6. CASE WrapperCommit(t)
  <2>1. jobs' \in [Job -> Row]
    BY <1>6, RowUpdates DEF WrapperCommit, Started
  <2>2. QED
    BY <1>6, <2>1 DEF WrapperCommit
<1>7. CASE HeldRelease(t)
  <2>1. jobs' \in [Job -> Row]
    BY <1>7, RowUpdates DEF HeldRelease, Started
  <2>2. QED
    BY <1>7, <2>1 DEF HeldRelease
<1>8. CASE HeldLost(t)
  BY <1>8 DEF HeldLost
<1>9. CASE WrapperSignal(t)
  <2>1. faults' \in 0..MaxFaults
    BY <1>9, MaxFaultsAssumption DEF WrapperSignal, Fault
  <2>2. /\ panes' \subseteq Worker \cup Token
        /\ owned' \in BOOLEAN
        /\ wrap' \in [Token -> WrapPC]
    BY <1>9 DEF WrapperSignal
  <2>3. QED
    BY <1>9, <2>1, <2>2 DEF WrapperSignal
<1>10. CASE WrapperKilled(t)
  BY <1>10 DEF WrapperKilled
<1>11. CASE UserKillsPane(t)
  BY <1>11, MaxFaultsAssumption DEF UserKillsPane, Fault
<1>12. CASE WrapperVanishes(t)
  BY <1>12, MaxFaultsAssumption DEF WrapperVanishes, Fault
<1>13. QED
  BY <1>1, <1>2, <1>3, <1>4, <1>5, <1>6, <1>7, <1>8, <1>9, <1>10, <1>11, <1>12
     DEF WrapperStep, HeldContinue, HeldEnter

\* Nor does an invocation of the command line.
LEMMA ClientTyped ==
  ASSUME TypeOK, Started, NEW c \in Client,
         ClientStep(c) \/ ClientCrash(c) \/ \E r \in Requests : ClientBegin(c, r)
  PROVE  TypeOK'
<1> USE DEF TypeOK, ClientPC, ClientGoto, Leave, ClosePanes, settings, locks, session,
            attempts, workers, clients
<1>1. CASE \E r \in Requests : ClientBegin(c, r)
  BY <1>1 DEF ClientBegin
<1>2. CASE ClientEnqueue(c)
  <2> DEFINE accepted == Accepted(req[c])
             ids == FirstIds(InState({"absent"}), Cardinality(accepted))
  <2>1. PICK record \in Bijection(ids, accepted) :
          jobs' = [j \in Job |-> IF j \in ids THEN InsertedRow(req[c].cmds[record[j]])
                                             ELSE jobs[j]]
    BY <1>2 DEF ClientEnqueue
  <2>2. record \in [ids -> accepted]
    BY DEF Bijection, Injection
  <2>3. req[c].cmds \in Seq(Command)
    BY <1>2, RequestsAssumption DEF ClientEnqueue, Request, Started
  <2>4. \A i \in accepted : req[c].cmds[i] \in Command
    BY <2>3 DEF Accepted
  <2>5. jobs' \in [Job -> Row]
    BY <2>1, <2>2, <2>4, NewRows
  <2>6. QED
    BY <1>2, <2>5 DEF ClientEnqueue
<1>3. CASE ClientWake(c)
  BY <1>3 DEF ClientWake
<1>4. CASE ClientProbe(c)
  BY <1>4 DEF ClientProbe
<1>5. CASE ClientTryLock(c)
  BY <1>5 DEF ClientTryLock
<1>6. CASE ClientUnprobe(c)
  BY <1>6 DEF ClientUnprobe
<1>7. CASE ClientOwn(c)
  BY <1>7 DEF ClientOwn
<1>8. CASE ClientAcknowledged(c)
  BY <1>8 DEF ClientAcknowledged
<1>9. CASE ClientTimeout(c)
  BY <1>9, MaxFaultsAssumption DEF ClientTimeout, Fault
<1>10. CASE ClientKillSnapshot(c)
  BY <1>10 DEF ClientKillSnapshot
<1>11. CASE ClientKillWorker(c)
  BY <1>11 DEF ClientKillWorker
<1>12. CASE ClientCrash(c)
  BY <1>12, MaxFaultsAssumption DEF ClientCrash, Fault, Unlock
<1>13. CASE ClientFence(c)
  <2>1. jobs' \in [Job -> Row]
    BY <1>13, RowTransactions DEF ClientFence
  <2>2. QED
    BY <1>13, <2>1 DEF ClientFence
<1>14. CASE \E w \in Worker : ClientCreate(c, w)
  BY <1>14 DEF ClientCreate, WorkerPC
<1>15. CASE \E t \in Token : ClientKillPane(c, t)
  BY <1>15 DEF ClientKillPane
<1>16. CASE ClientCheckOwner(c)
  BY <1>16 DEF ClientCheckOwner
<1>17. CASE ClientSettings(c)
  <2>1. req[c] \in Request
    BY <1>17, RequestsAssumption DEF ClientSettings, Started
  <2>2. FirstStep(req[c]) \in ClientPC
    BY <2>1 DEF FirstStep, Request
  <2>3. limit' \in 1..MaxJobs
    BY <1>17, <2>1, MaxJobsAssumption DEF ClientSettings, Request
  <2>4. mode' \in {"blocking", "continue"}
    BY <1>17, <2>1 DEF ClientSettings, Request
  <2>5. stop' \in BOOLEAN
    BY <1>17 DEF ClientSettings
  <2>6. cl' \in [Client -> ClientPC]
    BY <1>17, <2>2 DEF ClientSettings
  <2>7. launchLock' \in Worker \cup Client \cup {None}
    BY <1>17 DEF ClientSettings
  <2>8. QED
    BY <1>17, <2>3, <2>4, <2>5, <2>6, <2>7 DEF ClientSettings
<1>18. CASE ClientStart(c) \/ ClientCreateFails(c)
  BY <1>18 DEF ClientStart, ClientCreateFails
<1>19. CASE ClientKillRows(c)
  BY <1>19 DEF ClientKillRows
<1>20. QED
  BY <1>1, <1>2, <1>3, <1>4, <1>5, <1>6, <1>7, <1>8, <1>9, <1>10, <1>11, <1>12, <1>13,
     <1>14, <1>15, <1>16, <1>17, <1>18, <1>19 DEF ClientStep

\* Nor does a restart of the machine.
LEMMA RebootTyped ==
  ASSUME TypeOK, Reboot
  PROVE  TypeOK'
<1> USE DEF TypeOK, Reboot, settings
<1>1. faults' \in 0..MaxFaults
  BY MaxFaultsAssumption DEF Fault
<1>2. wrap' \in [Token -> WrapPC] /\ child' \in [Token -> ChildState]
  BY DEF WrapPC, ChildState
<1>3. wk' \in [Worker -> WorkerPC] /\ cl' \in [Client -> ClientPC]
  BY DEF WorkerPC, ClientPC
<1>4. QED
  BY <1>1, <1>2, <1>3

----------------------------------------------------------------------------
(***************************************************************************)
(* What any step may do, seen from the rows and the attempts.              *)
(***************************************************************************)

\* The steps that change a row, the owner of an attempt or its command.
TableStep ==
  \/ \E w \in Worker : WorkerReconcile(w)
  \/ \E w \in Worker, j \in Job, t \in Token : WorkerLaunch(w, j, t)
  \/ \E t \in Token : \/ WrapperClaim(t) \/ WrapperSpawn(t) \/ ChildExit(t)
                       \/ WrapperCommit(t) \/ HeldRelease(t) \/ WrapperKilled(t)
  \/ \E c \in Client : ClientEnqueue(c) \/ ClientFence(c)
  \/ Reboot

\* All other steps leave rows, owners and commands alone.
LEMMA TableSteps ==
  ASSUME [Next]_vars
  PROVE  TableStep \/ UNCHANGED <<jobs, owner, child>>
<1> USE DEF attempts
<1>1. CASE UNCHANGED vars
  BY <1>1 DEF vars
<1>2. ASSUME NEW w \in Worker, WorkerStep(w) \/ WorkerDie(w)
      PROVE  TableStep \/ UNCHANGED <<jobs, owner, child>>
  BY <1>2 DEF TableStep, WorkerStep, WorkerStart, WorkerMark, WorkerSnapshot, WorkerLock,
              WorkerLaunched, WorkerRoundEnd, WorkerRelease, WorkerUnlock, WorkerExit,
              WorkerDie
<1>3. ASSUME NEW t \in Token, WrapperStep(t)
      PROVE  TableStep \/ UNCHANGED <<jobs, owner, child>>
  BY <1>3 DEF TableStep, WrapperStep, WrapperAssign, HeldContinue, HeldLost
<1>4. ASSUME NEW c \in Client, ClientStep(c)
      PROVE  TableStep \/ UNCHANGED <<jobs, owner, child>>
  BY <1>4 DEF TableStep, ClientStep, ClientCheckOwner, ClientSettings, ClientWake, ClientProbe,
     ClientTryLock, ClientUnprobe, ClientStart, ClientCreate, ClientCreateFails, ClientOwn,
     ClientAcknowledged, ClientTimeout, ClientKillSnapshot, ClientKillRows, ClientKillPane,
     ClientKillWorker
<1>5. CASE Environment
  BY <1>2, <1>5 DEF TableStep, Environment, ClientBegin, ClientCrash, PaneAppears, HeldEnter,
              WrapperSignal, UserKillsPane, WrapperVanishes
<1>6. QED
  BY <1>1, <1>2, <1>3, <1>4, <1>5 DEF Next

----------------------------------------------------------------------------
(***************************************************************************)
(* The parts of the inductive invariant.                                   *)
(***************************************************************************)

\* Processes that run keep having been given something to do.
LEMMA StartedStep ==
  ASSUME IInv, [Next]_vars
  PROVE  Started'
<1> USE DEF IInv, TypeOK, Started, WrapperGoto, WrapperEnds, ClientGoto, Leave, attempts, clients
<1>1. CASE UNCHANGED vars
  BY <1>1 DEF vars
<1>2. ASSUME NEW w \in Worker, WorkerStep(w) \/ WorkerDie(w)
      PROVE  Started'
  <2>1. ASSUME NEW j \in Job, NEW t \in Token, WorkerLaunch(w, j, t)
        PROVE  Started'
    <3>1. j # None
      BY NoneAssumption
    <3>2. QED
      BY <2>1, <3>1 DEF WorkerLaunch
  <2>2. CASE UNCHANGED <<attempts, clients>>
    BY <2>2
  <2>3. QED
    BY <1>2, <2>1, <2>2
       DEF WorkerStep, WorkerStart, WorkerMark, WorkerSnapshot, WorkerReconcile, WorkerLock,
           WorkerLaunched, WorkerRoundEnd, WorkerRelease, WorkerUnlock, WorkerExit, WorkerDie
<1>3. ASSUME NEW t \in Token,
             \/ WrapperStep(t) \/ PaneAppears(t) \/ HeldEnter(t) \/ WrapperSignal(t)
             \/ UserKillsPane(t) \/ WrapperVanishes(t)
      PROVE  Started'
  <2>1. CASE WrapperSpawn(t)
    BY <2>1 DEF WrapperSpawn
  <2>2. CASE ChildExit(t)
    BY <2>2 DEF ChildExit
  <2>3. CASE WrapperKilled(t)
    BY <2>3 DEF WrapperKilled
  <2>4. CASE WrapperSignal(t)
    BY <2>4 DEF WrapperSignal, WrapperAlive
  <2>5. CASE WrapperVanishes(t) \/ PaneAppears(t)
    BY <2>5 DEF WrapperVanishes, PaneAppears, WrapperAlive
  <2>6. CASE WrapperClaim(t) \/ WrapperAssign(t) \/ WrapperCommit(t)
    BY <2>6 DEF WrapperClaim, WrapperAssign, WrapperCommit
  <2>7. CASE HeldRelease(t) \/ HeldLost(t) \/ UserKillsPane(t)
    BY <2>7 DEF HeldRelease, HeldLost, UserKillsPane
  <2>8. QED
    BY <1>3, <2>1, <2>2, <2>3, <2>4, <2>5, <2>6, <2>7
       DEF WrapperStep, HeldContinue, HeldEnter
<1>4. ASSUME NEW c \in Client,
             ClientStep(c) \/ ClientCrash(c) \/ \E r \in Requests : ClientBegin(c, r)
      PROVE  Started'
  <2>1. UNCHANGED attempts
    BY <1>4 DEF ClientStep, ClientCheckOwner, ClientSettings, ClientEnqueue, ClientWake,
       ClientProbe, ClientTryLock, ClientUnprobe, ClientStart, ClientCreate, ClientCreateFails,
       ClientOwn, ClientAcknowledged, ClientTimeout, ClientKillSnapshot, ClientKillRows,
       ClientFence, ClientKillPane, ClientKillWorker, ClientCrash,
       ClientBegin
  <2>2. CASE \E r \in Requests : ClientBegin(c, r)
    BY <2>1, <2>2 DEF ClientBegin
  <2>3. CASE ClientStep(c) \/ ClientCrash(c)
    <3>1. cl[c] # "idle" /\ req' = req
      BY <2>3 DEF ClientStep, ClientCheckOwner, ClientSettings, ClientEnqueue, ClientWake,
         ClientProbe, ClientTryLock, ClientUnprobe, ClientStart, ClientCreate, ClientCreateFails,
         ClientOwn, ClientAcknowledged, ClientTimeout, ClientKillSnapshot, ClientKillRows,
         ClientFence, ClientKillPane, ClientKillWorker, ClientCrash
    <3>2. \A d \in Client : d # c => cl'[d] = cl[d]
      BY <2>3 DEF ClientStep, ClientCheckOwner, ClientSettings, ClientEnqueue, ClientWake,
         ClientProbe, ClientTryLock, ClientUnprobe, ClientStart, ClientCreate, ClientCreateFails,
         ClientOwn, ClientAcknowledged, ClientTimeout, ClientKillSnapshot, ClientKillRows,
         ClientFence, ClientKillPane, ClientKillWorker, ClientCrash
    <3>3. cl'[c] # "idle"
      <4>1. req[c] \in Request
        BY <3>1, RequestsAssumption
      <4>2. FirstStep(req[c]) # "idle"
        BY <4>1 DEF FirstStep, Request
      <4>3. QED
        BY <2>3, <4>2 DEF ClientStep, ClientCheckOwner, ClientSettings, ClientEnqueue, ClientWake,
           ClientProbe, ClientTryLock, ClientUnprobe, ClientStart, ClientCreate,
           ClientCreateFails, ClientOwn, ClientAcknowledged, ClientTimeout, ClientKillSnapshot,
           ClientKillRows, ClientFence, ClientKillPane, ClientKillWorker, ClientCrash
    <3>4. QED
      BY <2>1, <3>1, <3>2, <3>3
  <2>4. QED
    BY <1>4, <2>2, <2>3
<1>5. CASE Reboot
  BY <1>5 DEF Reboot
<1>6. QED
  BY <1>1, <1>2, <1>3, <1>4, <1>5 DEF Next, Environment

\* Every step keeps a row consistent with the attempt its token names.
LEMMA RowsStep ==
  ASSUME IInv, [Next]_vars, NEW j \in Job
  PROVE  RowOK(j)'
<1> USE DEF IInv, TypeOK, RowOK, Row
<1>1. CASE UNCHANGED <<jobs, owner, child>>
  BY <1>1
<1>2. ASSUME NEW w \in Worker, WorkerReconcile(w)
      PROVE  RowOK(j)'
  <2>1. UNCHANGED <<owner, child>>
    BY <1>2 DEF WorkerReconcile, attempts
  <2>2. jobs'[j] = jobs[j] \/ (jobs[j].state \in {"starting", "running"} /\ jobs'[j] = Requeued(jobs[j]))
          \/ (jobs[j].state = "held" /\ jobs'[j] = Released(jobs[j]))
          \/ (jobs[j].state \in ACTIVE /\ jobs'[j] = Finished(jobs[j]))
    BY <1>2 DEF WorkerReconcile, Reconciled
  <2>3. CASE jobs'[j] = jobs[j]
    BY <2>1, <2>3
  <2>4. CASE jobs[j].state \in {"starting", "running"} /\ jobs'[j] = Requeued(jobs[j])
    BY <2>1, <2>4 DEF Requeued
  <2>5. CASE jobs[j].state = "held" /\ jobs'[j] = Released(jobs[j])
    BY <2>1, <2>5 DEF Released
  <2>6. CASE jobs[j].state \in ACTIVE /\ jobs'[j] = Finished(jobs[j])
    BY <2>1, <2>6 DEF Finished
  <2>7. QED
    BY <2>2, <2>3, <2>4, <2>5, <2>6
<1>3. ASSUME NEW w \in Worker, NEW i \in Job, NEW t \in Token, WorkerLaunch(w, i, t)
      PROVE  RowOK(j)'
  <2>1. owner[t] = None /\ t # None /\ j # None
    BY <1>3, NoneAssumption DEF WorkerLaunch, Started
  <2>2. jobs[j].token # t
    BY <2>1
  <2>3. QED
    BY <1>3, <2>1, <2>2 DEF WorkerLaunch, Launched
<1>4. ASSUME NEW t \in Token, WrapperClaim(t)
      PROVE  RowOK(j)'
  BY <1>4 DEF WrapperClaim, Claimed, Owned, JobOf
<1>5. ASSUME NEW t \in Token, WrapperSpawn(t)
      PROVE  RowOK(j)'
  BY <1>5 DEF WrapperSpawn, Started
<1>6. ASSUME NEW t \in Token, ChildExit(t) \/ WrapperKilled(t)
      PROVE  RowOK(j)'
  BY <1>6 DEF ChildExit, WrapperKilled
<1>7. ASSUME NEW t \in Token, WrapperCommit(t)
      PROVE  RowOK(j)'
  <2>1. UNCHANGED <<owner, child>> /\ child[t] \in {"ok", "fail"}
    BY <1>7 DEF WrapperCommit
  <2>2. CASE UNCHANGED jobs
    BY <2>1, <2>2
  <2>3. CASE /\ jobs[owner[t]].token = t /\ jobs[owner[t]].state = "running"
             /\ jobs' = [jobs EXCEPT ![owner[t]] = Recorded(@, child[t])]
    <3>1. CASE owner[t] # j
      BY <2>1, <2>3, <3>1
    <3>2. CASE owner[t] = j
      <4>1. jobs'[j] = Recorded(jobs[j], child[t])
        BY <2>3, <3>2
      <4>2. CASE child[t] = "ok"
        BY <2>1, <2>3, <3>2, <4>1, <4>2, NoneAssumption DEF Recorded
      <4>3. CASE child[t] = "fail"
        BY <2>1, <2>3, <3>2, <4>1, <4>3, NoneAssumption DEF Recorded
      <4>4. QED
        BY <2>1, <4>2, <4>3
    <3>3. QED
      BY <3>1, <3>2
  <2>4. QED
    BY <1>7, <2>2, <2>3 DEF WrapperCommit, Owned, JobOf
<1>8. ASSUME NEW t \in Token, HeldRelease(t)
      PROVE  RowOK(j)'
  BY <1>8 DEF HeldRelease, Released, Owned, JobOf
<1>9. ASSUME NEW c \in Client, ClientEnqueue(c)
      PROVE  RowOK(j)'
  <2>1. UNCHANGED <<owner, child>>
    BY <1>9 DEF ClientEnqueue, attempts
  <2>2. \/ jobs'[j] = jobs[j]
        \/ \E x : jobs'[j] = InsertedRow(x)
    BY <1>9 DEF ClientEnqueue
  <2>3. jobs'[j] = jobs[j] \/ (jobs'[j].state = "queued" /\ jobs'[j].token = None /\ jobs'[j].rc = "none")
    BY <2>2 DEF InsertedRow, AbsentRow
  <2>4. QED
    BY <2>1, <2>3
<1>10. ASSUME NEW c \in Client, ClientFence(c)
       PROVE  RowOK(j)'
  <2>1. UNCHANGED <<owner, child>>
    BY <1>10 DEF ClientFence, attempts
  <2>2. \/ jobs'[j] = jobs[j]
        \/ jobs[j].state \in {"starting", "running"} /\ jobs'[j] = Requeued(jobs[j])
        \/ jobs[j].state = "held" /\ jobs'[j] = Released(jobs[j])
    BY <1>10 DEF ClientFence, Fenced
  <2>3. CASE jobs'[j] = jobs[j]
    BY <2>1, <2>3
  <2>4. CASE jobs[j].state \in {"starting", "running"} /\ jobs'[j] = Requeued(jobs[j])
    BY <2>1, <2>4 DEF Requeued
  <2>5. CASE jobs[j].state = "held" /\ jobs'[j] = Released(jobs[j])
    BY <2>1, <2>5 DEF Released
  <2>6. QED
    BY <2>2, <2>3, <2>4, <2>5
<1>11. CASE Reboot
  BY <1>11 DEF Reboot
<1>12. QED
  BY <1>1, <1>2, <1>3, <1>4, <1>5, <1>6, <1>7, <1>8, <1>9, <1>10, <1>11, TableSteps
     DEF TableStep

\* Every step keeps launch.lock with the one process that works under it.
LEMMA ExclusionStep ==
  ASSUME IInv, [Next]_vars
  PROVE  Exclusion'
<1> USE DistinctAssumption, NoneAssumption
    DEF IInv, TypeOK, Exclusion, WorkerGoto, ClientGoto, Leave, Unlock, locks, workers, clients
<1>1. CASE UNCHANGED vars
  BY <1>1 DEF vars
<1>2. ASSUME NEW w \in Worker, WorkerStep(w) \/ WorkerDie(w)
      PROVE  Exclusion'
  <2>1. CASE WorkerLock(w)
    BY <2>1 DEF WorkerLock
  <2>2. CASE WorkerRoundEnd(w) \/ WorkerUnlock(w)
    BY <2>2 DEF WorkerRoundEnd, WorkerUnlock
  <2>3. CASE WorkerRelease(w) \/ WorkerLaunched(w) \/ \E j \in Job, t \in Token : WorkerLaunch(w, j, t)
    BY <2>3 DEF WorkerRelease, WorkerLaunched, WorkerLaunch
  <2>4. CASE WorkerStart(w) \/ WorkerMark(w) \/ WorkerSnapshot(w)
    BY <2>4 DEF WorkerStart, WorkerMark, WorkerSnapshot
  <2>5. CASE WorkerReconcile(w) \/ WorkerExit(w)
    BY <2>5 DEF WorkerReconcile, WorkerExit
  <2>6. CASE WorkerDie(w)
    BY <2>6 DEF WorkerDie
  <2>7. QED
    BY <1>2, <2>1, <2>2, <2>3, <2>4, <2>5, <2>6 DEF WorkerStep
<1>3. ASSUME NEW t \in Token,
             \/ WrapperStep(t) \/ PaneAppears(t) \/ HeldEnter(t) \/ WrapperSignal(t)
             \/ UserKillsPane(t) \/ WrapperVanishes(t)
      PROVE  Exclusion'
  <2>1. UNCHANGED <<locks, workers, clients>>
    BY <1>3 DEF WrapperStep, PaneAppears, WrapperClaim, WrapperSpawn, WrapperAssign, ChildExit,
       WrapperCommit, HeldContinue, HeldEnter, HeldRelease, HeldLost, WrapperSignal,
       WrapperKilled, UserKillsPane, WrapperVanishes
  <2>2. QED
    BY <2>1
<1>4. ASSUME NEW c \in Client,
             ClientStep(c) \/ ClientCrash(c) \/ \E r \in Requests : ClientBegin(c, r)
      PROVE  Exclusion'
  <2>1. CASE \E r \in Requests : ClientBegin(c, r)
    BY <2>1 DEF ClientBegin
  <2>2. CASE ClientEnqueue(c) \/ ClientWake(c) \/ ClientProbe(c)
    BY <2>2 DEF ClientEnqueue, ClientWake, ClientProbe
  <2>3. CASE ClientTryLock(c) \/ ClientUnprobe(c)
    BY <2>3 DEF ClientTryLock, ClientUnprobe
  <2>4. CASE \E w \in Worker : ClientCreate(c, w)
    BY <2>4 DEF ClientCreate
  <2>5. CASE ClientOwn(c) \/ ClientAcknowledged(c) \/ ClientTimeout(c)
    BY <2>5 DEF ClientOwn, ClientAcknowledged, ClientTimeout
  <2>6. CASE ClientKillSnapshot(c) \/ ClientFence(c)
    BY <2>6 DEF ClientKillSnapshot, ClientFence
  <2>7. CASE ClientKillWorker(c)
    BY <2>7 DEF ClientKillWorker
  <2>8. CASE \E t \in Token : ClientKillPane(c, t)
    <3>1. UNCHANGED <<launchLock, wk, cl>>
      BY <2>8 DEF ClientKillPane
    <3>2. QED
      BY <3>1
  <2>9. CASE ClientCrash(c)
    BY <2>9 DEF ClientCrash
  <2>10. CASE ClientCheckOwner(c) \/ ClientStart(c) \/ ClientCreateFails(c)
    BY <2>10 DEF ClientCheckOwner, ClientStart, ClientCreateFails
  <2>11. CASE ClientSettings(c)
    BY <2>11 DEF ClientSettings
  <2>12. CASE ClientKillRows(c)
    BY <2>12 DEF ClientKillRows
  <2>13. QED
    BY <1>4, <2>1, <2>2, <2>3, <2>4, <2>5, <2>6, <2>7, <2>8, <2>9, <2>10, <2>11, <2>12
       DEF ClientStep
<1>5. CASE Reboot
  BY <1>5 DEF Reboot
<1>6. QED
  BY <1>1, <1>2, <1>3, <1>4, <1>5 DEF Next, Environment

\* A row leaves the queue only by being launched.
LEMMA QueuedStays ==
  ASSUME IInv, [Next]_vars, NEW j \in Job, jobs[j].state = "queued"
  PROVE  \/ jobs'[j].state = "queued"
         \/ \E w \in Worker, t \in Token : WorkerLaunch(w, j, t)
<1> USE DEF IInv, TypeOK, Row
<1>1. CASE UNCHANGED <<jobs, owner, child>>
  BY <1>1
<1>2. ASSUME NEW w \in Worker, WorkerReconcile(w)
      PROVE  jobs'[j].state = "queued"
  BY <1>2 DEF WorkerReconcile, Reconciled
<1>3. ASSUME NEW w \in Worker, NEW i \in Job, NEW t \in Token, WorkerLaunch(w, i, t), i # j
      PROVE  jobs'[j].state = "queued"
  BY <1>3 DEF WorkerLaunch
<1>4. ASSUME NEW t \in Token,
             \/ WrapperClaim(t) \/ WrapperCommit(t) \/ HeldRelease(t)
             \/ WrapperSpawn(t) \/ ChildExit(t) \/ WrapperKilled(t)
      PROVE  jobs'[j].state = "queued"
  BY <1>4 DEF WrapperClaim, WrapperCommit, HeldRelease, WrapperSpawn, ChildExit,
              WrapperKilled, Owned, JobOf
<1>5. ASSUME NEW c \in Client, ClientEnqueue(c)
      PROVE  jobs'[j].state = "queued"
  <2>1. \/ jobs'[j] = jobs[j]
        \/ \E x : jobs'[j] = InsertedRow(x)
    BY <1>5 DEF ClientEnqueue
  <2>2. QED
    BY <2>1 DEF InsertedRow, AbsentRow
<1>6. ASSUME NEW c \in Client, ClientFence(c)
      PROVE  jobs'[j].state = "queued"
  BY <1>6 DEF ClientFence, Fenced
<1>7. CASE Reboot
  BY <1>7 DEF Reboot
<1>8. QED
  BY <1>1, <1>2, <1>3, <1>4, <1>5, <1>6, <1>7, TableSteps DEF TableStep

\* Nobody but the worker itself moves it, except to create or to destroy it.
LEMMA OthersLeaveWorker ==
  ASSUME IInv, [Next]_vars, NEW w \in Worker
  PROVE  \/ WorkerStep(w) \/ WorkerDie(w) \/ Reboot
         \/ /\ batch'[w] = batch[w] /\ cur'[w] = cur[w] /\ snap'[w] = snap[w]
            /\ wk'[w] = wk[w] \/ (wk[w] = "none" /\ wk'[w] = "boot")
<1> USE DEF IInv, TypeOK, WorkerGoto, workers
<1>1. CASE UNCHANGED vars
  BY <1>1 DEF vars
<1>2. ASSUME NEW v \in Worker, v # w, WorkerStep(v) \/ WorkerDie(v)
      PROVE  batch'[w] = batch[w] /\ cur'[w] = cur[w] /\ snap'[w] = snap[w] /\ wk'[w] = wk[w]
  <2>1. CASE WorkerStart(v) \/ WorkerMark(v) \/ WorkerSnapshot(v) \/ WorkerReconcile(v)
    BY <1>2, <2>1 DEF WorkerStart, WorkerMark, WorkerSnapshot, WorkerReconcile
  <2>2. CASE WorkerLock(v) \/ WorkerLaunched(v) \/ \E j \in Job, t \in Token : WorkerLaunch(v, j, t)
    BY <1>2, <2>2 DEF WorkerLock, WorkerLaunched, WorkerLaunch
  <2>3. CASE \/ WorkerRoundEnd(v) \/ WorkerRelease(v) \/ WorkerUnlock(v) \/ WorkerExit(v)
             \/ WorkerDie(v)
    BY <1>2, <2>3 DEF WorkerRoundEnd, WorkerRelease, WorkerUnlock, WorkerExit, WorkerDie
  <2>4. QED
    BY <1>2, <2>1, <2>2, <2>3 DEF WorkerStep
<1>3. ASSUME NEW t \in Token,
             \/ WrapperStep(t) \/ PaneAppears(t) \/ HeldEnter(t) \/ WrapperSignal(t)
             \/ UserKillsPane(t) \/ WrapperVanishes(t)
      PROVE  UNCHANGED workers
  BY <1>3 DEF WrapperStep, PaneAppears, WrapperClaim, WrapperSpawn, WrapperAssign, ChildExit,
     WrapperCommit, HeldContinue, HeldEnter, HeldRelease, HeldLost, WrapperSignal,
     WrapperKilled, UserKillsPane, WrapperVanishes
<1>4. ASSUME NEW c \in Client,
             ClientStep(c) \/ ClientCrash(c) \/ \E r \in Requests : ClientBegin(c, r)
      PROVE  UNCHANGED workers \/ \E v \in Worker : ClientCreate(c, v)
  BY <1>4 DEF ClientStep, ClientCheckOwner, ClientSettings, ClientEnqueue, ClientWake,
       ClientProbe, ClientTryLock, ClientUnprobe, ClientStart, ClientCreateFails, ClientOwn,
       ClientKillRows, ClientAcknowledged, ClientTimeout, ClientKillSnapshot,
       ClientFence, ClientKillPane, ClientKillWorker, ClientCrash, ClientBegin
<1>5. ASSUME NEW c \in Client, NEW v \in Worker, ClientCreate(c, v)
      PROVE  /\ batch'[w] = batch[w] /\ cur'[w] = cur[w] /\ snap'[w] = snap[w]
             /\ wk'[w] = wk[w] \/ (wk[w] = "none" /\ wk'[w] = "boot")
  BY <1>5 DEF ClientCreate
<1>6. QED
  BY <1>1, <1>2, <1>3, <1>4, <1>5 DEF Next, Environment

\* Only a launch gives an attempt to a job.
LEMMA OwnerKept ==
  ASSUME [Next]_vars
  PROVE  \/ UNCHANGED owner
         \/ \E w \in Worker, j \in Job, t \in Token : WorkerLaunch(w, j, t)
<1>1. ASSUME NEW w \in Worker, WorkerReconcile(w)
      PROVE  UNCHANGED owner
  BY <1>1 DEF WorkerReconcile, attempts
<1>2. ASSUME NEW t \in Token,
             \/ WrapperClaim(t) \/ WrapperSpawn(t) \/ ChildExit(t)
             \/ WrapperCommit(t) \/ HeldRelease(t) \/ WrapperKilled(t)
      PROVE  UNCHANGED owner
  BY <1>2 DEF WrapperClaim, WrapperSpawn, ChildExit, WrapperCommit, HeldRelease, WrapperKilled
<1>3. ASSUME NEW c \in Client, ClientEnqueue(c) \/ ClientFence(c)
      PROVE  UNCHANGED owner
  BY <1>3 DEF ClientEnqueue, ClientFence, attempts
<1>4. CASE Reboot
  BY <1>4 DEF Reboot
<1>5. QED
  BY <1>1, <1>2, <1>3, <1>4, TableSteps DEF TableStep

\* Every step keeps a dispatcher's remaining batch queued.
LEMMA BatchStep ==
  ASSUME IInv, [Next]_vars, NEW w \in Worker
  PROVE  BatchOK(w)'
<1> USE DEF IInv, TypeOK, BatchOK, WorkerGoto
<1>1. CASE WorkerLock(w)
  BY <1>1 DEF WorkerLock, FirstIds, InState
<1>2. ASSUME NEW j \in Job, NEW t \in Token, WorkerLaunch(w, j, t)
      PROVE  BatchOK(w)'
  <2>1. batch'[w] = batch[w] /\ cur'[w] = t /\ wk'[w] = "request"
    BY <1>2 DEF WorkerLaunch
  <2>2. wrap'[t] = "requested" /\ owner'[t] = j
    BY <1>2 DEF WorkerLaunch
  <2>3. \A i \in Job : i # j => jobs'[i] = jobs[i]
    BY <1>2 DEF WorkerLaunch
  <2>4. batch[w] \subseteq InState({"queued"})
    BY <1>2 DEF WorkerLaunch
  <2>5. QED
    BY <2>1, <2>2, <2>3, <2>4 DEF InState
<1>3. CASE WorkerLaunched(w)
  BY <1>3 DEF WorkerLaunched, InState
<1>4. CASE WorkerDie(w) \/ Reboot
  BY <1>4 DEF WorkerDie, Reboot
<1>5. CASE WorkerRoundEnd(w)
  BY <1>5 DEF WorkerRoundEnd
<1>6. CASE \/ WorkerStart(w) \/ WorkerMark(w) \/ WorkerSnapshot(w) \/ WorkerReconcile(w)
           \/ WorkerRelease(w) \/ WorkerUnlock(w) \/ WorkerExit(w)
  <2>1. batch' = batch
    BY <1>6 DEF WorkerStart, WorkerMark, WorkerSnapshot, WorkerReconcile, WorkerRelease,
                WorkerUnlock, WorkerExit
  <2>2. wk[w] \notin {"dispatch", "request"} /\ wk'[w] \notin {"dispatch", "request"}
    BY <1>6 DEF WorkerStart, WorkerMark, WorkerSnapshot, WorkerReconcile, WorkerRelease,
                WorkerUnlock, WorkerExit
  <2>3. QED
    BY <2>1, <2>2
<1>7. ASSUME ~WorkerStep(w), batch'[w] = batch[w], cur'[w] = cur[w],
             wk'[w] = wk[w] \/ (wk[w] = "none" /\ wk'[w] = "boot")
      PROVE  BatchOK(w)'
  <2>1. CASE wk[w] \notin {"dispatch", "request"}
    BY <1>7, <2>1
  <2>2. CASE wk[w] \in {"dispatch", "request"}
    <3>1. wk'[w] = wk[w]
      BY <1>7, <2>2
    <3>2. ASSUME NEW v \in Worker, NEW j \in Job, NEW t \in Token, WorkerLaunch(v, j, t)
          PROVE  FALSE
      <4>1. wk[v] = "dispatch"
        BY <3>2 DEF WorkerLaunch
      <4>2. v = w
        BY <2>2, <4>1 DEF Exclusion
      <4>3. QED
        BY <1>7, <3>2, <4>2 DEF WorkerStep
    <3>3. \A j \in InState({"queued"}) : j \in InState({"queued"})'
      BY <3>2, QueuedStays DEF InState
    <3>4. UNCHANGED owner
      BY <3>2, OwnerKept
    <3>5. ASSUME NEW t \in Token, wrap[t] # "none"
          PROVE  wrap'[t] # "none"
      BY <3>4, <3>5, StartedStep, NoneAssumption DEF Started
    <3>6. CASE wk[w] = "dispatch"
      BY <1>7, <3>1, <3>3, <3>6
    <3>7. CASE wk[w] = "request"
      <4>1. /\ cur'[w] \in Token
            /\ wrap'[cur'[w]] # "none"
            /\ owner'[cur'[w]] = owner[cur[w]]
        BY <1>7, <3>4, <3>5, <3>7
      <4>2. batch[w] \ {owner[cur[w]]} \subseteq InState({"queued"})
        BY <3>7
      <4>3. QED
        BY <1>7, <3>1, <3>3, <3>7, <4>1, <4>2
    <3>8. QED
      BY <2>2, <3>6, <3>7
  <2>3. QED
    BY <2>1, <2>2
<1>8. QED
  BY <1>1, <1>2, <1>3, <1>4, <1>5, <1>6, <1>7, OthersLeaveWorker DEF WorkerStep

\* A row becomes active only by a launch.
LEMMA ActiveByLaunch ==
  ASSUME IInv, [Next]_vars, NEW j \in Job, jobs[j].state \notin ACTIVE, jobs'[j].state \in ACTIVE
  PROVE  \E w \in Worker, t \in Token : WorkerLaunch(w, j, t)
<1> USE DEF IInv, TypeOK, Row
<1>1. CASE UNCHANGED <<jobs, owner, child>>
  BY <1>1
<1>2. ASSUME NEW w \in Worker, WorkerReconcile(w)
      PROVE  FALSE
  BY <1>2 DEF WorkerReconcile, Reconciled
<1>3. ASSUME NEW w \in Worker, NEW i \in Job, NEW t \in Token, WorkerLaunch(w, i, t), i # j
      PROVE  FALSE
  BY <1>3 DEF WorkerLaunch
<1>4. ASSUME NEW t \in Token,
             \/ WrapperClaim(t) \/ WrapperCommit(t) \/ HeldRelease(t)
             \/ WrapperSpawn(t) \/ ChildExit(t) \/ WrapperKilled(t)
      PROVE  FALSE
  BY <1>4 DEF WrapperClaim, WrapperCommit, HeldRelease, WrapperSpawn, ChildExit,
              WrapperKilled, Owned, JobOf
<1>5. ASSUME NEW c \in Client, ClientEnqueue(c)
      PROVE  FALSE
  <2>1. \/ jobs'[j] = jobs[j]
        \/ \E x : jobs'[j] = InsertedRow(x)
    BY <1>5 DEF ClientEnqueue
  <2>2. QED
    BY <2>1 DEF InsertedRow, AbsentRow
<1>6. ASSUME NEW c \in Client, ClientFence(c)
      PROVE  FALSE
  BY <1>6 DEF ClientFence, Fenced
<1>7. CASE Reboot
  BY <1>7 DEF Reboot
<1>8. QED
  BY <1>1, <1>2, <1>3, <1>4, <1>5, <1>6, <1>7, TableSteps DEF TableStep

\* -K starts to kill panes only by its transaction.
LEMMA OnlyFenceEntersKillPanes ==
  ASSUME IInv, [Next]_vars, NEW c \in Client, cl[c] # "killPanes", cl'[c] = "killPanes"
  PROVE  ClientFence(c)
<1> USE DEF IInv, TypeOK, ClientGoto, Leave, clients
<1>1. CASE UNCHANGED vars
  BY <1>1 DEF vars
<1>2. ASSUME NEW w \in Worker, WorkerStep(w) \/ WorkerDie(w)
      PROVE  UNCHANGED cl
  BY <1>2 DEF WorkerStep, WorkerStart, WorkerMark, WorkerSnapshot, WorkerReconcile, WorkerLock,
     WorkerLaunch, WorkerLaunched, WorkerRoundEnd, WorkerRelease, WorkerUnlock, WorkerExit,
     WorkerDie
<1>3. ASSUME NEW t \in Token,
             \/ WrapperStep(t) \/ PaneAppears(t) \/ HeldEnter(t) \/ WrapperSignal(t)
             \/ UserKillsPane(t) \/ WrapperVanishes(t)
      PROVE  UNCHANGED cl
  BY <1>3 DEF WrapperStep, PaneAppears, WrapperClaim, WrapperSpawn, WrapperAssign, ChildExit,
     WrapperCommit, HeldContinue, HeldEnter, HeldRelease, HeldLost, WrapperSignal,
     WrapperKilled, UserKillsPane, WrapperVanishes
<1>4. ASSUME NEW d \in Client,
             ClientStep(d) \/ ClientCrash(d) \/ \E r \in Requests : ClientBegin(d, r)
      PROVE  ClientFence(c)
  <2>1. CASE ClientCheckOwner(d) \/ ClientEnqueue(d) \/ ClientWake(d) \/ ClientProbe(d)
    BY <2>1 DEF ClientCheckOwner, ClientEnqueue, ClientWake, ClientProbe
  <2>2. CASE ClientTryLock(d) \/ ClientUnprobe(d) \/ ClientStart(d) \/ ClientCreateFails(d)
    BY <2>2 DEF ClientTryLock, ClientUnprobe, ClientStart, ClientCreateFails
  <2>3. CASE ClientOwn(d) \/ ClientAcknowledged(d) \/ ClientTimeout(d) \/ ClientCrash(d)
    BY <2>3 DEF ClientOwn, ClientAcknowledged, ClientTimeout, ClientCrash
  <2>4. CASE ClientKillSnapshot(d) \/ ClientKillRows(d) \/ ClientFence(d) \/ ClientKillWorker(d)
    BY <2>4 DEF ClientKillSnapshot, ClientKillRows, ClientFence, ClientKillWorker
  <2>5. CASE \/ \E w \in Worker : ClientCreate(d, w)
             \/ \E t \in Token : ClientKillPane(d, t)
             \/ \E r \in Requests : ClientBegin(d, r)
    BY <2>5 DEF ClientCreate, ClientKillPane, ClientBegin
  <2>6. CASE ClientSettings(d)
    <3>1. req[d] \in Request
      BY <2>6, RequestsAssumption DEF ClientSettings, Started
    <3>2. FirstStep(req[d]) # "killPanes"
      BY <3>1 DEF FirstStep, Request
    <3>3. QED
      BY <2>6, <3>2 DEF ClientSettings
  <2>7. QED
    BY <1>4, <2>1, <2>2, <2>3, <2>4, <2>5, <2>6 DEF ClientStep
<1>5. CASE Reboot
  BY <1>5 DEF Reboot
<1>6. QED
  BY <1>1, <1>2, <1>3, <1>4, <1>5 DEF Next, Environment

\* After the transaction of -K nothing becomes active: a launch needs launch.lock, and the
\* other steps only move rows that are already active.
LEMMA KillFencesStep ==
  ASSUME IInv, [Next]_vars
  PROVE  KillFences'
<1> SUFFICES ASSUME NEW c \in Client, cl'[c] = "killPanes", NEW j \in Job,
                    jobs'[j].state \in ACTIVE
             PROVE  FALSE
  BY DEF KillFences, InState
<1>1. CASE cl[c] # "killPanes"
  <2>1. ClientFence(c)
    BY <1>1, OnlyFenceEntersKillPanes
  <2>2. QED
    BY <2>1 DEF ClientFence, Fenced, Requeued, Released, IInv, TypeOK, Row
<1>2. CASE cl[c] = "killPanes"
  <2>1. jobs[j].state \notin ACTIVE
    BY <1>2 DEF IInv, KillFences, InState
  <2>2. PICK w \in Worker, t \in Token : WorkerLaunch(w, j, t)
    BY <2>1, ActiveByLaunch
  <2>3. launchLock = w /\ launchLock = c
    BY <1>2, <2>2 DEF WorkerLaunch, IInv, Exclusion
  <2>4. QED
    BY <2>3, DistinctAssumption
<1>3. QED
  BY <1>1, <1>2

----------------------------------------------------------------------------
(***************************************************************************)
(* The invariant and what follows from it.                                 *)
(***************************************************************************)

\* A new state directory satisfies the invariant.
LEMMA InitIInv == Init => IInv
<1> SUFFICES ASSUME Init
             PROVE  IInv
  OBVIOUS
<1> USE DEF Init
<1>1. jobs \in [Job -> Row]
  BY NewRows
<1>2. TypeOK
  <2>1. /\ limit \in 1..MaxJobs
        /\ faults \in 0..MaxFaults
    BY MaxJobsAssumption, MaxFaultsAssumption
  <2>2. /\ wrap \in [Token -> WrapPC] /\ child \in [Token -> ChildState]
        /\ wk \in [Worker -> WorkerPC] /\ cl \in [Client -> ClientPC]
    BY DEF WrapPC, ChildState, WorkerPC, ClientPC
  <2>3. /\ mode \in {"blocking", "continue"} /\ stop \in BOOLEAN /\ owned \in BOOLEAN
        /\ marker \in Worker \cup {None}
        /\ launchLock \in Worker \cup Client \cup {None}
        /\ coordLock \in Worker \cup Client \cup {None}
        /\ panes \subseteq Worker \cup Token
    OBVIOUS
  <2>4. /\ owner \in [Token -> Job \cup {None}]
        /\ snap \in [Worker -> SUBSET Token] /\ batch \in [Worker -> SUBSET Job]
        /\ cur \in [Worker -> Token \cup {None}]
        /\ req \in [Client -> Requests \cup {None}]
        /\ seen \in [Client -> SUBSET (Worker \cup Token)]
        /\ cw \in [Client -> Worker \cup {None}]
    OBVIOUS
  <2>5. QED
    BY <1>1, <2>1, <2>2, <2>3, <2>4 DEF TypeOK
<1>3. Started
  BY DEF Started
<1>4. \A j \in Job : RowOK(j)
  BY DEF RowOK, AbsentRow
<1>5. Exclusion /\ KillFences
  BY DEF Exclusion, KillFences
<1>6. \A w \in Worker : BatchOK(w)
  BY DEF BatchOK
<1>7. QED
  BY <1>2, <1>3, <1>4, <1>5, <1>6 DEF IInv

\* Every step keeps the types.
LEMMA TypedStep ==
  ASSUME IInv, [Next]_vars
  PROVE  TypeOK'
<1>1. CASE UNCHANGED vars
  BY <1>1 DEF IInv, TypeOK, vars, settings, locks, session, attempts, workers, clients
<1>2. CASE Next
  BY <1>2, WorkerTyped, WrapperTyped, ClientTyped, RebootTyped DEF IInv, Next, Environment
<1>3. QED
  BY <1>1, <1>2

\* The invariant is inductive.
LEMMA IInvStep == IInv /\ [Next]_vars => IInv'
<1> SUFFICES ASSUME IInv, [Next]_vars
             PROVE  IInv'
  OBVIOUS
<1>1. TypeOK' /\ Started' /\ Exclusion' /\ KillFences'
  BY TypedStep, StartedStep, ExclusionStep, KillFencesStep
<1>2. \A j \in Job : RowOK(j)'
  BY RowsStep
<1>3. \A w \in Worker : BatchOK(w)'
  BY BatchStep
<1>4. QED
  BY <1>1, <1>2, <1>3 DEF IInv

\* The invariant on which the theorems below rest holds in every reachable state.
THEOREM Invariance == Spec => []IInv
BY InitIInv, IInvStep, PTL DEF Spec

\* Type correctness: whatever is interrupted, every variable keeps the values the code can
\* give it.
THEOREM TypeCorrect == Spec => []TypeOK
<1>1. IInv => TypeOK
  BY DEF IInv
<1>2. QED
  BY <1>1, Invariance, PTL

\* Every row that the table shows as active names an attempt launched for that very job.
THEOREM AttemptsFenced == Spec => []ActiveAttemptsFenced
<1>1. IInv => ActiveAttemptsFenced
  BY DEF IInv, TypeOK, Row, RowOK, ActiveAttemptsFenced, InState
<1>2. QED
  BY <1>1, Invariance, PTL

\* A recorded return code is what the command of the recorded attempt returned.
THEOREM RealOutcomes == Spec => []OutcomeIsReal
<1>1. IInv => OutcomeIsReal
  <2> SUFFICES ASSUME IInv, NEW j \in Job, jobs[j].rc \in {"ok", "fail"}
               PROVE  /\ jobs[j].state \in {"held", "done"}
                      /\ jobs[j].token \in Token
                      /\ owner[jobs[j].token] = j
                      /\ child[jobs[j].token] = jobs[j].rc
    BY DEF OutcomeIsReal
  <2> QED
    BY DEF IInv, TypeOK, Row, RowOK
<1>2. QED
  BY <1>1, Invariance, PTL

\* While -K kills panes, no attempt owns a job.
THEOREM KillIsFenced == Spec => []KillFences
<1>1. IInv => KillFences
  BY DEF IInv
<1>2. QED
  BY <1>1, Invariance, PTL

\* No step changes a finished job, and a held failure only gives up its slot.
LEMMA FinalStep ==
  ASSUME IInv, [Next]_vars, NEW j \in Job
  PROVE  /\ jobs[j].state = "done" => jobs'[j] = jobs[j]
         /\ jobs[j].state = "held" => jobs'[j] \in {jobs[j], Released(jobs[j])}
<1> USE DEF IInv, TypeOK, Row
<1>1. CASE UNCHANGED <<jobs, owner, child>>
  BY <1>1
<1>2. ASSUME NEW w \in Worker, WorkerReconcile(w)
      PROVE  /\ jobs[j].state = "done" => jobs'[j] = jobs[j]
             /\ jobs[j].state = "held" => jobs'[j] \in {jobs[j], Released(jobs[j])}
  BY <1>2 DEF WorkerReconcile, Reconciled
<1>3. ASSUME NEW w \in Worker, NEW i \in Job, NEW t \in Token, WorkerLaunch(w, i, t)
      PROVE  jobs[j].state \in {"done", "held"} => jobs'[j] = jobs[j]
  <2>1. jobs[i].state = "queued"
    BY <1>3 DEF WorkerLaunch, BatchOK, InState
  <2>2. QED
    BY <1>3, <2>1 DEF WorkerLaunch
<1>4. ASSUME NEW t \in Token,
             WrapperClaim(t) \/ WrapperSpawn(t) \/ ChildExit(t) \/ WrapperKilled(t)
      PROVE  jobs[j].state \in {"done", "held"} => jobs'[j] = jobs[j]
  BY <1>4 DEF WrapperClaim, WrapperSpawn, ChildExit, WrapperKilled, Owned, JobOf
<1>5. ASSUME NEW t \in Token, WrapperCommit(t)
      PROVE  jobs[j].state \in {"done", "held"} => jobs'[j] = jobs[j]
  BY <1>5 DEF WrapperCommit, Owned, JobOf
<1>6. ASSUME NEW t \in Token, HeldRelease(t)
      PROVE  /\ jobs[j].state = "done" => jobs'[j] = jobs[j]
             /\ jobs[j].state = "held" => jobs'[j] \in {jobs[j], Released(jobs[j])}
  BY <1>6 DEF HeldRelease, Owned, JobOf
<1>7. ASSUME NEW c \in Client, ClientEnqueue(c)
      PROVE  jobs[j].state \in {"done", "held"} => jobs'[j] = jobs[j]
  BY <1>7 DEF ClientEnqueue, FirstIds, InState
<1>8. ASSUME NEW c \in Client, ClientFence(c)
      PROVE  /\ jobs[j].state = "done" => jobs'[j] = jobs[j]
             /\ jobs[j].state = "held" => jobs'[j] \in {jobs[j], Released(jobs[j])}
  BY <1>8 DEF ClientFence, Fenced
<1>9. CASE Reboot
  BY <1>9 DEF Reboot
<1>10. QED
  BY <1>1, <1>2, <1>3, <1>4, <1>5, <1>6, <1>7, <1>8, <1>9, TableSteps DEF TableStep

\* A recorded outcome is never changed and never replayed.
THEOREM Finality == Spec => RecordedIsFinal
<1>1. IInv /\ [Next]_vars =>
        [\A j \in Job :
           /\ jobs[j].state = "done" => jobs'[j] = jobs[j]
           /\ jobs[j].state = "held" => jobs'[j] \in {jobs[j], Released(jobs[j])}]_vars
  BY FinalStep
<1>2. QED
  BY <1>1, Invariance, PTL DEF Spec, RecordedIsFinal

-----------------------------------------------------------------------------

(***************************************************************************)
(* The abstract state that rows, wrappers and commands stand for.          *)
(***************************************************************************)
AbsStatus  == [j \in Job |-> Status(jobs[j])]
AbsAttempt == [j \in Job |-> jobs[j].token]
AbsOutcome == [j \in Job |-> jobs[j].rc]
AbsBegun   == {t \in Token : wrap[t] # "none"}
AbsResult  == [t \in Token |-> IF child[t] \in {"ok", "fail"} THEN child[t] ELSE "none"]
AbsVars    == <<AbsStatus, AbsAttempt, AbsOutcome, AbsBegun, AbsResult>>

\* Only launching a job begins an attempt, and an attempt that was begun stays so.
LEMMA BegunStep ==
  ASSUME TypeOK, [Next]_vars
  PROVE  \/ AbsBegun' = AbsBegun
         \/ \E w \in Worker, j \in Job, t \in Token : WorkerLaunch(w, j, t)
<1> USE DEF TypeOK, AbsBegun, WrapperGoto, WrapperEnds, attempts
<1> SUFFICES ASSUME ~ \E w \in Worker, j \in Job, t \in Token : WorkerLaunch(w, j, t)
             PROVE  \A t \in Token : wrap'[t] # "none" <=> wrap[t] # "none"
  OBVIOUS
<1>1. CASE UNCHANGED wrap
  BY <1>1
<1>2. ASSUME NEW w \in Worker, WorkerStep(w) \/ WorkerDie(w)
      PROVE  UNCHANGED wrap
  BY <1>2 DEF WorkerStep, WorkerStart, WorkerMark, WorkerSnapshot, WorkerReconcile, WorkerLock,
              WorkerLaunched, WorkerRoundEnd, WorkerRelease, WorkerUnlock, WorkerExit, WorkerDie
<1>3. ASSUME NEW c \in Client, ClientStep(c) \/ ClientCrash(c) \/ \E r \in Requests : ClientBegin(c, r)
      PROVE  UNCHANGED wrap
  BY <1>3 DEF ClientStep, ClientCheckOwner, ClientSettings, ClientEnqueue, ClientWake, ClientProbe,
     ClientTryLock, ClientUnprobe, ClientStart, ClientCreate, ClientCreateFails, ClientOwn,
     ClientAcknowledged, ClientTimeout, ClientKillSnapshot, ClientKillRows, ClientFence,
     ClientKillPane, ClientKillWorker, ClientCrash, ClientBegin
<1>4. ASSUME NEW t \in Token,
             \/ WrapperStep(t) \/ PaneAppears(t) \/ HeldEnter(t) \/ WrapperSignal(t)
             \/ UserKillsPane(t) \/ WrapperVanishes(t)
      PROVE  \/ UNCHANGED wrap
             \/ wrap[t] # "none" /\ \E pc \in WrapPC \ {"none"} : wrap' = [wrap EXCEPT ![t] = pc]
  BY <1>4 DEF WrapPC, WrapperStep, WrapperClaim, WrapperSpawn, WrapperAssign, ChildExit,
     WrapperCommit, HeldContinue, HeldRelease, HeldLost, WrapperKilled, PaneAppears, HeldEnter,
     WrapperSignal, UserKillsPane, WrapperVanishes, WrapperAlive
<1>5. CASE Reboot
  BY <1>5 DEF Reboot
<1>6. CASE UNCHANGED vars
  BY <1>6 DEF vars
<1>7. QED
  BY <1>1, <1>2, <1>3, <1>4, <1>5, <1>6 DEF Next, Environment

----------------------------------------------------------------------------
\* The rows decide the first three parts of the abstract state, the commands the last.
LEMMA SameAbstraction ==
  ASSUME UNCHANGED <<jobs, child>>
  PROVE  UNCHANGED <<AbsStatus, AbsAttempt, AbsOutcome, AbsResult>>
BY DEF AbsStatus, AbsAttempt, AbsOutcome, AbsResult

\* A launch starts the job as a new attempt.
LEMMA LaunchStarts ==
  ASSUME IInv, NEW w \in Worker, NEW j \in Job, NEW t \in Token, WorkerLaunch(w, j, t)
  PROVE  Queue!Start(j, t)
<1> USE DEF IInv, TypeOK, Row
<1>1. jobs[j].state = "queued"
  BY DEF WorkerLaunch, BatchOK, InState
<1>2. jobs[j].rc = "none"
  BY <1>1 DEF RowOK
<1>3. QED
  BY <1>1, <1>2 DEF WorkerLaunch, Queue!Start, Launched, Status

\* A command that ends, or cannot be executed, returns.
LEMMA ExitReturns ==
  ASSUME IInv, NEW t \in Token, WrapperSpawn(t) \/ ChildExit(t) \/ WrapperKilled(t),
         AbsBegun' = AbsBegun
  PROVE  \/ UNCHANGED AbsVars
         \/ \E r \in {"ok", "fail"} : Queue!Return(t, r)
<1> USE DEF IInv, TypeOK, AbsVars, AbsStatus, AbsAttempt, AbsOutcome, AbsResult, AbsBegun
<1>1. CASE WrapperSpawn(t)
  <2>1. child[t] = "none"
    BY <1>1 DEF WrapperSpawn, Started
  <2>2. QED
    BY <1>1, <2>1 DEF WrapperSpawn, Queue!Return
<1>2. CASE ChildExit(t)
  <2>1. wrap[t] # "none"
    BY <1>2 DEF ChildExit, Started
  <2>2. QED
    BY <1>2, <2>1 DEF ChildExit, Queue!Return
<1>3. CASE WrapperKilled(t)
  BY <1>3 DEF WrapperKilled
<1>4. QED
  BY <1>1, <1>2, <1>3

\* The outcome an attempt commits is the one it returned, and a held failure stays recorded.
LEMMA CommitRecords ==
  ASSUME IInv, NEW t \in Token, WrapperCommit(t), AbsBegun' = AbsBegun
  PROVE  \/ UNCHANGED AbsVars
         \/ \E j \in Job : Queue!Record(j)
<1> USE DEF IInv, TypeOK, Row
<1> UNCHANGED AbsResult
  BY DEF WrapperCommit, AbsResult
<1>1. CASE Owned(JobOf(t), t, {"running"}) /\ jobs' = [jobs EXCEPT ![owner[t]] = Recorded(@, child[t])]
  <2>1. PICK j \in Job : j = owner[t]
    BY <1>1 DEF WrapperCommit, Started
  <2>2. jobs[j].token = t /\ jobs[j].state = "running" /\ child[t] \in {"ok", "fail"}
    BY <1>1, <2>1 DEF Owned, JobOf, WrapperCommit
  <2>3. Status(jobs[j]) = "running" /\ Status(Recorded(jobs[j], child[t])) = "done"
    BY <2>2 DEF Status, Recorded
  <2>4. Recorded(jobs[j], child[t]).token = t /\ Recorded(jobs[j], child[t]).rc = child[t]
    BY <2>2 DEF Recorded
  <2>5. \A i \in Job : jobs'[i] = IF i = j THEN Recorded(jobs[j], child[t]) ELSE jobs[i]
    BY <1>1, <2>1
  <2>6. child' = child
    BY DEF WrapperCommit
  <2>7. Queue!Record(j)
    BY <2>2, <2>3, <2>4, <2>5, <2>6 DEF Queue!Record, AbsBegun, Status
  <2>8. QED
    BY <2>7
<1>2. CASE UNCHANGED <<jobs, child>>
  BY <1>2, SameAbstraction DEF AbsVars
<1>3. QED
  BY <1>1, <1>2 DEF WrapperCommit

\* Claiming a job and giving a held slot back do not show.
LEMMA ClaimIsHidden ==
  ASSUME IInv, NEW t \in Token, WrapperClaim(t) \/ HeldRelease(t), AbsBegun' = AbsBegun
  PROVE  UNCHANGED AbsVars
<1> USE DEF IInv, TypeOK, Row
<1>1. UNCHANGED child
  BY DEF WrapperClaim, HeldRelease
<1>2. ASSUME NEW j \in Job
      PROVE  /\ Status(jobs'[j]) = Status(jobs[j])
             /\ jobs'[j].token = jobs[j].token
             /\ jobs'[j].rc = jobs[j].rc
  <2>1. CASE WrapperClaim(t)
    BY <2>1 DEF WrapperClaim, Owned, JobOf, Claimed, Status
  <2>2. CASE HeldRelease(t)
    BY <2>2 DEF HeldRelease, Owned, JobOf, Released, Status
  <2>3. QED
    BY <2>1, <2>2
<1>3. QED
  BY <1>1, <1>2 DEF AbsVars, AbsStatus, AbsAttempt, AbsOutcome, AbsResult

\* The attempt of a row that waits for an outcome has no live pane.
Gone(row, live) == row.state \in {"starting", "running"} /\ row.token \notin live

\* reconcile abandons the rows whose attempt is gone: they wait again when a coordinator
\* starts and are finished later; held failures only give their slots back.
LEMMA ReconciledRow ==
  ASSUME NEW row \in Row, NEW live
  PROVE  /\ Gone(row, live) => /\ Reconciled(row, live, TRUE) = Requeued(row)
                               /\ Reconciled(row, live, FALSE) = Finished(row)
         /\ ~Gone(row, live) =>
              \A new \in {Reconciled(row, live, TRUE), Reconciled(row, live, FALSE)} :
                Status(new) = Status(row) /\ new.token = row.token /\ new.rc = row.rc
<1>1. CASE row.state \notin ACTIVE \/ row.token \in live
  BY <1>1 DEF Reconciled, Gone
<1>2. CASE row.state = "held" /\ row.token \notin live
  <2>1. /\ Reconciled(row, live, TRUE) = Released(row) /\ Reconciled(row, live, FALSE) = Released(row)
        /\ ~Gone(row, live)
    BY <1>2 DEF Reconciled, Gone
  <2>2. Status(Released(row)) = Status(row) /\ Released(row).token = row.token /\ Released(row).rc = row.rc
    BY <1>2 DEF Released, Status, Row
  <2>3. QED
    BY <2>1, <2>2
<1>3. CASE Gone(row, live)
  BY <1>3 DEF Reconciled, Gone
<1>4. QED
  BY <1>1, <1>2, <1>3 DEF Gone, Row

\* What becomes of the columns of a row that is abandoned.
LEMMA AbandonedRow ==
  ASSUME NEW row \in Row
  PROVE  /\ Status(Requeued(row)) = "queued" /\ Requeued(row).token = None /\ Requeued(row).rc = row.rc
         /\ Status(Finished(row)) = "done" /\ Finished(row).token = row.token
         /\ Finished(row).rc = "interrupted"
BY DEF Row, Requeued, Finished, Status

\* So does -K with every row of an attempt without an outcome.
LEMMA FencedRow ==
  ASSUME NEW row \in Row
  PROVE  /\ Status(Fenced(row)) =
              IF row.state \in {"starting", "running"} THEN "queued" ELSE Status(row)
         /\ Fenced(row).token = IF row.state \in {"starting", "running"} THEN None ELSE row.token
         /\ Fenced(row).rc = row.rc
BY DEF Row, Fenced, Requeued, Released, Status

\* reconcile gives attempts up when a coordinator starts, and writes them off later.
LEMMA ReconcileLosesOrRequeues ==
  ASSUME IInv, NEW w \in Worker, WorkerReconcile(w), AbsBegun' = AbsBegun
  PROVE  \E J \in SUBSET Job : Queue!Requeue(J) \/ Queue!Lose(J)
<1>1. PICK J \in SUBSET Job : \A j \in Job : j \in J <=> Gone(jobs[j], snap[w])
  <2>1. {j \in Job : Gone(jobs[j], snap[w])} \in SUBSET Job
    OBVIOUS
  <2>2. QED
    BY <2>1
<1>2. \A j \in Job : jobs'[j] = Reconciled(jobs[j], snap[w], wk[w] = "requeue")
  BY DEF WorkerReconcile
<1>3. \A j \in Job : jobs[j] \in Row
  BY DEF IInv, TypeOK
<1>4. UNCHANGED child
  BY DEF WorkerReconcile, attempts
<1>5. \A j \in J : Status(jobs[j]) = "running"
  BY <1>1 DEF Status, Gone
<1>6. CASE wk[w] = "requeue"
  <2>1. ASSUME NEW j \in Job
        PROVE  /\ Status(jobs'[j]) = IF j \in J THEN "queued" ELSE Status(jobs[j])
               /\ jobs'[j].token = IF j \in J THEN None ELSE jobs[j].token
               /\ jobs'[j].rc = jobs[j].rc
    <3>1. jobs'[j] = Reconciled(jobs[j], snap[w], TRUE)
      BY <1>2, <1>6
    <3>2. CASE j \in J
      <4>1. jobs'[j] = Requeued(jobs[j])
        BY <1>1, <1>3, <3>1, <3>2, ReconciledRow
      <4>2. QED
        BY <1>3, <3>2, <4>1, AbandonedRow
    <3>3. CASE j \notin J
      <4>1. /\ Status(Reconciled(jobs[j], snap[w], TRUE)) = Status(jobs[j])
            /\ Reconciled(jobs[j], snap[w], TRUE).token = jobs[j].token
            /\ Reconciled(jobs[j], snap[w], TRUE).rc = jobs[j].rc
        BY <1>1, <1>3, <3>3, ReconciledRow
      <4>2. QED
        BY <3>1, <3>3, <4>1
    <3>4. QED
      BY <3>2, <3>3
  <2>2. Queue!Requeue(J)
    BY <1>4, <1>5, <2>1 DEF Queue!Requeue, AbsBegun, Status
  <2>3. QED
    BY <2>2
<1>7. CASE wk[w] # "requeue"
  <2>1. ASSUME NEW j \in Job
        PROVE  /\ Status(jobs'[j]) = IF j \in J THEN "done" ELSE Status(jobs[j])
               /\ jobs'[j].token = jobs[j].token
               /\ jobs'[j].rc = IF j \in J THEN "interrupted" ELSE jobs[j].rc
    <3>1. jobs'[j] = Reconciled(jobs[j], snap[w], FALSE)
      BY <1>2, <1>7
    <3>2. CASE j \in J
      <4>1. jobs'[j] = Finished(jobs[j])
        BY <1>1, <1>3, <3>1, <3>2, ReconciledRow
      <4>2. QED
        BY <1>3, <3>2, <4>1, AbandonedRow
    <3>3. CASE j \notin J
      <4>1. /\ Status(Reconciled(jobs[j], snap[w], FALSE)) = Status(jobs[j])
            /\ Reconciled(jobs[j], snap[w], FALSE).token = jobs[j].token
            /\ Reconciled(jobs[j], snap[w], FALSE).rc = jobs[j].rc
        BY <1>1, <1>3, <3>3, ReconciledRow
      <4>2. QED
        BY <3>1, <3>3, <4>1
    <3>4. QED
      BY <3>2, <3>3
  <2>2. Queue!Lose(J)
    BY <1>4, <1>5, <2>1 DEF Queue!Lose, AbsBegun, Status
  <2>3. QED
    BY <2>2
<1>8. QED
  BY <1>6, <1>7

\* -K gives up every attempt that has not recorded an outcome.
LEMMA FenceRequeues ==
  ASSUME IInv, NEW c \in Client, ClientFence(c), AbsBegun' = AbsBegun
  PROVE  \E J \in SUBSET Job : Queue!Requeue(J)
<1>1. PICK J \in SUBSET Job : \A j \in Job : j \in J <=> jobs[j].state \in {"starting", "running"}
  <2>1. {j \in Job : jobs[j].state \in {"starting", "running"}} \in SUBSET Job
    OBVIOUS
  <2>2. QED
    BY <2>1
<1>2. \A j \in Job : jobs[j] \in Row /\ jobs'[j] = Fenced(jobs[j])
  BY DEF ClientFence, IInv, TypeOK
<1>3. ASSUME NEW j \in Job
      PROVE  /\ Status(jobs'[j]) = IF j \in J THEN "queued" ELSE Status(jobs[j])
             /\ jobs'[j].token = IF j \in J THEN None ELSE jobs[j].token
             /\ jobs'[j].rc = jobs[j].rc
  BY <1>1, <1>2, FencedRow
<1>4. \A j \in J : Status(jobs[j]) = "running"
  BY <1>1 DEF Status
<1>5. Queue!Requeue(J)
  BY <1>3, <1>4 DEF Queue!Requeue, ClientFence, attempts, Status, AbsBegun
<1>6. QED
  BY <1>5

\* A transaction of Store.enqueue accepts its records together.
LEMMA EnqueueSubmits ==
  ASSUME IInv, NEW c \in Client, ClientEnqueue(c), AbsBegun' = AbsBegun
  PROVE  \E J \in SUBSET Job : Queue!Submit(J)
<1> USE DEF IInv, TypeOK, Row
<1> DEFINE J == FirstIds(InState({"absent"}), Cardinality(Accepted(req[c])))
<1>1. J \subseteq InState({"absent"})
  BY DEF FirstIds
<1>2. ASSUME NEW j \in Job
      PROVE  /\ j \in J => jobs[j].state = "absent"
             /\ Status(jobs'[j]) = IF j \in J THEN "queued" ELSE Status(jobs[j])
             /\ jobs'[j].token = jobs[j].token
             /\ jobs'[j].rc = jobs[j].rc
  <2>1. j \in J => jobs[j].state = "absent"
    BY <1>1 DEF InState
  <2>2. CASE j \notin J
    BY <2>1, <2>2 DEF ClientEnqueue
  <2>3. CASE j \in J
    <3>1. PICK cmd : jobs'[j] = InsertedRow(cmd)
      BY <2>3 DEF ClientEnqueue
    <3>2. jobs[j].token = None /\ jobs[j].rc = "none"
      BY <2>1, <2>3 DEF RowOK
    <3>3. QED
      BY <2>1, <2>3, <3>1, <3>2 DEF InsertedRow, AbsentRow, Status
  <2>4. QED
    BY <2>2, <2>3
<1>3. Queue!Submit(J)
  BY <1>1, <1>2 DEF Queue!Submit, ClientEnqueue, attempts, Status, AbsBegun, InState
<1>4. QED
  BY <1>1, <1>3 DEF InState

----------------------------------------------------------------------------
(***************************************************************************)
(* The refinement.                                                         *)
(***************************************************************************)

\* A step of panes, locks, processes or faults is a step of the queue or changes nothing of it.
LEMMA QueueStep ==
  ASSUME IInv, [Next]_vars
  PROVE  Queue!Next \/ UNCHANGED AbsVars
<1>1. CASE \E w \in Worker, j \in Job, t \in Token : WorkerLaunch(w, j, t)
  BY <1>1, LaunchStarts DEF Queue!Next
<1>2. CASE AbsBegun' = AbsBegun
  <2>1. CASE UNCHANGED <<jobs, child>>
    BY <1>2, <2>1, SameAbstraction DEF AbsVars
  <2>2. ASSUME NEW w \in Worker, WorkerReconcile(w)
        PROVE  Queue!Next
    BY <1>2, <2>2, ReconcileLosesOrRequeues DEF Queue!Next
  <2>3. ASSUME NEW t \in Token, WrapperSpawn(t) \/ ChildExit(t) \/ WrapperKilled(t)
        PROVE  Queue!Next \/ UNCHANGED AbsVars
    BY <1>2, <2>3, ExitReturns DEF Queue!Next
  <2>4. ASSUME NEW t \in Token, WrapperCommit(t)
        PROVE  Queue!Next \/ UNCHANGED AbsVars
    BY <1>2, <2>4, CommitRecords DEF Queue!Next
  <2>5. ASSUME NEW t \in Token, WrapperClaim(t) \/ HeldRelease(t)
        PROVE  UNCHANGED AbsVars
    BY <1>2, <2>5, ClaimIsHidden
  <2>6. ASSUME NEW c \in Client, ClientEnqueue(c)
        PROVE  Queue!Next
    BY <1>2, <2>6, EnqueueSubmits DEF Queue!Next
  <2>7. ASSUME NEW c \in Client, ClientFence(c)
        PROVE  Queue!Next
    BY <1>2, <2>7, FenceRequeues DEF Queue!Next
  <2>8. CASE Reboot
    <3>1. UNCHANGED jobs
      BY <2>8 DEF Reboot
    <3>2. AbsResult' = AbsResult
      BY <2>8 DEF Reboot, AbsResult, IInv, TypeOK
    <3>3. QED
      BY <1>2, <3>1, <3>2 DEF AbsVars, AbsStatus, AbsAttempt, AbsOutcome
  <2>9. QED
    BY <1>1, <2>1, <2>2, <2>3, <2>4, <2>5, <2>6, <2>7, <2>8, TableSteps DEF TableStep
<1>3. QED
  BY <1>1, <1>2, BegunStep DEF IInv

\* A new state directory is an empty queue.
LEMMA QueueInit == Init => Queue!Init
BY DEF Init, Queue!Init, AbsentRow, Status

\* The executor implements the queue: whatever is interrupted, killed or restarted, every job is
\* run by one attempt at a time, every recorded outcome is its attempt's, no outcome is lost
\* or changed, and a batch is accepted as a whole.
THEOREM QueueImplemented == Spec => ImplementsQueue
<1>1. IInv /\ [Next]_vars => [Queue!Next]_(Queue!vars)
  BY QueueStep DEF Queue!vars, AbsVars, AbsStatus, AbsAttempt, AbsOutcome, AbsBegun, AbsResult
<1>2. QED
  BY <1>1, QueueInit, Invariance, PTL DEF Spec, ImplementsQueue, Queue!Spec

----------------------------------------------------------------------------
(***************************************************************************)
(* --unique.                                                               *)
(***************************************************************************)
PENDING == ACTIVE \cup {"queued"}

\* Only an enqueueing client adds pending rows, and a command stays with its row.
LEMMA PendingStep ==
  ASSUME IInv, [Next]_vars, NEW j \in Job, jobs'[j].state \in PENDING,
         ~ \E c \in Client : ClientEnqueue(c)
  PROVE  jobs[j].state \in PENDING /\ jobs'[j].cmd = jobs[j].cmd
<1> USE DEF IInv, TypeOK, Row, PENDING
<1>1. CASE UNCHANGED <<jobs, owner, child>>
  BY <1>1
<1>2. ASSUME NEW w \in Worker, WorkerReconcile(w)
      PROVE  jobs[j].state \in PENDING /\ jobs'[j].cmd = jobs[j].cmd
  <2>1. \/ jobs'[j] = jobs[j]
        \/ jobs[j].state \in ACTIVE /\ jobs'[j] \in {Released(jobs[j]), Requeued(jobs[j]), Finished(jobs[j])}
    BY <1>2 DEF WorkerReconcile, Reconciled
  <2>2. QED
    BY <2>1 DEF Released, Requeued, Finished
<1>3. ASSUME NEW w \in Worker, NEW i \in Job, NEW t \in Token, WorkerLaunch(w, i, t)
      PROVE  jobs[j].state \in PENDING /\ jobs'[j].cmd = jobs[j].cmd
  <2>1. jobs[i].state = "queued"
    BY <1>3 DEF WorkerLaunch, BatchOK, InState
  <2>2. QED
    BY <1>3, <2>1 DEF WorkerLaunch, Launched
<1>4. ASSUME NEW t \in Token, WrapperSpawn(t) \/ ChildExit(t) \/ WrapperKilled(t)
      PROVE  UNCHANGED jobs
  BY <1>4 DEF WrapperSpawn, ChildExit, WrapperKilled
<1>5. ASSUME NEW t \in Token, WrapperClaim(t)
      PROVE  jobs[j].state \in PENDING /\ jobs'[j].cmd = jobs[j].cmd
  BY <1>5 DEF WrapperClaim, Claimed, Owned, JobOf
<1>6. ASSUME NEW t \in Token, WrapperCommit(t)
      PROVE  jobs[j].state \in PENDING /\ jobs'[j].cmd = jobs[j].cmd
  <2>1. \/ jobs'[j] = jobs[j]
        \/ jobs[j].state = "running" /\ jobs'[j] = Recorded(jobs[j], child[t])
    BY <1>6 DEF WrapperCommit, Owned, JobOf
  <2>2. QED
    BY <2>1 DEF Recorded
<1>7. ASSUME NEW t \in Token, HeldRelease(t)
      PROVE  jobs[j].state \in PENDING /\ jobs'[j].cmd = jobs[j].cmd
  BY <1>7 DEF HeldRelease, Released, Owned, JobOf
<1>8. ASSUME NEW c \in Client, ClientFence(c)
      PROVE  jobs[j].state \in PENDING /\ jobs'[j].cmd = jobs[j].cmd
  <2>1. \/ jobs'[j] = jobs[j]
        \/ jobs[j].state \in ACTIVE /\ jobs'[j] \in {Released(jobs[j]), Requeued(jobs[j])}
    BY <1>8 DEF ClientFence, Fenced
  <2>2. QED
    BY <2>1 DEF Released, Requeued
<1>9. CASE Reboot
  BY <1>9 DEF Reboot
<1>10. QED
  BY <1>1, <1>2, <1>3, <1>4, <1>5, <1>6, <1>7, <1>8, <1>9, TableSteps DEF TableStep

\* A request is made once.
LEMMA RequestsStay ==
  ASSUME IInv, [Next]_vars, NEW c \in Client, req[c] # None
  PROVE  req'[c] = req[c]
<1> USE DEF IInv, TypeOK, Started
<1>1. ASSUME NEW d \in Client, NEW r \in Requests, ClientBegin(d, r)
      PROVE  req'[c] = req[c]
  BY <1>1 DEF ClientBegin
<1>2. ASSUME NEW d \in Client, ClientStep(d) \/ ClientCrash(d)
      PROVE  UNCHANGED req
  BY <1>2 DEF ClientStep, ClientCheckOwner, ClientSettings, ClientEnqueue, ClientWake, ClientProbe,
     ClientTryLock, ClientUnprobe, ClientStart, ClientCreate, ClientCreateFails, ClientOwn,
     ClientAcknowledged, ClientTimeout, ClientKillSnapshot, ClientKillRows, ClientFence,
     ClientKillPane, ClientKillWorker, ClientCrash
<1>3. ASSUME NEW w \in Worker, WorkerStep(w) \/ WorkerDie(w)
      PROVE  UNCHANGED req
  BY <1>3 DEF WorkerStep, WorkerStart, WorkerMark, WorkerSnapshot, WorkerReconcile, WorkerLock,
     WorkerLaunch, WorkerLaunched, WorkerRoundEnd, WorkerRelease, WorkerUnlock, WorkerExit,
     WorkerDie, clients
<1>4. ASSUME NEW t \in Token,
             \/ WrapperStep(t) \/ PaneAppears(t) \/ HeldEnter(t) \/ WrapperSignal(t)
             \/ UserKillsPane(t) \/ WrapperVanishes(t)
      PROVE  UNCHANGED req
  BY <1>4 DEF WrapperStep, PaneAppears, WrapperClaim, WrapperSpawn, WrapperAssign, ChildExit,
     WrapperCommit, HeldContinue, HeldEnter, HeldRelease, HeldLost, WrapperSignal,
     WrapperKilled, UserKillsPane, WrapperVanishes, clients
<1>5. CASE Reboot \/ UNCHANGED vars
  BY <1>5 DEF Reboot, vars, clients
<1>6. QED
  BY <1>1, <1>2, <1>3, <1>4, <1>5 DEF Next, Environment

\* A transaction that skips what is pending leaves the pending commands apart.
LEMMA EnqueueKeepsApart ==
  ASSUME IInv, UniquePending, NEW c \in Client, ClientEnqueue(c),
         \A d \in Client : req[d] # None => req[d].unique \/ req[d].cmds = << >>,
         NEW i \in Job, NEW j \in Job, jobs'[i].state \in PENDING, jobs'[j].state \in PENDING,
         jobs'[i].cmd = jobs'[j].cmd
  PROVE  i = j
<1> USE DEF IInv, TypeOK, Row, PENDING
<1> DEFINE r == req[c]
           ids == FirstIds(InState({"absent"}), Cardinality(Accepted(r)))
<1>1. PICK record \in Bijection(ids, Accepted(r)) :
        jobs' = [k \in Job |-> IF k \in ids THEN InsertedRow(r.cmds[record[k]]) ELSE jobs[k]]
  BY DEF ClientEnqueue
<1>2. r \in Request /\ r # None /\ r \in Requests
  BY RequestsAssumption, NoneAssumption DEF ClientEnqueue, Started
<1> HIDE DEF ids, r
<1>3. record \in [ids -> Accepted(r)] /\ \A k, l \in ids : record[k] = record[l] => k = l
  BY DEF Bijection, Injection, IsInjective
<1>4. Accepted(r) \subseteq DOMAIN r.cmds
  BY DEF Accepted
<1>5. ASSUME NEW k \in ids
      PROVE  /\ r.unique
             /\ record[k] \in DOMAIN r.cmds
             /\ \A l \in 1 .. (record[k] - 1) : r.cmds[l] # r.cmds[record[k]]
             /\ \A l \in Job : jobs[l].state \in PENDING => jobs[l].cmd # r.cmds[record[k]]
  <2>1. record[k] \in Accepted(r)
    BY <1>3
  <2>2. DOMAIN r.cmds # {}
    BY <1>4, <2>1
  <2>3. r.cmds # << >>
    BY <2>2
  <2>4. r.unique
    BY <1>2, <2>3 DEF r
  <2>5. QED
    BY <1>4, <2>1, <2>4 DEF Accepted, InState
<1>6. \A k \in Job : k \in ids => jobs'[k].cmd = r.cmds[record[k]]
  BY <1>1 DEF InsertedRow, AbsentRow
<1>7. \A k \in Job : k \notin ids => jobs'[k] = jobs[k]
  BY <1>1
<1>8. CASE i \notin ids /\ j \notin ids
  BY <1>7, <1>8 DEF UniquePending, InState
<1>9. CASE i \in ids /\ j \in ids
  <2>1. record[i] \in Nat /\ record[j] \in Nat /\ record[i] >= 1 /\ record[j] >= 1
    <3>1. DOMAIN r.cmds = 1 .. Len(r.cmds) /\ Len(r.cmds) \in Nat
      BY <1>2 DEF Request
    <3>2. QED
      BY <1>5, <1>9, <3>1
  <2>2. r.cmds[record[i]] = r.cmds[record[j]]
    BY <1>6, <1>9
  <2>3. ~ record[i] < record[j] /\ ~ record[j] < record[i]
    <3>1. record[i] < record[j] => record[i] \in 1 .. (record[j] - 1)
      BY <2>1
    <3>2. record[j] < record[i] => record[j] \in 1 .. (record[i] - 1)
      BY <2>1
    <3>3. QED
      BY <1>5, <1>9, <2>2, <3>1, <3>2
  <2>4. record[i] = record[j]
    BY <2>1, <2>3
  <2>5. QED
    BY <1>3, <1>9, <2>4
<1>10. CASE i \in ids /\ j \notin ids
  BY <1>5, <1>6, <1>7, <1>10
<1>11. CASE i \notin ids /\ j \in ids
  BY <1>5, <1>6, <1>7, <1>11
<1>12. QED
  BY <1>8, <1>9, <1>10, <1>11

\* No step makes two pending rows of one command as long as every submission is --unique.
LEMMA UniqueStep ==
  ASSUME IInv, UniquePending, [Next]_vars
  PROVE  UniquePending'
<1>1. SUFFICES ASSUME \A c \in Client : req'[c] # None => req'[c].unique \/ req'[c].cmds = << >>,
                      NEW i \in Job, NEW j \in Job,
                      jobs'[i].state \in PENDING, jobs'[j].state \in PENDING,
                      jobs'[i].cmd = jobs'[j].cmd
               PROVE  i = j
  BY DEF UniquePending, InState, PENDING
<1>2. \A c \in Client : req[c] # None => req[c].unique \/ req[c].cmds = << >>
  BY <1>1, RequestsStay
<1>3. CASE \E c \in Client : ClientEnqueue(c)
  BY <1>1, <1>2, <1>3, EnqueueKeepsApart
<1>4. CASE ~ \E c \in Client : ClientEnqueue(c)
  <2>1. /\ jobs[i].state \in PENDING /\ jobs[j].state \in PENDING
        /\ jobs[i].cmd = jobs[j].cmd
    BY <1>1, <1>4, PendingStep
  <2>2. QED
    BY <1>2, <2>1 DEF UniquePending, InState, PENDING
<1>5. QED
  BY <1>3, <1>4

\* As long as every submission uses --unique, no command is pending twice, whatever other
\* invocations, workers, crashes and recoveries do in between.
THEOREM UniqueIsKept == Spec => []UniquePending
<1>1. Init => UniquePending
  BY DEF Init, UniquePending, InState, AbsentRow
<1>2. IInv /\ UniquePending /\ [Next]_vars => UniquePending'
  BY UniqueStep
<1>3. QED
  BY <1>1, <1>2, Invariance, PTL DEF Spec

----------------------------------------------------------------------------
(***************************************************************************)
(* Dispatch and the number of slots.                                       *)
(***************************************************************************)

\* The slice of the n oldest ids has at most n elements.
LEMMA FirstIdsBound ==
  ASSUME NEW S \in SUBSET Job, NEW n \in Nat
  PROVE  IsFiniteSet(FirstIds(S, n)) /\ Cardinality(FirstIds(S, n)) <= n
<1> DEFINE lower(j) == {i \in S : i < j}
           F == FirstIds(S, n)
           rank == [j \in F |-> Cardinality(lower(j)) + 1]
<1>1. IsFiniteSet(S)
  BY JobAssumption, FS_Subset
<1>2. ASSUME NEW j \in S
      PROVE  IsFiniteSet(lower(j)) /\ Cardinality(lower(j)) \in Nat
  BY <1>1, FS_Subset, FS_CardinalityType
<1>3. F \subseteq S /\ \A j \in F : Cardinality(lower(j)) < n
  BY DEF FirstIds
<1>4. rank \in [F -> 1 .. n]
  BY <1>2, <1>3
<1>5. ASSUME NEW i \in F, NEW j \in F, i < j
      PROVE  rank[i] < rank[j]
  <2>1. /\ IsFiniteSet(lower(i) \cup {i})
        /\ Cardinality(lower(i) \cup {i}) = Cardinality(lower(i)) + 1
    <3>1. i \notin lower(i)
      <4>1. i \in Nat
        BY <1>3, JobAssumption
      <4>2. ~(i < i)
        BY <4>1
      <4>3. QED
        BY <4>2
    <3>2. QED
      BY <1>2, <1>3, <3>1, FS_AddElement
  <2>2. lower(i) \cup {i} \subseteq lower(j)
    <3>1. i \in S /\ i \in Nat /\ j \in Nat
      BY <1>3, JobAssumption
    <3>2. i \in lower(j)
      BY <1>5, <3>1
    <3>3. ASSUME NEW k \in lower(i)
          PROVE  k \in lower(j)
      <4>1. k \in S /\ k \in Nat /\ k < i
        BY JobAssumption
      <4>2. k < j
        BY <1>5, <3>1, <4>1
      <4>3. QED
        BY <4>1, <4>2
    <3>4. QED
      BY <3>2, <3>3
  <2>3. Cardinality(lower(i) \cup {i}) <= Cardinality(lower(j))
    BY <1>2, <1>3, <2>2, FS_Subset
  <2>4. QED
    BY <1>2, <1>3, <2>1, <2>3
<1>6. rank \in Injection(F, 1 .. n)
  <2>1. \A i, j \in F : rank[i] = rank[j] => i = j
    <3> SUFFICES ASSUME NEW i \in F, NEW j \in F, rank[i] = rank[j], i # j
                 PROVE  FALSE
      OBVIOUS
    <3>1. i \in Nat /\ j \in Nat
      BY <1>3, JobAssumption
    <3>2. rank[i] \in Nat /\ rank[j] \in Nat
      BY <1>4
    <3>3. CASE i < j
      <4>1. rank[i] < rank[j]
        BY <1>5, <3>3
      <4>2. QED
        BY <3>2, <4>1
    <3>4. CASE j < i
      <4>1. rank[j] < rank[i]
        BY <1>5, <3>4
      <4>2. QED
        BY <3>2, <4>1
    <3>5. QED
      BY <3>1, <3>3, <3>4
  <2>2. QED
    BY <1>4, <2>1 DEF Injection, IsInjective
<1>7. IsFiniteSet(1 .. n) /\ Cardinality(1 .. n) = n
  BY FS_Interval
<1>8. QED
  BY <1>6, <1>7, FS_Injection

\* Sets of jobs are finite.
LEMMA JobSets ==
  ASSUME NEW S \in SUBSET Job
  PROVE  IsFiniteSet(S) /\ Cardinality(S) \in Nat
BY JobAssumption, FS_Subset, FS_CardinalityType

\* Under launch.lock of a worker nobody changes the settings a dispatcher obeys.
LEMMA SettingsKept ==
  ASSUME IInv, [Next]_vars, NEW w \in Worker, launchLock = w
  PROVE  stop' = stop /\ limit' = limit
<1> USE DEF IInv, TypeOK, Exclusion, settings
<1>1. CASE UNCHANGED vars
  BY <1>1 DEF vars
<1>2. ASSUME NEW v \in Worker, WorkerStep(v) \/ WorkerDie(v)
      PROVE  stop' = stop /\ limit' = limit
  BY <1>2 DEF WorkerStep, WorkerStart, WorkerMark, WorkerSnapshot, WorkerReconcile, WorkerLock,
     WorkerLaunch, WorkerLaunched, WorkerRoundEnd, WorkerRelease, WorkerUnlock, WorkerExit,
     WorkerDie
<1>3. ASSUME NEW t \in Token,
             \/ WrapperStep(t) \/ PaneAppears(t) \/ HeldEnter(t) \/ WrapperSignal(t)
             \/ UserKillsPane(t) \/ WrapperVanishes(t)
      PROVE  UNCHANGED settings
  BY <1>3 DEF WrapperStep, PaneAppears, WrapperClaim, WrapperSpawn, WrapperAssign, ChildExit,
     WrapperCommit, HeldContinue, HeldEnter, HeldRelease, HeldLost, WrapperSignal,
     WrapperKilled, UserKillsPane, WrapperVanishes
<1>4. ASSUME NEW c \in Client,
             ClientStep(c) \/ ClientCrash(c) \/ \E r \in Requests : ClientBegin(c, r)
      PROVE  stop' = stop /\ limit' = limit
  <2>1. ~ ClientSettings(c) /\ ~ ClientWake(c)
    BY DistinctAssumption DEF ClientSettings, ClientWake
  <2>2. QED
    BY <1>4, <2>1 DEF ClientStep, ClientCheckOwner, ClientEnqueue, ClientProbe,
       ClientTryLock, ClientUnprobe, ClientStart, ClientCreate, ClientCreateFails, ClientOwn,
       ClientKillRows, ClientAcknowledged, ClientTimeout, ClientKillSnapshot,
       ClientFence, ClientKillPane, ClientKillWorker, ClientCrash, ClientBegin
<1>5. CASE Reboot
  BY <1>5 DEF Reboot
<1>6. QED
  BY <1>1, <1>2, <1>3, <1>4, <1>5 DEF Next, Environment

\* The jobs a dispatcher fixes under launch.lock fit into the free slots.
LEMMA LockPlans ==
  ASSUME IInv, NEW w \in Worker, WorkerLock(w)
  PROVE  SlotsOK(w)'
<1> USE DEF IInv, TypeOK
<1> DEFINE A == InState(ACTIVE)
           F == FirstIds(InState({"queued"}), FreeSlots)
<1> SUFFICES ASSUME batch'[w] # {}
             PROVE  ~stop' /\ Cardinality(Planned(w))' <= limit'
  BY DEF SlotsOK
<1>1. /\ wk'[w] = "dispatch" /\ UNCHANGED <<jobs, stop, limit>> /\ ~stop /\ batch'[w] = F
  BY DEF WorkerLock, settings, WorkerGoto
<1>2. A \in SUBSET Job /\ InState({"queued"}) \in SUBSET Job /\ InState(ACTIVE)' = A
  BY <1>1 DEF InState
<1>3. IsFiniteSet(A) /\ Cardinality(A) \in Nat /\ limit \in Nat
  BY <1>2, JobSets, MaxJobsAssumption
<1>4. FreeSlots \in Nat /\ (FreeSlots = 0 \/ FreeSlots = limit - Cardinality(A))
  BY <1>3 DEF FreeSlots
<1> HIDE DEF A
<1>5. IsFiniteSet(F) /\ Cardinality(F) <= FreeSlots /\ Cardinality(F) \in Nat
  BY <1>2, <1>4, FirstIdsBound, FS_CardinalityType
<1>6. Cardinality(F) # 0
  BY <1>1, <1>5, FS_EmptySet
<1>7. Cardinality(A \cup F) <= Cardinality(A) + Cardinality(F)
  <2>1. Cardinality(A \cap F) \in Nat
    BY <1>3, FS_Subset, FS_CardinalityType
  <2>2. Cardinality(A \cup F) = Cardinality(A) + Cardinality(F) - Cardinality(A \cap F)
    BY <1>3, <1>5, FS_Union
  <2>3. QED
    BY <1>3, <1>5, <2>1, <2>2
<1>8. Planned(w)' = A \cup F
  BY <1>1, <1>2 DEF Planned
<1>9. Cardinality(A \cup F) \in Nat
  BY <1>3, <1>5, FS_Union, FS_CardinalityType
<1>10. QED
  BY <1>1, <1>3, <1>4, <1>5, <1>6, <1>7, <1>8, <1>9

\* A plan only shrinks until the round ends: a launch turns a planned job into an active one.
LEMMA PlanShrinks ==
  ASSUME IInv, [Next]_vars, NEW w \in Worker, wk[w] \in {"dispatch", "request"},
         wk'[w] \in {"dispatch", "request"}, batch'[w] # {}
  PROVE  batch[w] # {} /\ Planned(w)' \subseteq Planned(w)
<1> USE DEF IInv, TypeOK
<1>1. launchLock = w
  BY DEF Exclusion
<1>2. ASSUME NEW j \in Job, NEW t \in Token, WorkerLaunch(w, j, t)
      PROVE  batch[w] # {} /\ Planned(w)' \subseteq Planned(w)
  <2>1. /\ wk[w] = "dispatch" /\ wk'[w] = "request" /\ j \in batch[w] /\ batch'[w] = batch[w]
        /\ cur'[w] = t /\ owner'[t] = j /\ \A i \in Job : i # j => jobs'[i] = jobs[i]
    BY <1>2 DEF WorkerLaunch, WorkerGoto
  <2>2. InState(ACTIVE)' \subseteq InState(ACTIVE) \cup {j}
    BY <2>1 DEF InState
  <2>3. QED
    BY <2>1, <2>2 DEF Planned
<1>3. CASE WorkerLaunched(w)
  <2>1. /\ wk[w] = "request" /\ wk'[w] = "dispatch" /\ UNCHANGED jobs
        /\ batch'[w] = batch[w] \ {owner[cur[w]]}
    BY <1>3 DEF WorkerLaunched, WorkerGoto
  <2>2. QED
    BY <2>1 DEF Planned, InState
<1>4. CASE /\ ~WorkerStep(w) /\ ~WorkerDie(w) /\ ~Reboot
  <2>1. batch'[w] = batch[w] /\ cur'[w] = cur[w] /\ wk'[w] = wk[w]
    BY <1>4, OthersLeaveWorker
  <2>2. ~ \E v \in Worker, j \in Job, t \in Token : WorkerLaunch(v, j, t)
    <3> SUFFICES ASSUME NEW v \in Worker, NEW j \in Job, NEW t \in Token, WorkerLaunch(v, j, t)
                 PROVE  FALSE
      OBVIOUS
    <3>1. launchLock = v
      BY DEF WorkerLaunch, Exclusion
    <3>2. WorkerStep(w)
      BY <1>1, <3>1 DEF WorkerStep
    <3>3. QED
      BY <1>4, <3>2
  <2>3. InState(ACTIVE)' \subseteq InState(ACTIVE)
    BY <2>2, ActiveByLaunch DEF InState
  <2>4. UNCHANGED owner
    BY <2>2, OwnerKept
  <2>5. QED
    BY <2>1, <2>3, <2>4 DEF Planned
<1>5. CASE Reboot \/ WorkerDie(w)
  BY <1>5 DEF Reboot, WorkerDie
<1>6. CASE \/ WorkerStart(w) \/ WorkerMark(w) \/ WorkerSnapshot(w) \/ WorkerReconcile(w)
           \/ WorkerLock(w) \/ WorkerRoundEnd(w) \/ WorkerRelease(w) \/ WorkerUnlock(w)
           \/ WorkerExit(w)
  BY <1>6 DEF WorkerStart, WorkerMark, WorkerSnapshot, WorkerReconcile, WorkerLock,
     WorkerRoundEnd, WorkerRelease, WorkerUnlock, WorkerExit, WorkerGoto
<1>7. QED
  BY <1>2, <1>3, <1>4, <1>5, <1>6 DEF WorkerStep

\* Every step keeps a dispatcher's plan within the slots.
LEMMA SlotsStep ==
  ASSUME IInv, [Next]_vars, NEW w \in Worker, SlotsOK(w)
  PROVE  SlotsOK(w)'
<1> SUFFICES ASSUME wk'[w] \in {"dispatch", "request"}, batch'[w] # {}
             PROVE  ~stop' /\ Cardinality(Planned(w))' <= limit'
  BY DEF SlotsOK
<1>1. CASE wk[w] \in {"dispatch", "request"}
  <2>1. batch[w] # {} /\ Planned(w)' \subseteq Planned(w)
    BY <1>1, PlanShrinks
  <2>2. ~stop /\ Cardinality(Planned(w)) <= limit
    BY <1>1, <2>1 DEF SlotsOK
  <2>3. stop' = stop /\ limit' = limit
    BY <1>1, SettingsKept DEF IInv, Exclusion
  <2>4. Planned(w) \in SUBSET Job
    BY DEF IInv, TypeOK, Planned, InState
  <2>5. /\ Cardinality(Planned(w))' <= Cardinality(Planned(w))
        /\ Cardinality(Planned(w))' \in Nat /\ Cardinality(Planned(w)) \in Nat
    BY <2>1, <2>4, JobSets, FS_Subset
  <2>6. limit \in Nat
    BY MaxJobsAssumption DEF IInv, TypeOK
  <2>7. QED
    BY <2>2, <2>3, <2>5, <2>6
<1>2. CASE wk[w] \notin {"dispatch", "request"}
  <2>1. WorkerLock(w)
    <3>1. WorkerStep(w) \/ WorkerDie(w) \/ Reboot
      BY <1>2, OthersLeaveWorker
    <3>2. QED
      BY <1>2, <3>1 DEF WorkerStep, WorkerStart, WorkerMark, WorkerSnapshot, WorkerReconcile,
         WorkerLaunch, WorkerLaunched, WorkerRoundEnd, WorkerRelease, WorkerUnlock, WorkerExit,
         WorkerDie, Reboot, WorkerGoto, IInv, TypeOK
  <2>2. QED
    BY <2>1, LockPlans DEF SlotsOK
<1>3. QED
  BY <1>1, <1>2

\* A launch finds a free slot and dispatch allowed.
LEMMA LaunchObeys ==
  ASSUME IInv, [Next]_vars, \A w \in Worker : SlotsOK(w),
         NEW i \in Job, jobs[i].state = "queued", jobs'[i].state = "starting"
  PROVE  ~stop /\ Cardinality(InState(ACTIVE))' <= limit
<1>1. PICK w \in Worker, t \in Token : WorkerLaunch(w, i, t)
  BY ActiveByLaunch
<1>2. /\ wk[w] = "dispatch" /\ wk'[w] = "request" /\ batch[w] # {} /\ batch'[w] = batch[w]
  BY <1>1 DEF WorkerLaunch, WorkerGoto, IInv, TypeOK
<1>3. SlotsOK(w)'
  BY SlotsStep
<1>4. ~stop' /\ Cardinality(Planned(w))' <= limit' /\ UNCHANGED <<stop, limit>>
  BY <1>1, <1>2, <1>3 DEF SlotsOK, WorkerLaunch, settings
<1>5. InState(ACTIVE)' \subseteq Planned(w)' /\ Planned(w)' \in SUBSET Job
  <2>1. TypeOK'
    BY IInvStep DEF IInv
  <2>2. QED
    BY <2>1 DEF Planned, InState, TypeOK
<1>6. /\ Cardinality(InState(ACTIVE))' <= Cardinality(Planned(w))'
      /\ Cardinality(Planned(w))' \in Nat /\ Cardinality(InState(ACTIVE))' \in Nat
  BY <1>5, JobSets, FS_Subset
<1>7. limit \in Nat
  BY MaxJobsAssumption DEF IInv, TypeOK
<1>8. QED
  BY <1>4, <1>6, <1>7

\* What a dispatcher plans fits into the slots, for any finite number of jobs.
SlotsInv == \A w \in Worker : SlotsOK(w)

LEMMA SlotsInvariance == Spec => [](IInv /\ SlotsInv)
<1>1. Init => SlotsInv
  BY DEF Init, SlotsInv, SlotsOK
<1>2. IInv /\ SlotsInv /\ [Next]_vars => SlotsInv'
  BY SlotsStep DEF SlotsInv
<1>3. QED
  BY <1>1, <1>2, Invariance, PTL DEF Spec

\* A job leaves the queue only while dispatch is allowed, and never beyond the slots that are
\* set at that moment, although the slots were counted once for a whole batch.
THEOREM DispatchIsObedient == Spec => DispatchObeysControls
<1>1. IInv /\ SlotsInv /\ [Next]_vars =>
        [(\E j \in Job : jobs[j].state = "queued" /\ jobs'[j].state = "starting")
           => ~stop /\ Cardinality(InState(ACTIVE))' <= limit]_vars
  BY LaunchObeys DEF SlotsInv
<1>2. QED
  BY <1>1, SlotsInvariance, PTL DEF Spec, DispatchObeysControls

----------------------------------------------------------------------------
(***************************************************************************)
(* The processes: what an interruption means, what an undisturbed executor *)
(* guarantees, and that work does not wait without a coordinator.          *)
(***************************************************************************)
USE DEF SERVING, DISPATCHING, LEADING

----------------------------------------------------------------------------
(***************************************************************************)
(* coordinator.lock and the panes, whatever fails.                         *)
(***************************************************************************)

\* Steps of attempts do not touch locks, workers and clients.
LEMMA AttemptsLeaveRest ==
  ASSUME NEW t \in Token,
         \/ WrapperStep(t) \/ PaneAppears(t) \/ HeldEnter(t) \/ WrapperSignal(t)
         \/ UserKillsPane(t) \/ WrapperVanishes(t)
  PROVE  UNCHANGED <<settings, locks, workers, clients>>
BY DEF WrapperStep, PaneAppears, WrapperClaim, WrapperSpawn, WrapperAssign, ChildExit,
   WrapperCommit, HeldContinue, HeldEnter, HeldRelease, HeldLost, WrapperSignal,
   WrapperKilled, UserKillsPane, WrapperVanishes

\* coordinator.lock stays with the worker that leads or the client that tries it.
LEMMA LeaderStep ==
  ASSUME IInv, LeaderOK, [Next]_vars
  PROVE  LeaderOK'
<1> USE DistinctAssumption, NoneAssumption
    DEF IInv, TypeOK, LeaderOK, WorkerGoto, ClientGoto, Leave, Unlock, locks, workers, clients
<1>1. CASE UNCHANGED vars
  BY <1>1 DEF vars
<1>2. ASSUME NEW w \in Worker, WorkerStep(w) \/ WorkerDie(w)
      PROVE  LeaderOK'
  <2>1. CASE WorkerStart(w) \/ WorkerMark(w)
    BY <2>1 DEF WorkerStart, WorkerMark
  <2>2. CASE WorkerSnapshot(w) \/ WorkerReconcile(w) \/ WorkerExit(w)
    BY <2>2 DEF WorkerSnapshot, WorkerReconcile, WorkerExit
  <2>3. CASE WorkerLock(w) \/ WorkerRoundEnd(w)
    BY <2>3 DEF WorkerLock, WorkerRoundEnd
  <2>4. CASE WorkerLaunched(w) \/ \E j \in Job, t \in Token : WorkerLaunch(w, j, t)
    BY <2>4 DEF WorkerLaunched, WorkerLaunch
  <2>5. CASE WorkerRelease(w) \/ WorkerUnlock(w)
    BY <2>5 DEF WorkerRelease, WorkerUnlock
  <2>6. CASE WorkerDie(w)
    BY <2>6 DEF WorkerDie
  <2>7. QED
    BY <1>2, <2>1, <2>2, <2>3, <2>4, <2>5, <2>6 DEF WorkerStep
<1>3. ASSUME NEW t \in Token,
             \/ WrapperStep(t) \/ PaneAppears(t) \/ HeldEnter(t) \/ WrapperSignal(t)
             \/ UserKillsPane(t) \/ WrapperVanishes(t)
      PROVE  LeaderOK'
  BY <1>3, AttemptsLeaveRest
<1>4. ASSUME NEW c \in Client,
             ClientStep(c) \/ ClientCrash(c) \/ \E r \in Requests : ClientBegin(c, r)
      PROVE  LeaderOK'
  <2>1. CASE \E r \in Requests : ClientBegin(c, r)
    BY <2>1 DEF ClientBegin
  <2>2. CASE ClientEnqueue(c) \/ ClientWake(c) \/ ClientProbe(c)
    BY <2>2 DEF ClientEnqueue, ClientWake, ClientProbe
  <2>3. CASE ClientTryLock(c) \/ ClientUnprobe(c)
    BY <2>3 DEF ClientTryLock, ClientUnprobe
  <2>4. CASE \E w \in Worker : ClientCreate(c, w)
    BY <2>4 DEF ClientCreate
  <2>5. CASE ClientOwn(c) \/ ClientAcknowledged(c) \/ ClientTimeout(c)
    BY <2>5 DEF ClientOwn, ClientAcknowledged, ClientTimeout
  <2>6. CASE ClientKillSnapshot(c) \/ ClientFence(c) \/ ClientKillRows(c) \/ ClientKillWorker(c)
    BY <2>6 DEF ClientKillSnapshot, ClientFence, ClientKillRows, ClientKillWorker
  <2>7. CASE \E t \in Token : ClientKillPane(c, t)
    <3>1. UNCHANGED <<coordLock, wk, cl>>
      BY <2>7 DEF ClientKillPane
    <3>2. QED
      BY <3>1
  <2>8. CASE ClientCrash(c)
    BY <2>8 DEF ClientCrash
  <2>9. CASE ClientCheckOwner(c) \/ ClientStart(c) \/ ClientCreateFails(c)
    BY <2>9 DEF ClientCheckOwner, ClientStart, ClientCreateFails
  <2>10. CASE ClientSettings(c)
    <3>1. FirstStep(req[c]) # "unprobe"
      <4>1. req[c] \in Request
        BY <2>10, RequestsAssumption DEF ClientSettings, Started
      <4>2. QED
        BY <4>1 DEF FirstStep, Request
    <3>2. QED
      BY <2>10, <3>1 DEF ClientSettings
  <2>11. QED
    BY <1>4, <2>1, <2>2, <2>3, <2>4, <2>5, <2>6, <2>7, <2>8, <2>9, <2>10 DEF ClientStep
<1>5. CASE Reboot
  BY <1>5 DEF Reboot
<1>6. QED
  BY <1>1, <1>2, <1>3, <1>4, <1>5 DEF Next, Environment

\* Panes stay with processes that run.
LEMMA PanesStep ==
  ASSUME IInv, PanesOK, [Next]_vars
  PROVE  PanesOK'
<1> USE DistinctAssumption
    DEF IInv, TypeOK, PanesOK, WorkerAlive, WrapperAlive, WorkerGoto, WrapperGoto, WrapperEnds,
        ClosePanes, session, attempts, workers
<1>1. CASE UNCHANGED vars
  BY <1>1 DEF vars
<1>2. ASSUME NEW w \in Worker, WorkerStep(w) \/ WorkerDie(w)
      PROVE  PanesOK'
  <2>1. CASE WorkerStart(w) \/ WorkerExit(w)
    BY <2>1 DEF WorkerStart, WorkerExit
  <2>2. CASE WorkerSnapshot(w)
    BY <2>2 DEF WorkerSnapshot, LiveTokens
  <2>3. CASE WorkerMark(w) \/ WorkerReconcile(w)
    BY <2>3 DEF WorkerMark, WorkerReconcile
  <2>4. CASE WorkerLock(w) \/ WorkerRoundEnd(w) \/ WorkerLaunched(w)
    BY <2>4 DEF WorkerLock, WorkerRoundEnd, WorkerLaunched
  <2>5. CASE \E j \in Job, t \in Token : WorkerLaunch(w, j, t)
    BY <2>5 DEF WorkerLaunch
  <2>6. CASE WorkerRelease(w) \/ WorkerUnlock(w)
    BY <2>6 DEF WorkerRelease, WorkerUnlock
  <2>7. CASE WorkerDie(w)
    BY <2>7 DEF WorkerDie
  <2>8. QED
    BY <1>2, <2>1, <2>2, <2>3, <2>4, <2>5, <2>6, <2>7 DEF WorkerStep
<1>3. ASSUME NEW t \in Token,
             \/ WrapperStep(t) \/ PaneAppears(t) \/ HeldEnter(t) \/ WrapperSignal(t)
             \/ UserKillsPane(t) \/ WrapperVanishes(t)
      PROVE  PanesOK'
  <2>1. UNCHANGED workers
    BY <1>3, AttemptsLeaveRest
  <2>2. CASE PaneAppears(t)
    BY <2>1, <2>2 DEF PaneAppears
  <2>3. CASE WrapperClaim(t) \/ WrapperSpawn(t) \/ WrapperAssign(t) \/ ChildExit(t)
    BY <2>1, <2>3 DEF WrapperClaim, WrapperSpawn, WrapperAssign, ChildExit
  <2>4. CASE WrapperCommit(t) \/ HeldRelease(t) \/ HeldLost(t)
    BY <2>1, <2>4 DEF WrapperCommit, HeldRelease, HeldLost
  <2>5. CASE WrapperSignal(t) \/ WrapperKilled(t) \/ WrapperVanishes(t)
    BY <2>1, <2>5 DEF WrapperSignal, WrapperKilled, WrapperVanishes
  <2>6. CASE UserKillsPane(t)
    BY <2>1, <2>6 DEF UserKillsPane
  <2>7. QED
    BY <1>3, <2>2, <2>3, <2>4, <2>5, <2>6 DEF WrapperStep, HeldContinue, HeldEnter
<1>4. ASSUME NEW c \in Client,
             ClientStep(c) \/ ClientCrash(c) \/ \E r \in Requests : ClientBegin(c, r)
      PROVE  PanesOK'
  <2>1. CASE \E w \in Worker : ClientCreate(c, w)
    BY <2>1 DEF ClientCreate
  <2>2. CASE ClientKillWorker(c) \/ \E t \in Token : ClientKillPane(c, t)
    BY <2>2 DEF ClientKillWorker, ClientKillPane
  <2>3. CASE UNCHANGED <<panes, wk, snap, wrap>>
    BY <2>3
  <2>4. QED
    BY <1>4, <2>1, <2>2, <2>3
       DEF ClientStep, ClientCheckOwner, ClientSettings, ClientEnqueue, ClientWake, ClientProbe,
           ClientTryLock, ClientUnprobe, ClientStart, ClientCreateFails, ClientOwn,
           ClientAcknowledged, ClientTimeout, ClientKillSnapshot, ClientKillRows, ClientFence,
           ClientCrash, ClientBegin
<1>5. CASE Reboot
  BY <1>5 DEF Reboot
<1>6. QED
  BY <1>1, <1>2, <1>3, <1>4, <1>5 DEF Next, Environment

\* A row that is active after a step was so before, with the same attempt, or was launched.
LEMMA ActiveStays ==
  ASSUME IInv, [Next]_vars, NEW j \in Job, jobs'[j].state \in ACTIVE,
         ~ \E w \in Worker, t \in Token : WorkerLaunch(w, j, t)
  PROVE  jobs[j].state \in ACTIVE /\ jobs'[j].token = jobs[j].token
<1>1. jobs[j].state \in ACTIVE
  BY ActiveByLaunch
<1> USE DEF IInv, TypeOK, Row
<1>2. CASE UNCHANGED <<jobs, owner, child>>
  BY <1>1, <1>2
<1>3. ASSUME NEW w \in Worker, WorkerReconcile(w)
      PROVE  jobs'[j].token = jobs[j].token
  BY <1>3 DEF WorkerReconcile, Reconciled, Released, Requeued, Finished
<1>4. ASSUME NEW w \in Worker, NEW i \in Job, NEW t \in Token, WorkerLaunch(w, i, t), i # j
      PROVE  jobs'[j].token = jobs[j].token
  BY <1>4 DEF WorkerLaunch
<1>5. ASSUME NEW t \in Token,
             WrapperClaim(t) \/ WrapperSpawn(t) \/ ChildExit(t) \/ WrapperKilled(t)
      PROVE  jobs'[j].token = jobs[j].token
  <2>1. jobs'[j] = jobs[j] \/ jobs'[j] = Claimed(jobs[j])
    BY <1>5 DEF WrapperClaim, WrapperSpawn, ChildExit, WrapperKilled
  <2>2. QED
    BY <2>1 DEF Claimed
<1>10. ASSUME NEW t \in Token, WrapperCommit(t) \/ HeldRelease(t)
       PROVE  jobs'[j].token = jobs[j].token
  <2>1. jobs'[j] = jobs[j] \/ jobs'[j] = Recorded(jobs[j], child[t]) \/ jobs'[j] = Released(jobs[j])
    BY <1>10 DEF WrapperCommit, HeldRelease, Owned, JobOf
  <2>2. Recorded(jobs[j], child[t]).token = jobs[j].token /\ Released(jobs[j]).token = jobs[j].token
    BY DEF Recorded, Released
  <2>3. QED
    BY <2>1, <2>2
<1>6. ASSUME NEW c \in Client, ClientEnqueue(c)
      PROVE  jobs'[j] = jobs[j]
  BY <1>1, <1>6 DEF ClientEnqueue, FirstIds, InState
<1>7. ASSUME NEW c \in Client, ClientFence(c)
      PROVE  jobs'[j].token = jobs[j].token
  BY <1>7 DEF ClientFence, Fenced, Requeued, Released
<1>8. CASE Reboot
  BY <1>8 DEF Reboot
<1>9. QED
  BY <1>1, <1>2, <1>3, <1>4, <1>5, <1>6, <1>7, <1>8, <1>10, TableSteps DEF TableStep

\* tmux is asked for a pane by a launch, and an attempt's pane appears only while asked for.
LEMMA PanesAppear ==
  ASSUME IInv, [Next]_vars, NEW t \in Token
  PROVE  /\ wrap'[t] = "requested" =>
              wrap[t] = "requested" \/ \E w \in Worker, j \in Job : WorkerLaunch(w, j, t)
         /\ t \in panes' => t \in panes \/ wrap[t] = "requested"
<1> USE DistinctAssumption
    DEF IInv, TypeOK, WorkerGoto, WrapperGoto, WrapperEnds, ClosePanes, session, attempts
<1> DEFINE P == /\ wrap'[t] = "requested" =>
                    wrap[t] = "requested" \/ \E w \in Worker, j \in Job : WorkerLaunch(w, j, t)
                /\ t \in panes' => t \in panes \/ wrap[t] = "requested"
<1>1. CASE UNCHANGED vars
  BY <1>1 DEF vars
<1>2. ASSUME NEW w \in Worker, WorkerStep(w) \/ WorkerDie(w)
      PROVE  P
  <2>1. ASSUME NEW j \in Job, NEW u \in Token, WorkerLaunch(w, j, u)
        PROVE  P
    BY <2>1 DEF WorkerLaunch
  <2>2. CASE wrap' = wrap /\ panes' \subseteq panes
    BY <2>2
  <2>3. QED
    BY <1>2, <2>1, <2>2
       DEF WorkerStep, WorkerStart, WorkerMark, WorkerSnapshot, WorkerReconcile, WorkerLock,
           WorkerLaunched, WorkerRoundEnd, WorkerRelease, WorkerUnlock, WorkerExit, WorkerDie
<1>3. ASSUME NEW u \in Token,
             \/ WrapperStep(u) \/ PaneAppears(u) \/ HeldEnter(u) \/ WrapperSignal(u)
             \/ UserKillsPane(u) \/ WrapperVanishes(u)
      PROVE  P
  <2>1. CASE PaneAppears(u)
    BY <2>1 DEF PaneAppears
  <2>2. CASE WrapperClaim(u) \/ WrapperSpawn(u) \/ WrapperAssign(u) \/ ChildExit(u)
    BY <2>2 DEF WrapperClaim, WrapperSpawn, WrapperAssign, ChildExit
  <2>3. CASE WrapperCommit(u) \/ HeldRelease(u) \/ HeldLost(u)
    BY <2>3 DEF WrapperCommit, HeldRelease, HeldLost
  <2>4. CASE WrapperSignal(u) \/ WrapperKilled(u) \/ WrapperVanishes(u) \/ UserKillsPane(u)
    BY <2>4 DEF WrapperSignal, WrapperKilled, WrapperVanishes, UserKillsPane
  <2>5. QED
    BY <1>3, <2>1, <2>2, <2>3, <2>4 DEF WrapperStep, HeldContinue, HeldEnter
<1>4. ASSUME NEW c \in Client,
             ClientStep(c) \/ ClientCrash(c) \/ \E r \in Requests : ClientBegin(c, r)
      PROVE  P
  <2>1. CASE \E w \in Worker : ClientCreate(c, w)
    BY <2>1 DEF ClientCreate
  <2>2. CASE wrap' = wrap /\ panes' \subseteq panes
    BY <2>2
  <2>3. QED
    BY <1>4, <2>1, <2>2
       DEF ClientStep, ClientCheckOwner, ClientSettings, ClientEnqueue, ClientWake, ClientProbe,
           ClientTryLock, ClientUnprobe, ClientStart, ClientCreateFails, ClientOwn,
           ClientAcknowledged, ClientTimeout, ClientKillSnapshot, ClientKillRows, ClientFence,
           ClientKillPane, ClientKillWorker, ClientCrash, ClientBegin
<1>5. CASE Reboot
  BY <1>5 DEF Reboot
<1>6. QED
  BY <1>1, <1>2, <1>3, <1>4, <1>5 DEF Next, Environment

\* A coordinator past its recovery keeps track of the attempts that may still appear.
LEMMA LostStep ==
  ASSUME IInv, PanesInv, [Next]_vars, NEW w \in Worker
  PROVE  LostOK(w)'
<1> USE DEF IInv, TypeOK, PanesInv
<1> DEFINE KNOWING == {"snap", "reconcile", "lock", "dispatch", "request"}
<1>1. SUFFICES ASSUME wk'[w] \in KNOWING, NEW j \in Job, jobs'[j].state \in ACTIVE
               PROVE  /\ wrap'[jobs'[j].token] = "requested"
                           => wk'[w] = "request" /\ cur'[w] = jobs'[j].token
                      /\ wk'[w] = "reconcile" =>
                           jobs'[j].token \in snap'[w] \/ jobs'[j].token \notin panes'
  BY DEF LostOK, InState
<1>2. jobs'[j].token \in Token /\ TypeOK'
  <2>1. IInv'
    BY IInvStep
  <2>2. QED
    BY <1>1, <2>1 DEF RowOK, Row
<1>3. ASSUME WorkerReconcile(w)
      PROVE  wrap'[jobs'[j].token] # "requested" /\ wk'[w] # "reconcile"
  <2>1. jobs'[j] = jobs[j] /\ jobs[j].token \in snap[w] /\ wrap' = wrap /\ wk'[w] # "reconcile"
    BY <1>1, <1>3
       DEF WorkerReconcile, Reconciled, Released, Requeued, Finished, attempts, WorkerGoto, Row
  <2>2. QED
    BY <2>1 DEF PanesOK
<1>4. ASSUME NEW i \in Job, NEW t \in Token, WorkerLaunch(w, i, t)
      PROVE  /\ wrap'[jobs'[j].token] = "requested" => cur'[w] = jobs'[j].token
             /\ wk'[w] = "request"
  <2>1. /\ wk[w] = "dispatch" /\ wk'[w] = "request" /\ cur'[w] = t
        /\ wrap' = [wrap EXCEPT ![t] = "requested"]
        /\ jobs'[i].token = t /\ \A k \in Job : k # i => jobs'[k] = jobs[k]
    BY <1>4 DEF WorkerLaunch, WorkerGoto, Launched, Row
  <2>2. CASE j = i
    BY <2>1, <2>2
  <2>3. CASE j # i
    <3>1. jobs[j].state \in ACTIVE /\ jobs'[j] = jobs[j]
      BY <1>1, <2>1, <2>3
    <3>2. wrap[jobs[j].token] # "requested"
      BY <2>1, <3>1 DEF LostOK, InState
    <3>3. QED
      BY <1>2, <2>1, <3>1, <3>2
  <2>4. QED
    BY <2>1, <2>2, <2>3
<1>5. ASSUME WorkerLaunched(w)
      PROVE  wrap'[jobs'[j].token] # "requested" /\ wk'[w] = "dispatch"
  <2>1. /\ wk[w] = "request" /\ wk'[w] = "dispatch" /\ wrap[cur[w]] # "requested"
        /\ UNCHANGED <<jobs, wrap>>
    BY <1>5 DEF WorkerLaunched, WorkerGoto, attempts
  <2>2. QED
    BY <1>1, <2>1 DEF LostOK, InState
<1>6. ASSUME WorkerLock(w) \/ WorkerRoundEnd(w) \/ WorkerSnapshot(w)
      PROVE  /\ wrap'[jobs'[j].token] # "requested"
             /\ wk'[w] = "reconcile" =>
                  jobs'[j].token \in snap'[w] \/ jobs'[j].token \notin panes'
  <2>1. /\ UNCHANGED <<jobs, wrap, panes>>
        /\ wk[w] \in KNOWING \ {"request"}
        /\ wk'[w] = "reconcile" => snap'[w] = LiveTokens
    BY <1>1, <1>6 DEF WorkerLock, WorkerRoundEnd, WorkerSnapshot, WorkerGoto, attempts, session
  <2>2. QED
    BY <1>1, <1>2, <2>1 DEF LostOK, InState, LiveTokens
<1>7. ASSUME WorkerStart(w) \/ WorkerMark(w) \/ WorkerRelease(w) \/ WorkerUnlock(w)
               \/ WorkerExit(w) \/ WorkerDie(w) \/ Reboot
      PROVE  FALSE
  BY <1>1, <1>7 DEF WorkerStart, WorkerMark, WorkerRelease, WorkerUnlock, WorkerExit, WorkerDie,
     Reboot, WorkerGoto
<1>8. ASSUME ~WorkerStep(w), ~WorkerDie(w), ~Reboot
      PROVE  /\ wrap'[jobs'[j].token] = "requested"
                  => wk'[w] = "request" /\ cur'[w] = jobs'[j].token
             /\ wk'[w] = "reconcile" =>
                  jobs'[j].token \in snap'[w] \/ jobs'[j].token \notin panes'
  <2>1. wk'[w] = wk[w] /\ cur'[w] = cur[w] /\ snap'[w] = snap[w]
    BY <1>1, <1>8, OthersLeaveWorker
  <2>2. ~ \E v \in Worker, i \in Job, t \in Token : WorkerLaunch(v, i, t)
    <3> SUFFICES ASSUME NEW v \in Worker, NEW i \in Job, NEW t \in Token, WorkerLaunch(v, i, t)
                 PROVE  FALSE
      OBVIOUS
    <3>1. coordLock = v /\ coordLock = w
      BY <1>1, <2>1 DEF WorkerLaunch, LeaderOK
    <3>2. WorkerStep(w)
      BY <3>1 DEF WorkerStep
    <3>3. QED
      BY <1>8, <3>2
  <2>3. jobs[j].state \in ACTIVE /\ jobs'[j].token = jobs[j].token
    BY <1>1, <2>2, ActiveStays
  <2>4. /\ wrap'[jobs[j].token] = "requested" => wrap[jobs[j].token] = "requested"
        /\ jobs[j].token \in panes' => jobs[j].token \in panes \/ wrap[jobs[j].token] = "requested"
    BY <1>2, <2>2, <2>3, PanesAppear
  <2>5. QED
    BY <1>1, <2>1, <2>3, <2>4 DEF LostOK, InState
<1>9. QED
  BY <1>3, <1>4, <1>5, <1>6, <1>7, <1>8 DEF WorkerStep

\* What is known of locks, panes and lost attempts holds whatever fails.
LEMMA PanesInvariance == Spec => [](IInv /\ PanesInv)
<1>1. Init => PanesInv
  BY NoneAssumption DEF Init, PanesInv, LeaderOK, PanesOK, LostOK
<1>2. IInv /\ PanesInv /\ [Next]_vars => PanesInv'
  BY LeaderStep, PanesStep, LostStep DEF PanesInv
<1>3. QED
  BY <1>1, <1>2, Invariance, PTL DEF Spec

\* A job is written off as interrupted only while its attempt has no pane, although reconcile
\* works from an older snapshot and tmux may create a pane after its worker has given up.
THEOREM InterruptionIsReal == Spec => InterruptedIsGone
<1>1. ASSUME IInv, PanesInv, [Next]_vars, NEW j \in Job,
             jobs[j].rc = "none", jobs'[j].rc = "interrupted"
      PROVE  jobs[j].token \notin panes
  <2> USE <1>1 DEF IInv, TypeOK, Row
  <2>1. ASSUME NEW w \in Worker, WorkerReconcile(w)
        PROVE  jobs[j].token \notin panes
    <3>1. /\ jobs[j].state \in ACTIVE /\ jobs[j].token \notin snap[w]
          /\ jobs'[j] \in {Released(jobs[j]), Requeued(jobs[j])} \/ wk[w] = "reconcile"
      BY <2>1 DEF WorkerReconcile, Reconciled
    <3>2. wk[w] = "reconcile"
      BY <3>1 DEF Released, Requeued
    <3>3. QED
      BY <3>1, <3>2 DEF PanesInv, LostOK, InState
  <2>2. ASSUME NEW w \in Worker, NEW i \in Job, NEW t \in Token, WorkerLaunch(w, i, t)
        PROVE  FALSE
    BY <2>2 DEF WorkerLaunch, Launched
  <2>3. ASSUME NEW t \in Token,
               \/ WrapperClaim(t) \/ HeldRelease(t)
               \/ WrapperSpawn(t) \/ ChildExit(t) \/ WrapperKilled(t)
        PROVE  FALSE
    BY <2>3 DEF WrapperClaim, HeldRelease, WrapperSpawn, ChildExit,
       WrapperKilled, Owned, JobOf, Claimed, Released
  <2>4. ASSUME NEW t \in Token, WrapperCommit(t)
        PROVE  FALSE
    <3>1. jobs'[j] = jobs[j] \/ jobs'[j] = Recorded(jobs[j], child[t])
      BY <2>4 DEF WrapperCommit
    <3>2. child[t] # "interrupted"
      BY <2>4 DEF WrapperCommit
    <3>3. QED
      BY <3>1, <3>2 DEF Recorded
  <2>5. ASSUME NEW c \in Client, ClientEnqueue(c)
        PROVE  FALSE
    <3>1. jobs'[j] = jobs[j] \/ \E x : jobs'[j] = InsertedRow(x)
      BY <2>5 DEF ClientEnqueue
    <3>2. QED
      BY <3>1 DEF InsertedRow, AbsentRow
  <2>6. ASSUME NEW c \in Client, ClientFence(c)
        PROVE  FALSE
    BY <2>6 DEF ClientFence, Fenced, Requeued, Released
  <2>7. CASE Reboot \/ UNCHANGED <<jobs, owner, child>>
    BY <2>7 DEF Reboot
  <2>8. QED
    BY <2>1, <2>2, <2>3, <2>4, <2>5, <2>6, <2>7, TableSteps DEF TableStep
<1>2. IInv /\ PanesInv /\ [Next]_vars =>
        [\A j \in Job : jobs[j].rc = "none" /\ jobs'[j].rc = "interrupted"
                          => jobs[j].token \notin panes]_vars
  BY <1>1
<1>3. QED
  BY <1>2, PanesInvariance, PTL DEF Spec, InterruptedIsGone

----------------------------------------------------------------------------
(***************************************************************************)
(* Without faults: the marker and what it promises to the clients.         *)
(***************************************************************************)

\* Faults are counted, never forgotten.
LEMMA FaultsGrow ==
  ASSUME TypeOK, [Next]_vars, faults' = 0
  PROVE  faults = 0 /\ faults' = faults
<1>1. faults' = faults \/ Fault
  <2>1. ASSUME NEW w \in Worker, WorkerStep(w) \/ WorkerDie(w)
        PROVE  faults' = faults \/ Fault
    BY <2>1 DEF WorkerStep, WorkerStart, WorkerMark, WorkerSnapshot, WorkerReconcile, WorkerLock,
       WorkerLaunch, WorkerLaunched, WorkerRoundEnd, WorkerRelease, WorkerUnlock, WorkerExit, WorkerDie
  <2>2. ASSUME NEW t \in Token,
               \/ WrapperStep(t) \/ PaneAppears(t) \/ HeldEnter(t) \/ WrapperSignal(t)
               \/ UserKillsPane(t) \/ WrapperVanishes(t)
        PROVE  faults' = faults \/ Fault
    BY <2>2 DEF WrapperStep, PaneAppears, WrapperClaim, WrapperSpawn, WrapperAssign, ChildExit,
       WrapperCommit, HeldContinue, HeldEnter, HeldRelease, HeldLost, WrapperSignal,
       WrapperKilled, UserKillsPane, WrapperVanishes
  <2>3. ASSUME NEW c \in Client,
               ClientStep(c) \/ ClientCrash(c) \/ \E r \in Requests : ClientBegin(c, r)
        PROVE  faults' = faults \/ Fault
    BY <2>3 DEF ClientStep, ClientCheckOwner, ClientSettings, ClientEnqueue, ClientWake,
       ClientProbe, ClientTryLock, ClientUnprobe, ClientStart, ClientCreate, ClientCreateFails,
       ClientOwn, ClientAcknowledged, ClientTimeout, ClientKillSnapshot, ClientKillRows,
       ClientFence, ClientKillPane, ClientKillWorker, ClientCrash, ClientBegin
  <2>4. CASE Reboot \/ UNCHANGED vars
    BY <2>4 DEF Reboot, vars
  <2>5. QED
    BY <2>1, <2>2, <2>3, <2>4 DEF Next, Environment
<1>2. faults \in Nat
  BY MaxFaultsAssumption DEF TypeOK
<1>3. QED
  BY <1>1, <1>2 DEF Fault

\* Steps of attempts do not touch the panes of workers.
LEMMA AttemptsLeavePanes ==
  ASSUME TypeOK, NEW t \in Token,
         \/ WrapperStep(t) \/ PaneAppears(t) \/ HeldEnter(t) \/ WrapperSignal(t)
         \/ UserKillsPane(t) \/ WrapperVanishes(t)
  PROVE  /\ panes' \cap Worker = panes \cap Worker
         /\ panes' # {} => panes # {}
         /\ owned /\ panes' # {} => owned'
<1> USE DistinctAssumption DEF TypeOK, WrapperEnds, ClosePanes, session, SessionExists
<1>1. CASE PaneAppears(t)
  BY <1>1 DEF PaneAppears
<1>2. CASE WrapperClaim(t) \/ WrapperSpawn(t) \/ WrapperAssign(t) \/ ChildExit(t)
  BY <1>2 DEF WrapperClaim, WrapperSpawn, WrapperAssign, ChildExit
<1>3. CASE WrapperCommit(t) \/ HeldRelease(t) \/ HeldLost(t)
  BY <1>3 DEF WrapperCommit, HeldRelease, HeldLost
<1>4. CASE WrapperSignal(t) \/ WrapperKilled(t) \/ WrapperVanishes(t) \/ UserKillsPane(t)
  BY <1>4 DEF WrapperSignal, WrapperKilled, WrapperVanishes, UserKillsPane
<1>5. QED
  BY <1>1, <1>2, <1>3, <1>4 DEF WrapperStep, HeldContinue, HeldEnter

\* Two clients never work at the same time.
LEMMA OneClient ==
  ASSUME Exclusion, NEW c \in Client, NEW d \in Client,
         cl[c] \notin {"idle", "done", "failed"}, cl[d] \notin {"idle", "done", "failed"}
  PROVE  c = d
BY DEF Exclusion

\* Nothing that a worker or a client does takes MarkerOK away.
LEMMA MarkerWorkerStep ==
  ASSUME IInv, PanesInv, MarkerOK, NEW w \in Worker, WorkerStep(w) \/ WorkerDie(w),
         faults = 0, faults' = 0
  PROVE  MarkerOK'
<1> USE DistinctAssumption, NoneAssumption
    DEF IInv, TypeOK, Exclusion, PanesInv, LeaderOK, MarkerOK, WorkerGoto, ClosePanes, session,
        locks, settings, clients, KILLING
<1>1. CASE WorkerStart(w)
  BY <1>1 DEF WorkerStart
<1>2. CASE WorkerMark(w)
  BY <1>2 DEF WorkerMark
<1>3. CASE WorkerSnapshot(w) \/ WorkerReconcile(w)
  BY <1>3 DEF WorkerSnapshot, WorkerReconcile
<1>4. CASE WorkerLock(w) \/ WorkerLaunched(w)
  BY <1>4 DEF WorkerLock, WorkerLaunched
<1>5. CASE \E j \in Job, t \in Token : WorkerLaunch(w, j, t)
  BY <1>5 DEF WorkerLaunch
<1>6. CASE WorkerRoundEnd(w)
  BY <1>6 DEF WorkerRoundEnd
<1>7. CASE WorkerRelease(w) \/ WorkerUnlock(w)
  BY <1>7 DEF WorkerRelease, WorkerUnlock
<1>8. CASE WorkerExit(w)
  BY <1>8 DEF WorkerExit
<1>9. CASE WorkerDie(w)
  <2>1. w \notin panes
    BY <1>9 DEF WorkerDie, Fault
  <2>2. QED
    BY <1>9, <2>1 DEF WorkerDie
<1>10. QED
  BY <1>1, <1>2, <1>3, <1>4, <1>5, <1>6, <1>7, <1>8, <1>9 DEF WorkerStep

LEMMA MarkerClientStep ==
  ASSUME IInv, PanesInv, MarkerOK, NEW c \in Client,
         ClientStep(c) \/ ClientCrash(c) \/ \E r \in Requests : ClientBegin(c, r),
         faults = 0, faults' = 0
  PROVE  MarkerOK'
<1> USE DistinctAssumption, NoneAssumption
    DEF IInv, TypeOK, Exclusion, PanesInv, LeaderOK, MarkerOK, ClientGoto, Leave, ClosePanes,
        session, locks, settings, workers, KILLING, SessionExists
<1>1. CASE \E r \in Requests : ClientBegin(c, r)
  BY <1>1 DEF ClientBegin
<1>2. CASE ClientCheckOwner(c) \/ ClientEnqueue(c) \/ ClientWake(c)
  BY <1>2 DEF ClientCheckOwner, ClientEnqueue, ClientWake
<1>3. CASE ClientSettings(c)
  <2>1. req[c] \in Request
    BY <1>3, RequestsAssumption DEF ClientSettings, Started
  <2>2. /\ FirstStep(req[c]) \in {"killSnap", "done", "enqueue", "wake"}
        /\ FirstStep(req[c]) = "killSnap" => req[c].stop = "kill"
    BY <2>1 DEF FirstStep, Request
  <2>3. /\ cl[c] = "settings" /\ cl' = [cl EXCEPT ![c] = FirstStep(req[c])]
        /\ stop' = (stop \/ req[c].stop # "no")
        /\ UNCHANGED <<panes, owned, marker, wk, req, seen, cw>>
    BY <1>3 DEF ClientSettings
  <2>4. \A d \in Client : cl'[d] = IF d = c THEN FirstStep(req[c]) ELSE cl[d]
    BY <2>3
  <2>5. stop' \/ FirstStep(req[c]) # "killSnap"
    BY <2>2, <2>3
  <2>6. stop => stop'
    BY <2>3
  <2>7. QED
    BY <2>2, <2>3, <2>4, <2>5, <2>6
<1>4. CASE ClientProbe(c) \/ ClientTryLock(c) \/ ClientUnprobe(c)
  BY <1>4 DEF ClientProbe, ClientTryLock, ClientUnprobe
<1>5. CASE ClientStart(c) \/ ClientCreateFails(c)
  BY <1>5 DEF ClientStart, ClientCreateFails
<1>6. CASE \E w \in Worker : ClientCreate(c, w)
  BY <1>6 DEF ClientCreate
<1>7. CASE ClientOwn(c) \/ ClientAcknowledged(c)
  BY <1>7 DEF ClientOwn, ClientAcknowledged
<1>8. CASE ClientTimeout(c)
  BY <1>8 DEF ClientTimeout, Fault, WorkerAlive
<1>9. CASE ClientKillSnapshot(c) \/ ClientKillRows(c) \/ ClientFence(c)
  BY <1>9 DEF ClientKillSnapshot, ClientKillRows, ClientFence
<1>10. CASE \E t \in Token : ClientKillPane(c, t)
  BY <1>10 DEF ClientKillPane
<1>11. CASE ClientKillWorker(c)
  BY <1>11 DEF ClientKillWorker
<1>12. CASE ClientCrash(c)
  BY <1>12 DEF ClientCrash, Fault
<1>13. QED
  BY <1>1, <1>2, <1>3, <1>4, <1>5, <1>6, <1>7, <1>8, <1>9, <1>10, <1>11, <1>12 DEF ClientStep

LEMMA MarkerStep ==
  ASSUME IInv, PanesInv, MarkerOK, [Next]_vars, faults' = 0
  PROVE  MarkerOK'
<1>1. faults = 0
  BY FaultsGrow DEF IInv
<1>2. ASSUME NEW t \in Token,
             \/ WrapperStep(t) \/ PaneAppears(t) \/ HeldEnter(t) \/ WrapperSignal(t)
             \/ UserKillsPane(t) \/ WrapperVanishes(t)
      PROVE  MarkerOK'
  <2>1. /\ UNCHANGED <<settings, workers, clients>>
        /\ panes' \cap Worker = panes \cap Worker
        /\ panes' # {} => panes # {}
        /\ owned /\ panes' # {} => owned'
    BY <1>2, AttemptsLeaveRest, AttemptsLeavePanes DEF IInv
  <2>2. \A w \in Worker : w \in panes' <=> w \in panes
    BY <2>1
  <2>3. marker \in panes => marker \in panes'
    <3>1. ASSUME marker \in panes
          PROVE  marker \in Worker
      BY <3>1, NoneAssumption DEF IInv, TypeOK
    <3>2. QED
      BY <2>2, <3>1
  <2>4. UNCHANGED <<stop, marker, wk, cl, req, seen, cw>>
    BY <2>1 DEF settings, workers, clients
  <2>5. panes' # {} => owned' \/ \E c \in Client : cl'[c] = "own"
    BY <2>1, <2>4 DEF MarkerOK
  <2>6. \A c \in Client : panes \cap Worker \subseteq seen[c] => panes' \cap Worker \subseteq seen'[c]
    BY <2>1, <2>4
  <2>11. \A w \in Worker : wk[w] \in {"boot", "mark"} =>
              w \in panes /\ \E c \in Client : cl[c] \in {"own", "wait"} /\ cw[c] = w
    BY DEF MarkerOK
  <2>7. /\ \A w \in Worker : wk'[w] \in {"boot", "mark"} =>
              w \in panes' /\ \E c \in Client : cl'[c] \in {"own", "wait"} /\ cw'[c] = w
        /\ \A w \in Worker : marker' = w <=> wk'[w] \in SERVING \cup DISPATCHING /\ w \in panes'
    BY <2>2, <2>4, <2>11 DEF MarkerOK
  <2>8. /\ \A c \in Client : cl'[c] \in {"own", "wait"} => cw'[c] \in Worker
        /\ \A c \in Client : cl'[c] = "trylock" => marker' \in panes'
        /\ \A c \in Client : cl'[c] \in KILLING => stop' /\ req'[c].stop = "kill"
    BY <2>3, <2>4 DEF MarkerOK
  <2>9. \A c \in Client : cl'[c] \in KILLING \ {"killSnap"} => panes' \cap Worker \subseteq seen'[c]
    BY <2>4, <2>6 DEF MarkerOK
  <2>10. QED
    BY <2>5, <2>7, <2>8, <2>9 DEF MarkerOK
<1>3. CASE Reboot
  BY <1>1, <1>3 DEF Reboot, Fault
<1>4. CASE UNCHANGED vars
  BY <1>4 DEF vars, settings, workers, clients, session, MarkerOK, KILLING
<1>5. QED
  BY <1>1, <1>2, <1>3, <1>4, MarkerWorkerStep, MarkerClientStep DEF Next, Environment

----------------------------------------------------------------------------
(***************************************************************************)
(* Without faults: no work waits without a coordinator.                    *)
(***************************************************************************)

\* While nothing fails, somebody serves or dispatches exactly as long as there is a marker.
WorkAttended == marker # None \/ \E c \in Client : cl[c] \in WAKING \cup {"failed"}

PendingAttended == ~stop /\ InState(PENDING) # {} => WorkAttended

LEMMA MarkerServes ==
  TypeOK /\ LeaderOK /\ MarkerOK => (WorkIsSeenTo <=> PendingAttended)
<1> SUFFICES ASSUME TypeOK, LeaderOK, MarkerOK
             PROVE  WorkAttended <=> \/ Served
                                     \/ \E w \in Worker : wk[w] \in DISPATCHING /\ w \in panes
                                     \/ \E c \in Client : cl[c] \in WAKING \cup {"failed"}
  BY DEF WorkIsSeenTo, PendingAttended, PENDING
<1>1. marker # None =>
        \/ Served
        \/ \E w \in Worker : wk[w] \in DISPATCHING /\ w \in panes
  <2>1. \A w \in Worker : marker = w => wk[w] \in SERVING \cup DISPATCHING /\ w \in panes
    BY DEF MarkerOK
  <2>2. \A w \in Worker : wk[w] \in SERVING => coordLock = w
    BY DEF LeaderOK
  <2>3. QED
    BY <2>1, <2>2 DEF TypeOK, Served
<1>2. Served \/ (\E w \in Worker : wk[w] \in DISPATCHING /\ w \in panes) => marker # None
  <2>1. \A w \in Worker : wk[w] \in SERVING \cup DISPATCHING /\ w \in panes => marker = w
    BY DEF MarkerOK
  <2>2. QED
    BY <2>1, NoneAssumption DEF Served
<1>3. QED
  BY <1>1, <1>2 DEF WorkAttended

\* Pending work stays attended to through every single step.
LEMMA WorkerAttends ==
  ASSUME IInv, PanesInv, MarkerOK, WorkAttended, NEW w \in Worker, WorkerStep(w) \/ WorkerDie(w)
  PROVE  WorkAttended' \/ stop' \/ InState(PENDING)' = {}
<1> USE NoneAssumption DEF WorkAttended, settings, clients
<1>1. CASE marker' = marker /\ cl' = cl
  BY <1>1
<1>2. CASE WorkerMark(w)
  BY <1>2 DEF WorkerMark
<1>3. CASE WorkerRoundEnd(w)
  BY <1>3 DEF WorkerRoundEnd, Idle, InState, PENDING
<1>4. QED
  BY <1>1, <1>2, <1>3
     DEF WorkerStep, WorkerStart, WorkerSnapshot, WorkerReconcile, WorkerLock, WorkerLaunch,
         WorkerLaunched, WorkerRelease, WorkerUnlock, WorkerExit, WorkerDie

LEMMA ClientAttends ==
  ASSUME IInv, PanesInv, MarkerOK, NEW c \in Client,
         ClientStep(c) \/ ClientCrash(c) \/ \E r \in Requests : ClientBegin(c, r),
         ~stop /\ InState(PENDING) # {} => WorkAttended,
         faults' = 0
  PROVE  WorkAttended' \/ stop' \/ InState(PENDING)' = {}
<1> USE NoneAssumption
    DEF IInv, TypeOK, WorkAttended, WAKING, KILLING, ClientGoto, Leave, locks, settings
<1>1. CASE \E r \in Requests : ClientBegin(c, r)
  BY <1>1 DEF ClientBegin, InState
<1>2. CASE ClientCheckOwner(c)
  BY <1>2 DEF ClientCheckOwner, InState
<1>3. CASE ClientSettings(c)
  <2>1. /\ cl[c] = "settings" /\ cl' = [cl EXCEPT ![c] = FirstStep(req[c])]
        /\ stop => stop'
        /\ UNCHANGED <<jobs, marker>>
    BY <1>3 DEF ClientSettings
  <2>2. \A d \in Client : d # c => cl'[d] = cl[d]
    BY <2>1
  <2>3. QED
    BY <2>1, <2>2 DEF InState
<1>4. CASE ClientEnqueue(c)
  BY <1>4 DEF ClientEnqueue
<1>5. CASE ClientWake(c)
  <2>1. \/ cl'[c] = "probe"
        \/ jobs' = jobs /\ InState(PENDING) = {}
    BY <1>5 DEF ClientWake, PENDING
  <2>2. QED
    BY <2>1 DEF InState
<1>6. CASE ClientProbe(c) \/ ClientUnprobe(c) \/ ClientStart(c) \/ ClientCreateFails(c)
             \/ ClientOwn(c)
  BY <1>6 DEF ClientProbe, ClientUnprobe, ClientStart, ClientCreateFails, ClientOwn
<1>7. CASE ClientTryLock(c) \/ ClientAcknowledged(c)
  <2>1. marker' = marker
    BY <1>7 DEF ClientTryLock, ClientAcknowledged
  <2>2. marker # None
    BY <1>7 DEF ClientTryLock, ClientAcknowledged, MarkerOK
  <2>3. QED
    BY <2>1, <2>2
<1>8. CASE \E w \in Worker : ClientCreate(c, w)
  BY <1>8 DEF ClientCreate
<1>9. CASE ClientTimeout(c) \/ ClientCrash(c)
  BY <1>9 DEF ClientTimeout, ClientCrash
<1>10. CASE \/ ClientKillSnapshot(c) \/ ClientKillRows(c) \/ ClientFence(c) \/ ClientKillWorker(c)
            \/ \E t \in Token : ClientKillPane(c, t)
  BY <1>10 DEF ClientKillSnapshot, ClientKillRows, ClientFence, ClientKillWorker, ClientKillPane,
     MarkerOK
<1>11. QED
  BY <1>1, <1>2, <1>3, <1>4, <1>5, <1>6, <1>7, <1>8, <1>9, <1>10 DEF ClientStep

LEMMA SeenToStep ==
  ASSUME IInv, PanesInv, MarkerOK, WorkIsSeenTo, [Next]_vars, faults' = 0
  PROVE  WorkIsSeenTo'
<1>1. TypeOK' /\ LeaderOK' /\ MarkerOK'
  BY IInvStep, LeaderStep, MarkerStep DEF IInv, PanesInv
<1>2. ~stop /\ InState(PENDING) # {} => WorkAttended
  BY MarkerServes DEF IInv, PanesInv, PendingAttended
<1>3. ASSUME ~stop', InState(PENDING)' # {}
      PROVE  WorkAttended'
  <2>1. CASE \E c \in Client :
               ClientStep(c) \/ ClientCrash(c) \/ \E r \in Requests : ClientBegin(c, r)
    BY <1>2, <1>3, <2>1, ClientAttends
  <2>2. ASSUME ~ \E c \in Client :
                   ClientStep(c) \/ ClientCrash(c) \/ \E r \in Requests : ClientBegin(c, r)
        PROVE  WorkAttended'
    <3>1. InState(PENDING) # {}
      BY <1>3, <2>2, PendingStep DEF InState, ClientStep
    <3>2. ASSUME NEW w \in Worker, WorkerStep(w) \/ WorkerDie(w)
          PROVE  WorkAttended'
      <4>1. stop' = stop
        BY <3>2 DEF WorkerStep, WorkerStart, WorkerMark, WorkerSnapshot, WorkerReconcile,
           WorkerLock, WorkerLaunch, WorkerLaunched, WorkerRoundEnd, WorkerRelease, WorkerUnlock,
           WorkerExit, WorkerDie, settings
      <4>2. QED
        BY <1>2, <1>3, <3>1, <3>2, <4>1, WorkerAttends
    <3>3. ASSUME NEW t \in Token,
                 \/ WrapperStep(t) \/ PaneAppears(t) \/ HeldEnter(t) \/ WrapperSignal(t)
                 \/ UserKillsPane(t) \/ WrapperVanishes(t)
          PROVE  WorkAttended'
      BY <1>2, <1>3, <3>1, <3>3, AttemptsLeaveRest DEF settings, clients, WorkAttended
    <3>4. CASE Reboot
      <4>1. faults = 0 /\ faults' = faults
        BY FaultsGrow DEF IInv
      <4>2. QED
        BY <3>4, <4>1 DEF Reboot, Fault
    <3>5. CASE UNCHANGED vars
      BY <1>2, <1>3, <3>1, <3>5 DEF vars, settings, clients, WorkAttended
    <3>6. QED
      BY <2>2, <3>2, <3>3, <3>4, <3>5 DEF Next, Environment
  <2>3. QED
    BY <2>1, <2>2
<1>4. WorkIsSeenTo' <=> PendingAttended'
  BY <1>1, MarkerServes, PTL
<1>5. QED
  BY <1>3, <1>4 DEF PendingAttended

\* Without faults the marker and the work that waits are taken care of.
FaultlessOK == faults = 0 => MarkerOK /\ WorkIsSeenTo

LEMMA FaultlessInvariance == Spec => [](IInv /\ PanesInv /\ FaultlessOK)
<1>1. Init => FaultlessOK
  BY NoneAssumption DEF Init, FaultlessOK, MarkerOK, WorkIsSeenTo, InState, AbsentRow, KILLING
<1>2. IInv /\ PanesInv /\ FaultlessOK /\ [Next]_vars => FaultlessOK'
  BY FaultsGrow, MarkerStep, SeenToStep DEF FaultlessOK, IInv
<1>3. QED
  BY <1>1, <1>2, PanesInvariance, PTL DEF Spec

\* No lost wake-up, for any number of workers, clients and jobs: queued work that may run has
\* a coordinator whenever launch.lock is free, unless an invocation reported failure.
THEOREM NoWakeupIsLost == Spec => []NoLostWakeup
<1>1. ASSUME IInv, PanesInv, FaultlessOK, faults = 0, Backlog
      PROVE  Served \/ \E c \in Client : cl[c] = "failed"
  <2>1. \/ Served
        \/ \E w \in Worker : wk[w] \in DISPATCHING
        \/ \E c \in Client : cl[c] \in WAKING \cup {"failed"}
    BY <1>1 DEF FaultlessOK, WorkIsSeenTo, Backlog, InState
  <2>2. \A w \in Worker : wk[w] \notin DISPATCHING
    BY <1>1, NoneAssumption DEF IInv, Exclusion, Backlog
  <2>3. \A c \in Client : cl[c] \notin WAKING
    BY <1>1, NoneAssumption DEF IInv, Exclusion, Backlog, WAKING
  <2>4. QED
    BY <2>1, <2>2, <2>3
<1>2. IInv /\ PanesInv /\ FaultlessOK => NoLostWakeup
  BY <1>1 DEF NoLostWakeup
<1>3. QED
  BY <1>2, FaultlessInvariance, PTL

----------------------------------------------------------------------------
(***************************************************************************)
(* While nothing is disturbed: wrappers and rows go together.              *)
(***************************************************************************)

\* What was disturbed stays disturbed.
LEMMA UndisturbedBefore ==
  ASSUME IInv, [Next]_vars, Undisturbed'
  PROVE  Undisturbed /\ faults' = faults
<1>1. faults = 0 /\ faults' = faults
  BY FaultsGrow DEF Undisturbed, IInv
<1>2. ~Killed
  BY RequestsStay DEF Undisturbed, Killed
<1>3. QED
  BY <1>1, <1>2 DEF Undisturbed

\* Nobody is killed, and no client kills.
LEMMA NothingDies ==
  ASSUME IInv, MarkerOK, UndisturbedOK, [Next]_vars, Undisturbed, Undisturbed'
  PROVE  /\ ~Reboot
         /\ \A w \in Worker : ~WorkerDie(w)
         /\ \A t \in Token : ~WrapperSignal(t) /\ ~WrapperKilled(t) /\ ~WrapperVanishes(t)
                               /\ ~UserKillsPane(t)
         /\ \A c \in Client : cl[c] \notin KILLING /\ ~ClientCrash(c)
<1>1. faults = 0 /\ faults' = 0
  BY DEF Undisturbed
<1>2. ~Fault
  BY <1>1 DEF Fault
<1>3. ~Reboot /\ \A c \in Client : ~ClientCrash(c)
  BY <1>2 DEF Reboot, ClientCrash
<1>4. \A w \in Worker : ~WorkerDie(w)
  BY <1>2 DEF WorkerDie, UndisturbedOK
<1>5. \A t \in Token : ~WrapperSignal(t)
  BY <1>2 DEF WrapperSignal, UndisturbedOK
<1>6. \A t \in Token : ~WrapperKilled(t)
  BY DEF WrapperKilled, UndisturbedOK, WrapperAlive
<1>7. \A t \in Token : ~WrapperVanishes(t) /\ ~UserKillsPane(t)
  BY <1>2 DEF WrapperVanishes, UserKillsPane
<1>8. \A c \in Client : cl[c] \notin KILLING
  <2>1. \A c \in Client : cl[c] \in KILLING => req[c].stop = "kill" /\ cl[c] # "idle"
    BY DEF MarkerOK, KILLING
  <2>2. \A c \in Client : cl[c] # "idle" => req[c] # None
    BY NoneAssumption DEF IInv, Started
  <2>3. QED
    BY <2>1, <2>2 DEF Undisturbed, Killed
<1>9. QED
  BY <1>3, <1>4, <1>5, <1>6, <1>7, <1>8

\* Reconciling finds every attempt in its pane and changes nothing.
LEMMA ReconcileFindsAll ==
  ASSUME IInv, UndisturbedOK, NEW w \in Worker, WorkerReconcile(w)
  PROVE  jobs' = jobs
<1>1. \A j \in Job : jobs'[j] = Reconciled(jobs[j], snap[w], wk[w] = "requeue")
  BY DEF WorkerReconcile
<1>2. \A j \in Job : jobs[j].state \in ACTIVE => jobs[j].token \in snap[w]
  BY DEF WorkerReconcile, UndisturbedOK, InState
<1>3. \A j \in Job : jobs'[j] = jobs[j]
  BY <1>1, <1>2 DEF Reconciled
<1>4. jobs \in [Job -> Row] /\ jobs' = [j \in Job |-> jobs'[j]]
  BY DEF IInv, TypeOK, WorkerReconcile
<1>5. QED
  BY <1>3, <1>4

\* The steps that are left, one by one.
CalmStep ==
  \/ \E w \in Worker : WorkerStep(w)
  \/ \E t \in Token : \/ WrapperClaim(t) \/ WrapperSpawn(t) \/ WrapperAssign(t) \/ ChildExit(t)
                       \/ WrapperCommit(t) \/ HeldRelease(t) \/ HeldLost(t) \/ PaneAppears(t)
  \/ \E c \in Client : \/ ClientEnqueue(c) \/ \E w \in Worker : ClientCreate(c, w)
                       \/ UNCHANGED <<jobs, owner, child, wrap, panes, wk, snap, cur>>
  \/ UNCHANGED <<jobs, owner, child, wrap, panes, wk, snap, cur>>

LEMMA CalmSteps ==
  ASSUME IInv, MarkerOK, UndisturbedOK, [Next]_vars, Undisturbed, Undisturbed'
  PROVE  CalmStep
<1>1. ASSUME NEW c \in Client, ClientStep(c) \/ \E r \in Requests : ClientBegin(c, r)
      PROVE  CalmStep
  <2>1. cl[c] \notin KILLING
    BY NothingDies
  <2>2. QED
    BY <1>1, <2>1
       DEF CalmStep, ClientStep, ClientCheckOwner, ClientSettings, ClientWake, ClientProbe,
           ClientTryLock, ClientUnprobe, ClientStart, ClientCreateFails, ClientOwn,
           ClientAcknowledged, ClientTimeout, ClientKillSnapshot, ClientKillRows, ClientFence,
           ClientKillWorker, ClientKillPane, ClientBegin, KILLING, session, workers, attempts
<1>2. ASSUME NEW t \in Token, WrapperStep(t) \/ PaneAppears(t) \/ HeldEnter(t)
      PROVE  CalmStep
  BY <1>2, NothingDies DEF CalmStep, WrapperStep, HeldContinue, HeldEnter
<1>3. CASE UNCHANGED vars
  BY <1>3 DEF CalmStep, vars, session, workers, attempts
<1>4. QED
  BY <1>1, <1>2, <1>3, NothingDies DEF CalmStep, Next, Environment

\* Processes live in panes.
LEMMA AliveStep ==
  ASSUME IInv, UndisturbedOK, CalmStep
  PROVE  /\ \A w \in Worker : WorkerAlive(w)' => w \in panes'
         /\ \A t \in Token : WrapperAlive(t)' => t \in panes' /\ wrap'[t] # "killing"
<1> USE DistinctAssumption
    DEF IInv, TypeOK, UndisturbedOK, WorkerAlive, WrapperAlive, WorkerGoto, WrapperGoto,
        WrapperEnds, ClosePanes, session, attempts, workers
<1>1. ASSUME NEW w \in Worker, WorkerStep(w)
      PROVE  /\ \A v \in Worker : WorkerAlive(v)' => v \in panes'
             /\ \A t \in Token : WrapperAlive(t)' => t \in panes' /\ wrap'[t] # "killing"
  <2>1. CASE WorkerStart(w) \/ WorkerExit(w)
    BY <2>1 DEF WorkerStart, WorkerExit
  <2>2. CASE WorkerMark(w) \/ WorkerSnapshot(w) \/ WorkerReconcile(w)
    BY <2>2 DEF WorkerMark, WorkerSnapshot, WorkerReconcile
  <2>3. CASE WorkerLock(w) \/ WorkerRoundEnd(w) \/ WorkerLaunched(w)
    BY <2>3 DEF WorkerLock, WorkerRoundEnd, WorkerLaunched
  <2>4. CASE \E j \in Job, t \in Token : WorkerLaunch(w, j, t)
    BY <2>4 DEF WorkerLaunch
  <2>5. CASE WorkerRelease(w) \/ WorkerUnlock(w)
    BY <2>5 DEF WorkerRelease, WorkerUnlock
  <2>6. QED
    BY <1>1, <2>1, <2>2, <2>3, <2>4, <2>5 DEF WorkerStep
<1>2. ASSUME NEW t \in Token,
             \/ WrapperClaim(t) \/ WrapperSpawn(t) \/ WrapperAssign(t) \/ ChildExit(t)
             \/ WrapperCommit(t) \/ HeldRelease(t) \/ HeldLost(t) \/ PaneAppears(t)
      PROVE  /\ \A v \in Worker : WorkerAlive(v)' => v \in panes'
             /\ \A u \in Token : WrapperAlive(u)' => u \in panes' /\ wrap'[u] # "killing"
  <2>1. CASE PaneAppears(t)
    BY <2>1 DEF PaneAppears
  <2>2. CASE WrapperClaim(t) \/ WrapperSpawn(t) \/ WrapperAssign(t) \/ ChildExit(t)
    BY <2>2 DEF WrapperClaim, WrapperSpawn, WrapperAssign, ChildExit
  <2>3. CASE WrapperCommit(t)
    BY <2>3 DEF WrapperCommit
  <2>4. CASE HeldRelease(t) \/ HeldLost(t)
    BY <2>4 DEF HeldRelease, HeldLost
  <2>5. QED
    BY <1>2, <2>1, <2>2, <2>3, <2>4
<1>3. ASSUME NEW c \in Client,
             ClientEnqueue(c) \/ \E w \in Worker : ClientCreate(c, w)
      PROVE  /\ \A v \in Worker : WorkerAlive(v)' => v \in panes'
             /\ \A u \in Token : WrapperAlive(u)' => u \in panes' /\ wrap'[u] # "killing"
  BY <1>3 DEF ClientEnqueue, ClientCreate
<1>4. CASE UNCHANGED <<jobs, owner, child, wrap, panes, wk, snap, cur>>
  BY <1>4
<1>5. QED
  BY <1>1, <1>2, <1>3, <1>4 DEF CalmStep

\* Every row follows the wrapper of its attempt.
LEMMA AtPointStep ==
  ASSUME IInv, UndisturbedOK, CalmStep, NEW j \in Job
  PROVE  AtPoint(j)'
<1> USE NoneAssumption DEF IInv, TypeOK, AtPoint, ACTIVE
<1>1. AtPoint(j) /\ RowOK(j) /\ jobs[j] \in Row
  BY DEF UndisturbedOK
<1>2. ASSUME NEW w \in Worker, NEW i \in Job, NEW t \in Token, WorkerLaunch(w, i, t)
      PROVE  AtPoint(j)'
  <2>1. /\ wk[w] = "dispatch" /\ wk'[w] = "request" /\ cur'[w] = t
        /\ \A v \in Worker : v # w => wk'[v] = wk[v] /\ cur'[v] = cur[v]
        /\ wrap[t] = "none" /\ wrap' = [wrap EXCEPT ![t] = "requested"]
        /\ jobs'[i] = Launched(jobs[i], t)
        /\ \A k \in Job : k # i => jobs'[k] = jobs[k]
    BY <1>2 DEF WorkerLaunch, WorkerGoto
  <2>2. CASE j = i
    <3>1. jobs'[j].state = "starting" /\ jobs'[j].token = t
      BY <1>1, <2>1, <2>2 DEF Launched, Row
    <3>2. QED
      BY <2>1, <3>1
  <2>3. CASE j # i
    <3>1. jobs'[j] = jobs[j]
      BY <2>1, <2>3
    <3>2. jobs[j].state \in ACTIVE => wrap'[jobs[j].token] = wrap[jobs[j].token]
      BY <1>1, <2>1 DEF RowOK, Row
    <3>3. \A v \in Worker : wk[v] = "request" => wk'[v] = wk[v] /\ cur'[v] = cur[v]
      BY <2>1
    <3>4. QED
      BY <1>1, <3>1, <3>2, <3>3
  <2>4. QED
    BY <2>2, <2>3
<1>3. ASSUME NEW w \in Worker, WorkerStep(w), ~ \E i \in Job, t \in Token : WorkerLaunch(w, i, t)
      PROVE  AtPoint(j)'
  <2>1. wrap' = wrap /\ \A v \in Worker : v # w => wk'[v] = wk[v] /\ cur'[v] = cur[v]
    BY <1>3 DEF WorkerStep, WorkerStart, WorkerMark, WorkerSnapshot, WorkerReconcile, WorkerLock,
       WorkerLaunched, WorkerRoundEnd, WorkerRelease, WorkerUnlock, WorkerExit, WorkerGoto, attempts
  <2>2. wk[w] = "request" => wrap[cur[w]] # "requested"
    BY <1>3 DEF WorkerStep, WorkerStart, WorkerMark, WorkerSnapshot, WorkerReconcile, WorkerLock,
       WorkerLaunched, WorkerRoundEnd, WorkerRelease, WorkerUnlock, WorkerExit
  <2>3. jobs' = jobs
    BY <1>3, ReconcileFindsAll
       DEF WorkerStep, WorkerStart, WorkerMark, WorkerSnapshot, WorkerLock,
       WorkerLaunched, WorkerRoundEnd, WorkerRelease, WorkerUnlock, WorkerExit
  <2>4. QED
    BY <1>1, <2>1, <2>2, <2>3
<1>4. ASSUME NEW t \in Token, UNCHANGED workers,
             PaneAppears(t) \/ WrapperSpawn(t) \/ WrapperAssign(t) \/ ChildExit(t)
      PROVE  AtPoint(j)'
  <2>1. UNCHANGED <<jobs, wk, cur>>
    BY <1>4 DEF PaneAppears, WrapperSpawn, WrapperAssign, ChildExit, workers
  <2>2. /\ \A u \in Token : u # t => wrap'[u] = wrap[u]
        /\ \/ wrap'[t] = wrap[t]
           \/ wrap[t] = "requested" /\ wrap'[t] = "boot"
           \/ /\ {wrap[t], wrap'[t]} \subseteq {"claimed", "forked", "exec"}
    BY <1>4 DEF PaneAppears, WrapperSpawn, WrapperAssign, ChildExit, WrapperGoto
  <2>3. jobs[j].state \in ACTIVE => jobs[j].token \in Token
    BY <1>1 DEF RowOK, Row
  <2>4. QED
    BY <1>1, <2>1, <2>2, <2>3
<1>5. ASSUME NEW t \in Token, UNCHANGED workers,
             WrapperClaim(t) \/ WrapperCommit(t) \/ HeldRelease(t) \/ HeldLost(t)
      PROVE  AtPoint(j)'
  <2>1. /\ \A u \in Token : u # t => wrap'[u] = wrap[u]
        /\ wrap[t] \in {"boot", "exec", "held"} /\ wk' = wk /\ cur' = cur
    BY <1>5 DEF WrapperClaim, WrapperCommit, HeldRelease, HeldLost, WrapperEnds, WrapperGoto, workers
  <2>2. CASE jobs[j].token = t
    <3>1. owner[t] = j
      BY <1>1, <2>2 DEF RowOK
    <3>2. CASE WrapperClaim(t)
      <4>1. \/ jobs[j].state = "starting" /\ jobs'[j] = Claimed(jobs[j]) /\ wrap'[t] = "claimed"
            \/ jobs[j].state \notin ACTIVE /\ jobs'[j] = jobs[j]
        BY <1>1, <2>2, <3>1, <3>2 DEF WrapperClaim, WrapperGoto, Owned, JobOf
      <4>2. QED
        BY <1>1, <2>2, <4>1 DEF Claimed, Row
    <3>3. CASE WrapperCommit(t)
      <4>1. \/ /\ jobs'[j] = Recorded(jobs[j], child[t])
               /\ child[t] = "fail" => wrap'[t] = "held"
               /\ child[t] \in {"ok", "fail"}
            \/ jobs[j].state \notin ACTIVE /\ jobs'[j] = jobs[j]
        BY <1>1, <2>2, <3>1, <3>3 DEF WrapperCommit, WrapperGoto, Owned, JobOf
      <4>2. QED
        BY <1>1, <2>2, <4>1 DEF Recorded, Row
    <3>4. CASE HeldRelease(t) \/ HeldLost(t)
      <4>1. \/ jobs'[j] = Released(jobs[j])
            \/ jobs[j].state \notin ACTIVE /\ jobs'[j] = jobs[j]
        BY <1>1, <2>2, <3>1, <3>4 DEF HeldRelease, HeldLost, Owned, JobOf
      <4>2. QED
        BY <1>1, <2>2, <4>1 DEF Released, Row
    <3>5. QED
      BY <1>5, <3>2, <3>3, <3>4
  <2>3. CASE jobs[j].token # t
    <3>1. jobs'[j] = jobs[j]
      BY <1>5, <2>3 DEF WrapperClaim, WrapperCommit, HeldRelease, HeldLost, Owned, JobOf
    <3>2. jobs[j].state \in ACTIVE => jobs[j].token \in Token
      BY <1>1 DEF RowOK, Row
    <3>3. QED
      BY <1>1, <2>1, <2>3, <3>1, <3>2
  <2>4. QED
    BY <2>2, <2>3
<1>6. ASSUME NEW c \in Client, ClientEnqueue(c)
      PROVE  AtPoint(j)'
  <2>1. jobs'[j] = jobs[j] \/ \E x : jobs'[j] = InsertedRow(x)
    BY <1>6 DEF ClientEnqueue
  <2>2. UNCHANGED <<wrap, wk, cur>>
    BY <1>6 DEF ClientEnqueue, attempts, workers
  <2>3. QED
    BY <1>1, <2>1, <2>2 DEF InsertedRow, AbsentRow
<1>7. ASSUME NEW c \in Client, NEW w \in Worker, ClientCreate(c, w)
      PROVE  AtPoint(j)'
  BY <1>1, <1>7 DEF ClientCreate, attempts
<1>8. CASE UNCHANGED <<jobs, owner, child, wrap, panes, wk, snap, cur>>
  BY <1>1, <1>8
<1>9. \A t \in Token :
        (\/ WrapperClaim(t) \/ WrapperSpawn(t) \/ WrapperAssign(t) \/ ChildExit(t)
         \/ WrapperCommit(t) \/ HeldRelease(t) \/ HeldLost(t) \/ PaneAppears(t))
        => UNCHANGED workers
  BY DEF WrapperClaim, WrapperSpawn, WrapperAssign, ChildExit, WrapperCommit, HeldRelease,
     HeldLost, PaneAppears
<1>10. QED
  BY <1>2, <1>3, <1>4, <1>5, <1>6, <1>7, <1>8, <1>9 DEF CalmStep

\* A coordinator's snapshot contains every active attempt.
LEMMA SnapshotStep ==
  ASSUME IInv, PanesInv, UndisturbedOK, CalmStep, [Next]_vars, ~Reboot,
         NEW w \in Worker, ~WorkerDie(w), wk'[w] \in {"requeue", "reconcile"},
         NEW j \in Job, jobs'[j].state \in ACTIVE
  PROVE  jobs'[j].token \in snap'[w]
<1> USE NoneAssumption DEF IInv, TypeOK
<1>1. CASE WorkerStep(w)
  <2>1. /\ wk[w] \in {"recover", "snap"} /\ snap'[w] = LiveTokens /\ jobs' = jobs
    BY <1>1 DEF WorkerStep, WorkerStart, WorkerMark, WorkerSnapshot, WorkerReconcile, WorkerLock,
       WorkerLaunch, WorkerLaunched, WorkerRoundEnd, WorkerRelease, WorkerUnlock, WorkerExit,
       WorkerGoto
  <2>2. \A v \in Worker : wk[v] # "request"
    BY <2>1 DEF PanesInv, LeaderOK
  <2>3. jobs[j].token \in Token /\ wrap[jobs[j].token] \notin {"none", "requested", "gone"}
    BY <2>1, <2>2 DEF UndisturbedOK, AtPoint, RowOK, Row
  <2>4. jobs[j].token \in panes
    BY <2>3 DEF UndisturbedOK, WrapperAlive
  <2>5. QED
    BY <2>1, <2>3, <2>4 DEF LiveTokens
<1>2. CASE ~WorkerStep(w)
  <2>1. wk[w] = wk'[w] /\ snap'[w] = snap[w]
    BY <1>2, OthersLeaveWorker
  <2>2. ~ \E v \in Worker, i \in Job, t \in Token : WorkerLaunch(v, i, t)
    <3> SUFFICES ASSUME NEW v \in Worker, NEW i \in Job, NEW t \in Token, WorkerLaunch(v, i, t)
                 PROVE  FALSE
      OBVIOUS
    <3>1. coordLock = v /\ coordLock = w
      BY <2>1 DEF WorkerLaunch, PanesInv, LeaderOK
    <3>2. WorkerStep(w)
      BY <3>1 DEF WorkerStep
    <3>3. QED
      BY <1>2, <3>2
  <2>3. jobs[j].state \in ACTIVE /\ jobs'[j].token = jobs[j].token
    BY <2>2, ActiveStays
  <2>4. QED
    BY <2>1, <2>3 DEF UndisturbedOK, InState
<1>3. QED
  BY <1>1, <1>2

\* A job keeps the one attempt it had, and nobody writes it off.
LEMMA OneAttemptStep ==
  ASSUME IInv, UndisturbedOK, CalmStep, NEW j \in Job
  PROVE  /\ \A t \in Token : owner'[t] = j => jobs'[j].token = t
         /\ jobs'[j].rc # "interrupted"
<1> USE NoneAssumption DEF IInv, TypeOK
<1>1. /\ \A t \in Token : owner[t] = j => jobs[j].token = t
      /\ jobs[j].rc # "interrupted" /\ RowOK(j) /\ jobs[j] \in Row
  BY DEF UndisturbedOK
<1>2. ASSUME NEW w \in Worker, NEW i \in Job, NEW t \in Token, WorkerLaunch(w, i, t)
      PROVE  /\ \A u \in Token : owner'[u] = j => jobs'[j].token = u
             /\ jobs'[j].rc # "interrupted"
  <2>1. /\ owner' = [owner EXCEPT ![t] = i] /\ i \in batch[w]
        /\ jobs'[i] = Launched(jobs[i], t)
        /\ \A k \in Job : k # i => jobs'[k] = jobs[k]
    BY <1>2 DEF WorkerLaunch
  <2>2. jobs[i].state = "queued"
    BY <1>2 DEF WorkerLaunch, BatchOK, InState
  <2>3. CASE j = i
    <3>1. \A u \in Token : owner[u] # j
      BY <1>1, <2>2, <2>3 DEF RowOK
    <3>2. jobs'[j].token = t /\ jobs'[j].rc = "none"
      BY <1>1, <2>1, <2>3 DEF Launched, Row
    <3>3. QED
      BY <2>1, <3>1, <3>2
  <2>4. CASE j # i
    BY <1>1, <2>1, <2>4
  <2>5. QED
    BY <2>3, <2>4
<1>3. ASSUME NEW w \in Worker, WorkerStep(w), ~ \E i \in Job, t \in Token : WorkerLaunch(w, i, t)
      PROVE  UNCHANGED <<jobs, owner>>
  BY <1>3, ReconcileFindsAll
     DEF WorkerStep, WorkerStart, WorkerMark, WorkerSnapshot, WorkerReconcile, WorkerLock,
         WorkerLaunched, WorkerRoundEnd, WorkerRelease, WorkerUnlock, WorkerExit, attempts
<1>4. ASSUME NEW t \in Token,
             \/ WrapperClaim(t) \/ WrapperSpawn(t) \/ WrapperAssign(t) \/ ChildExit(t)
             \/ WrapperCommit(t) \/ HeldRelease(t) \/ HeldLost(t) \/ PaneAppears(t)
      PROVE  /\ owner' = owner
             /\ jobs'[j].token = jobs[j].token
             /\ jobs'[j].rc # "interrupted"
  <2>1. /\ owner' = owner
        /\ \/ jobs'[j] \in {jobs[j], Claimed(jobs[j]), Released(jobs[j])}
           \/ jobs'[j] = Recorded(jobs[j], child[t]) /\ child[t] \in {"ok", "fail"}
    BY <1>4 DEF WrapperClaim, WrapperSpawn, WrapperAssign, ChildExit, WrapperCommit, HeldRelease,
       HeldLost, PaneAppears
  <2>2. QED
    BY <1>1, <2>1 DEF Claimed, Released, Recorded, Row
<1>5. ASSUME NEW c \in Client, ClientEnqueue(c)
      PROVE  /\ owner' = owner
             /\ jobs'[j].token = jobs[j].token
             /\ jobs'[j].rc # "interrupted"
  <2>1. /\ owner' = owner
        /\ \/ jobs'[j] = jobs[j]
           \/ jobs[j].state = "absent" /\ \E x : jobs'[j] = InsertedRow(x)
    BY <1>5 DEF ClientEnqueue, FirstIds, InState, attempts
  <2>2. \A x : InsertedRow(x).token = None /\ InsertedRow(x).rc = "none"
    BY DEF InsertedRow, AbsentRow
  <2>3. jobs[j].state = "absent" => jobs[j].token = None
    BY <1>1 DEF RowOK
  <2>4. QED
    BY <1>1, <2>1, <2>2, <2>3
<1>6. ASSUME NEW c \in Client, NEW w \in Worker, ClientCreate(c, w)
      PROVE  UNCHANGED <<jobs, owner>>
  BY <1>6 DEF ClientCreate, attempts
<1>7. QED
  BY <1>1, <1>2, <1>3, <1>4, <1>5, <1>6 DEF CalmStep

LEMMA UndisturbedStep ==
  ASSUME IInv, PanesInv, MarkerOK, UndisturbedOK, [Next]_vars, Undisturbed, Undisturbed'
  PROVE  UndisturbedOK'
<1>1. CalmStep /\ ~Reboot /\ \A w \in Worker : ~WorkerDie(w)
  BY CalmSteps, NothingDies
<1>2. \A w \in Worker : wk'[w] \in {"requeue", "reconcile"} =>
        \A j \in Job : jobs'[j].state \in ACTIVE => jobs'[j].token \in snap'[w]
  BY <1>1, SnapshotStep
<1>3. /\ \A w \in Worker : WorkerAlive(w)' => w \in panes'
      /\ \A t \in Token : WrapperAlive(t)' => t \in panes' /\ wrap'[t] # "killing"
  BY <1>1, AliveStep
<1>4. \A j \in Job : AtPoint(j)'
  BY <1>1, AtPointStep
<1>5. /\ \A t \in Token : owner'[t] \in Job => jobs'[owner'[t]].token = t
      /\ \A j \in Job : jobs'[j].rc # "interrupted"
  BY <1>1, OneAttemptStep
<1>6. QED
  BY <1>2, <1>3, <1>4, <1>5 DEF UndisturbedOK, InState

----------------------------------------------------------------------------
(***************************************************************************)
(* While nothing is disturbed: why an invocation may fail.                 *)
(***************************************************************************)

\* A client that needs a worker is the only one that looks for one, and no coordinator is
\* left without a marker in a live pane but the one it waits for.
LEMMA FreeForStarter ==
  ASSUME IInv, PanesInv, MarkerOK, UndisturbedOK,
         NEW c \in Client, cl[c] = "probe", marker \notin panes
  PROVE  coordLock = None
<1> USE DistinctAssumption DEF IInv, TypeOK, PanesInv, LeaderOK, Exclusion
<1>1. ASSUME NEW w \in Worker, coordLock = w
      PROVE  FALSE
  <2>1. wk[w] \in LEADING /\ w \in panes
    BY <1>1 DEF UndisturbedOK, WorkerAlive
  <2>2. wk[w] # "release" /\ wk[w] \notin DISPATCHING
    BY NoneAssumption
  <2>3. wk[w] # "mark"
    BY DEF MarkerOK
  <2>4. QED
    BY <2>1, <2>2, <2>3 DEF MarkerOK
<1>2. ASSUME NEW d \in Client, coordLock = d
      PROVE  FALSE
  BY <1>2, OneClient
<1>3. QED
  BY <1>1, <1>2

\* A client moves itself only.
LEMMA ClientMovesItself ==
  ASSUME TypeOK, NEW d \in Client,
         ClientStep(d) \/ ClientCrash(d) \/ \E r \in Requests : ClientBegin(d, r),
         NEW c \in Client, c # d
  PROVE  cl'[c] = cl[c]
<1> USE DEF TypeOK, ClientGoto, Leave
<1>1. CASE \/ ClientCheckOwner(d) \/ ClientSettings(d) \/ ClientEnqueue(d) \/ ClientWake(d)
  BY <1>1 DEF ClientCheckOwner, ClientSettings, ClientEnqueue, ClientWake
<1>2. CASE ClientProbe(d) \/ ClientTryLock(d) \/ ClientUnprobe(d) \/ ClientStart(d)
  BY <1>2 DEF ClientProbe, ClientTryLock, ClientUnprobe, ClientStart
<1>3. CASE \/ ClientCreateFails(d) \/ ClientOwn(d) \/ ClientAcknowledged(d) \/ ClientTimeout(d)
           \/ \E w \in Worker : ClientCreate(d, w)
  BY <1>3 DEF ClientCreateFails, ClientOwn, ClientAcknowledged, ClientTimeout, ClientCreate
<1>4. CASE \/ ClientKillSnapshot(d) \/ ClientKillRows(d) \/ ClientFence(d) \/ ClientKillWorker(d)
           \/ \E t \in Token : ClientKillPane(d, t)
  BY <1>4 DEF ClientKillSnapshot, ClientKillRows, ClientFence, ClientKillWorker, ClientKillPane
<1>5. CASE ClientCrash(d) \/ \E r \in Requests : ClientBegin(d, r)
  BY <1>5 DEF ClientCrash, ClientBegin
<1>6. QED
  BY <1>1, <1>2, <1>3, <1>4, <1>5 DEF ClientStep

LEMMA StarterStep ==
  ASSUME IInv, PanesInv, MarkerOK, UndisturbedOK, StarterOK, [Next]_vars,
         Undisturbed, Undisturbed'
  PROVE  StarterOK'
<1> USE DistinctAssumption, NoneAssumption
    DEF IInv, TypeOK, PanesInv, LeaderOK, Exclusion, StarterOK
<1>1. ASSUME NEW w \in Worker, WorkerStep(w), NEW c \in Client
      PROVE  /\ cl'[c] \in {"start", "window", "session"} => coordLock' = None
             /\ cl'[c] \in {"own", "wait"} =>
                  \/ wk'[cw'[c]] = "boot" /\ coordLock' = None
                  \/ wk'[cw'[c]] \in {"mark"} \cup SERVING
  <2> USE DEF WorkerGoto, locks, clients
  <2>1. CASE WorkerStart(w)
    <3>1. wk[w] = "boot" /\ UNCHANGED <<cl, cw>>
      BY <2>1 DEF WorkerStart
    <3>2. cl[c] \notin {"start", "window", "session"}
      BY <3>1, OneClient DEF MarkerOK
    <3>3. cl[c] \in {"own", "wait"} => cw[c] = w
      BY <3>1, OneClient DEF MarkerOK
    <3>4. cl[c] \in {"own", "wait"} => coordLock = None
      BY <3>1, <3>3
    <3>5. QED
      BY <2>1, <3>1, <3>2, <3>3, <3>4 DEF WorkerStart
  <2>2. CASE WorkerMark(w) \/ WorkerSnapshot(w) \/ WorkerReconcile(w)
    BY <2>2 DEF WorkerMark, WorkerSnapshot, WorkerReconcile, MarkerOK
  <2>3. CASE WorkerLock(w)
    BY <2>3 DEF WorkerLock
  <2>4. CASE \/ WorkerLaunched(w) \/ WorkerRoundEnd(w) \/ WorkerRelease(w) \/ WorkerUnlock(w)
             \/ \E j \in Job, t \in Token : WorkerLaunch(w, j, t)
    <3>1. launchLock = w /\ UNCHANGED <<cl, cw>>
      BY <2>4 DEF WorkerLaunched, WorkerRoundEnd, WorkerRelease, WorkerUnlock, WorkerLaunch
    <3>2. cl[c] \in {"idle", "done", "failed"}
      BY <3>1
    <3>3. QED
      BY <3>1, <3>2
  <2>5. CASE WorkerExit(w)
    BY <2>5 DEF WorkerExit, MarkerOK
  <2>6. QED
    BY <1>1, <2>1, <2>2, <2>3, <2>4, <2>5 DEF WorkerStep
<1>2. ASSUME NEW t \in Token, WrapperStep(t) \/ PaneAppears(t) \/ HeldEnter(t)
      PROVE  StarterOK'
  BY <1>2, AttemptsLeaveRest DEF locks, workers, clients
<1>3. ASSUME NEW d \in Client, ClientStep(d) \/ \E r \in Requests : ClientBegin(d, r),
             NEW c \in Client
      PROVE  /\ cl'[c] \in {"start", "window", "session"} => coordLock' = None
             /\ cl'[c] \in {"own", "wait"} =>
                  \/ wk'[cw'[c]] = "boot" /\ coordLock' = None
                  \/ wk'[cw'[c]] \in {"mark"} \cup SERVING
  <2>1. CASE c # d
    <3>1. cl'[c] = cl[c]
      BY <1>3, <2>1, ClientMovesItself
    <3>2. cl[c] \in {"idle", "done", "failed"}
      <4>1. cl[d] \notin {"idle", "done", "failed"} \/ launchLock = None
        BY <1>3
           DEF ClientStep, ClientCheckOwner, ClientSettings, ClientEnqueue, ClientWake,
               ClientProbe, ClientTryLock, ClientUnprobe, ClientStart, ClientCreate,
               ClientCreateFails, ClientOwn, ClientAcknowledged, ClientTimeout,
               ClientKillSnapshot, ClientKillRows, ClientFence, ClientKillWorker,
               ClientKillPane, ClientBegin
      <4>2. QED
        BY <2>1, <4>1, OneClient
    <3>3. QED
      BY <3>1, <3>2
  <2>2. CASE c = d
    <3> USE DEF ClientGoto, Leave, locks, workers
    <3>1. CASE ClientProbe(d)
      BY <2>2, <3>1, FreeForStarter DEF ClientProbe
    <3>2. CASE ClientUnprobe(d) \/ ClientStart(d) \/ ClientOwn(d)
      BY <2>2, <3>2 DEF ClientUnprobe, ClientStart, ClientOwn
    <3>3. CASE \E w \in Worker : ClientCreate(d, w)
      BY <2>2, <3>3 DEF ClientCreate
    <3>4. CASE ClientSettings(d)
      <4>1. req[d] \in Request
        BY <3>4, RequestsAssumption DEF ClientSettings, Started
      <4>2. FirstStep(req[d]) \in {"killSnap", "done", "enqueue", "wake"}
        BY <4>1 DEF FirstStep, Request
      <4>3. QED
        BY <2>2, <3>4, <4>2 DEF ClientSettings
    <3>5. CASE \E t \in Token : ClientKillPane(d, t)
      BY <2>2, <3>5 DEF ClientKillPane
    <3>6. CASE \/ ClientCheckOwner(d) \/ ClientEnqueue(d) \/ ClientWake(d) \/ ClientTryLock(d)
               \/ ClientCreateFails(d) \/ ClientAcknowledged(d) \/ ClientTimeout(d)
               \/ ClientKillSnapshot(d) \/ ClientKillRows(d) \/ ClientFence(d)
               \/ ClientKillWorker(d) \/ \E r \in Requests : ClientBegin(d, r)
      BY <2>2, <3>6
         DEF ClientCheckOwner, ClientEnqueue, ClientWake, ClientTryLock, ClientCreateFails,
             ClientAcknowledged, ClientTimeout, ClientKillSnapshot, ClientKillRows, ClientFence,
             ClientKillWorker, ClientBegin
    <3>7. QED
      BY <1>3, <3>1, <3>2, <3>3, <3>4, <3>5, <3>6 DEF ClientStep
  <2>3. QED
    BY <2>1, <2>2
<1>4. CASE UNCHANGED vars
  BY <1>4 DEF vars, locks, workers, clients
<1>5. QED
  BY <1>1, <1>2, <1>3, <1>4, NothingDies DEF Next, Environment

CalmOK == Undisturbed => UndisturbedOK /\ StarterOK

\* All of it together: the coordination of undisturbed processes is an invariant.
LEMMA CalmInvariance == Spec => [](IInv /\ PanesInv /\ FaultlessOK /\ CalmOK)
<1>1. Init => CalmOK
  <2> SUFFICES ASSUME Init
               PROVE  UndisturbedOK /\ StarterOK
    BY DEF CalmOK
  <2>1. UndisturbedOK
    BY NoneAssumption
       DEF Init, UndisturbedOK, WorkerAlive, WrapperAlive, AtPoint, InState, AbsentRow
  <2>2. StarterOK
    BY DEF Init, StarterOK
  <2>3. QED
    BY <2>1, <2>2
<1>2. ASSUME IInv, PanesInv, FaultlessOK, CalmOK, [Next]_vars
      PROVE  CalmOK'
  <2> SUFFICES ASSUME Undisturbed'
               PROVE  UndisturbedOK' /\ StarterOK'
    BY DEF CalmOK
  <2>1. Undisturbed /\ MarkerOK /\ UndisturbedOK /\ StarterOK
    BY <1>2, UndisturbedBefore DEF FaultlessOK, CalmOK, Undisturbed
  <2>2. QED
    BY <1>2, <2>1, UndisturbedStep, StarterStep
<1>3. QED
  BY <1>1, <1>2, FaultlessInvariance, PTL DEF Spec

\* While nothing is disturbed no command is started a second time and no job is reported
\* interrupted, whatever coordinators leave and are started again in between.
THEOREM ExactlyOnce == Spec => []ExactlyOnceUndisturbed
<1>1. ASSUME UndisturbedOK, NEW j \in Job
      PROVE  Cardinality({t \in Token : owner[t] = j /\ child[t] # "none"}) <= 1
  <2> DEFINE S == {t \in Token : owner[t] = j /\ child[t] # "none"}
  <2>1. S \subseteq {jobs[j].token}
    BY <1>1 DEF UndisturbedOK
  <2>2. IsFiniteSet({jobs[j].token}) /\ Cardinality({jobs[j].token}) = 1
    BY FS_Singleton
  <2>3. IsFiniteSet(S) /\ Cardinality(S) \in Nat /\ Cardinality(S) <= Cardinality({jobs[j].token})
    <3>1. IsFiniteSet(S) /\ Cardinality(S) <= Cardinality({jobs[j].token})
      BY <2>1, <2>2, FS_Subset
    <3>2. QED
      BY <3>1, FS_CardinalityType
  <2>4. QED
    BY <2>2, <2>3
<1>2. CalmOK => ExactlyOnceUndisturbed
  <2>1. UndisturbedOK => \A j \in Job : jobs[j].rc # "interrupted"
    BY DEF UndisturbedOK
  <2>2. QED
    BY <1>1, <2>1 DEF CalmOK, ExactlyOnceUndisturbed
<1>3. QED
  BY <1>2, CalmInvariance, PTL

\* An undisturbed invocation fails only because the session ended with the pane of a leaving
\* worker: the executor's own session is never taken for a foreign one, and the worker an
\* invocation waits for lives until it has set the marker.
THEOREM FailureMeansNoSession == Spec => FailsOnlyOnVanishedSession
<1>1. ASSUME IInv, PanesInv, MarkerOK, UndisturbedOK, StarterOK, [Next]_vars,
             Undisturbed, Undisturbed', NEW c \in Client, cl[c] # "failed", cl'[c] = "failed"
      PROVE  ~SessionExists
  <2> USE <1>1 DEF IInv, TypeOK, ClientGoto, Leave
  <2>1. \A d \in Client : cl[d] \notin {"idle", "done", "failed", "own"} /\ SessionExists => owned
    BY OneClient DEF MarkerOK, SessionExists
  <2>2. ClientStep(c) \/ \E r \in Requests : ClientBegin(c, r)
    <3>1. ASSUME NEW d \in Client,
                 ClientStep(d) \/ ClientCrash(d) \/ \E r \in Requests : ClientBegin(d, r)
          PROVE  d = c
      BY <3>1, ClientMovesItself
    <3>2. ASSUME NEW w \in Worker, WorkerStep(w)
          PROVE  FALSE
      BY <3>2
         DEF WorkerStep, WorkerStart, WorkerMark, WorkerSnapshot, WorkerReconcile, WorkerLock,
             WorkerLaunch, WorkerLaunched, WorkerRoundEnd, WorkerRelease, WorkerUnlock,
             WorkerExit, clients
    <3>3. ASSUME NEW t \in Token, WrapperStep(t) \/ PaneAppears(t) \/ HeldEnter(t)
          PROVE  FALSE
      BY <3>3, AttemptsLeaveRest DEF clients
    <3>4. CASE UNCHANGED vars
      BY <3>4 DEF vars, clients
    <3>5. QED
      BY <3>1, <3>2, <3>3, <3>4, NothingDies DEF Next, Environment
  <2>3. ASSUME \E r \in Requests : ClientBegin(c, r)
        PROVE  FALSE
    BY <2>3 DEF ClientBegin
  <2>4. CASE ClientCheckOwner(c)
    BY <2>1, <2>4 DEF ClientCheckOwner
  <2>5. CASE ClientStart(c)
    BY <2>1, <2>5 DEF ClientStart
  <2>6. CASE ClientCreateFails(c) \/ ClientOwn(c)
    BY <2>6 DEF ClientCreateFails, ClientOwn
  <2>7. CASE ClientTimeout(c)
    <3>1. WorkerAlive(cw[c])
      BY <2>7 DEF ClientTimeout, StarterOK, WorkerAlive
    <3>2. Fault
      BY <2>7, <3>1 DEF ClientTimeout
    <3>3. QED
      BY <3>2 DEF Fault, Undisturbed
  <2>8. ASSUME \/ ClientEnqueue(c) \/ ClientWake(c) \/ ClientProbe(c) \/ ClientTryLock(c)
               \/ ClientUnprobe(c) \/ ClientAcknowledged(c) \/ \E w \in Worker : ClientCreate(c, w)
        PROVE  FALSE
    BY <2>8 DEF ClientEnqueue, ClientWake, ClientProbe, ClientTryLock, ClientUnprobe,
       ClientAcknowledged, ClientCreate
  <2>9. ASSUME ClientSettings(c)
        PROVE  FALSE
    <3>1. req[c] \in Request
      BY <2>9, RequestsAssumption DEF ClientSettings, Started
    <3>2. FirstStep(req[c]) # "failed"
      BY <3>1 DEF FirstStep, Request
    <3>3. QED
      BY <2>9, <3>2 DEF ClientSettings
  <2>10. ASSUME \/ ClientKillSnapshot(c) \/ ClientKillRows(c) \/ ClientFence(c)
                \/ ClientKillWorker(c) \/ \E t \in Token : ClientKillPane(c, t)
         PROVE  FALSE
    BY <2>10 DEF ClientKillSnapshot, ClientKillRows, ClientFence, ClientKillWorker, ClientKillPane
  <2>11. QED
    BY <2>2, <2>3, <2>4, <2>5, <2>6, <2>7, <2>8, <2>9, <2>10 DEF ClientStep
<1>2. IInv /\ PanesInv /\ FaultlessOK /\ CalmOK /\ [Next]_vars =>
        [\A c \in Client :
           Undisturbed /\ Undisturbed' /\ cl[c] # "failed" /\ cl'[c] = "failed"
             => ~SessionExists]_vars
  BY <1>1 DEF FaultlessOK, CalmOK, Undisturbed
<1>3. QED
  BY <1>2, CalmInvariance, PTL DEF Spec, FailsOnlyOnVanishedSession

\* The whole inductive invariant of the executor, with the slots of its dispatcher.
THEOREM ExecutorInvariance == Spec => []ExecutorInv
<1>1. IInv /\ SlotsInv /\ PanesInv /\ FaultlessOK /\ CalmOK => ExecutorInv
  BY DEF ExecutorInv, SlotsInv, FaultlessOK, CalmOK
<1>2. QED
  BY <1>1, SlotsInvariance, CalmInvariance, PTL
=============================================================================

----------------------------- MODULE VcvtProofs -----------------------------
(***************************************************************************)
(* Proofs about Vcvt for any number of videos, names, jobs and attempts,   *)
(* and for any number of faults of every kind.                             *)
(***************************************************************************)
EXTENDS Vcvt, TLAPS

(***************************************************************************)
(* Type correctness, one part of the state at a time.                      *)
(***************************************************************************)

\* A started attempt has a job, a source and an output.
LEMMA AttemptHasSource ==
  ASSUME TypeOK, Assigned, NEW a \in Attempt, pc[a] # "idle"
  PROVE  /\ jobOf[a] \in Job
         /\ Source(a) \in Name
         /\ Output(a) \in Out
BY NamesAssumption DEF Assigned, Source, Output

\* A new entry for a source keeps the directories in order if it is a video.
LEMMA SourceEntry ==
  ASSUME FilesOK, NEW d \in Dir, NEW n \in Name, NEW x \in Video \cup {None},
         fs' = [fs EXCEPT ![<<d, n>>] = x], prev' = prev, cvt' = cvt
  PROVE  FilesOK'
BY NamesAssumption DEF FilesOK, Path

\* A new entry for an output keeps them in order if it is an encoded file.
LEMMA OutputEntry ==
  ASSUME FilesOK, NEW d \in Dir, NEW o \in Out, NEW x \in Attempt \cup {None},
         fs' = [fs EXCEPT ![<<d, o>>] = x], prev' = prev,
         cvt' \in [Job -> Attempt \cup {None}]
  PROVE  FilesOK'
BY NamesAssumption DEF FilesOK, Path

\* The directories hold videos under the names of sources, encoded files elsewhere.
LEMMA FilesStep ==
  ASSUME TypeOK, Assigned, Next
  PROVE  FilesOK'
<1> USE DEF TypeOK, Dir, InTodo, InQueue, InDone, Link, Unlink, Proceed
<1>1. CASE UNCHANGED dirs
  BY <1>1 DEF FilesOK, dirs
<1>2. ASSUME NEW v \in Video, Deliver(v)
      PROVE  FilesOK'
  BY <1>2, SourceEntry, NamesAssumption DEF Deliver
<1>3. CASE WatcherLink
  <2>1. wname \in Name /\ fs[InTodo(wname)] \in Video \cup {None}
    BY <1>3 DEF WatcherLink, WatcherOK, FilesOK
  <2> QED
    BY <1>3, <2>1, SourceEntry DEF WatcherLink, FilesOK
<1>4. CASE WatcherUnlink
  <2>1. wname \in Name
    BY <1>4 DEF WatcherUnlink, WatcherOK
  <2> QED
    BY <1>4, <2>1, SourceEntry DEF WatcherUnlink
<1>5. ASSUME NEW a \in Attempt, Convert(a) \/ EncoderOpens(a)
      PROVE  FilesOK'
  <2>1. CASE EncoderOpens(a)
    BY <1>5, <2>1 DEF EncoderOpens, FilesOK
  <2>2. CASE Convert(a)
    <3>1. pc[a] # "idle"
      BY <2>2 DEF Convert, Collect, OutputLock, Stat, Validate, Backup, Replace, ArchiveCheck,
        LinkSource, UnlinkSource, LinkOutput, UnlinkOutput, Restore, Unrestore, Finish
    <3>2. /\ jobOf[a] \in Job
          /\ Source(a) \in Name
          /\ Output(a) \in Out
      BY <3>1, AttemptHasSource
    <3>3. /\ \A d \in Dir : fs[<<d, Source(a)>>] \in Video \cup {None}
          /\ \A d \in Dir : fs[<<d, Output(a)>>] \in Attempt \cup {None}
      BY <3>2 DEF FilesOK
    <3>4. CASE Collect(a) \/ OutputLock(a) \/ Stat(a) \/ Validate(a) \/ ArchiveCheck(a) \/ Finish(a)
      BY <3>4 DEF Collect, OutputLock, Stat, Validate, ArchiveCheck, Finish, dirs, FilesOK
    <3>5. CASE Backup(a)
      <4>1. CASE Exists(InQueue(Output(a)))
        <5>1. fs[InQueue(Output(a))] \in Attempt /\ prev[Output(a)] \in Seq(Attempt)
          BY <3>2, <3>3, <4>1 DEF Exists, FilesOK
        <5>2. Append(prev[Output(a)], fs[InQueue(Output(a))]) \in Seq(Attempt)
          BY <5>1
        <5> QED
          BY <3>2, <3>5, <4>1, <5>2 DEF Backup, FilesOK
      <4>2. CASE ~Exists(InQueue(Output(a)))
        BY <3>5, <4>2 DEF Backup, FilesOK
      <4> QED
        BY <4>1, <4>2
    <3>6. CASE Replace(a)
      BY <3>2, <3>6, OutputEntry DEF Replace, FilesOK
    <3>7. CASE LinkSource(a)
      BY <3>2, <3>3, <3>7, SourceEntry DEF LinkSource, FilesOK
    <3>8. CASE UnlinkSource(a)
      BY <3>2, <3>8, SourceEntry DEF UnlinkSource
    <3>9. CASE LinkOutput(a)
      BY <3>2, <3>3, <3>9, OutputEntry DEF LinkOutput, FilesOK
    <3>10. CASE UnlinkOutput(a)
      BY <3>2, <3>10, OutputEntry DEF UnlinkOutput, FilesOK
    <3>11. CASE Restore(a)
      BY <3>2, <3>3, <3>11, SourceEntry DEF Restore, FilesOK
    <3>12. CASE Unrestore(a)
      BY <3>2, <3>12, SourceEntry DEF Unrestore
    <3> QED
      BY <2>2, <3>4, <3>5, <3>6, <3>7, <3>8, <3>9, <3>10, <3>11, <3>12 DEF Convert
  <2> QED
    BY <1>5, <2>1, <2>2
<1>6. ASSUME NEW v \in Video, Rewrite(v)
      PROVE  UNCHANGED dirs
  BY <1>6 DEF Rewrite
<1>7. CASE WatcherCrash \/ \E j \in Job : Execute(j)
  BY <1>1, <1>7 DEF WatcherCrash, Execute, Record, Release, Requeue, Lose, Start
<1>8. CASE Watch /\ ~WatcherLink /\ ~WatcherUnlink
  BY <1>1, <1>8 DEF Watch, WatcherStart, WatcherScan, WatcherBacklog, WatcherSubmit, WatcherTake
<1>9. ASSUME NEW a \in Attempt, EncoderEnds(a) \/ Reap(a) \/ Interrupt(a) \/ Kill(a)
      PROVE  UNCHANGED dirs
  BY <1>9 DEF EncoderEnds, Reap, Interrupt, Kill
<1> QED
  BY <1>1, <1>2, <1>3, <1>4, <1>5, <1>6, <1>7, <1>8, <1>9 DEF Next, Encoder, Watch

\* What the executor does, it does to its jobs.
LEMMA JobsStep ==
  ASSUME TypeOK, Assigned, Next
  PROVE  JobsOK'
<1> USE DEF TypeOK, JobsOK, Q!TypeOK
<1>1. CASE UNCHANGED jobs
  BY <1>1 DEF jobs, queue
<1>2. ASSUME NEW names \in SUBSET Name, Submit(names)
      PROVE  JobsOK'
  <2>1. PICK J \in SUBSET Job : \E f \in Bijection(J, {n \in names : ~Pending(n)}) :
          /\ Q!Submit(J)
          /\ argv' = [j \in Job |-> IF j \in J THEN f[j] ELSE argv[j]]
          /\ UNCHANGED held
    BY <1>2 DEF Submit
  <2>2. PICK f \in Bijection(J, {n \in names : ~Pending(n)}) :
          /\ Q!Submit(J)
          /\ argv' = [j \in Job |-> IF j \in J THEN f[j] ELSE argv[j]]
          /\ UNCHANGED held
    BY <2>1
  <2>3. \A j \in J : f[j] \in Name
    BY <2>2 DEF Bijection, Injection
  <2> QED
    BY <2>2, <2>3 DEF Q!Submit
<1>3. ASSUME NEW a \in Attempt, NEW r \in {"ok", "fail"}, Q!Return(a, r), UNCHANGED <<argv, held>>
      PROVE  JobsOK'
  BY <1>3 DEF Q!Return
<1>4. ASSUME NEW j \in Job, Execute(j)
      PROVE  JobsOK'
  <2>1. CASE Record(j)
    <3>1. attempt[j] \in Attempt
      BY <2>1 DEF Record, Q!Record, Assigned
    <3>2. result[attempt[j]] \in {"ok", "fail"}
      BY <2>1, <3>1 DEF Record, Q!Record
    <3> QED
      BY <2>1, <3>2 DEF Record, Q!Record
  <2>2. CASE Release(j)
    BY <2>2 DEF Release, queue
  <2>3. CASE Requeue(j)
    BY <2>3 DEF Requeue, Q!Requeue
  <2>4. CASE Lose(j)
    BY <2>4 DEF Lose, Q!Lose
  <2>5. ASSUME NEW a \in Attempt, Start(j, a)
        PROVE  JobsOK'
    BY <2>5 DEF Start, Q!Start
  <2> QED
    BY <1>4, <2>1, <2>2, <2>3, <2>4, <2>5 DEF Execute
<1>5. ASSUME NEW a \in Attempt, Convert(a) \/ Interrupt(a)
      PROVE  JobsOK'
  <2>1. UNCHANGED <<argv, held>>
    BY <1>5 DEF Convert, Collect, OutputLock, Stat, Validate, Backup, Replace, ArchiveCheck,
      LinkSource, UnlinkSource, LinkOutput, UnlinkOutput, Restore, Unrestore, Finish, Interrupt, jobs
  <2>2. UNCHANGED queue \/ \E r \in {"ok", "fail"} : Q!Return(a, r)
    BY <1>5 DEF Convert, Collect, OutputLock, Stat, Validate, Backup, Replace, ArchiveCheck,
      LinkSource, UnlinkSource, LinkOutput, UnlinkOutput, Restore, Unrestore, Finish, Interrupt,
      Proceed, Return, jobs
  <2> QED
    BY <1>1, <1>3, <2>1, <2>2 DEF jobs
<1>6. ASSUME NEW a \in Attempt, Encoder(a) \/ Kill(a) \/ Reap(a)
      PROVE  JobsOK'
  BY <1>1, <1>3, <1>6 DEF Encoder, EncoderOpens, EncoderEnds, Kill, Reap
<1>7. CASE WatcherBacklog
  BY <1>2, <1>7 DEF WatcherBacklog, WatcherOK
<1>8. CASE WatcherSubmit
  BY <1>2, <1>8 DEF WatcherSubmit, WatcherOK
<1>9. CASE (Watch /\ ~WatcherBacklog /\ ~WatcherSubmit) \/ WatcherCrash
  BY <1>1, <1>9 DEF Watch, WatcherStart, WatcherScan, WatcherLink, WatcherUnlink, WatcherTake,
    WatcherCrash
<1>10. ASSUME NEW v \in Video, Deliver(v) \/ Rewrite(v)
       PROVE  JobsOK'
  BY <1>1, <1>10 DEF Deliver, Rewrite
<1> QED
  BY <1>4, <1>5, <1>6, <1>7, <1>8, <1>9, <1>10 DEF Next

\* Program positions, encoders and locks.
LEMMA AttemptsStep ==
  ASSUME TypeOK, Assigned, Next
  PROVE  AttemptsOK'
<1> USE DEF TypeOK, AttemptsOK, PC, EncState, Dir, InQueue
<1>1. CASE UNCHANGED attempts
  BY <1>1 DEF attempts, encoding
<1>2. ASSUME NEW a \in Attempt, Convert(a)
      PROVE  AttemptsOK'
  <2>1. pc[a] # "idle"
    BY <1>2 DEF Convert, Collect, OutputLock, Stat, Validate, Backup, Replace, ArchiveCheck,
      LinkSource, UnlinkSource, LinkOutput, UnlinkOutput, Restore, Unrestore, Finish
  <2>2. /\ jobOf[a] \in Job
        /\ Source(a) \in Name
        /\ Output(a) \in Out
    BY <2>1, AttemptHasSource
  <2>3. CASE Stat(a)
    <3>1. fs[InQueue(Source(a))] \in Video \cup {None}
      BY <2>2 DEF FilesOK
    <3> QED
      BY <2>3, <3>1 DEF Stat, Proceed, Return, Goto, Unlock, encoding
  <2>4. CASE OutputLock(a)
    BY <2>2, <2>4 DEF OutputLock, Goto, encoding
  <2>5. CASE Convert(a) /\ ~Stat(a) /\ ~OutputLock(a)
    BY <2>2, <2>5 DEF Convert, Collect, Validate, Backup, Replace, ArchiveCheck, LinkSource,
      UnlinkSource, LinkOutput, UnlinkOutput, Restore, Unrestore, Finish, Proceed, Return, Goto,
      Unlock, encoding
  <2> QED
    BY <1>2, <2>3, <2>4, <2>5
<1>3. ASSUME NEW a \in Attempt, Encoder(a) \/ Kill(a) \/ Reap(a) \/ Interrupt(a)
      PROVE  AttemptsOK'
  BY <1>3 DEF Encoder, EncoderOpens, EncoderEnds, Kill, Reap, Interrupt, Proceed, Return, Goto,
    Unlock, encoding
<1>4. ASSUME NEW j \in Job, Execute(j)
      PROVE  AttemptsOK'
  BY <1>1, <1>4 DEF Execute, Record, Release, Requeue, Lose, Start, encoding
<1>5. ASSUME NEW v \in Video, Deliver(v) \/ Rewrite(v)
      PROVE  AttemptsOK'
  BY <1>1, <1>5 DEF Deliver, Rewrite
<1>6. CASE Watch \/ WatcherCrash
  BY <1>1, <1>6 DEF Watch, WatcherStart, WatcherScan, WatcherBacklog, WatcherSubmit,
    WatcherLink, WatcherUnlink, WatcherTake, WatcherCrash
<1> QED
  BY <1>2, <1>3, <1>4, <1>5, <1>6 DEF Next

\* The watcher, the producers and the number of faults.
LEMMA WatcherStep ==
  ASSUME TypeOK, Next
  PROVE  /\ WatcherOK'
         /\ (delivered \subseteq Video)'
         /\ (ver \in [Video -> Nat])'
         /\ (faults \in 0..MaxFaults)'
<1> USE BoundsAssumption, NamesAssumption DEF TypeOK, WatcherOK, WatcherPC
<1>1. CASE Watch
  BY <1>1 DEF Watch, WatcherStart, WatcherScan, WatcherBacklog, WatcherSubmit, WatcherLink,
    WatcherUnlink, WatcherTake, WatcherDies, media
<1>2. CASE WatcherCrash
  BY <1>2 DEF WatcherCrash, WatcherDies, Fault, media
<1>3. ASSUME NEW v \in Video, Deliver(v) \/ Rewrite(v)
      PROVE  /\ WatcherOK'
             /\ (delivered \subseteq Video)'
             /\ (ver \in [Video -> Nat])'
             /\ (faults \in 0..MaxFaults)'
  BY <1>3 DEF Deliver, Rewrite, Hear, Fault
<1>4. ASSUME NEW a \in Attempt, Convert(a)
      PROVE  UNCHANGED <<watcher, media, faults>>
  BY <1>4 DEF Convert, Collect, OutputLock, Stat, Validate, Backup, Replace, ArchiveCheck,
    LinkSource, UnlinkSource, LinkOutput, UnlinkOutput, Restore, Unrestore, Finish
<1>5. ASSUME NEW a \in Attempt, Encoder(a) \/ Kill(a) \/ Reap(a) \/ Interrupt(a)
      PROVE  UNCHANGED <<watcher, media>> /\ (faults \in 0..MaxFaults)'
  BY <1>5 DEF Encoder, EncoderOpens, EncoderEnds, Kill, Reap, Interrupt, Fault
<1>6. ASSUME NEW j \in Job, Execute(j)
      PROVE  UNCHANGED <<watcher, media>> /\ (faults \in 0..MaxFaults)'
  BY <1>6 DEF Execute, Record, Release, Requeue, Lose, Start, Fault
<1> QED
  BY <1>1, <1>2, <1>3, <1>4, <1>5, <1>6 DEF Next, watcher, media

\* Every part of the state keeps its type.
LEMMA TypeStep ==
  ASSUME TypeOK, Assigned, [Next]_vars
  PROVE  TypeOK'
<1>1. CASE Next
  BY <1>1, FilesStep, JobsStep, AttemptsStep, WatcherStep DEF TypeOK
<1>2. CASE UNCHANGED vars
  BY <1>2 DEF vars, dirs, media, jobs, queue, attempts, encoding, watcher, TypeOK, FilesOK,
    JobsOK, Q!TypeOK, AttemptsOK, WatcherOK
<1> QED
  BY <1>1, <1>2

-----------------------------------------------------------------------------
(***************************************************************************)
(* Jobs and attempts: a step may hand out jobs, start, give up or end an   *)
(* attempt, but never takes a source from a job or a job from an attempt.  *)
(***************************************************************************)

\* The operations of the queue keep running jobs attempted and handed-out jobs sourced.
LEMMA AssignedStep ==
  ASSUME TypeOK, Assigned, [Next]_vars
  PROVE  /\ Assigned'
         /\ \A a \in Attempt : pc[a] # "idle" => /\ pc'[a] # "idle"
                                                /\ jobOf'[a] = jobOf[a]
                                                /\ argv'[jobOf[a]] = argv[jobOf[a]]
<1> USE DEF TypeOK, JobsOK, AttemptsOK, Q!TypeOK, Assigned
<1> DEFINE Kept == /\ Assigned'
                   /\ \A a \in Attempt : pc[a] # "idle" =>
                        /\ pc'[a] # "idle"
                        /\ jobOf'[a] = jobOf[a]
                        /\ argv'[jobOf[a]] = argv[jobOf[a]]
<1>1. CASE UNCHANGED <<jobs, pc, jobOf>>
  BY <1>1 DEF jobs, queue
<1>2. ASSUME NEW names \in SUBSET Name, Submit(names), UNCHANGED attempts
      PROVE  Kept
  <2>1. PICK J \in SUBSET Job : \E f \in Bijection(J, {n \in names : ~Pending(n)}) :
          /\ Q!Submit(J)
          /\ argv' = [j \in Job |-> IF j \in J THEN f[j] ELSE argv[j]]
    BY <1>2 DEF Submit
  <2>2. PICK f \in Bijection(J, {n \in names : ~Pending(n)}) :
          /\ Q!Submit(J)
          /\ argv' = [j \in Job |-> IF j \in J THEN f[j] ELSE argv[j]]
    BY <2>1
  <2>3. \A j \in J : f[j] \in Name
    BY <2>2 DEF Bijection, Injection
  <2> QED
    BY <1>2, <2>2, <2>3 DEF Q!Submit, attempts
<1>3. ASSUME NEW a \in Attempt, NEW r, Q!Return(a, r), UNCHANGED <<argv, held, jobOf>>,
             pc[a] # "idle", Goto(a, "ended")
      PROVE  Kept
  BY <1>3 DEF Q!Return, Goto
<1>4. ASSUME NEW a \in Attempt, NEW label \in PC \ {"idle"}, UNCHANGED <<jobs, jobOf>>,
             pc[a] # "idle", Goto(a, label)
      PROVE  Kept
  BY <1>4 DEF jobs, queue, Goto
<1>5. ASSUME NEW j \in Job, Execute(j)
      PROVE  Kept
  <2>1. CASE Record(j)
    BY <2>1 DEF Record, Q!Record, attempts
  <2>2. CASE Release(j)
    BY <2>2 DEF Release, queue, attempts
  <2>3. CASE Requeue(j)
    BY <2>3 DEF Requeue, Q!Requeue, attempts
  <2>4. CASE Lose(j)
    BY <2>4 DEF Lose, Q!Lose, attempts
  <2>5. ASSUME NEW a \in Attempt, Start(j, a)
        PROVE  Kept
    <3>1. pc[a] = "idle"
      BY <2>5 DEF Start, Q!Start
    <3> QED
      BY <2>5, <3>1 DEF Start, Q!Start
  <2> QED
    BY <1>5, <2>1, <2>2, <2>3, <2>4, <2>5 DEF Execute
<1>6. ASSUME NEW a \in Attempt, Convert(a) \/ Interrupt(a)
      PROVE  Kept
  <2>1. /\ UNCHANGED <<argv, held, jobOf>>
        /\ pc[a] # "idle"
    BY <1>6 DEF Convert, Collect, OutputLock, Stat, Validate, Backup, Replace, ArchiveCheck,
      LinkSource, UnlinkSource, LinkOutput, UnlinkOutput, Restore, Unrestore, Finish, Interrupt, jobs,
      Over
  <2>2. \/ UNCHANGED queue /\ \E label \in PC \ {"idle"} : Goto(a, label)
        \/ Goto(a, "ended") /\ \E r \in {"ok", "fail"} : Q!Return(a, r)
    BY <1>6 DEF Convert, Collect, OutputLock, Stat, Validate, Backup, Replace, ArchiveCheck,
      LinkSource, UnlinkSource, LinkOutput, UnlinkOutput, Restore, Unrestore, Finish, Interrupt,
      Proceed, Return, PC, jobs
  <2> QED
    BY <1>3, <1>4, <2>1, <2>2 DEF jobs
<1>7. ASSUME NEW a \in Attempt, Kill(a)
      PROVE  Kept
  BY <1>4, <1>7 DEF Kill, PC, Over
<1>8. ASSUME NEW a \in Attempt, Reap(a)
      PROVE  Kept
  BY <1>3, <1>8 DEF Reap, Goto
<1>9. ASSUME NEW a \in Attempt, Encoder(a)
      PROVE  UNCHANGED <<jobs, pc, jobOf>>
  BY <1>9 DEF Encoder, EncoderOpens, EncoderEnds
<1>10. CASE WatcherBacklog \/ WatcherSubmit
  BY <1>2, <1>10 DEF WatcherBacklog, WatcherSubmit, WatcherOK
<1>11. CASE (Watch /\ ~WatcherBacklog /\ ~WatcherSubmit) \/ WatcherCrash
  BY <1>1, <1>11 DEF Watch, WatcherStart, WatcherScan, WatcherLink, WatcherUnlink, WatcherTake,
    WatcherCrash, attempts
<1>12. ASSUME NEW v \in Video, Deliver(v) \/ Rewrite(v)
       PROVE  UNCHANGED <<jobs, pc, jobOf>>
  BY <1>12 DEF Deliver, Rewrite, attempts
<1>13. CASE UNCHANGED vars
  BY <1>1, <1>13 DEF vars, attempts
<1> QED
  BY <1>1, <1>5, <1>6, <1>7, <1>8, <1>9, <1>10, <1>11, <1>12, <1>13 DEF Next

-----------------------------------------------------------------------------
(***************************************************************************)
(* Who changes what.                                                       *)
(***************************************************************************)
\* A started attempt keeps its source, its output and its job.
LEMMA Kept ==
  ASSUME TypeOK, Assigned, [Next]_vars, NEW a \in Attempt, pc[a] # "idle"
  PROVE  /\ jobOf'[a] = jobOf[a]
         /\ Source(a)' = Source(a)
         /\ Output(a)' = Output(a)
         /\ pc'[a] # "idle"
BY AssignedStep DEF Source, Output

\* The position of an attempt is changed by its own steps, its start and its end only.
LEMMA OwnPosition ==
  ASSUME TypeOK, [Next]_vars, NEW a \in Attempt, pc'[a] # pc[a]
  PROVE  \/ Convert(a) \/ Reap(a) \/ Interrupt(a) \/ Kill(a)
         \/ \E j \in Job : Start(j, a)
<1> USE DEF TypeOK, AttemptsOK
<1>1. ASSUME NEW b \in Attempt, Convert(b) \/ Reap(b) \/ Interrupt(b) \/ Kill(b)
      PROVE  b = a
  <2>1. \E label : pc' = [pc EXCEPT ![b] = label]
    BY <1>1 DEF Convert, Collect, OutputLock, Stat, Validate, Backup, Replace, ArchiveCheck,
      LinkSource, UnlinkSource, LinkOutput, UnlinkOutput, Restore, Unrestore, Finish, Reap, Interrupt,
      Kill, Proceed, Return, Goto
  <2> QED
    BY <2>1
<1>2. ASSUME NEW j \in Job, NEW b \in Attempt, Start(j, b)
      PROVE  b = a
  BY <1>2 DEF Start
<1>3. ASSUME NEW b \in Attempt, Encoder(b)
      PROVE  FALSE
  BY <1>3 DEF Encoder, EncoderOpens, EncoderEnds
<1>4. ASSUME NEW j \in Job, Record(j) \/ Release(j) \/ Requeue(j) \/ Lose(j)
      PROVE  FALSE
  BY <1>4 DEF Record, Release, Requeue, Lose, attempts
<1>5. ~Watch /\ ~WatcherCrash
  BY DEF Watch, WatcherStart, WatcherScan, WatcherBacklog, WatcherSubmit,
    WatcherLink, WatcherUnlink, WatcherTake, WatcherCrash, attempts
<1>6. ASSUME NEW v \in Video, Deliver(v) \/ Rewrite(v)
      PROVE  FALSE
  BY <1>6 DEF Deliver, Rewrite, attempts
<1>7. ~UNCHANGED vars
  BY DEF vars, attempts
<1> QED
  BY <1>1, <1>2, <1>3, <1>4, <1>5, <1>6, <1>7 DEF Next, Execute

\* A lock is taken when it is free, and given up by its holder.
LEMMA LockMoves ==
  ASSUME TypeOK, [Next]_vars, NEW o \in Out, NEW a \in Attempt, lock[o] = a, lock'[o] # a
  PROVE  pc'[a] \in {"ended", "killed"}
<1> USE InodesAssumption DEF TypeOK, AttemptsOK, Over
<1>1. ASSUME NEW b \in Attempt, Convert(b) \/ Interrupt(b) \/ Kill(b)
      PROVE  pc'[a] \in {"ended", "killed"}
  <2>1. \/ UNCHANGED lock
        \/ lock[Output(b)] = None /\ lock' = [lock EXCEPT ![Output(b)] = b]
        \/ Unlock(b) /\ (Goto(b, "ended") \/ Goto(b, "killed"))
    BY <1>1 DEF Convert, Collect, OutputLock, Stat, Validate, Backup, Replace, ArchiveCheck,
      LinkSource, UnlinkSource, LinkOutput, UnlinkOutput, Restore, Unrestore, Finish, Interrupt,
      Kill, Proceed, Return
  <2> QED
    BY <2>1 DEF Unlock, Goto
<1>2. ASSUME NEW b \in Attempt, Encoder(b) \/ Reap(b)
      PROVE  UNCHANGED lock
  BY <1>2 DEF Encoder, EncoderOpens, EncoderEnds, Reap
<1>3. ASSUME NEW j \in Job, Execute(j)
      PROVE  UNCHANGED lock
  BY <1>3 DEF Execute, Record, Release, Requeue, Lose, Start, attempts
<1>4. Watch \/ WatcherCrash => UNCHANGED lock
  BY DEF Watch, WatcherStart, WatcherScan, WatcherBacklog, WatcherSubmit,
    WatcherLink, WatcherUnlink, WatcherTake, WatcherCrash, attempts
<1>5. ASSUME NEW v \in Video, Deliver(v) \/ Rewrite(v)
      PROVE  UNCHANGED lock
  BY <1>5 DEF Deliver, Rewrite, attempts
<1> QED
  BY <1>1, <1>2, <1>3, <1>4, <1>5 DEF Next, vars, attempts

\* From the check of the source to the end of the archiving, the output is locked.
LEMMA LockedStep ==
  ASSUME TypeOK, Assigned, Locked, [Next]_vars
  PROVE  Locked'
<1> SUFFICES ASSUME NEW a \in Attempt, pc'[a] \in Critical
             PROVE  lock'[Output(a)'] = a
  BY DEF Locked, Critical
<1> USE DEF Critical, PC, Over
<1>1. CASE pc[a] \in Critical
  <2>1. lock[Output(a)] = a /\ Output(a) \in Out /\ Output(a)' = Output(a)
    BY <1>1, Kept, AttemptHasSource DEF Locked
  <2> QED
    BY <2>1, LockMoves
<1>2. CASE pc[a] \notin Critical
  <2>1. pc[a] \in {"idle", "collect", "lock", "ended", "killed"}
    BY <1>2 DEF TypeOK, AttemptsOK
  <2>2. Convert(a)
    BY <1>2, <2>1, OwnPosition DEF Reap, Interrupt, Kill, Start, Return, Goto, TypeOK, AttemptsOK
  <2>3. OutputLock(a)
    BY <2>1, <2>2 DEF Convert, Collect, Stat, Validate, Backup, Replace, ArchiveCheck,
      LinkSource, UnlinkSource, LinkOutput, UnlinkOutput, Restore, Unrestore, Finish, Proceed, Return,
      Goto, TypeOK, AttemptsOK
  <2>4. Output(a) \in Out /\ Output(a)' = Output(a)
    BY <2>3, Kept, AttemptHasSource DEF OutputLock
  <2> QED
    BY <2>3, <2>4 DEF OutputLock, TypeOK, AttemptsOK
<1> QED
  BY <1>1, <1>2

\* Two attempts at work on one output are one attempt.
LEMMA Exclusive ==
  ASSUME Locked, NEW a \in Attempt, NEW b \in Attempt,
         pc[a] \in Critical, pc[b] \in Critical, Output(a) = Output(b)
  PROVE  a = b
BY DEF Locked

\* Which entry a conversion writes, and when.
ConversionWrites(b) ==
  \/ UNCHANGED fs
  \/ /\ pc[b] \in Critical
     /\ \E x : \E p \in {InQueue(Source(b)), InDone(Source(b)), InQueue(Output(b)), InDone(Output(b))} :
          fs' = [fs EXCEPT ![p] = x]

\* A conversion writes nothing but the entries of its own source and output, under the lock.
LEMMA WritesOwnEntries ==
  ASSUME NEW b \in Attempt, Convert(b)
  PROVE  ConversionWrites(b)
<1> USE DEF ConversionWrites, Critical, PC, Over, Link, Unlink
<1>1. CASE Collect(b) \/ OutputLock(b) \/ Stat(b) \/ Validate(b) \/ Backup(b) \/ ArchiveCheck(b) \/ Finish(b)
  BY <1>1 DEF Collect, OutputLock, Stat, Validate, Backup, ArchiveCheck, Finish, dirs
<1>2. CASE Replace(b)
  BY <1>2 DEF Replace
<1>3. CASE LinkSource(b)
  BY <1>3 DEF LinkSource
<1>4. CASE UnlinkSource(b)
  BY <1>4 DEF UnlinkSource
<1>5. CASE LinkOutput(b)
  BY <1>5 DEF LinkOutput
<1>6. CASE UnlinkOutput(b)
  BY <1>6 DEF UnlinkOutput
<1>7. CASE Restore(b)
  BY <1>7 DEF Restore
<1>8. CASE Unrestore(b)
  BY <1>8 DEF Unrestore
<1> QED
  BY <1>1, <1>2, <1>3, <1>4, <1>5, <1>6, <1>7, <1>8 DEF Convert

\* Apart from conversions, entries are made by deliveries and moved by the watcher.
LEMMA OtherWriters ==
  ASSUME [Next]_vars, \A b \in Attempt : ~Convert(b)
  PROVE  \/ UNCHANGED fs
         \/ \E v \in Video : Deliver(v)
         \/ WatcherLink
         \/ WatcherUnlink
<1>1. ASSUME NEW v \in Video, Rewrite(v)
      PROVE  UNCHANGED fs
  BY <1>1 DEF Rewrite, dirs
<1>2. ASSUME NEW b \in Attempt, Encoder(b) \/ Reap(b) \/ Interrupt(b) \/ Kill(b)
      PROVE  UNCHANGED fs
  BY <1>2 DEF Encoder, EncoderOpens, EncoderEnds, Reap, Interrupt, Kill, dirs
<1>3. ASSUME NEW j \in Job, Execute(j)
      PROVE  UNCHANGED fs
  BY <1>3 DEF Execute, Record, Release, Requeue, Lose, Start, dirs
<1>4. ASSUME Watch \/ WatcherCrash, ~WatcherLink, ~WatcherUnlink
      PROVE  UNCHANGED fs
  BY <1>4 DEF Watch, WatcherStart, WatcherScan, WatcherBacklog, WatcherSubmit, WatcherTake,
    WatcherCrash, dirs
<1> QED
  BY <1>1, <1>2, <1>3, <1>4 DEF Next, vars, dirs

\* While a conversion has the lock, nobody else touches its output, its archive entries or
\* the source it found in queue/.
LEMMA Undisturbed ==
  ASSUME TypeOK, Assigned, Locked, [Next]_vars, NEW a \in Attempt, pc[a] \in Critical, ~Convert(a)
  PROVE  /\ fs'[InQueue(Output(a))] = fs[InQueue(Output(a))]
         /\ fs'[InDone(Output(a))] = fs[InDone(Output(a))]
         /\ fs'[InDone(Source(a))] = fs[InDone(Source(a))]
         /\ Exists(InQueue(Source(a))) => fs'[InQueue(Source(a))] = fs[InQueue(Source(a))]
<1> DEFINE S == Source(a)
           O == Output(a)
           Same == /\ fs'[InQueue(O)] = fs[InQueue(O)]
                   /\ fs'[InDone(O)] = fs[InDone(O)]
                   /\ fs'[InDone(S)] = fs[InDone(S)]
                   /\ Exists(InQueue(S)) => fs'[InQueue(S)] = fs[InQueue(S)]
<1>1. S \in Name /\ O \in Out /\ O = OutOf[S] /\ S # O
  BY AttemptHasSource, NamesAssumption DEF Critical, Over, Output
<1>2. fs \in [Path -> Video \cup Attempt \cup {None}]
  BY DEF TypeOK, FilesOK
<1>3. ASSUME NEW b \in Attempt, Convert(b)
      PROVE  Same
  <2>1. CASE UNCHANGED fs
    BY <2>1
  <2>2. CASE ~UNCHANGED fs
    <3>1. pc[b] \in Critical
      BY <1>3, <2>2, WritesOwnEntries DEF ConversionWrites
    <3>2. Output(b) # O
      BY <1>3, <3>1, Exclusive
    <3>3. Source(b) \in Name /\ Output(b) \in Out /\ Source(b) # S
      BY <3>1, <3>2, <1>1, AttemptHasSource DEF Critical, Over, Output
    <3>4. PICK p \in {InQueue(Source(b)), InDone(Source(b)), InQueue(Output(b)), InDone(Output(b))} :
            \E x : fs' = [fs EXCEPT ![p] = x]
      BY <1>3, <2>2, WritesOwnEntries DEF ConversionWrites
    <3>5. Source(b) # O /\ Output(b) # S
      BY <1>1, <3>3, NamesAssumption
    <3>6. p \notin {InQueue(O), InDone(O), InQueue(S), InDone(S)}
      <4> HIDE DEF S, O
      <4> QED
        BY <3>2, <3>3, <3>4, <3>5 DEF InTodo, InQueue, InDone
    <3> QED
      BY <1>2, <3>4, <3>6
  <2> QED
    BY <2>1, <2>2
<1>4. ASSUME NEW v \in Video, Deliver(v)
      PROVE  Same
  <2>1. \A n : InTodo(n) \notin {InQueue(O), InDone(O), InQueue(S), InDone(S)}
    BY DEF InTodo, InQueue, InDone
  <2> QED
    BY <1>2, <1>4, <2>1 DEF Deliver
<1>5. CASE WatcherLink
  <2>1. CASE UNCHANGED fs
    BY <2>1
  <2>2. CASE fs' = [fs EXCEPT ![InQueue(wname)] = fs[InTodo(wname)]] /\ ~Exists(InQueue(wname))
    <3>1. wname \in Name
      BY <1>5 DEF WatcherLink, TypeOK, WatcherOK
    <3>2. wname # O
      BY <1>1, <3>1, NamesAssumption
    <3>3. InQueue(wname) \notin {InQueue(O), InDone(O), InDone(S)}
      <4> HIDE DEF S, O
      <4> QED
        BY <3>2 DEF InTodo, InQueue, InDone
    <3>4. Exists(InQueue(S)) => InQueue(wname) # InQueue(S)
      BY <2>2 DEF Exists
    <3> QED
      BY <1>2, <2>2, <3>3, <3>4
  <2> QED
    BY <1>5, <2>1, <2>2 DEF WatcherLink, Link
<1>6. CASE WatcherUnlink
  <2>1. InTodo(wname) \notin {InQueue(O), InDone(O), InQueue(S), InDone(S)}
    BY DEF InTodo, InQueue, InDone
  <2> QED
    BY <1>2, <1>6, <2>1 DEF WatcherUnlink, Unlink
<1>7. CASE UNCHANGED fs
  BY <1>7
<1> QED
  BY <1>3, <1>4, <1>5, <1>6, <1>7, OtherWriters

\* The same for backups and for the marker of the attempt.
LEMMA OwnMarker ==
  ASSUME TypeOK, Assigned, Locked, [Next]_vars, NEW a \in Attempt, pc[a] \in Critical, ~Convert(a)
  PROVE  /\ prev'[Output(a)] = prev[Output(a)]
         /\ cvt[jobOf[a]] = a => cvt'[jobOf[a]] = a
<1> DEFINE Same == /\ prev'[Output(a)] = prev[Output(a)]
                   /\ cvt[jobOf[a]] = a => cvt'[jobOf[a]] = a
<1>1. jobOf[a] \in Job /\ Output(a) \in Out
  BY AttemptHasSource DEF Critical, Over
<1>2. prev \in [Out -> Seq(Attempt)] /\ cvt \in [Job -> Attempt \cup {None}]
  BY DEF TypeOK, FilesOK
<1>3. UNCHANGED <<prev, cvt>> => Same
  OBVIOUS
<1>4. ASSUME NEW b \in Attempt, Backup(b) \/ Replace(b)
      PROVE  Same
  <2>1. b # a /\ pc[b] \in Critical
    BY <1>4 DEF Convert, Backup, Replace, Critical, PC, Over
  <2>2. Output(b) # Output(a)
    BY <2>1, Exclusive
  <2>3. jobOf[b] # jobOf[a]
    BY <2>2 DEF Output, Source
  <2> QED
    BY <1>1, <1>2, <1>4, <2>2, <2>3 DEF Backup, Replace
<1>5. ASSUME NEW b \in Attempt, Convert(b), ~Backup(b), ~Replace(b)
      PROVE  UNCHANGED <<prev, cvt>>
  BY <1>5 DEF Convert, Collect, OutputLock, Stat, Validate, ArchiveCheck, LinkSource,
    UnlinkSource, LinkOutput, UnlinkOutput, Restore, Unrestore, Finish, dirs
<1>6. ASSUME NEW b \in Attempt, EncoderOpens(b)
      PROVE  Same
  BY <1>1, <1>2, <1>6, InodesAssumption DEF EncoderOpens
<1>7. ASSUME NEW b \in Attempt, EncoderEnds(b) \/ Reap(b) \/ Interrupt(b) \/ Kill(b)
      PROVE  UNCHANGED <<prev, cvt>>
  BY <1>7 DEF EncoderEnds, Reap, Interrupt, Kill, dirs
<1>8. ASSUME NEW j \in Job, Execute(j)
      PROVE  UNCHANGED <<prev, cvt>>
  BY <1>8 DEF Execute, Record, Release, Requeue, Lose, Start, dirs
<1>9. Watch \/ WatcherCrash => UNCHANGED <<prev, cvt>>
  BY DEF Watch, WatcherStart, WatcherScan, WatcherBacklog, WatcherSubmit, WatcherLink,
    WatcherUnlink, WatcherTake, WatcherCrash, dirs
<1>10. ASSUME NEW v \in Video, Deliver(v) \/ Rewrite(v)
       PROVE  UNCHANGED <<prev, cvt>>
  BY <1>10 DEF Deliver, Rewrite, dirs
<1> QED
  BY <1>3, <1>4, <1>5, <1>6, <1>7, <1>8, <1>9, <1>10 DEF Next, Encoder, vars, dirs

-----------------------------------------------------------------------------
(***************************************************************************)
(* Encoding: the marker that is published is whole and of its source.      *)
(***************************************************************************)

\* An encoder only moves on when the attempt starts it, by itself, or when it is interrupted.
LEMMA EncoderMoves ==
  ASSUME TypeOK, [Next]_vars, NEW a \in Attempt, enc'[a] # enc[a]
  PROVE  Stat(a) \/ Encoder(a) \/ Interrupt(a)
<1> USE DEF TypeOK, AttemptsOK
<1>1. ASSUME NEW b \in Attempt, Convert(b)
      PROVE  Stat(a)
  <2>1. CASE Stat(b)
    BY <2>1 DEF Stat, encoding
  <2>2. CASE ~Stat(b)
    BY <1>1, <2>2 DEF Convert, Collect, OutputLock, Validate, Backup, Replace, ArchiveCheck,
      LinkSource, UnlinkSource, LinkOutput, UnlinkOutput, Restore, Unrestore, Finish, encoding
  <2> QED
    BY <2>1, <2>2
<1>2. ASSUME NEW b \in Attempt, Encoder(b)
      PROVE  Encoder(a)
  BY <1>2 DEF Encoder, EncoderOpens, EncoderEnds
<1>3. ASSUME NEW b \in Attempt, Reap(b) \/ Interrupt(b) \/ Kill(b)
      PROVE  Interrupt(a)
  BY <1>3 DEF Reap, Interrupt, Kill, encoding
<1>4. ASSUME NEW j \in Job, Execute(j)
      PROVE  FALSE
  BY <1>4 DEF Execute, Record, Release, Requeue, Lose, Start, attempts, encoding
<1>5. ~Watch /\ ~WatcherCrash
  BY DEF Watch, WatcherStart, WatcherScan, WatcherBacklog, WatcherSubmit, WatcherLink,
    WatcherUnlink, WatcherTake, WatcherCrash, attempts, encoding
<1>6. ASSUME NEW v \in Video, Deliver(v) \/ Rewrite(v)
      PROVE  FALSE
  BY <1>6 DEF Deliver, Rewrite, attempts, encoding
<1> QED
  BY <1>1, <1>2, <1>3, <1>4, <1>5, <1>6 DEF Next, vars, attempts, encoding

\* The record of the source is made once, before ffmpeg starts.
LEMMA TakenOnce ==
  ASSUME TypeOK, [Next]_vars, NEW a \in Attempt, took'[a] # took[a]
  PROVE  Stat(a)
<1> USE DEF TypeOK, AttemptsOK
<1>1. ASSUME NEW b \in Attempt, Convert(b)
      PROVE  Stat(a)
  <2>1. CASE Stat(b)
    BY <2>1 DEF Stat, encoding
  <2>2. CASE ~Stat(b)
    BY <1>1, <2>2 DEF Convert, Collect, OutputLock, Validate, Backup, Replace, ArchiveCheck,
      LinkSource, UnlinkSource, LinkOutput, UnlinkOutput, Restore, Unrestore, Finish, encoding
  <2> QED
    BY <2>1, <2>2
<1>2. ASSUME NEW b \in Attempt, Encoder(b) \/ Reap(b) \/ Interrupt(b) \/ Kill(b)
      PROVE  FALSE
  BY <1>2 DEF Encoder, EncoderOpens, EncoderEnds, Reap, Interrupt, Kill, encoding
<1>3. ASSUME NEW j \in Job, Execute(j)
      PROVE  FALSE
  BY <1>3 DEF Execute, Record, Release, Requeue, Lose, Start, attempts, encoding
<1>4. ~Watch /\ ~WatcherCrash
  BY DEF Watch, WatcherStart, WatcherScan, WatcherBacklog, WatcherSubmit, WatcherLink,
    WatcherUnlink, WatcherTake, WatcherCrash, attempts, encoding
<1>5. ASSUME NEW v \in Video, Deliver(v) \/ Rewrite(v)
      PROVE  FALSE
  BY <1>5 DEF Deliver, Rewrite, attempts, encoding
<1> QED
  BY <1>1, <1>2, <1>3, <1>4, <1>5 DEF Next, vars, attempts, encoding

\* Versions and tears are the work of Rewrite.
LEMMA RewriteOnly ==
  ASSUME [Next]_vars, UNCHANGED <<ver, torn>> => FALSE
  PROVE  \E v \in Video : Rewrite(v)
<1>1. ASSUME NEW b \in Attempt, Convert(b)
      PROVE  UNCHANGED <<ver, torn>>
  BY <1>1 DEF Convert, Collect, OutputLock, Stat, Validate, Backup, Replace, ArchiveCheck,
    LinkSource, UnlinkSource, LinkOutput, UnlinkOutput, Restore, Unrestore, Finish, encoding, media
<1>2. ASSUME NEW b \in Attempt, Encoder(b) \/ Reap(b) \/ Interrupt(b) \/ Kill(b)
      PROVE  UNCHANGED <<ver, torn>>
  BY <1>2 DEF Encoder, EncoderOpens, EncoderEnds, Reap, Interrupt, Kill, encoding, media
<1>3. ASSUME NEW j \in Job, Execute(j)
      PROVE  UNCHANGED <<ver, torn>>
  BY <1>3 DEF Execute, Record, Release, Requeue, Lose, Start, attempts, encoding, media
<1>4. Watch \/ WatcherCrash => UNCHANGED <<ver, torn>>
  BY DEF Watch, WatcherStart, WatcherScan, WatcherBacklog, WatcherSubmit, WatcherLink,
    WatcherUnlink, WatcherTake, WatcherCrash, attempts, encoding, media
<1>5. ASSUME NEW v \in Video, Deliver(v)
      PROVE  UNCHANGED <<ver, torn>>
  BY <1>5 DEF Deliver, attempts, encoding
<1> QED
  BY <1>1, <1>2, <1>3, <1>4, <1>5 DEF Next, vars, attempts, encoding, media

\* No marker is published that is not whole, not the attempt's own, or not of one version.
LEMMA EncodedStep ==
  ASSUME TypeOK, Assigned, Locked, Encoded, [Next]_vars
  PROVE  Encoded'
<1> SUFFICES ASSUME NEW a \in Attempt
             PROVE  /\ pc'[a] \in {"idle", "collect", "lock", "stat"} => enc'[a] = "none" /\ a \notin torn'
                    /\ enc'[a] # "none" => pc'[a] # "idle" /\ took'[a] # None
                    /\ pc'[a] = "encode" /\ enc'[a] \in {"writing", "whole"}
                         => cvt'[jobOf'[a]] = a
                    /\ pc'[a] \in {"publish", "replace"} =>
                         cvt'[jobOf'[a]] = a /\ enc'[a] = "whole" /\ a \notin torn'
                    /\ took'[a] # None =>
                         /\ took'[a][2] <= ver'[took'[a][1]]
                         /\ a \in torn' => took'[a][2] # ver'[took'[a][1]]
  BY DEF Encoded
<1> USE DEF TypeOK, AttemptsOK, FilesOK, PC, EncState
<1>1. took'[a] # None =>
        /\ took'[a][2] <= ver'[took'[a][1]]
        /\ a \in torn' => took'[a][2] # ver'[took'[a][1]]
  <2>1. CASE Stat(a)
    <3>1. CASE UNCHANGED encoding
      BY <2>1, <3>1 DEF Stat, Encoded, encoding, media
    <3>2. CASE /\ fs[InQueue(Source(a))] # None
               /\ took' = [took EXCEPT ![a] = <<fs[InQueue(Source(a))], ver[fs[InQueue(Source(a))]]>>]
               /\ UNCHANGED torn
      <4>1. pc[a] = "stat" /\ UNCHANGED <<torn, ver>>
        BY <2>1, <3>2 DEF Stat, encoding, media
      <4>2. a \notin torn
        BY <4>1 DEF Encoded
      <4>3. fs[InQueue(Source(a))] \in Video
        BY <3>2, <4>1, AttemptHasSource DEF InQueue, Dir
      <4> QED
        BY <3>2, <4>1, <4>2, <4>3, BoundsAssumption
    <3> QED
      BY <2>1, <3>1, <3>2 DEF Stat, encoding
  <2>2. CASE ~Stat(a) /\ UNCHANGED <<ver, torn>>
    BY <2>2, TakenOnce DEF Encoded
  <2>3. CASE ~Stat(a) /\ ~UNCHANGED <<ver, torn>>
    <3>1. PICK v \in Video : Rewrite(v)
      BY <2>3, RewriteOnly
    <3>2. took'[a] = took[a]
      BY <2>3, TakenOnce
    <3> QED
      BY <3>1, <3>2, BoundsAssumption DEF Rewrite, Encoded
  <2> QED
    BY <2>1, <2>2, <2>3
<1>2. pc'[a] \in {"idle", "collect", "lock", "stat"} => enc'[a] = "none" /\ a \notin torn'
  <2> SUFFICES ASSUME pc'[a] \in {"idle", "collect", "lock", "stat"}
               PROVE  enc'[a] = "none" /\ a \notin torn'
    OBVIOUS
  <2>1. pc[a] \in {"idle", "collect", "lock", "stat"}
    <3>1. CASE Convert(a)
      BY <3>1 DEF Convert, Collect, OutputLock, Stat, Validate, Backup, Replace, ArchiveCheck,
        LinkSource, UnlinkSource, LinkOutput, UnlinkOutput, Restore, Unrestore, Finish, Proceed,
        Return, Goto
    <3>2. ~Reap(a) /\ ~Interrupt(a) /\ ~Kill(a)
      BY DEF Reap, Interrupt, Kill, Proceed, Return, Goto
    <3>3. ASSUME NEW j \in Job, Start(j, a)
          PROVE  pc[a] = "idle"
      BY <3>3 DEF Start, Q!Start, Assigned
    <3> QED
      BY <3>1, <3>2, <3>3, OwnPosition
  <2>2. enc[a] = "none" /\ a \notin torn
    BY <2>1 DEF Encoded
  <2>3. enc'[a] = "none"
    <3>1. CASE Stat(a)
      BY <2>2, <3>1 DEF Stat, Proceed, Return, Goto, encoding
    <3>2. ~Encoder(a)
      BY <2>2 DEF Encoder, EncoderOpens, EncoderEnds
    <3>3. CASE Interrupt(a)
      BY <3>3 DEF Interrupt, Proceed, Return, Goto
    <3> QED
      BY <2>2, <3>1, <3>2, <3>3, EncoderMoves
  <2>4. a \notin torn'
    BY <2>2, RewriteOnly DEF Rewrite
  <2> QED
    BY <2>3, <2>4
<1>3. enc'[a] # "none" => pc'[a] # "idle" /\ took'[a] # None
  <2>1. CASE enc[a] # "none"
    <3>1. pc[a] # "idle" /\ took[a] # None
      BY <2>1 DEF Encoded
    <3>2. took'[a] # None
      <4>1. ~Stat(a)
        BY <2>1 DEF Stat, Encoded
      <4> QED
        BY <3>1, <4>1, TakenOnce
    <3> QED
      BY <3>1, <3>2, Kept
  <2>2. CASE enc[a] = "none" /\ enc'[a] # "none"
    <3>1. Stat(a)
      BY <2>2, EncoderMoves DEF Encoder, EncoderOpens, EncoderEnds, Interrupt
    <3>2. /\ fs[InQueue(Source(a))] # None
          /\ took' = [took EXCEPT ![a] = <<fs[InQueue(Source(a))], ver[fs[InQueue(Source(a))]]>>]
      BY <2>2, <3>1 DEF Stat, encoding
    <3>3. fs[InQueue(Source(a))] \in Video
      BY <3>1, <3>2, AttemptHasSource DEF Stat, InQueue, Dir
    <3>4. took'[a] # None
      BY <3>2, <3>3, InodesAssumption
    <3> QED
      BY <2>2, <3>1, <3>4, Kept DEF Stat
  <2> QED
    BY <2>1, <2>2
<1>4. pc'[a] = "encode" /\ enc'[a] \in {"writing", "whole"} => cvt'[jobOf'[a]] = a
  <2> SUFFICES ASSUME pc'[a] = "encode", enc'[a] \in {"writing", "whole"}
               PROVE  cvt'[jobOf'[a]] = a
    OBVIOUS
  <2>1. ~Stat(a)
    BY DEF Stat, encoding, Encoded
  <2>2. pc[a] = "encode" /\ ~Convert(a)
    BY <2>1, OwnPosition DEF Convert, Collect, OutputLock, Validate, Backup, Replace,
      ArchiveCheck, LinkSource, UnlinkSource, LinkOutput, UnlinkOutput, Restore, Unrestore, Finish,
      Reap, Interrupt, Kill, Start, Proceed, Return, Goto
  <2>3. jobOf'[a] = jobOf[a] /\ jobOf[a] \in Job
    BY <2>2, Kept, AttemptHasSource
  <2>4. CASE EncoderOpens(a)
    BY <2>3, <2>4 DEF EncoderOpens
  <2>5. CASE ~EncoderOpens(a)
    <3>1. enc[a] \in {"writing", "whole"}
      BY <2>1, <2>5, EncoderMoves DEF Encoder, EncoderEnds, Interrupt
    <3>2. cvt[jobOf[a]] = a
      BY <2>2, <3>1 DEF Encoded
    <3> QED
      BY <2>2, <2>3, <3>2, OwnMarker DEF Critical, Over
  <2> QED
    BY <2>4, <2>5
<1>5. pc'[a] \in {"publish", "replace"} =>
        cvt'[jobOf'[a]] = a /\ enc'[a] = "whole" /\ a \notin torn'
  <2> SUFFICES ASSUME pc'[a] \in {"publish", "replace"}
               PROVE  cvt'[jobOf'[a]] = a /\ enc'[a] = "whole" /\ a \notin torn'
    OBVIOUS
  <2>1. CASE Validate(a)
    <3>1. /\ pc[a] = "encode" /\ enc[a] = "whole" /\ Unchanged(a)
          /\ UNCHANGED <<cvt, jobOf, enc, torn>>
      BY <2>1 DEF Validate, Proceed, Return, Goto, dirs, encoding
    <3>2. a \notin torn
      BY <3>1, InodesAssumption DEF Unchanged, Encoded
    <3> QED
      BY <3>1, <3>2 DEF Encoded
  <2>2. CASE Backup(a)
    BY <2>2 DEF Backup, Encoded, encoding
  <2>3. CASE ~Validate(a) /\ ~Backup(a)
    <3>1. pc[a] \in {"publish", "replace"} /\ ~Convert(a)
      BY <2>3, OwnPosition DEF Convert, Collect, OutputLock, Stat, Replace, ArchiveCheck,
        LinkSource, UnlinkSource, LinkOutput, UnlinkOutput, Restore, Unrestore, Finish, Reap,
        Interrupt, Kill, Start, Proceed, Return, Goto
    <3>2. cvt[jobOf[a]] = a /\ enc[a] = "whole" /\ a \notin torn
      BY <3>1 DEF Encoded
    <3>3. cvt'[jobOf'[a]] = a
      BY <3>1, <3>2, Kept, OwnMarker DEF Critical, Over
    <3>4. enc'[a] = "whole"
      BY <3>1, <3>2, EncoderMoves DEF Convert, Encoder, EncoderOpens, EncoderEnds, Interrupt
    <3>5. a \notin torn'
      BY <3>2, RewriteOnly DEF Rewrite
    <3> QED
      BY <3>3, <3>4, <3>5
  <2> QED
    BY <2>1, <2>2, <2>3
<1> QED
  BY <1>1, <1>2, <1>3, <1>4, <1>5

-----------------------------------------------------------------------------
(***************************************************************************)
(* Names and files: a file that loses a name keeps another.                *)
(***************************************************************************)

\* What a conversion takes away from a path it has put elsewhere before: the source and the
\* output have a second name when the first one goes, and a replaced output has a backup.
LEMMA LinksMove ==
  ASSUME TypeOK, Assigned, Doubled, NEW b \in Attempt, Convert(b),
         NEW p \in Path, fs[p] # None, fs'[p] # fs[p]
  PROVE  \/ \E q \in {InQueue(Source(b)), InDone(Source(b)), InDone(Output(b))} :
              q # p /\ fs'[q] = fs[p]
         \/ fs[p] \in Range(prev[Output(b)])
<1> USE DEF TypeOK, FilesOK, Exists, Link, Unlink
<1>1. InQueue(Source(b)) # InDone(Source(b)) /\ InQueue(Output(b)) # InDone(Output(b))
  BY DEF InQueue, InDone
<1>2. CASE Collect(b) \/ OutputLock(b) \/ Stat(b) \/ Validate(b) \/ Backup(b) \/ ArchiveCheck(b) \/ Finish(b)
  BY <1>2 DEF Collect, OutputLock, Stat, Validate, Backup, ArchiveCheck, Finish, dirs
<1>3. CASE Replace(b)
  <2>1. pc[b] = "replace" /\ p = InQueue(Output(b))
    BY <1>3 DEF Replace
  <2> QED
    BY <2>1 DEF Doubled
<1>4. CASE LinkSource(b) \/ Restore(b) \/ LinkOutput(b)
  BY <1>4 DEF LinkSource, Restore, LinkOutput
<1>5. CASE UnlinkSource(b)
  <2>1. pc[b] = "unlinkSource" /\ p = InQueue(Source(b)) /\ fs'[InDone(Source(b))] = fs[InDone(Source(b))]
    BY <1>1, <1>5 DEF UnlinkSource
  <2> QED
    BY <1>1, <2>1 DEF Doubled
<1>6. CASE Unrestore(b)
  <2>1. pc[b] = "unrestore" /\ p = InDone(Source(b)) /\ fs'[InQueue(Source(b))] = fs[InQueue(Source(b))]
    BY <1>1, <1>6 DEF Unrestore
  <2> QED
    BY <1>1, <2>1 DEF Doubled
<1>7. CASE UnlinkOutput(b)
  <2>1. pc[b] = "unlinkOutput" /\ p = InQueue(Output(b)) /\ fs'[InDone(Output(b))] = fs[InDone(Output(b))]
    BY <1>1, <1>7 DEF UnlinkOutput
  <2> QED
    BY <1>1, <2>1 DEF Doubled
<1> QED
  BY <1>2, <1>3, <1>4, <1>5, <1>6, <1>7 DEF Convert

\* A video keeps a name in queue/ or done/ when a conversion takes one of its names.
LEMMA VideoSurvives ==
  ASSUME TypeOK, Assigned, Doubled, NEW b \in Attempt, Convert(b),
         NEW p \in Path, fs[p] \in Video
  PROVE  \/ fs'[p] = fs[p]
         \/ \E q \in Path : q # p /\ (\A n : q # InTodo(n)) /\ fs'[q] = fs[p]
<1> SUFFICES ASSUME fs'[p] # fs[p]
             PROVE  \E q \in Path : q # p /\ (\A n : q # InTodo(n)) /\ fs'[q] = fs[p]
  OBVIOUS
<1>1. pc[b] # "idle" /\ jobOf[b] \in Job /\ Source(b) \in Name /\ Output(b) \in Out
  <2>1. pc[b] # "idle"
    BY DEF Convert, Collect, OutputLock, Stat, Validate, Backup, Replace, ArchiveCheck,
      LinkSource, UnlinkSource, LinkOutput, UnlinkOutput, Restore, Unrestore, Finish
  <2> QED
    BY <2>1, AttemptHasSource
<1>2. fs[p] # None
  BY InodesAssumption
<1>3. fs[p] \notin Range(prev[Output(b)])
  <2>1. prev[Output(b)] \in Seq(Attempt)
    BY <1>1 DEF TypeOK, FilesOK
  <2>2. Range(prev[Output(b)]) \subseteq Attempt
    BY <2>1 DEF Range
  <2> QED
    BY <2>2, InodesAssumption
<1>4. PICK q \in {InQueue(Source(b)), InDone(Source(b)), InDone(Output(b))} :
        q # p /\ fs'[q] = fs[p]
  BY <1>2, <1>3, LinksMove
<1>5. q \in Path /\ \A n : q # InTodo(n)
  BY <1>1 DEF InTodo, InQueue, InDone, Path, Dir
<1> QED
  BY <1>4, <1>5

\* Only deliveries and the watcher change what is in todo/.
LEMMA TodoMoves ==
  ASSUME TypeOK, Assigned, [Next]_vars, NEW n \in Name, fs'[InTodo(n)] # fs[InTodo(n)]
  PROVE  \/ \E v \in Video : Deliver(v) /\ ~Exists(InTodo(n))
         \/ WatcherUnlink /\ wname = n
<1> USE DEF TypeOK, FilesOK
<1>1. ASSUME NEW b \in Attempt, Convert(b)
      PROVE  FALSE
  <2>1. PICK p \in {InQueue(Source(b)), InDone(Source(b)), InQueue(Output(b)), InDone(Output(b))} :
          \E x : fs' = [fs EXCEPT ![p] = x]
    BY <1>1, WritesOwnEntries DEF ConversionWrites
  <2>2. p # InTodo(n)
    BY DEF InTodo, InQueue, InDone
  <2> QED
    BY <2>1, <2>2
<1>2. ASSUME NEW v \in Video, Deliver(v)
      PROVE  ~Exists(InTodo(n))
  BY <1>2 DEF Deliver, InTodo, Path, Dir
<1>3. ~WatcherLink
  <2>1. InQueue(wname) # InTodo(n) /\ InTodo(n) \in Path
    BY DEF InTodo, InQueue, Path, Dir
  <2> QED
    BY <2>1 DEF WatcherLink, Link
<1>4. CASE WatcherUnlink
  BY <1>4 DEF WatcherUnlink, Unlink, InTodo
<1> QED
  BY <1>1, <1>2, <1>3, <1>4, OtherWriters

\* The name the watcher is moving is changed by the watcher.
LEMMA WatcherMoves ==
  ASSUME [Next]_vars, UNCHANGED <<wpc, wname>> => FALSE
  PROVE  Watch \/ WatcherCrash
<1>1. ASSUME NEW a \in Attempt, Convert(a)
      PROVE  UNCHANGED watcher
  BY <1>1 DEF Convert, Collect, OutputLock, Stat, Validate, Backup, Replace, ArchiveCheck,
    LinkSource, UnlinkSource, LinkOutput, UnlinkOutput, Restore, Unrestore, Finish
<1>2. ASSUME NEW a \in Attempt, Encoder(a) \/ Reap(a) \/ Interrupt(a) \/ Kill(a)
      PROVE  UNCHANGED watcher
  BY <1>2 DEF Encoder, EncoderOpens, EncoderEnds, Reap, Interrupt, Kill
<1>3. ASSUME NEW j \in Job, Execute(j)
      PROVE  UNCHANGED watcher
  BY <1>3 DEF Execute, Record, Release, Requeue, Lose, Start
<1>4. ASSUME NEW v \in Video, Deliver(v) \/ Rewrite(v)
      PROVE  UNCHANGED <<wpc, wname>>
  BY <1>4 DEF Deliver, Rewrite
<1> QED
  BY <1>1, <1>2, <1>3, <1>4 DEF Next, vars, watcher

\* What the watcher is moving is in todo/ until it has a second name.
LEMMA WatcherDoubledStep ==
  ASSUME TypeOK, Assigned, Doubled, [Next]_vars
  PROVE  /\ wpc' \in {"link", "unlink"} => Exists(InTodo(wname))'
         /\ wpc' = "unlink" =>
              \E p \in Path : p # InTodo(wname') /\ fs'[p] = fs'[InTodo(wname')]
<1> USE DEF TypeOK, FilesOK, WatcherOK
<1>1. CASE UNCHANGED <<wpc, wname>> /\ wpc \in {"link", "unlink"}
  <2>1. wname \in Name /\ Exists(InTodo(wname)) /\ ~WatcherUnlink
    BY <1>1 DEF Doubled, WatcherUnlink
  <2>2. fs'[InTodo(wname)] = fs[InTodo(wname)]
    BY <2>1, TodoMoves
  <2>3. Exists(InTodo(wname))'
    BY <1>1, <2>1, <2>2 DEF Exists
  <2>4. ASSUME wpc = "unlink"
        PROVE  \E p \in Path : p # InTodo(wname) /\ fs'[p] = fs'[InTodo(wname)]
    <3>1. PICK p \in Path : p # InTodo(wname) /\ fs[p] = fs[InTodo(wname)]
      BY <2>4 DEF Doubled
    <3>2. fs[p] \in Video
      BY <2>1, <3>1 DEF Exists, InTodo, Dir
    <3>3. CASE \E b \in Attempt : Convert(b)
      <4>1. \/ fs'[p] = fs[p]
            \/ \E q \in Path : q # p /\ (\A n : q # InTodo(n)) /\ fs'[q] = fs[p]
        BY <3>2, <3>3, VideoSurvives
      <4> QED
        BY <2>2, <3>1, <4>1
    <3>4. CASE \A b \in Attempt : ~Convert(b)
      <4>1. ~WatcherLink
        BY <2>4 DEF WatcherLink
      <4>2. UNCHANGED fs \/ \E v \in Video : Deliver(v)
        BY <2>1, <3>4, <4>1, OtherWriters
      <4>3. fs'[p] = fs[p]
        BY <3>2, <4>2, InodesAssumption DEF Deliver, Exists
      <4> QED
        BY <2>2, <3>1, <4>3
    <3> QED
      BY <3>3, <3>4
  <2> QED
    BY <1>1, <2>3, <2>4
<1>2. CASE UNCHANGED <<wpc, wname>> /\ wpc \notin {"link", "unlink"}
  BY <1>2
<1>3. CASE ~UNCHANGED <<wpc, wname>>
  <2>1. ASSUME NEW n \in Name, WatcherTake(n)
        PROVE  wpc' # "unlink" /\ (wpc' = "link" => Exists(InTodo(wname))')
    BY <2>1 DEF WatcherTake, WatcherDies, Eligible, Exists, dirs
  <2>2. CASE WatcherLink
    <3>1. CASE WatcherDies
      BY <3>1 DEF WatcherDies
    <3>2. CASE Link(InTodo(wname), InQueue(wname)) /\ wpc' = "unlink" /\ UNCHANGED wname
      <4>1. wname \in Name /\ Exists(InTodo(wname))
        BY <2>2 DEF WatcherLink, Doubled
      <4>2. InQueue(wname) \in Path /\ InQueue(wname) # InTodo(wname)
        BY <4>1 DEF InQueue, InTodo, Path, Dir
      <4>3. fs'[InQueue(wname)] = fs[InTodo(wname)] /\ fs'[InTodo(wname)] = fs[InTodo(wname)]
        BY <3>2, <4>2 DEF Link
      <4> QED
        BY <3>2, <4>1, <4>2, <4>3 DEF Exists
    <3> QED
      BY <2>2, <3>1, <3>2 DEF WatcherLink
  <2>3. CASE WatcherStart \/ WatcherScan \/ WatcherBacklog \/ WatcherUnlink \/ WatcherSubmit \/ WatcherCrash
    BY <2>3 DEF WatcherStart, WatcherScan, WatcherBacklog, WatcherUnlink, WatcherSubmit,
      WatcherCrash, WatcherDies
  <2> QED
    BY <1>3, <2>1, <2>2, <2>3, WatcherMoves DEF Watch
<1> QED
  BY <1>1, <1>2, <1>3

\* What a conversion is about to take a name from has another one.
LEMMA DoubledStep ==
  ASSUME TypeOK, Assigned, Locked, Doubled, [Next]_vars
  PROVE  Doubled'
<1> SUFFICES ASSUME NEW a \in Attempt
             PROVE  /\ pc'[a] \in {"unlinkSource", "unrestore"} =>
                         /\ Exists(InQueue(Source(a)))'
                         /\ fs'[InDone(Source(a)')] = fs'[InQueue(Source(a)')]
                    /\ pc'[a] = "unlinkOutput" =>
                         /\ Exists(InQueue(Output(a)))'
                         /\ fs'[InDone(Output(a)')] = fs'[InQueue(Output(a)')]
                    /\ pc'[a] = "replace" =>
                         \/ ~Exists(InQueue(Output(a)))'
                         \/ fs'[InQueue(Output(a)')] \in Range(prev'[Output(a)'])
  BY WatcherDoubledStep DEF Doubled, InQueue, InDone
<1> USE DEF TypeOK, FilesOK, AttemptsOK
<1> DEFINE Moving == {"unlinkSource", "unrestore", "unlinkOutput", "replace"}
<1>1. CASE pc'[a] \in Moving /\ Convert(a)
  <2>1. pc[a] # "idle"
    BY <1>1 DEF Convert, Collect, OutputLock, Stat, Validate, Backup, Replace, ArchiveCheck,
      LinkSource, UnlinkSource, LinkOutput, UnlinkOutput, Restore, Unrestore, Finish
  <2>2. /\ Source(a) \in Name /\ Output(a) \in Out
        /\ Source(a)' = Source(a) /\ Output(a)' = Output(a)
    BY <2>1, AttemptHasSource, Kept
  <2>3. /\ InQueue(Source(a)) # InDone(Source(a))
        /\ InQueue(Output(a)) # InDone(Output(a))
        /\ {InQueue(Source(a)), InDone(Source(a)), InQueue(Output(a)), InDone(Output(a))} \subseteq Path
    BY <2>2 DEF InQueue, InDone, Path, Dir
  <2>4. CASE LinkSource(a)
    <3>1. /\ pc'[a] = "unlinkSource" /\ Exists(InQueue(Source(a)))
          /\ fs' = [fs EXCEPT ![InDone(Source(a))] = fs[InQueue(Source(a))]]
      BY <1>1, <2>4 DEF LinkSource, Link, Proceed, Return, Goto
    <3> QED
      BY <2>2, <2>3, <3>1 DEF Exists
  <2>5. CASE Restore(a)
    <3>1. /\ pc'[a] = "unrestore" /\ Exists(InDone(Source(a)))
          /\ fs' = [fs EXCEPT ![InQueue(Source(a))] = fs[InDone(Source(a))]]
      BY <1>1, <2>5 DEF Restore, Link, Proceed, Return, Goto
    <3> QED
      BY <2>2, <2>3, <3>1 DEF Exists
  <2>6. CASE LinkOutput(a)
    <3>1. /\ pc'[a] = "unlinkOutput" /\ Exists(InQueue(Output(a)))
          /\ fs' = [fs EXCEPT ![InDone(Output(a))] = fs[InQueue(Output(a))]]
      BY <1>1, <2>6 DEF LinkOutput, Link, Proceed, Return, Goto
    <3> QED
      BY <2>2, <2>3, <3>1 DEF Exists
  <2>7. CASE Backup(a)
    <3>1. pc'[a] = "replace" /\ UNCHANGED fs
      BY <2>7 DEF Backup, Proceed, Goto
    <3>2. CASE Exists(InQueue(Output(a)))
      <4> DEFINE x == fs[InQueue(Output(a))]
                 s == prev[Output(a)]
      <4>1. x \in Attempt /\ s \in Seq(Attempt) /\ prev'[Output(a)] = Append(s, x)
        BY <2>2, <2>7, <3>2 DEF Backup, Exists, InQueue, Dir
      <4>2. Append(s, x)[Len(s) + 1] = x /\ Len(s) + 1 \in DOMAIN Append(s, x)
        BY <4>1
      <4>3. x \in Range(prev'[Output(a)])
        BY <4>1, <4>2 DEF Range
      <4> QED
        BY <2>2, <3>1, <4>3
    <3>3. CASE ~Exists(InQueue(Output(a)))
      BY <2>2, <3>1, <3>3 DEF Exists
    <3> QED
      BY <3>2, <3>3
  <2> QED
    BY <1>1, <2>4, <2>5, <2>6, <2>7 DEF Convert, Collect, OutputLock, Stat, Validate, Replace,
      ArchiveCheck, UnlinkSource, UnlinkOutput, Unrestore, Finish, Proceed, Return, Goto
<1>2. CASE pc'[a] \in Moving /\ ~Convert(a)
  <2>1. pc[a] = pc'[a]
    BY <1>2, OwnPosition DEF Reap, Interrupt, Kill, Start, Proceed, Return, Goto
  <2>2. pc[a] \in Critical
    BY <1>2, <2>1 DEF Critical, PC, Over
  <2>3. Source(a)' = Source(a) /\ Output(a)' = Output(a)
    BY <1>2, <2>1, Kept
  <2>4. /\ fs'[InQueue(Output(a))] = fs[InQueue(Output(a))]
        /\ fs'[InDone(Output(a))] = fs[InDone(Output(a))]
        /\ fs'[InDone(Source(a))] = fs[InDone(Source(a))]
        /\ Exists(InQueue(Source(a))) => fs'[InQueue(Source(a))] = fs[InQueue(Source(a))]
        /\ prev'[Output(a)] = prev[Output(a)]
    BY <1>2, <2>2, Undisturbed, OwnMarker
  <2> QED
    BY <1>2, <2>1, <2>3, <2>4 DEF Doubled, Exists
<1>3. CASE pc'[a] \notin Moving
  BY <1>3
<1> QED
  BY <1>1, <1>2, <1>3

-----------------------------------------------------------------------------
(***************************************************************************)
(* Nothing is lost, and what is published is whole.                        *)
(***************************************************************************)

\* A video is delivered by Deliver.
LEMMA Deliveries ==
  ASSUME [Next]_vars, delivered' # delivered
  PROVE  \E v \in Video : Deliver(v)
<1>1. ASSUME NEW b \in Attempt, Convert(b)
      PROVE  FALSE
  BY <1>1 DEF Convert, Collect, OutputLock, Stat, Validate, Backup, Replace, ArchiveCheck,
    LinkSource, UnlinkSource, LinkOutput, UnlinkOutput, Restore, Unrestore, Finish, media
<1>2. ASSUME NEW b \in Attempt, Encoder(b) \/ Reap(b) \/ Interrupt(b) \/ Kill(b)
      PROVE  FALSE
  BY <1>2 DEF Encoder, EncoderOpens, EncoderEnds, Reap, Interrupt, Kill, media
<1>3. ASSUME NEW j \in Job, Execute(j)
      PROVE  FALSE
  BY <1>3 DEF Execute, Record, Release, Requeue, Lose, Start, media
<1>4. ~Watch /\ ~WatcherCrash
  BY DEF Watch, WatcherStart, WatcherScan, WatcherBacklog, WatcherSubmit, WatcherLink,
    WatcherUnlink, WatcherTake, WatcherCrash, media
<1>5. ASSUME NEW v \in Video, Rewrite(v)
      PROVE  FALSE
  BY <1>5 DEF Rewrite
<1> QED
  BY <1>1, <1>2, <1>3, <1>4, <1>5 DEF Next, vars, media

\* Neither a delivery nor the watcher overwrites a file.
LEMMA NothingOverwritten ==
  ASSUME TypeOK, NEW p \in Path, fs[p] # None,
         UNCHANGED fs \/ WatcherLink \/ \E v \in Video : Deliver(v)
  PROVE  fs'[p] = fs[p]
<1> USE DEF TypeOK, FilesOK, Exists, Link
<1>1. CASE WatcherLink
  <2>1. \/ UNCHANGED fs
        \/ fs[InQueue(wname)] = None /\ fs' = [fs EXCEPT ![InQueue(wname)] = fs[InTodo(wname)]]
    BY <1>1 DEF WatcherLink
  <2> QED
    BY <2>1
<1>2. ASSUME NEW v \in Video, Deliver(v)
      PROVE  fs'[p] = fs[p]
  <2>1. \E n \in Name : fs[InTodo(n)] = None /\ fs' = [fs EXCEPT ![InTodo(n)] = v]
    BY <1>2 DEF Deliver
  <2> QED
    BY <2>1
<1> QED
  BY <1>1, <1>2

\* A video that has a name has one after any step: a conversion takes a name away only when
\* there is a second one, and so does the watcher; nothing else is removed or overwritten.
LEMMA VideosStep ==
  ASSUME TypeOK, Assigned, Doubled, NoVideoLost, [Next]_vars
  PROVE  NoVideoLost'
<1> SUFFICES ASSUME NEW v \in delivered'
             PROVE  \E p \in Path : fs'[p] = v
  BY DEF NoVideoLost, LinkedAt
<1> USE DEF TypeOK, FilesOK
<1>1. CASE v \notin delivered
  <2>1. PICK w \in Video : Deliver(w)
    BY <1>1, Deliveries
  <2>2. v = w
    BY <1>1, <2>1 DEF Deliver
  <2>3. \A n \in Name : InTodo(n) \in Path
    BY DEF InTodo, Path, Dir
  <2> QED
    BY <2>1, <2>2, <2>3 DEF Deliver
<1>2. CASE v \in delivered
  <2>1. PICK p \in Path : fs[p] = v
    BY <1>2 DEF NoVideoLost, LinkedAt
  <2>2. fs[p] \in Video /\ fs[p] # None
    BY <1>2, <2>1, InodesAssumption
  <2>3. CASE \E b \in Attempt : Convert(b)
    BY <2>1, <2>2, <2>3, VideoSurvives
  <2>4. CASE \A b \in Attempt : ~Convert(b)
    <3>1. CASE UNCHANGED fs \/ WatcherLink \/ \E w \in Video : Deliver(w)
      BY <2>1, <2>2, <3>1, NothingOverwritten
    <3>2. CASE WatcherUnlink
      <4>1. /\ fs' = [fs EXCEPT ![InTodo(wname)] = None]
            /\ \E q \in Path : q # InTodo(wname) /\ fs[q] = fs[InTodo(wname)]
        BY <3>2 DEF WatcherUnlink, Unlink, Doubled
      <4> QED
        BY <2>1, <4>1
    <3> QED
      BY <2>4, <3>1, <3>2, OtherWriters
  <2> QED
    BY <2>3, <2>4
<1> QED
  BY <1>1, <1>2

\* Appending to a sequence adds one element to its range.
LEMMA RangeOfAppend ==
  ASSUME NEW S, NEW s \in Seq(S), NEW x \in S
  PROVE  Range(Append(s, x)) = Range(s) \cup {x}
<1> DEFINE t == Append(s, x)
<1>1. /\ Len(s) \in Nat
      /\ DOMAIN s = 1..Len(s)
      /\ DOMAIN t = 1..(Len(s) + 1)
      /\ \A i \in 1..Len(s) : t[i] = s[i]
      /\ t[Len(s) + 1] = x
  OBVIOUS
<1> HIDE DEF t
<1>2. Range(t) \subseteq Range(s) \cup {x}
  <2> SUFFICES ASSUME NEW i \in DOMAIN t
               PROVE  t[i] \in Range(s) \cup {x}
    BY DEF Range
  <2>1. i \in 1..Len(s) \/ i = Len(s) + 1
    BY <1>1
  <2> QED
    BY <1>1, <2>1 DEF Range
<1>3. Range(s) \cup {x} \subseteq Range(t)
  BY <1>1 DEF Range
<1> QED
  BY <1>2, <1>3 DEF t

\* How backups and published files change in a step.
BackupsGrow ==
  /\ \A o \in Out : Range(prev[o]) \subseteq Range(prev'[o])
  /\ \A a \in published' \ published : a \in Attempt /\ Replace(a)
  /\ \A o \in Out : \A i \in Range(prev'[o]) \ Range(prev[o]) :
       \E p \in Path : fs[p] = i /\ UNCHANGED fs

\* Backups are added and never taken away, and published are the attempts that replace.
LEMMA BackupsStep ==
  ASSUME TypeOK, Assigned, [Next]_vars
  PROVE  BackupsGrow
<1>1. CASE UNCHANGED <<prev, published>>
  BY <1>1 DEF BackupsGrow
<1>2. ASSUME NEW b \in Attempt, Replace(b)
      PROVE  BackupsGrow
  BY <1>2 DEF Replace, BackupsGrow
<1>3. ASSUME NEW b \in Attempt, Backup(b)
      PROVE  BackupsGrow
  <2> USE DEF TypeOK, FilesOK
  <2> DEFINE O == Output(b)
             x == fs[InQueue(O)]
  <2>1. O \in Out
    BY <1>3, AttemptHasSource DEF Backup
  <2>2. CASE Exists(InQueue(O))
    <3>1. /\ prev' = [prev EXCEPT ![O] = Append(@, x)]
          /\ UNCHANGED <<fs, published>>
      BY <1>3, <2>2 DEF Backup, encoding
    <3>2. InQueue(O) \in Path
      BY <2>1 DEF InQueue, Path, Dir
    <3>3. prev[O] \in Seq(Attempt) /\ x \in Attempt
      BY <2>1, <2>2 DEF Exists, InQueue, Dir
    <3>4. Range(Append(prev[O], x)) = Range(prev[O]) \cup {x}
      BY <3>3, RangeOfAppend
    <3>5. prev'[O] = Append(prev[O], x) /\ \A o \in Out \ {O} : prev'[o] = prev[o]
      BY <2>1, <3>1
    <3> HIDE DEF O, x
    <3> QED
      BY <2>1, <3>1, <3>2, <3>4, <3>5 DEF x, BackupsGrow
  <2>3. CASE ~Exists(InQueue(O))
    BY <1>1, <1>3, <2>3 DEF Backup, encoding
  <2> QED
    BY <2>2, <2>3
<1>4. ASSUME NEW b \in Attempt, Convert(b), ~Replace(b), ~Backup(b)
      PROVE  UNCHANGED <<prev, published>>
  BY <1>4 DEF Convert, Collect, OutputLock, Stat, Validate, ArchiveCheck, LinkSource,
    UnlinkSource, LinkOutput, UnlinkOutput, Restore, Unrestore, Finish, dirs, encoding
<1>5. ASSUME NEW b \in Attempt, Encoder(b) \/ Reap(b) \/ Interrupt(b) \/ Kill(b)
      PROVE  UNCHANGED <<prev, published>>
  BY <1>5 DEF Encoder, EncoderOpens, EncoderEnds, Reap, Interrupt, Kill, dirs, encoding
<1>6. ASSUME NEW j \in Job, Execute(j)
      PROVE  UNCHANGED <<prev, published>>
  BY <1>6 DEF Execute, Record, Release, Requeue, Lose, Start, dirs, attempts, encoding
<1>7. Watch \/ WatcherCrash => UNCHANGED <<prev, published>>
  BY DEF Watch, WatcherStart, WatcherScan, WatcherBacklog, WatcherSubmit, WatcherLink,
    WatcherUnlink, WatcherTake, WatcherCrash, dirs, attempts, encoding
<1>8. ASSUME NEW v \in Video, Deliver(v) \/ Rewrite(v)
      PROVE  UNCHANGED <<prev, published>>
  BY <1>8 DEF Deliver, Rewrite, dirs, attempts, encoding
<1>9. UNCHANGED vars => UNCHANGED <<prev, published>>
  BY DEF vars, dirs, attempts, encoding
<1>10. UNCHANGED <<prev, published>> \/ \E b \in Attempt : Replace(b) \/ Backup(b)
  BY <1>4, <1>5, <1>6, <1>7, <1>8, <1>9 DEF Next
<1> QED
  BY <1>1, <1>2, <1>3, <1>10

\* A published file that is replaced has been backed up, and one that is moved has two names.
LEMMA OutputsStep ==
  ASSUME TypeOK, Assigned, Locked, Doubled, Encoded, NoOutputLost, [Next]_vars
  PROVE  NoOutputLost'
<1> SUFFICES ASSUME NEW i \in published'
             PROVE  (\E p \in Path : fs'[p] = i) \/ \E o \in Out : i \in Range(prev'[o])
  BY DEF NoOutputLost, LinkedAt
<1> USE DEF TypeOK, FilesOK
<1>1. CASE i \notin published
  <2>1. i \in Attempt /\ Replace(i)
    BY <1>1, BackupsStep DEF BackupsGrow
  <2>2. Output(i) \in Out /\ cvt[jobOf[i]] = i
    BY <2>1, AttemptHasSource DEF Replace, Encoded
  <2>3. InQueue(Output(i)) \in Path
    BY <2>2 DEF InQueue, Path, Dir
  <2> QED
    BY <2>1, <2>2, <2>3 DEF Replace
<1>2. CASE i \in published /\ \E o \in Out : i \in Range(prev[o])
  BY <1>2, BackupsStep DEF BackupsGrow
<1>3. CASE i \in published /\ \A o \in Out : i \notin Range(prev[o])
  <2>1. i \in Attempt /\ i # None /\ i \notin Video
    BY <1>3, InodesAssumption DEF AttemptsOK
  <2>2. PICK p \in Path : fs[p] = i
    BY <1>3 DEF NoOutputLost, LinkedAt
  <2>3. ASSUME NEW b \in Attempt, Convert(b), fs'[p] # fs[p]
        PROVE  \E q \in Path : fs'[q] = i
    <3>1. pc[b] # "idle"
      BY <2>3 DEF Convert, Collect, OutputLock, Stat, Validate, Backup, Replace, ArchiveCheck,
        LinkSource, UnlinkSource, LinkOutput, UnlinkOutput, Restore, Unrestore, Finish
    <3>2. Source(b) \in Name /\ Output(b) \in Out
      BY <3>1, AttemptHasSource
    <3>3. PICK q \in {InQueue(Source(b)), InDone(Source(b)), InDone(Output(b))} : fs'[q] = fs[p]
      BY <1>3, <2>1, <2>2, <2>3, <3>2, LinksMove
    <3>4. q \in Path
      BY <3>2 DEF InQueue, InDone, Path, Dir
    <3> QED
      BY <2>2, <3>3, <3>4
  <2>4. CASE \A b \in Attempt : ~Convert(b)
    <3>1. CASE UNCHANGED fs \/ WatcherLink \/ \E w \in Video : Deliver(w)
      BY <2>1, <2>2, <3>1, NothingOverwritten
    <3>2. CASE WatcherUnlink
      <4>1. /\ fs' = [fs EXCEPT ![InTodo(wname)] = None]
            /\ \E q \in Path : q # InTodo(wname) /\ fs[q] = fs[InTodo(wname)]
        BY <3>2 DEF WatcherUnlink, Unlink, Doubled
      <4> QED
        BY <2>2, <4>1
    <3> QED
      BY <2>4, <3>1, <3>2, OtherWriters
  <2> QED
    BY <2>2, <2>3, <2>4
<1> QED
  BY <1>1, <1>2, <1>3

\* A file gets its first name by delivery or, when it is an output, by being published.
LEMMA FirstLink ==
  ASSUME TypeOK, Assigned, Encoded, [Next]_vars, NEW a \in Attempt, NEW p \in Path,
         fs'[p] = a, \A q \in Path : fs[q] # a
  PROVE  Replace(a)
<1> USE DEF TypeOK, FilesOK, WatcherOK, Link, Unlink
<1>1. a # None /\ a \notin Video
  BY InodesAssumption
<1>2. ASSUME NEW b \in Attempt, Convert(b)
      PROVE  Replace(a)
  <2>1. pc[b] # "idle"
    BY <1>2 DEF Convert, Collect, OutputLock, Stat, Validate, Backup, Replace, ArchiveCheck,
      LinkSource, UnlinkSource, LinkOutput, UnlinkOutput, Restore, Unrestore, Finish
  <2>2. {InQueue(Source(b)), InDone(Source(b)), InQueue(Output(b)), InDone(Output(b))} \subseteq Path
    BY <2>1, AttemptHasSource DEF InQueue, InDone, Path, Dir
  <2>3. CASE Replace(b)
    <3>1. pc[b] = "replace" /\ fs' = [fs EXCEPT ![InQueue(Output(b))] = cvt[jobOf[b]]]
      BY <2>3 DEF Replace
    <3>2. cvt[jobOf[b]] = b
      BY <3>1 DEF Encoded
    <3>3. a = b
      BY <3>1, <3>2
    <3> QED
      BY <2>3, <3>3
  <2>4. CASE LinkSource(b) \/ Restore(b) \/ LinkOutput(b)
    BY <1>1, <2>2, <2>4 DEF LinkSource, Restore, LinkOutput
  <2>5. CASE UnlinkSource(b) \/ Unrestore(b) \/ UnlinkOutput(b)
    BY <1>1, <2>5 DEF UnlinkSource, Unrestore, UnlinkOutput
  <2>6. CASE Collect(b) \/ OutputLock(b) \/ Stat(b) \/ Validate(b) \/ Backup(b) \/ ArchiveCheck(b) \/ Finish(b)
    BY <2>6 DEF Collect, OutputLock, Stat, Validate, Backup, ArchiveCheck, Finish, dirs
  <2> QED
    BY <1>2, <2>3, <2>4, <2>5, <2>6 DEF Convert
<1>3. ASSUME NEW v \in Video, Deliver(v)
      PROVE  FALSE
  BY <1>1, <1>3 DEF Deliver
<1>4. ~WatcherLink
  <2>1. CASE WatcherLink /\ ~UNCHANGED fs
    <3>1. wname \in Name /\ fs' = [fs EXCEPT ![InQueue(wname)] = fs[InTodo(wname)]]
      BY <2>1 DEF WatcherLink
    <3>2. InTodo(wname) \in Path
      BY <3>1 DEF InTodo, Path, Dir
    <3> QED
      BY <3>1, <3>2
  <2> QED
    BY <2>1
<1>5. ~WatcherUnlink
  BY <1>1 DEF WatcherUnlink
<1> QED
  BY <1>2, <1>3, <1>4, <1>5, OtherWriters

\* What is whole stays whole, and what was not torn while it was encoded never becomes so.
LEMMA WholeStays ==
  ASSUME TypeOK, Encoded, [Next]_vars, NEW a \in Attempt, enc[a] = "whole", a \notin torn
  PROVE  enc'[a] = "whole" /\ a \notin torn'
<1>1. enc'[a] = "whole"
  BY EncoderMoves DEF Stat, Encoder, EncoderOpens, EncoderEnds, Interrupt, Encoded, TypeOK, AttemptsOK
<1>2. a \notin torn'
  BY RewriteOnly DEF Rewrite
<1> QED
  BY <1>1, <1>2

\* What gets a name or a backup in a step is whole: it had one before, or it is published now.
LEMMA WholeStep ==
  ASSUME TypeOK, Assigned, Encoded, OutputsAreWhole, [Next]_vars
  PROVE  OutputsAreWhole'
<1> SUFFICES ASSUME NEW a \in Attempt,
                    (\E p \in Path : fs'[p] = a) \/ \E o \in Out : a \in Range(prev'[o])
             PROVE  enc'[a] = "whole" /\ a \notin torn'
  BY DEF OutputsAreWhole, LinkedAt
<1>1. CASE (\E p \in Path : fs[p] = a) \/ \E o \in Out : a \in Range(prev[o])
  BY <1>1, WholeStays DEF OutputsAreWhole, LinkedAt
<1>2. CASE (\A p \in Path : fs[p] # a) /\ \A o \in Out : a \notin Range(prev[o])
  <2>1. \E p \in Path : fs'[p] = a
    BY <1>2, BackupsStep DEF BackupsGrow
  <2>2. Replace(a)
    BY <1>2, <2>1, FirstLink
  <2>3. enc[a] = "whole" /\ a \notin torn
    BY <2>2 DEF Replace, Encoded
  <2> QED
    BY <2>3, WholeStays
<1> QED
  BY <1>1, <1>2

-----------------------------------------------------------------------------
(***************************************************************************)
(* The archive.                                                            *)
(***************************************************************************)

\* An entry of the archive is made by a move of archive, or taken back by its roll-back.
ArchiveMoves(f, b) ==
  \/ LinkSource(b) /\ f = Source(b) /\ ~Exists(InDone(f))
  \/ LinkOutput(b) /\ f = Output(b) /\ ~Exists(InDone(f)) /\ fs'[InDone(f)] = fs[InQueue(f)]
  \/ Unrestore(b) /\ f = Source(b) /\ fs'[InDone(f)] = None

\* Deliveries and the watcher do not come near the archive, and no other step of a conversion
\* does.
LEMMA DoneMoves ==
  ASSUME TypeOK, Assigned, [Next]_vars, NEW f \in Name \cup Out, fs'[InDone(f)] # fs[InDone(f)]
  PROVE  \E b \in Attempt : ArchiveMoves(f, b)
<1> USE DEF Exists, Link, Unlink
<1>1. InDone(f) \in Path /\ fs \in [Path -> Video \cup Attempt \cup {None}]
  BY DEF InDone, Path, Dir, TypeOK, FilesOK
<1>2. ASSUME NEW b \in Attempt, Convert(b)
      PROVE  ArchiveMoves(f, b)
  <2>1. \A g, h : InDone(g) # InQueue(h) /\ (InDone(g) = InDone(h) => g = h)
    BY DEF InDone, InQueue
  <2>2. CASE Collect(b) \/ OutputLock(b) \/ Stat(b) \/ Validate(b) \/ Backup(b) \/ ArchiveCheck(b) \/ Finish(b)
    BY <2>2 DEF Collect, OutputLock, Stat, Validate, Backup, ArchiveCheck, Finish, dirs
  <2>3. CASE Replace(b) \/ UnlinkSource(b) \/ UnlinkOutput(b) \/ Restore(b)
    <3>1. CASE Replace(b)
      BY <1>1, <2>1, <3>1 DEF Replace
    <3>2. CASE UnlinkSource(b)
      BY <1>1, <2>1, <3>2 DEF UnlinkSource
    <3>3. CASE UnlinkOutput(b)
      BY <1>1, <2>1, <3>3 DEF UnlinkOutput
    <3>4. CASE Restore(b)
      BY <1>1, <2>1, <3>4 DEF Restore
    <3> QED
      BY <2>3, <3>1, <3>2, <3>3, <3>4
  <2>4. CASE LinkSource(b)
    <3>1. fs[InDone(Source(b))] = None /\ fs' = [fs EXCEPT ![InDone(Source(b))] = fs[InQueue(Source(b))]]
      BY <2>4 DEF LinkSource
    <3>2. f = Source(b)
      BY <1>1, <2>1, <3>1
    <3> QED
      BY <2>4, <3>1, <3>2 DEF ArchiveMoves
  <2>5. CASE LinkOutput(b)
    <3>1. fs[InDone(Output(b))] = None /\ fs' = [fs EXCEPT ![InDone(Output(b))] = fs[InQueue(Output(b))]]
      BY <2>5 DEF LinkOutput
    <3>2. f = Output(b)
      BY <1>1, <2>1, <3>1
    <3>3. fs'[InDone(f)] = fs[InQueue(f)]
      BY <1>1, <3>1, <3>2
    <3> QED
      BY <2>5, <3>1, <3>2, <3>3 DEF ArchiveMoves
  <2>6. CASE Unrestore(b)
    <3>1. fs' = [fs EXCEPT ![InDone(Source(b))] = None]
      BY <2>6 DEF Unrestore
    <3>2. f = Source(b)
      BY <1>1, <2>1, <3>1
    <3>3. fs'[InDone(f)] = None
      BY <1>1, <3>1, <3>2
    <3> QED
      BY <2>6, <3>2, <3>3 DEF ArchiveMoves
  <2> QED
    BY <1>2, <2>2, <2>3, <2>4, <2>5, <2>6 DEF Convert
<1>3. ~UNCHANGED fs
  OBVIOUS
<1>4. ASSUME NEW v \in Video, Deliver(v)
      PROVE  FALSE
  <2>1. \A n : InTodo(n) # InDone(f)
    BY DEF InTodo, InDone
  <2> QED
    BY <1>1, <1>4, <2>1 DEF Deliver
<1>5. ~WatcherLink
  <2>1. InQueue(wname) # InDone(f)
    BY DEF InQueue, InDone
  <2> QED
    BY <1>1, <2>1 DEF WatcherLink
<1>6. ~WatcherUnlink
  <2>1. InTodo(wname) # InDone(f)
    BY DEF InTodo, InDone
  <2> QED
    BY <1>1, <2>1 DEF WatcherUnlink
<1> QED
  BY <1>2, <1>3, <1>4, <1>5, <1>6, OtherWriters

\* What a conversion has at each of its positions.
OwnFilesOf(a) ==
  /\ pc[a] \in {"publish", "replace", "archive", "linkSource", "unlinkSource"} =>
       took[a] # None /\ fs[InQueue(Source(a))] = took[a][1]
  /\ pc[a] \in {"unlinkSource", "linkOutput", "unlinkOutput", "finish", "restore", "unrestore"} =>
       took[a] # None /\ fs[InDone(Source(a))] = took[a][1]
  /\ pc[a] \in {"archive", "linkSource", "unlinkSource", "linkOutput", "unlinkOutput"} =>
       fs[InQueue(Output(a))] = a
  /\ pc[a] \in {"linkSource", "unlinkSource"} => ~Exists(InDone(Output(a)))
  /\ pc[a] \in {"unlinkOutput", "finish"} => fs[InDone(Output(a))] = a

\* Steps of others leave it alone.
LEMMA OwnFilesUndisturbed ==
  ASSUME TypeOK, Assigned, Locked, OwnFiles, [Next]_vars, NEW a \in Attempt, ~Convert(a)
  PROVE  OwnFilesOf(a)'
<1> DEFINE Owning == {"publish", "replace", "archive", "linkSource", "unlinkSource", "linkOutput",
                      "unlinkOutput", "finish", "restore", "unrestore"}
<1>1. OwnFilesOf(a)
  BY DEF OwnFiles, OwnFilesOf
<1>2. CASE pc'[a] \notin Owning
  BY <1>2 DEF OwnFilesOf
<1>3. CASE pc'[a] \in Owning /\ pc'[a] = pc[a]
  <2>1. pc[a] \in Critical /\ pc[a] # "idle"
    BY <1>3 DEF Critical, PC, Over
  <2>2. Source(a)' = Source(a) /\ Output(a)' = Output(a)
    BY <2>1, Kept
  <2>3. took'[a] = took[a]
    BY TakenOnce DEF Convert
  <2>4. /\ fs'[InQueue(Output(a))] = fs[InQueue(Output(a))]
        /\ fs'[InDone(Output(a))] = fs[InDone(Output(a))]
        /\ fs'[InDone(Source(a))] = fs[InDone(Source(a))]
        /\ Exists(InQueue(Source(a))) => fs'[InQueue(Source(a))] = fs[InQueue(Source(a))]
    BY <2>1, Undisturbed
  <2>5. took[a] # None => took[a][1] # None
    BY InodesAssumption DEF TypeOK, AttemptsOK
  <2>6. took[a] # None /\ fs[InQueue(Source(a))] = took[a][1]
          => fs'[InQueue(Source(a))] = fs[InQueue(Source(a))]
    BY <2>4, <2>5 DEF Exists
  <2> HIDE DEF Owning
  <2> QED
    BY <1>1, <1>3, <2>2, <2>3, <2>4, <2>6 DEF OwnFilesOf, Exists
<1>4. CASE pc'[a] \in Owning /\ pc'[a] # pc[a]
  <2>1. Interrupt(a) /\ pc[a] \in {"linkOutput", "unlinkOutput", "finish"} /\ pc'[a] = "restore"
    BY <1>4, OwnPosition DEF Reap, Interrupt, Kill, Start, Return, Proceed, Goto, TypeOK, AttemptsOK
  <2>2. Source(a)' = Source(a) /\ Output(a)' = Output(a)
    BY <2>1, Kept
  <2>3. fs' = fs /\ took' = took
    BY <2>1 DEF Interrupt, dirs
  <2> QED
    BY <1>1, <2>1, <2>2, <2>3 DEF OwnFilesOf
<1> QED
  BY <1>2, <1>3, <1>4

\* Its own steps hand it on from one position to the next.
LEMMA OwnFilesMove ==
  ASSUME TypeOK, Assigned, Doubled, Encoded, OwnFiles, [Next]_vars, NEW a \in Attempt, Convert(a)
  PROVE  OwnFilesOf(a)'
<1> USE DEF TypeOK, AttemptsOK, Proceed, Goto
<1>1. OwnFilesOf(a)
  BY DEF OwnFiles, OwnFilesOf
<1>2. pc[a] # "idle"
  BY DEF Convert, Collect, OutputLock, Stat, Validate, Backup, Replace, ArchiveCheck,
    LinkSource, UnlinkSource, LinkOutput, UnlinkOutput, Restore, Unrestore, Finish
<1>3. Source(a) \in Name /\ Output(a) \in Out /\ jobOf[a] \in Job
  BY <1>2, AttemptHasSource
<1>4. Source(a)' = Source(a) /\ Output(a)' = Output(a)
  BY <1>2, Kept
<1>5. fs \in [Path -> Video \cup Attempt \cup {None}]
  BY DEF FilesOK
<1>6. /\ {InQueue(Source(a)), InDone(Source(a)), InQueue(Output(a)), InDone(Output(a))} \subseteq Path
      /\ InQueue(Source(a)) # InQueue(Output(a)) /\ InDone(Source(a)) # InDone(Output(a))
      /\ \A f, g : InQueue(f) # InDone(g)
  <2>1. Source(a) # Output(a)
    BY <1>3, NamesAssumption
  <2> QED
    BY <1>3, <2>1 DEF InQueue, InDone, Path, Dir
<1>7. ~Stat(a) => took'[a] = took[a]
  BY TakenOnce
<1>8. CASE Collect(a) \/ OutputLock(a) \/ Stat(a) \/ Finish(a) \/ Unrestore(a)
  <2>1. pc'[a] \in {"lock", "ended", "stat", "encode"}
    BY <1>8 DEF Collect, OutputLock, Stat, Finish, Unrestore, Return
  <2> QED
    BY <2>1 DEF OwnFilesOf
<1>9. CASE Validate(a)
  <2>1. fs' = fs /\ took' = took /\ pc'[a] \in {"publish", "ended"}
    BY <1>9 DEF Validate, Return, dirs, encoding
  <2>2. pc'[a] = "publish" => Unchanged(a)
    BY <1>9 DEF Validate, Return
  <2>3. Unchanged(a) => took[a] # None /\ fs[InQueue(Source(a))] = took[a][1]
    <3>1. SUFFICES ASSUME Unchanged(a)
                   PROVE  took[a] # None /\ fs[InQueue(Source(a))] = took[a][1]
      OBVIOUS
    <3>2. fs[InQueue(Source(a))] \in Video
      BY <1>3, <3>1 DEF Unchanged, FilesOK, InQueue, Dir
    <3>3. ver[fs[InQueue(Source(a))]] \in Nat
      BY <3>2
    <3> QED
      BY <3>1, <3>2, <3>3, InodesAssumption DEF Unchanged
  <2> QED
    BY <1>4, <2>1, <2>2, <2>3 DEF OwnFilesOf
<1>10. CASE Backup(a)
  <2>1. pc[a] = "publish" /\ fs' = fs /\ pc'[a] = "replace" /\ took' = took
    BY <1>10 DEF Backup, encoding
  <2> QED
    BY <1>1, <1>4, <2>1 DEF OwnFilesOf
<1>11. CASE Replace(a)
  <2>1. pc[a] = "replace" /\ pc'[a] = "archive" /\ fs' = [fs EXCEPT ![InQueue(Output(a))] = a]
    BY <1>11 DEF Replace, Encoded
  <2>2. fs'[InQueue(Output(a))] = a /\ fs'[InQueue(Source(a))] = fs[InQueue(Source(a))]
    BY <1>5, <1>6, <2>1
  <2>3. took'[a] = took[a]
    BY <1>11 DEF Replace
  <2> QED
    BY <1>1, <1>4, <2>1, <2>2, <2>3 DEF OwnFilesOf
<1>12. CASE ArchiveCheck(a)
  <2>1. pc[a] = "archive" /\ fs' = fs /\ took' = took /\ pc'[a] \in {"linkSource", "ended"}
    BY <1>12 DEF ArchiveCheck, Return, dirs, encoding
  <2>2. pc'[a] = "linkSource" => ~Exists(InDone(Output(a)))
    BY <1>12 DEF ArchiveCheck, Return
  <2> QED
    BY <1>1, <1>4, <2>1, <2>2 DEF OwnFilesOf, Exists
<1>13. CASE LinkSource(a)
  <2>1. pc[a] = "linkSource" /\ took' = took /\ pc'[a] \in {"unlinkSource", "ended"}
    BY <1>13 DEF LinkSource, Return, encoding
  <2>2. pc'[a] = "unlinkSource" => fs' = [fs EXCEPT ![InDone(Source(a))] = fs[InQueue(Source(a))]]
    BY <1>13 DEF LinkSource, Return, Link
  <2>3. pc'[a] = "unlinkSource" =>
          /\ fs'[InDone(Source(a))] = fs[InQueue(Source(a))]
          /\ fs'[InQueue(Source(a))] = fs[InQueue(Source(a))]
          /\ fs'[InQueue(Output(a))] = fs[InQueue(Output(a))]
          /\ fs'[InDone(Output(a))] = fs[InDone(Output(a))]
    BY <1>5, <1>6, <2>2
  <2> QED
    BY <1>1, <1>4, <2>1, <2>3 DEF OwnFilesOf, Exists
<1>14. CASE UnlinkSource(a)
  <2>1. /\ pc[a] = "unlinkSource" /\ took' = took /\ pc'[a] = "linkOutput"
        /\ fs' = [fs EXCEPT ![InQueue(Source(a))] = None]
    BY <1>14 DEF UnlinkSource, Unlink, encoding
  <2>2. /\ fs'[InDone(Source(a))] = fs[InDone(Source(a))]
        /\ fs'[InQueue(Output(a))] = fs[InQueue(Output(a))]
    BY <1>5, <1>6, <2>1
  <2> QED
    BY <1>1, <1>4, <2>1, <2>2 DEF OwnFilesOf
<1>15. CASE LinkOutput(a)
  <2>1. pc[a] = "linkOutput" /\ took' = took /\ pc'[a] \in {"unlinkOutput", "restore"}
    BY <1>15 DEF LinkOutput, encoding
  <2>2. CASE pc'[a] = "unlinkOutput"
    <3>1. fs' = [fs EXCEPT ![InDone(Output(a))] = fs[InQueue(Output(a))]]
      BY <1>15, <2>2 DEF LinkOutput, Link
    <3>2. /\ fs'[InDone(Output(a))] = fs[InQueue(Output(a))]
          /\ fs'[InQueue(Output(a))] = fs[InQueue(Output(a))]
          /\ fs'[InDone(Source(a))] = fs[InDone(Source(a))]
      BY <1>5, <1>6, <3>1
    <3> QED
      BY <1>1, <1>4, <2>1, <2>2, <3>2 DEF OwnFilesOf
  <2>3. CASE pc'[a] = "restore"
    <3>1. fs' = fs
      BY <1>15, <2>3 DEF LinkOutput
    <3> QED
      BY <1>1, <1>4, <2>1, <2>3, <3>1 DEF OwnFilesOf
  <2> QED
    BY <2>1, <2>2, <2>3
<1>16. CASE UnlinkOutput(a)
  <2>1. /\ pc[a] = "unlinkOutput" /\ took' = took /\ pc'[a] = "finish"
        /\ fs' = [fs EXCEPT ![InQueue(Output(a))] = None]
    BY <1>16 DEF UnlinkOutput, Unlink, encoding
  <2>2. /\ fs'[InDone(Source(a))] = fs[InDone(Source(a))]
        /\ fs'[InDone(Output(a))] = fs[InDone(Output(a))]
    BY <1>5, <1>6, <2>1
  <2> QED
    BY <1>1, <1>4, <2>1, <2>2 DEF OwnFilesOf
<1>17. CASE Restore(a)
  <2>1. pc[a] = "restore" /\ took' = took /\ pc'[a] \in {"unrestore", "ended"}
    BY <1>17 DEF Restore, Return, encoding
  <2>2. fs'[InDone(Source(a))] = fs[InDone(Source(a))]
    BY <1>5, <1>6, <1>17 DEF Restore, Link
  <2> QED
    BY <1>1, <1>4, <2>1, <2>2 DEF OwnFilesOf
<1> QED
  BY <1>8, <1>9, <1>10, <1>11, <1>12, <1>13, <1>14, <1>15, <1>16, <1>17 DEF Convert

\* What it took and what it published stay its own.
LEMMA OwnFilesStep ==
  ASSUME TypeOK, Assigned, Locked, Doubled, Encoded, OwnFiles, [Next]_vars
  PROVE  OwnFiles'
<1>1. \A a \in Attempt : OwnFilesOf(a)'
  BY OwnFilesUndisturbed, OwnFilesMove
<1> QED
  BY <1>1 DEF OwnFiles, OwnFilesOf

\* Entries of the archive go when their own attempt takes them back, which has a second name.
LEMMA ArchiveShrinks ==
  ASSUME TypeOK, Assigned, Doubled, OwnFiles, [Next]_vars, NEW f \in Name \cup Out,
         Exists(InDone(f)), fs'[InDone(f)] # fs[InDone(f)]
  PROVE  /\ fs'[InDone(f)] = None
         /\ fs[InQueue(f)] = fs[InDone(f)]
         /\ \E a \in Attempt : /\ pc[a] = "unrestore" /\ Source(a) = f
                              /\ took[a][1] = fs[InDone(f)]
<1>1. PICK b \in Attempt : ArchiveMoves(f, b)
  BY DoneMoves
<1>2. Unrestore(b) /\ f = Source(b) /\ fs'[InDone(f)] = None
  BY <1>1 DEF ArchiveMoves
<1>3. pc[b] = "unrestore"
  BY <1>2 DEF Unrestore
<1>4. fs[InQueue(f)] = fs[InDone(f)]
  BY <1>2, <1>3 DEF Doubled
<1>5. took[b][1] = fs[InDone(f)]
  BY <1>2, <1>3 DEF OwnFiles
<1> QED
  BY <1>2, <1>3, <1>4, <1>5

\* A published file belongs to an attempt whose record of its source is final.
LEMMA PublishedIsFinal ==
  ASSUME TypeOK, Assigned, Encoded, OutputsAreWhole, [Next]_vars,
         NEW a \in Attempt, NEW p \in Path, fs[p] = a
  PROVE  /\ pc[a] # "idle"
         /\ took'[a] = took[a]
         /\ argv'[jobOf'[a]] = Source(a)
<1>1. enc[a] = "whole"
  BY DEF OutputsAreWhole, LinkedAt
<1>2. pc[a] \notin {"idle", "collect", "lock", "stat"}
  BY <1>1 DEF Encoded
<1>3. took'[a] = took[a]
  BY <1>2, TakenOnce DEF Stat
<1>4. Source(a)' = Source(a)
  BY <1>2, Kept
<1>5. argv'[jobOf'[a]] = Source(a)
  BY <1>4 DEF Source
<1> QED
  BY <1>2, <1>3, <1>5

\* Matching names in the archive belong together: an output only comes beside the source that
\* its attempt has just moved, and a source only where no output is.
LEMMA PairsStep ==
  ASSUME TypeOK, Assigned, Encoded, OutputsAreWhole, OwnFiles, ArchivedPairsMatch, [Next]_vars
  PROVE  ArchivedPairsMatch'
<1> SUFFICES ASSUME NEW n \in Name, NEW a, a = fs'[InDone(OutOf[n])], a # None,
                    fs'[InDone(n)] # None, argv'[jobOf'[a]] = n
             PROVE  took'[a][1] = fs'[InDone(n)]
  BY DEF ArchivedPairsMatch, Source
<1>1. OutOf[n] \in Out /\ OutOf[n] \notin Name /\ n \notin Out
  BY NamesAssumption
<1>2. /\ InDone(n) \in Path /\ InDone(OutOf[n]) \in Path
      /\ fs[InDone(OutOf[n])] \in Attempt \cup {None}
  BY <1>1 DEF InDone, Path, Dir, TypeOK, FilesOK
<1>3. fs'[InDone(n)] = fs[InDone(n)]
  <2>1. SUFFICES ASSUME fs'[InDone(n)] # fs[InDone(n)]
                 PROVE  FALSE
    OBVIOUS
  <2>2. PICK b \in Attempt : ArchiveMoves(n, b)
    BY <2>1, DoneMoves
  <2>3. b \in Attempt /\ pc[b] # "idle" => Output(b) \in Out
    BY AttemptHasSource
  <2>4. LinkSource(b) /\ n = Source(b)
    <3>1. ~Unrestore(b) \/ fs'[InDone(n)] # None
      OBVIOUS
    <3>2. LinkOutput(b) => n # Output(b)
      BY <1>1, <2>3 DEF LinkOutput
    <3> QED
      BY <2>2, <3>1, <3>2 DEF ArchiveMoves
  <2>5. pc[b] = "linkSource" /\ Output(b) = OutOf[n]
    BY <2>4 DEF LinkSource, Output
  <2>6. fs[InDone(OutOf[n])] = None
    BY <2>5 DEF OwnFiles, Exists
  <2>7. PICK c \in Attempt : ArchiveMoves(OutOf[n], c)
    BY <1>1, <2>6, DoneMoves
  <2>8. LinkOutput(c)
    <3>1. pc[c] # "idle" => Source(c) \in Name
      BY AttemptHasSource
    <3>2. LinkSource(c) \/ Unrestore(c) => OutOf[n] # Source(c)
      BY <1>1, <3>1 DEF LinkSource, Unrestore
    <3> QED
      BY <2>7, <3>2 DEF ArchiveMoves
  <2>9. pc'[b] \in {"unlinkSource", "ended"} /\ pc' = [pc EXCEPT ![b] = pc'[b]]
    BY <2>4 DEF LinkSource, Return, Proceed, Goto, TypeOK, AttemptsOK
  <2>10. pc[c] = "linkOutput" /\ pc'[c] \in {"unlinkOutput", "restore"}
    BY <2>8 DEF LinkOutput, Proceed, Goto, TypeOK, AttemptsOK
  <2> QED
    BY <2>5, <2>9, <2>10 DEF TypeOK, AttemptsOK
<1>4. CASE a = fs[InDone(OutOf[n])]
  <2>1. a \in Attempt
    BY <1>2, <1>4
  <2>2. took'[a] = took[a] /\ argv'[jobOf'[a]] = Source(a)
    BY <1>2, <1>4, <2>1, PublishedIsFinal
  <2>3. Source(a) = n
    BY <2>2
  <2>4. took[a][1] = fs[InDone(n)]
    BY <1>3, <1>4, <2>3 DEF ArchivedPairsMatch
  <2> QED
    BY <1>3, <2>2, <2>4
<1>5. CASE a # fs[InDone(OutOf[n])]
  <2>1. PICK b \in Attempt : ArchiveMoves(OutOf[n], b)
    BY <1>1, <1>5, DoneMoves
  <2>2. LinkOutput(b) /\ Output(b) = OutOf[n] /\ a = fs[InQueue(OutOf[n])]
    <3>1. pc[b] # "idle" => Source(b) \in Name
      BY AttemptHasSource
    <3>2. LinkSource(b) \/ Unrestore(b) => OutOf[n] # Source(b)
      BY <1>1, <3>1 DEF LinkSource, Unrestore
    <3> QED
      BY <2>1, <3>2 DEF ArchiveMoves
  <2>3. pc[b] = "linkOutput"
    BY <2>2 DEF LinkOutput
  <2>4. a = b
    BY <2>2, <2>3 DEF OwnFiles
  <2>5. InQueue(OutOf[n]) \in Path
    BY <1>1 DEF InQueue, Path, Dir
  <2>6. took'[b] = took[b] /\ argv'[jobOf'[b]] = Source(b)
    BY <2>2, <2>4, <2>5, PublishedIsFinal
  <2>7. Source(b) = n
    BY <2>4, <2>6
  <2>8. fs[InDone(n)] = took[b][1]
    BY <2>3, <2>7 DEF OwnFiles
  <2> QED
    BY <1>3, <2>4, <2>6, <2>8
<1> QED
  BY <1>4, <1>5

-----------------------------------------------------------------------------
(***************************************************************************)
(* What is recorded as a success.                                          *)
(***************************************************************************)

\* A command returns once, and with success only at the end of a conversion or for a file that
\* needs none.
LEMMA ResultMoves ==
  ASSUME TypeOK, [Next]_vars, NEW a \in Attempt, result'[a] # result[a]
  PROVE  /\ result[a] = "none" /\ pc'[a] = "ended"
         /\ result'[a] = "ok" => Finish(a) \/ (Collect(a) /\ ~Eligible(InQueue(Source(a)))
                                               /\ Exists(InQueue(Source(a)))
                                               /\ ~Unreadable(InQueue(Source(a))))
<1> USE DEF TypeOK, JobsOK, Q!TypeOK, AttemptsOK, Return, Q!Return, Proceed, Goto
<1> DEFINE Goal == /\ result[a] = "none" /\ pc'[a] = "ended"
                   /\ result'[a] = "ok" =>
                        Finish(a) \/ (Collect(a) /\ ~Eligible(InQueue(Source(a)))
                                      /\ Exists(InQueue(Source(a)))
                                      /\ ~Unreadable(InQueue(Source(a))))
<1>1. ASSUME NEW b \in Attempt, Convert(b)
      PROVE  Goal
  <2>1. CASE Collect(b)
    <3>1. PICK r \in {"ok", "fail"} : Return(b, r) /\
            r = (IF Exists(InQueue(Source(b))) /\ ~Unreadable(InQueue(Source(b))) THEN "ok" ELSE "fail")
      BY <2>1 DEF Collect, queue
    <3>2. ~Eligible(InQueue(Source(b)))
      BY <2>1, <3>1 DEF Collect, queue
    <3> QED
      BY <2>1, <3>1, <3>2
  <2>2. CASE Finish(b)
    BY <2>2 DEF Finish
  <2>3. CASE OutputLock(b) \/ Backup(b) \/ Replace(b) \/ UnlinkSource(b) \/ LinkOutput(b) \/ UnlinkOutput(b)
    BY <2>3 DEF OutputLock, Backup, Replace, UnlinkSource, LinkOutput, UnlinkOutput, jobs, queue
  <2>4. CASE Stat(b) \/ Validate(b) \/ ArchiveCheck(b) \/ LinkSource(b) \/ Restore(b) \/ Unrestore(b)
    <3>1. Return(b, "fail") \/ UNCHANGED queue
      BY <2>4 DEF Stat, Validate, ArchiveCheck, LinkSource, Restore, Unrestore
    <3> QED
      BY <3>1 DEF queue
  <2> QED
    BY <1>1, <2>1, <2>2, <2>3, <2>4 DEF Convert
<1>2. ASSUME NEW b \in Attempt, Reap(b) \/ Interrupt(b)
      PROVE  Goal
  <2>1. UNCHANGED queue \/ (Q!Return(b, "fail") /\ pc' = [pc EXCEPT ![b] = "ended"])
    BY <1>2 DEF Reap, Interrupt
  <2> QED
    BY <2>1 DEF queue
<1>3. ASSUME NEW b \in Attempt, Encoder(b) \/ Kill(b)
      PROVE  FALSE
  BY <1>3 DEF Encoder, EncoderOpens, EncoderEnds, Kill, jobs, queue
<1>4. ASSUME NEW j \in Job, Execute(j)
      PROVE  FALSE
  BY <1>4 DEF Execute, Record, Release, Requeue, Lose, Start, queue, Q!Record, Q!Requeue, Q!Lose, Q!Start
<1>5. ~Watch /\ ~WatcherCrash
  BY DEF Watch, WatcherStart, WatcherScan, WatcherBacklog, WatcherSubmit, WatcherLink,
    WatcherUnlink, WatcherTake, WatcherCrash, jobs, queue, Submit, Q!Submit
<1>6. ASSUME NEW v \in Video, Deliver(v) \/ Rewrite(v)
      PROVE  FALSE
  BY <1>6 DEF Deliver, Rewrite, jobs, queue
<1> QED
  BY <1>1, <1>2, <1>3, <1>4, <1>5, <1>6 DEF Next, vars, jobs, queue

\* A job is handed out, started, given up, lost or recorded by the executor.
JobMoves(j) ==
  \/ /\ status'[j] = status[j] /\ outcome'[j] = outcome[j] /\ attempt'[j] = attempt[j]
     /\ status[j] # "absent" => argv'[j] = argv[j]
  \/ status[j] = "absent" /\ status'[j] = "queued" /\ outcome'[j] = outcome[j]
  \/ /\ status[j] = "queued" /\ status'[j] = "running" /\ outcome'[j] = outcome[j]
     /\ \E a \in Attempt : Start(j, a)
  \/ /\ status[j] = "running" /\ status'[j] = "done" /\ argv'[j] = argv[j]
     /\ outcome'[j] = result[attempt[j]] /\ outcome'[j] # "none" /\ UNCHANGED <<jobOf, result, fs, pc>>
  \/ status[j] = "running" /\ status'[j] = "queued" /\ outcome'[j] = outcome[j]
  \/ status[j] = "running" /\ status'[j] = "done" /\ outcome'[j] = "interrupted"

\* Nothing else happens to a job.
LEMMA JobStep ==
  ASSUME TypeOK, [Next]_vars, NEW j \in Job
  PROVE  JobMoves(j)
<1> USE DEF TypeOK, JobsOK, Q!TypeOK
<1>1. CASE UNCHANGED <<status, outcome, attempt, argv>>
  BY <1>1 DEF JobMoves
<1>2. ASSUME NEW names, Submit(names)
      PROVE  JobMoves(j)
  <2>1. PICK J \in SUBSET Job : \E f \in Bijection(J, {n \in names : ~Pending(n)}) :
          /\ Q!Submit(J)
          /\ argv' = [i \in Job |-> IF i \in J THEN f[i] ELSE argv[i]]
    BY <1>2 DEF Submit
  <2>2. PICK f : Q!Submit(J) /\ argv' = [i \in Job |-> IF i \in J THEN f[i] ELSE argv[i]]
    BY <2>1
  <2>3. CASE j \in J
    BY <2>2, <2>3 DEF Q!Submit, JobMoves
  <2>4. CASE j \notin J
    BY <2>2, <2>4 DEF Q!Submit, JobMoves
  <2> QED
    BY <2>3, <2>4
<1>3. ASSUME NEW b \in Attempt, Convert(b) \/ Interrupt(b)
      PROVE  UNCHANGED <<status, outcome, attempt, argv>>
  <2>1. UNCHANGED argv
    BY <1>3 DEF Convert, Collect, OutputLock, Stat, Validate, Backup, Replace, ArchiveCheck,
      LinkSource, UnlinkSource, LinkOutput, UnlinkOutput, Restore, Unrestore, Finish, Interrupt, jobs
  <2>2. UNCHANGED queue \/ \E r \in {"ok", "fail"} : Q!Return(b, r)
    BY <1>3 DEF Convert, Collect, OutputLock, Stat, Validate, Backup, Replace, ArchiveCheck,
      LinkSource, UnlinkSource, LinkOutput, UnlinkOutput, Restore, Unrestore, Finish, Interrupt,
      Proceed, Return, jobs
  <2> QED
    BY <2>1, <2>2 DEF queue, Q!Return
<1>4. ASSUME NEW b \in Attempt, Encoder(b) \/ Reap(b) \/ Kill(b)
      PROVE  UNCHANGED <<status, outcome, attempt, argv>>
  BY <1>4 DEF Encoder, EncoderOpens, EncoderEnds, Reap, Kill, jobs, queue, Q!Return
<1>5. ASSUME NEW i \in Job, Execute(i)
      PROVE  JobMoves(j)
  <2>1. CASE Record(i)
    <3>1. /\ status[i] = "running" /\ status' = [status EXCEPT ![i] = "done"]
          /\ outcome' = [outcome EXCEPT ![i] = result[attempt[i]]] /\ result[attempt[i]] # "none"
          /\ UNCHANGED <<attempt, argv, jobOf, result, fs, pc>>
      BY <2>1 DEF Record, Q!Record, attempts, dirs
    <3>2. CASE i = j
      BY <3>1, <3>2 DEF JobMoves
    <3>3. CASE i # j
      BY <3>1, <3>3 DEF JobMoves
    <3> QED
      BY <3>2, <3>3
  <2>2. CASE Release(i)
    BY <1>1, <2>2 DEF Release, queue
  <2>3. CASE Requeue(i)
    BY <2>3 DEF Requeue, Q!Requeue, JobMoves
  <2>4. CASE Lose(i)
    BY <2>4 DEF Lose, Q!Lose, JobMoves
  <2>5. ASSUME NEW a \in Attempt, Start(i, a)
        PROVE  JobMoves(j)
    BY <2>5 DEF Start, Q!Start, JobMoves
  <2> QED
    BY <1>5, <2>1, <2>2, <2>3, <2>4, <2>5 DEF Execute
<1>6. CASE Watch \/ WatcherCrash
  BY <1>1, <1>2, <1>6 DEF Watch, WatcherStart, WatcherScan, WatcherBacklog, WatcherSubmit,
    WatcherLink, WatcherUnlink, WatcherTake, WatcherCrash, jobs, queue
<1>7. ASSUME NEW v \in Video, Deliver(v) \/ Rewrite(v)
      PROVE  UNCHANGED <<status, outcome, attempt, argv>>
  BY <1>7 DEF Deliver, Rewrite, jobs, queue
<1> QED
  BY <1>1, <1>3, <1>4, <1>5, <1>6, <1>7 DEF Next, vars, jobs, queue

\* Attempts keep their jobs, and what is decided stays so.
LEMMA OutcomesStep ==
  ASSUME TypeOK, Assigned, Outcomes, [Next]_vars
  PROVE  Outcomes'
<1> USE DEF TypeOK, JobsOK, Q!TypeOK, AttemptsOK
<1>1. ASSUME NEW a \in Attempt, a \in begun
      PROVE  a \in begun' /\ jobOf'[a] = jobOf[a]
  <2>1. pc[a] # "idle"
    BY <1>1 DEF Assigned
  <2>2. jobOf'[a] = jobOf[a] /\ pc'[a] # "idle"
    BY <2>1, Kept
  <2>3. a \in begun'
    BY <2>2, AssignedStep DEF Assigned
  <2> QED
    BY <2>2, <2>3
<1>2. ASSUME NEW j \in Job, status'[j] = "running"
      PROVE  attempt'[j] \in begun' /\ jobOf'[attempt'[j]] = j
  <2>1. CASE \E a \in Attempt : Start(j, a)
    BY <2>1 DEF Start, Q!Start
  <2>2. CASE status'[j] = status[j] /\ attempt'[j] = attempt[j]
    <3>1. attempt[j] \in begun /\ jobOf[attempt[j]] = j
      BY <1>2, <2>2 DEF Outcomes
    <3> QED
      BY <1>1, <2>2, <3>1
  <2> QED
    BY <1>2, <2>1, <2>2, JobStep DEF JobMoves
<1>3. ASSUME NEW j \in Job, outcome'[j] # "none"
      PROVE  status'[j] = "done"
  <2>1. outcome[j] # "none" => status[j] = "done"
    BY DEF Outcomes
  <2> QED
    BY <1>3, <2>1, JobStep DEF JobMoves
<1>4. ASSUME NEW a \in Attempt, result'[a] # "none"
      PROVE  pc'[a] = "ended"
  <2>1. CASE result'[a] = result[a]
    <3>1. pc[a] = "ended"
      BY <1>4, <2>1 DEF Outcomes
    <3>2. a \in begun
      BY <3>1 DEF Assigned
    <3>3. pc'[a] = pc[a]
      BY <3>1, <3>2, OwnPosition DEF Convert, Collect, OutputLock, Stat, Validate, Backup, Replace,
        ArchiveCheck, LinkSource, UnlinkSource, LinkOutput, UnlinkOutput, Restore, Unrestore, Finish,
        Reap, Interrupt, Kill, Over, Start, Q!Start
    <3> QED
      BY <3>1, <3>3
  <2>2. CASE result'[a] # result[a]
    BY <2>2, ResultMoves
  <2> QED
    BY <2>1, <2>2
<1> QED
  BY <1>2, <1>3, <1>4 DEF Outcomes

\* A source becomes one that succeeded when an attempt finishes it.
LEMMA NewSuccess ==
  ASSUME TypeOK, Assigned, Outcomes, AllEligible, [Next]_vars, NEW n \in Name, Succeeded(n)'
  PROVE  Succeeded(n) \/ \E a \in Attempt : Finish(a) /\ Source(a) = n
<1>1. ASSUME NEW a \in Attempt, result'[a] = "ok", Source(a)' = n
      PROVE  Succeeded(n) \/ (Finish(a) /\ Source(a) = n)
  <2>1. CASE result[a] = "ok"
    <3>1. pc[a] # "idle"
      BY <2>1 DEF Outcomes
    <3> QED
      BY <1>1, <2>1, <3>1, Kept DEF Succeeded
  <2>2. CASE result[a] # "ok"
    <3>1. ~Collect(a) \/ Eligible(InQueue(Source(a))) \/ ~Exists(InQueue(Source(a)))
      <4>1. SUFFICES ASSUME Collect(a), Exists(InQueue(Source(a)))
                     PROVE  Eligible(InQueue(Source(a)))
        OBVIOUS
      <4>2. Source(a) \in Name
        BY <4>1, AttemptHasSource DEF Collect
      <4>3. fs[InQueue(Source(a))] \in Video
        BY <4>1, <4>2 DEF Exists, TypeOK, FilesOK, InQueue, Dir
      <4> QED
        BY <4>1, <4>3 DEF AllEligible, Eligible
    <3>2. Finish(a)
      BY <1>1, <2>2, <3>1, ResultMoves
    <3>3. Source(a)' = Source(a)
      BY <3>2, Kept DEF Finish
    <3> QED
      BY <1>1, <3>2, <3>3
  <2> QED
    BY <2>1, <2>2
<1>2. ASSUME NEW j \in Job, outcome'[j] = "ok", argv'[j] = n
      PROVE  Succeeded(n)
  <2>1. CASE outcome[j] = "ok"
    <3>1. status[j] = "done"
      BY <2>1 DEF Outcomes
    <3>2. argv'[j] = argv[j]
      BY <3>1, JobStep DEF JobMoves
    <3> QED
      BY <1>2, <2>1, <3>2 DEF Succeeded
  <2>2. CASE outcome[j] # "ok"
    <3>1. status[j] = "running" /\ result[attempt[j]] = "ok" /\ argv[j] = n
      BY <1>2, <2>2, JobStep DEF JobMoves
    <3>2. attempt[j] \in Attempt /\ jobOf[attempt[j]] = j
      BY <3>1 DEF Outcomes, Assigned
    <3> QED
      BY <3>1, <3>2 DEF Succeeded, Source
  <2> QED
    BY <2>1, <2>2
<1> QED
  BY <1>1, <1>2 DEF Succeeded, Source

\* A success stays in the archive, because nobody begins to archive that source again.
LEMMA SuccessesStep ==
  ASSUME TypeOK, Assigned, Locked, Doubled, OwnFiles, Outcomes, Successes, [Next]_vars
  PROVE  Successes'
<1> SUFFICES ASSUME AllEligible
             PROVE  /\ \A n \in Name : Succeeded(n)' => fs'[InDone(n)] # None /\ fs'[InDone(OutOf[n])] # None
                    /\ \A a \in Attempt : pc'[a] \in Archiving => ~Succeeded(Source(a))'
  BY DEF Successes, Exists
<1>1. ASSUME NEW n \in Name, Succeeded(n)
      PROVE  fs'[InDone(n)] # None /\ fs'[InDone(OutOf[n])] # None
  <2>1. Exists(InDone(n)) /\ Exists(InDone(OutOf[n]))
    BY <1>1 DEF Successes
  <2>2. OutOf[n] \in Out /\ OutOf[n] \notin Name
    BY NamesAssumption
  <2>3. ASSUME NEW a \in Attempt, pc[a] = "unrestore", Source(a) \in {n, OutOf[n]}
        PROVE  FALSE
    <3>1. Source(a) \in Name
      BY <2>3, AttemptHasSource
    <3>2. Source(a) = n
      BY <2>2, <2>3, <3>1
    <3> QED
      BY <1>1, <2>3, <3>2 DEF Successes, Archiving
  <2> QED
    BY <2>1, <2>2, <2>3, ArchiveShrinks DEF Exists
<1>2. ASSUME NEW n \in Name, NEW a \in Attempt, Finish(a), Source(a) = n
      PROVE  fs'[InDone(n)] # None /\ fs'[InDone(OutOf[n])] # None
  <2>1. fs' = fs /\ pc[a] = "finish"
    BY <1>2 DEF Finish, dirs
  <2>2. took[a] # None /\ fs[InDone(n)] = took[a][1] /\ fs[InDone(OutOf[n])] = a
    BY <1>2, <2>1 DEF OwnFiles, Output
  <2>3. took[a][1] \in Video
    BY <2>2 DEF TypeOK, AttemptsOK
  <2> QED
    BY <2>1, <2>2, <2>3, InodesAssumption
<1>3. ASSUME NEW a \in Attempt, pc'[a] \in Archiving, Succeeded(Source(a))'
      PROVE  FALSE
  <2>1. /\ pc[a] \in Critical /\ pc[a] # "idle"
        /\ pc[a] \in Archiving \/ ArchiveCheck(a)
    <3>1. CASE pc[a] \in Archiving
      BY <3>1 DEF Archiving, Critical, PC, Over
    <3>2. CASE pc[a] \notin Archiving
      <4>1. Convert(a)
        BY <1>3, <3>2, OwnPosition DEF Reap, Interrupt, Kill, Start, Return, Goto, Proceed, Archiving,
          TypeOK, AttemptsOK
      <4>2. ArchiveCheck(a)
        BY <1>3, <3>2, <4>1 DEF Convert, Collect, OutputLock, Stat, Validate, Backup, Replace,
          LinkSource, UnlinkSource, LinkOutput, UnlinkOutput, Restore, Unrestore, Finish, Proceed,
          Return, Goto, Archiving, TypeOK, AttemptsOK
      <4> QED
        BY <4>2 DEF ArchiveCheck, Critical, PC, Over
    <3> QED
      BY <3>1, <3>2
  <2>2. Source(a)' = Source(a) /\ Source(a) \in Name
    BY <2>1, Kept, AttemptHasSource
  <2>3. ~Succeeded(Source(a))
    <3>1. CASE pc[a] \in Archiving
      BY <3>1 DEF Successes
    <3>2. CASE ArchiveCheck(a)
      <4>1. ~Exists(InDone(Source(a)))
        BY <1>3, <3>2 DEF ArchiveCheck, Return, Goto, Archiving, TypeOK, AttemptsOK
      <4> QED
        BY <2>2, <4>1 DEF Successes
    <3> QED
      BY <2>1, <3>1, <3>2
  <2>4. Succeeded(Source(a))' <=> \E n \in Name : n = Source(a) /\ Succeeded(n)'
    BY <2>2 DEF Succeeded, Source
  <2>5. PICK b \in Attempt : Finish(b) /\ Source(b) = Source(a)
    BY <1>3, <2>2, <2>3, <2>4, NewSuccess
  <2>6. pc[b] = "finish" /\ pc'[b] = "ended"
    BY <2>5 DEF Finish, Return, Goto, TypeOK, AttemptsOK
  <2>7. b = a
    BY <2>1, <2>5, <2>6, Exclusive DEF Output, Critical, PC, Over
  <2> QED
    BY <1>3, <2>6, <2>7 DEF Archiving
<1>4. \A n \in Name : Succeeded(n)' => Succeeded(n) \/ \E a \in Attempt : Finish(a) /\ Source(a) = n
  BY NewSuccess
<1> QED
  BY <1>1, <1>2, <1>3, <1>4

-----------------------------------------------------------------------------
(***************************************************************************)
(* The inductive invariant.                                                *)
(***************************************************************************)

\* It holds when nothing has been delivered and nothing submitted.
LEMMA InitIInv == Init => IInv
<1> SUFFICES ASSUME Init
             PROVE  IInv
  OBVIOUS
<1>1. TypeOK
  BY BoundsAssumption DEF Init, TypeOK, FilesOK, JobsOK, Q!Init, Q!TypeOK, AttemptsOK,
    WatcherOK, WatcherPC, Path, PC, EncState
<1>2. Assigned /\ Locked /\ Encoded
  BY DEF Init, Q!Init, Assigned, Locked, Encoded, Critical, Over
<1>3. Doubled
  BY DEF Init, Doubled
<1>4. NoVideoLost /\ NoOutputLost
  BY DEF Init, NoVideoLost, NoOutputLost
<1>5. OutputsAreWhole
  BY InodesAssumption DEF Init, OutputsAreWhole, LinkedAt, Range
<1>6. OwnFiles /\ Outcomes
  BY DEF Init, Q!Init, OwnFiles, Outcomes
<1>7. Successes
  BY DEF Init, Q!Init, Successes, Succeeded, Archiving
<1>8. ArchivedPairsMatch
  BY DEF Init, ArchivedPairsMatch, InDone, Path, Dir
<1> QED
  BY <1>1, <1>2, <1>3, <1>4, <1>5, <1>6, <1>7, <1>8 DEF IInv

\* Every step keeps it.
LEMMA IInvStep == IInv /\ [Next]_vars => IInv'
BY TypeStep, AssignedStep, LockedStep, DoubledStep, EncodedStep, VideosStep, OutputsStep,
   WholeStep, OwnFilesStep, OutcomesStep, SuccessesStep, PairsStep DEF IInv

\* The inductive invariant holds in every reachable state.
THEOREM Invariance == Spec => []IInv
BY InitIInv, IInvStep, PTL DEF Spec

\* Every part of the state keeps its type, for any number of jobs, attempts and files.
THEOREM TypeCorrect == Spec => []TypeOK
<1>1. IInv => TypeOK
  BY DEF IInv
<1> QED
  BY <1>1, Invariance, PTL

\* No delivered video is ever without a name, whatever the watcher, any number of conversions
\* and the faults do: the promise behind "archive moves refuse collisions".
THEOREM VideosSurvive == Spec => []NoVideoLost
<1>1. IInv => NoVideoLost
  BY DEF IInv
<1> QED
  BY <1>1, Invariance, PTL

\* No published output is ever without a name or a backup.
THEOREM OutputsSurvive == Spec => []NoOutputLost
<1>1. IInv => NoOutputLost
  BY DEF IInv
<1> QED
  BY <1>1, Invariance, PTL

\* No incomplete encoding, and none of a source that changed meanwhile, is ever published.
THEOREM WholeOutputs == Spec => []OutputsAreWhole
<1>1. IInv => OutputsAreWhole
  BY DEF IInv
<1> QED
  BY <1>1, Invariance, PTL
\* What is archived is true: matching names belong together, and what is recorded as converted
\* is there with an output.
THEOREM ArchiveTells == Spec => []ArchiveIsTrue
<1>1. IInv => SuccessIsArchived
  <2>1. SUFFICES ASSUME IInv, NEW j \in Job, outcome[j] = "ok", AllEligible
                 PROVE  Exists(InDone(argv[j])) /\ Exists(InDone(OutOf[argv[j]]))
    BY DEF SuccessIsArchived, AllEligible
  <2>2. argv[j] \in Name
    BY <2>1 DEF IInv, Outcomes, Assigned
  <2> QED
    BY <2>1, <2>2 DEF IInv, Successes, Succeeded
<1>2. IInv => ArchiveIsTrue
  BY <1>1 DEF IInv, ArchiveIsTrue
<1> QED
  BY <1>2, Invariance, PTL

\* "Archive moves refuse collisions": nothing is overwritten, and nothing taken back but by the
\* attempt that brought it, which has it in queue/ again.
THEOREM ArchiveOnlyGrows == Spec => ArchiveIsAppendOnly
<1> DEFINE Keeps ==
      \A f \in Name \cup Out :
        Exists(InDone(f)) /\ fs'[InDone(f)] # fs[InDone(f)]
        => /\ fs'[InDone(f)] = None
           /\ fs[InQueue(f)] = fs[InDone(f)]
           /\ \E a \in Attempt : /\ pc[a] = "unrestore" /\ Source(a) = f
                                /\ took[a][1] = fs[InDone(f)]
<1>1. IInv /\ [Next]_vars => [Keeps]_vars
  BY ArchiveShrinks DEF IInv
<1> QED
  BY <1>1, Invariance, PTL DEF Spec, ArchiveIsAppendOnly

\* The archive is kept, whatever is interrupted, killed, replayed or delivered meanwhile.
THEOREM ArchiveKept == Spec => ArchiveIsKept
BY ArchiveTells, ArchiveOnlyGrows, PTL DEF ArchiveIsKept
=============================================================================

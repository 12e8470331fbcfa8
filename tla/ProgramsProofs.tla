--------------------------- MODULE ProgramsProofs ---------------------------
(***************************************************************************)
(* Proofs about BashJobs, for any number of records, slots, coordinators   *)
(* and interferences, and about VcvtBatch, for any files, calls and        *)
(* interferences.                                                          *)
(*                                                                         *)
(* BashJobs: between two steps the properties do not say enough.  That no  *)
(* record is lost when an event is handled needs that a failure has been   *)
(* told before the end that follows it, or could not be, which needs that  *)
(* panes and tables agree on a job's record; and that the slots are        *)
(* enough needs that a job's pane has ended when its end is read.  Both    *)
(* rest on job numbers that are used once in a coordinator's life, which   *)
(* is why all of it ends where an event of a former coordinator is read.   *)
(*                                                                         *)
(* VcvtBatch: what a call promises when it has ended follows from what     *)
(* holds of each of its files meanwhile: it waits for its turn or has its  *)
(* encoding, or the call fails.  That rests on plain files, which nobody   *)
(* but the user writes, as outputs and backups are recognised as such.     *)
(***************************************************************************)
EXTENDS BashJobs, VcvtBatch, FiniteSetTheorems, WellFoundedInduction, TLAPS

-----------------------------------------------------------------------------
(* The Bash executor: the inductive invariant *)

\* The types of the state.
Event   == [gen : Nat, job : Nat, state : {"dead", "fail", "done"}, ok : BOOLEAN]
JobPane == [gen : Nat, job : Nat, record : Submission, st : {"run", "held", "dead"},
            titled : BOOLEAN, mapped : BOOLEAN, resume : BOOLEAN]
Waits   == {"none", "locked", "requeued"}   \* it has not begun, or has gone
Claims  == {"popped", "claimed", "dispatched"}
JobTable == UNION {[S -> Submission] : S \in SUBSET Nat}
Leading == [pc : Waits \cup Claims \cup {"starting", "reading", "leaving"}, gen : Nat, seq : Nat,
            claim : SUBSET Submission, jobs : JobTable,
            failed : SUBSET Nat]

BashTyped ==
  /\ \E n \in Nat : submitted = 1 .. n /\ n <= MaxRecords
  /\ queueTxt \in Seq(Submission) /\ ToSet(queueTxt) \subseteq submitted
  /\ inflight \in Seq(Submission) /\ ToSet(inflight) \subseteq submitted
  /\ logs \subseteq Submission \X {"ok", "failed", "interrupted"}
  /\ coord \in Leading /\ panes \subseteq JobPane
  /\ eventsFifo \in Seq(Event) /\ blocked \subseteq {e \in Event : e.state = "dead"}
  /\ torn \subseteq submitted /\ untold \subseteq Submission /\ confused \in BOOLEAN
  /\ starts \in [Submission -> Nat] /\ meddled \in Nat

\* What a coordinator knows at which point of its loop.
CoordOK ==
  /\ coord.pc \in Waits =>
       coord.seq = 0 /\ DOMAIN coord.jobs = {} /\ coord.failed = {} /\ eventsFifo = << >>
  /\ IF coord.pc \in Claims THEN \E r \in submitted : coord.claim = {r} ELSE coord.claim = {}
  /\ coord.pc \in {"claimed", "dispatched"} =>
       coord.seq > 0 /\ coord.claim \subseteq ToSet(inflight)
  /\ coord.pc = "requeued" => ToSet(inflight) \subseteq ToSet(queueTxt)
  /\ \A j \in DOMAIN coord.jobs \cup coord.failed :
       1 <= j /\ j <= coord.seq /\ (coord.pc \in {"claimed", "dispatched"} => j < coord.seq)
  /\ Running <= Slots /\ (coord.pc \in Claims => Running < Slots)
  /\ coord.pc = "leaving" => Running = 0
  /\ coord.gen <= MaxCoordinators

Known(x) ==  \* a pane or an event
  /\ x.gen <= coord.gen
  /\ x.gen = coord.gen =>
       /\ coord.pc \notin {"locked", "requeued"}
       /\ coord.pc # "none" => x.job <= coord.seq /\ (coord.pc = "claimed" => x.job < coord.seq)

\* A job has one pane, and the events are those of its coordinator's panes.
NumbersOK ==
  /\ \A p \in panes : Known(p)
  /\ \A p, q \in panes : p.gen = q.gen /\ p.job = q.job => p = q
  /\ \A e \in blocked : Known(e)
  /\ \A e \in ToSet(eventsFifo) : Known(e)

Present(e, job, states) == e.gen = coord.gen /\ e.job = job /\ e.state \in states
LiveJobs == {p.job : p \in LiveCoord}

\* Whoever told that he has ended has ended, and no pane fails without trying to tell.
EventsOK ==
  /\ \A e \in blocked : e.gen = coord.gen => e.job \notin LiveJobs
  /\ \A e \in ToSet(eventsFifo) : \A p \in panes : p.gen = coord.gen =>
       /\ Present(e, p.job, {"dead"}) => p.st = "dead"
       /\ ~Present(e, p.job, {"done"})
  /\ \A k \in DOMAIN eventsFifo : \A i \in 1 .. k - 1 :
       ~(Present(eventsFifo[i], eventsFifo[k].job, {"done"}) /\ eventsFifo[k].gen = coord.gen
           /\ eventsFifo[k].state \in {"fail", "done"})

\* Which record a job is of: the coordinator's tables agree with the panes.
JobIs(j, r) == /\ j \in DOMAIN coord.jobs => coord.jobs[j] = r
               /\ coord.pc = "dispatched" /\ j = coord.seq => coord.claim = {r}
PanesMatch == \A p \in panes : p.gen = coord.gen => JobIs(p.job, p.record)

\* The failure of a job could not be told, if it is one that is known.
NotTold(j) == /\ j \in DOMAIN coord.jobs => coord.jobs[j] \in untold
              /\ coord.pc = "dispatched" /\ j = coord.seq => coord.claim \subseteq untold
ToldFailure(job, upto) ==
  \/ job \in coord.failed \/ NotTold(job)
  \/ \E k \in DOMAIN eventsFifo : k <= upto /\ Present(eventsFifo[k], job, {"fail"})
FailuresTold ==
  /\ \A p \in panes : p.gen = coord.gen /\ p.st = "held" /\ coord.pc # "none"
       => ToldFailure(p.job, Len(eventsFifo))
  /\ \A k \in DOMAIN eventsFifo :
       Present(eventsFifo[k], eventsFifo[k].job, {"done"}) /\ ~eventsFifo[k].ok
         => ToldFailure(eventsFifo[k].job, k - 1)

\* Each record is somewhere.
Logged(r)   == \E l \in logs : l[1] = r
RecordsKept == \A r \in submitted \ (torn \cup untold) :
                 r \in ToSet(queueTxt) \cup ToSet(inflight) \cup coord.claim \/ Logged(r)

\* Each pane that lives has its slot.
Pending(j) == j \in DOMAIN coord.jobs \/ (coord.pc = "dispatched" /\ j = coord.seq)
SlotsKept ==
  /\ coord.pc # "none" => \A j \in LiveJobs : Pending(j)
  /\ IsFiniteSet(LiveJobs) /\ Cardinality(LiveJobs) <= Slots

\* While nobody meddles nothing is left behind, and nothing comes back.
Distinct(s) == \A i, j \in DOMAIN s : s[i] = s[j] => i = j
CalmOK ==
  /\ ~confused /\ blocked = {}
  /\ \A p \in panes : p.gen = coord.gen /\ p.st # "dead"
  /\ \A e \in ToSet(eventsFifo) : Present(e, e.job, {"fail", "done"}) /\ Pending(e.job)
  /\ coord.pc \in Waits => panes = {} /\ inflight = << >>
  /\ Distinct(queueTxt) /\ Distinct(inflight)
  /\ \A r \in ToSet(inflight) :
       \/ \E j \in DOMAIN coord.jobs \ coord.failed : coord.jobs[j] = r
       \/ coord.pc \in {"claimed", "dispatched"} /\ r \in coord.claim
  /\ \A r \in ToSet(queueTxt) : starts[r] = 0 /\ r \notin ToSet(inflight) \cup coord.claim
  /\ \A r \in coord.claim : coord.pc \in {"popped", "claimed"} => starts[r] = 0
  /\ coord.pc = "popped" => coord.claim \cap ToSet(inflight) = {}
  /\ \A r \in Submission : starts[r] <= 1 /\ (r \notin submitted => starts[r] = 0)

BashSound ==
  /\ CoordOK /\ NumbersOK /\ EventsOK /\ PanesMatch
  /\ ~confused => FailuresTold /\ RecordsKept /\ SlotsKept
  /\ meddled = 0 => CalmOK
BashIInv == BashTyped /\ BashSound

-----------------------------------------------------------------------------
(* Files are sequences of lines. *)

\* The least number of a set of numbers, of which there is one.
LEMMA LeastExists ==
  ASSUME NEW n \in Nat, NEW I \in SUBSET (1 .. n), I # {}
  PROVE  \E x \in I : \A y \in I : x <= y
<1> DEFINE Part(k) == I \cap (1 .. k)
<1> DEFINE Parts == {Part(k) : k \in I}
<1>1. Parts \subseteq FiniteSubsetsOf(I) /\ Parts # {}
  <2>1. IsFiniteSet(1 .. n)
    BY FS_Interval
  <2>2. IsFiniteSet(I)
    BY <2>1, FS_Subset
  <2>3. \A k \in I : Part(k) \in SUBSET I
    OBVIOUS
  <2>4. \A k \in I : IsFiniteSet(Part(k))
    BY <2>2, <2>3, FS_Subset
  <2> QED BY <2>3, <2>4 DEF FiniteSubsetsOf
<1>2. PICK x \in Parts : \A y \in Parts : ~(<<y, x>> \in StrictSubsetOrdering(I))
  BY <1>1, FS_StrictSubsetOrderingWellFounded, WFMin
<1>3. PICK k \in I : x = Part(k)
  OBVIOUS
<1>4. ASSUME NEW j \in I, j < k PROVE FALSE
  <2>1. Part(j) \subseteq Part(k) /\ k \notin Part(j) /\ k \in Part(k)
    BY <1>4
  <2>2. <<Part(j), x>> \in StrictSubsetOrdering(I)
    BY <2>1, <1>3 DEF StrictSubsetOrdering
  <2> QED BY <2>2, <1>2
<1> QED
  BY <1>4

\* A line is in a file if it has a place there.
LEMMA InLines ==
  ASSUME NEW S, NEW s \in Seq(S), NEW x
  PROVE  x \in ToSet(s) <=> \E i \in 1 .. Len(s) : s[i] = x
BY DEF ToSet

\* The members of a file to which a line is appended.
LEMMA LinesAppended ==
  ASSUME NEW S, NEW s \in Seq(S), NEW x \in S
  PROVE  /\ Append(s, x) \in Seq(S) /\ ToSet(Append(s, x)) = ToSet(s) \cup {x}
         /\ Distinct(s) /\ x \notin ToSet(s) => Distinct(Append(s, x))
<1>1. Append(s, x) \in Seq(S) /\ Len(Append(s, x)) = Len(s) + 1
  OBVIOUS
<1>2. \A i \in 1 .. Len(s) + 1 : Append(s, x)[i] = IF i = Len(s) + 1 THEN x ELSE s[i]
  OBVIOUS
<1>3. Distinct(s) /\ x \notin ToSet(s) => Distinct(Append(s, x))
  BY <1>1, <1>2 DEF Distinct, ToSet
<1>4. ToSet(Append(s, x)) = ToSet(s) \cup {x}
  <2>1. \A y : y \in ToSet(s) <=> \E i \in 1 .. Len(s) : s[i] = y
    BY InLines
  <2>2. \A y : y \in ToSet(Append(s, x)) <=> \E i \in 1 .. Len(s) + 1 : Append(s, x)[i] = y
    BY <1>1, InLines
  <2>3. Len(s) \in Nat
    OBVIOUS
  <2> DEFINE t == Append(s, x)
  <2>4. ASSUME NEW y, y \in ToSet(t) PROVE y \in ToSet(s) \cup {x}
    <3>1. PICK i \in 1 .. Len(s) + 1 : t[i] = y
      BY <2>2, <2>4
    <3> QED BY <1>2, <2>1, <2>3, <3>1
  <2>5. ASSUME NEW y \in ToSet(s) \cup {x} PROVE y \in ToSet(t)
    BY <1>2, <2>1, <2>2, <2>3
  <2> QED BY <2>4, <2>5
<1> QED BY <1>1, <1>3, <1>4

\* The members of a file that is appended to another.
LEMMA FilesJoined ==
  ASSUME NEW S, NEW s \in Seq(S), NEW t \in Seq(S)
  PROVE  /\ s \o t \in Seq(S) /\ ToSet(s \o t) = ToSet(s) \cup ToSet(t)
         /\ Len(s \o t) = Len(s) + Len(t) /\ Len(s) \in Nat /\ Len(t) \in Nat
         /\ \A i \in 1 .. Len(s) + Len(t) :
              (s \o t)[i] = IF i <= Len(s) THEN s[i] ELSE t[i - Len(s)]
<1>1. s \o t \in Seq(S) /\ Len(s \o t) = Len(s) + Len(t)
  OBVIOUS
<1>2. \A i \in 1 .. Len(s) + Len(t) :
        (s \o t)[i] = IF i <= Len(s) THEN s[i] ELSE t[i - Len(s)]
  OBVIOUS
<1>3. ToSet(s \o t) \subseteq ToSet(s) \cup ToSet(t)
  BY <1>1, <1>2 DEF ToSet
<1>4. \A i \in 1 .. Len(s) : s[i] = (s \o t)[i] /\ i \in 1 .. Len(s) + Len(t)
  BY <1>2
<1>5. \A i \in 1 .. Len(t) : t[i] = (s \o t)[i + Len(s)] /\ i + Len(s) \in 1 .. Len(s) + Len(t)
  BY <1>2
<1>6. ASSUME NEW y \in ToSet(s) \cup ToSet(t) PROVE y \in ToSet(s \o t)
  <2>1. /\ \A z : z \in ToSet(s) <=> \E i \in 1 .. Len(s) : s[i] = z
        /\ \A z : z \in ToSet(t) <=> \E i \in 1 .. Len(t) : t[i] = z
    BY InLines
  <2>2. \A z : z \in ToSet(s \o t) <=> \E i \in 1 .. Len(s) + Len(t) : (s \o t)[i] = z
    BY <1>1, InLines
  <2> QED BY <1>4, <1>5, <2>1, <2>2
<1> QED BY <1>1, <1>2, <1>3, <1>6

\* The members of a file whose first line is taken.
LEMMA FirstTaken ==
  ASSUME NEW S, NEW s \in Seq(S), s # << >>
  PROVE  /\ Tail(s) \in Seq(S) /\ Head(s) \in S /\ ToSet(s) = {Head(s)} \cup ToSet(Tail(s))
         /\ Distinct(s) => Distinct(Tail(s)) /\ Head(s) \notin ToSet(Tail(s))
<1>1. /\ Tail(s) \in Seq(S) /\ Head(s) \in S /\ Head(s) = s[1] /\ Len(s) \in Nat \ {0}
      /\ Len(Tail(s)) = Len(s) - 1
  OBVIOUS
<1>2. \A i \in 1 .. Len(s) - 1 : Tail(s)[i] = s[i + 1]
  OBVIOUS
<1>3. \A i \in 2 .. Len(s) : s[i] = Tail(s)[i - 1] /\ i - 1 \in 1 .. Len(s) - 1
  BY <1>2
<1>4. ToSet(s) = {Head(s)} \cup ToSet(Tail(s))
  <2>1. \A z : z \in ToSet(s) <=> \E i \in 1 .. Len(s) : s[i] = z
    BY InLines
  <2>2. \A z : z \in ToSet(Tail(s)) <=> \E i \in 1 .. Len(Tail(s)) : Tail(s)[i] = z
    BY <1>1, InLines
  <2>3. ASSUME NEW z, z \in ToSet(s) PROVE z \in {Head(s)} \cup ToSet(Tail(s))
    <3>1. PICK i \in 1 .. Len(s) : s[i] = z
      BY <2>1, <2>3
    <3>2. CASE i = 1
      BY <1>1, <3>1, <3>2
    <3>3. CASE i # 1
      <4>1. i - 1 \in 1 .. Len(Tail(s)) /\ Tail(s)[i - 1] = z
        BY <1>1, <1>3, <3>1, <3>3
      <4> QED BY <2>2, <4>1
    <3> QED BY <3>2, <3>3
  <2>4. ASSUME NEW z \in {Head(s)} \cup ToSet(Tail(s)) PROVE z \in ToSet(s)
    BY <1>1, <1>2, <2>1, <2>2
  <2> QED BY <2>3, <2>4
<1>5. Distinct(s) => Distinct(Tail(s)) /\ Head(s) \notin ToSet(Tail(s))
  BY <1>1, <1>2 DEF ToSet, Distinct
<1> QED BY <1>1, <1>4, <1>5

\* What is left of a file without the line at a place.
LEMMA PlaceRemoved ==
  ASSUME NEW S, NEW s \in Seq(S), NEW k \in 1 .. Len(s)
  PROVE  /\ RemoveAt(s, k) \in Seq(S) /\ Len(RemoveAt(s, k)) = Len(s) - 1 /\ Len(s) \in Nat
         /\ \A i \in 1 .. Len(s) - 1 : RemoveAt(s, k)[i] = IF i < k THEN s[i] ELSE s[i + 1]
<1> DEFINE a == SubSeq(s, 1, k - 1)
           b == SubSeq(s, k + 1, Len(s))
<1>1. a \in Seq(S) /\ Len(a) = k - 1 /\ \A i \in 1 .. k - 1 : a[i] = s[i]
  OBVIOUS
<1>2. b \in Seq(S) /\ Len(b) = Len(s) - k /\ \A i \in 1 .. Len(s) - k : b[i] = s[k + i]
  OBVIOUS
<1>3. RemoveAt(s, k) = a \o b /\ Len(s) \in Nat
  BY DEF RemoveAt
<1> HIDE DEF a, b
<1>4. /\ a \o b \in Seq(S) /\ Len(a \o b) = Len(a) + Len(b)
      /\ \A i \in 1 .. Len(a) + Len(b) : (a \o b)[i] = IF i <= Len(a) THEN a[i] ELSE b[i - Len(a)]
  BY <1>1, <1>2, FilesJoined
<1>5. ASSUME NEW i \in 1 .. Len(s) - 1 PROVE (a \o b)[i] = IF i < k THEN s[i] ELSE s[i + 1]
  <2>1. (a \o b)[i] = IF i <= k - 1 THEN a[i] ELSE b[i - (k - 1)]
    BY <1>1, <1>2, <1>3, <1>4
  <2>2. CASE i < k
    BY <1>1, <2>1, <2>2
  <2>3. CASE ~(i < k)
    <3>1. i - (k - 1) \in 1 .. Len(s) - k /\ k + (i - (k - 1)) = i + 1
      <4>1. k \in Nat /\ i \in Nat /\ i >= k /\ i <= Len(s) - 1
        BY <1>3, <2>3
      <4> QED BY <1>3, <4>1
    <3>2. b[i - (k - 1)] = s[i + 1]
      BY <1>2, <3>1
    <3>3. ~(i <= k - 1)
      BY <1>3, <2>3
    <3> QED BY <2>1, <2>3, <3>2, <3>3
  <2> QED BY <1>3, <2>2, <2>3
<1> QED BY <1>1, <1>2, <1>3, <1>4, <1>5

\* _inflight_remove takes one line, and of lines that differ the one that is the record.
LEMMA LineRemoved ==
  ASSUME NEW S, NEW s \in Seq(S), NEW r
  PROVE  LET t == InflightRemove(s, r) IN
         /\ t \in Seq(S) /\ ToSet(t) \subseteq ToSet(s)
         /\ \A x \in ToSet(s) : x # r => x \in ToSet(t)
         /\ Distinct(s) => Distinct(t) /\ r \notin ToSet(t)
<1> DEFINE t == InflightRemove(s, r)
<1>1. CASE r \notin ToSet(s)
  BY <1>1 DEF InflightRemove
<1>2. CASE r \in ToSet(s)
  <2> DEFINE I == {i \in 1 .. Len(s) : s[i] = r}
  <2>1. I # {} /\ I \subseteq 1 .. Len(s) /\ Len(s) \in Nat
    BY <1>2 DEF ToSet
  <2>2. PICK least \in I : \A y \in I : least <= y
    BY <2>1, LeastExists
  <2>3. \E k \in DOMAIN s : s[k] = r /\ \A i \in 1 .. k - 1 : s[i] # r
    BY <2>1, <2>2
  <2>4. PICK k \in 1 .. Len(s) : s[k] = r /\ t = RemoveAt(s, k)
    <3> DEFINE c == CHOOSE k \in DOMAIN s : s[k] = r /\ \A i \in 1 .. k - 1 : s[i] # r
    <3>1. c \in DOMAIN s /\ s[c] = r
      BY <2>3
    <3>2. t = RemoveAt(s, c)
      BY <1>2 DEF InflightRemove
    <3> HIDE DEF c, t
    <3> QED BY <3>1, <3>2
  <2> HIDE DEF t
  <2>5. t \in Seq(S) /\ Len(t) = Len(s) - 1 /\ Len(s) \in Nat
    BY <2>4, PlaceRemoved
  <2>6. \A i \in 1 .. Len(s) - 1 : t[i] = IF i < k THEN s[i] ELSE s[i + 1]
    BY <2>4, PlaceRemoved
  <2>e. /\ \A z : z \in ToSet(s) <=> \E i \in 1 .. Len(s) : s[i] = z
        /\ \A z : z \in ToSet(t) <=> \E i \in 1 .. Len(t) : t[i] = z
    BY <2>5, InLines
  <2>7. \A y \in ToSet(t) : y \in ToSet(s)
    BY <2>4, <2>5, <2>6, <2>e
  <2>8. ASSUME NEW i \in 1 .. Len(s), s[i] # r PROVE s[i] \in ToSet(t)
    <3>1. i # k
      BY <2>4, <2>8
    <3>2. CASE i < k
      <4>1. t[i] = s[i] /\ i \in 1 .. Len(t)
        BY <2>4, <2>5, <2>6, <3>2
      <4> QED BY <4>1, <2>e
    <3>3. CASE i > k
      <4>1. t[i - 1] = s[i] /\ i - 1 \in 1 .. Len(t)
        BY <2>4, <2>5, <2>6, <3>3
      <4> QED BY <4>1, <2>e
    <3> QED BY <3>1, <3>2, <3>3
  <2>9. ASSUME Distinct(s) PROVE Distinct(t) /\ r \notin ToSet(t)
    <3>1. \A i, j \in 1 .. Len(s) : s[i] = s[j] => i = j
      BY <2>9 DEF Distinct
    <3>2. \A i, j \in 1 .. Len(t) : t[i] = t[j] => i = j
      BY <2>4, <2>5, <2>6, <3>1
    <3>3. Distinct(t)
      BY <2>5, <3>2 DEF Distinct
    <3>4. \A i \in 1 .. Len(t) : t[i] # r
      BY <2>4, <2>5, <2>6, <3>1
    <3> QED BY <2>e, <3>3, <3>4
  <2>d. \A x \in ToSet(s) : x # r => x \in ToSet(t)
    BY <2>8, <2>e
  <2> QED BY <2>5, <2>7, <2>d, <2>9 DEF t
<1> QED BY <1>1, <1>2

-----------------------------------------------------------------------------
(* The types are kept. *)

\* The jobs that the coordinator has in its tables.
LEMMA JobsTyped ==
  ASSUME BashTyped, NEW job \in Nat, NEW r \in Submission
  PROVE  /\ coord.jobs \in JobTable /\ Enqueued(job, r) \in JobTable
         /\ Forgotten(job) \in JobTable
         /\ DOMAIN Enqueued(job, r) = DOMAIN coord.jobs \cup {job}
         /\ DOMAIN Forgotten(job) = DOMAIN coord.jobs \ {job}
<1>1. coord.jobs \in JobTable
  BY DEF BashTyped, Leading
<1>2. PICK S \in SUBSET Nat : coord.jobs \in [S -> Submission]
  BY <1>1 DEF JobTable
<1>3. Enqueued(job, r) \in [S \cup {job} -> Submission] /\ S \cup {job} \in SUBSET Nat
  BY <1>2 DEF Enqueued
<1>4. Forgotten(job) \in [S \ {job} -> Submission] /\ S \ {job} \in SUBSET Nat
  BY <1>2 DEF Forgotten
<1>5. Enqueued(job, r) \in JobTable
  BY <1>3 DEF JobTable
<1>6. Forgotten(job) \in JobTable
  BY <1>4 DEF JobTable
<1> QED BY <1>1, <1>5, <1>6 DEF Enqueued, Forgotten

\* A job of theirs has a number and a record.
LEMMA JobTyped ==
  ASSUME BashTyped, NEW j \in DOMAIN coord.jobs
  PROVE  j \in Nat /\ coord.jobs[j] \in Submission
<1>1. PICK S \in SUBSET Nat : coord.jobs \in [S -> Submission]
  BY DEF BashTyped, Leading, JobTable
<1> QED BY <1>1

\* The fields of the coordinator's state.
LEMMA CoordTyped ==
  ASSUME BashTyped
  PROVE  /\ coord = [pc |-> coord.pc, gen |-> coord.gen, seq |-> coord.seq, claim |-> coord.claim,
                     jobs |-> coord.jobs, failed |-> coord.failed]
         /\ coord.pc \in Waits \cup Claims \cup {"starting", "reading", "leaving"}
         /\ coord.gen \in Nat /\ coord.seq \in Nat /\ coord.claim \subseteq Submission
         /\ coord.jobs \in JobTable /\ coord.failed \subseteq Nat
<1>1. coord \in Leading
  BY DEF BashTyped
<1> QED BY <1>1 DEF Leading

\* The events of a pane are events.
LEMMA EmitTyped ==
  ASSUME BashTyped, NEW p \in panes, NEW state \in {"dead", "fail", "done"}, NEW ok \in BOOLEAN,
         Emit(p, state, ok)
  PROVE  eventsFifo' \in Seq(Event) /\ untold' \subseteq Submission
<1> DEFINE e == [gen |-> p.gen, job |-> p.job, state |-> state, ok |-> ok]
<1>1. p \in JobPane /\ eventsFifo \in Seq(Event)
  BY DEF BashTyped
<1>2. p.gen \in Nat /\ p.job \in Nat
  BY <1>1 DEF JobPane
<1>3. e \in Event
  BY <1>2 DEF Event
<1>4. eventsFifo' = Append(eventsFifo, e) \/ eventsFifo' = eventsFifo
  BY DEF Emit
<1> HIDE DEF e
<1>5. p.record \in Submission
  BY <1>1 DEF JobPane
<1>6. untold' \subseteq untold \cup {p.record} /\ untold \subseteq Submission
  BY DEF Emit, BashTyped
<1> QED BY <1>1, <1>3, <1>4, <1>5, <1>6

\* No jobs are a table of jobs.
LEMMA NoJobs == << >> \in JobTable /\ DOMAIN << >> = {}
<1>1. << >> \in [{} -> Submission] /\ {} \in SUBSET Nat
  OBVIOUS
<1> QED BY <1>1 DEF JobTable

\* A coordinator that has just been started.
LEMMA LaunchTyped ==
  ASSUME BashTyped, Launch
  PROVE  /\ coord' \in Leading /\ coord'.pc = "locked" /\ coord'.gen = coord.gen + 1
         /\ coord'.seq = 0 /\ coord'.claim = {} /\ coord'.jobs = << >> /\ coord'.failed = {}
<1>1. coord.gen + 1 \in Nat
  BY CoordTyped
<1>2. coord' = [pc |-> "locked", gen |-> coord.gen + 1, seq |-> 0, claim |-> {},
                jobs |-> << >>, failed |-> {}]
  BY DEF Launch, NoCoord
<1>3. coord' \in Leading
  BY <1>1, <1>2, NoJobs DEF Leading, Waits
<1> QED BY <1>2, <1>3

\* A coordinator whose tables change.
LEMMA CoordUpdated ==
  ASSUME coord \in Leading, NEW J \in JobTable, NEW F \in SUBSET Nat
  PROVE  /\ [coord EXCEPT !.pc = "starting", !.jobs = J] \in Leading
         /\ [coord EXCEPT !.failed = F] \in Leading
         /\ [coord EXCEPT !.pc = "starting", !.jobs = J, !.failed = F] \in Leading
<1>1. [coord EXCEPT !.pc = "starting", !.jobs = J] \in Leading
  BY DEF Leading
<1>2. [coord EXCEPT !.failed = F] \in Leading
  BY DEF Leading
<1>3. [coord EXCEPT !.pc = "starting", !.jobs = J, !.failed = F] \in Leading
  BY DEF Leading
<1> QED BY <1>1, <1>2, <1>3

\* A coordinator that has gone.
LEMMA GoneTyped ==
  ASSUME BashTyped, CoordinatorGone, CoordOK
  PROVE  /\ coord' \in Leading /\ eventsFifo' = << >> /\ eventsFifo' \in Seq(Event)
         /\ torn' \subseteq submitted
         /\ coord'.pc = "none" /\ coord'.gen = coord.gen /\ coord'.seq = 0 /\ coord'.claim = {}
         /\ coord'.jobs = << >> /\ coord'.failed = {}
<1>1. coord.gen \in Nat
  BY CoordTyped
<1>2. coord' = [pc |-> "none", gen |-> coord.gen, seq |-> 0, claim |-> {},
                jobs |-> << >>, failed |-> {}]
  BY DEF CoordinatorGone, NoCoord
<1>3. coord' \in Leading
  BY <1>1, <1>2, NoJobs DEF Leading, Waits
<1>4. torn' \subseteq submitted
  BY DEF CoordinatorGone, BashTyped, CoordOK, At, Claims
<1>5. eventsFifo' = << >> /\ << >> \in Seq(Event)
  BY DEF CoordinatorGone
<1> QED BY <1>2, <1>3, <1>4, <1>5

\* Each step keeps the types.
LEMMA TypedStep ==
  ASSUME BashTyped, CoordOK, [BashNext]_bashVars
  PROVE  BashTyped'
<1> USE BashAssumption
<1> DEFINE Files == /\ queueTxt \in Seq(Submission) /\ ToSet(queueTxt) \subseteq submitted
                    /\ inflight \in Seq(Submission) /\ ToSet(inflight) \subseteq submitted
<1>0. submitted \subseteq Submission
  BY DEF BashTyped, Submission
<1>1. ASSUME NEW r \in Submission, Submit(r) PROVE BashTyped'
  <2>1. PICK n \in Nat : submitted = 1 .. n /\ n <= MaxRecords
    BY DEF BashTyped
  <2>2. Cardinality(submitted) = n
    BY <2>1, FS_Interval
  <2>3. r = n + 1 /\ submitted' = 1 .. n + 1 /\ n + 1 <= MaxRecords
    BY <1>1, <2>1, <2>2 DEF Submit, Submission
  <2>4. queueTxt' \in Seq(Submission) /\ ToSet(queueTxt') = ToSet(queueTxt) \cup {r}
    BY <1>1, LinesAppended DEF Submit, BashTyped
  <2>5. submitted' = submitted \cup {r}
    BY <1>1 DEF Submit
  <2>6. UNCHANGED <<inflight, logs, coord, panes, eventsFifo, blocked, torn, untold, confused, starts,
                    meddled>>
    BY <1>1 DEF Submit
  <2>7. \E m \in Nat : submitted' = 1 .. m /\ m <= MaxRecords
    BY <2>1, <2>3
  <2>8. /\ ToSet(queueTxt') \subseteq submitted' /\ inflight' \in Seq(Submission)
        /\ ToSet(inflight') \subseteq submitted' /\ torn' \subseteq submitted'
    BY <2>4, <2>5, <2>6 DEF BashTyped
  <2>9. /\ logs' \subseteq Submission \X {"ok", "failed", "interrupted"}
        /\ coord' \in Leading /\ panes' \subseteq JobPane
        /\ eventsFifo' \in Seq(Event) /\ blocked' \subseteq {e \in Event : e.state = "dead"}
        /\ confused' \in BOOLEAN /\ starts' \in [Submission -> Nat] /\ meddled' \in Nat
        /\ untold' \subseteq Submission
    BY <2>6 DEF BashTyped
  <2> QED BY <2>4, <2>7, <2>8, <2>9 DEF BashTyped
<1>2. ASSUME NEW b \in BOOLEAN, Submitted(b) \/ Control(b) PROVE BashTyped'
  <2>1. UNCHANGED coord \/ Launch
    BY <1>2 DEF Submitted, Control
  <2>2. UNCHANGED <<queueTxt, inflight, logs, panes, eventsFifo, blocked, submitted, torn, untold,
                    confused, starts>>
    BY <1>2 DEF Submitted, Control, Observed
  <2>3. meddled' \in Nat
    BY <1>2 DEF Submitted, Control, Observed, Meddling, BashTyped
  <2> QED BY <2>1, <2>2, <2>3, LaunchTyped DEF BashTyped
<1>3. ASSUME NEW b \in BOOLEAN, Drain(b) PROVE BashTyped'
  <2>1. CoordinatorGone \/ UNCHANGED <<coord, eventsFifo, torn>>
    BY <1>3 DEF Drain
  <2>2. panes' \subseteq panes /\ meddled' \in Nat
    BY <1>3 DEF Drain, Meddling, BashTyped
  <2>3. UNCHANGED <<queueTxt, inflight, logs, blocked, submitted, untold, confused, starts>>
    BY <1>3 DEF Drain
  <2>4. coord' \in Leading /\ eventsFifo' \in Seq(Event) /\ torn' \subseteq submitted
    BY <2>1, GoneTyped DEF BashTyped
  <2> QED BY <2>2, <2>3, <2>4 DEF BashTyped
<1>4. CASE Requeue
  <2>1. /\ queueTxt \o inflight \in Seq(Submission)
        /\ ToSet(queueTxt \o inflight) = ToSet(queueTxt) \cup ToSet(inflight)
    BY FilesJoined DEF BashTyped
  <2>2. coord' \in Leading
    BY <1>4 DEF Requeue, BashTyped, Leading, Waits
  <2>3. UNCHANGED <<inflight, logs, panes, eventsFifo, blocked, Observed>>
    BY <1>4 DEF Requeue
  <2>4. queueTxt' \in Seq(Submission) /\ ToSet(queueTxt') \subseteq submitted
    BY <1>4, <2>1 DEF Requeue, BashTyped
  <2> QED BY <2>2, <2>3, <2>4 DEF BashTyped, Observed
<1>5. CASE ForgetClaims
  <2>1. coord' \in Leading
    BY <1>5 DEF ForgetClaims, BashTyped, Leading
  <2>2. inflight' \in Seq(Submission) /\ ToSet(inflight') = {}
    BY <1>5 DEF ForgetClaims, ToSet
  <2> QED BY <1>5, <2>1, <2>2 DEF ForgetClaims, BashTyped, Observed
<1>6. CASE TakeFirst
  <2>1. queueTxt # << >>
    BY <1>6 DEF TakeFirst, MayStart
  <2>2. /\ Tail(queueTxt) \in Seq(Submission) /\ Head(queueTxt) \in Submission
        /\ ToSet(queueTxt) = {Head(queueTxt)} \cup ToSet(Tail(queueTxt))
    BY <2>1, FirstTaken DEF BashTyped
  <2>3. coord' \in Leading
    BY <1>6, <2>2 DEF TakeFirst, BashTyped, Leading, Claims
  <2> QED BY <1>6, <2>2, <2>3 DEF TakeFirst, BashTyped, Observed
<1>7. ASSUME NEW r \in Submission, Claimed(r) PROVE BashTyped'
  <2>1. r \in submitted
    BY <1>7 DEF Claimed, At, CoordOK, Claims
  <2>2. inflight' \in Seq(Submission) /\ ToSet(inflight') = ToSet(inflight) \cup {r}
    BY <1>7, LinesAppended DEF Claimed, BashTyped
  <2>3. coord' \in Leading
    <3>1. coord' = [coord EXCEPT !.pc = "claimed", !.seq = coord.seq + 1] /\ coord.seq + 1 \in Nat
      BY <1>7, CoordTyped DEF Claimed
    <3> QED BY <3>1, CoordTyped DEF Leading, Claims
  <2> QED BY <1>7, <2>1, <2>2, <2>3 DEF Claimed, BashTyped, Observed
<1>8. ASSUME NEW r \in Submission, Dispatch(r) PROVE BashTyped'
  <2>1. coord' \in Leading
    BY <1>8 DEF Dispatch, BashTyped, Leading, Claims
  <2>2. panes' \subseteq JobPane
    <3> DEFINE new == [gen |-> coord.gen, job |-> coord.seq, record |-> r, st |-> "run",
                       titled |-> FALSE, mapped |-> FALSE, resume |-> FALSE]
    <3>1. new \in JobPane
      BY CoordTyped DEF JobPane
    <3>2. panes' = panes \cup {new}
      BY <1>8 DEF Dispatch
    <3> HIDE DEF new
    <3> QED BY <3>1, <3>2 DEF BashTyped
  <2>3. starts' \in [Submission -> Nat]
    BY <1>8 DEF Dispatch, BashTyped
  <2> QED BY <1>8, <2>1, <2>2, <2>3 DEF Dispatch, BashTyped, SessionFiles
<1>9. CASE DispatchFails \/ CoordinatorDies \/ Leave
  <2>1. CoordinatorGone /\ meddled' \in Nat /\ UNCHANGED untold
    BY <1>9 DEF DispatchFails, CoordinatorDies, Leave, Meddling, BashTyped
  <2> QED BY <1>9, <2>1, GoneTyped DEF DispatchFails, CoordinatorDies, Leave, BashTyped, SessionFiles
<1>10. ASSUME NEW r \in Submission, Mapped(r) PROVE BashTyped'
  <2>1. coord' \in Leading
    <3>1. coord.seq \in Nat
      BY CoordTyped
    <3>2. PICK J \in JobTable : J = Enqueued(coord.seq, r)
      BY <3>1, JobsTyped
    <3>3. coord' = [coord EXCEPT !.pc = "starting", !.claim = {}, !.jobs = J]
      BY <1>10, <3>2 DEF Mapped
    <3>4. [coord EXCEPT !.pc = "starting", !.claim = {}, !.jobs = J] \in Leading
      BY CoordTyped DEF Leading
    <3> QED BY <3>3, <3>4
  <2>2. panes' \subseteq JobPane
    <3> DEFINE own(p) == p.gen = coord.gen /\ p.job = coord.seq
    <3>1. \A p \in JobPane : [p EXCEPT !.titled = TRUE, !.mapped = TRUE] \in JobPane
      BY DEF JobPane
    <3>2. panes' = {IF own(p) THEN [p EXCEPT !.titled = TRUE, !.mapped = TRUE] ELSE p : p \in panes}
      BY <1>10 DEF Mapped
    <3>3. panes \subseteq JobPane
      BY DEF BashTyped
    <3> HIDE DEF own
    <3> QED BY <3>1, <3>2, <3>3
  <2>3. UNCHANGED <<queueTxt, inflight, logs, eventsFifo, blocked, submitted, torn, untold, confused,
                    starts, meddled>>
    BY <1>10 DEF Mapped, SessionFiles, Observed
  <2> QED BY <2>1, <2>2, <2>3 DEF BashTyped
<1>11. CASE Started
  <2>1. coord' \in Leading
    BY <1>11 DEF Started, BashTyped, Leading
  <2> QED BY <1>11, <2>1 DEF Started, BashTyped, SessionFiles, Observed
<1>12. CASE HandleEvent
  <2> DEFINE e == Head(eventsFifo)
  <2>1. e \in Event /\ Tail(eventsFifo) \in Seq(Event)
    BY <1>12, FirstTaken DEF HandleEvent, BashTyped
  <2>2. UNCHANGED <<queueTxt, blocked, submitted, untold, starts, meddled>>
    BY <1>12 DEF HandleEvent
  <2>3. CASE e.job \notin DOMAIN coord.jobs
    <3>1. CoordinatorGone /\ UNCHANGED <<logs, inflight, panes, confused>>
      BY <1>12, <2>3 DEF HandleEvent
    <3> QED BY <2>2, <3>1, GoneTyped DEF BashTyped
  <2>4. CASE e.job \in DOMAIN coord.jobs
    <3> DEFINE r == coord.jobs[e.job]
    <3>1. /\ CASE e.state = "dead" -> Dead(e, r)
               [] e.state = "fail" -> Failed(e, r)
               [] e.state = "done" -> Done(e, r)
          /\ eventsFifo' = Tail(eventsFifo) /\ confused' = (confused \/ e.gen # coord.gen)
          /\ UNCHANGED torn
      BY <1>12, <2>4 DEF HandleEvent
    <3>2. /\ e.job \in Nat /\ r \in Submission
          /\ Forgotten(e.job) \in JobTable
      <4>1. e.job \in Nat /\ r \in Submission
        BY <2>4, JobTyped
      <4> QED BY <4>1, JobsTyped
    <3> DEFINE t == InflightRemove(inflight, r)
    <3>3. t \in Seq(Submission) /\ ToSet(t) \subseteq ToSet(inflight)
      BY LineRemoved DEF BashTyped
    <3> HIDE DEF t
    <3>4. inflight' \in {inflight, t}
      BY <2>1, <3>1 DEF Dead, Failed, Done, Event, t
    <3>5. logs' \subseteq logs \cup {<<r, "ok">>, <<r, "failed">>, <<r, "interrupted">>}
      BY <2>1, <3>1 DEF Dead, Failed, Done, Event
    <3>6. coord' \in Leading
      <4>1. \/ coord' = [coord EXCEPT !.pc = "starting", !.jobs = Forgotten(e.job)]
            \/ coord' = [coord EXCEPT !.failed = coord.failed \cup {e.job}]
            \/ coord' = [coord EXCEPT !.pc = "starting", !.jobs = Forgotten(e.job),
                                      !.failed = coord.failed \ {e.job}]
        BY <2>1, <3>1 DEF Dead, Failed, Done, Event
      <4>2. coord \in Leading
        BY DEF BashTyped
      <4>3. coord.failed \subseteq Nat
        BY CoordTyped
      <4> HIDE DEF e
      <4>4. coord.failed \cup {e.job} \in SUBSET Nat /\ coord.failed \ {e.job} \in SUBSET Nat
        BY <3>2, <4>3
      <4>5. PICK J \in JobTable : J = Forgotten(e.job)
        BY <3>2
      <4>6. PICK F \in SUBSET Nat : F = coord.failed \cup {e.job}
        BY <4>4
      <4>7. PICK G \in SUBSET Nat : G = coord.failed \ {e.job}
        BY <4>4
      <4>8. [coord EXCEPT !.pc = "starting", !.jobs = J] \in Leading
        BY <4>2, CoordUpdated
      <4>9. [coord EXCEPT !.failed = F] \in Leading
        BY <4>2, CoordUpdated
      <4>10. [coord EXCEPT !.pc = "starting", !.jobs = J, !.failed = G] \in Leading
        BY <4>2, CoordUpdated
      <4> QED BY <4>1, <4>5, <4>6, <4>7, <4>8, <4>9, <4>10
    <3>7. panes' \subseteq JobPane
      <4>1. \/ UNCHANGED panes
            \/ \E p \in panes : panes' = (panes \ {p}) \cup {[p EXCEPT !.resume = TRUE]}
        BY <2>1, <3>1 DEF Dead, Failed, Done, Event, Resumable
      <4>2. \A p \in JobPane : [p EXCEPT !.resume = TRUE] \in JobPane
        BY DEF JobPane
      <4>3. panes \subseteq JobPane
        BY DEF BashTyped
      <4>4. ASSUME NEW p \in panes, panes' = (panes \ {p}) \cup {[p EXCEPT !.resume = TRUE]}
            PROVE  panes' \subseteq JobPane
        BY <4>2, <4>3, <4>4
      <4> QED BY <4>1, <4>3, <4>4
    <3>8. confused' \in BOOLEAN
      BY <3>1 DEF BashTyped
    <3>9. logs' \subseteq Submission \X {"ok", "failed", "interrupted"}
      BY <3>2, <3>5 DEF BashTyped
    <3>10. inflight' \in Seq(Submission) /\ ToSet(inflight') \subseteq submitted
      BY <3>3, <3>4 DEF BashTyped
    <3>11. eventsFifo' \in Seq(Event) /\ UNCHANGED torn
      BY <2>1, <3>1
    <3> QED BY <2>2, <3>6, <3>7, <3>8, <3>9, <3>10, <3>11 DEF BashTyped
  <2> QED BY <2>3, <2>4
<1>13. ASSUME NEW p \in panes, NEW enter \in BOOLEAN,
              Succeeds(p) \/ FailsJob(p) \/ ReleasesJob(p, enter) PROVE BashTyped'
  <2>1. eventsFifo' \in Seq(Event) /\ untold' \subseteq Submission
    BY <1>13, EmitTyped DEF Succeeds, FailsJob, ReleasesJob
  <2>2. panes' \subseteq JobPane
    <3>1. \/ panes' = panes \ {p}
          \/ panes' = (panes \ {p}) \cup {[p EXCEPT !.st = "held"]}
      BY <1>13 DEF Succeeds, FailsJob, ReleasesJob
    <3>2. p \in JobPane => [p EXCEPT !.st = "held"] \in JobPane
      BY DEF JobPane
    <3> QED BY <3>1, <3>2 DEF BashTyped
  <2> QED BY <1>13, <2>1, <2>2 DEF Succeeds, FailsJob, ReleasesJob, PaneStep, SessionFiles, BashTyped
<1>14. ASSUME NEW p \in panes, PaneDies(p) \/ PaneClosed(p) PROVE BashTyped'
  <2> DEFINE q == [p EXCEPT !.st = "dead", !.mapped = FALSE]
             e == [gen |-> p.gen, job |-> p.job, state |-> "dead", ok |-> FALSE]
  <2>p. p \in JobPane
    BY DEF BashTyped
  <2>q. q \in JobPane /\ e \in {x \in Event : x.state = "dead"}
    <3>1. q \in JobPane
      BY <2>p DEF JobPane
    <3>2. p.gen \in Nat /\ p.job \in Nat
      BY <2>p DEF JobPane
    <3>3. e \in Event /\ e.state = "dead"
      BY <3>2 DEF Event
    <3> QED BY <3>1, <3>3
  <2>r. (panes' = panes \ {p} \/ panes' = (panes \ {p}) \cup {q}) /\ blocked' \subseteq blocked \cup {e}
    BY <1>14 DEF PaneDies, PaneClosed
  <2>s. meddled' = meddled \/ meddled' = meddled + 1
    BY <1>14 DEF PaneDies, PaneClosed, Meddling
  <2> HIDE DEF q, e
  <2>1. panes' \subseteq JobPane /\ meddled' \in Nat
    BY <2>q, <2>r, <2>s DEF BashTyped
  <2>2. blocked' \subseteq {x \in Event : x.state = "dead"}
    BY <2>q, <2>r DEF BashTyped
  <2> QED BY <1>14, <2>1, <2>2 DEF PaneDies, PaneClosed, PaneStep, SessionFiles, BashTyped
<1>15. ASSUME NEW e \in blocked, HookWrites(e) PROVE BashTyped'
  <2>1. eventsFifo' \in Seq(Event) /\ blocked' \subseteq blocked
    BY <1>15 DEF HookWrites, BashTyped
  <2> QED BY <1>15, <2>1 DEF HookWrites, PaneStep, SessionFiles, BashTyped
<1>16. CASE UNCHANGED bashVars
  BY <1>16 DEF bashVars, BashTyped
<1> QED BY <1>1, <1>2, <1>3, <1>4, <1>5, <1>6, <1>7, <1>8, <1>9, <1>10, <1>11, <1>12, <1>13, <1>14,
           <1>15, <1>16 DEF BashNext, Coordinator

\* A pane that is there, and an event, have numbers.
LEMMA PaneTyped ==
  ASSUME BashTyped, NEW p \in panes
  PROVE  /\ p = [gen |-> p.gen, job |-> p.job, record |-> p.record, st |-> p.st,
                 titled |-> p.titled, mapped |-> p.mapped, resume |-> p.resume]
         /\ p.gen \in Nat /\ p.job \in Nat /\ p.st \in {"run", "held", "dead"}
<1>1. p \in JobPane
  BY DEF BashTyped
<1> QED BY <1>1 DEF JobPane

\* So has an event, wherever it is.
LEMMA EventTyped ==
  ASSUME BashTyped
  PROVE  \A e \in ToSet(eventsFifo) \cup blocked :
           /\ e = [gen |-> e.gen, job |-> e.job, state |-> e.state, ok |-> e.ok]
           /\ e.gen \in Nat /\ e.job \in Nat /\ e.state \in {"dead", "fail", "done"}
           /\ e.ok \in BOOLEAN
<1>1. ToSet(eventsFifo) \cup blocked \subseteq Event
  BY DEF BashTyped, ToSet
<1> QED BY <1>1 DEF Event

-----------------------------------------------------------------------------
(* The rest is kept: submitters and coordinator. *)

\* A submitter adds a record that is new.
LEMMA SubmitStep ==
  ASSUME BashIInv, NEW r \in Submission, Submit(r)
  PROVE  BashSound'
<1>1. PICK n \in Nat : submitted = 1 .. n /\ n <= MaxRecords
  BY DEF BashIInv, BashTyped
<1>2. r \notin submitted /\ submitted' = submitted \cup {r}
  <2>1. Cardinality(submitted) = n
    BY <1>1, FS_Interval
  <2> QED BY <1>1, <2>1 DEF Submit
<1>3. /\ ToSet(queueTxt') = ToSet(queueTxt) \cup {r}
      /\ Distinct(queueTxt) /\ r \notin ToSet(queueTxt) => Distinct(queueTxt')
  BY LinesAppended DEF Submit, BashIInv, BashTyped
<1>4. UNCHANGED <<inflight, logs, coord, panes, eventsFifo, blocked, torn, untold, confused, starts,
                  meddled>>
  BY DEF Submit
<1>5. CoordOK'
  BY <1>2, <1>3, <1>4 DEF BashIInv, BashSound, CoordOK, Running
<1>6. NumbersOK' /\ EventsOK' /\ PanesMatch'
  BY <1>4 DEF BashIInv, BashSound, NumbersOK, Known, EventsOK, Present, LiveJobs, LiveCoord,
              PanesMatch, JobIs
<1>7. ASSUME ~confused' PROVE FailuresTold' /\ SlotsKept'
  BY <1>4, <1>7 DEF BashIInv, BashSound, FailuresTold, ToldFailure, NotTold, Present, SlotsKept,
                   Pending, LiveJobs, LiveCoord
<1>8. ASSUME ~confused' PROVE RecordsKept'
  BY <1>2, <1>3, <1>4, <1>8 DEF BashIInv, BashSound, RecordsKept, Logged
<1>9. ASSUME meddled' = 0 PROVE CalmOK'
  <2>1. CalmOK
    BY <1>4, <1>9 DEF BashIInv, BashSound
  <2>2. r \notin ToSet(queueTxt) \cup ToSet(inflight) \cup coord.claim
    BY <1>2 DEF BashIInv, BashSound, BashTyped, CoordOK
  <2> QED BY <1>2, <1>3, <1>4, <2>1, <2>2 DEF CalmOK, Present, Pending
<1> QED BY <1>5, <1>6, <1>7, <1>8, <1>9 DEF BashSound

\* Nothing happens that the coordinator, the panes or the records notice.
LEMMA SameStep ==
  ASSUME BashIInv, meddled' = meddled \/ Meddling,
         UNCHANGED <<queueTxt, inflight, logs, coord, panes, eventsFifo, blocked, submitted, torn,
                     untold, confused, starts>>
  PROVE  BashSound'
<1>1. CoordOK' /\ NumbersOK' /\ EventsOK' /\ PanesMatch'
  BY DEF BashIInv, BashSound, CoordOK, Running, NumbersOK, Known, EventsOK, Present, LiveJobs,
         LiveCoord, PanesMatch, JobIs
<1>2. ASSUME ~confused' PROVE FailuresTold' /\ SlotsKept' /\ RecordsKept'
  BY <1>2 DEF BashIInv, BashSound, FailuresTold, ToldFailure, NotTold, Present, SlotsKept, Pending,
              LiveJobs, LiveCoord, RecordsKept, Logged
<1>3. ASSUME meddled' = 0 PROVE CalmOK'
  <2>1. meddled = 0
    BY <1>3 DEF Meddling, BashIInv, BashTyped
  <2> QED BY <2>1 DEF BashIInv, BashSound, CalmOK, Present, Pending
<1> QED BY <1>1, <1>2, <1>3 DEF BashSound

\* Another coordinator starts, where there is none.
LEMMA LaunchStep ==
  ASSUME BashIInv, Launch, coord.pc = "none",
         UNCHANGED <<queueTxt, inflight, logs, panes, eventsFifo, blocked, submitted, torn, untold,
                     confused, starts, meddled>>
  PROVE  BashSound'
<1> USE DEF BashIInv, BashSound
<1>1. /\ coord'.pc = "locked" /\ coord'.gen = coord.gen + 1 /\ coord'.seq = 0 /\ coord'.claim = {}
      /\ coord'.jobs = << >> /\ DOMAIN coord'.jobs = {} /\ coord'.failed = {} /\ coord.gen \in Nat
      /\ Running' = 0
  BY LaunchTyped, CoordTyped, NoJobs, FS_EmptySet DEF Running
<1>2. eventsFifo = << >> /\ ToSet(eventsFifo) = {} /\ coord.claim = {}
  BY DEF CoordOK, Waits, Claims, ToSet
<1>3. CoordOK'
  <2>1. coord'.pc \in Waits /\ coord'.pc \notin Claims /\ coord'.pc # "leaving"
    BY <1>1 DEF Waits, Claims
  <2>2. coord'.gen <= MaxCoordinators
    BY <1>1, BashAssumption DEF Launch
  <2>3. 0 <= Slots
    BY BashAssumption
  <2> QED BY <1>1, <1>2, <2>1, <2>2, <2>3 DEF CoordOK, Claims
<1>4. ASSUME NEW x, x.gen \in Nat, Known(x) PROVE Known(x)' /\ x.gen # coord'.gen
  <2>1. x.gen <= coord.gen
    BY <1>4 DEF Known
  <2> QED BY <1>1, <1>4, <2>1 DEF Known
<1>5. \A p \in panes : p.gen \in Nat /\ Known(p) /\ p.gen # coord'.gen
  BY <1>4, PaneTyped DEF NumbersOK
<1>6. \A e \in blocked : e.gen \in Nat /\ Known(e) /\ e.gen # coord'.gen
  BY <1>4, EventTyped DEF NumbersOK
<1>7. NumbersOK'
  BY <1>2, <1>4, <1>5, <1>6 DEF NumbersOK
<1>8. LiveCoord' = {} /\ LiveJobs' = {}
  BY <1>5 DEF LiveCoord, LiveJobs
<1>9. EventsOK'
  BY <1>2, <1>6, <1>8 DEF EventsOK
<1>10. ASSUME ~confused' PROVE FailuresTold' /\ SlotsKept'
  BY <1>2, <1>5, <1>8, FS_EmptySet, BashAssumption DEF FailuresTold, SlotsKept
<1>11. ASSUME ~confused' PROVE RecordsKept'
  BY <1>1, <1>2, <1>11 DEF RecordsKept, Logged
<1>12. ASSUME meddled' = 0 PROVE CalmOK'
  BY <1>1, <1>2, <1>12 DEF CalmOK, Waits, Present, Pending
<1>13. PanesMatch'
  BY <1>5 DEF PanesMatch
<1> QED BY <1>3, <1>7, <1>9, <1>10, <1>11, <1>12, <1>13

\* There are as many jobs in the coordinator's table as it takes slots.
LEMMA JobsCounted ==
  ASSUME BashTyped, CoordOK
  PROVE  /\ IsFiniteSet(DOMAIN coord.jobs) /\ Running \in Nat
         /\ Running = 0 => DOMAIN coord.jobs = {}
<1>1. DOMAIN coord.jobs \subseteq 1 .. coord.seq
  <2>1. \A j \in DOMAIN coord.jobs : j \in Nat /\ 1 <= j /\ j <= coord.seq
    BY JobTyped DEF CoordOK
  <2> QED BY <2>1, CoordTyped
<1>2. IsFiniteSet(1 .. coord.seq)
  <2>1. 1 \in Int /\ coord.seq \in Int
    BY CoordTyped
  <2> QED BY <2>1, FS_Interval
<1>3. IsFiniteSet(DOMAIN coord.jobs)
  BY <1>1, <1>2, FS_Subset
<1> QED BY <1>3, FS_CardinalityType, FS_EmptySet DEF Running

\* The coordinator goes, by whatever end, and panes may go with it.
LEMMA GoneStep ==
  ASSUME BashIInv, CoordinatorGone, panes' \subseteq panes,
         UNCHANGED <<queueTxt, inflight, logs, blocked, submitted, untold, confused, starts>>,
         meddled' = 0 => CalmOK /\ panes = {} /\ inflight = << >>
  PROVE  BashSound'
<1> USE DEF BashIInv, BashSound
<1>1. /\ coord'.pc = "none" /\ coord'.gen = coord.gen /\ coord'.seq = 0 /\ coord'.claim = {}
      /\ coord'.jobs = << >> /\ DOMAIN coord'.jobs = {} /\ coord'.failed = {} /\ coord.gen \in Nat
      /\ Running' = 0 /\ eventsFifo' = << >> /\ ToSet(eventsFifo') = {}
  BY GoneTyped, CoordTyped, NoJobs, FS_EmptySet DEF Running, ToSet
<1>2. CoordOK'
  BY <1>1, BashAssumption DEF CoordOK, Waits, Claims
<1>3. \A x : Known(x) => Known(x)'
  BY <1>1 DEF Known
<1>4. NumbersOK'
  BY <1>1, <1>3 DEF NumbersOK
<1>5. LiveCoord' \subseteq LiveCoord /\ LiveJobs' \subseteq LiveJobs
  BY <1>1 DEF LiveCoord, LiveJobs
<1>6. EventsOK'
  BY <1>1, <1>5 DEF EventsOK
<1>7. ASSUME ~confused' PROVE FailuresTold' /\ SlotsKept'
  <2>1. IsFiniteSet(LiveJobs) /\ Cardinality(LiveJobs) <= Slots
    BY <1>7 DEF SlotsKept
  <2>2. IsFiniteSet(LiveJobs') /\ Cardinality(LiveJobs') <= Cardinality(LiveJobs)
    BY <1>5, <2>1, FS_Subset
  <2>3. Cardinality(LiveJobs') <= Slots
    BY <2>1, <2>2, FS_CardinalityType, BashAssumption
  <2> QED BY <1>1, <2>2, <2>3 DEF FailuresTold, SlotsKept
<1>8. ASSUME ~confused' PROVE RecordsKept'
  <2>1. torn' = IF coord.pc = "popped" THEN torn \cup coord.claim ELSE torn
    BY DEF CoordinatorGone, At
  <2>2. coord.pc # "popped" => coord.claim \subseteq ToSet(inflight)
    BY DEF CoordOK, Claims
  <2> QED BY <1>1, <1>8, <2>1, <2>2 DEF RecordsKept, Logged
<1>9. ASSUME meddled' = 0 PROVE CalmOK'
  BY <1>1, <1>9 DEF CalmOK, Waits, Present, Pending
<1>10. PanesMatch'
  BY <1>1 DEF PanesMatch, JobIs
<1> QED BY <1>2, <1>4, <1>6, <1>7, <1>8, <1>9, <1>10

\* Undisturbed, a coordinator that has nothing to do leaves nothing behind.
LEMMA LeaveStep ==
  ASSUME BashIInv, Leave
  PROVE  BashSound'
<1> USE DEF BashIInv, BashSound
<1>1. /\ coord.pc = "leaving" /\ CoordinatorGone
      /\ UNCHANGED <<panes, queueTxt, inflight, logs, blocked, submitted, untold, confused, starts,
                     meddled>>
  BY DEF Leave, At, SessionFiles
<1>2. DOMAIN coord.jobs = {}
  BY <1>1, JobsCounted DEF CoordOK
<1>3. ASSUME meddled' = 0 PROVE CalmOK /\ panes = {} /\ inflight = << >>
  <2>1. CalmOK /\ SlotsKept
    BY <1>1, <1>3 DEF CalmOK
  <2>2. \A p \in panes : p.job \in LiveJobs
    BY <2>1 DEF CalmOK, LiveJobs, LiveCoord
  <2>3. panes = {}
    BY <1>1, <1>2, <2>1, <2>2 DEF SlotsKept, Pending
  <2>4. ToSet(inflight) = {}
    BY <1>1, <1>2, <2>1 DEF CalmOK
  <2>5. inflight = << >>
    <3>1. inflight # << >> => inflight[1] \in ToSet(inflight)
      BY DEF BashTyped, ToSet
    <3> QED BY <2>4, <3>1
  <2> QED BY <2>1, <2>3, <2>5
<1> QED BY <1>1, <1>3, GoneStep

\* Requeue and ForgetClaims: a copy is in the queue before the claims are dropped.
LEMMA RequeueStep ==
  ASSUME BashIInv, Requeue \/ ForgetClaims
  PROVE  BashSound'
<1> USE DEF BashIInv, BashSound
<1>1. /\ coord.pc \in {"locked", "requeued"} /\ coord'.pc \in {"starting", "requeued"}
      /\ coord.pc = "requeued" => coord'.pc = "starting"
      /\ coord'.gen = coord.gen /\ coord'.seq = coord.seq /\ coord'.claim = coord.claim
      /\ coord'.jobs = coord.jobs /\ coord'.failed = coord.failed
  BY CoordTyped DEF Requeue, ForgetClaims, At
<1>2. /\ \/ queueTxt' = queueTxt \o inflight /\ inflight' = inflight /\ inflight # << >>
         \/ queueTxt' = queueTxt /\ inflight' = inflight /\ coord'.pc = "starting" /\ inflight = << >>
         \/ queueTxt' = queueTxt /\ inflight' = << >> /\ coord.pc = "requeued"
      /\ UNCHANGED <<logs, panes, eventsFifo, blocked, submitted, torn, untold, confused, starts,
                     meddled>>
  BY CoordTyped DEF Requeue, ForgetClaims, Observed, At
<1>3. ToSet(queueTxt \o inflight) = ToSet(queueTxt) \cup ToSet(inflight)
  BY FilesJoined DEF BashTyped
<1>4. CoordOK'
  BY <1>1, <1>2, <1>3 DEF CoordOK, Waits, Claims, Running
<1>5. \A x : Known(x) => Known(x)' /\ x.gen # coord.gen
  BY <1>1 DEF Known
<1>6. NumbersOK'
  BY <1>2, <1>5 DEF NumbersOK
<1>7. eventsFifo = << >> /\ ToSet(eventsFifo) = {}
  BY <1>1 DEF CoordOK, Waits, ToSet
<1>8. LiveCoord' = {} /\ LiveJobs' = {}
  BY <1>1, <1>2, <1>5 DEF LiveCoord, LiveJobs, NumbersOK
<1>9. EventsOK'
  BY <1>2, <1>7, <1>8 DEF EventsOK
<1>10. ASSUME ~confused' PROVE FailuresTold' /\ SlotsKept'
  BY <1>1, <1>2, <1>5, <1>7, <1>8, FS_EmptySet, BashAssumption
     DEF FailuresTold, SlotsKept, NumbersOK
<1>11. ASSUME ~confused' PROVE RecordsKept'
  BY <1>1, <1>2, <1>3, <1>11 DEF RecordsKept, Logged, CoordOK
<1>12. ASSUME meddled' = 0 PROVE CalmOK'
  <2>1. CalmOK /\ inflight = << >> /\ inflight' = << >> /\ queueTxt' = queueTxt
    BY <1>1, <1>2, <1>12 DEF CalmOK, Waits
  <2> QED BY <1>1, <1>2, <1>7, <2>1 DEF CalmOK, Waits, Present, Pending
<1>13. PanesMatch'
  BY <1>1, <1>2, <1>5 DEF PanesMatch, NumbersOK
<1> QED BY <1>4, <1>6, <1>9, <1>10, <1>11, <1>12, <1>13

\* Started: to wait for an event, or to leave.
LEMMA StartedStep ==
  ASSUME BashIInv, Started
  PROVE  BashSound'
<1> USE DEF BashIInv, BashSound
<1>1. /\ coord.pc = "starting" /\ coord'.pc \in {"leaving", "reading"}
      /\ coord'.pc = "leaving" => Running = 0
      /\ coord'.gen = coord.gen /\ coord'.seq = coord.seq /\ coord'.claim = coord.claim
      /\ coord'.jobs = coord.jobs /\ coord'.failed = coord.failed
  BY CoordTyped DEF Started, At
<1>2. UNCHANGED <<queueTxt, inflight, logs, panes, eventsFifo, blocked, submitted, torn, untold,
                  confused, starts, meddled>>
  BY DEF Started, Observed, SessionFiles
<1>3. CoordOK'
  BY <1>1, <1>2 DEF CoordOK, Waits, Claims, Running
<1>4. \A x : Known(x) => Known(x)'
  BY <1>1 DEF Known
<1>5. NumbersOK'
  BY <1>2, <1>4 DEF NumbersOK
<1>6. LiveCoord' = LiveCoord /\ LiveJobs' = LiveJobs
  BY <1>1, <1>2 DEF LiveCoord, LiveJobs
<1>7. EventsOK'
  BY <1>1, <1>2, <1>6 DEF EventsOK, Present
<1>8. ASSUME ~confused' PROVE FailuresTold' /\ SlotsKept' /\ RecordsKept'
  <2>1. FailuresTold'
    BY <1>1, <1>2, <1>8 DEF FailuresTold, ToldFailure, NotTold, Present
  <2>2. SlotsKept'
    BY <1>1, <1>2, <1>6, <1>8 DEF SlotsKept, Pending
  <2> QED BY <1>1, <1>2, <1>8, <2>1, <2>2 DEF RecordsKept, Logged
<1>9. ASSUME meddled' = 0 PROVE CalmOK'
  BY <1>1, <1>2, <1>9 DEF CalmOK, Waits, Present, Pending
<1>10. PanesMatch'
  BY <1>1, <1>2 DEF PanesMatch, JobIs
<1> QED BY <1>3, <1>5, <1>7, <1>8, <1>9, <1>10

\* TakeFirst: the record is in no file now, but in the claim.
LEMMA TakeStep ==
  ASSUME BashIInv, TakeFirst
  PROVE  BashSound'
<1> USE DEF BashIInv, BashSound
<1> DEFINE r == Head(queueTxt)
<1>1. /\ coord.pc = "starting" /\ coord'.pc = "popped" /\ coord'.claim = {r}
      /\ coord'.gen = coord.gen /\ coord'.seq = coord.seq
      /\ coord'.jobs = coord.jobs /\ coord'.failed = coord.failed /\ coord.claim = {}
  BY CoordTyped DEF TakeFirst, At, CoordOK, Claims
<1>2. UNCHANGED <<inflight, logs, panes, eventsFifo, blocked, submitted, torn, untold, confused, starts,
                  meddled>>
  BY DEF TakeFirst, Observed
<1>3. queueTxt # << >> /\ queueTxt' = Tail(queueTxt) /\ Running < Slots
  BY DEF TakeFirst, MayStart
<1>4. /\ r \in submitted /\ ToSet(queueTxt) = {r} \cup ToSet(queueTxt')
      /\ Distinct(queueTxt) => Distinct(queueTxt') /\ r \notin ToSet(queueTxt')
  BY <1>3, FirstTaken DEF BashTyped
<1> HIDE DEF r
<1>5. CoordOK'
  BY <1>1, <1>2, <1>3, <1>4 DEF CoordOK, Waits, Claims, Running
<1>6. \A x : Known(x) => Known(x)'
  BY <1>1 DEF Known
<1>7. NumbersOK'
  BY <1>2, <1>6 DEF NumbersOK
<1>8. LiveCoord' = LiveCoord /\ LiveJobs' = LiveJobs
  BY <1>1, <1>2 DEF LiveCoord, LiveJobs
<1>9. EventsOK'
  BY <1>1, <1>2, <1>8 DEF EventsOK, Present
<1>10. ASSUME ~confused' PROVE FailuresTold' /\ SlotsKept' /\ RecordsKept'
  <2>1. FailuresTold'
    BY <1>1, <1>2, <1>10 DEF FailuresTold, ToldFailure, NotTold, Present
  <2>2. SlotsKept'
    BY <1>1, <1>2, <1>8, <1>10 DEF SlotsKept, Pending
  <2> QED BY <1>1, <1>2, <1>4, <1>10, <2>1, <2>2 DEF RecordsKept, Logged
<1>11. ASSUME meddled' = 0 PROVE CalmOK'
  BY <1>1, <1>2, <1>4, <1>11 DEF CalmOK, Waits, Present, Pending
<1>12. PanesMatch'
  BY <1>1, <1>2 DEF PanesMatch, JobIs
<1> QED BY <1>5, <1>7, <1>9, <1>10, <1>11, <1>12

\* Claimed: now it is in inflight, too.
LEMMA ClaimedStep ==
  ASSUME BashIInv, NEW r \in Submission, Claimed(r)
  PROVE  BashSound'
<1> USE DEF BashIInv, BashSound
<1>1. /\ coord.pc = "popped" /\ coord'.pc = "claimed" /\ coord.claim = {r}
      /\ coord'.claim = coord.claim /\ coord'.gen = coord.gen /\ coord'.seq = coord.seq + 1
      /\ coord'.jobs = coord.jobs /\ coord'.failed = coord.failed /\ coord.seq \in Nat
  BY CoordTyped DEF Claimed, At, CoordOK, Claims
<1>2. UNCHANGED <<queueTxt, logs, panes, eventsFifo, blocked, submitted, torn, untold, confused, starts,
                  meddled>>
  BY DEF Claimed, Observed
<1>3. /\ ToSet(inflight') = ToSet(inflight) \cup {r}
      /\ Distinct(inflight) /\ r \notin ToSet(inflight) => Distinct(inflight')
  BY LinesAppended DEF Claimed, BashTyped
<1>4. \A j \in DOMAIN coord.jobs \cup coord.failed : j \in Nat
  BY JobTyped, CoordTyped
<1>5. CoordOK'
  BY <1>1, <1>2, <1>3, <1>4 DEF CoordOK, Waits, Claims, Running
<1>6. \A x : x.job \in Nat /\ Known(x) => Known(x)'
  BY <1>1 DEF Known
<1>7. NumbersOK'
  BY <1>2, <1>6, PaneTyped, EventTyped DEF NumbersOK
<1>8. LiveCoord' = LiveCoord /\ LiveJobs' = LiveJobs
  BY <1>1, <1>2 DEF LiveCoord, LiveJobs
<1>9. EventsOK'
  BY <1>1, <1>2, <1>8 DEF EventsOK, Present
<1>10. ASSUME ~confused' PROVE FailuresTold' /\ SlotsKept' /\ RecordsKept'
  <2>1. FailuresTold'
    BY <1>1, <1>2, <1>10 DEF FailuresTold, ToldFailure, NotTold, Present
  <2>2. SlotsKept'
    BY <1>1, <1>2, <1>8, <1>10 DEF SlotsKept, Pending
  <2> QED BY <1>1, <1>2, <1>3, <1>10, <2>1, <2>2 DEF RecordsKept, Logged
<1>11. ASSUME meddled' = 0 PROVE CalmOK'
  BY <1>1, <1>2, <1>3, <1>11 DEF CalmOK, Waits, Present, Pending
<1>12. PanesMatch'
  BY <1>1, <1>2 DEF PanesMatch, JobIs
<1> QED BY <1>5, <1>7, <1>9, <1>10, <1>11, <1>12

\* Dispatch: one pane more, whose number no pane and no event has.
LEMMA DispatchStep ==
  ASSUME BashIInv, NEW r \in Submission, Dispatch(r)
  PROVE  BashSound'
<1> USE DEF BashIInv, BashSound
<1> DEFINE new == [gen |-> coord.gen, job |-> coord.seq, record |-> r, st |-> "run",
                   titled |-> FALSE, mapped |-> FALSE, resume |-> FALSE]
<1>1. /\ coord.pc = "claimed" /\ coord'.pc = "dispatched" /\ coord.claim = {r}
      /\ coord'.claim = coord.claim /\ coord'.gen = coord.gen /\ coord'.seq = coord.seq
      /\ coord'.jobs = coord.jobs /\ coord'.failed = coord.failed /\ coord.seq \in Nat
      /\ coord.gen \in Nat
  BY CoordTyped DEF Dispatch, At, CoordOK, Claims
<1>2. UNCHANGED <<queueTxt, inflight, logs, eventsFifo, blocked, submitted, torn, untold, confused,
                  meddled>>
  BY DEF Dispatch, SessionFiles
<1>3. /\ panes' = panes \cup {new} /\ new.gen = coord.gen /\ new.job = coord.seq /\ new.st = "run"
      /\ new.record = r /\ starts' = [starts EXCEPT ![r] = @ + 1]
  BY DEF Dispatch
<1> HIDE DEF new
<1>4. CoordOK'
  BY <1>1, <1>2 DEF CoordOK, Waits, Claims, Running
<1>5. \A x : x.job \in Nat /\ Known(x) => Known(x)' /\ (x.gen = coord.gen => x.job < coord.seq)
  BY <1>1 DEF Known
<1>6. /\ \A p \in panes : p.job \in Nat /\ Known(p)' /\ (p.gen = coord.gen => p.job < coord.seq)
      /\ \A e \in ToSet(eventsFifo) \cup blocked :
           e.job \in Nat /\ Known(e)' /\ (e.gen = coord.gen => e.job < coord.seq)
  BY <1>5, PaneTyped, EventTyped DEF NumbersOK
<1>7. NumbersOK'
  <2>1. ASSUME NEW q \in panes' 
        PROVE /\ Known(q)'
              /\ q \in panes \/ (q.job = coord.seq /\ q.gen = coord.gen /\ q = new)
    <3>1. CASE q \in panes
      BY <1>6, <3>1
    <3>2. CASE q = new
      BY <1>1, <1>3, <3>2 DEF Known
    <3> QED BY <1>3, <3>1, <3>2
  <2>2. \A p \in panes : p.gen = coord.gen => p.job # coord.seq
    BY <1>1, <1>6
  <2>3. ASSUME NEW p \in panes', NEW q \in panes', p.gen = q.gen, p.job = q.job PROVE p = q
    BY <2>1, <2>2, <2>3 DEF NumbersOK
  <2> QED BY <1>2, <1>6, <2>1, <2>3 DEF NumbersOK
<1>8. LiveJobs' \subseteq LiveJobs \cup {coord.seq}
  BY <1>1, <1>3 DEF LiveCoord, LiveJobs
<1>9. EventsOK'
  <2>1. \A e \in ToSet(eventsFifo) \cup blocked : e.gen = coord.gen => e.job # coord.seq
    BY <1>1, <1>6
  <2> QED BY <1>1, <1>2, <1>3, <1>8, <2>1 DEF EventsOK, Present
<1>10. ASSUME ~confused' PROVE FailuresTold' /\ RecordsKept'
  <2>1. \A j, upto : ToldFailure(j, upto) /\ j # coord.seq => ToldFailure(j, upto)'
    BY <1>1, <1>2 DEF ToldFailure, NotTold, Present
  <2>2. ASSUME NEW p \in panes', p.gen = coord.gen, p.st = "held"
        PROVE  ToldFailure(p.job, Len(eventsFifo))'
    <3>1. p \in panes /\ p.job # coord.seq
      BY <1>1, <1>3, <1>6, <2>2
    <3> QED BY <1>1, <1>2, <1>10, <2>1, <2>2, <3>1 DEF FailuresTold
  <2>3. ASSUME NEW k \in DOMAIN eventsFifo,
               Present(eventsFifo[k], eventsFifo[k].job, {"done"}), ~eventsFifo[k].ok
        PROVE  ToldFailure(eventsFifo[k].job, k - 1)'
    <3>1. eventsFifo[k] \in ToSet(eventsFifo)
      BY DEF ToSet
    <3>2. eventsFifo[k].job # coord.seq
      BY <1>1, <1>6, <2>3, <3>1 DEF Present
    <3>3. ToldFailure(eventsFifo[k].job, k - 1)
      BY <1>2, <1>10, <2>3 DEF FailuresTold
    <3> QED BY <1>2, <2>1, <3>2, <3>3
  <2>4. FailuresTold'
    BY <1>1, <1>2, <2>2, <2>3 DEF FailuresTold, Present
  <2> QED BY <1>1, <1>2, <1>10, <2>4 DEF RecordsKept, Logged
<1>11. ASSUME ~confused' PROVE SlotsKept'
  <2>1. SlotsKept
    BY <1>2, <1>11
  <2>2. \A j \in LiveJobs' : Pending(j)'
    BY <1>1, <1>8, <2>1 DEF SlotsKept, Pending
  <2>3. LiveJobs \subseteq DOMAIN coord.jobs
    BY <1>1, <2>1 DEF SlotsKept, Pending
  <2>4. Cardinality(LiveJobs) <= Running /\ Running < Slots /\ Running \in Nat
        /\ IsFiniteSet(LiveJobs) /\ Cardinality(LiveJobs) \in Nat
    <3>1. IsFiniteSet(LiveJobs) /\ Cardinality(LiveJobs) <= Running
      BY <2>3, JobsCounted, FS_Subset DEF Running
    <3> QED BY <1>1, <3>1, JobsCounted, FS_CardinalityType DEF CoordOK, Claims
  <2>5. /\ IsFiniteSet(LiveJobs \cup {coord.seq})
        /\ Cardinality(LiveJobs \cup {coord.seq}) <= Cardinality(LiveJobs) + 1
        /\ Cardinality(LiveJobs \cup {coord.seq}) \in Nat
    <3>1. /\ IsFiniteSet(LiveJobs \cup {coord.seq})
          /\ Cardinality(LiveJobs \cup {coord.seq}) =
               IF coord.seq \in LiveJobs THEN Cardinality(LiveJobs) ELSE Cardinality(LiveJobs) + 1
      BY <2>4, FS_AddElement
    <3> QED BY <2>4, <3>1
  <2>6. IsFiniteSet(LiveJobs') /\ Cardinality(LiveJobs') <= Cardinality(LiveJobs \cup {coord.seq})
        /\ Cardinality(LiveJobs') \in Nat
    BY <1>8, <2>5, FS_Subset, FS_CardinalityType
  <2>7. Cardinality(LiveJobs') <= Slots
    BY <2>4, <2>5, <2>6, BashAssumption
  <2> QED BY <2>2, <2>6, <2>7 DEF SlotsKept
<1>12. ASSUME meddled' = 0 PROVE CalmOK'
  <2>1. CalmOK
    BY <1>2, <1>12
  <2>2. \A x \in Submission : starts'[x] = IF x = r THEN starts[r] + 1 ELSE starts[x]
    BY <1>3 DEF BashTyped
  <2>3. starts[r] = 0 /\ r \in submitted
    BY <1>1, <2>1 DEF CalmOK, CoordOK, Claims
  <2>4. \A x \in Submission : starts'[x] <= 1 /\ (x \notin submitted' => starts'[x] = 0)
    BY <1>2, <2>1, <2>2, <2>3 DEF CalmOK
  <2>5. \A x \in ToSet(queueTxt) : x \in Submission /\ x # r
    <3>1. submitted \subseteq Submission
      BY BashAssumption DEF BashTyped, Submission
    <3> QED BY <1>1, <2>1, <3>1 DEF CalmOK, BashTyped
  <2>6. \A x \in ToSet(queueTxt') : starts'[x] = 0 /\ x \notin ToSet(inflight') \cup coord'.claim
    BY <1>1, <1>2, <2>1, <2>2, <2>5 DEF CalmOK
  <2>7. \A e \in ToSet(eventsFifo') : Present(e, e.job, {"fail", "done"})' /\ Pending(e.job)'
    BY <1>1, <1>2, <2>1 DEF CalmOK, Present, Pending
  <2> QED BY <1>1, <1>2, <1>3, <2>1, <2>4, <2>6, <2>7 DEF CalmOK, Waits
<1>13. PanesMatch'
  <2>1. coord.seq \notin DOMAIN coord.jobs
    BY <1>1 DEF CoordOK
  <2>2. ASSUME NEW p \in panes, p.gen = coord.gen PROVE JobIs(p.job, p.record)'
    <3>1. p.job # coord.seq /\ JobIs(p.job, p.record)
      BY <1>1, <1>6, <2>2 DEF PanesMatch
    <3> QED BY <1>1, <3>1 DEF JobIs
  <2>3. PICK x : x = new
    OBVIOUS
  <2>4. JobIs(x.job, x.record)'
    BY <1>1, <1>3, <2>1, <2>3 DEF JobIs
  <2> QED BY <1>1, <1>3, <2>2, <2>3, <2>4 DEF PanesMatch
<1> QED BY <1>4, <1>7, <1>9, <1>10, <1>11, <1>12, <1>13

\* Mapped: the pane gets its title, and its job is in the table.
LEMMA MappedStep ==
  ASSUME BashIInv, NEW r \in Submission, Mapped(r)
  PROVE  BashSound'
<1> USE DEF BashIInv, BashSound
<1> DEFINE upd(p) == IF p.gen = coord.gen /\ p.job = coord.seq
                     THEN [p EXCEPT !.titled = TRUE, !.mapped = TRUE] ELSE p
<1>1. /\ coord.pc = "dispatched" /\ coord'.pc = "starting" /\ coord.claim = {r}
      /\ coord'.claim = {} /\ coord'.gen = coord.gen /\ coord'.seq = coord.seq
      /\ coord'.jobs = Enqueued(coord.seq, r) /\ coord'.failed = coord.failed /\ coord.seq \in Nat
  BY CoordTyped DEF Mapped, At, CoordOK, Claims
<1>2. UNCHANGED <<queueTxt, inflight, logs, eventsFifo, blocked, submitted, torn, untold, confused, starts,
                  meddled>>
  BY DEF Mapped, SessionFiles, Observed
<1>3. panes' = {upd(p) : p \in panes}
  BY DEF Mapped
<1>4. \A p \in panes : /\ upd(p).gen = p.gen /\ upd(p).job = p.job /\ upd(p).st = p.st
                       /\ upd(p).record = p.record
  BY PaneTyped
<1>5. /\ DOMAIN coord'.jobs = DOMAIN coord.jobs \cup {coord.seq}
      /\ \A j \in DOMAIN coord'.jobs :
           coord'.jobs[j] = IF j = coord.seq THEN r ELSE coord.jobs[j]
  BY <1>1 DEF Enqueued
<1> HIDE DEF upd
<1>6. CoordOK'
  <2>1. Running < Slots /\ Running \in Nat /\ IsFiniteSet(DOMAIN coord.jobs)
    BY <1>1, JobsCounted DEF CoordOK, Claims
  <2>2. Running' = IF coord.seq \in DOMAIN coord.jobs THEN Running ELSE Running + 1
    BY <1>5, <2>1, FS_AddElement DEF Running
  <2>3. Running' <= Slots
    BY <2>1, <2>2, BashAssumption
  <2>4. coord.seq > 0
    BY <1>1 DEF CoordOK
  <2> QED BY <1>1, <1>2, <1>5, <2>3, <2>4 DEF CoordOK, Waits, Claims
<1>7. \A x : Known(x) => Known(x)'
  BY <1>1 DEF Known
<1>8. NumbersOK'
  <2>1. ASSUME NEW q \in panes' PROVE Known(q)'
    BY <1>1, <1>3, <1>4 DEF NumbersOK, Known
  <2>2. ASSUME NEW p \in panes', NEW q \in panes', p.gen = q.gen, p.job = q.job PROVE p = q
    BY <1>3, <1>4, <2>2 DEF NumbersOK
  <2> QED BY <1>2, <1>7, <2>1, <2>2 DEF NumbersOK
<1>9. LiveJobs' \subseteq LiveJobs
  BY <1>1, <1>3, <1>4 DEF LiveCoord, LiveJobs
<1>10. EventsOK'
  BY <1>1, <1>2, <1>3, <1>4, <1>9 DEF EventsOK, Present
<1>11. ASSUME ~confused' PROVE FailuresTold' /\ RecordsKept'
  <2>1. FailuresTold'
    <3>1. ASSUME NEW j, NotTold(j) PROVE NotTold(j)'
      BY <1>1, <1>2, <1>5, <3>1 DEF NotTold
    <3>2. ASSUME NEW j, NEW upto, ToldFailure(j, upto) PROVE ToldFailure(j, upto)'
      BY <1>1, <1>2, <3>1, <3>2 DEF ToldFailure, Present
    <3> QED BY <1>1, <1>2, <1>3, <1>4, <1>11, <3>2 DEF FailuresTold, Present
  <2>2. r \in ToSet(inflight)
    BY <1>1 DEF CoordOK
  <2> QED BY <1>1, <1>2, <1>11, <2>1, <2>2 DEF RecordsKept, Logged
<1>12. ASSUME ~confused' PROVE SlotsKept'
  <2>1. IsFiniteSet(LiveJobs) /\ Cardinality(LiveJobs) <= Slots
    BY <1>2, <1>12 DEF SlotsKept
  <2>2. IsFiniteSet(LiveJobs') /\ Cardinality(LiveJobs') <= Cardinality(LiveJobs)
    BY <1>9, <2>1, FS_Subset
  <2>3. Cardinality(LiveJobs') <= Slots
    BY <2>1, <2>2, FS_CardinalityType, BashAssumption
  <2>4. \A j \in LiveJobs' : Pending(j)'
    BY <1>1, <1>2, <1>5, <1>9, <1>12 DEF SlotsKept, Pending
  <2> QED BY <2>2, <2>3, <2>4 DEF SlotsKept
<1>13. ASSUME meddled' = 0 PROVE CalmOK'
  <2>1. CalmOK
    BY <1>2, <1>13
  <2>2. \A p \in panes' : p.gen = coord'.gen /\ p.st # "dead"
    BY <1>1, <1>3, <1>4, <2>1 DEF CalmOK
  <2>3. \A e \in ToSet(eventsFifo') : Present(e, e.job, {"fail", "done"})' /\ Pending(e.job)'
    BY <1>1, <1>2, <1>5, <2>1 DEF CalmOK, Present, Pending
  <2>4. coord.seq \notin coord.failed /\ coord.seq \notin DOMAIN coord.jobs
    BY <1>1 DEF CoordOK
  <2>5. \A x \in ToSet(inflight') : \E j \in DOMAIN coord'.jobs \ coord'.failed : coord'.jobs[j] = x
    BY <1>1, <1>2, <1>5, <2>1, <2>4 DEF CalmOK
  <2> QED BY <1>1, <1>2, <2>1, <2>2, <2>3, <2>5 DEF CalmOK, Waits
<1>14. PanesMatch'
  <2>1. ASSUME NEW p \in panes, p.gen = coord.gen PROVE JobIs(p.job, p.record)'
    <3>1. JobIs(p.job, p.record)
      BY <2>1 DEF PanesMatch
    <3>2. p.job = coord.seq => p.record = r
      BY <1>1, <3>1 DEF JobIs
    <3> QED BY <1>1, <1>5, <3>1, <3>2 DEF JobIs
  <2> QED BY <1>1, <1>3, <1>4, <2>1 DEF PanesMatch
<1> QED BY <1>6, <1>8, <1>10, <1>11, <1>12, <1>13, <1>14

-----------------------------------------------------------------------------
(* Panes and events *)

\* Where the events are once another has been written.
LEMMA EventAdded ==
  ASSUME BashTyped, NEW e \in Event, eventsFifo' = Append(eventsFifo, e)
  PROVE  /\ Len(eventsFifo) \in Nat /\ Len(eventsFifo') = Len(eventsFifo) + 1
         /\ DOMAIN eventsFifo = 1 .. Len(eventsFifo)
         /\ DOMAIN eventsFifo' = 1 .. Len(eventsFifo) + 1
         /\ \A i \in 1 .. Len(eventsFifo) : eventsFifo'[i] = eventsFifo[i]
         /\ eventsFifo'[Len(eventsFifo) + 1] = e
         /\ ToSet(eventsFifo') = ToSet(eventsFifo) \cup {e}
         /\ \A i \in DOMAIN eventsFifo : eventsFifo[i] \in ToSet(eventsFifo)
<1>1. eventsFifo \in Seq(Event)
  BY DEF BashTyped
<1>2. ToSet(eventsFifo') = ToSet(eventsFifo) \cup {e}
  BY <1>1, LinesAppended
<1>3. \A i \in DOMAIN eventsFifo : eventsFifo[i] \in ToSet(eventsFifo)
  BY <1>1, InLines
<1> QED BY <1>1, <1>2, <1>3

\* The records and the coordinator stay as they are.
RecordsStay == UNCHANGED <<queueTxt, inflight, logs, coord, submitted, torn, confused, starts>>

\* What becomes of the coordinator's knowledge when only panes and events change.
LEMMA PaneFrame ==
  ASSUME BashIInv, RecordsStay, untold \subseteq untold', eventsFifo' = eventsFifo \/ ReadsControl
  PROVE  /\ CoordOK' /\ (~confused' => RecordsKept')
         /\ \A x : Known(x)' <=> Known(x)
         /\ \A j : Pending(j)' <=> Pending(j)
         /\ \A j : NotTold(j) => NotTold(j)'
         /\ \A j, r : JobIs(j, r)' <=> JobIs(j, r)
         /\ UNCHANGED <<queueTxt, inflight, logs, coord, submitted, torn, confused, starts>>
         /\ ReadsControl => coord.pc \notin Waits
<1> USE DEF BashIInv, BashSound
<1>1. UNCHANGED <<queueTxt, inflight, logs, coord, submitted, torn, confused, starts>>
  BY DEF RecordsStay
<1>2. ReadsControl => coord.pc \notin Waits
  BY DEF ReadsControl, Waits
<1>3. CoordOK'
  BY <1>1, <1>2 DEF CoordOK, Running
<1>4. ~confused' => RecordsKept'
  BY <1>1 DEF RecordsKept, Logged
<1>5. \A j : NotTold(j) => NotTold(j)'
  BY <1>1 DEF NotTold
<1>6. \A j, r : JobIs(j, r)' <=> JobIs(j, r)
  BY <1>1 DEF JobIs
<1> QED BY <1>1, <1>2, <1>3, <1>4, <1>5, <1>6 DEF Known, Pending

\* Slots stay enough when no more jobs live than before.
LEMMA SlotsFrame ==
  ASSUME BashIInv, RecordsStay, untold \subseteq untold', eventsFifo' = eventsFifo \/ ReadsControl,
         SlotsKept, LiveJobs' \subseteq LiveJobs
  PROVE  SlotsKept'
<1>1. IsFiniteSet(LiveJobs) /\ Cardinality(LiveJobs) <= Slots
  BY DEF SlotsKept
<1>2. IsFiniteSet(LiveJobs') /\ Cardinality(LiveJobs') <= Cardinality(LiveJobs)
  BY <1>1, FS_Subset
<1>3. Cardinality(LiveJobs') <= Slots
  BY <1>1, <1>2, FS_CardinalityType, BashAssumption
<1>4. \A j \in LiveJobs' : coord'.pc # "none" => Pending(j)'
  BY PaneFrame DEF SlotsKept
<1> QED BY <1>2, <1>3, <1>4 DEF SlotsKept

\* A pane's wrapper ends, or holds it, and tells how.
LEMMA TellsStep ==
  ASSUME BashIInv, NEW p \in panes, NEW state \in {"fail", "done"}, NEW ok \in BOOLEAN,
         Emit(p, state, ok), RecordsStay, UNCHANGED <<blocked, meddled>>,
         \/ p.st = "run" /\ state = "done" /\ ok /\ panes' = panes \ {p}
         \/ p.st = "held" /\ state = "done" /\ ~ok /\ panes' = panes \ {p}
         \/ p.st = "run" /\ state = "fail" /\ panes' = (panes \ {p}) \cup {[p EXCEPT !.st = "held"]}
  PROVE  BashSound'
<1> USE DEF BashIInv, BashSound
<1> DEFINE e == [gen |-> p.gen, job |-> p.job, state |-> state, ok |-> ok]
           q == [p EXCEPT !.st = "held"]
           n == Len(eventsFifo)
<1>1. /\ e \in Event /\ e.gen = p.gen /\ e.job = p.job /\ e.state = state /\ e.ok = ok
      /\ q.gen = p.gen /\ q.job = p.job /\ q.st = "held" /\ q.record = p.record
  BY PaneTyped DEF Event
<1>2. /\ \/ ReadsControl /\ eventsFifo' = Append(eventsFifo, e) /\ untold' = untold
         \/ /\ eventsFifo' = eventsFifo /\ untold \subseteq untold'
            /\ ReadsControl /\ state = "fail" => p.record \in untold'
      /\ panes' \subseteq panes \cup {q} /\ p \notin panes'
      /\ p.st \in {"run", "held"} /\ (state = "fail" \/ ok => p.st = "run")
      /\ state = "done" /\ ~ok => p.st = "held"
  BY <1>1 DEF Emit
<1>3. \A x \in panes : x.gen = p.gen /\ x.job = p.job => x = p
  BY DEF NumbersOK
<1>4. q \in panes' => state = "fail"
  BY <1>1, <1>3
<1>d. eventsFifo' # eventsFifo => ReadsControl /\ eventsFifo' = Append(eventsFifo, e)
  BY <1>2
<1>5. eventsFifo' # eventsFifo =>
                      /\ n \in Nat /\ Len(eventsFifo') = n + 1
                      /\ DOMAIN eventsFifo = 1 .. n /\ DOMAIN eventsFifo' = 1 .. n + 1
                      /\ \A i \in 1 .. n : eventsFifo'[i] = eventsFifo[i]
                      /\ eventsFifo'[n + 1] = e /\ ToSet(eventsFifo') = ToSet(eventsFifo) \cup {e}
                      /\ \A i \in DOMAIN eventsFifo : eventsFifo[i] \in ToSet(eventsFifo)
  BY <1>1, <1>d, EventAdded
<1>6. /\ CoordOK' /\ (~confused' => RecordsKept')
      /\ \A x : Known(x)' <=> Known(x)
      /\ \A j : Pending(j)' <=> Pending(j)
      /\ \A j : NotTold(j) => NotTold(j)'
      /\ \A j, r : JobIs(j, r)' <=> JobIs(j, r)
      /\ UNCHANGED <<queueTxt, inflight, logs, coord, submitted, torn, confused, starts>>
      /\ ReadsControl => coord.pc \notin Waits
  BY <1>2, PaneFrame
<1>e. Len(eventsFifo) \in Nat /\ eventsFifo # Append(eventsFifo, e)
  <2>1. eventsFifo \in Seq(Event) /\ e \in Event
    BY <1>1 DEF BashTyped
  <2>2. Len(Append(eventsFifo, e)) = Len(eventsFifo) + 1 /\ Len(eventsFifo) \in Nat
    BY <2>1
  <2> QED BY <2>2
<1>7. \A x : x.gen = p.gen /\ x.job = p.job => Known(x)
  BY DEF Known, NumbersOK
<1> HIDE DEF e, q, n
<1>8. NumbersOK'
  <2>1. \A x \in panes' : Known(x)' /\ (x \in panes \/ x = q)
    BY <1>1, <1>2, <1>6, <1>7 DEF NumbersOK
  <2>2. \A x \in ToSet(eventsFifo') : Known(x)'
    BY <1>1, <1>2, <1>5, <1>6, <1>7 DEF NumbersOK
  <2>3. ASSUME NEW x \in panes', NEW y \in panes', x.gen = y.gen, x.job = y.job PROVE x = y
    BY <1>1, <1>2, <1>3, <2>1, <2>3 DEF NumbersOK
  <2>4. \A x \in blocked' : Known(x)'
    BY <1>6 DEF NumbersOK
  <2> QED BY <2>1, <2>2, <2>3, <2>4 DEF NumbersOK
<1>9. LiveJobs' \subseteq LiveJobs
  BY <1>1, <1>2, <1>6 DEF LiveJobs, LiveCoord
<1>10. EventsOK'
  <2>1. ASSUME NEW x \in ToSet(eventsFifo), NEW y \in panes', y.gen = coord.gen
        PROVE  (Present(x, y.job, {"dead"}) => y.st = "dead") /\ ~Present(x, y.job, {"done"})
    BY <1>1, <1>2, <2>1 DEF EventsOK, Present
  <2>2. ASSUME NEW y \in panes', y.gen = coord.gen
        PROVE  (Present(e, y.job, {"dead"}) => y.st = "dead") /\ ~Present(e, y.job, {"done"})
    BY <1>1, <1>2, <1>3, <1>4, <2>2 DEF Present
  <2>3. ASSUME eventsFifo' # eventsFifo, p.gen = coord.gen, NEW i \in 1 .. n
        PROVE  ~Present(eventsFifo[i], p.job, {"done"})
    BY <1>5, <2>3 DEF EventsOK
  <2>4. ASSUME NEW k \in DOMAIN eventsFifo', NEW i \in 1 .. k - 1,
               Present(eventsFifo[i], eventsFifo[k].job, {"done"})', eventsFifo'[k].gen = coord.gen,
               eventsFifo'[k].state \in {"fail", "done"}
        PROVE  FALSE
    <3>1. CASE eventsFifo' = eventsFifo
      BY <1>2, <1>6, <2>4, <3>1 DEF EventsOK, Present
    <3>2. CASE eventsFifo' # eventsFifo /\ k = n + 1
      <4>1. eventsFifo'[k] = e /\ eventsFifo'[i] = eventsFifo[i] /\ i \in 1 .. n
        BY <1>5, <3>2
      <4> QED BY <1>1, <1>6, <2>3, <2>4, <3>2, <4>1 DEF Present
    <3>3. CASE eventsFifo' # eventsFifo /\ k # n + 1
      <4>1. k \in 1 .. n /\ i \in 1 .. n
        BY <1>5, <3>3
      <4> QED BY <1>5, <1>6, <2>4, <3>3, <4>1 DEF EventsOK, Present
    <3> QED BY <1>5, <3>1, <3>2, <3>3
  <2>5. ASSUME NEW x \in blocked', x.gen = coord'.gen PROVE x.job \notin LiveJobs'
    BY <1>6, <1>9, <2>5 DEF EventsOK
  <2>6. \A x \in ToSet(eventsFifo') : x \in ToSet(eventsFifo) \/ x = e
    BY <1>2, <1>5
  <2>7. ASSUME NEW x \in ToSet(eventsFifo'), NEW y \in panes', y.gen = coord'.gen
        PROVE  (Present(x, y.job, {"dead"})' => y.st = "dead") /\ ~Present(x, y.job, {"done"})'
    BY <1>6, <2>1, <2>2, <2>6, <2>7 DEF Present
  <2> QED BY <1>6, <2>4, <2>5, <2>7 DEF EventsOK
<1>11. ASSUME ~confused' PROVE FailuresTold'
  <2>2. ASSUME NEW y \in panes', y.gen = coord.gen, y.st = "held", coord.pc # "none"
        PROVE  ToldFailure(y.job, Len(eventsFifo))'
    <3>1. CASE y \in panes
      <4>1. ToldFailure(y.job, n)
        BY <1>6, <1>11, <2>2, <3>1 DEF FailuresTold, n
      <4> QED BY <1>2, <1>5, <1>6, <4>1 DEF ToldFailure, Present, n
    <3>2. CASE y = q
      <4>1. Known(p)
        BY DEF NumbersOK
      <4>2. ReadsControl
        BY <1>1, <2>2, <3>2, <4>1, CoordTyped DEF Known, ReadsControl, Waits, Claims
      <4>4. CASE eventsFifo' = eventsFifo
        <5>1. p.record \in untold' /\ JobIs(p.job, p.record)
          BY <1>1, <1>2, <1>4, <2>2, <3>2, <4>2, <4>4, <1>e DEF PanesMatch
        <5>2. NotTold(p.job)'
          BY <1>6, <5>1 DEF NotTold, JobIs
        <5> QED BY <1>1, <3>2, <5>2 DEF ToldFailure
      <4>5. CASE eventsFifo' # eventsFifo
        <5>3. Present(e, y.job, {"fail"})
          BY <1>1, <1>4, <1>5, <1>6, <2>2, <3>2, <4>5 DEF Present
        <5> QED BY <1>5, <1>6, <4>5, <5>3 DEF ToldFailure, Present, n
      <4> QED BY <4>4, <4>5
    <3> QED BY <1>2, <3>1, <3>2
  <2>3. ASSUME NEW k \in DOMAIN eventsFifo',
               Present(eventsFifo[k], eventsFifo[k].job, {"done"})', ~eventsFifo'[k].ok
        PROVE  ToldFailure(eventsFifo[k].job, k - 1)'
    <3>1. CASE eventsFifo' = eventsFifo
      BY <1>2, <1>6, <1>11, <2>3, <3>1 DEF FailuresTold, ToldFailure, Present
    <3>2. CASE eventsFifo' # eventsFifo /\ k = n + 1
      <4>1. eventsFifo'[k] = e /\ p.gen = coord.gen /\ p.st = "held"
        BY <1>1, <1>2, <1>5, <1>6, <2>3, <3>2 DEF Present
      <4>2. ToldFailure(p.job, n)
        BY <1>6, <1>11, <1>d, <3>2, <4>1 DEF FailuresTold, n, Waits
      <4>3. ToldFailure(p.job, n)'
        BY <1>5, <1>6, <3>2, <4>2 DEF ToldFailure, Present, n
      <4>4. ToldFailure(p.job, k - 1)'
        BY <1>5, <1>6, <3>2, <4>2 DEF ToldFailure, Present, n
      <4> QED BY <1>1, <4>1, <4>4
    <3>3. CASE eventsFifo' # eventsFifo /\ k # n + 1
      <4>1. k \in 1 .. n
        BY <1>5, <3>3
      <4>2. ToldFailure(eventsFifo[k].job, k - 1)
        BY <1>5, <1>6, <1>11, <2>3, <3>3, <4>1 DEF FailuresTold, Present
      <4> QED BY <1>5, <1>6, <3>3, <4>1, <4>2 DEF ToldFailure, Present
    <3> QED BY <1>5, <3>1, <3>2, <3>3
  <2> QED BY <1>6, <2>2, <2>3 DEF FailuresTold
<1>12. ASSUME ~confused' PROVE SlotsKept'
  BY <1>2, <1>6, <1>9, <1>12, SlotsFrame
<1>13. ASSUME meddled' = 0 PROVE CalmOK'
  <2>1. CalmOK /\ SlotsKept
    BY <1>13 DEF CalmOK
  <2>2. p.gen = coord.gen /\ coord.pc \notin Waits /\ p.job \in LiveJobs /\ Pending(p.job)
    BY <2>1 DEF CalmOK, LiveJobs, LiveCoord, SlotsKept, Waits
  <2>3. \A y \in panes' : y.gen = coord'.gen /\ y.st # "dead"
    BY <1>1, <1>2, <1>6, <2>1, <2>2 DEF CalmOK
  <2>4. \A x \in ToSet(eventsFifo') : Present(x, x.job, {"fail", "done"})' /\ Pending(x.job)'
    BY <1>1, <1>2, <1>5, <1>6, <2>1, <2>2 DEF CalmOK, Present
  <2> QED BY <1>6, <2>1, <2>2, <2>3, <2>4 DEF CalmOK
<1>14. PanesMatch'
  BY <1>1, <1>2, <1>6 DEF PanesMatch
<1> QED BY <1>6, <1>8, <1>10, <1>11, <1>12, <1>13, <1>14

\* Succeeds, FailsJob and ReleasesJob are such steps.
LEMMA WrapStep ==
  ASSUME BashIInv, NEW p \in panes, NEW enter \in BOOLEAN,
         Succeeds(p) \/ FailsJob(p) \/ ReleasesJob(p, enter)
  PROVE  BashSound'
<1>1. CASE Succeeds(p)
  BY <1>1, TellsStep DEF Succeeds, PaneStep, SessionFiles, RecordsStay
<1>2. CASE FailsJob(p)
  BY <1>2, TellsStep DEF FailsJob, PaneStep, SessionFiles, RecordsStay
<1>3. CASE ReleasesJob(p, enter)
  BY <1>3, TellsStep DEF ReleasesJob, PaneStep, SessionFiles, RecordsStay
<1> QED BY <1>1, <1>2, <1>3

\* Panes go, and neither the coordinator nor the FIFO takes notice.
LEMMA ClosedStep ==
  ASSUME BashIInv, RecordsStay, UNCHANGED <<eventsFifo, blocked, untold>>, panes' \subseteq panes,
         meddled' = meddled \/ Meddling
  PROVE  BashSound'
<1> USE DEF BashIInv, BashSound
<1>1. /\ CoordOK' /\ (~confused' => RecordsKept')
      /\ \A x : Known(x)' <=> Known(x)
      /\ \A j : Pending(j)' <=> Pending(j)
      /\ \A j : NotTold(j) => NotTold(j)'
      /\ \A j, r : JobIs(j, r)' <=> JobIs(j, r)
      /\ UNCHANGED <<queueTxt, inflight, logs, coord, submitted, torn, untold, confused, starts>>
  BY PaneFrame
<1>2. NumbersOK'
  BY <1>1 DEF NumbersOK
<1>3. LiveJobs' \subseteq LiveJobs
  BY <1>1 DEF LiveJobs, LiveCoord
<1>4. EventsOK'
  BY <1>1, <1>3 DEF EventsOK, Present
<1>5. ASSUME ~confused' PROVE FailuresTold'
  BY <1>1, <1>5 DEF FailuresTold, ToldFailure, Present
<1>6. ASSUME ~confused' PROVE SlotsKept'
  BY <1>1, <1>3, <1>6, SlotsFrame
<1>7. ASSUME meddled' = 0 PROVE CalmOK'
  <2>1. CalmOK
    BY <1>7 DEF Meddling, BashTyped
  <2> QED BY <1>1, <2>1 DEF CalmOK, Present
<1>8. PanesMatch'
  BY <1>1 DEF PanesMatch
<1> QED BY <1>1, <1>2, <1>4, <1>5, <1>6, <1>7, <1>8

\* PaneDies: the event that the hook will write is of a job that lives no more.
LEMMA DiesStep ==
  ASSUME BashIInv, NEW p \in panes, PaneDies(p)
  PROVE  BashSound'
<1> USE DEF BashIInv, BashSound
<1> DEFINE e == [gen |-> p.gen, job |-> p.job, state |-> "dead", ok |-> FALSE]
           q == [p EXCEPT !.st = "dead", !.mapped = FALSE]
<1>1. /\ e.gen = p.gen /\ e.job = p.job /\ e.state = "dead"
      /\ q.gen = p.gen /\ q.job = p.job /\ q.st = "dead" /\ q.record = p.record
  BY PaneTyped
<1>2. /\ p.st # "dead" /\ panes' = (panes \ {p}) \cup {q} /\ blocked' \subseteq blocked \cup {e}
      /\ Meddling /\ UNCHANGED <<eventsFifo, untold>> /\ RecordsStay
  BY DEF PaneDies, PaneStep, SessionFiles, RecordsStay
<1>3. /\ CoordOK' /\ (~confused' => RecordsKept')
      /\ \A x : Known(x)' <=> Known(x)
      /\ \A j : Pending(j)' <=> Pending(j)
      /\ \A j : NotTold(j) => NotTold(j)'
      /\ \A j, r : JobIs(j, r)' <=> JobIs(j, r)
      /\ UNCHANGED <<queueTxt, inflight, logs, coord, submitted, torn, untold, confused, starts>>
  BY <1>2, PaneFrame
<1>4. \A x \in panes : x.gen = p.gen /\ x.job = p.job => x = p
  BY DEF NumbersOK
<1>5. \A x : x.gen = p.gen /\ x.job = p.job => Known(x)
  BY DEF Known, NumbersOK
<1> HIDE DEF e, q
<1>6. NumbersOK'
  <2>1. \A x \in panes' : Known(x)' /\ (x = q \/ (x \in panes /\ x # p))
    BY <1>1, <1>2, <1>3, <1>5 DEF NumbersOK
  <2>2. ASSUME NEW x \in panes', NEW y \in panes', x.gen = y.gen, x.job = y.job PROVE x = y
    BY <1>1, <1>4, <2>1, <2>2 DEF NumbersOK
  <2>3. \A x \in blocked' : Known(x)'
    BY <1>1, <1>2, <1>3, <1>5 DEF NumbersOK
  <2> QED BY <1>2, <1>3, <2>1, <2>2, <2>3 DEF NumbersOK
<1>7. LiveJobs' \subseteq LiveJobs /\ (p.gen = coord.gen => p.job \notin LiveJobs')
  BY <1>1, <1>2, <1>3, <1>4 DEF LiveJobs, LiveCoord
<1>8. EventsOK'
  <2>1. ASSUME NEW x \in blocked', x.gen = coord'.gen PROVE x.job \notin LiveJobs'
    BY <1>1, <1>2, <1>3, <1>7, <2>1 DEF EventsOK
  <2>2. ASSUME NEW x \in ToSet(eventsFifo'), NEW y \in panes', y.gen = coord'.gen
        PROVE  (Present(x, y.job, {"dead"})' => y.st = "dead") /\ ~Present(x, y.job, {"done"})'
    BY <1>1, <1>2, <1>3, <2>2 DEF EventsOK, Present
  <2> QED BY <1>2, <1>3, <2>1, <2>2 DEF EventsOK, Present
<1>9. ASSUME ~confused' PROVE FailuresTold'
  BY <1>1, <1>2, <1>3, <1>9 DEF FailuresTold, ToldFailure, Present
<1>10. ASSUME ~confused' PROVE SlotsKept'
  BY <1>2, <1>3, <1>7, <1>10, SlotsFrame
<1>11. meddled' # 0
  BY <1>2 DEF Meddling, BashTyped
<1>12. PanesMatch'
  BY <1>1, <1>2, <1>3 DEF PanesMatch
<1> QED BY <1>3, <1>6, <1>8, <1>9, <1>10, <1>11, <1>12

\* HookWrites: it tells no more than what has happened.
LEMMA HookStep ==
  ASSUME BashIInv, NEW e \in blocked, HookWrites(e)
  PROVE  BashSound'
<1> USE DEF BashIInv, BashSound
<1> DEFINE n == Len(eventsFifo)
<1>1. /\ ReadsControl /\ blocked' \subseteq blocked /\ eventsFifo' = Append(eventsFifo, e)
      /\ UNCHANGED <<panes, meddled, untold>> /\ RecordsStay /\ e \in Event /\ e.state = "dead"
  BY DEF HookWrites, BashTyped, PaneStep, SessionFiles, RecordsStay
<1>2. /\ CoordOK' /\ (~confused' => RecordsKept')
      /\ \A x : Known(x)' <=> Known(x)
      /\ \A j : Pending(j)' <=> Pending(j)
      /\ \A j : NotTold(j) => NotTold(j)'
      /\ \A j, r : JobIs(j, r)' <=> JobIs(j, r)
      /\ UNCHANGED <<queueTxt, inflight, logs, coord, submitted, torn, untold, confused, starts>>
      /\ coord.pc \notin Waits
  BY <1>1, PaneFrame
<1>3. /\ n \in Nat /\ Len(eventsFifo') = n + 1
      /\ DOMAIN eventsFifo = 1 .. n /\ DOMAIN eventsFifo' = 1 .. n + 1
      /\ \A i \in 1 .. n : eventsFifo'[i] = eventsFifo[i]
      /\ eventsFifo'[n + 1] = e /\ ToSet(eventsFifo') = ToSet(eventsFifo) \cup {e}
  BY <1>1, EventAdded
<1> HIDE DEF n
<1>4. NumbersOK'
  BY <1>1, <1>2, <1>3 DEF NumbersOK
<1>5. LiveJobs' = LiveJobs /\ LiveCoord' = LiveCoord
  BY <1>1, <1>2 DEF LiveJobs, LiveCoord
<1>6. EventsOK'
  <2>1. ASSUME NEW y \in panes', y.gen = coord.gen, Present(e, y.job, {"dead"}) PROVE y.st = "dead"
    BY <1>1, <2>1 DEF EventsOK, Present, LiveJobs, LiveCoord
  <2>2. ASSUME NEW x \in ToSet(eventsFifo'), NEW y \in panes', y.gen = coord'.gen
        PROVE  (Present(x, y.job, {"dead"})' => y.st = "dead") /\ ~Present(x, y.job, {"done"})'
    BY <1>1, <1>2, <1>3, <2>1, <2>2 DEF EventsOK, Present
  <2>3. ASSUME NEW k \in DOMAIN eventsFifo', NEW i \in 1 .. k - 1,
               Present(eventsFifo[i], eventsFifo[k].job, {"done"})', eventsFifo'[k].gen = coord.gen,
               eventsFifo'[k].state \in {"fail", "done"}
        PROVE  FALSE
    <3>1. k \in 1 .. n /\ i \in 1 .. n
      BY <1>1, <1>3, <2>3
    <3> QED BY <1>2, <1>3, <2>3, <3>1 DEF EventsOK, Present
  <2> QED BY <1>1, <1>2, <1>5, <2>2, <2>3 DEF EventsOK
<1>7. ASSUME ~confused' PROVE FailuresTold'
  <2>1. ASSUME NEW y \in panes', y.gen = coord.gen, y.st = "held", coord.pc # "none"
        PROVE  ToldFailure(y.job, Len(eventsFifo))'
    <3>1. ToldFailure(y.job, n)
      BY <1>1, <1>2, <1>7, <2>1 DEF FailuresTold, n
    <3> QED BY <1>2, <1>3, <3>1 DEF ToldFailure, Present, n
  <2>2. ASSUME NEW k \in DOMAIN eventsFifo',
               Present(eventsFifo[k], eventsFifo[k].job, {"done"})', ~eventsFifo'[k].ok
        PROVE  ToldFailure(eventsFifo[k].job, k - 1)'
    <3>1. k \in 1 .. n
      BY <1>1, <1>3, <2>2 DEF Present
    <3>2. ToldFailure(eventsFifo[k].job, k - 1)
      BY <1>2, <1>3, <1>7, <2>2, <3>1 DEF FailuresTold, Present
    <3> QED BY <1>2, <1>3, <3>1, <3>2 DEF ToldFailure, Present
  <2> QED BY <1>2, <2>1, <2>2 DEF FailuresTold
<1>8. ASSUME ~confused' PROVE SlotsKept'
  BY <1>1, <1>2, <1>5, <1>8, SlotsFrame
<1>9. meddled' # 0
  BY <1>1 DEF CalmOK
<1>10. PanesMatch'
  BY <1>1, <1>2 DEF PanesMatch
<1> QED BY <1>2, <1>4, <1>6, <1>7, <1>8, <1>9, <1>10

\* The lines of a file whose first line is taken.
LEMMA TailAt ==
  ASSUME NEW S, NEW s \in Seq(S), s # << >>
  PROVE  \A i \in 1 .. Len(s) - 1 : Tail(s)[i] = s[i + 1]
OBVIOUS

\* Where the events are once the first has been read.
LEMMA EventTaken ==
  ASSUME BashTyped, eventsFifo # << >>, eventsFifo' = Tail(eventsFifo)
  PROVE  /\ Len(eventsFifo) \in Nat /\ DOMAIN eventsFifo = 1 .. Len(eventsFifo)
         /\ 1 \in DOMAIN eventsFifo /\ Len(eventsFifo') = Len(eventsFifo) - 1
         /\ DOMAIN eventsFifo' = 1 .. Len(eventsFifo) - 1
         /\ \A i \in 1 .. Len(eventsFifo) - 1 :
              eventsFifo'[i] = eventsFifo[i + 1] /\ i + 1 \in DOMAIN eventsFifo
         /\ Head(eventsFifo) = eventsFifo[1] /\ Head(eventsFifo) \in Event
         /\ ToSet(eventsFifo) = {Head(eventsFifo)} \cup ToSet(eventsFifo')
         /\ \A i \in DOMAIN eventsFifo : eventsFifo[i] \in ToSet(eventsFifo)
         /\ \A x \in ToSet(eventsFifo') : \E i \in DOMAIN eventsFifo' : eventsFifo'[i] = x
<1>1. eventsFifo \in Seq(Event) /\ eventsFifo' \in Seq(Event)
  BY FirstTaken DEF BashTyped
<1>2. ToSet(eventsFifo) = {Head(eventsFifo)} \cup ToSet(eventsFifo') /\ Head(eventsFifo) \in Event
  BY <1>1, FirstTaken
<1>3. \A i \in DOMAIN eventsFifo : eventsFifo[i] \in ToSet(eventsFifo)
  BY <1>1, InLines
<1>5. /\ Len(eventsFifo) \in Nat \ {0} /\ DOMAIN eventsFifo = 1 .. Len(eventsFifo)
      /\ Len(eventsFifo') = Len(eventsFifo) - 1 /\ DOMAIN eventsFifo' = 1 .. Len(eventsFifo')
      /\ Head(eventsFifo) = eventsFifo[1]
  BY <1>1
<1>4. \A x \in ToSet(eventsFifo') : \E i \in DOMAIN eventsFifo' : eventsFifo'[i] = x
  <2>1. \A x : x \in ToSet(eventsFifo') <=> \E i \in 1 .. Len(eventsFifo') : eventsFifo'[i] = x
    BY <1>1, InLines
  <2> QED BY <1>5, <2>1
<1>6. \A i \in 1 .. Len(eventsFifo) - 1 : Tail(eventsFifo)[i] = eventsFifo[i + 1]
  BY <1>1, TailAt
<1>7. \A i \in 1 .. Len(eventsFifo) - 1 :
        eventsFifo'[i] = eventsFifo[i + 1] /\ i + 1 \in DOMAIN eventsFifo
  BY <1>5, <1>6
<1>8. 1 \in DOMAIN eventsFifo /\ DOMAIN eventsFifo' = 1 .. Len(eventsFifo) - 1
  BY <1>5
<1> QED BY <1>2, <1>3, <1>4, <1>5, <1>7, <1>8

\* HandleEvent of a job that is known: what changes, and how.
Handles(e, r) ==
  /\ coord.pc = "reading" /\ eventsFifo # << >> /\ e = Head(eventsFifo)
  /\ e.job \in DOMAIN coord.jobs /\ r = coord.jobs[e.job]
  /\ CASE e.state = "dead" -> Dead(e, r)
       [] e.state = "fail" -> Failed(e, r)
       [] e.state = "done" -> Done(e, r)
  /\ eventsFifo' = Tail(eventsFifo) /\ confused' = (confused \/ e.gen # coord.gen)
  /\ UNCHANGED <<queueTxt, blocked, submitted, torn, untold, starts, meddled>>

\* It is an event of one of the three kinds.
LEMMA HandledEvent ==
  ASSUME BashTyped, NEW e, NEW r, Handles(e, r)
  PROVE  e \in Event /\ e.state \in {"dead", "fail", "done"} /\ e \in ToSet(eventsFifo)
<1>1. e \in Event /\ e \in ToSet(eventsFifo)
  BY EventTaken DEF Handles
<1> QED BY <1>1 DEF Event

\* The coordinator's tables after an event.
LEMMA HandledTables ==
  ASSUME BashIInv, NEW e, NEW r, Handles(e, r)
  PROVE  /\ coord'.pc \in {"starting", "reading"} /\ coord'.gen = coord.gen
         /\ coord'.seq = coord.seq /\ coord'.claim = {} /\ coord.claim = {}
         /\ DOMAIN coord'.jobs = IF e.state = "fail" THEN DOMAIN coord.jobs
                                 ELSE DOMAIN coord.jobs \ {e.job}
         /\ \A j \in DOMAIN coord'.jobs : coord'.jobs[j] = coord.jobs[j]
         /\ coord'.failed = CASE e.state = "fail" -> coord.failed \cup {e.job}
                              [] e.state = "done" -> coord.failed \ {e.job}
                              [] e.state = "dead" -> coord.failed
         /\ e \in Event
<1> USE DEF BashIInv, BashSound
<1>1. e \in Event /\ e.state \in {"dead", "fail", "done"}
  BY HandledEvent
<1>2. coord.pc = "reading" /\ coord.claim = {}
  BY DEF Handles, CoordOK, Claims
<1>3. /\ DOMAIN Forgotten(e.job) = DOMAIN coord.jobs \ {e.job}
      /\ \A j \in DOMAIN Forgotten(e.job) : Forgotten(e.job)[j] = coord.jobs[j]
  BY DEF Forgotten
<1>4. CASE e.state = "dead"
  <2>1. coord' = [coord EXCEPT !.pc = "starting", !.jobs = Forgotten(e.job)]
    BY <1>4 DEF Handles, Dead
  <2> QED BY <1>1, <1>2, <1>3, <1>4, <2>1, CoordTyped
<1>5. CASE e.state = "fail"
  <2>1. coord' = [coord EXCEPT !.failed = coord.failed \cup {e.job}]
    BY <1>5 DEF Handles, Failed
  <2> QED BY <1>1, <1>2, <1>5, <2>1, CoordTyped
<1>6. CASE e.state = "done"
  <2>1. coord' = [coord EXCEPT !.pc = "starting", !.jobs = Forgotten(e.job),
                               !.failed = coord.failed \ {e.job}]
    BY <1>6 DEF Handles, Done
  <2> QED BY <1>1, <1>2, <1>3, <1>6, <2>1, CoordTyped
<1> QED BY <1>1, <1>4, <1>5, <1>6

\* A record leaves inflight when it is in a log, or its failure has been told before.
LEMMA HandledFiles ==
  ASSUME BashIInv, NEW e, NEW r, Handles(e, r)
  PROVE  /\ \/ inflight' = inflight /\ e.state = "done" /\ e.job \in coord.failed
            \/ /\ inflight' = InflightRemove(inflight, r)
               /\ (e.state = "done" => e.job \notin coord.failed)
               /\ (e.state = "done" /\ ~e.ok) \/ (\E l \in logs' : l[1] = r)
         /\ logs \subseteq logs'
         /\ ToSet(inflight') \subseteq ToSet(inflight)
         /\ \A x \in ToSet(inflight) : x # r => x \in ToSet(inflight')
         /\ Distinct(inflight) => Distinct(inflight')
         /\ Distinct(inflight) /\ ~(e.state = "done" /\ e.job \in coord.failed)
              => r \notin ToSet(inflight')
<1> USE DEF BashIInv, BashSound
<1>1. e.state \in {"dead", "fail", "done"}
  BY HandledEvent
<1>2. /\ ToSet(InflightRemove(inflight, r)) \subseteq ToSet(inflight)
      /\ \A x \in ToSet(inflight) : x # r => x \in ToSet(InflightRemove(inflight, r))
      /\ Distinct(inflight) => /\ Distinct(InflightRemove(inflight, r))
                               /\ r \notin ToSet(InflightRemove(inflight, r))
  BY LineRemoved DEF BashTyped
<1>3. /\ \/ inflight' = inflight /\ e.state = "done" /\ e.job \in coord.failed
         \/ /\ inflight' = InflightRemove(inflight, r)
            /\ (e.state = "done" => e.job \notin coord.failed)
            /\ (e.state = "done" /\ ~e.ok) \/ (\E l \in logs' : l[1] = r)
      /\ logs \subseteq logs'
  <2>1. \A how : <<r, how>>[1] = r
    OBVIOUS
  <2>2. CASE e.state = "dead"
    <3>1. logs' = logs \cup {<<r, "interrupted">>} /\ inflight' = InflightRemove(inflight, r)
      BY <2>2 DEF Handles, Dead
    <3> QED BY <2>1, <2>2, <3>1
  <2>3. CASE e.state = "fail"
    <3>1. logs' = logs \cup {<<r, "failed">>} /\ inflight' = InflightRemove(inflight, r)
      BY <2>3 DEF Handles, Failed
    <3> QED BY <2>1, <2>3, <3>1
  <2>4. CASE e.state = "done"
    <3>1. /\ logs' = IF e.ok /\ e.job \notin coord.failed THEN logs \cup {<<r, "ok">>} ELSE logs
          /\ inflight' = IF e.job \in coord.failed THEN inflight ELSE InflightRemove(inflight, r)
      BY <2>4 DEF Handles, Done
    <3> QED BY <2>1, <2>4, <3>1
  <2> QED BY <1>1, <2>2, <2>3, <2>4
<1> QED BY <1>1, <1>2, <1>3

\* A pane that is told to resume stays what it is.
LEMMA HandledPanes ==
  ASSUME BashIInv, NEW e, NEW r, Handles(e, r)
  PROVE  /\ \A y \in panes' : \E x \in panes :
              x.gen = y.gen /\ x.job = y.job /\ x.st = y.st /\ x.record = y.record
         /\ \A x, y \in panes' : x.gen = y.gen /\ x.job = y.job => x = y
         /\ LiveJobs' \subseteq LiveJobs
<1> USE DEF BashIInv, BashSound
<1>1. e.state \in {"dead", "fail", "done"}
  BY HandledEvent
<1>2. \/ panes' = panes
      \/ \E p \in panes : panes' = (panes \ {p}) \cup {[p EXCEPT !.resume = TRUE]}
  BY <1>1 DEF Handles, Dead, Failed, Done, Resumable
<1>3. \A p \in panes : LET q == [p EXCEPT !.resume = TRUE] IN
        q.gen = p.gen /\ q.job = p.job /\ q.st = p.st /\ q.record = p.record
  BY PaneTyped
<1>4. \A y \in panes' : \E x \in panes :
              x.gen = y.gen /\ x.job = y.job /\ x.st = y.st /\ x.record = y.record
  BY <1>2, <1>3
<1>5. ASSUME NEW x \in panes', NEW y \in panes', x.gen = y.gen, x.job = y.job PROVE x = y
  <2>1. CASE panes' = panes
    BY <1>5, <2>1 DEF NumbersOK
  <2>2. ASSUME NEW p \in panes, panes' = (panes \ {p}) \cup {[p EXCEPT !.resume = TRUE]} PROVE x = y
    <3> DEFINE q == [p EXCEPT !.resume = TRUE]
    <3>1. q.gen = p.gen /\ q.job = p.job
      BY <1>3
    <3>2. (x \in panes \ {p} \/ x = q) /\ (y \in panes \ {p} \/ y = q)
      BY <2>2
    <3> HIDE DEF q
    <3>3. \A u, v \in panes : u.gen = v.gen /\ u.job = v.job => u = v
      BY DEF NumbersOK
    <3> QED BY <1>5, <3>1, <3>2, <3>3
  <2> QED BY <1>2, <2>1, <2>2
<1>6. LiveJobs' \subseteq LiveJobs
  <2>1. coord'.gen = coord.gen
    BY HandledTables
  <2> QED BY <1>4, <2>1 DEF LiveJobs, LiveCoord
<1> QED BY <1>4, <1>5, <1>6

\* An event of the coordinator's own pane is handled.
LEMMA HandledStep ==
  ASSUME BashIInv, NEW e, NEW r, Handles(e, r)
  PROVE  BashSound'
<1> USE DEF BashIInv, BashSound
<1> DEFINE n == Len(eventsFifo)
<1>1. /\ coord.pc = "reading" /\ e.job \in DOMAIN coord.jobs /\ r = coord.jobs[e.job]
      /\ confused' = (confused \/ e.gen # coord.gen)
      /\ UNCHANGED <<queueTxt, blocked, submitted, torn, untold, starts, meddled>>
  BY DEF Handles
<1>2. /\ coord'.pc \in {"starting", "reading"} /\ coord'.gen = coord.gen
      /\ coord'.seq = coord.seq /\ coord'.claim = {} /\ coord.claim = {}
      /\ DOMAIN coord'.jobs = IF e.state = "fail" THEN DOMAIN coord.jobs
                              ELSE DOMAIN coord.jobs \ {e.job}
      /\ \A j \in DOMAIN coord'.jobs : coord'.jobs[j] = coord.jobs[j]
      /\ coord'.failed = CASE e.state = "fail" -> coord.failed \cup {e.job}
                           [] e.state = "done" -> coord.failed \ {e.job}
                           [] e.state = "dead" -> coord.failed
  BY HandledTables
<1>3. e \in Event /\ e.state \in {"dead", "fail", "done"} /\ e \in ToSet(eventsFifo)
  BY HandledEvent
<1>4. /\ n \in Nat /\ DOMAIN eventsFifo = 1 .. n /\ 1 \in DOMAIN eventsFifo
      /\ Len(eventsFifo') = n - 1 /\ DOMAIN eventsFifo' = 1 .. n - 1
      /\ \A i \in 1 .. n - 1 : eventsFifo'[i] = eventsFifo[i + 1] /\ i + 1 \in DOMAIN eventsFifo
      /\ e = eventsFifo[1] /\ ToSet(eventsFifo') \subseteq ToSet(eventsFifo)
      /\ \A x \in ToSet(eventsFifo') : \E i \in DOMAIN eventsFifo' : eventsFifo'[i] = x
  BY EventTaken DEF Handles
<1>5. /\ \A y \in panes' : \E x \in panes :
              x.gen = y.gen /\ x.job = y.job /\ x.st = y.st /\ x.record = y.record
      /\ \A x, y \in panes' : x.gen = y.gen /\ x.job = y.job => x = y
      /\ LiveJobs' \subseteq LiveJobs
  BY HandledPanes
<1> HIDE DEF n
<1>6. CoordOK'
  <2>1. coord'.failed \subseteq coord.failed \cup {e.job} /\ DOMAIN coord'.jobs \subseteq DOMAIN coord.jobs
    BY <1>2, <1>3
  <2>2. Running <= Slots /\ Running \in Nat /\ IsFiniteSet(DOMAIN coord.jobs)
    BY JobsCounted DEF CoordOK
  <2>3. Running' <= Running /\ Running' \in Nat
    BY <2>1, <2>2, FS_Subset, FS_CardinalityType DEF Running
  <2>4. Running' <= Slots
    BY <2>2, <2>3, BashAssumption
  <2> QED BY <1>1, <1>2, <2>1, <2>4 DEF CoordOK, Waits, Claims
<1>7. \A x : Known(x) => Known(x)'
  BY <1>1, <1>2 DEF Known
<1>8. NumbersOK'
  <2>1. ASSUME NEW y \in panes' PROVE Known(y)'
    BY <1>1, <1>2, <1>5 DEF NumbersOK, Known
  <2> QED BY <1>1, <1>4, <1>5, <1>7, <2>1 DEF NumbersOK
<1>9. ASSUME NEW k \in DOMAIN eventsFifo, k # 1, e.gen = coord.gen, e.state = "done",
             eventsFifo[k].gen = coord.gen, eventsFifo[k].state \in {"fail", "done"}
      PROVE  eventsFifo[k].job # e.job
  <2>1. 1 \in 1 .. k - 1
    BY <1>4, <1>9
  <2> QED BY <1>4, <1>9, <2>1 DEF EventsOK, Present
<1>10. EventsOK'
  <2>1. ASSUME NEW x \in blocked', x.gen = coord'.gen PROVE x.job \notin LiveJobs'
    BY <1>1, <1>2, <1>5, <2>1 DEF EventsOK
  <2>2. ASSUME NEW x \in ToSet(eventsFifo'), NEW y \in panes', y.gen = coord'.gen
        PROVE  (Present(x, y.job, {"dead"})' => y.st = "dead") /\ ~Present(x, y.job, {"done"})'
    BY <1>2, <1>4, <1>5, <2>2 DEF EventsOK, Present
  <2>3. ASSUME NEW k \in DOMAIN eventsFifo', NEW i \in 1 .. k - 1,
               Present(eventsFifo[i], eventsFifo[k].job, {"done"})', eventsFifo'[k].gen = coord.gen,
               eventsFifo'[k].state \in {"fail", "done"}
        PROVE  FALSE
    <3>1. /\ eventsFifo'[k] = eventsFifo[k + 1] /\ eventsFifo'[i] = eventsFifo[i + 1]
          /\ k + 1 \in DOMAIN eventsFifo /\ i + 1 \in 1 .. (k + 1) - 1
      BY <1>4
    <3> QED BY <1>2, <2>3, <3>1 DEF EventsOK, Present
  <2> QED BY <1>2, <2>1, <2>2, <2>3 DEF EventsOK
<1>11. ASSUME ~confused' PROVE FailuresTold'
  <2>1. FailuresTold /\ e.gen = coord.gen
    BY <1>1, <1>11
  <2>2. ASSUME NEW j, NEW m \in Nat, ToldFailure(j, m), e.state = "done" => j # e.job
        PROVE  ToldFailure(j, m - 1)'
    <3>1. CASE j \in coord.failed
      BY <1>2, <1>3, <2>2, <3>1 DEF ToldFailure
    <3>2. ASSUME NEW k \in DOMAIN eventsFifo, k <= m, Present(eventsFifo[k], j, {"fail"})
          PROVE  ToldFailure(j, m - 1)'
      <4>1. CASE k = 1
        BY <1>2, <1>4, <3>2, <4>1 DEF ToldFailure, Present
      <4>2. CASE k # 1
        <5>1. /\ k - 1 \in DOMAIN eventsFifo' /\ eventsFifo'[k - 1] = eventsFifo[k]
              /\ k - 1 <= m - 1
          BY <1>4, <3>2, <4>2
        <5> QED BY <1>2, <3>2, <5>1 DEF ToldFailure, Present
      <4> QED BY <4>1, <4>2
    <3>3. CASE NotTold(j)
      BY <1>1, <1>2, <3>3 DEF ToldFailure, NotTold
    <3> QED BY <2>2, <3>1, <3>2, <3>3 DEF ToldFailure
  <2>3. ASSUME NEW y \in panes', y.gen = coord'.gen, y.st = "held"
        PROVE  ToldFailure(y.job, Len(eventsFifo))'
    <3>1. ToldFailure(y.job, n)
      BY <1>1, <1>2, <1>5, <2>1, <2>3 DEF FailuresTold, n
    <3>2. e.state = "done" => y.job # e.job
      BY <1>2, <1>3, <1>5, <2>1, <2>3 DEF EventsOK, Present
    <3> QED BY <1>4, <2>2, <3>1, <3>2
  <2>4. ASSUME NEW k \in DOMAIN eventsFifo',
               Present(eventsFifo[k], eventsFifo[k].job, {"done"})', ~eventsFifo'[k].ok
        PROVE  ToldFailure(eventsFifo[k].job, k - 1)'
    <3>1. eventsFifo'[k] = eventsFifo[k + 1] /\ k + 1 \in DOMAIN eventsFifo /\ k \in Nat /\ k + 1 # 1
      BY <1>4
    <3>2. PICK j : j = eventsFifo[k + 1].job
      OBVIOUS
    <3>3. ToldFailure(j, k)
      BY <1>2, <2>1, <2>4, <3>1, <3>2 DEF FailuresTold, Present
    <3>4. e.state = "done" => j # e.job
      BY <1>2, <1>9, <2>1, <2>4, <3>1, <3>2 DEF Present
    <3>5. ToldFailure(j, k - 1)'
      BY <2>2, <3>1, <3>3, <3>4
    <3> QED BY <3>1, <3>2, <3>5 DEF ToldFailure, Present
  <2> QED BY <2>3, <2>4 DEF FailuresTold
<1>12. ASSUME ~confused' PROVE SlotsKept'
  <2>1. SlotsKept /\ e.gen = coord.gen /\ IsFiniteSet(LiveJobs) /\ Cardinality(LiveJobs) <= Slots
    BY <1>1, <1>12 DEF SlotsKept
  <2>2. IsFiniteSet(LiveJobs') /\ Cardinality(LiveJobs') <= Cardinality(LiveJobs)
    BY <1>5, <2>1, FS_Subset
  <2>3. Cardinality(LiveJobs') <= Slots
    BY <2>1, <2>2, FS_CardinalityType, BashAssumption
  <2>4. e.state # "fail" => e.job \notin LiveJobs
    BY <1>3, <2>1 DEF EventsOK, Present, LiveJobs, LiveCoord
  <2>5. \A j \in LiveJobs : j \in DOMAIN coord.jobs
    BY <1>1, <2>1 DEF SlotsKept, Pending
  <2>6. \A j \in LiveJobs' : Pending(j)'
    BY <1>2, <1>5, <2>4, <2>5 DEF Pending
  <2> QED BY <2>2, <2>3, <2>6 DEF SlotsKept
<1>13. /\ \/ inflight' = inflight /\ e.state = "done" /\ e.job \in coord.failed
          \/ /\ inflight' = InflightRemove(inflight, r)
             /\ (e.state = "done" => e.job \notin coord.failed)
             /\ (e.state = "done" /\ ~e.ok) \/ (\E l \in logs' : l[1] = r)
       /\ logs \subseteq logs'
       /\ ToSet(inflight') \subseteq ToSet(inflight)
       /\ \A x \in ToSet(inflight) : x # r => x \in ToSet(inflight')
       /\ Distinct(inflight) => Distinct(inflight')
       /\ Distinct(inflight) /\ ~(e.state = "done" /\ e.job \in coord.failed)
            => r \notin ToSet(inflight')
  BY HandledFiles
<1>14. ASSUME ~confused' PROVE RecordsKept'
  <2>1. FailuresTold /\ RecordsKept /\ e.gen = coord.gen
    BY <1>1, <1>14
  <2>2. e.state = "done" /\ ~e.ok => e.job \in coord.failed \/ r \in untold
    <3>1. 1 - 1 = 0 /\ \A k \in DOMAIN eventsFifo : ~(k <= 0)
      BY <1>4
    <3>2. e.state = "done" /\ ~e.ok => ToldFailure(e.job, 1 - 1)
      BY <1>4, <2>1 DEF FailuresTold, Present
    <3> QED BY <1>1, <3>1, <3>2 DEF ToldFailure, NotTold
  <2>3. r \in ToSet(inflight) \ untold => r \in ToSet(inflight') \/ Logged(r)'
    BY <1>13, <2>2 DEF Logged
  <2>4. ASSUME NEW x, Logged(x) PROVE Logged(x)'
    BY <1>13, <2>4 DEF Logged
  <2> QED BY <1>1, <1>2, <1>13, <2>1, <2>3, <2>4 DEF RecordsKept
<1>15. ASSUME meddled' = 0 PROVE CalmOK'
  <2>1. CalmOK /\ e.gen = coord.gen /\ e.state \in {"fail", "done"}
    BY <1>1, <1>3, <1>15 DEF CalmOK, Present
  <2>2. \A y \in panes' : y.gen = coord'.gen /\ y.st # "dead"
    BY <1>2, <1>5, <2>1 DEF CalmOK
  <2>3. ASSUME NEW x \in ToSet(eventsFifo')
        PROVE  Present(x, x.job, {"fail", "done"})' /\ Pending(x.job)'
    <3>1. PICK k \in DOMAIN eventsFifo' : eventsFifo'[k] = x
      BY <1>4
    <3>2. eventsFifo[k + 1] = x /\ k + 1 \in DOMAIN eventsFifo /\ k + 1 # 1
      BY <1>4, <3>1
    <3>3. Present(x, x.job, {"fail", "done"}) /\ x.job \in DOMAIN coord.jobs
      BY <1>1, <1>4, <2>1 DEF CalmOK, Pending
    <3>4. e.state = "done" => x.job # e.job
      BY <1>9, <2>1, <3>2, <3>3 DEF Present
    <3> QED BY <1>2, <2>1, <3>3, <3>4 DEF Present, Pending
  <2>4. ASSUME NEW x \in ToSet(inflight')
        PROVE  \E j \in DOMAIN coord'.jobs \ coord'.failed : coord'.jobs[j] = x
    <3>1. PICK j \in DOMAIN coord.jobs \ coord.failed : coord.jobs[j] = x
      BY <1>1, <1>13, <2>1 DEF CalmOK
    <3>2. j # e.job
      BY <1>1, <1>13, <2>1, <3>1 DEF CalmOK
    <3> QED BY <1>2, <2>1, <3>1, <3>2
  <2>5. ~confused'
    BY <1>1, <2>1 DEF CalmOK
  <2>6. \A x \in ToSet(queueTxt') : starts'[x] = 0 /\ x \notin ToSet(inflight') \cup coord'.claim
    BY <1>1, <1>2, <1>13, <2>1 DEF CalmOK
  <2> QED BY <1>1, <1>2, <1>13, <2>1, <2>2, <2>3, <2>4, <2>5, <2>6 DEF CalmOK, Waits
<1>16. PanesMatch'
  BY <1>1, <1>2, <1>5 DEF PanesMatch, JobIs
<1> QED BY <1>6, <1>8, <1>10, <1>11, <1>12, <1>14, <1>15, <1>16

\* HandleEvent, of a job that is known or not.
LEMMA HandleStep ==
  ASSUME BashIInv, HandleEvent
  PROVE  BashSound'
<1> DEFINE e == Head(eventsFifo)
<1>1. coord.pc = "reading" /\ eventsFifo # << >>
  BY DEF HandleEvent, At
<1>2. CASE e.job \notin DOMAIN coord.jobs
  <2>1. CoordinatorGone /\ UNCHANGED <<queueTxt, logs, inflight, panes, blocked, submitted, untold,
                                       confused, starts, meddled>>
    BY <1>2 DEF HandleEvent
  <2>2. e \in ToSet(eventsFifo)
    <3>1. eventsFifo \in Seq(Event)
      BY DEF BashIInv, BashTyped
    <3> QED BY <1>1, <3>1, FirstTaken
  <2>3. meddled' # 0
    BY <1>1, <1>2, <2>1, <2>2 DEF BashIInv, BashSound, CalmOK, Pending
  <2> QED BY <2>1, <2>3, GoneStep
<1>3. CASE e.job \in DOMAIN coord.jobs
  <2>1. Handles(e, coord.jobs[e.job])
    BY <1>1, <1>3 DEF HandleEvent, Handles
  <2>2. PICK x : x = e
    OBVIOUS
  <2>3. PICK r : r = coord.jobs[x.job]
    OBVIOUS
  <2>4. Handles(x, r)
    BY <2>1, <2>2, <2>3
  <2> QED BY <2>4, HandledStep
<1> QED BY <1>2, <1>3

-----------------------------------------------------------------------------
(* The Bash executor: its theorems *)

\* The invariant holds at first.
LEMMA BashInitSound == BashInit => BashIInv
<1> SUFFICES ASSUME BashInit PROVE BashIInv
  OBVIOUS
<1> USE DEF BashInit
<1>1. << >> \in JobTable /\ ToSet(<< >>) = {} /\ DOMAIN NoCoord.jobs = {}
  BY NoJobs DEF ToSet, NoCoord
<1>2. /\ coord.pc = "none" /\ coord.gen = 0 /\ coord.seq = 0 /\ coord.claim = {}
      /\ coord.jobs = << >> /\ coord.failed = {} /\ Running = 0
  BY <1>1, FS_EmptySet DEF NoCoord, Running
<1>3. BashTyped
  <2>1. submitted = 1 .. 0 /\ 0 <= MaxRecords
    BY BashAssumption
  <2>2. coord \in Leading
    BY <1>1 DEF NoCoord, Leading, Waits
  <2>3. starts \in [Submission -> Nat]
    OBVIOUS
  <2>4. {} \subseteq 1 .. 0 /\ 0 \in Nat /\ FALSE \in BOOLEAN
    OBVIOUS
  <2>5. << >> \in Seq(Submission) /\ << >> \in Seq(Event)
    OBVIOUS
  <2> HIDE DEF BashInit
  <2>6. /\ queueTxt = << >> /\ inflight = << >> /\ logs = {} /\ panes = {} /\ eventsFifo = << >>
        /\ blocked = {} /\ submitted = {} /\ torn = {} /\ untold = {} /\ confused = FALSE
        /\ meddled = 0
    BY DEF BashInit
  <2>7. \E m \in Nat : submitted = 1 .. m /\ m <= MaxRecords
    BY <2>1
  <2> QED BY <1>1, <2>2, <2>3, <2>5, <2>6, <2>7 DEF BashTyped
<1>4. CoordOK
  BY <1>1, <1>2, BashAssumption DEF CoordOK, Waits, Claims, NoCoord
<1>5. LiveJobs = {} /\ NumbersOK /\ EventsOK /\ PanesMatch
  BY <1>1 DEF LiveJobs, LiveCoord, NumbersOK, EventsOK, PanesMatch
<1>6. FailuresTold /\ RecordsKept /\ SlotsKept
  BY <1>2, <1>5, FS_EmptySet, BashAssumption DEF FailuresTold, RecordsKept, SlotsKept
<1>7. CalmOK
  BY <1>1, <1>2 DEF CalmOK, Distinct, Waits
<1> QED BY <1>3, <1>4, <1>5, <1>6, <1>7 DEF BashIInv, BashSound

\* Each step keeps it.
LEMMA BashKeepsSound == BashIInv /\ [BashNext]_bashVars => BashIInv'
<1> SUFFICES ASSUME BashIInv, [BashNext]_bashVars PROVE BashIInv'
  OBVIOUS
<1>1. BashTyped'
  BY TypedStep DEF BashIInv, BashSound
<1> SUFFICES BashSound'
  BY <1>1 DEF BashIInv
<1>2. ASSUME NEW r \in Submission, Submit(r) \/ Claimed(r) \/ Dispatch(r) \/ Mapped(r)
      PROVE  BashSound'
  BY <1>2, SubmitStep, ClaimedStep, DispatchStep, MappedStep
<1>3. ASSUME NEW b \in BOOLEAN, Submitted(b) \/ Control(b) PROVE BashSound'
  <2>1. /\ UNCHANGED <<queueTxt, inflight, logs, panes, eventsFifo, blocked, submitted, torn, untold,
                       confused, starts>>
        /\ \/ UNCHANGED coord /\ (meddled' = meddled \/ Meddling)
           \/ Launch /\ coord.pc = "none" /\ UNCHANGED meddled
    BY <1>3 DEF Submitted, Control, HasSession, At, Observed
  <2> QED BY <2>1, SameStep, LaunchStep
<1>4. ASSUME NEW b \in BOOLEAN, Drain(b) PROVE BashSound'
  <2>1. /\ Meddling /\ panes' \subseteq panes
        /\ UNCHANGED <<queueTxt, inflight, logs, blocked, submitted, untold, confused, starts>>
        /\ CoordinatorGone \/ (UNCHANGED <<coord, eventsFifo, torn>> /\ (b => At("none")))
    BY <1>4 DEF Drain
  <2>2. meddled' # 0
    BY <2>1 DEF Meddling, BashIInv, BashTyped
  <2>3. CASE CoordinatorGone
    BY <2>1, <2>2, <2>3, GoneStep
  <2>4. CASE UNCHANGED <<coord, eventsFifo, torn>>
    BY <2>1, <2>4, ClosedStep DEF RecordsStay
  <2> QED BY <2>1, <2>3, <2>4
<1>5. CASE Requeue \/ ForgetClaims \/ TakeFirst \/ Started \/ Leave \/ HandleEvent
  <2>1. CASE Requeue \/ ForgetClaims
    BY <2>1, RequeueStep
  <2>2. CASE TakeFirst
    BY <2>2, TakeStep
  <2>3. CASE Started
    BY <2>3, StartedStep
  <2>4. CASE Leave
    BY <2>4, LeaveStep
  <2>5. CASE HandleEvent
    BY <2>5, HandleStep
  <2> QED BY <1>5, <2>1, <2>2, <2>3, <2>4, <2>5
<1>6. CASE DispatchFails \/ CoordinatorDies
  <2>1. /\ Meddling /\ CoordinatorGone
        /\ UNCHANGED <<queueTxt, inflight, logs, panes, blocked, submitted, untold, confused, starts>>
    BY <1>6 DEF DispatchFails, CoordinatorDies, SessionFiles
  <2>2. meddled' # 0
    BY <2>1 DEF Meddling, BashIInv, BashTyped
  <2>3. panes' \subseteq panes
    BY <2>1
  <2> QED BY <2>1, <2>2, <2>3, GoneStep
<1>7. ASSUME NEW p \in panes, NEW enter \in BOOLEAN,
             Succeeds(p) \/ FailsJob(p) \/ ReleasesJob(p, enter) PROVE BashSound'
  BY <1>7, WrapStep
<1>8. ASSUME NEW p \in panes, PaneDies(p) \/ PaneClosed(p) PROVE BashSound'
  <2>1. CASE PaneDies(p)
    BY <2>1, DiesStep
  <2>2. CASE PaneClosed(p)
    BY <2>2, ClosedStep DEF PaneClosed, PaneStep, SessionFiles, RecordsStay
  <2> QED BY <1>8, <2>1, <2>2
<1>9. ASSUME NEW e \in blocked, HookWrites(e) PROVE BashSound'
  BY <1>9, HookStep
<1>10. CASE UNCHANGED bashVars
  <2>1. UNCHANGED <<queueTxt, inflight, logs, coord, panes, eventsFifo, blocked, submitted, torn, untold,
                    confused, starts, meddled>>
    BY <1>10 DEF bashVars
  <2>2. /\ meddled' = meddled
        /\ UNCHANGED <<queueTxt, inflight, logs, coord, panes, eventsFifo, blocked, submitted, torn, untold,
                       confused, starts>>
    BY <2>1
  <2> QED BY <2>2, SameStep
<1> QED
  BY <1>2, <1>3, <1>4, <1>5, <1>6, <1>7, <1>8, <1>9, <1>10 DEF BashNext, Coordinator

\* No more panes live than there are jobs of such.
LEMMA LiveAreFew ==
  ASSUME BashTyped, NumbersOK, SlotsKept
  PROVE  Cardinality(LiveCoord) <= Slots
<1> DEFINE f == [p \in LiveCoord |-> p.job]
<1>1. \A p, q \in LiveCoord : p.job = q.job => p = q
  BY DEF NumbersOK, LiveCoord
<1>2. f \in Injection(LiveCoord, LiveJobs)
  BY <1>1 DEF Injection, IsInjective, LiveJobs
<1>3. IsFiniteSet(LiveJobs) /\ Cardinality(LiveJobs) <= Slots
  BY DEF SlotsKept
<1>4. IsFiniteSet(LiveCoord) /\ Cardinality(LiveCoord) <= Cardinality(LiveJobs)
  BY <1>2, <1>3, FS_Injection
<1> QED BY <1>3, <1>4, FS_CardinalityType, BashAssumption

\* What the properties need of the invariant is always so.
LEMMA BashInvariance == BashSpec => []BashIInv
BY BashInitSound, BashKeepsSound, PTL DEF BashSpec

\* The files have records that were submitted, and the table jobs that were counted.
THEOREM BashTypes == BashSpec => []BashTypeOK
<1>1. BashIInv => BashTypeOK
  <2> SUFFICES ASSUME BashIInv PROVE BashTypeOK
    OBVIOUS
  <2> USE DEF BashIInv, BashSound
  <2>1. ToSet(queueTxt \o inflight) = ToSet(queueTxt) \cup ToSet(inflight)
    BY FilesJoined DEF BashTyped
  <2>2. submitted \cup untold \subseteq Submission
    BY BashAssumption DEF BashTyped, Submission
  <2>3. coord.gen \in 0 .. MaxCoordinators
    BY CoordTyped, BashAssumption DEF CoordOK
  <2>4. DOMAIN coord.jobs \subseteq 1 .. coord.seq
    BY JobTyped, CoordTyped DEF CoordOK
  <2> QED BY <2>1, <2>2, <2>3, <2>4 DEF BashTypeOK, BashTyped
<1> QED BY <1>1, BashInvariance, PTL

\* Whatever dies and whenever, a record that was submitted is in a file of the session until it
\* is in a log, unless its coordinator died in the middle of the claim or its failure could not
\* be told; no more panes live than there are slots, and none starts twice where nobody
\* meddles: as long as the coordinator takes no former one's event for one of its own.
THEOREM QueueSurvives == BashSpec => []QueueIsKept
<1>1. BashIInv => QueueIsKept
  <2> SUFFICES ASSUME BashIInv PROVE QueueIsKept
    OBVIOUS
  <2> USE DEF BashIInv, BashSound
  <2>1. ToSet(queueTxt \o inflight) = ToSet(queueTxt) \cup ToSet(inflight)
    BY FilesJoined DEF BashTyped
  <2>2. ASSUME ~confused PROVE \A r \in submitted \ (torn \cup untold) :
          r \in ToSet(queueTxt \o inflight) \cup coord.claim \/ \E l \in logs : l[1] = r
    BY <2>1, <2>2 DEF RecordsKept, Logged
  <2>3. ASSUME ~confused PROVE Cardinality(LiveCoord) <= Slots
    BY <2>3, LiveAreFew
  <2>4. meddled = 0 => \A r \in Submission : starts[r] <= 1
    BY DEF CalmOK
  <2> QED BY <2>2, <2>3, <2>4 DEF QueueIsKept
<1> QED BY <1>1, BashInvariance, PTL

-----------------------------------------------------------------------------
(* vcvt by hand: the inductive invariant *)

\* The types of the state.
IsShelf(d) == DOMAIN d \subseteq Name /\ d \in [DOMAIN d -> Content] /\ IsFiniteSet(DOMAIN d)
ACall   == [option : Options, args : Argument, files : SUBSET (Name \X Content),
            failed : BOOLEAN, disturbed : BOOLEAN]
ATask   == [call : Nat, job : Nat, path : Name \cup {NoName}, left : SUBSET Name,
            source : Name \cup {NoName}, was : Content \cup {NoContent}]

BatchTyped ==
  /\ IsShelf(shelf)
  /\ calls \in Seq(ACall) /\ \A k \in DOMAIN calls : Valid(calls[k].option)
  /\ tasks \subseteq ATask /\ jobs \in Nat
  /\ \A t \in tasks :
       /\ t.call \in DOMAIN calls
       /\ t.path # NoName => t.job # 0 /\ t.left = {} /\ t.source = NoName
       /\ t.left \subseteq DOMAIN shelf /\ (t.source # NoName => t.source \in DOMAIN shelf)

\* No picture is shown shorter, and an animation on the shelf has not been encoded by us.
PicturesOK ==
  \A name \in DOMAIN shelf :
    /\ ShownAsLong(shelf[name])
    /\ name.ext = "webp" => \E n \in DOMAIN Original : /\ Original[n].origin = shelf[name].origin
                                                       /\ Original[n].shows = shelf[name].shows

ContentsKept == \A content \in ever : \E name \in DOMAIN shelf : shelf[name] = content

\* A file of a call waits for its turn, or has its encoding.
Awaited(k, name) ==
  \E t \in tasks : t.call = k /\ (t.path = name \/ t.source = name \/ name \in t.left)
EncodingOf(k, f) ==
  \E content \in ever : /\ content.made = Append(f[2].made, Choice(calls[k].option))
                        /\ content.origin = f[2].origin /\ content.version = f[2].version
Converted(k, f) ==
  OutputPath(Encoder(calls[k].option), f[1]) \in DOMAIN shelf /\ EncodingOf(k, f)

\* Nobody wrote at what a call found, and what it did not take needs nothing.
Untouched(k) ==
  LET o == calls[k].option
  IN /\ \A f \in calls[k].files : ~Generated(f[1]) =>
          f[1] \in DOMAIN shelf /\ shelf[f[1]] = f[2] /\ Eligible(f[1])
     /\ calls[k].args.directory /\ ~o.i /\ o.skip =>
          \A name \in DOMAIN shelf : ~Generated(name) /\ Eligible(name) =>
            SkipExisting(o, name) \/ \E f \in calls[k].files : f[1] = name
Settling(k) ==
  \A f \in calls[k].files : ~Generated(f[1]) =>
    calls[k].failed \/ Awaited(k, f[1]) \/ Converted(k, f)
CallsOK ==
  TagsAreKnown => \A k \in DOMAIN calls : ~calls[k].disturbed => Untouched(k) /\ Settling(k)

BatchIInv == BatchTyped /\ PicturesOK /\ ContentsKept /\ CallsOK

-----------------------------------------------------------------------------
(* vcvt by hand: names and plans *)

\* A set of natural numbers has a least one.
LEMMA LeastNat ==
  ASSUME NEW S \in SUBSET Nat, S # {}
  PROVE  \E n \in S : \A m \in S : n <= m
<1>1. IsWellFoundedOn(OpToRel(<, Nat), Nat)
  BY NatLessThanWellFounded
<1>2. PICK n \in S : \A m \in S : ~(<<m, n>> \in OpToRel(<, Nat))
  BY <1>1, WFMin
<1>3. ASSUME NEW m \in S PROVE n <= m
  <2>1. <<m, n>> \in Nat \X Nat
    OBVIOUS
  <2>2. ~ (m < n)
    BY <1>2, <2>1 DEF OpToRel
  <2> QED BY <2>2
<1> QED BY <1>3

\* What makes a name.
LEMMA MadeNames ==
  /\ \A s \in Word \ {""}, m \in Seq(Word \X Int), p \in Nat, e \in Word :
       [stem |-> s, made |-> m, prev |-> p, ext |-> e] \in Name
  /\ \A name \in Name, p \in Nat :
       LET other == [name EXCEPT !.prev = p]
       IN  other \in Name /\ other.made = name.made /\ other.ext = name.ext /\ other.prev = p
  /\ NoName.stem = ""
<1>1. \A s \in Word \ {""}, m \in Seq(Word \X Int), p \in Nat, e \in Word :
        [stem |-> s, made |-> m, prev |-> p, ext |-> e] \in Name
  BY DEF Name
<1>2. \A name \in Name, p \in Nat : [name EXCEPT !.prev = p] \in Name
  BY DEF Name
<1>3. \A name \in Name, p \in Nat :
        LET other == [name EXCEPT !.prev = p]
        IN  other.made = name.made /\ other.ext = name.ext /\ other.prev = p
  BY DEF Name
<1>4. NoName.stem = ""
  BY DEF NoName
<1> QED BY <1>1, <1>2, <1>3, <1>4

\* What a plan says of an output's name.
LEMMA OutputNames ==
  ASSUME BatchAssumption, NEW o \in Options, NEW name \in Name
  PROVE  LET output == OutputPath(Encoder(o), name)
         IN  /\ output \in Name /\ output # NoName /\ output.ext = "mp4"
             /\ Len(output.made) > 0 /\ output.made[Len(output.made)][1] = Tag(o)
<1>1. o \in Option
  BY DEF BatchAssumption
<1>2. Choice(o) \in Word
  BY <1>1 DEF Option, Choice, Word
<1>3. Quality(o) \in Int
  <2>1. o.c \in Int
    BY <1>1 DEF Option
  <2> QED BY <2>1 DEF Quality
<1>4. Tag(o) \in Word
  <2>1. o.ifx \in Word /\ {"a", "v", "n", "q"} \subseteq Word
    BY <1>1 DEF Option, Word, KnownTag
  <2> QED BY <2>1 DEF Tag
<1>5. Suffix(Encoder(o)) = <<Tag(o), Quality(o)>>
  BY DEF Suffix, Encoder
<1>6. /\ Append(name.made, <<Tag(o), Quality(o)>>) \in Seq(Word \X Int)
      /\ Len(Append(name.made, <<Tag(o), Quality(o)>>)) > 0
      /\ Append(name.made, <<Tag(o), Quality(o)>>)[Len(Append(name.made, <<Tag(o), Quality(o)>>))]
           = <<Tag(o), Quality(o)>>
  <2>1. name.made \in Seq(Word \X Int) /\ <<Tag(o), Quality(o)>> \in Word \X Int
    BY <1>3, <1>4 DEF Name
  <2>2. ASSUME NEW B, NEW r \in Seq(B), NEW x \in B
        PROVE  Append(r, x) \in Seq(B) /\ Len(Append(r, x)) > 0 /\ Append(r, x)[Len(Append(r, x))] = x
    OBVIOUS
  <2> QED BY <2>1, <2>2
<1> DEFINE q == Append(name.made, <<Tag(o), Quality(o)>>)
<1>7. OutputPath(Encoder(o), name) = [stem |-> name.stem, made |-> q, prev |-> 0, ext |-> "mp4"]
  BY <1>5 DEF OutputPath
<1>8. q[Len(q)][1] = Tag(o)
  BY <1>6
<1> HIDE DEF q
<1>9. name.stem \in Word \ {""}
  BY DEF Name
<1>10. "mp4" \in Word /\ q \in Seq(Word \X Int) /\ Len(q) > 0
  BY <1>6 DEF Word, q
<1>11. OutputPath(Encoder(o), name) \in Name
  <2>1. [stem |-> name.stem, made |-> q, prev |-> 0, ext |-> "mp4"] \in Name
    <3>1. ASSUME NEW s \in Word \ {""}, NEW m \in Seq(Word \X Int), NEW p \in Nat, NEW e \in Word
          PROVE  [stem |-> s, made |-> m, prev |-> p, ext |-> e] \in Name
      BY MadeNames
    <3> QED BY <1>9, <1>10, <3>1
  <2> QED BY <1>7, <2>1
<1>12. OutputPath(Encoder(o), name).stem # NoName.stem
  <2>1. OutputPath(Encoder(o), name).stem = name.stem
    BY <1>7
  <2> QED BY <1>9, <2>1, MadeNames
<1> QED BY <1>7, <1>8, <1>10, <1>11, <1>12

\* What is called like an output of a known tag is no source of a plain call.
LEMMA OutputsAreGenerated ==
  ASSUME BatchAssumption, NEW o \in Options, Tag(o) \in KnownTag, NEW name \in Name,
         NEW n \in Name, n.made = OutputPath(Encoder(o), name).made
  PROVE  Generated(n)
<1> DEFINE output == OutputPath(Encoder(o), name)
<1>1. Len(output.made) > 0 /\ output.made[Len(output.made)][1] = Tag(o)
  BY OutputNames
<1>2. n.made # << >>
  BY <1>1
<1> QED BY <1>1, <1>2 DEF Generated, Last

\* A job decides on the same encoder, quality and tag as its call.
LEMMA JobsKeepPlans ==
  ASSUME BatchAssumption, NEW o \in Options, Valid(o)
  PROVE  Encoder(JobOption(o)) = Encoder(o)
<1> DEFINE p == JobOption(o)
<1>1. o \in Option
  BY DEF BatchAssumption
<1>2. /\ p.encoder = Choice(o) /\ p.c = Quality(o) /\ p.a = o.a /\ p.ifx = o.ifx /\ p.j = o.j
  BY <1>1 DEF JobOption, Option
<1>3. Choice(o) # "" /\ Quality(o) # Unset
  <2>1. o.c \in Int
    BY <1>1 DEF Option
  <2>2. Choice(o) # ""
    BY DEF Choice
  <2>3. Quality(o) >= 0 /\ Quality(o) \in Int
    <3>1. ASSUME NEW m \in Int, Quality(o) \in 0 .. m PROVE Quality(o) >= 0 /\ Quality(o) \in Int
      BY <3>1
    <3> QED BY <3>1 DEF Valid
  <2>4. Quality(o) # Unset
    BY <2>3 DEF Unset
  <2> QED BY <2>2, <2>4
<1> HIDE DEF p
<1>4. Choice(p) = Choice(o)
  BY <1>2, <1>3 DEF Choice
<1>5. Quality(p) = Quality(o)
  BY <1>2, <1>3 DEF Quality
<1>6. Tag(p) = Tag(o)
  BY <1>2, <1>4 DEF Tag
<1>7. Concurrency(p, 16) = Concurrency(o, 16)
  BY <1>2, <1>4 DEF Concurrency
<1> QED BY <1>4, <1>5, <1>6, <1>7 DEF Encoder, p

\* Of the numbers of backups up to one more than there are files one is free.
LEMMA BackupIsFree ==
  ASSUME DOMAIN shelf \subseteq Name, IsFiniteSet(DOMAIN shelf), NEW output \in Name
  PROVE  /\ Backup(output) \in Name \ DOMAIN shelf
         /\ Backup(output).made = output.made /\ Backup(output).ext = output.ext
<1> DEFINE B(n) == [output EXCEPT !.prev = n]
           c == Cardinality(DOMAIN shelf)
           Free == {n \in 1 .. c + 1 : B(n) \notin DOMAIN shelf}
<1>1. c \in Nat
  BY FS_CardinalityType
<1>2. \E n \in 1 .. c + 1 : B(n) \notin DOMAIN shelf
  <2>1. SUFFICES ASSUME \A n \in 1 .. c + 1 : B(n) \in DOMAIN shelf PROVE FALSE
    OBVIOUS
  <2> DEFINE f == [n \in 1 .. c + 1 |-> B(n)]
  <2>2. f \in [1 .. c + 1 -> DOMAIN shelf]
    BY <2>1
  <2>3. IsFiniteSet(1 .. c + 1) /\ Cardinality(1 .. c + 1) = c + 1
    BY <1>1, FS_Interval
  <2>4. \E x, y \in 1 .. c + 1 : x # y /\ f[x] = f[y]
    <3>1. Cardinality(DOMAIN shelf) < Cardinality(1 .. c + 1)
      BY <1>1, <2>3
    <3> HIDE DEF f
    <3> QED BY <2>2, <2>3, <3>1, FS_PigeonHole
  <2>5. \A x \in 1 .. c + 1 : f[x].prev = x
    BY DEF Name
  <2> QED BY <2>4, <2>5
<1> HIDE DEF c
<1>3. PICK n \in Free : \A m \in Free : n <= m
  <2>1. Free \subseteq Nat /\ Free # {}
    BY <1>1, <1>2
  <2> HIDE DEF Free
  <2> QED BY <2>1, LeastNat
<1>4. \A m \in 1 .. n - 1 : B(m) \in DOMAIN shelf
  <2>1. SUFFICES ASSUME NEW m \in 1 .. n - 1 PROVE B(m) \in DOMAIN shelf
    OBVIOUS
  <2>2. n \in 1 .. c + 1
    OBVIOUS
  <2>3. m \in 1 .. c + 1 /\ ~(n <= m)
    BY <1>1, <2>1, <2>2
  <2>4. m \notin Free
    BY <1>3, <2>3
  <2> QED BY <2>3, <2>4
<1>5. PICK k \in 1 .. c + 1 : B(k) \notin DOMAIN shelf /\ Backup(output) = B(k)
  BY <1>1, <1>3, <1>4 DEF Backup, c
<1>6. k \in Nat
  BY <1>1
<1>7. B(k) \in Name /\ B(k).made = output.made /\ B(k).ext = output.ext
  BY <1>6, MadeNames
<1> QED BY <1>5, <1>7

-----------------------------------------------------------------------------
(* vcvt by hand: the shelf *)

\* A directory with another content under a name.
LEMMA WithOne ==
  ASSUME NEW d, IsShelf(d), NEW name \in Name, NEW content \in Content
  PROVE  /\ IsShelf(With(d, name, content)) /\ DOMAIN With(d, name, content) = DOMAIN d \cup {name}
         /\ With(d, name, content)[name] = content
         /\ \A n \in DOMAIN d : n # name => With(d, name, content)[n] = d[n]
BY FS_AddElement DEF With, IsShelf

\* What publishing does: the output has the content, an earlier one of its name a backup's name,
\* and nothing else has changed.
LEMMA Publishing ==
  ASSUME BatchTyped, NEW output \in Name, NEW content \in Content
  PROVE  LET new == Published(output, content)
         IN  /\ IsShelf(new)
             /\ DOMAIN shelf \subseteq DOMAIN new /\ output \in DOMAIN new /\ new[output] = content
             /\ \A n \in DOMAIN shelf : n # output => new[n] = shelf[n]
             /\ \A n \in DOMAIN new : n = output \/ (n \in DOMAIN shelf /\ new[n] = shelf[n])
                  \/ (output \in DOMAIN shelf /\ new[n] = shelf[output]
                       /\ n.made = output.made /\ n.ext = output.ext)
             /\ \A n \in DOMAIN shelf : \E m \in DOMAIN new : new[m] = shelf[n]
<1>1. IsShelf(shelf) /\ DOMAIN shelf \subseteq Name /\ IsFiniteSet(DOMAIN shelf)
  BY DEF BatchTyped, IsShelf
<1>2. CASE output \notin DOMAIN shelf
  <2> DEFINE new == With(shelf, output, content)
  <2>1. Published(output, content) = new
    BY <1>2 DEF Published
  <2>2. /\ IsShelf(new) /\ DOMAIN new = DOMAIN shelf \cup {output}
        /\ new[output] = content /\ \A n \in DOMAIN shelf : n # output => new[n] = shelf[n]
    BY <1>1, WithOne
  <2> HIDE DEF new
  <2>3. \A n \in DOMAIN shelf : n # output
    BY <1>2
  <2>4. \A n \in DOMAIN shelf : \E m \in DOMAIN new : new[m] = shelf[n]
    BY <2>2, <2>3
  <2>5. \A n \in DOMAIN new : n = output \/ (n \in DOMAIN shelf /\ new[n] = shelf[n])
    BY <2>2, <2>3
  <2> QED BY <2>1, <2>2, <2>4, <2>5
<1>3. CASE output \in DOMAIN shelf
  <2> DEFINE backup == Backup(output)
             mid == With(shelf, backup, shelf[output])
             new == With(mid, output, content)
  <2>1. Published(output, content) = new
    BY <1>3 DEF Published
  <2>2. /\ backup \in Name \ DOMAIN shelf /\ backup # output
        /\ backup.made = output.made /\ backup.ext = output.ext
    BY <1>1, <1>3, BackupIsFree
  <2> HIDE DEF backup
  <2>3. /\ IsShelf(mid) /\ DOMAIN mid = DOMAIN shelf \cup {backup}
        /\ mid[backup] = shelf[output] /\ \A n \in DOMAIN shelf : mid[n] = shelf[n]
    <3>1. shelf[output] \in Content
      BY <1>1, <1>3 DEF IsShelf
    <3>2. /\ IsShelf(mid) /\ DOMAIN mid = DOMAIN shelf \cup {backup} /\ mid[backup] = shelf[output]
          /\ \A n \in DOMAIN shelf : n # backup => mid[n] = shelf[n]
      BY <1>1, <2>2, <3>1, WithOne
    <3> HIDE DEF mid
    <3> QED BY <2>2, <3>2
  <2> HIDE DEF mid
  <2>4. /\ IsShelf(new) /\ DOMAIN new = DOMAIN mid \cup {output}
        /\ new[output] = content /\ \A n \in DOMAIN mid : n # output => new[n] = mid[n]
    BY <2>3, WithOne
  <2> HIDE DEF new
  <2>5. DOMAIN new = DOMAIN shelf \cup {backup} /\ new[backup] = shelf[output]
    BY <1>3, <2>2, <2>3, <2>4
  <2>6. \A n \in DOMAIN shelf : n # output => new[n] = shelf[n]
    BY <2>3, <2>4
  <2>7. \A n \in DOMAIN shelf : \E m \in DOMAIN new : new[m] = shelf[n]
    BY <2>5, <2>6
  <2>8. \A n \in DOMAIN new : n = output \/ (n \in DOMAIN shelf /\ new[n] = shelf[n]) \/ n = backup
    BY <2>5, <2>6
  <2> QED BY <1>3, <2>1, <2>2, <2>4, <2>5, <2>6, <2>7, <2>8
<1> QED BY <1>2, <1>3

\* What ffmpeg makes of a file comes from it, and shows its pictures as long as they were.
LEMMA Encoding ==
  ASSUME BatchAssumption, BatchTyped, PicturesOK, NEW o \in Options, NEW name \in DOMAIN shelf
  PROVE  LET content == Encoded(Encoder(o), name)
         IN  /\ content \in Content /\ ShownAsLong(content)
             /\ content.made = Append(shelf[name].made, Choice(o))
             /\ content.origin = shelf[name].origin /\ content.version = shelf[name].version
<1> DEFINE old  == shelf[name]
           made == Append(old.made, Choice(o))
           Durations == [k \in DOMAIN old.shows |-> old.shows[k].for]
           played == Played(Script(Durations))
           anim == name.ext = "webp" /\ old.shows # << >>
           shows == IF anim THEN played ELSE old.shows
           n == Len(old.shows)
           content == Encoded(Encoder(o), name)
<1>1. old \in Content
  BY DEF BatchTyped, IsShelf
<1>2. /\ old.made \in Seq(Word) /\ old.shows \in Seq([frame : Nat, for : Nat])
      /\ old.origin \in Word /\ old.version \in Nat
      /\ old = [origin |-> old.origin, version |-> old.version, made |-> old.made, shows |-> old.shows]
  BY <1>1 DEF Content
<1>3. Choice(o) \in Word
  <2>1. o.encoder \in {"", "cpu", "nv", "qsv"}
    BY DEF BatchAssumption, Option
  <2>2. o.encoder \in Word /\ {"cpu", "nv", "qsv", "none"} \subseteq Word
    BY <2>1 DEF Word
  <2> QED BY <2>2 DEF Choice
<1>4. made \in Seq(Word)
  BY <1>2, <1>3
<1>5. content = [origin |-> old.origin, version |-> old.version, made |-> made, shows |-> shows]
  <2>1. content = [old EXCEPT !.made = Append(@, Choice(o)), !.shows = shows]
    BY DEF Encoded, Encoder
  <2> HIDE DEF shows, old
  <2> QED BY <1>2, <2>1
<1> HIDE DEF made, shows, content
<1>6. n \in Nat /\ DOMAIN old.shows = 1 .. n
  BY <1>2
<1>7. /\ Len(played) = n + 1 /\ DOMAIN played = 1 .. n + 1
      /\ \A k \in 1 .. n : /\ played[k].frame = k /\ played[k].for >= old.shows[k].for
      /\ \A k \in 1 .. n + 1 : played[k] \in [frame : Nat, for : Nat]
  <2> DEFINE Long(k) == IF Durations[k] = 0 THEN 1 ELSE Durations[k]
             ends == [frame |-> n, for |-> 1]
             each == [k \in 1 .. n |-> [frame |-> k, for |-> Long(k)]]
             script == Append(each, ends)
  <2>1. \A k \in 1 .. n : Durations[k] = old.shows[k].for /\ Durations[k] \in Nat
    <3>1. \A k \in 1 .. n : old.shows[k] \in [frame : Nat, for : Nat]
      <4>1. ASSUME NEW B, NEW r \in Seq(B) PROVE \A k \in 1 .. Len(r) : r[k] \in B
        OBVIOUS
      <4> QED BY <1>2, <4>1
    <3>2. \A k \in 1 .. n : old.shows[k].for \in Nat
      BY <3>1
    <3> QED BY <1>6, <3>2
  <2>2. DOMAIN Durations = 1 .. n /\ Len(Durations) = n
    BY <1>6
  <2> HIDE DEF Durations
  <2>3. Script(Durations) = script
    BY <2>2 DEF Script
  <2>4. \A k \in 1 .. n : Long(k) \in Nat /\ Long(k) >= old.shows[k].for
    BY <2>1
  <2> HIDE DEF Long
  <2>5. each \in [1 .. n -> [frame : Nat, for : Nat]]
    BY <1>6, <2>4
  <2>6. ends \in [frame : Nat, for : Nat]
    BY <1>6
  <2>7. /\ Len(script) = n + 1 /\ script \in [1 .. n + 1 -> [frame : Nat, for : Nat]]
        /\ \A k \in 1 .. n : script[k] = each[k]
    <3> DEFINE Part == [frame : Nat, for : Nat]
    <3> HIDE DEF each, ends, n, Part
    <3>1. ASSUME NEW B, NEW r \in Seq(B), NEW x \in B
          PROVE  /\ Len(Append(r, x)) = Len(r) + 1 /\ Append(r, x) \in [1 .. Len(r) + 1 -> B]
                 /\ \A k \in 1 .. Len(r) : Append(r, x)[k] = r[k]
      <4>1. Append(r, x) \in Seq(B) /\ Len(Append(r, x)) = Len(r) + 1
        OBVIOUS
      <4>2. \A k \in 1 .. Len(r) : Append(r, x)[k] = r[k]
        OBVIOUS
      <4>3. ASSUME NEW q \in Seq(B) PROVE q \in [1 .. Len(q) -> B]
        OBVIOUS
      <4> QED BY <4>1, <4>2, <4>3
    <3>2. ASSUME NEW B, NEW r \in [1 .. n -> B] PROVE r \in Seq(B) /\ Len(r) = n
      BY <1>6
    <3>3. each \in Seq(Part) /\ Len(each) = n /\ ends \in Part
      BY <2>5, <2>6, <3>2 DEF Part
    <3>4. /\ Len(script) = n + 1 /\ script \in [1 .. n + 1 -> Part]
          /\ \A k \in 1 .. n : script[k] = each[k]
      BY <3>1, <3>3
    <3> QED BY <3>4 DEF Part
  <2>8. \A k \in 1 .. n : each[k].frame = k /\ each[k].for = Long(k)
    OBVIOUS
  <2> HIDE DEF each, script
  <2>9. played = [k \in 1 .. n + 1 |-> [script[k] EXCEPT !.for = IF k = n + 1 THEN 1 ELSE @]]
    BY <2>3, <2>7 DEF Played
  <2>10. ASSUME NEW k \in 1 .. n + 1 PROVE played[k] \in [frame : Nat, for : Nat]
    BY <1>6, <2>7, <2>9
  <2>11. ASSUME NEW k \in 1 .. n
         PROVE  played[k].frame = k /\ played[k].for >= old.shows[k].for
    <3>1. k \in 1 .. n + 1 /\ k # n + 1
      BY <1>6
    <3>2. played[k] = [script[k] EXCEPT !.for = @]
      BY <2>9, <3>1
    <3>3. script[k] \in [frame : Nat, for : Nat]
      BY <2>7, <3>1
    <3>4. played[k].frame = script[k].frame /\ played[k].for = script[k].for
      BY <3>2, <3>3
    <3> QED BY <2>4, <2>7, <2>8, <3>4
  <2>12. DOMAIN played = 1 .. n + 1 /\ Len(played) = n + 1
    BY <1>6, <2>9
  <2> QED BY <2>10, <2>11, <2>12
<1> HIDE DEF played
<1>8. shows \in Seq([frame : Nat, for : Nat])
  <2>1. played \in Seq([frame : Nat, for : Nat])
    <3>1. played \in [1 .. n + 1 -> [frame : Nat, for : Nat]]
      <4>1. played = [k \in DOMAIN played |-> played[k]]
        BY DEF played, Played
      <4> QED BY <1>7, <4>1
    <3>2. ASSUME NEW B, NEW r, r \in [1 .. n + 1 -> B] PROVE r \in Seq(B)
      BY <1>6, <3>2
    <3> QED BY <3>1, <3>2
  <2> QED BY <1>2, <2>1 DEF shows
<1>9. content \in Content
  BY <1>2, <1>4, <1>5, <1>8 DEF Content
<1>10. ShownAsLong(content)
  <2>1. CASE ~anim
    <3>1. content.shows = old.shows /\ content.origin = old.origin
      BY <1>5, <2>1 DEF shows
    <3>2. ShownAsLong(old)
      BY DEF PicturesOK
    <3> QED BY <3>1, <3>2 DEF ShownAsLong
  <2>2. CASE anim
    <3>1. PICK m \in DOMAIN Original : Original[m].origin = old.origin /\ Original[m].shows = old.shows
      BY <2>2 DEF PicturesOK
    <3>2. content.shows = played /\ content.origin = old.origin
      BY <1>5, <2>2 DEF shows
    <3>3. \A k \in DOMAIN Original[m].shows : k \in 1 .. n /\ k \in DOMAIN played
      BY <1>6, <1>7, <3>1
    <3>4. \A k \in DOMAIN Original[m].shows : \E e \in DOMAIN content.shows :
            content.shows[e].frame = k /\ content.shows[e].for >= Original[m].shows[k].for
      BY <1>7, <3>1, <3>2, <3>3
    <3> QED BY <3>1, <3>2, <3>4 DEF ShownAsLong
  <2> QED BY <2>1, <2>2
<1> QED BY <1>5, <1>9, <1>10 DEF made, content

-----------------------------------------------------------------------------
(* vcvt by hand: the steps *)

\* Before the first call the invariant holds.
LEMMA BatchStart == BatchAssumption /\ BatchInit => BatchIInv
<1> SUFFICES ASSUME BatchAssumption, BatchInit PROVE BatchIInv
  OBVIOUS
<1>1. shelf = [name \in Given |-> Original[name]] /\ Given \subseteq DOMAIN Original /\ IsFiniteSet(Given)
  BY DEF BatchInit, BatchAssumption
<1>2. \A name \in Given : name \in Name /\ Original[name] \in Content
  BY <1>1 DEF BatchAssumption
<1>3. IsShelf(shelf)
  BY <1>1, <1>2 DEF IsShelf
<1>4. calls = << >> /\ tasks = {} /\ jobs = 0
  BY DEF BatchInit
<1>5. BatchTyped
  BY <1>3, <1>4 DEF BatchTyped
<1>6. PicturesOK
  <2>1. SUFFICES ASSUME NEW name \in Given PROVE ShownAsLong(Original[name])
    BY <1>1 DEF PicturesOK
  <2>2. \A k \in DOMAIN Original[name].shows :
          Original[name].shows[k].frame = k /\ Original[name].shows[k].for \in Nat
    <3>1. Original[name].shows \in Seq([frame : Nat, for : Nat])
      BY <1>2 DEF Content
    <3>2. ASSUME NEW B, NEW r \in Seq(B) PROVE \A k \in DOMAIN r : r[k] \in B
      OBVIOUS
    <3>3. \A k \in DOMAIN Original[name].shows : Original[name].shows[k] \in [frame : Nat, for : Nat]
      BY <3>1, <3>2
    <3> QED BY <1>1, <3>3 DEF BatchAssumption
  <2> QED BY <1>1, <2>2 DEF ShownAsLong
<1>7. ContentsKept
  BY <1>1 DEF BatchInit, ContentsKept
<1>8. CallsOK
  BY <1>4 DEF CallsOK
<1> QED BY <1>5, <1>6, <1>7, <1>8 DEF BatchIInv

\* What a call has asked for does not change; it fails or does not.
CallsGoOn ==
  /\ calls' \in Seq(ACall) /\ DOMAIN calls' = DOMAIN calls
  /\ \A k \in DOMAIN calls :
       /\ calls'[k].option = calls[k].option /\ calls'[k].args = calls[k].args
       /\ calls'[k].files = calls[k].files /\ calls'[k].disturbed = calls[k].disturbed
       /\ calls[k].failed => calls'[k].failed

\* A step of a process leaves the calls alone, or fails its own.
LEMMA CallsStand ==
  ASSUME BatchTyped, NEW t \in tasks
  PROVE  /\ UNCHANGED calls => CallsGoOn
         /\ CallFails(t) => CallsGoOn /\ calls'[t.call].failed
<1>1. calls \in Seq(ACall) /\ t.call \in DOMAIN calls
  BY DEF BatchTyped
<1>2. UNCHANGED calls => CallsGoOn
  BY <1>1 DEF CallsGoOn
<1>3. ASSUME CallFails(t) PROVE CallsGoOn /\ calls'[t.call].failed
  <2>1. calls' = [calls EXCEPT ![t.call] = [@ EXCEPT !.failed = TRUE]]
    BY <1>3 DEF CallFails
  <2>2. ASSUME NEW c \in ACall
        PROVE  LET d == [c EXCEPT !.failed = TRUE]
               IN  /\ d \in ACall /\ d.failed /\ d.option = c.option /\ d.args = c.args
                   /\ d.files = c.files /\ d.disturbed = c.disturbed
    BY DEF ACall
  <2>3. ASSUME NEW B, NEW q \in Seq(B), NEW i \in DOMAIN q, NEW x \in B
        PROVE  /\ [q EXCEPT ![i] = x] \in Seq(B) /\ DOMAIN [q EXCEPT ![i] = x] = DOMAIN q
               /\ [q EXCEPT ![i] = x][i] = x /\ q[i] \in B
               /\ \A j \in DOMAIN q : j # i => [q EXCEPT ![i] = x][j] = q[j]
    OBVIOUS
  <2> DEFINE d == [calls[t.call] EXCEPT !.failed = TRUE]
  <2>4. calls[t.call] \in ACall
    BY <1>1, <2>3
  <2>5. /\ d \in ACall /\ d.failed /\ d.option = calls[t.call].option /\ d.args = calls[t.call].args
        /\ d.files = calls[t.call].files /\ d.disturbed = calls[t.call].disturbed
    BY <2>2, <2>4
  <2>6. calls' = [calls EXCEPT ![t.call] = d]
    BY <2>1
  <2> HIDE DEF d, ACall
  <2>7. /\ calls' \in Seq(ACall) /\ DOMAIN calls' = DOMAIN calls /\ calls'[t.call] = d
        /\ \A j \in DOMAIN calls : j # t.call => calls'[j] = calls[j]
    BY <1>1, <2>3, <2>5, <2>6
  <2> QED BY <2>5, <2>7 DEF CallsGoOn
<1> QED BY <1>2, <1>3

\* No step but the user's changes what a plain call finds, nor takes a file away.
ShelfGoesOn ==
  /\ DOMAIN shelf \subseteq DOMAIN shelf'
  /\ TagsAreKnown => \A n \in DOMAIN shelf' : ~Generated(n) => n \in DOMAIN shelf /\ shelf'[n] = shelf[n]
  /\ ever \subseteq ever'

\* A file that a call waits for is converted, or waited for still, or its call fails.
AwaitedGoOn ==
  \A k \in DOMAIN calls : \A f \in calls[k].files :
    TagsAreKnown /\ ~calls[k].disturbed /\ ~Generated(f[1]) /\ Awaited(k, f[1])
      => calls'[k].failed \/ Awaited(k, f[1])' \/ Converted(k, f)'

\* What no step but the user's breaks is kept.
LEMMA CallsKept ==
  ASSUME CallsOK, CallsGoOn, ShelfGoesOn, AwaitedGoOn
  PROVE  CallsOK'
<1> SUFFICES ASSUME TagsAreKnown', NEW k \in DOMAIN calls, ~calls[k].disturbed
             PROVE  Untouched(k)' /\ Settling(k)'
  BY DEF CallsOK, CallsGoOn
<1>1. TagsAreKnown
  BY DEF TagsAreKnown, CallsGoOn
<1>2. Untouched(k) /\ Settling(k)
  BY <1>1 DEF CallsOK
<1>0. PICK o : o = calls[k].option
  OBVIOUS
<1>3. calls'[k].option = o /\ calls'[k].args = calls[k].args /\ calls'[k].files = calls[k].files
  BY <1>0 DEF CallsGoOn
<1>4. \A n \in DOMAIN shelf' : ~Generated(n) =>
        n \in DOMAIN shelf /\ shelf'[n] = shelf[n] /\ (Eligible(n)' <=> Eligible(n))
  <2>1. SUFFICES ASSUME NEW n \in DOMAIN shelf', ~Generated(n)
                 PROVE  n \in DOMAIN shelf /\ shelf'[n] = shelf[n] /\ (Eligible(n)' <=> Eligible(n))
    OBVIOUS
  <2>2. n \in DOMAIN shelf /\ shelf'[n] = shelf[n]
    BY <1>1, <2>1 DEF ShelfGoesOn
  <2>3. Eligible(n)' <=> Eligible(n)
    <3>1. Av1(shelf'[n]) <=> Av1(shelf[n])
      BY <2>2
    <3> QED BY <3>1 DEF Eligible
  <2> QED BY <2>2, <2>3
<1>5. \A n : SkipExisting(o, n) => SkipExisting(o, n)'
  BY DEF ShelfGoesOn, SkipExisting
<1>6. Untouched(k)'
  <2>1. ASSUME NEW f \in calls[k].files, ~Generated(f[1])
        PROVE  f[1] \in DOMAIN shelf' /\ shelf'[f[1]] = f[2] /\ Eligible(f[1])'
    <3>1. f[1] \in DOMAIN shelf /\ shelf[f[1]] = f[2] /\ Eligible(f[1])
      BY <1>2, <2>1 DEF Untouched
    <3> QED BY <1>4, <2>1, <3>1 DEF ShelfGoesOn
  <2>2. ASSUME calls[k].args.directory, ~o.i, o.skip,
               NEW n \in DOMAIN shelf', ~Generated(n), Eligible(n)'
        PROVE  SkipExisting(o, n)' \/ \E f \in calls[k].files : f[1] = n
    BY <1>0, <1>2, <1>4, <1>5, <2>2 DEF Untouched
  <2> QED BY <1>3, <2>1, <2>2 DEF Untouched
<1>7. Settling(k)'
  <2>1. SUFFICES ASSUME NEW f \in calls[k].files, ~Generated(f[1])
                 PROVE  calls'[k].failed \/ Awaited(k, f[1])' \/ Converted(k, f)'
    BY <1>3 DEF Settling
  <2>2. CASE calls[k].failed
    BY <2>2 DEF CallsGoOn
  <2>3. CASE Awaited(k, f[1])
    BY <1>1, <2>1, <2>3 DEF AwaitedGoOn
  <2>4. CASE Converted(k, f)
    <3>1. OutputPath(Encoder(o), f[1]) \in DOMAIN shelf'
      BY <1>0, <2>4 DEF Converted, ShelfGoesOn
    <3>2. EncodingOf(k, f)'
      BY <1>0, <1>3, <2>4 DEF Converted, EncodingOf, ShelfGoesOn
    <3> QED BY <1>3, <3>1, <3>2 DEF Converted
  <2> QED BY <1>2, <2>1, <2>2, <2>3, <2>4 DEF Settling
<1> QED BY <1>6, <1>7

\* The shelf is only read.
LEMMA ShelfRead ==
  ASSUME BatchIInv, UNCHANGED <<shelf, ever>>
  PROVE  IsShelf(shelf') /\ PicturesOK' /\ ContentsKept' /\ ShelfGoesOn
BY DEF BatchIInv, BatchTyped, PicturesOK, ShownAsLong, ContentsKept, ShelfGoesOn

\* After the user wrote nothing is said of the calls so far.
LEMMA AllDisturbed ==
  ASSUME BatchTyped, Disturbed
  PROVE  /\ calls' \in Seq(ACall) /\ DOMAIN calls' = DOMAIN calls
         /\ \A k \in DOMAIN calls : calls'[k].disturbed /\ calls'[k].option = calls[k].option
<1>1. calls \in Seq(ACall)
  BY DEF BatchTyped
<1>2. ASSUME NEW c \in ACall
      PROVE  LET d == [c EXCEPT !.disturbed = TRUE] IN d \in ACall /\ d.disturbed /\ d.option = c.option
  BY DEF ACall
<1> DEFINE D(k) == [calls[k] EXCEPT !.disturbed = TRUE]
<1>3. calls' = [k \in DOMAIN calls |-> D(k)]
  BY DEF Disturbed
<1>4. \A k \in DOMAIN calls : D(k) \in ACall /\ D(k).disturbed /\ D(k).option = calls[k].option
  <2>1. ASSUME NEW B, NEW q \in Seq(B) PROVE \A k \in DOMAIN q : q[k] \in B
    OBVIOUS
  <2>2. \A k \in DOMAIN calls : calls[k] \in ACall
    <3> HIDE DEF ACall
    <3> QED BY <1>1, <2>1
  <2> QED BY <1>2, <2>2
<1> HIDE DEF D
<1>5. DOMAIN calls = 1 .. Len(calls) /\ Len(calls) \in Nat
  BY <1>1
<1>6. calls' \in [1 .. Len(calls) -> ACall]
  BY <1>3, <1>4, <1>5
<1>7. calls' \in Seq(ACall)
  <2>1. ASSUME NEW B, NEW n \in Nat, NEW q \in [1 .. n -> B] PROVE q \in Seq(B)
    OBVIOUS
  <2> QED BY <1>5, <1>6, <2>1
<1> QED BY <1>3, <1>4, <1>7

\* The user delivers a file.
LEMMA DeliverStep ==
  ASSUME BatchAssumption, BatchIInv, NEW name, Deliver(name)
  PROVE  BatchIInv'
<1>1. /\ name \in DOMAIN Original /\ name \notin DOMAIN shelf /\ Disturbed
      /\ shelf' = With(shelf, name, Original[name]) /\ ever' = ever \cup {Original[name]}
      /\ tasks' = tasks /\ jobs' = jobs
  BY DEF Deliver
<1>2. name \in Name /\ Original[name] \in Content
  BY <1>1 DEF BatchAssumption
<1>3. IsShelf(shelf)
  BY DEF BatchIInv, BatchTyped
<1>4. /\ IsShelf(shelf') /\ DOMAIN shelf' = DOMAIN shelf \cup {name} /\ shelf'[name] = Original[name]
      /\ \A n \in DOMAIN shelf : shelf'[n] = shelf[n]
  <2>1. /\ IsShelf(shelf') /\ DOMAIN shelf' = DOMAIN shelf \cup {name}
        /\ shelf'[name] = Original[name]
        /\ \A n \in DOMAIN shelf : n # name => shelf'[n] = shelf[n]
    BY <1>1, <1>2, <1>3, WithOne
  <2> QED BY <1>1, <2>1
<1>5. /\ calls' \in Seq(ACall) /\ DOMAIN calls' = DOMAIN calls
      /\ \A k \in DOMAIN calls : calls'[k].disturbed /\ calls'[k].option = calls[k].option
  BY <1>1, AllDisturbed DEF BatchIInv
<1>6. BatchTyped'
  BY <1>1, <1>4, <1>5 DEF BatchIInv, BatchTyped
<1>7. ShownAsLong(Original[name])
  <2>1. \A k \in DOMAIN Original[name].shows :
          Original[name].shows[k].frame = k /\ Original[name].shows[k].for \in Nat
    <3>1. Original[name].shows \in Seq([frame : Nat, for : Nat])
      BY <1>2 DEF Content
    <3>2. ASSUME NEW B, NEW r \in Seq(B) PROVE \A k \in DOMAIN r : r[k] \in B
      OBVIOUS
    <3>3. \A k \in DOMAIN Original[name].shows : Original[name].shows[k] \in [frame : Nat, for : Nat]
      BY <3>1, <3>2
    <3> QED BY <1>1, <3>3 DEF BatchAssumption
  <2> QED BY <1>1, <2>1 DEF ShownAsLong
<1>8. PicturesOK'
  <2>1. ASSUME NEW n \in DOMAIN shelf
        PROVE  /\ ShownAsLong(shelf'[n])
               /\ n.ext = "webp" => \E m \in DOMAIN Original : /\ Original[m].origin = shelf'[n].origin
                                                              /\ Original[m].shows = shelf'[n].shows
    BY <1>4 DEF BatchIInv, PicturesOK
  <2>2. shelf'[name] = Original[name] /\ ShownAsLong(shelf'[name])
    BY <1>4, <1>7
  <2>3. name.ext = "webp" => \E m \in DOMAIN Original : /\ Original[m].origin = shelf'[name].origin
                                                       /\ Original[m].shows = shelf'[name].shows
    BY <1>1, <2>2
  <2> HIDE DEF ShownAsLong
  <2>4. \A n \in DOMAIN shelf' : n \in DOMAIN shelf \/ n = name
    BY <1>4
  <2>5. \A n \in DOMAIN shelf' : ShownAsLong(shelf'[n])
    BY <2>1, <2>2, <2>4
  <2>6. \A n \in DOMAIN shelf' : n.ext = "webp" =>
          \E m \in DOMAIN Original : /\ Original[m].origin = shelf'[n].origin
                                     /\ Original[m].shows = shelf'[n].shows
    BY <2>1, <2>3, <2>4
  <2> QED BY <2>5, <2>6 DEF PicturesOK, ShownAsLong
<1>9. ContentsKept'
  BY <1>1, <1>4 DEF BatchIInv, ContentsKept
<1>10. CallsOK'
  BY <1>5 DEF CallsOK
<1> QED BY <1>6, <1>8, <1>9, <1>10 DEF BatchIInv

\* The user writes at a file.
LEMMA RewriteStep ==
  ASSUME BatchAssumption, BatchIInv, NEW name, Rewrite(name)
  PROVE  BatchIInv'
<1> DEFINE new == [shelf[name] EXCEPT !.version = @ + 1]
<1>1. /\ name \in DOMAIN shelf /\ Disturbed /\ tasks' = tasks /\ jobs' = jobs
      /\ shelf' = [shelf EXCEPT ![name] = new] /\ ever' = (ever \ {shelf[name]}) \cup {shelf'[name]}
  BY DEF Rewrite
<1>2. IsShelf(shelf) /\ shelf[name] \in Content
  BY <1>1 DEF BatchIInv, BatchTyped, IsShelf
<1>3. new \in Content /\ new.origin = shelf[name].origin /\ new.shows = shelf[name].shows
  <2>1. ASSUME NEW c \in Content
        PROVE  LET d == [c EXCEPT !.version = @ + 1]
               IN  d \in Content /\ d.origin = c.origin /\ d.shows = c.shows
    <3>1. c.version \in Nat /\ c.version + 1 \in Nat
      BY DEF Content
    <3>2. ASSUME NEW v \in Nat
          PROVE  LET d == [c EXCEPT !.version = v]
                 IN  d \in Content /\ d.origin = c.origin /\ d.shows = c.shows
      BY DEF Content
    <3> QED BY <3>1, <3>2
  <2> QED BY <1>2, <2>1
<1> HIDE DEF new
<1>4. /\ IsShelf(shelf') /\ DOMAIN shelf' = DOMAIN shelf /\ shelf'[name] = new
      /\ \A n \in DOMAIN shelf : n # name => shelf'[n] = shelf[n]
  <2>1. /\ DOMAIN shelf' = DOMAIN shelf /\ shelf'[name] = new
        /\ \A n \in DOMAIN shelf : n # name => shelf'[n] = shelf[n]
    BY <1>1, <1>2 DEF IsShelf
  <2>2. shelf' \in [DOMAIN shelf -> Content]
    BY <1>1, <1>2, <1>3 DEF IsShelf
  <2> QED BY <1>2, <2>1, <2>2 DEF IsShelf
<1>5. /\ calls' \in Seq(ACall) /\ DOMAIN calls' = DOMAIN calls
      /\ \A k \in DOMAIN calls : calls'[k].disturbed /\ calls'[k].option = calls[k].option
  BY <1>1, AllDisturbed DEF BatchIInv
<1>6. BatchTyped'
  BY <1>1, <1>4, <1>5 DEF BatchIInv, BatchTyped
<1>7. \A n \in DOMAIN shelf : shelf'[n].origin = shelf[n].origin /\ shelf'[n].shows = shelf[n].shows
  BY <1>1, <1>3, <1>4
<1>8. PicturesOK'
  <2>1. ASSUME NEW n \in DOMAIN shelf
        PROVE  /\ ShownAsLong(shelf'[n])
               /\ n.ext = "webp" => \E m \in DOMAIN Original : /\ Original[m].origin = shelf'[n].origin
                                                              /\ Original[m].shows = shelf'[n].shows
    <3>1. ShownAsLong(shelf[n]) /\ shelf'[n].origin = shelf[n].origin /\ shelf'[n].shows = shelf[n].shows
      BY <1>7 DEF BatchIInv, PicturesOK
    <3>2. ShownAsLong(shelf'[n])
      BY <3>1 DEF ShownAsLong
    <3> QED BY <3>1, <3>2 DEF BatchIInv, PicturesOK
  <2> QED BY <1>4, <2>1 DEF PicturesOK, ShownAsLong
<1>9. ContentsKept'
  BY <1>1, <1>4 DEF BatchIInv, ContentsKept
<1>10. CallsOK'
  BY <1>5 DEF CallsOK
<1> QED BY <1>6, <1>8, <1>9, <1>10 DEF BatchIInv

\* A process goes on: what it had to do and does not leave undone stays awaited.
LEMMA GoingOn ==
  ASSUME BatchTyped, NEW t \in tasks, NEW next \in ATask, GoesOn(t, next),
         next.call = t.call, next.path = NoName,
         next.left \subseteq DOMAIN shelf', next.source # NoName => next.source \in DOMAIN shelf',
         DOMAIN shelf \subseteq DOMAIN shelf', CallsGoOn
  PROVE  /\ tasks' \subseteq ATask
         /\ \A u \in tasks' :
              /\ u.call \in DOMAIN calls'
              /\ u.path # NoName => u.job # 0 /\ u.left = {} /\ u.source = NoName
              /\ u.left \subseteq DOMAIN shelf' /\ (u.source # NoName => u.source \in DOMAIN shelf')
         /\ \A k, name : Awaited(k, name) /\ name # NoName =>
              \/ Awaited(k, name)'
              \/ /\ k = t.call /\ (t.path = name \/ t.source = name \/ name \in t.left)
                 /\ next.source # name /\ name \notin next.left
<1>1. /\ tasks \subseteq ATask
      /\ \A u \in tasks :
           /\ u.call \in DOMAIN calls
           /\ u.path # NoName => u.job # 0 /\ u.left = {} /\ u.source = NoName
           /\ u.left \subseteq DOMAIN shelf /\ (u.source # NoName => u.source \in DOMAIN shelf)
  BY DEF BatchTyped
<1>2. DOMAIN calls' = DOMAIN calls
  BY DEF CallsGoOn
<1>3. \A u \in tasks' : u \in tasks \/ u = next
  BY DEF GoesOn
<1>4. \A u \in tasks : u # t => u \in tasks'
  BY DEF GoesOn
<1>5. next.source # NoName \/ next.left # {} => next \in tasks'
  BY DEF GoesOn
<1>6. tasks' \subseteq ATask
  BY <1>1, <1>3
<1>7. \A u \in tasks' :
        /\ u.call \in DOMAIN calls'
        /\ u.path # NoName => u.job # 0 /\ u.left = {} /\ u.source = NoName
        /\ u.left \subseteq DOMAIN shelf' /\ (u.source # NoName => u.source \in DOMAIN shelf')
  BY <1>1, <1>2, <1>3
<1>8. ASSUME NEW k, NEW name, Awaited(k, name), name # NoName,
             ~(/\ k = t.call /\ (t.path = name \/ t.source = name \/ name \in t.left)
               /\ next.source # name /\ name \notin next.left)
      PROVE  Awaited(k, name)'
  <2>1. PICK u \in tasks : u.call = k /\ (u.path = name \/ u.source = name \/ name \in u.left)
    BY <1>8 DEF Awaited
  <2>2. CASE u # t
    BY <1>4, <2>1, <2>2 DEF Awaited
  <2>3. CASE u = t
    <3>1. next.source = name \/ name \in next.left
      BY <1>8, <2>1, <2>3
    <3>2. next \in tasks' /\ next.call = k
      BY <1>5, <1>8, <2>1, <2>3, <3>1
    <3> QED BY <3>1, <3>2 DEF Awaited
  <2> QED BY <2>2, <2>3
<1> QED BY <1>6, <1>7, <1>8

\* The files of a call have names.
LEMMA NamesAreNames ==
  ASSUME BatchAssumption, BatchTyped
  PROVE  /\ NoName \notin Name
         /\ \A k \in DOMAIN calls : /\ calls[k] \in ACall
                                    /\ \A f \in calls[k].files : f[1] \in Name /\ f[1] # NoName
<1>1. NoName \notin Name
  <2>1. \A n \in Name : n.stem # ""
    BY DEF Name
  <2> QED BY <2>1, MadeNames
<1>2. ASSUME NEW k \in DOMAIN calls PROVE calls[k] \in ACall
  <2>1. ASSUME NEW B, NEW q \in Seq(B) PROVE \A j \in DOMAIN q : q[j] \in B
    OBVIOUS
  <2> HIDE DEF ACall
  <2> QED BY <2>1 DEF BatchTyped
<1>3. \A k \in DOMAIN calls : calls[k].files \subseteq Name \X Content
  BY <1>2 DEF ACall
<1> QED BY <1>1, <1>2, <1>3

\* What a process converts with is what its call decided on.
LEMMA PlansKept ==
  ASSUME BatchAssumption, BatchTyped, NEW t \in tasks
  PROVE  /\ calls[t.call].option \in Options /\ Valid(calls[t.call].option)
         /\ PlanOf(t) = Encoder(calls[t.call].option)
<1>1. t.call \in DOMAIN calls
  BY DEF BatchTyped
<1>2. calls[t.call].option \in Options /\ Valid(calls[t.call].option)
  <2>1. calls[t.call].option \in Options
    BY <1>1, NamesAreNames DEF ACall
  <2> QED BY <1>1, <2>1 DEF BatchTyped
<1> QED BY <1>2, JobsKeepPlans DEF PlanOf, OptionOf

\* A job starts: its file is eligible still, and it is told by its name.
LEMMA JobStartsStep ==
  ASSUME BatchAssumption, BatchIInv, NEW t \in tasks, JobStarts(t)
  PROVE  BatchIInv'
<1>1. Waiting(t) /\ UNCHANGED <<shelf, markers, jobs, tampers, ever>>
  BY DEF JobStarts
<1>2. BatchTyped /\ jobs' \in Nat
  BY <1>1 DEF BatchIInv, BatchTyped
<1>3. IsShelf(shelf') /\ PicturesOK' /\ ContentsKept' /\ ShelfGoesOn
  BY <1>1, ShelfRead
<1>4. /\ t \in ATask /\ t.job # 0 /\ t.path # NoName /\ t.left = {} /\ t.source = NoName
      /\ t.call \in DOMAIN calls
  BY <1>1, <1>2 DEF BatchTyped, Waiting
<1>5. CASE t.path \in DOMAIN shelf
  <2> DEFINE chosen == Selected(OptionOf(t), JustOne(t.path))
             next == [t EXCEPT !.path = NoName, !.left = chosen]
  <2>1. GoesOn(t, next) /\ UNCHANGED calls
    BY <1>5 DEF JobStarts
  <2>2. CallsGoOn
    BY <1>2, <2>1, CallsStand
  <2>3. chosen \subseteq DOMAIN shelf /\ chosen \subseteq Name
    BY <1>2 DEF Selected, Collected, BatchTyped, IsShelf
  <2> HIDE DEF chosen
  <2>4. /\ next \in ATask /\ next.call = t.call /\ next.path = NoName
        /\ next.left = chosen /\ next.source = NoName
    BY <1>4, <2>3 DEF ATask
  <2> HIDE DEF next
  <2>5. /\ tasks' \subseteq ATask
        /\ \A u \in tasks' :
             /\ u.call \in DOMAIN calls'
             /\ u.path # NoName => u.job # 0 /\ u.left = {} /\ u.source = NoName
             /\ u.left \subseteq DOMAIN shelf' /\ (u.source # NoName => u.source \in DOMAIN shelf')
        /\ \A k, name : Awaited(k, name) /\ name # NoName =>
             \/ Awaited(k, name)'
             \/ /\ k = t.call /\ (t.path = name \/ t.source = name \/ name \in t.left)
                /\ next.source # name /\ name \notin next.left
    BY <1>1, <1>2, <2>1, <2>2, <2>3, <2>4, GoingOn
  <2>6. BatchTyped'
    BY <1>1, <1>2, <1>3, <2>1, <2>5 DEF BatchTyped
  <2>7. AwaitedGoOn
    <3>1. SUFFICES ASSUME NEW k \in DOMAIN calls, NEW f \in calls[k].files, TagsAreKnown,
                          ~calls[k].disturbed, ~Generated(f[1]), Awaited(k, f[1])
                   PROVE  Awaited(k, f[1])'
      BY DEF AwaitedGoOn
    <3>2. f[1] # NoName
      BY <1>2, NamesAreNames
    <3>3. f[1] \in DOMAIN shelf /\ Eligible(f[1])
      BY <3>1 DEF BatchIInv, CallsOK, Untouched
    <3>4. CASE t.path = f[1]
      <4>1. OptionOf(t).i
        <5>1. OptionOf(t) = JobOption(calls[t.call].option)
          BY <1>4 DEF OptionOf
        <5>2. calls[t.call].option \in Option
          BY <1>2, PlansKept DEF BatchAssumption
        <5>3. \A o \in Option : JobOption(o).i
          BY DEF JobOption, Option
        <5> QED BY <5>1, <5>2, <5>3
      <4>2. f[1] \in chosen
        BY <3>3, <3>4, <4>1 DEF chosen, Selected, Collected, JustOne
      <4> QED BY <2>4, <2>5, <3>1, <3>2, <4>2
    <3>5. CASE t.path # f[1]
      BY <1>4, <2>5, <3>1, <3>2, <3>5
    <3> QED BY <3>4, <3>5
  <2>8. CallsOK'
    BY <1>3, <2>2, <2>7, CallsKept DEF BatchIInv
  <2> QED BY <1>3, <2>6, <2>8 DEF BatchIInv
<1>6. CASE t.path \notin DOMAIN shelf
  <2>1. tasks' = tasks \ {t} /\ CallFails(t)
    BY <1>6 DEF JobStarts
  <2>2. CallsGoOn /\ calls'[t.call].failed
    BY <1>2, <2>1, CallsStand
  <2>3. BatchTyped'
    BY <1>1, <1>2, <1>3, <2>1, <2>2 DEF BatchTyped, CallsGoOn
  <2>4. AwaitedGoOn
    BY <2>1, <2>2 DEF AwaitedGoOn, Awaited
  <2>5. CallsOK'
    BY <1>3, <2>2, <2>4, CallsKept DEF BatchIInv
  <2> QED BY <1>3, <2>3, <2>5 DEF BatchIInv
<1> QED BY <1>5, <1>6

\* A conversion begins, or fails at the marker of another.
LEMMA BeginStep ==
  ASSUME BatchAssumption, BatchIInv, NEW t \in tasks, NEW name \in t.left, Begin(t, name)
  PROVE  BatchIInv'
<1> DEFINE busy == [t EXCEPT !.source = name, !.left = @ \ {name}, !.was = shelf[name]]
           next == [t EXCEPT !.left = @ \ {name}]
<1>1. ~Waiting(t) /\ t.source = NoName /\ UNCHANGED <<shelf, jobs, tampers, ever>>
  BY DEF Begin
<1>2. BatchTyped /\ jobs' \in Nat
  BY <1>1 DEF BatchIInv, BatchTyped
<1>3. IsShelf(shelf') /\ PicturesOK' /\ ContentsKept' /\ ShelfGoesOn
  BY <1>1, ShelfRead
<1>4. /\ t \in ATask /\ t.path = NoName /\ t.call \in DOMAIN calls /\ t.left \subseteq DOMAIN shelf
      /\ name \in Name /\ name \in DOMAIN shelf /\ shelf[name] \in Content
  BY <1>1, <1>2 DEF BatchTyped, Waiting, IsShelf
<1>5. /\ busy \in ATask /\ busy.call = t.call /\ busy.path = NoName
      /\ busy.left = t.left \ {name} /\ busy.source = name
  BY <1>4 DEF ATask
<1>6. /\ next \in ATask /\ next.call = t.call /\ next.path = NoName
      /\ next.left = t.left \ {name} /\ next.source = NoName
  BY <1>1, <1>4 DEF ATask
<1>7. (GoesOn(t, busy) /\ UNCHANGED calls) \/ (GoesOn(t, next) /\ CallFails(t))
  BY DEF Begin
<1> HIDE DEF busy, next
<1>8. CASE GoesOn(t, busy) /\ UNCHANGED calls
  <2>1. CallsGoOn
    BY <1>2, <1>8, CallsStand
  <2>2. /\ tasks' \subseteq ATask
        /\ \A u \in tasks' :
             /\ u.call \in DOMAIN calls'
             /\ u.path # NoName => u.job # 0 /\ u.left = {} /\ u.source = NoName
             /\ u.left \subseteq DOMAIN shelf' /\ (u.source # NoName => u.source \in DOMAIN shelf')
        /\ \A k, n : Awaited(k, n) /\ n # NoName =>
             \/ Awaited(k, n)'
             \/ /\ k = t.call /\ (t.path = n \/ t.source = n \/ n \in t.left)
                /\ busy.source # n /\ n \notin busy.left
    BY <1>1, <1>2, <1>4, <1>5, <1>8, <2>1, GoingOn
  <2>3. BatchTyped'
    BY <1>2, <1>3, <1>8, <2>2 DEF BatchTyped
  <2>4. \A k \in DOMAIN calls : \A f \in calls[k].files : f[1] # NoName
    BY <1>2, NamesAreNames
  <2>5. AwaitedGoOn
    BY <1>1, <1>4, <1>5, <2>2, <2>4 DEF AwaitedGoOn
  <2>6. CallsOK'
    BY <1>3, <2>1, <2>5, CallsKept DEF BatchIInv
  <2> QED BY <1>3, <2>3, <2>6 DEF BatchIInv
<1>9. CASE GoesOn(t, next) /\ CallFails(t)
  <2>1. CallsGoOn /\ calls'[t.call].failed
    BY <1>2, <1>9, CallsStand
  <2>2. /\ tasks' \subseteq ATask
        /\ \A u \in tasks' :
             /\ u.call \in DOMAIN calls'
             /\ u.path # NoName => u.job # 0 /\ u.left = {} /\ u.source = NoName
             /\ u.left \subseteq DOMAIN shelf' /\ (u.source # NoName => u.source \in DOMAIN shelf')
        /\ \A k, n : Awaited(k, n) /\ n # NoName =>
             \/ Awaited(k, n)'
             \/ /\ k = t.call /\ (t.path = n \/ t.source = n \/ n \in t.left)
                /\ next.source # n /\ n \notin next.left
    BY <1>1, <1>2, <1>4, <1>6, <1>9, <2>1, GoingOn
  <2>3. BatchTyped'
    BY <1>2, <1>3, <2>1, <2>2 DEF BatchTyped, CallsGoOn
  <2>4. \A k \in DOMAIN calls : \A f \in calls[k].files : f[1] # NoName
    BY <1>2, NamesAreNames
  <2>5. AwaitedGoOn
    BY <2>1, <2>2, <2>4 DEF AwaitedGoOn
  <2>6. CallsOK'
    BY <1>3, <2>1, <2>5, CallsKept DEF BatchIInv
  <2> QED BY <1>3, <2>3, <2>6 DEF BatchIInv
<1> QED BY <1>7, <1>8, <1>9

\* A conversion ends: its output is published, or the call fails.
LEMMA EndStep ==
  ASSUME BatchAssumption, BatchIInv, NEW t \in tasks, NEW ok, End(t, ok)
  PROVE  BatchIInv'
<1> DEFINE next == [t EXCEPT !.source = NoName, !.was = NoContent]
           output == Output(t)
           content == Encoded(PlanOf(t), t.source)
<1>1. t.source # NoName /\ GoesOn(t, next) /\ jobs' = jobs
  BY DEF End
<1>2. BatchTyped /\ jobs' \in Nat
  BY <1>1 DEF BatchIInv, BatchTyped
<1>3. /\ t \in ATask /\ t.path = NoName /\ t.call \in DOMAIN calls /\ t.left \subseteq DOMAIN shelf
      /\ t.source \in DOMAIN shelf /\ t.source \in Name
  BY <1>1, <1>2 DEF BatchTyped, IsShelf
<1>4. /\ next \in ATask /\ next.call = t.call /\ next.path = NoName
      /\ next.left = t.left /\ next.source = NoName
  BY <1>3 DEF ATask
<1>5. \/ CallFails(t) /\ UNCHANGED <<shelf, ever>>
      \/ /\ shelf' = Published(output, content) /\ ever' = ever \cup {content} /\ UNCHANGED calls
  BY DEF End
<1>6. \A k \in DOMAIN calls : \A f \in calls[k].files : f[1] # NoName
  BY <1>2, NamesAreNames
<1> HIDE DEF next
<1>7. CASE CallFails(t) /\ UNCHANGED <<shelf, ever>>
  <2>1. CallsGoOn /\ calls'[t.call].failed
    BY <1>2, <1>7, CallsStand
  <2>2. /\ tasks' \subseteq ATask
        /\ \A u \in tasks' :
             /\ u.call \in DOMAIN calls'
             /\ u.path # NoName => u.job # 0 /\ u.left = {} /\ u.source = NoName
             /\ u.left \subseteq DOMAIN shelf' /\ (u.source # NoName => u.source \in DOMAIN shelf')
        /\ \A k, n : Awaited(k, n) /\ n # NoName =>
             \/ Awaited(k, n)'
             \/ /\ k = t.call /\ (t.path = n \/ t.source = n \/ n \in t.left)
                /\ next.source # n /\ n \notin next.left
    BY <1>1, <1>2, <1>3, <1>4, <1>7, <2>1, GoingOn
  <2>3. IsShelf(shelf') /\ PicturesOK' /\ ContentsKept' /\ ShelfGoesOn
    BY <1>7, ShelfRead
  <2>4. BatchTyped'
    BY <1>2, <2>1, <2>2, <2>3 DEF BatchTyped, CallsGoOn
  <2>5. AwaitedGoOn
    BY <1>6, <2>1, <2>2 DEF AwaitedGoOn
  <2>6. CallsOK'
    BY <2>1, <2>3, <2>5, CallsKept DEF BatchIInv
  <2> QED BY <2>3, <2>4, <2>6 DEF BatchIInv
<1>8. CASE shelf' = Published(output, content) /\ ever' = ever \cup {content} /\ UNCHANGED calls
  <2>1. PICK o \in Options : /\ o = calls[t.call].option /\ PlanOf(t) = Encoder(o)
    BY <1>2, PlansKept
  <2>2. /\ content \in Content /\ ShownAsLong(content)
        /\ content.made = Append(shelf[t.source].made, Choice(o))
        /\ content.origin = shelf[t.source].origin /\ content.version = shelf[t.source].version
    BY <1>2, <1>3, <2>1, Encoding DEF BatchIInv
  <2>3. /\ output = OutputPath(Encoder(o), t.source) /\ output \in Name /\ output.ext = "mp4"
    BY <1>3, <2>1, OutputNames DEF Output
  <2> HIDE DEF content, output
  <2>4. /\ IsShelf(shelf')
        /\ DOMAIN shelf \subseteq DOMAIN shelf' /\ output \in DOMAIN shelf' /\ shelf'[output] = content
        /\ \A n \in DOMAIN shelf' : n = output \/ (n \in DOMAIN shelf /\ shelf'[n] = shelf[n])
             \/ (output \in DOMAIN shelf /\ shelf'[n] = shelf[output]
                  /\ n.made = output.made /\ n.ext = output.ext)
        /\ \A n \in DOMAIN shelf : \E m \in DOMAIN shelf' : shelf'[m] = shelf[n]
    BY <1>2, <1>8, <2>2, <2>3, Publishing
  <2>5. CallsGoOn
    BY <1>2, <1>8, CallsStand
  <2>6. /\ tasks' \subseteq ATask
        /\ \A u \in tasks' :
             /\ u.call \in DOMAIN calls'
             /\ u.path # NoName => u.job # 0 /\ u.left = {} /\ u.source = NoName
             /\ u.left \subseteq DOMAIN shelf' /\ (u.source # NoName => u.source \in DOMAIN shelf')
        /\ \A k, n : Awaited(k, n) /\ n # NoName =>
             \/ Awaited(k, n)'
             \/ /\ k = t.call /\ (t.path = n \/ t.source = n \/ n \in t.left)
                /\ next.source # n /\ n \notin next.left
    <3>1. next.left \subseteq DOMAIN shelf'
      BY <1>3, <1>4, <2>4
    <3> QED BY <1>1, <1>2, <1>4, <2>4, <2>5, <3>1, GoingOn
  <2>7. BatchTyped'
    BY <1>2, <1>8, <2>4, <2>6 DEF BatchTyped
  <2>8. PicturesOK'
    <3>1. PicturesOK
      BY DEF BatchIInv
    <3>2. ASSUME NEW n \in DOMAIN shelf' PROVE ShownAsLong(shelf'[n])
      BY <2>2, <2>4, <3>1 DEF PicturesOK
    <3>3. ASSUME NEW n \in DOMAIN shelf', n.ext = "webp"
          PROVE  \E m \in DOMAIN Original : /\ Original[m].origin = shelf'[n].origin
                                            /\ Original[m].shows = shelf'[n].shows
      <4>1. n.ext # output.ext
        BY <2>3, <3>3
      <4>2. n \in DOMAIN shelf /\ shelf'[n] = shelf[n]
        BY <2>4, <4>1
      <4> QED BY <3>1, <3>3, <4>2 DEF PicturesOK
    <3> QED BY <3>2, <3>3 DEF PicturesOK, ShownAsLong
  <2>9. ContentsKept'
    BY <1>8, <2>4 DEF BatchIInv, ContentsKept
  <2>10. ShelfGoesOn
    <3>1. ASSUME TagsAreKnown, NEW n \in DOMAIN shelf', ~Generated(n)
          PROVE  n \in DOMAIN shelf /\ shelf'[n] = shelf[n]
      <4>1. Tag(o) \in KnownTag
        BY <1>3, <2>1, <3>1 DEF TagsAreKnown
      <4>2. n \in Name
        BY <2>4 DEF IsShelf
      <4>3. n.made # output.made
        BY <1>3, <2>3, <3>1, <4>1, <4>2, OutputsAreGenerated
      <4> QED BY <2>4, <4>3
    <3> QED BY <1>8, <2>4, <3>1 DEF ShelfGoesOn
  <2>11. AwaitedGoOn
    <3>1. SUFFICES ASSUME NEW k \in DOMAIN calls, NEW f \in calls[k].files, TagsAreKnown,
                          ~calls[k].disturbed, ~Generated(f[1]), Awaited(k, f[1]), ~Awaited(k, f[1])'
                   PROVE  Converted(k, f)'
      BY DEF AwaitedGoOn
    <3>2. k = t.call /\ f[1] = t.source
      BY <1>3, <1>4, <1>6, <2>6, <3>1
    <3>3. shelf[f[1]] = f[2]
      BY <3>1 DEF BatchIInv, CallsOK, Untouched
    <3>4. calls'[k].option = o
      BY <1>8, <2>1, <3>2
    <3>5. OutputPath(Encoder(o), f[1]) \in DOMAIN shelf'
      BY <2>3, <2>4, <3>2
    <3>6. /\ content \in ever' /\ content.made = Append(f[2].made, Choice(o))
          /\ content.origin = f[2].origin /\ content.version = f[2].version
      BY <1>8, <2>2, <3>2, <3>3
    <3> QED BY <3>4, <3>5, <3>6 DEF Converted, EncodingOf
  <2>12. CallsOK'
    BY <2>5, <2>10, <2>11, CallsKept DEF BatchIInv
  <2> QED BY <2>7, <2>8, <2>9, <2>12 DEF BatchIInv
<1> QED BY <1>5, <1>7, <1>8

\* The sequence of a set's elements names them all.
LEMMA AllAreNamed ==
  ASSUME NEW S, IsFiniteSet(S)
  PROVE  /\ Cardinality(S) \in Nat /\ SetToSeq(S) \in [1 .. Cardinality(S) -> S]
         /\ \A x \in S : \E k \in 1 .. Cardinality(S) : SetToSeq(S)[k] = x
<1> DEFINE n == Cardinality(S)
           q == SetToSeq(S)
<1>1. n \in Nat /\ ExistsBijection(1 .. n, S)
  BY FS_CardinalityType
<1>2. \E f \in [1 .. n -> S] : IsInjective(f)
  BY <1>1 DEF ExistsBijection, Bijection, Injection
<1>3. q \in [1 .. n -> S] /\ IsInjective(q)
  <2>1. \A f \in [1 .. n -> S] : IsInjective(f) =>
          (CHOOSE g \in [1 .. n -> S] : IsInjective(g)) \in [1 .. n -> S]
            /\ IsInjective(CHOOSE g \in [1 .. n -> S] : IsInjective(g))
    OBVIOUS
  <2> QED BY <1>2, <2>1 DEF SetToSeq
<1>4. q \in Injection(1 .. n, S)
  BY <1>3 DEF Injection
<1>5. Cardinality(1 .. n) = n
  BY <1>1, FS_Interval
<1> HIDE DEF n, q
<1>6. q \in Surjection(1 .. n, S)
  BY <1>4, <1>5, FS_Injection DEF n
<1> QED BY <1>1, <1>3, <1>6 DEF Surjection, n, q

\* A call over the shelf: its files are awaited, and what it leaves out needs nothing.
LEMMA CallStep ==
  ASSUME BatchAssumption, BatchIInv, NEW o \in Options, NEW args \in Argument, Call(o, args)
  PROVE  BatchIInv'
<1> DEFINE files == Selected(o, args)
           names == SetToSeq(files)
           call  == Len(calls) + 1
           found == {<<f, shelf[f]>> : f \in files}
           new   == [option |-> o, args |-> args, files |-> found, failed |-> FALSE, disturbed |-> FALSE]
<1>1. /\ Valid(o) /\ calls' = Append(calls, new) /\ UNCHANGED <<shelf, markers, tampers, ever>>
      /\ IF files = {} THEN UNCHANGED <<tasks, jobs>>
         ELSE IF Serially(o, files) THEN tasks' = tasks \cup {Task(call, 0, NoName, files)} /\ UNCHANGED jobs
         ELSE /\ tasks' = tasks \cup {Task(call, jobs + k, names[k], {}) : k \in DOMAIN names}
              /\ jobs' = jobs + Len(names)
  BY DEF Call
<1>2. BatchTyped /\ IsShelf(shelf) /\ calls \in Seq(ACall) /\ tasks \subseteq ATask /\ jobs \in Nat
  BY DEF BatchIInv, BatchTyped
<1>3. IsShelf(shelf') /\ PicturesOK' /\ ContentsKept'
  BY <1>1, ShelfRead
<1>4. files \subseteq DOMAIN shelf /\ files \subseteq Name /\ IsFiniteSet(files)
  <2>1. files \subseteq DOMAIN shelf
    BY DEF Selected, Collected
  <2> HIDE DEF files
  <2> QED BY <1>2, <2>1, FS_Subset DEF IsShelf
<1>5. new \in ACall
  <2>1. found \subseteq Name \X Content
    BY <1>2, <1>4 DEF IsShelf
  <2> HIDE DEF found
  <2> QED BY <2>1 DEF ACall
<1>6. /\ calls' \in Seq(ACall) /\ DOMAIN calls' = DOMAIN calls \cup {call} /\ call \notin DOMAIN calls
      /\ calls'[call] = new /\ call \in Nat /\ \A k \in DOMAIN calls : calls'[k] = calls[k]
  <2>1. ASSUME NEW B, NEW r \in Seq(B), NEW x \in B
        PROVE  /\ Append(r, x) \in Seq(B) /\ DOMAIN Append(r, x) = DOMAIN r \cup {Len(r) + 1}
               /\ Len(r) + 1 \notin DOMAIN r /\ Append(r, x)[Len(r) + 1] = x /\ Len(r) + 1 \in Nat
               /\ \A k \in DOMAIN r : Append(r, x)[k] = r[k]
    OBVIOUS
  <2> HIDE DEF new, ACall
  <2> QED BY <1>1, <1>2, <1>5, <2>1
<1>0. PICK last \in Nat : last = call
  BY <1>6
<1>7. /\ Cardinality(files) \in Nat /\ names \in [1 .. Cardinality(files) -> files]
      /\ \A x \in files : \E k \in 1 .. Cardinality(files) : names[k] = x
  <2> HIDE DEF files
  <2> QED BY <1>4, AllAreNamed
<1>8. /\ new.option = o /\ new.args = args /\ new.files = found
      /\ ~new.disturbed
  OBVIOUS
<1> HIDE DEF files, names, call, new
<1>9. /\ tasks \subseteq tasks' /\ tasks' \subseteq ATask /\ jobs' \in Nat
      /\ \A t \in tasks' : t \in tasks \/
           /\ t.call = call /\ (t.path # NoName => t.job # 0 /\ t.left = {} /\ t.source = NoName)
           /\ t.left \subseteq DOMAIN shelf /\ t.source = NoName
      /\ \A f \in files : \E t \in tasks' : t.call = call /\ (t.path = f \/ f \in t.left)
  <2>1. ASSUME NEW job \in Nat, NEW path \in Name \cup {NoName}, NEW left \in SUBSET Name
        PROVE  LET t == Task(call, job, path, left)
               IN  /\ t \in ATask /\ t.call = call /\ t.job = job /\ t.path = path
                   /\ t.left = left /\ t.source = NoName
    BY <1>6 DEF Task, ATask
  <2>2. CASE files = {}
    BY <1>1, <1>2, <2>2
  <2>3. CASE files # {} /\ Serially(o, files)
    <3> DEFINE one == Task(call, 0, NoName, files)
    <3>1. tasks' = tasks \cup {one} /\ jobs' = jobs
      BY <1>1, <2>3
    <3>2. one \in ATask /\ one.call = call /\ one.path = NoName /\ one.left = files /\ one.source = NoName
      <4>1. 0 \in Nat /\ NoName \in Name \cup {NoName} /\ files \in SUBSET Name
        BY <1>4
      <4>2. ASSUME NEW left \in SUBSET Name
            PROVE  LET t == Task(call, 0, NoName, left)
                   IN  t \in ATask /\ t.call = call /\ t.path = NoName /\ t.left = left /\ t.source = NoName
        BY <2>1, <4>1
      <4> HIDE DEF files
      <4> QED BY <4>1, <4>2
    <3> HIDE DEF one
    <3> QED BY <1>2, <1>4, <3>1, <3>2
  <2>4. CASE files # {} /\ ~Serially(o, files)
    <3> DEFINE each(k) == Task(call, jobs + k, names[k], {})
    <3>1. tasks' = tasks \cup {each(k) : k \in DOMAIN names} /\ jobs' = jobs + Len(names)
      BY <1>1, <2>4
    <3>2. DOMAIN names = 1 .. Cardinality(files) /\ Len(names) = Cardinality(files)
      BY <1>7
    <3>3. ASSUME NEW k \in DOMAIN names
          PROVE  /\ each(k) \in ATask /\ each(k).call = call /\ each(k).path = names[k]
                 /\ each(k).job # 0 /\ each(k).left = {} /\ each(k).source = NoName
      <4>1. jobs + k \in Nat /\ jobs + k # 0
        BY <1>2, <1>7, <3>2
      <4>2. names[k] \in Name
        BY <1>4, <1>7, <3>2
      <4> QED BY <2>1, <4>1, <4>2
    <3> HIDE DEF each
    <3>4. jobs' \in Nat
      BY <1>2, <1>7, <3>1, <3>2
    <3>5. \A t \in tasks' : t \in tasks \/
           /\ t.call = call /\ (t.path # NoName => t.job # 0 /\ t.left = {} /\ t.source = NoName)
           /\ t.left \subseteq DOMAIN shelf /\ t.source = NoName
      BY <3>1, <3>3
    <3>6. \A f \in files : \E t \in tasks' : t.call = call /\ (t.path = f \/ f \in t.left)
      BY <1>7, <3>1, <3>2, <3>3
    <3> QED BY <1>2, <3>1, <3>3, <3>4, <3>5, <3>6
  <2> QED BY <2>2, <2>3, <2>4
<1>10. BatchTyped'
  <2>1. \A k \in DOMAIN calls' : Valid(calls'[k].option)
    BY <1>1, <1>2, <1>6, <1>8 DEF BatchTyped
  <2>2. \A t \in tasks' :
          /\ t.call \in DOMAIN calls'
          /\ t.path # NoName => t.job # 0 /\ t.left = {} /\ t.source = NoName
          /\ t.left \subseteq DOMAIN shelf' /\ (t.source # NoName => t.source \in DOMAIN shelf')
    BY <1>1, <1>2, <1>6, <1>9 DEF BatchTyped
  <2>3. Valid(o)' <=> Valid(o)
    OBVIOUS
  <2> QED BY <1>3, <1>6, <1>9, <2>1, <2>2 DEF BatchTyped
<1>11. \A k, name : Awaited(k, name) => Awaited(k, name)'
  BY <1>9 DEF Awaited
<1>12. ASSUME TagsAreKnown', NEW k \in DOMAIN calls, ~calls'[k].disturbed
       PROVE  Untouched(k)' /\ Settling(k)'
  <2>1. TagsAreKnown
    BY <1>6, <1>12 DEF TagsAreKnown
  <2>2. calls'[k] = calls[k] /\ shelf' = shelf /\ ever' = ever
    BY <1>1, <1>6
  <2>3. Untouched(k) /\ Settling(k)
    BY <1>12, <2>1, <2>2 DEF BatchIInv, CallsOK
  <2>4. Untouched(k)'
    BY <2>2, <2>3 DEF Untouched, Eligible, SkipExisting, Av1
  <2>5. Settling(k)'
    BY <1>11, <2>2, <2>3 DEF Settling, Converted, EncodingOf
  <2> QED BY <2>4, <2>5
<1>13. ASSUME TagsAreKnown'
       PROVE  Untouched(last)' /\ Settling(last)'
  <2>1. /\ calls'[last].option = o /\ calls'[last].args = args /\ calls'[last].files = found
        /\ shelf' = shelf
    BY <1>0, <1>1, <1>6, <1>8
  <2>2. \A f \in found : f[1] \in files /\ f[2] = shelf[f[1]]
    OBVIOUS
  <2>3. \A f \in files : \E g \in found : g[1] = f
    <3>1. \A f \in files : <<f, shelf[f]>> \in found /\ <<f, shelf[f]>>[1] = f
      OBVIOUS
    <3> QED BY <3>1
  <2> HIDE DEF found
  <2>4. \A f \in files : f \in DOMAIN shelf /\ Eligible(f)
    BY <1>4 DEF files, Selected
  <2>5. ASSUME args.directory, ~o.i, o.skip, NEW n \in DOMAIN shelf, ~Generated(n), Eligible(n)
        PROVE  SkipExisting(o, n) \/ \E f \in found : f[1] = n
    BY <2>3, <2>5 DEF files, Selected, Collected
  <2>6. Untouched(last)'
    <3>1. \A n : /\ Eligible(n)' <=> Eligible(n)
                 /\ SkipExisting(o, n)' <=> SkipExisting(o, n)
      BY <2>1 DEF Eligible, SkipExisting, Av1
    <3> QED BY <2>1, <2>2, <2>4, <2>5, <3>1 DEF Untouched
  <2>7. Settling(last)'
    BY <1>0, <1>9, <2>1, <2>2 DEF Settling, Awaited
  <2> QED BY <2>6, <2>7
<1>14. CallsOK'
  BY <1>0, <1>6, <1>12, <1>13 DEF CallsOK
<1> QED BY <1>3, <1>10, <1>14 DEF BatchIInv

\* Every step keeps the invariant.
LEMMA BatchStep == BatchAssumption /\ BatchIInv /\ [BatchNext]_batchVars => BatchIInv'
<1> SUFFICES ASSUME BatchAssumption, BatchIInv, [BatchNext]_batchVars PROVE BatchIInv'
  OBVIOUS
<1>1. CASE \E o \in Options, args \in Argument : Call(o, args)
  BY <1>1, CallStep
<1>2. CASE \E t \in tasks : JobStarts(t)
  BY <1>2, JobStartsStep
<1>3. CASE \E t \in tasks : \E name \in t.left : Begin(t, name)
  BY <1>3, BeginStep
<1>4. CASE \E t \in tasks : \E ok \in BOOLEAN : End(t, ok)
  BY <1>4, EndStep
<1>5. CASE \E name \in DOMAIN Original : Deliver(name) \/ Rewrite(name)
  BY <1>5, DeliverStep, RewriteStep
<1>6. CASE UNCHANGED batchVars
  <2>1. BatchTyped' /\ CallsGoOn
    BY <1>6 DEF batchVars, BatchIInv, BatchTyped, CallsGoOn
  <2>2. PicturesOK' /\ ContentsKept' /\ ShelfGoesOn
    BY <1>6, ShelfRead DEF batchVars
  <2>3. AwaitedGoOn
    BY <1>6 DEF batchVars, AwaitedGoOn, Awaited
  <2>4. CallsOK'
    BY <2>1, <2>2, <2>3, CallsKept DEF BatchIInv
  <2> QED BY <2>1, <2>2, <2>4 DEF BatchIInv
<1> QED BY <1>1, <1>2, <1>3, <1>4, <1>5, <1>6 DEF BatchNext

\* What nobody waits for is converted, and its encoding is on the shelf.
LEMMA BatchSettled == BatchIInv => BatchesSettle
<1> SUFFICES ASSUME BatchIInv PROVE BatchesSettle
  OBVIOUS
<1>1. ASSUME TagsAreKnown, NEW k \in DOMAIN calls, Undisturbed(k)
      PROVE  SettledBy(k)
  <2> DEFINE o == calls[k].option
  <2>1. Untouched(k) /\ Settling(k) /\ ~calls[k].failed
    BY <1>1 DEF BatchIInv, CallsOK, Undisturbed
  <2>2. ASSUME NEW f \in calls[k].files, ~Generated(f[1]) PROVE Converted(k, f)
    <3>1. ~Awaited(k, f[1])
      BY <1>1 DEF Undisturbed, Awaited
    <3> QED BY <2>1, <2>2, <3>1 DEF Settling
  <2>3. ASSUME calls[k].args.directory, ~o.i, o.skip PROVE Selected(o, Everything) = {}
    <3>1. SUFFICES ASSUME NEW name \in Selected(o, Everything) PROVE FALSE
      OBVIOUS
    <3>2. name \in DOMAIN shelf /\ ~Generated(name) /\ Eligible(name) /\ ~SkipExisting(o, name)
      BY <2>3 DEF Selected, Collected, Everything
    <3>3. PICK f \in calls[k].files : f[1] = name
      BY <2>1, <2>3, <3>2 DEF Untouched
    <3>4. SkipExisting(o, name)
      BY <2>2, <2>3, <3>2, <3>3 DEF Converted, SkipExisting
    <3> QED BY <3>2, <3>4
  <2>4. ASSUME NEW f \in calls[k].files, ~Generated(f[1])
        PROVE  \E name \in DOMAIN shelf :
                 /\ shelf[name].made = Append(f[2].made, Choice(o))
                 /\ shelf[name].origin = f[2].origin /\ shelf[name].version = f[2].version
    BY <2>2, <2>4 DEF BatchIInv, ContentsKept, Converted, EncodingOf
  <2> QED BY <2>3, <2>4 DEF SettledBy
<1> QED BY <1>1 DEF BatchIInv, ContentsKept, PicturesOK, BatchesSettle

\* However calls, their jobs and the user overlap: a plain call over a directory that ended
\* undisturbed leaves nothing for the same call to convert, and every source that it took has
\* its encoding (vcvt.py's skip_existing, GENERATED, enqueue and publish); no content is ever
\* overwritten, and no picture of an animation is shown shorter than in the original.
THEOREM CallsSettle == BatchSpec => []BatchesSettle
<1>1. BatchInit => BatchIInv
  BY BatchAssumption, BatchStart
<1>2. BatchIInv /\ [BatchNext]_batchVars => BatchIInv'
  BY BatchAssumption, BatchStep
<1>3. BatchIInv => BatchesSettle
  BY BatchSettled
<1> QED BY <1>1, <1>2, <1>3, PTL DEF BatchSpec
=============================================================================

--------------------------- MODULE DurationIndex ---------------------------
(***************************************************************************)
(* src/ranger/plugins/vdprobe.py, the index from durations to paths, and   *)
(* :cd_samedur of cmd_cd.py, which asks it.  The index is built once from  *)
(* all files below the roots, by this process or by workers, while threads *)
(* of dcsize look files up and write; a marker of its completeness is put  *)
(* at the end, and afterwards only files that had to be probed are added.  *)
(* Several rangers share it, are killed, fail to write, and files change   *)
(* at any time.                                                            *)
(*                                                                         *)
(* A file is the number of its content, its (inode, mtime, size), which    *)
(* links share; MsOf tells its duration.  Whether the cache of verdicts    *)
(* (ProbeCache) knows a content that was probed before is left open.  A    *)
(* process has one flush of its threads under way at a time.               *)
(***************************************************************************)
EXTENDS Integers, FiniteSets

CONSTANTS Ranger, IndexPath,
          MsOf,              \* [content -> duration], 1 .. n
          Tolerance,         \* of the question, cd_samedur.tolerances
          MaxTouches, MaxMisfires, MaxGlances  \* bounds
ASSUME DurationAssumption ==
  /\ DOMAIN MsOf = 1 .. Cardinality(DOMAIN MsOf) /\ \A c \in DOMAIN MsOf : MsOf[c] \in Nat
  /\ {Tolerance, MaxTouches, MaxMisfires, MaxGlances} \subseteq Nat

VARIABLES contentAt,       \* [IndexPath -> content, or 0: no file]
          probed,          \* contents whose verdict is cached somewhere
          duration,        \* the table: [rows: [IndexPath -> content or 0], marker: BOOLEAN]
          mine,            \* per ranger, what this process knows and has put (Blank)
          touched,         \* observed: paths that changed,
          unheard,         \*   whose row was not written, which the build did not notice,
          shadowed,        \*   whose row a build left to another name of the content
          touches, misfires, glances
durationVars == <<contentAt, probed, duration, mine, touched, unheard, shadowed, touches, misfires,
                  glances>>

\* complete: _duration_index_complete; seen: what the store remembers of the marker; put: the
\* rows not yet written (0: None was put), with the marker if marked; flying, flyingMark: those
\* that a thread's flush has taken; left: the paths a build has still to resolve.
Blank == [complete |-> "unknown", seen |-> "unknown", building |-> FALSE, put |-> << >>,
          marked |-> FALSE, flying |-> << >>, flyingMark |-> FALSE, left |-> {}]

DurationInit ==
  /\ contentAt \in [IndexPath -> {0} \cup DOMAIN MsOf]
  /\ probed = {}
  /\ duration = [rows |-> [p \in IndexPath |-> 0], marker |-> FALSE]
  /\ mine = [r \in Ranger |-> Blank]
  /\ touched = {} /\ unheard = {} /\ shadowed = {}
  /\ touches = 0 /\ misfires = 0 /\ glances = 0

Misfires == misfires < MaxMisfires /\ misfires' = misfires + 1

\* The marker is read once per process; Store.get remembers also that it was not there.
SeesMarker(m) == IF m.marked \/ m.flyingMark THEN "yes"
                 ELSE IF m.seen # "unknown" THEN m.seen
                 ELSE IF duration.marker THEN "yes" ELSE "no"

(***************************************************************************)
(* _duration_index_put, after a lookup found a verdict: hit or probed      *)
(***************************************************************************)
PutRow(m, p, c) == [m EXCEPT !.put = [q \in DOMAIN m.put \cup {p} |->
                                        IF q = p THEN c ELSE m.put[q]]]
\* The rows of ps, as the files are now.
PutRows(m, ps)  == [m EXCEPT !.put = [p \in DOMAIN m.put \cup ps |->
                                        IF p \in ps THEN contentAt[p] ELSE m.put[p]]]
KnowsIndex(m)   == IF m.complete # "unknown" THEN m
                   ELSE [m EXCEPT !.complete = SeesMarker(m), !.seen = SeesMarker(m)]
IndexPutWhole(m, p, c, force) ==
  LET k == KnowsIndex(m) IN
  IF k.complete = "no" \/ (k.complete = "yes" /\ ~force) THEN k ELSE PutRow(k, p, c)
IndexPut(m, p, c, force) ==
  LET k == KnowsIndex(m) IN
  IF (k.complete = "no" /\ ~k.building) \/ (k.complete = "yes" /\ ~force) THEN k ELSE PutRow(k, p, c)
\* A hit is put only while the index is built, a probe whenever there is one.
Verdicts(c) == {hit \in BOOLEAN : hit => c \in probed}

\* info(path): any lookup outside of questions, in a thread also while the index is built.
Glance(r, p) ==
  /\ contentAt[p] # 0 /\ glances < MaxGlances
  /\ \E hit \in Verdicts(contentAt[p]) :
       mine' = [mine EXCEPT ![r] = IndexPut(@, p, contentAt[p], ~hit)]
  /\ probed' = probed \cup {contentAt[p]} /\ glances' = glances + 1
  /\ UNCHANGED <<contentAt, duration, touched, unheard, shadowed, touches, misfires>>

(***************************************************************************)
(* build_duration_index                                                    *)
(***************************************************************************)
\* The marker is not there: the roots are scanned ...
Build(r) ==
  LET m == mine[r]  sees == SeesMarker(m) IN
  /\ ~m.building
  /\ mine' = [mine EXCEPT ![r] =
       IF sees = "yes" THEN [m EXCEPT !.complete = sees, !.seen = sees]
       ELSE [m EXCEPT !.complete = sees, !.seen = sees, !.building = TRUE,
                      !.left = {p \in IndexPath : contentAt[p] # 0}]]
  /\ UNCHANGED <<contentAt, probed, duration, touched, unheard, shadowed, touches,
                 misfires, glances>>

\* ... every path resolved, by this process, also what a worker leaves to mediainfo ...
Resolve(r, p) ==
  LET c    == contentAt[p]
      done == [mine[r] EXCEPT !.left = @ \ {p}]
  IN
  /\ mine[r].building /\ p \in mine[r].left
  /\ probed' = probed \cup ({c} \ {0})
  /\ mine' = [mine EXCEPT ![r] = IF c = 0 THEN done ELSE IndexPut(done, p, c, TRUE)]
  /\ UNCHANGED <<contentAt, duration, touched, unheard, shadowed, touches, misfires,
                 glances>>

\* ... or with its chunk by a worker.  What the worker has to probe, for the first name it meets,
\* it returns, and that is put here for the last name in the chunk (path_by_key).  All others
\* are hits, whose rows the worker writes itself, and nobody hears when that fails ...
ResolveByWorker(r, ps) ==
  LET found == {contentAt[p] : p \in ps} \ {0} IN
  /\ mine[r].building /\ ps # {} /\ ps \subseteq mine[r].left
  /\ \E firsts, lasts \in SUBSET {p \in ps : contentAt[p] # 0} :
       /\ \A p, q \in firsts : contentAt[p] = contentAt[q] => p = q
       /\ \A p, q \in lasts : contentAt[p] = contentAt[q] => p = q
       /\ {contentAt[p] : p \in firsts} = {contentAt[p] : p \in lasts}
       /\ found \ probed \subseteq {contentAt[p] : p \in firsts}
       /\ \A p \in firsts \cap lasts : \A q \in ps \ {p} : contentAt[q] # contentAt[p]
       /\ LET own == {p \in ps \ firsts : contentAt[p] # 0} IN
          /\ mine' = [mine EXCEPT ![r] = [PutRows(@, lasts) EXCEPT !.left = mine[r].left \ ps]]
          /\ shadowed' = shadowed \cup (firsts \ lasts)
          /\ \/ /\ duration' = [duration EXCEPT !.rows = [p \in IndexPath |->
                                  IF p \in own THEN contentAt[p] ELSE duration.rows[p]]]
                /\ UNCHANGED <<unheard, misfires>>
             \/ Misfires /\ unheard' = unheard \cup (own \ lasts) /\ UNCHANGED duration
  /\ probed' = probed \cup found
  /\ UNCHANGED <<contentAt, touched, touches, glances>>

\* ... and the marker is put, after all rows.
PutMarker(r) ==
  /\ mine[r].building /\ mine[r].left = {}
  /\ mine' = [mine EXCEPT ![r].marked = TRUE, ![r].building = FALSE,
                          ![r].complete = "yes", ![r].seen = "yes"]
  /\ UNCHANGED <<contentAt, probed, duration, touched, unheard, shadowed, touches,
                 misfires, glances>>

(***************************************************************************)
(* Store.flush: all that was put, in one transaction, or kept for the next *)
(***************************************************************************)
Written(put, mark) == [rows |-> [p \in IndexPath |-> IF p \in DOMAIN put THEN put[p]
                                                     ELSE duration.rows[p]],
                       marker |-> duration.marker \/ mark]
\* The build's own, with the marker, may overtake rows that a thread's flush has taken.
FlushIndex(r) ==
  LET m == mine[r] IN
  /\ DOMAIN m.put # {} \/ m.marked
  /\ \/ /\ duration' = Written(m.put, m.marked)
        /\ mine' = [mine EXCEPT ![r].put = << >>, ![r].marked = FALSE]
        /\ unheard' = IF m.marked THEN unheard \cup DOMAIN m.flying ELSE unheard
        /\ UNCHANGED misfires
     \/ Misfires /\ UNCHANGED <<duration, mine, unheard>>
  /\ UNCHANGED <<contentAt, probed, touched, shadowed, touches, glances>>

\* A thread's, after every FLUSH_EVERY probes: what was put is taken ...
TakeRows(r) ==
  LET m == mine[r] IN
  /\ DOMAIN m.put # {} \/ m.marked
  /\ DOMAIN m.flying = {} /\ ~m.flyingMark
  /\ glances < MaxGlances /\ glances' = glances + 1
  /\ mine' = [mine EXCEPT ![r].put = << >>, ![r].marked = FALSE,
                          ![r].flying = m.put, ![r].flyingMark = m.marked]
  /\ UNCHANGED <<contentAt, probed, duration, touched, unheard, shadowed, touches,
                 misfires>>

\* ... and written, or given back to be put unless there is something newer.
WithNewer(old, new) == [p \in DOMAIN old \cup DOMAIN new |->
                          IF p \in DOMAIN new THEN new[p] ELSE old[p]]
RowsLand(r) ==
  LET m == mine[r] IN
  /\ DOMAIN m.flying # {} \/ m.flyingMark
  /\ \/ /\ duration' = Written(m.flying, m.flyingMark)
        /\ mine' = [mine EXCEPT ![r].flying = << >>, ![r].flyingMark = FALSE]
        /\ UNCHANGED misfires
     \/ /\ Misfires /\ UNCHANGED duration
        /\ mine' = [mine EXCEPT ![r].flying = << >>, ![r].flyingMark = FALSE,
                                ![r].marked = @ \/ m.flyingMark,
                                ![r].put = WithNewer(m.flying, m.put)]
  /\ UNCHANGED <<contentAt, probed, touched, unheard, shadowed, touches, glances>>

(***************************************************************************)
(* duration_matches, as :cd_samedur asks it once the index is built        *)
(***************************************************************************)
AreNear(c, ms) == MsOf[c] - ms \in -Tolerance .. Tolerance
Candidates(ms) == {p \in IndexPath : duration.rows[p] # 0 /\ AreNear(duration.rows[p], ms)}
\* The answer: candidates whose duration is near now.
Matches(ms)    == {p \in Candidates(ms) : contentAt[p] # 0 /\ AreNear(contentAt[p], ms)}
\* Each candidate is looked up again and put in any case, as None when there is no file.
Ask(r, ms) ==
  /\ mine[r].complete = "yes" /\ glances < MaxGlances
  /\ mine' = [mine EXCEPT ![r] = PutRows(@, Candidates(ms))]
  /\ probed' = probed \cup ({contentAt[p] : p \in Candidates(ms)} \ {0})
  /\ glances' = glances + 1
  /\ UNCHANGED <<contentAt, duration, touched, unheard, shadowed, touches, misfires>>

\* Ranger ends without its exit handlers.
KillRanger(r) ==
  /\ mine[r] # Blank /\ Misfires
  /\ mine' = [mine EXCEPT ![r] = Blank]
  /\ UNCHANGED <<contentAt, probed, duration, touched, unheard, shadowed, touches,
                 glances>>

\* A file is removed, replaced by another, or becomes another name of one.
TouchFile(p, c) ==
  /\ touches < MaxTouches /\ contentAt[p] # c
  /\ contentAt' = [contentAt EXCEPT ![p] = c]
  /\ touched' = touched \cup {p} /\ touches' = touches + 1
  /\ UNCHANGED <<probed, duration, mine, unheard, shadowed, misfires, glances>>

DurationNext ==
  \/ \E r \in Ranger : \/ Build(r) \/ PutMarker(r) \/ FlushIndex(r) \/ TakeRows(r) \/ RowsLand(r)
                       \/ KillRanger(r)
                       \/ \E p \in IndexPath : Glance(r, p) \/ Resolve(r, p)
                       \/ \E ps \in SUBSET IndexPath : ResolveByWorker(r, ps)
                       \/ \E c \in DOMAIN MsOf : Ask(r, MsOf[c])
  \/ \E p \in IndexPath, c \in {0} \cup DOMAIN MsOf : TouchFile(p, c)

DurationSpec == DurationInit /\ [][DurationNext]_durationVars

DurationTypeOK ==
  /\ contentAt \in [IndexPath -> {0} \cup DOMAIN MsOf] /\ probed \subseteq DOMAIN MsOf
  /\ duration \in [rows : [IndexPath -> {0} \cup DOMAIN MsOf], marker : BOOLEAN]
  /\ \A r \in Ranger :
       /\ mine[r].complete \in {"unknown", "yes", "no"} /\ mine[r].seen \in {"unknown", "yes", "no"}
       /\ DOMAIN mine[r].put \cup DOMAIN mine[r].flying \cup mine[r].left \subseteq IndexPath
  /\ touched \cup unheard \cup shadowed \subseteq IndexPath
  /\ touches \in 0 .. MaxTouches /\ misfires \in 0 .. MaxMisfires

\* However builds overlap, are interrupted by the flushes of threads, fail to write or are killed:
\* once the marker is stored, every file has its row ("Seed the path index once"), and a question
\* is answered with all files whose duration is near.  Except for the files that changed since, and
\* for what a build does not notice: rows that a worker or a thread failed to write in time
\* (unheard), and names of a content that a worker probed and another name of which came later in
\* its chunk (shadowed).
Excused == touched \cup unheard \cup shadowed
IndexIsComplete ==
  duration.marker =>
    /\ \A p \in IndexPath \ Excused : duration.rows[p] = contentAt[p]
    /\ \A c \in DOMAIN MsOf : \A p \in IndexPath \ Excused :
         contentAt[p] # 0 /\ AreNear(contentAt[p], MsOf[c]) => p \in Matches(MsOf[c])

\* What the marker says ("duration-index-complete"): every file that stayed as it was has its row.
\* It does not hold where a file has two names.
IndexSeeded ==
  duration.marker => \A p \in IndexPath \ touched : duration.rows[p] = contentAt[p]
=============================================================================

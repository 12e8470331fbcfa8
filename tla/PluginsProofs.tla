--------------------------- MODULE PluginsProofs ---------------------------
(***************************************************************************)
(* Proofs about five plugins of ranger.  DurationIndex: for any number of  *)
(* rangers, paths and contents, of changed files and of faults.  Hooks:    *)
(* for any plugins, executed any number of times in any order.             *)
(* ProbeCache: for any processes, threads, files and versions.             *)
(* HistoryNavi: for any places and any length of the history.  VdIndex:    *)
(* whatever other programs do to the tree, and within the resolution of an *)
(* mtime or not, a lookup shows what is in every directory it had to cover.*)
(***************************************************************************)
EXTENDS DurationIndex, Hooks, ProbeCache, HistoryNavi, VdIndex, FiniteSetTheorems, TLAPS

----------------------------------------------------------------------------
(***************************************************************************)
(* DurationIndex                                                           *)
(***************************************************************************)
Content == {0} \cup DOMAIN MsOf
Knowing == {"unknown", "yes", "no"}
Puts    == UNION {[S -> Content] : S \in SUBSET IndexPath}
Holding == [complete : Knowing, seen : Knowing, building : BOOLEAN, put : Puts, marked : BOOLEAN,
            flying : Puts, flyingMark : BOOLEAN, left : SUBSET IndexPath]

DurationTyped ==
  /\ contentAt \in [IndexPath -> Content]
  /\ probed \subseteq DOMAIN MsOf
  /\ duration \in [rows : [IndexPath -> Content], marker : BOOLEAN]
  /\ mine \in [Ranger -> Holding]
  /\ touched \subseteq IndexPath /\ unheard \subseteq IndexPath /\ shadowed \subseteq IndexPath
  /\ touches \in 0 .. MaxTouches /\ misfires \in 0 .. MaxMisfires

\* Of a file that stayed as it was no process stores, or means to store, anything else.
RowsAreOfFiles == \A p \in IndexPath \ Excused : duration.rows[p] \in {0, contentAt[p]}
PutsOf(r) ==
  /\ \A p \in DOMAIN mine[r].put \ Excused : mine[r].put[p] = contentAt[p]
  /\ \A p \in DOMAIN mine[r].flying \ Excused : mine[r].flying[p] = contentAt[p]
PutsAreOfFiles == \A r \in Ranger : PutsOf(r)

\* The row of the file is stored, or r holds it for a flush.
Held(r)          == DOMAIN mine[r].put \cup DOMAIN mine[r].flying
RowSettled(r, p) == duration.rows[p] = contentAt[p] \/ p \in Held(r)
FileStays(p)     == p \in IndexPath \ Excused /\ contentAt[p] # 0
\* What a build has not settled is still left to it; when it has put its marker, nothing is; and
\* when a thread's flush has taken the marker, it has taken all rows that are not stored.
BuildMissesNothing(r) ==
  mine[r].building =>
    /\ mine[r].complete = "no" /\ ~mine[r].marked /\ ~mine[r].flyingMark
    /\ \A p : FileStays(p) => p \in mine[r].left \/ RowSettled(r, p)
MarkIsBacked(r) ==
  /\ mine[r].marked => \A p : FileStays(p) => RowSettled(r, p)
  /\ mine[r].flyingMark =>
       \A p : FileStays(p) => duration.rows[p] = contentAt[p] \/ p \in DOMAIN mine[r].flying
BuildsMissNothing == \A r \in Ranger : BuildMissesNothing(r) /\ MarkIsBacked(r)

RowsAreStored == duration.marker => \A p \in IndexPath \ Excused : duration.rows[p] = contentAt[p]

DurationIInv ==
  /\ DurationTyped
  /\ RowsAreOfFiles /\ PutsAreOfFiles
  /\ BuildsMissNothing
  /\ RowsAreStored

\* Nothing put is a way to put.
LEMMA NothingPut == << >> \in Puts /\ DOMAIN << >> = {}
<1>1. << >> = [x \in {} |-> x]
  OBVIOUS
<1>2. << >> \in [{} -> Content]
  BY <1>1
<1> QED BY <1>2 DEF Puts

\* Puts, said without the union.
LEMMA PutsAre ==
  /\ \A f \in Puts : DOMAIN f \subseteq IndexPath /\ \A p \in DOMAIN f : f[p] \in Content
  /\ \A S \in SUBSET IndexPath : [S -> Content] \subseteq Puts
BY DEF Puts

\* n is m but for what is put and what is known about the marker.
SameBuild(m, n) ==
  /\ n \in Holding
  /\ n.building = m.building /\ n.marked = m.marked /\ n.left = m.left
  /\ n.flying = m.flying /\ n.flyingMark = m.flyingMark

\* n is m with at most one row put in addition, of p, and maybe it knows now about the marker.
PutAdds(m, n, p, c) ==
  /\ SameBuild(m, n)
  /\ DOMAIN m.put \subseteq DOMAIN n.put
  /\ \A q \in DOMAIN n.put : \/ q = p /\ n.put[q] = c
                             \/ q \in DOMAIN m.put /\ n.put[q] = m.put[q]
  /\ m.complete # "unknown" => n.complete = m.complete

\* _duration_index_put adds at most the row of the verdict; a build that must put it does.
LEMMA IndexPutAdds ==
  ASSUME NEW m \in Holding, NEW p \in IndexPath, NEW c \in DOMAIN MsOf, NEW force \in BOOLEAN
  PROVE  /\ PutAdds(m, IndexPut(m, p, c, force), p, c)
         /\ m.building /\ m.complete = "no" /\ force => p \in DOMAIN IndexPut(m, p, c, force).put
<1> DEFINE k == KnowsIndex(m)
<1>1. SameBuild(m, k) /\ k.put = m.put /\ (m.complete # "unknown" => k = m)
  BY DEF KnowsIndex, SeesMarker, Holding, Knowing, SameBuild
<1>m. k \in Holding
  BY <1>1 DEF SameBuild
<1> HIDE DEF k
<1> DEFINE new == [q \in DOMAIN k.put \cup {p} |-> IF q = p THEN c ELSE k.put[q]]
           n   == PutRow(k, p, c)
<1>2. new \in Puts
  <2>1. DOMAIN k.put \subseteq IndexPath /\ \A q \in DOMAIN k.put : k.put[q] \in Content
    BY <1>m, PutsAre DEF Holding
  <2>2. new \in [DOMAIN k.put \cup {p} -> Content]
    BY <2>1 DEF Content
  <2> QED BY <2>1, <2>2, PutsAre
<1>3. SameBuild(k, n) /\ n.put = new /\ n.complete = k.complete
  BY <1>m, <1>2 DEF PutRow, Holding, SameBuild
<1>4. DOMAIN new = DOMAIN k.put \cup {p} /\ \A q \in DOMAIN new : new[q] = IF q = p THEN c ELSE k.put[q]
  OBVIOUS
<1> HIDE DEF new, n
<1>5. IndexPut(m, p, c, force) = IF (k.complete = "no" /\ ~k.building) \/ (k.complete = "yes" /\ ~force)
                                 THEN k ELSE n
  BY DEF IndexPut, k, n
<1>6. CASE (k.complete = "no" /\ ~k.building) \/ (k.complete = "yes" /\ ~force)
  BY <1>1, <1>5, <1>6 DEF PutAdds, SameBuild
<1>7. CASE ~((k.complete = "no" /\ ~k.building) \/ (k.complete = "yes" /\ ~force))
  <2>1. IndexPut(m, p, c, force) = n
    BY <1>5, <1>7
  <2>2. SameBuild(m, n) /\ (m.complete # "unknown" => n.complete = m.complete)
    BY <1>1, <1>3 DEF SameBuild
  <2>3. /\ DOMAIN n.put = DOMAIN m.put \cup {p}
        /\ \A q \in DOMAIN n.put : n.put[q] = IF q = p THEN c ELSE m.put[q]
    BY <1>1, <1>3, <1>4
  <2>4. PutAdds(m, n, p, c)
    BY <2>2, <2>3 DEF PutAdds
  <2> QED BY <2>1, <2>3, <2>4
<1> QED BY <1>6, <1>7

\* PutRows puts what there is now at some paths, and nothing else.
LEMMA PutRowsAre ==
  ASSUME NEW m \in Holding, NEW ps \in SUBSET IndexPath, contentAt \in [IndexPath -> Content]
  PROVE  LET n == PutRows(m, ps) IN
         /\ SameBuild(m, n) /\ n.complete = m.complete
         /\ DOMAIN n.put = DOMAIN m.put \cup ps
         /\ \A p \in DOMAIN n.put : n.put[p] = IF p \in ps THEN contentAt[p] ELSE m.put[p]
<1> DEFINE new == [p \in DOMAIN m.put \cup ps |-> IF p \in ps THEN contentAt[p] ELSE m.put[p]]
           n   == PutRows(m, ps)
<1>1. DOMAIN m.put \subseteq IndexPath /\ \A p \in DOMAIN m.put : m.put[p] \in Content
  BY PutsAre DEF Holding
<1>2. new \in [DOMAIN m.put \cup ps -> Content]
  BY <1>1
<1>3. new \in Puts
  BY <1>1, <1>2, PutsAre
<1>4. /\ DOMAIN new = DOMAIN m.put \cup ps
      /\ \A p \in DOMAIN new : new[p] = IF p \in ps THEN contentAt[p] ELSE m.put[p]
  OBVIOUS
<1>5. n = [m EXCEPT !.put = new]
  BY DEF PutRows
<1> HIDE DEF new, n
<1>6. SameBuild(m, n) /\ n.complete = m.complete /\ n.put = new
  BY <1>3, <1>5 DEF Holding, SameBuild
<1> QED BY <1>4, <1>6 DEF n

\* Rows that could not be written are put again unless something newer is.
LEMMA GivenBack ==
  ASSUME NEW old \in Puts, NEW new \in Puts
  PROVE  LET both == WithNewer(old, new) IN
         /\ both \in Puts /\ DOMAIN both = DOMAIN old \cup DOMAIN new
         /\ \A p \in DOMAIN both : both[p] = IF p \in DOMAIN new THEN new[p] ELSE old[p]
<1> DEFINE S == DOMAIN old \cup DOMAIN new
           h == [p \in S |-> IF p \in DOMAIN new THEN new[p] ELSE old[p]]
<1>1. WithNewer(old, new) = h
  BY DEF WithNewer
<1>2. /\ DOMAIN old \subseteq IndexPath /\ DOMAIN new \subseteq IndexPath
      /\ (\A p \in DOMAIN old : old[p] \in Content) /\ \A p \in DOMAIN new : new[p] \in Content
  BY PutsAre
<1>3. h \in [S -> Content]
  BY <1>2
<1>4. h \in Puts
  BY <1>2, <1>3, PutsAre
<1>5. DOMAIN h = S /\ \A p \in S : h[p] = IF p \in DOMAIN new THEN new[p] ELSE old[p]
  OBVIOUS
<1> HIDE DEF h
<1> QED BY <1>1, <1>4, <1>5

\* The transaction of a flush stores contents and keeps the other rows.
LEMMA WrittenIs ==
  ASSUME NEW put \in Puts, NEW mark \in BOOLEAN,
         duration \in [rows : [IndexPath -> Content], marker : BOOLEAN]
  PROVE  /\ Written(put, mark) \in [rows : [IndexPath -> Content], marker : BOOLEAN]
         /\ Written(put, mark).marker = (duration.marker \/ mark)
         /\ \A p \in IndexPath : Written(put, mark).rows[p] = IF p \in DOMAIN put THEN put[p]
                                                              ELSE duration.rows[p]
<1>1. \A p \in DOMAIN put : put[p] \in Content
  BY PutsAre
<1> QED BY <1>1 DEF Written

----------------------------------------------------------------------------
\* A step of r that is fine: it keeps what the invariant says of r and of the table, and excuses
\* no less than before.
RestKept(r) ==
  /\ mine' = [mine EXCEPT ![r] = mine'[r]] /\ contentAt' = contentAt
  /\ touched' = touched /\ touches' = touches
FineTypes(r) ==
  /\ mine'[r] \in Holding /\ probed' \subseteq DOMAIN MsOf
  /\ duration' \in [rows : [IndexPath -> Content], marker : BOOLEAN]
  /\ unheard' \subseteq IndexPath /\ shadowed' \subseteq IndexPath
  /\ misfires' \in 0 .. MaxMisfires
FineRows ==
  /\ unheard \subseteq unheard' /\ shadowed \subseteq shadowed'
  /\ \A p \in IndexPath \ Excused' : duration'.rows[p] \in {duration.rows[p], contentAt[p]}
  /\ duration'.marker =>
       duration.marker \/ \A p \in IndexPath \ Excused' : duration'.rows[p] = contentAt[p]
Fine(r) ==
  /\ RestKept(r) /\ FineTypes(r) /\ FineRows
  /\ PutsOf(r)' /\ BuildMissesNothing(r)' /\ MarkIsBacked(r)'

\* A fine step keeps the invariant: what the others hold stays settled.
LEMMA FineKeeps ==
  ASSUME DurationIInv, NEW r \in Ranger, Fine(r)
  PROVE  DurationIInv'
<1>1. DurationTyped'
  <2>1. mine' \in [Ranger -> Holding]
    <3> DEFINE n == mine'[r]
    <3>1. mine' = [mine EXCEPT ![r] = n] /\ n \in Holding /\ mine \in [Ranger -> Holding]
      BY DEF Fine, RestKept, FineTypes, DurationIInv, DurationTyped
    <3> HIDE DEF n
    <3> QED BY <3>1
  <2> QED BY <2>1 DEF Fine, RestKept, FineTypes, DurationIInv, DurationTyped
<1>2. Excused \subseteq Excused' /\ contentAt' = contentAt
  BY DEF Fine, RestKept, FineRows, Excused
<1>3. \A p \in IndexPath \ Excused' : /\ p \in IndexPath \ Excused
                                      /\ duration'.rows[p] \in {duration.rows[p], contentAt[p]}
  BY <1>2 DEF Fine, FineRows
<1>4. \A s \in Ranger : s = r \/ mine'[s] = mine[s]
  <2> DEFINE n == mine'[r]
  <2>1. mine' = [mine EXCEPT ![r] = n] /\ mine \in [Ranger -> Holding]
    BY DEF Fine, RestKept, DurationIInv, DurationTyped
  <2> HIDE DEF n
  <2> QED BY <2>1
<1>5. RowsAreOfFiles'
  BY <1>2, <1>3 DEF DurationIInv, RowsAreOfFiles
<1>6. PutsAreOfFiles'
  <2> SUFFICES ASSUME NEW s \in Ranger PROVE PutsOf(s)'
    BY DEF PutsAreOfFiles
  <2>1. CASE s = r
    BY <2>1 DEF Fine
  <2>2. CASE mine'[s] = mine[s]
    BY <1>2, <2>2 DEF DurationIInv, PutsAreOfFiles, PutsOf
  <2> QED BY <1>4, <2>1, <2>2
<1>7. BuildsMissNothing'
  <2> SUFFICES ASSUME NEW s \in Ranger PROVE BuildMissesNothing(s)' /\ MarkIsBacked(s)'
    BY DEF BuildsMissNothing
  <2>1. CASE s = r
    BY <2>1 DEF Fine
  <2>2. CASE mine'[s] = mine[s]
    <3>1. BuildMissesNothing(s) /\ MarkIsBacked(s)
      BY DEF DurationIInv, BuildsMissNothing
    <3>2. \A p : FileStays(p)' => /\ FileStays(p) /\ contentAt'[p] = contentAt[p]
                                  /\ duration'.rows[p] \in {duration.rows[p], contentAt[p]}
      BY <1>2, <1>3 DEF FileStays
    <3>3. \A p : FileStays(p)' /\ RowSettled(s, p) => RowSettled(s, p)'
      BY <2>2, <3>2 DEF RowSettled, Held
    <3>4. BuildMissesNothing(s)'
      BY <2>2, <3>1, <3>2, <3>3 DEF BuildMissesNothing
    <3>5. MarkIsBacked(s)'
      BY <2>2, <3>1, <3>2, <3>3 DEF MarkIsBacked
    <3> QED BY <3>4, <3>5
  <2> QED BY <1>4, <2>1, <2>2
<1>8. RowsAreStored'
  <2>1. CASE duration.marker
    BY <1>2, <1>3, <2>1 DEF DurationIInv, RowsAreStored
  <2>2. CASE ~duration.marker
    BY <1>2, <2>2 DEF Fine, FineRows, RowsAreStored
  <2> QED BY <2>1, <2>2
<1> QED BY <1>1, <1>5, <1>6, <1>7, <1>8 DEF DurationIInv

\* What r is to put may grow while nothing is written.
LEMMA PutGrows ==
  ASSUME DurationIInv, NEW r \in Ranger, NEW n, mine' = [mine EXCEPT ![r] = n],
         SameBuild(mine[r], n), mine[r].building => n.complete = mine[r].complete,
         DOMAIN mine[r].put \subseteq DOMAIN n.put,
         \A p \in DOMAIN n.put :
           n.put[p] = contentAt[p] \/ (p \in DOMAIN mine[r].put /\ n.put[p] = mine[r].put[p]),
         probed' \subseteq DOMAIN MsOf,
         UNCHANGED <<contentAt, duration, touched, unheard, shadowed, touches, misfires>>
  PROVE  Fine(r)
<1>0. mine'[r] = n /\ PutsOf(r) /\ BuildMissesNothing(r) /\ MarkIsBacked(r)
  BY DEF DurationIInv, DurationTyped, PutsAreOfFiles, BuildsMissNothing
<1>1. RestKept(r) /\ FineTypes(r) /\ FineRows
  BY <1>0 DEF DurationIInv, DurationTyped, RestKept, FineTypes, FineRows, SameBuild
<1>2. Excused' = Excused
  BY DEF Excused
<1>3. PutsOf(r)'
  BY <1>0, <1>2 DEF PutsOf, SameBuild
<1>4. \A p : FileStays(p)' => FileStays(p) /\ (RowSettled(r, p) => RowSettled(r, p)')
  BY <1>0, <1>2 DEF FileStays, RowSettled, Held, SameBuild
<1>5. BuildMissesNothing(r)' /\ MarkIsBacked(r)'
  BY <1>0, <1>4 DEF BuildMissesNothing, MarkIsBacked, SameBuild
<1> QED BY <1>1, <1>3, <1>5 DEF Fine

\* A build begins where nobody has put the marker, and is left everything.
LEMMA BuildFine == ASSUME DurationIInv, NEW r \in Ranger, Build(r) PROVE Fine(r)
<1> DEFINE m     == mine[r]
           sees  == SeesMarker(m)
           told  == [m EXCEPT !.complete = sees, !.seen = sees]
           begun == [m EXCEPT !.complete = sees, !.seen = sees, !.building = TRUE,
                              !.left = {p \in IndexPath : contentAt[p] # 0}]
<1>m. m \in Holding /\ PutsOf(r) /\ BuildMissesNothing(r) /\ MarkIsBacked(r)
  BY DEF DurationIInv, DurationTyped, PutsAreOfFiles, BuildsMissNothing
<1>1. sees \in Knowing
  BY <1>m DEF SeesMarker, Holding, Knowing
<1>2. SameBuild(m, told) /\ told.put = m.put
  BY <1>m, <1>1 DEF Holding, SameBuild
<1>3. /\ begun \in Holding /\ begun.put = m.put /\ begun.flying = m.flying /\ begun.complete = sees
      /\ begun.marked = m.marked /\ begun.flyingMark = m.flyingMark
      /\ begun.left = {p \in IndexPath : contentAt[p] # 0}
  BY <1>m, <1>1 DEF Holding
<1>4. UNCHANGED <<contentAt, probed, duration, touched, unheard, shadowed, touches, misfires>>
  BY DEF Build
<1>5. CASE sees = "yes"
  <2>1. mine' = [mine EXCEPT ![r] = told] /\ ~m.building
    BY <1>5 DEF Build
  <2> HIDE DEF told
  <2> QED BY <1>2, <1>4, <2>1, PutGrows DEF DurationIInv, DurationTyped
<1>6. CASE sees # "yes"
  <2>1. mine' = [mine EXCEPT ![r] = begun]
    BY <1>6 DEF Build
  <2>2. sees = "no" /\ m.marked = FALSE /\ m.flyingMark = FALSE
    BY <1>m, <1>1, <1>6 DEF SeesMarker, Holding, Knowing
  <2> HIDE DEF begun, sees
  <2>3. mine'[r] = begun
    BY <2>1 DEF DurationIInv, DurationTyped
  <2>4. RestKept(r) /\ FineTypes(r) /\ FineRows /\ Excused' = Excused
    BY <1>3, <1>4, <2>1, <2>3 DEF DurationIInv, DurationTyped, RestKept, FineTypes, FineRows, Excused
  <2>5. PutsOf(r)'
    BY <1>m, <1>3, <1>4, <2>3, <2>4 DEF PutsOf
  <2>6. BuildMissesNothing(r)' /\ MarkIsBacked(r)'
    BY <1>3, <1>4, <2>2, <2>3, <2>4 DEF BuildMissesNothing, MarkIsBacked, FileStays
  <2> QED BY <2>4, <2>5, <2>6 DEF Fine
<1> QED BY <1>5, <1>6

\* What is known of r when a step of it begins.
LEMMA HoldsNow ==
  ASSUME DurationIInv, NEW r \in Ranger
  PROVE  /\ mine[r] \in Holding /\ mine \in [Ranger -> Holding]
         /\ PutsOf(r) /\ BuildMissesNothing(r) /\ MarkIsBacked(r)
         /\ duration \in [rows : [IndexPath -> Content], marker : BOOLEAN]
         /\ contentAt \in [IndexPath -> Content]
BY DEF DurationIInv, DurationTyped, PutsAreOfFiles, BuildsMissNothing

\* The actions of one ranger.
RangerStep(r) ==
  \/ Build(r) \/ PutMarker(r) \/ FlushIndex(r) \/ TakeRows(r) \/ RowsLand(r) \/ KillRanger(r)
  \/ \E p \in IndexPath : Glance(r, p) \/ Resolve(r, p)
  \/ \E ps \in SUBSET IndexPath : ResolveByWorker(r, ps)
  \/ \E c \in DOMAIN MsOf : Ask(r, MsOf[c])

\* Any lookup, in a thread also while the index is built.
LEMMA GlanceFine ==
  ASSUME DurationIInv, NEW r \in Ranger, NEW p \in IndexPath, Glance(r, p) PROVE Fine(r)
<1>1. PICK hit \in Verdicts(contentAt[p]) :
        mine' = [mine EXCEPT ![r] = IndexPut(@, p, contentAt[p], ~hit)]
  BY DEF Glance
<1> DEFINE n == IndexPut(mine[r], p, contentAt[p], ~hit)
<1>2. contentAt[p] \in DOMAIN MsOf /\ (~hit) \in BOOLEAN
  BY HoldsNow DEF Glance, Content, Verdicts
<1>3. PutAdds(mine[r], n, p, contentAt[p])
  BY <1>2, HoldsNow, IndexPutAdds
<1>4. /\ probed' \subseteq DOMAIN MsOf
      /\ UNCHANGED <<contentAt, duration, touched, unheard, shadowed, touches, misfires>>
  BY <1>2 DEF Glance, DurationIInv, DurationTyped
<1>5. mine' = [mine EXCEPT ![r] = n]
  BY <1>1
<1> HIDE DEF n
<1>6. mine[r].building => n.complete = mine[r].complete
  BY <1>3, HoldsNow DEF PutAdds, BuildMissesNothing
<1> QED BY <1>3, <1>4, <1>5, <1>6, PutGrows DEF PutAdds

\* A question puts what there is now at every path it finds in the table.
LEMMA AskFine ==
  ASSUME DurationIInv, NEW r \in Ranger, NEW c \in DOMAIN MsOf, Ask(r, MsOf[c]) PROVE Fine(r)
<1> DEFINE ps == Candidates(MsOf[c])  n == PutRows(mine[r], ps)
<1>1. ps \in SUBSET IndexPath
  BY DEF Candidates
<1>2. /\ mine' = [mine EXCEPT ![r] = n]
      /\ UNCHANGED <<contentAt, duration, touched, unheard, shadowed, touches, misfires>>
  BY DEF Ask
<1>3. probed' \subseteq DOMAIN MsOf
  BY <1>1, HoldsNow DEF Ask, Content, DurationIInv, DurationTyped
<1> HIDE DEF ps
<1>4. /\ SameBuild(mine[r], n) /\ n.complete = mine[r].complete
      /\ DOMAIN n.put = DOMAIN mine[r].put \cup ps
      /\ \A q \in DOMAIN n.put : n.put[q] = IF q \in ps THEN contentAt[q] ELSE mine[r].put[q]
  BY <1>1, HoldsNow, PutRowsAre
<1> HIDE DEF n
<1> QED BY <1>2, <1>3, <1>4, PutGrows

\* Nothing is left to a build that puts its marker.
LEMMA MarkerFine == ASSUME DurationIInv, NEW r \in Ranger, PutMarker(r) PROVE Fine(r)
<1> DEFINE n == [mine[r] EXCEPT !.marked = TRUE, !.building = FALSE, !.complete = "yes", !.seen = "yes"]
<1>1. /\ mine' = [mine EXCEPT ![r] = n] /\ mine[r].building /\ mine[r].left = {}
      /\ UNCHANGED <<contentAt, probed, duration, touched, unheard, shadowed, touches, misfires>>
  BY DEF PutMarker
<1>2. /\ n \in Holding /\ n.put = mine[r].put /\ n.flying = mine[r].flying
      /\ n.flyingMark = mine[r].flyingMark /\ n.building = FALSE
  BY HoldsNow DEF Holding, Knowing
<1> HIDE DEF n
<1>3. mine'[r] = n
  BY <1>1, HoldsNow
<1>4. RestKept(r) /\ FineTypes(r) /\ FineRows /\ Excused' = Excused
  BY <1>1, <1>2, <1>3 DEF DurationIInv, DurationTyped, RestKept, FineTypes, FineRows, Excused
<1>5. PutsOf(r)'
  BY <1>1, <1>2, <1>3, <1>4, HoldsNow DEF PutsOf
<1>6. BuildMissesNothing(r)'
  BY <1>2, <1>3 DEF BuildMissesNothing
<1>7. MarkIsBacked(r)'
  <2>1. \A p : FileStays(p)' => FileStays(p) /\ (RowSettled(r, p) => RowSettled(r, p)')
    BY <1>1, <1>2, <1>3, <1>4 DEF FileStays, RowSettled, Held
  <2>2. ~mine'[r].flyingMark /\ \A p : FileStays(p) => RowSettled(r, p)
    BY <1>1, <1>2, <1>3, HoldsNow DEF BuildMissesNothing
  <2> QED BY <2>1, <2>2 DEF MarkIsBacked
<1> QED BY <1>4, <1>5, <1>6, <1>7 DEF Fine

\* A ranger that is killed holds nothing.
LEMMA KillFine == ASSUME DurationIInv, NEW r \in Ranger, KillRanger(r) PROVE Fine(r)
<1>1. /\ Blank \in Holding /\ DOMAIN Blank.put = {} /\ DOMAIN Blank.flying = {}
      /\ ~Blank.building /\ ~Blank.marked /\ ~Blank.flyingMark
  BY NothingPut DEF Blank, Holding, Knowing
<1>2. /\ mine' = [mine EXCEPT ![r] = Blank] /\ misfires' = misfires + 1 /\ misfires < MaxMisfires
      /\ UNCHANGED <<contentAt, probed, duration, touched, unheard, shadowed, touches>>
  BY DEF KillRanger, Misfires
<1>3. mine'[r] = Blank
  BY <1>2, HoldsNow
<1>4. RestKept(r) /\ FineTypes(r) /\ FineRows
  BY <1>1, <1>2, <1>3, DurationAssumption
  DEF DurationAssumption, DurationIInv, DurationTyped, RestKept, FineTypes, FineRows, Excused
<1>5. PutsOf(r)' /\ BuildMissesNothing(r)' /\ MarkIsBacked(r)'
  BY <1>1, <1>3 DEF PutsOf, BuildMissesNothing, MarkIsBacked
<1> QED BY <1>4, <1>5 DEF Fine

\* This process resolves a path left to its build: it puts the row.
LEMMA ResolveFine ==
  ASSUME DurationIInv, NEW r \in Ranger, NEW p \in IndexPath, Resolve(r, p) PROVE Fine(r)
<1> DEFINE c == contentAt[p]  done == [mine[r] EXCEPT !.left = @ \ {p}]
           n == IF c = 0 THEN done ELSE IndexPut(done, p, c, TRUE)
<1>1. /\ done \in Holding /\ done.put = mine[r].put /\ done.left = mine[r].left \ {p}
      /\ done.building = mine[r].building /\ done.marked = mine[r].marked
      /\ done.complete = mine[r].complete /\ done.flying = mine[r].flying
      /\ done.flyingMark = mine[r].flyingMark
  BY HoldsNow DEF Holding
<1>2. /\ mine[r].building /\ mine[r].complete = "no" /\ ~mine[r].marked /\ ~mine[r].flyingMark
      /\ \A q : FileStays(q) => q \in mine[r].left \/ RowSettled(r, q)
  BY HoldsNow DEF Resolve, BuildMissesNothing
<1>3. /\ mine' = [mine EXCEPT ![r] = n]
      /\ UNCHANGED <<contentAt, duration, touched, unheard, shadowed, touches, misfires>>
  BY DEF Resolve
<1>4. probed' \subseteq DOMAIN MsOf
  BY HoldsNow DEF Resolve, Content, DurationIInv, DurationTyped
<1>c. c = contentAt[p] /\ (c # 0 => c \in DOMAIN MsOf)
  BY HoldsNow DEF Content
<1> HIDE DEF c, done
<1>5. /\ PutAdds(done, n, p, c) /\ n.complete = "no"
      /\ c # 0 => p \in DOMAIN n.put
  <2>1. CASE c = 0
    <3>1. n = done
      BY <2>1
    <3> HIDE DEF n
    <3> QED BY <1>1, <1>2, <2>1, <3>1 DEF PutAdds, SameBuild
  <2>2. CASE c # 0
    <3>1. n = IndexPut(done, p, c, TRUE)
      BY <2>2
    <3> HIDE DEF n
    <3>2. PutAdds(done, n, p, c) /\ p \in DOMAIN n.put
      BY <1>1, <1>2, <1>c, <2>2, <3>1, IndexPutAdds
    <3> QED BY <1>1, <1>2, <3>2 DEF PutAdds
  <2> QED BY <2>1, <2>2
<1> HIDE DEF n
<1>6. /\ mine'[r] = n /\ n \in Holding /\ n.building /\ ~n.marked /\ ~n.flyingMark
      /\ n.left = mine[r].left \ {p} /\ n.flying = mine[r].flying
      /\ DOMAIN mine[r].put \subseteq DOMAIN n.put
      /\ \A q \in DOMAIN n.put : n.put[q] = contentAt[q]
                                 \/ (q \in DOMAIN mine[r].put /\ n.put[q] = mine[r].put[q])
  BY <1>1, <1>2, <1>3, <1>5, <1>c, HoldsNow DEF PutAdds, SameBuild
<1>7. RestKept(r) /\ FineTypes(r) /\ FineRows /\ Excused' = Excused
  BY <1>3, <1>4, <1>6 DEF DurationIInv, DurationTyped, RestKept, FineTypes, FineRows, Excused
<1>8. PutsOf(r)'
  BY <1>3, <1>6, <1>7, HoldsNow DEF PutsOf
<1>9. BuildMissesNothing(r)'
  <2>1. \A q : FileStays(q)' => FileStays(q) /\ (RowSettled(r, q) => RowSettled(r, q)')
    BY <1>3, <1>6, <1>7 DEF FileStays, RowSettled, Held
  <2>2. FileStays(p)' => RowSettled(r, p)'
    BY <1>3, <1>5, <1>6, <1>c DEF FileStays, RowSettled, Held
  <2> QED BY <1>2, <1>5, <1>6, <2>1, <2>2 DEF BuildMissesNothing
<1>10. MarkIsBacked(r)'
  BY <1>6 DEF MarkIsBacked
<1> QED BY <1>7, <1>8, <1>9, <1>10 DEF Fine

\* A worker resolves its chunk: every path of it is written or put, or excused.
LEMMA WorkerFine ==
  ASSUME DurationIInv, NEW r \in Ranger, NEW ps \in SUBSET IndexPath, ResolveByWorker(r, ps)
  PROVE  Fine(r)
<1>1. PICK firsts \in SUBSET {p \in ps : contentAt[p] # 0},
           lasts \in SUBSET {p \in ps : contentAt[p] # 0} :
        LET own == {p \in ps \ firsts : contentAt[p] # 0} IN
        /\ mine' = [mine EXCEPT ![r] = [PutRows(@, lasts) EXCEPT !.left = mine[r].left \ ps]]
        /\ shadowed' = shadowed \cup (firsts \ lasts)
        /\ \/ /\ duration' = [duration EXCEPT !.rows = [p \in IndexPath |->
                                IF p \in own THEN contentAt[p] ELSE duration.rows[p]]]
              /\ UNCHANGED <<unheard, misfires>>
           \/ Misfires /\ unheard' = unheard \cup (own \ lasts) /\ UNCHANGED duration
  BY DEF ResolveByWorker
<1> DEFINE own == {p \in ps \ firsts : contentAt[p] # 0}
           put == PutRows(mine[r], lasts)
           n   == [put EXCEPT !.left = mine[r].left \ ps]
<1>2. own \subseteq IndexPath /\ lasts \in SUBSET IndexPath /\ firsts \subseteq IndexPath
  OBVIOUS
<1>o. \A p \in ps : contentAt[p] # 0 => p \in firsts \/ p \in own
  OBVIOUS
<1>3. /\ SameBuild(mine[r], put) /\ put.complete = mine[r].complete
      /\ DOMAIN put.put = DOMAIN mine[r].put \cup lasts
      /\ \A q \in DOMAIN put.put : put.put[q] = IF q \in lasts THEN contentAt[q] ELSE mine[r].put[q]
  BY <1>2, HoldsNow, PutRowsAre
<1>4. mine' = [mine EXCEPT ![r] = n] /\ shadowed' = shadowed \cup (firsts \ lasts)
  BY <1>1
<1>5. \/ /\ duration' = [duration EXCEPT !.rows = [p \in IndexPath |->
                           IF p \in own THEN contentAt[p] ELSE duration.rows[p]]]
         /\ UNCHANGED <<unheard, misfires>>
      \/ Misfires /\ unheard' = unheard \cup (own \ lasts) /\ UNCHANGED duration
  BY <1>1
<1>6. /\ mine[r].building /\ mine[r].complete = "no" /\ ~mine[r].marked /\ ~mine[r].flyingMark
      /\ \A q : FileStays(q) => q \in mine[r].left \/ RowSettled(r, q)
  BY HoldsNow DEF ResolveByWorker, BuildMissesNothing
<1>7. UNCHANGED <<contentAt, touched, touches>>
  BY DEF ResolveByWorker
<1>8. probed' \subseteq DOMAIN MsOf
  BY HoldsNow DEF ResolveByWorker, Content, DurationIInv, DurationTyped
<1> HIDE DEF own, put
<1>9. /\ n \in Holding /\ n.put = put.put /\ n.left = mine[r].left \ ps
      /\ n.building /\ n.complete = "no" /\ ~n.marked /\ ~n.flyingMark /\ n.flying = mine[r].flying
  BY <1>3, <1>6, HoldsNow DEF SameBuild, Holding
<1> HIDE DEF n
<1>10. mine'[r] = n
  BY <1>4, HoldsNow
<1>11. /\ duration' \in [rows : [IndexPath -> Content], marker : BOOLEAN]
       /\ duration'.marker = duration.marker
       /\ \A p \in IndexPath : duration'.rows[p] \in {duration.rows[p], contentAt[p]}
       /\ \A p \in own : duration'.rows[p] = contentAt[p] \/ p \in lasts \/ p \in unheard'
       /\ unheard \subseteq unheard' /\ unheard' \subseteq IndexPath /\ misfires' \in 0 .. MaxMisfires
  <2>1. CASE /\ duration' = [duration EXCEPT !.rows = [p \in IndexPath |->
                               IF p \in own THEN contentAt[p] ELSE duration.rows[p]]]
             /\ UNCHANGED <<unheard, misfires>>
    <3> DEFINE rows == [p \in IndexPath |-> IF p \in own THEN contentAt[p] ELSE duration.rows[p]]
    <3>1. rows \in [IndexPath -> Content]
      BY HoldsNow
    <3>2. \A p \in IndexPath : rows[p] = IF p \in own THEN contentAt[p] ELSE duration.rows[p]
      OBVIOUS
    <3>3. duration' = [duration EXCEPT !.rows = rows]
      BY <2>1
    <3> HIDE DEF rows
    <3>4. duration'.rows = rows /\ duration'.marker = duration.marker
          /\ duration' \in [rows : [IndexPath -> Content], marker : BOOLEAN]
      BY <3>1, <3>3, HoldsNow
    <3> QED BY <1>2, <2>1, <3>2, <3>4 DEF DurationIInv, DurationTyped
  <2>2. CASE Misfires /\ unheard' = unheard \cup (own \ lasts) /\ UNCHANGED duration
    <3>1. misfires' \in 0 .. MaxMisfires
      BY <2>2, DurationAssumption DEF DurationAssumption, Misfires, DurationIInv, DurationTyped
    <3> QED BY <1>2, <2>2, <3>1, HoldsNow DEF DurationIInv, DurationTyped
  <2> QED BY <1>5, <2>1, <2>2
<1>12. RestKept(r) /\ FineTypes(r) /\ FineRows /\ Excused \subseteq Excused'
  BY <1>2, <1>4, <1>7, <1>8, <1>9, <1>10, <1>11
  DEF DurationIInv, DurationTyped, RestKept, FineTypes, FineRows, Excused
<1>13. PutsOf(r)'
  BY <1>3, <1>7, <1>9, <1>10, <1>12, HoldsNow DEF PutsOf
<1>14. BuildMissesNothing(r)'
  <2>1. \A q : FileStays(q)' => FileStays(q) /\ (RowSettled(r, q) => RowSettled(r, q)')
    BY <1>3, <1>7, <1>9, <1>10, <1>11, <1>12 DEF FileStays, RowSettled, Held
  <2>2. \A q \in ps : FileStays(q)' => RowSettled(r, q)'
    <3> SUFFICES ASSUME NEW q \in ps, FileStays(q)' PROVE RowSettled(r, q)'
      OBVIOUS
    <3>1. q \notin unheard' /\ q \notin shadowed' /\ contentAt[q] # 0
      BY <1>7 DEF FileStays, Excused
    <3>2. q \in lasts \/ (q \in own /\ duration'.rows[q] = contentAt[q])
      BY <1>o, <1>4, <1>11, <3>1
    <3> QED BY <1>3, <1>7, <1>9, <1>10, <3>2 DEF RowSettled, Held
  <2> QED BY <1>6, <1>9, <1>10, <2>1, <2>2 DEF BuildMissesNothing
<1>15. MarkIsBacked(r)'
  BY <1>9, <1>10 DEF MarkIsBacked
<1> QED BY <1>12, <1>13, <1>14, <1>15 DEF Fine

\* Rows of files that stayed are written as they are; with the marker, all that were put.
LEMMA FlushFine == ASSUME DurationIInv, NEW r \in Ranger, FlushIndex(r) PROVE Fine(r)
<1> DEFINE m == mine[r]
           n == [m EXCEPT !.put = << >>, !.marked = FALSE]
<1>1. UNCHANGED <<contentAt, probed, touched, shadowed, touches>>
  BY DEF FlushIndex
<1>2. CASE Misfires /\ UNCHANGED <<duration, mine, unheard>>
  <2>1. RestKept(r) /\ FineTypes(r) /\ FineRows /\ Excused' = Excused
    BY <1>1, <1>2, DurationAssumption
    DEF DurationAssumption, Misfires, DurationIInv, DurationTyped, RestKept, FineTypes, FineRows, Excused
  <2>2. PutsOf(r)'
    BY <1>1, <1>2, <2>1, HoldsNow DEF PutsOf
  <2>3. BuildMissesNothing(r)' /\ MarkIsBacked(r)'
    BY <1>1, <1>2, <2>1, HoldsNow
    DEF BuildMissesNothing, MarkIsBacked, FileStays, RowSettled, Held
  <2> QED BY <2>1, <2>2, <2>3 DEF Fine
<1>3. CASE /\ duration' = Written(m.put, m.marked)
           /\ mine' = [mine EXCEPT ![r].put = << >>, ![r].marked = FALSE]
           /\ unheard' = IF m.marked THEN unheard \cup DOMAIN m.flying ELSE unheard
           /\ UNCHANGED misfires
  <2>1. mine' = [mine EXCEPT ![r] = n]
    BY <1>3
  <2>m. m \in Holding /\ m.put \in Puts /\ m.marked \in BOOLEAN /\ DOMAIN m.flying \subseteq IndexPath
    BY HoldsNow, PutsAre DEF Holding
  <2>2. /\ n \in Holding /\ DOMAIN n.put = {} /\ n.marked = FALSE /\ n.flying = m.flying
        /\ n.flyingMark = m.flyingMark /\ n.left = m.left /\ n.building = m.building
        /\ n.complete = m.complete
    BY <2>m, NothingPut DEF Holding
  <2> HIDE DEF n
  <2>3. mine'[r] = n
    BY <2>1, HoldsNow
  <2>4. /\ duration' \in [rows : [IndexPath -> Content], marker : BOOLEAN]
        /\ duration'.marker = (duration.marker \/ m.marked)
        /\ \A p \in IndexPath : duration'.rows[p] = IF p \in DOMAIN m.put THEN m.put[p]
                                                     ELSE duration.rows[p]
    BY <1>3, <2>m, WrittenIs DEF DurationIInv, DurationTyped
  <2>5. /\ unheard \subseteq unheard' /\ unheard' \subseteq IndexPath /\ Excused \subseteq Excused'
        /\ m.marked => DOMAIN m.flying \subseteq Excused'
    BY <1>1, <1>3, <2>m DEF DurationIInv, DurationTyped, Excused
  <2>6. \A p \in IndexPath \ Excused' : /\ duration'.rows[p] \in {duration.rows[p], contentAt[p]}
                                        /\ p \in DOMAIN m.put => duration'.rows[p] = contentAt[p]
    BY <2>4, <2>5, HoldsNow DEF PutsOf
  <2>7. \A p : FileStays(p)' => FileStays(p) /\ (RowSettled(r, p) => RowSettled(r, p)')
    BY <1>1, <2>2, <2>3, <2>5, <2>6 DEF FileStays, RowSettled, Held
  <2>8. ASSUME m.marked PROVE \A p \in IndexPath \ Excused' : duration'.rows[p] = contentAt[p]
    <3> SUFFICES ASSUME NEW p \in IndexPath \ Excused' PROVE duration'.rows[p] = contentAt[p]
      OBVIOUS
    <3>1. CASE contentAt[p] = 0
      BY <2>5, <2>6, <3>1 DEF DurationIInv, RowsAreOfFiles
    <3>2. CASE contentAt[p] # 0
      <4>1. RowSettled(r, p) /\ p \notin DOMAIN m.flying
        BY <2>5, <2>8, <3>2, HoldsNow DEF MarkIsBacked, FileStays
      <4> QED BY <2>6, <4>1 DEF RowSettled, Held
    <3> QED BY <3>1, <3>2
  <2>9. RestKept(r) /\ FineTypes(r) /\ FineRows
    BY <1>1, <1>3, <2>1, <2>2, <2>3, <2>4, <2>5, <2>6, <2>8
    DEF DurationIInv, DurationTyped, RestKept, FineTypes, FineRows
  <2>10. PutsOf(r)'
    BY <1>1, <2>2, <2>3, <2>5, HoldsNow DEF PutsOf
  <2>11. BuildMissesNothing(r)'
    BY <2>2, <2>3, <2>7, HoldsNow DEF BuildMissesNothing
  <2>12. MarkIsBacked(r)'
    BY <1>1, <2>2, <2>3, <2>6, <2>7, HoldsNow DEF MarkIsBacked, FileStays
  <2> QED BY <2>9, <2>10, <2>11, <2>12 DEF Fine
<1> QED BY <1>2, <1>3 DEF FlushIndex

\* A thread's flush takes all that was put; nothing else is under way.
LEMMA TakeFine == ASSUME DurationIInv, NEW r \in Ranger, TakeRows(r) PROVE Fine(r)
<1> DEFINE m == mine[r]
           n == [m EXCEPT !.put = << >>, !.marked = FALSE, !.flying = m.put, !.flyingMark = m.marked]
<1>1. /\ mine' = [mine EXCEPT ![r] = n] /\ DOMAIN m.flying = {} /\ ~m.flyingMark
      /\ UNCHANGED <<contentAt, probed, duration, touched, unheard, shadowed, touches, misfires>>
  BY DEF TakeRows
<1>2. /\ n \in Holding /\ DOMAIN n.put = {} /\ n.marked = FALSE /\ n.flying = m.put
      /\ n.flyingMark = m.marked /\ n.left = m.left /\ n.building = m.building
      /\ n.complete = m.complete
  BY HoldsNow, NothingPut DEF Holding
<1> HIDE DEF n
<1>3. mine'[r] = n
  BY <1>1, HoldsNow
<1>4. RestKept(r) /\ FineTypes(r) /\ FineRows /\ Excused' = Excused
  BY <1>1, <1>2, <1>3 DEF DurationIInv, DurationTyped, RestKept, FineTypes, FineRows, Excused
<1>5. PutsOf(r)'
  BY <1>1, <1>2, <1>3, <1>4, HoldsNow DEF PutsOf
<1>6. \A p : FileStays(p)' => FileStays(p) /\ (RowSettled(r, p) => RowSettled(r, p)')
  BY <1>1, <1>2, <1>3, <1>4 DEF FileStays, RowSettled, Held
<1>7. BuildMissesNothing(r)'
  BY <1>2, <1>3, <1>6, HoldsNow DEF BuildMissesNothing
<1>8. MarkIsBacked(r)'
  BY <1>1, <1>2, <1>3, <1>6, HoldsNow DEF MarkIsBacked, RowSettled, Held
<1> QED BY <1>4, <1>5, <1>7, <1>8 DEF Fine

\* It writes them, or gives them back.
LEMMA LandFine == ASSUME DurationIInv, NEW r \in Ranger, RowsLand(r) PROVE Fine(r)
<1> DEFINE m == mine[r]
<1>m. /\ m \in Holding /\ m.put \in Puts /\ m.flying \in Puts /\ m.flyingMark \in BOOLEAN
      /\ m.marked \in BOOLEAN
  BY HoldsNow DEF Holding
<1>1. UNCHANGED <<contentAt, probed, touched, unheard, shadowed, touches>> /\ Excused' = Excused
  BY DEF RowsLand, Excused
<1>2. CASE /\ duration' = Written(m.flying, m.flyingMark)
           /\ mine' = [mine EXCEPT ![r].flying = << >>, ![r].flyingMark = FALSE]
           /\ UNCHANGED misfires
  <2> DEFINE n == [m EXCEPT !.flying = << >>, !.flyingMark = FALSE]
  <2>1. mine' = [mine EXCEPT ![r] = n]
    BY <1>2
  <2>2. /\ n \in Holding /\ DOMAIN n.flying = {} /\ n.flyingMark = FALSE /\ n.put = m.put
        /\ n.marked = m.marked /\ n.left = m.left /\ n.building = m.building
        /\ n.complete = m.complete
    BY <1>m, NothingPut DEF Holding
  <2> HIDE DEF n
  <2>3. mine'[r] = n
    BY <2>1, HoldsNow
  <2>4. /\ duration' \in [rows : [IndexPath -> Content], marker : BOOLEAN]
        /\ duration'.marker = (duration.marker \/ m.flyingMark)
        /\ \A p \in IndexPath : duration'.rows[p] = IF p \in DOMAIN m.flying THEN m.flying[p]
                                                     ELSE duration.rows[p]
    BY <1>2, <1>m, WrittenIs DEF DurationIInv, DurationTyped
  <2>5. \A p \in IndexPath \ Excused : /\ duration'.rows[p] \in {duration.rows[p], contentAt[p]}
                                       /\ p \in DOMAIN m.flying => duration'.rows[p] = contentAt[p]
    BY <2>4, HoldsNow DEF PutsOf
  <2>6. \A p : FileStays(p)' => FileStays(p) /\ (RowSettled(r, p) => RowSettled(r, p)')
    BY <1>1, <2>2, <2>3, <2>5 DEF FileStays, RowSettled, Held
  <2>7. ASSUME m.flyingMark PROVE \A p \in IndexPath \ Excused : duration'.rows[p] = contentAt[p]
    <3> SUFFICES ASSUME NEW p \in IndexPath \ Excused PROVE duration'.rows[p] = contentAt[p]
      OBVIOUS
    <3>1. CASE contentAt[p] = 0
      BY <2>5, <3>1 DEF DurationIInv, RowsAreOfFiles
    <3>2. CASE contentAt[p] # 0
      <4>1. duration.rows[p] = contentAt[p] \/ p \in DOMAIN m.flying
        BY <2>7, <3>2, HoldsNow DEF MarkIsBacked, FileStays
      <4> QED BY <2>5, <4>1
    <3> QED BY <3>1, <3>2
  <2>8. RestKept(r) /\ FineTypes(r) /\ FineRows
    BY <1>1, <1>2, <2>1, <2>2, <2>3, <2>4, <2>5, <2>7
    DEF DurationIInv, DurationTyped, RestKept, FineTypes, FineRows
  <2>9. PutsOf(r)'
    BY <1>1, <2>2, <2>3, HoldsNow DEF PutsOf
  <2>10. BuildMissesNothing(r)'
    BY <2>2, <2>3, <2>6, HoldsNow DEF BuildMissesNothing
  <2>11. MarkIsBacked(r)'
    BY <2>2, <2>3, <2>6, HoldsNow DEF MarkIsBacked
  <2> QED BY <2>8, <2>9, <2>10, <2>11 DEF Fine
<1>3. CASE /\ Misfires /\ UNCHANGED duration
           /\ mine' = [mine EXCEPT ![r].flying = << >>, ![r].flyingMark = FALSE,
                                   ![r].marked = @ \/ m.flyingMark,
                                   ![r].put = WithNewer(m.flying, m.put)]
  <2> DEFINE both == WithNewer(m.flying, m.put)
             mark == m.marked \/ m.flyingMark
             n == [m EXCEPT !.flying = << >>, !.flyingMark = FALSE, !.marked = mark, !.put = both]
  <2>1. mine' = [mine EXCEPT ![r] = n]
    BY <1>3
  <2>2. /\ both \in Puts /\ DOMAIN both = DOMAIN m.put \cup DOMAIN m.flying
        /\ \A p \in DOMAIN both : both[p] = IF p \in DOMAIN m.put THEN m.put[p] ELSE m.flying[p]
    <3>1. \A f, g \in Puts :
            LET b == WithNewer(g, f) IN
            /\ b \in Puts /\ DOMAIN b = DOMAIN g \cup DOMAIN f
            /\ \A p \in DOMAIN b : b[p] = IF p \in DOMAIN f THEN f[p] ELSE g[p]
      BY GivenBack, Zenon
    <3>2. PICK f \in Puts, g \in Puts : f = m.put /\ g = m.flying
      BY <1>m
    <3>3. LET b == WithNewer(g, f) IN
          /\ b \in Puts /\ DOMAIN b = DOMAIN g \cup DOMAIN f
          /\ \A p \in DOMAIN b : b[p] = IF p \in DOMAIN f THEN f[p] ELSE g[p]
      BY <3>1, Zenon
    <3>4. both = WithNewer(g, f)
      BY <3>2, Zenon
    <3> HIDE DEF both
    <3> QED BY <3>2, <3>3, <3>4
  <2>3. mark \in BOOLEAN /\ (mark <=> m.marked \/ m.flyingMark)
    OBVIOUS
  <2> HIDE DEF both, mark
  <2>4. /\ n \in Holding /\ DOMAIN n.flying = {} /\ n.flyingMark = FALSE /\ n.put = both
        /\ n.marked = mark /\ n.left = m.left /\ n.building = m.building
        /\ n.complete = m.complete
    BY <1>m, <2>2, <2>3, NothingPut DEF Holding
  <2> HIDE DEF n
  <2>5. mine'[r] = n
    BY <2>1, HoldsNow
  <2>c. misfires < MaxMisfires /\ misfires' = misfires + 1 /\ UNCHANGED duration
    BY <1>3 DEF Misfires
  <2>6. RestKept(r) /\ FineTypes(r) /\ FineRows
    BY <1>1, <2>c, <2>1, <2>4, <2>5, DurationAssumption
    DEF DurationAssumption, DurationIInv, DurationTyped, RestKept, FineTypes, FineRows
  <2>7. PutsOf(r)'
    BY <1>1, <2>2, <2>4, <2>5, HoldsNow DEF PutsOf
  <2>8. \A p : FileStays(p)' => FileStays(p) /\ (RowSettled(r, p) => RowSettled(r, p)')
    BY <1>1, <2>c, <2>2, <2>4, <2>5 DEF FileStays, RowSettled, Held
  <2>9. BuildMissesNothing(r)'
    BY <2>3, <2>4, <2>5, <2>8, HoldsNow DEF BuildMissesNothing
  <2>10. MarkIsBacked(r)'
    BY <2>3, <2>4, <2>5, <2>8, HoldsNow DEF MarkIsBacked, RowSettled, Held
  <2> QED BY <2>6, <2>7, <2>9, <2>10 DEF Fine
<1> QED BY <1>2, <1>3 DEF RowsLand

\* A file that changes is excused; of the others nothing changes.
LEMMA TouchKeeps ==
  ASSUME DurationIInv, NEW p \in IndexPath, NEW c \in Content, TouchFile(p, c)
  PROVE  DurationIInv'
<1>1. DurationTyped'
  BY DurationAssumption DEF DurationAssumption, TouchFile, DurationIInv, DurationTyped
<1>2. /\ Excused \subseteq Excused'
      /\ \A q \in IndexPath \ Excused' : q \in IndexPath \ Excused /\ contentAt'[q] = contentAt[q]
      /\ UNCHANGED <<duration, mine>>
  BY DEF TouchFile, Excused, DurationIInv, DurationTyped
<1>3. RowsAreOfFiles' /\ RowsAreStored'
  BY <1>2 DEF DurationIInv, RowsAreOfFiles, RowsAreStored
<1>4. PutsAreOfFiles'
  <2>1. \A r \in Ranger : DOMAIN mine[r].put \subseteq IndexPath /\ DOMAIN mine[r].flying \subseteq IndexPath
    BY HoldsNow, PutsAre DEF Holding
  <2> QED BY <1>2, <2>1 DEF DurationIInv, PutsAreOfFiles, PutsOf
<1>5. BuildsMissNothing'
  <2> SUFFICES ASSUME NEW r \in Ranger PROVE BuildMissesNothing(r)' /\ MarkIsBacked(r)'
    BY DEF BuildsMissNothing
  <2>1. \A q : FileStays(q)' => /\ FileStays(q) /\ contentAt'[q] = contentAt[q]
                                /\ RowSettled(r, q) => RowSettled(r, q)'
    BY <1>2 DEF FileStays, RowSettled, Held
  <2> QED BY <1>2, <2>1, HoldsNow DEF BuildMissesNothing, MarkIsBacked
<1> QED BY <1>1, <1>3, <1>4, <1>5 DEF DurationIInv

\* Initially nothing is stored or put.
LEMMA DurationInitInv == ASSUME DurationInit PROVE DurationIInv
<1>1. /\ Blank \in Holding /\ DOMAIN Blank.put = {} /\ DOMAIN Blank.flying = {}
      /\ ~Blank.building /\ ~Blank.marked /\ ~Blank.flyingMark
  BY NothingPut DEF Blank, Holding, Knowing
<1>2. DurationTyped
  BY <1>1, DurationAssumption DEF DurationInit, DurationTyped, DurationAssumption, Content
<1>3. RowsAreOfFiles /\ PutsAreOfFiles /\ BuildsMissNothing /\ RowsAreStored
  BY <1>1 DEF DurationInit, RowsAreOfFiles, PutsAreOfFiles, PutsOf, BuildsMissNothing,
              BuildMissesNothing, MarkIsBacked, RowsAreStored
<1> QED BY <1>2, <1>3 DEF DurationIInv

\* A file with its row is a candidate for its duration, and found.
LEMMA StoredIsFound ==
  ASSUME RowsAreStored PROVE IndexIsComplete
BY DEF RowsAreStored, IndexIsComplete, Matches, Candidates

\* The index of durations: however the builds of any number of rangers overlap, are interrupted by
\* the flushes of threads, fail to write or are killed, once the marker of completeness is stored
\* every file has its row, and :cd_samedur finds all files near a duration, except for those that
\* changed, those whose row a worker or a thread failed to write in time, and those that lost it
\* to another name of their content.
THEOREM IndexComplete == DurationSpec => []IndexIsComplete
<1>1. DurationInit => DurationIInv
  BY DurationInitInv
<1>2. DurationIInv /\ [DurationNext]_durationVars => DurationIInv'
  <2>1. ASSUME DurationIInv, DurationNext PROVE DurationIInv'
    <3>1. ASSUME NEW r \in Ranger, RangerStep(r) PROVE DurationIInv'
      <4>1. Fine(r)
        BY <2>1, <3>1, BuildFine, MarkerFine, FlushFine, TakeFine, LandFine, KillFine, GlanceFine,
           ResolveFine, WorkerFine, AskFine DEF RangerStep
      <4> QED BY <2>1, <4>1, FineKeeps
    <3>2. ASSUME NEW p \in IndexPath, NEW c \in Content, TouchFile(p, c) PROVE DurationIInv'
      BY <2>1, <3>2, TouchKeeps
    <3> QED BY <2>1, <3>1, <3>2 DEF DurationNext, RangerStep, Content
  <2>2. DurationIInv /\ UNCHANGED durationVars => DurationIInv'
    BY DEF durationVars, DurationIInv, DurationTyped, RowsAreOfFiles, PutsAreOfFiles, PutsOf,
           BuildsMissNothing, BuildMissesNothing, MarkIsBacked, RowSettled, Held, FileStays,
           Excused, RowsAreStored
  <2> QED BY <2>1, <2>2
<1>3. DurationIInv => IndexIsComplete
  BY StoredIsFound DEF DurationIInv
<1> QED BY <1>1, <1>2, <1>3, PTL DEF DurationSpec

----------------------------------------------------------------------------
(***************************************************************************)
(* Hooks                                                                   *)
(***************************************************************************)
Kinds == {"tick", "cd", "guard"}
Layers == Seq(Int)

\* t ends as s: IsSuffix, element by element.
EndsAs(s, t) == Len(s) <= Len(t) /\ \A i \in 1 .. Len(s) : t[Len(t) - Len(s) + i] = s[i]

LEMMA SuffixIs ==
  ASSUME NEW s \in Layers, NEW t \in Layers
  PROVE  IsSuffix(s, t) <=> EndsAs(s, t)
<1>1. /\ Reverse(s) \in Seq(Int) /\ Len(Reverse(s)) = Len(s)
      /\ \A i \in 1 .. Len(s) : Reverse(s)[i] = s[Len(s) - i + 1]
  BY DEF Reverse, Layers
<1>2. /\ Reverse(t) \in Seq(Int) /\ Len(Reverse(t)) = Len(t)
      /\ \A i \in 1 .. Len(t) : Reverse(t)[i] = t[Len(t) - i + 1]
  BY DEF Reverse, Layers
<1>3. Len(s) \in Nat /\ Len(t) \in Nat
  BY DEF Layers
<1> DEFINE a == Reverse(s)  b == Reverse(t)
<1>4. IsSuffix(s, t) <=> Len(s) <= Len(t) /\ SubSeq(a, 1, Len(s)) = SubSeq(b, 1, Len(s))
  BY <1>1, <1>2 DEF IsSuffix, IsPrefix
<1>5. SUFFICES ASSUME Len(s) <= Len(t)
               PROVE  SubSeq(a, 1, Len(s)) = SubSeq(b, 1, Len(s)) <=>
                      \A i \in 1 .. Len(s) : t[Len(t) - Len(s) + i] = s[i]
  BY <1>4 DEF EndsAs
<1>6. SubSeq(a, 1, Len(s)) = SubSeq(b, 1, Len(s)) <=> \A i \in 1 .. Len(s) : a[i] = b[i]
  <2>1. /\ SubSeq(a, 1, Len(s)) \in Seq(Int) /\ Len(SubSeq(a, 1, Len(s))) = Len(s)
        /\ \A i \in 1 .. Len(s) : SubSeq(a, 1, Len(s))[i] = a[i]
    BY <1>1, <1>3
  <2>2. /\ SubSeq(b, 1, Len(s)) \in Seq(Int) /\ Len(SubSeq(b, 1, Len(s))) = Len(s)
        /\ \A i \in 1 .. Len(s) : SubSeq(b, 1, Len(s))[i] = b[i]
    BY <1>2, <1>3, <1>5
  <2> HIDE DEF a, b
  <2> DEFINE x == SubSeq(a, 1, Len(s))  y == SubSeq(b, 1, Len(s))
  <2>3. x \in Seq(Int) /\ y \in Seq(Int) /\ Len(x) = Len(y)
    BY <2>1, <2>2
  <2> HIDE DEF x, y
  <2>4. (\A i \in 1 .. Len(x) : x[i] = y[i]) => x = y
    BY <2>3
  <2> QED BY <2>1, <2>2, <2>4 DEF x, y
<1>7. (\A i \in 1 .. Len(s) : a[i] = b[i]) <=>
      \A i \in 1 .. Len(s) : t[Len(t) - Len(s) + i] = s[i]
  <2>1. \A i \in 1 .. Len(s) : a[i] = s[Len(s) - i + 1] /\ b[i] = t[Len(t) - i + 1]
    <3>1. \A i \in 1 .. Len(s) : i \in 1 .. Len(t)
      BY <1>3, <1>5
    <3> QED BY <1>1, <1>2, <3>1
  <2> HIDE DEF a, b
  <2>2. ASSUME \A i \in 1 .. Len(s) : a[i] = b[i], NEW i \in 1 .. Len(s)
        PROVE  t[Len(t) - Len(s) + i] = s[i]
    <3>1. Len(s) - i + 1 \in 1 .. Len(s) /\ Len(s) - (Len(s) - i + 1) + 1 = i
          /\ Len(t) - (Len(s) - i + 1) + 1 = Len(t) - Len(s) + i
      BY <1>3
    <3> QED BY <2>1, <2>2, <3>1
  <2>3. ASSUME \A i \in 1 .. Len(s) : t[Len(t) - Len(s) + i] = s[i], NEW i \in 1 .. Len(s)
        PROVE  a[i] = b[i]
    <3>1. Len(s) - i + 1 \in 1 .. Len(s) /\ Len(t) - Len(s) + (Len(s) - i + 1) = Len(t) - i + 1
      BY <1>3
    <3> QED BY <2>1, <2>3, <3>1
  <2> QED BY <2>2, <2>3
<1> QED BY <1>6, <1>7

\* One more wrapper around a method.
LEMMA Wrapped ==
  ASSUME NEW s \in Layers, NEW w \in Int
  PROVE  /\ <<w>> \o s \in Layers /\ Len(<<w>> \o s) = Len(s) + 1
         /\ (<<w>> \o s)[1] = w
         /\ \A i \in 1 .. Len(s) : (<<w>> \o s)[i + 1] = s[i]
         /\ \A i \in 2 .. Len(s) + 1 : (<<w>> \o s)[i] = s[i - 1]
BY DEF Layers

\* A method as it can be: ranger's own innermost, and no wrapper twice.
Sound(s) == s \in Layers /\ s # << >> /\ s[Len(s)] = Native /\ IsInjective(s)
Has(s, w) == \E i \in 1 .. Len(s) : s[i] = w

\* A wrapper that is not there yet leaves a method sound; what it ended as it still ends as.
LEMMA WrappedIsSound ==
  ASSUME NEW s, Sound(s), NEW w \in Int, ~Has(s, w)
  PROVE  /\ Sound(<<w>> \o s)
         /\ \A v : Has(<<w>> \o s, v) <=> v = w \/ Has(s, v)
         /\ EndsAs(<<w>> \o s, <<w>> \o s)
         /\ \A t \in Layers : EndsAs(t, s) => EndsAs(t, <<w>> \o s)
<1> DEFINE n == <<w>> \o s
<1>0. s \in Layers /\ Len(s) \in Nat \ {0}
  BY DEF Sound, Layers
<1>1. /\ n \in Layers /\ Len(n) = Len(s) + 1 /\ n[1] = w
      /\ \A i \in 1 .. Len(s) : n[i + 1] = s[i]
      /\ \A i \in 2 .. Len(s) + 1 : n[i] = s[i - 1]
  BY <1>0, Wrapped
<1> HIDE DEF n
<1>2. n # << >> /\ n[Len(n)] = Native
  <2>1. n[Len(n)] = s[Len(s)] /\ Len(n) # 0
    BY <1>0, <1>1
  <2> QED BY <2>1 DEF Sound
<1>3. IsInjective(n)
  <2>1. DOMAIN n = 1 .. Len(s) + 1 /\ DOMAIN s = 1 .. Len(s)
    BY <1>0, <1>1 DEF Layers
  <2>2. ASSUME NEW i \in 1 .. Len(s) + 1, NEW j \in 1 .. Len(s) + 1, n[i] = n[j] PROVE i = j
    <3>1. CASE i = 1 /\ j = 1
      BY <3>1
    <3>2. CASE i = 1 /\ j # 1
      <4>1. j \in 2 .. Len(s) + 1 /\ j - 1 \in 1 .. Len(s)
        BY <1>0, <3>2
      <4> QED BY <1>1, <2>2, <3>2, <4>1 DEF Has
    <3>3. CASE i # 1 /\ j = 1
      <4>1. i \in 2 .. Len(s) + 1 /\ i - 1 \in 1 .. Len(s)
        BY <1>0, <3>3
      <4> QED BY <1>1, <2>2, <3>3, <4>1 DEF Has
    <3>4. CASE i # 1 /\ j # 1
      <4>1. /\ i \in 2 .. Len(s) + 1 /\ i - 1 \in 1 .. Len(s)
            /\ j \in 2 .. Len(s) + 1 /\ j - 1 \in 1 .. Len(s)
        BY <1>0, <3>4
      <4>2. s[i - 1] = s[j - 1]
        BY <1>1, <2>2, <4>1
      <4>3. i - 1 = j - 1
        BY <2>1, <4>1, <4>2 DEF Sound, IsInjective
      <4> QED BY <4>3
    <3> QED BY <3>1, <3>2, <3>3, <3>4
  <2> QED BY <2>1, <2>2 DEF IsInjective
<1>4. \A v : Has(n, v) <=> v = w \/ Has(s, v)
  <2>1. ASSUME NEW v, Has(n, v) PROVE v = w \/ Has(s, v)
    <3>1. PICK i \in 1 .. Len(s) + 1 : n[i] = v
      BY <1>1, <2>1 DEF Has
    <3>2. i = 1 \/ (i \in 2 .. Len(s) + 1 /\ i - 1 \in 1 .. Len(s))
      BY <1>0
    <3> QED BY <1>1, <3>1, <3>2 DEF Has
  <2>2. Has(n, w)
    <3>1. 1 \in 1 .. Len(n)
      BY <1>0, <1>1
    <3> QED BY <1>1, <3>1 DEF Has
  <2>3. ASSUME NEW v, Has(s, v) PROVE Has(n, v)
    <3>1. PICK i \in 1 .. Len(s) : s[i] = v
      BY <2>3 DEF Has
    <3>2. i + 1 \in 1 .. Len(n)
      BY <1>0, <1>1
    <3> QED BY <1>1, <3>1, <3>2 DEF Has
  <2> QED BY <2>1, <2>2, <2>3
<1>5. EndsAs(n, n)
  BY <1>0, <1>1 DEF EndsAs
<1>6. ASSUME NEW t \in Layers, EndsAs(t, s) PROVE EndsAs(t, n)
  <2>1. Len(t) \in Nat /\ Len(t) <= Len(s)
    BY <1>6 DEF EndsAs, Layers
  <2>2. ASSUME NEW i \in 1 .. Len(t) PROVE n[Len(n) - Len(t) + i] = t[i]
    <3>1. /\ Len(s) - Len(t) + i \in 1 .. Len(s)
          /\ Len(n) - Len(t) + i = (Len(s) - Len(t) + i) + 1
      BY <1>0, <1>1, <2>1
    <3> QED BY <1>1, <1>6, <3>1 DEF EndsAs
  <2> QED BY <1>0, <1>1, <2>1, <2>2 DEF EndsAs
<1> QED BY <1>1, <1>2, <1>3, <1>4, <1>5, <1>6 DEF Sound, n

\* A method that ends as our wrapper of something has our wrapper.
LEMMA OursIsThere ==
  ASSUME NEW o \in Layers, NEW t \in Layers, EndsAs(<<Ours>> \o o, t)
  PROVE  Has(t, Ours)
<1>1. /\ Len(<<Ours>> \o o) = Len(o) + 1 /\ (<<Ours>> \o o)[1] = Ours
      /\ Len(o) \in Nat /\ Len(t) \in Nat
  BY Wrapped DEF Ours, Layers
<1>2. /\ Len(t) - (Len(o) + 1) + 1 \in 1 .. Len(t)
      /\ t[Len(t) - (Len(o) + 1) + 1] = (<<Ours>> \o o)[1]
  BY <1>1 DEF EndsAs
<1> QED BY <1>1, <1>2 DEF Has

\* A registry: a key has one place.
Entry == [key : Plugin, fn : Nat]
Registry(cs) == cs \in Seq(Entry) /\ \A i, j \in 1 .. Len(cs) : cs[i].key = cs[j].key => i = j
Lists(cs, c) == \E i \in 1 .. Len(cs) : cs[i] = c

\* dict[key] = fn keeps the registry one, lists the new callback and all of other keys.
LEMMA RegisteredIs ==
  ASSUME NEW cs, Registry(cs), NEW key \in Plugin, NEW fn \in Nat
  PROVE  /\ Registry(Registered(cs, key, fn))
         /\ Lists(Registered(cs, key, fn), [key |-> key, fn |-> fn])
         /\ \A c \in Entry : Lists(cs, c) /\ c.key # key => Lists(Registered(cs, key, fn), c)
<1> DEFINE n == Registered(cs, key, fn)  e == [key |-> key, fn |-> fn]
<1>0. cs \in Seq(Entry) /\ Len(cs) \in Nat /\ DOMAIN cs = 1 .. Len(cs)
      /\ \A i \in 1 .. Len(cs) : cs[i] \in Entry
  BY DEF Registry
<1>e. e \in Entry /\ e.key = key /\ e.fn = fn
  BY DEF Entry
<1>1. CASE \E i \in DOMAIN cs : cs[i].key = key
  <2>1. n = [i \in 1 .. Len(cs) |-> IF cs[i].key = key THEN [cs[i] EXCEPT !.fn = fn] ELSE cs[i]]
    BY <1>0, <1>1 DEF Registered
  <2>2. \A i \in 1 .. Len(cs) : cs[i].key = key => [cs[i] EXCEPT !.fn = fn] = e
    BY <1>0, <1>e DEF Entry
  <2>3. /\ \A i \in 1 .. Len(cs) : n[i] = IF cs[i].key = key THEN e ELSE cs[i]
        /\ n \in Seq(Entry) /\ Len(n) = Len(cs)
    BY <1>0, <1>e, <2>1, <2>2
  <2> HIDE DEF n, e
  <2>4. \A i \in 1 .. Len(cs) : n[i].key = cs[i].key
    BY <1>e, <2>3
  <2>5. Registry(n)
    BY <2>3, <2>4 DEF Registry
  <2>6. Lists(n, e)
    BY <1>0, <1>1, <2>3 DEF Lists
  <2>7. \A c \in Entry : Lists(cs, c) /\ c.key # key => Lists(n, c)
    BY <2>3 DEF Lists
  <2> QED BY <2>5, <2>6, <2>7 DEF n, e
<1>2. CASE ~ \E i \in DOMAIN cs : cs[i].key = key
  <2>1. n = Append(cs, e)
    BY <1>2 DEF Registered
  <2>2. /\ n \in Seq(Entry) /\ Len(n) = Len(cs) + 1
        /\ n[Len(cs) + 1] = e /\ \A i \in 1 .. Len(cs) : n[i] = cs[i]
    BY <1>0, <1>e, <2>1
  <2> HIDE DEF n, e
  <2>3. \A i \in 1 .. Len(n) : i \in 1 .. Len(cs) \/ i = Len(cs) + 1
    BY <1>0, <2>2
  <2>4. Registry(n)
    BY <1>0, <1>e, <1>2, <2>2, <2>3 DEF Registry
  <2>5. Lists(n, e)
    BY <1>0, <2>2 DEF Lists
  <2>6. \A c \in Entry : Lists(cs, c) /\ c.key # key => Lists(n, c)
    BY <1>0, <2>2 DEF Lists
  <2> QED BY <2>4, <2>5, <2>6 DEF n, e
<1> QED BY <1>1, <1>2

(***************************************************************************)
(* The inductive invariant.                                                *)
(***************************************************************************)
HooksTyped ==
  /\ methods \in [Methods -> Layers] /\ originals \in [Methods -> Layers]
  /\ callbacks \in [Kinds -> Seq(Entry)]
  /\ hooked \in BOOLEAN /\ fmKnown \in BOOLEAN /\ booted \in BOOLEAN
  /\ bindings \in {0, 1}
  /\ latest \in [Plugin -> [load : Nat, early : BOOLEAN]]
  /\ loadings \in Nat /\ wrappers \in Nat

\* Other plugins' wrappers are numbered as they come, so the next is new everywhere.  What patch
\* found is without our wrapper, and the method still ends as our wrapper of it; a method that
\* was never patched has no wrapper of ours, and hook_init has one once it is hooked.
MethodsAreSound ==
  \A m \in Methods :
    /\ Sound(methods[m]) /\ \A v \in Int : Has(methods[m], v) => v <= wrappers
    /\ originals[m] # Unpatched =>
         /\ Sound(originals[m]) /\ ~Has(originals[m], Ours)
         /\ EndsAs(<<Ours>> \o originals[m], methods[m])
    /\ originals[m] = Unpatched /\ (m = "hook_init" => ~hooked) => ~Has(methods[m], Ours)
HookInit ==
  /\ originals["hook_init"] = Unpatched
  /\ hooked => Has(methods["hook_init"], Ours)

\* What executing its file has left for a plugin.
Loaded(p) == latest[p].load > 0
CallbacksAreNewest ==
  /\ \A k \in Kinds : Registry(callbacks[k])
  /\ \A p \in Plugin : KindOf[p] # "paste" /\ Loaded(p) =>
       Lists(callbacks[KindOf[p]], [key |-> p, fn |-> latest[p].load])
PluginsAreBound ==
  \A p \in Plugin :
    /\ KindOf[p] = "tick" /\ Loaded(p) => originals["work"] # Unpatched
    /\ KindOf[p] = "cd" /\ Loaded(p) /\ fmKnown => bindings = 1
    /\ KindOf[p] = "cd" /\ latest[p].early => hooked
    /\ KindOf[p] = "cd" /\ latest[p].early /\ booted => bindings = 1

HooksIInv ==
  /\ HooksTyped
  /\ MethodsAreSound /\ HookInit
  /\ CallbacksAreNewest /\ PluginsAreBound

\* The invariant is strong enough.
LEMMA HooksEnough == ASSUME HooksIInv PROVE HooksRunOnce
<1> USE DEF HooksIInv
<1>1. ASSUME NEW m \in Methods
      PROVE  /\ IsInjective(methods[m]) /\ Last(methods[m]) = Native
             /\ originals[m] # Unpatched => IsSuffix(<<Ours>> \o originals[m], methods[m])
  <2>1. Sound(methods[m]) /\ methods[m] \in Layers /\ originals[m] \in Layers
    BY DEF MethodsAreSound, HooksTyped
  <2>2. <<Ours>> \o originals[m] \in Layers
    BY <2>1, Wrapped DEF Ours
  <2>3. originals[m] # Unpatched => IsSuffix(<<Ours>> \o originals[m], methods[m])
    BY <2>1, <2>2, SuffixIs DEF MethodsAreSound
  <2> QED BY <2>1, <2>3 DEF Sound, Last
<1>2. ASSUME NEW k \in DOMAIN callbacks PROVE IsInjective(callbacks[k])
  <2>1. Registry(callbacks[k]) /\ DOMAIN callbacks[k] = 1 .. Len(callbacks[k])
    BY DEF CallbacksAreNewest, HooksTyped
  <2> QED BY <2>1 DEF Registry, IsInjective
<1>3. ASSUME NEW p \in Plugin, KindOf[p] # "paste", latest[p].load > 0,
             KindOf[p] = "cd" => fmKnown \/ (booted /\ latest[p].early)
      PROVE  /\ Rounds(KindOf[p]) = 1
             /\ Entries(p) = {[key |-> p, fn |-> latest[p].load]}
  <2>0. KindOf[p] \in Kinds
    BY <1>3, HooksAssumption DEF HooksAssumption, Kinds
  <2>1. ASSUME KindOf[p] = "tick" PROVE Rounds(KindOf[p]) = 1
    <3>1. /\ EndsAs(<<Ours>> \o originals["work"], methods["work"])
          /\ originals["work"] \in Layers /\ Sound(methods["work"]) /\ methods["work"] \in Layers
      BY <1>3, <2>1 DEF PluginsAreBound, Loaded, MethodsAreSound, HooksTyped, Methods
    <3>2. Has(methods["work"], Ours)
      BY <3>1, OursIsThere
    <3>3. PICK i \in 1 .. Len(methods["work"]) : methods["work"][i] = Ours
      BY <3>2 DEF Has
    <3>4. {j \in DOMAIN methods["work"] : methods["work"][j] = Ours} = {i}
      BY <3>1, <3>3 DEF Sound, IsInjective, Layers
    <3>5. Cardinality({i}) = 1
      BY FS_Singleton
    <3>6. Rounds(KindOf[p]) = 1
      BY <2>1, <3>4, <3>5 DEF Rounds, Times
    <3> QED BY <3>6
  <2>2. ASSUME KindOf[p] = "cd" PROVE Rounds(KindOf[p]) = 1
    <3>1. bindings = 1
      BY <1>3, <2>2 DEF PluginsAreBound, Loaded
    <3> QED BY <2>2, <3>1 DEF Rounds
  <2>3. ASSUME KindOf[p] = "guard" PROVE Rounds(KindOf[p]) = 1
    BY <2>3 DEF Rounds
  <2>4. Rounds(KindOf[p]) = 1
    BY <2>0, <2>1, <2>2, <2>3 DEF Kinds
  <2>5. Entries(p) = {[key |-> p, fn |-> latest[p].load]}
    <3> DEFINE cs == callbacks[KindOf[p]]  e == [key |-> p, fn |-> latest[p].load]
    <3>1. Registry(cs) /\ Lists(cs, e) /\ e.key = p
      BY <1>3, <2>0 DEF CallbacksAreNewest, Loaded
    <3>2. ToSet(cs) = {cs[i] : i \in 1 .. Len(cs)}
      BY <3>1 DEF ToSet, Registry
    <3> HIDE DEF cs, e
    <3>3. {c \in ToSet(cs) : c.key = p} = {e}
      BY <3>1, <3>2 DEF Registry, Lists
    <3> QED BY <3>3 DEF Entries, cs, e
  <2> QED BY <2>4, <2>5
<1> QED BY <1>1, <1>2, <1>3 DEF HooksRunOnce

\* patch makes of a method that is sound, and of what it was first, our one wrapper of that.
LEMMA PatchStep ==
  ASSUME HooksIInv, NEW m \in Methods, m # "hook_init", Patch(m), wrappers' = wrappers,
         hooked' = hooked
  PROVE  /\ methods' \in [Methods -> Layers] /\ originals' \in [Methods -> Layers]
         /\ MethodsAreSound' /\ HookInit'
         /\ originals'[m] # Unpatched
         /\ \A o \in Methods : originals[o] # Unpatched => originals'[o] # Unpatched
<1> USE DEF HooksIInv, HooksTyped
<1> DEFINE o == Original(m)  n == <<Ours>> \o o
<1>0. /\ Sound(methods[m]) /\ \A v \in Int : Has(methods[m], v) => v <= wrappers
      /\ originals[m] # Unpatched =>
           /\ Sound(originals[m]) /\ ~Has(originals[m], Ours)
           /\ EndsAs(<<Ours>> \o originals[m], methods[m])
      /\ originals[m] = Unpatched => ~Has(methods[m], Ours)
  BY DEF MethodsAreSound
<1>1. Sound(o) /\ ~Has(o, Ours) /\ o \in Layers
  BY <1>0 DEF Original, Sound
<1>2. \A v \in Int : Has(o, v) => v <= wrappers
  <2>1. CASE originals[m] = Unpatched
    BY <1>0, <2>1 DEF Original
  <2>2. CASE originals[m] # Unpatched
    <3>1. /\ originals[m] \in Layers /\ methods[m] \in Layers /\ EndsAs(<<Ours>> \o originals[m], methods[m])
          /\ o = originals[m]
      BY <1>0, <2>2 DEF Original
    <3> DEFINE s == <<Ours>> \o originals[m]  t == methods[m]
    <3>2. /\ Len(s) = Len(originals[m]) + 1 /\ Len(originals[m]) \in Nat /\ Len(t) \in Nat
          /\ \A i \in 1 .. Len(originals[m]) : s[i + 1] = originals[m][i]
      BY <3>1, Wrapped DEF Ours, Layers
    <3> HIDE DEF s, t
    <3>3. Len(s) <= Len(t) /\ \A i \in 1 .. Len(s) : t[Len(t) - Len(s) + i] = s[i]
      BY <3>1 DEF EndsAs, s, t
    <3>4. ASSUME NEW v \in Int, Has(o, v) PROVE Has(t, v)
      <4>1. PICK i \in 1 .. Len(originals[m]) : originals[m][i] = v
        BY <3>1, <3>4 DEF Has
      <4>2. i + 1 \in 1 .. Len(s) /\ Len(t) - Len(s) + (i + 1) \in 1 .. Len(t)
        BY <3>2, <3>3
      <4>3. t[Len(t) - Len(s) + (i + 1)] = v
        BY <3>2, <3>3, <4>1, <4>2
      <4> QED BY <4>2, <4>3 DEF Has
    <3> QED BY <1>0, <3>4 DEF t
  <2> QED BY <2>1, <2>2
<1> HIDE DEF o
<1>3. /\ Sound(n) /\ n \in Layers /\ EndsAs(n, n)
      /\ \A v : Has(n, v) <=> v = Ours \/ Has(o, v)
  BY <1>1, WrappedIsSound DEF Ours, Sound
<1>4. \A v \in Int : Has(n, v) => v <= wrappers
  BY <1>2, <1>3 DEF Ours
<1> HIDE DEF n
<1>5. /\ methods' = [methods EXCEPT ![m] = n] /\ originals' = [originals EXCEPT ![m] = o]
  BY DEF Patch, n, o
<1>6. /\ methods' \in [Methods -> Layers] /\ originals' \in [Methods -> Layers]
      /\ \A x \in Methods : /\ methods'[x] = IF x = m THEN n ELSE methods[x]
                            /\ originals'[x] = IF x = m THEN o ELSE originals[x]
  BY <1>1, <1>3, <1>5
<1>7. o # Unpatched
  BY <1>1 DEF Sound, Unpatched
<1>8. MethodsAreSound'
  <2> SUFFICES ASSUME NEW x \in Methods
               PROVE /\ Sound(methods'[x]) /\ \A v \in Int : Has(methods'[x], v) => v <= wrappers'
                     /\ originals'[x] # Unpatched =>
                          /\ Sound(originals'[x]) /\ ~Has(originals'[x], Ours)
                          /\ EndsAs(<<Ours>> \o originals'[x], methods'[x])
                     /\ originals'[x] = Unpatched /\ (x = "hook_init" => ~hooked')
                          => ~Has(methods'[x], Ours)
    BY DEF MethodsAreSound, Unpatched
  <2>1. CASE x = m
    <3>1. methods'[x] = n /\ originals'[x] = o /\ n = <<Ours>> \o o
      BY <1>6, <2>1 DEF n
    <3> QED BY <1>1, <1>3, <1>4, <1>7, <3>1
  <2>2. CASE x # m
    <3>1. methods'[x] = methods[x] /\ originals'[x] = originals[x]
      BY <1>6, <2>2
    <3> QED BY <3>1 DEF MethodsAreSound
  <2> QED BY <2>1, <2>2
<1>9. HookInit'
  BY <1>6 DEF HookInit, Methods
<1> QED BY <1>6, <1>7, <1>8, <1>9

\* Executing the file of a plugin of the kind "cd" hooks hook_init once.
LEMMA HookCdStep ==
  ASSUME HooksIInv, HookCd, wrappers' = wrappers
  PROVE  /\ methods' \in [Methods -> Layers] /\ originals' = originals
         /\ MethodsAreSound' /\ HookInit' /\ hooked'
         /\ bindings' \in {0, 1} /\ bindings' >= bindings /\ (fmKnown => bindings' = 1)
<1> USE DEF HooksIInv, HooksTyped
<1>1. /\ hooked' /\ originals' = originals
      /\ bindings' \in {0, 1} /\ bindings' >= bindings /\ (fmKnown => bindings' = 1)
  BY DEF HookCd, BoundOnce
<1> DEFINE s == methods["hook_init"]  n == <<Ours>> \o s
<1>2. /\ Sound(s) /\ s \in Layers /\ \A v \in Int : Has(s, v) => v <= wrappers
      /\ ~hooked => ~Has(s, Ours)
  BY DEF MethodsAreSound, HookInit, Methods
<1>3. CASE hooked
  <2>1. methods' = methods
    BY <1>3 DEF HookCd
  <2>2. MethodsAreSound' /\ HookInit'
    BY <1>1, <1>3, <2>1 DEF MethodsAreSound, HookInit, Unpatched
  <2> QED BY <1>1, <2>1, <2>2
<1>4. CASE ~hooked
  <2>1. methods' = [methods EXCEPT !["hook_init"] = n]
    BY <1>4 DEF HookCd
  <2>2. Sound(n) /\ n \in Layers /\ \A v : Has(n, v) <=> v = Ours \/ Has(s, v)
    BY <1>2, <1>4, WrappedIsSound DEF Ours, Sound
  <2>3. \A v \in Int : Has(n, v) => v <= wrappers
    BY <1>2, <2>2 DEF Ours
  <2> HIDE DEF n, s
  <2>4. /\ methods' \in [Methods -> Layers]
        /\ \A x \in Methods : methods'[x] = IF x = "hook_init" THEN n ELSE methods[x]
    BY <2>1, <2>2
  <2>5. MethodsAreSound'
    <3> SUFFICES ASSUME NEW x \in Methods
                 PROVE /\ Sound(methods'[x]) /\ \A v \in Int : Has(methods'[x], v) => v <= wrappers'
                       /\ originals'[x] # Unpatched =>
                            /\ Sound(originals'[x]) /\ ~Has(originals'[x], Ours)
                            /\ EndsAs(<<Ours>> \o originals'[x], methods'[x])
                       /\ originals'[x] = Unpatched /\ (x = "hook_init" => ~hooked')
                            => ~Has(methods'[x], Ours)
      BY DEF MethodsAreSound, Unpatched
    <3>1. CASE x = "hook_init"
      <4>1. originals'[x] = Unpatched /\ methods'[x] = n
        BY <1>1, <2>4, <3>1 DEF HookInit
      <4> QED BY <1>1, <2>2, <2>3, <3>1, <4>1
    <3>2. CASE x # "hook_init"
      <4>1. methods'[x] = methods[x] /\ originals'[x] = originals[x]
        BY <1>1, <2>4, <3>2
      <4> QED BY <3>2, <4>1 DEF MethodsAreSound
    <3> QED BY <3>1, <3>2
  <2>6. HookInit'
    BY <1>1, <2>2, <2>4 DEF HookInit, Methods
  <2> QED BY <1>1, <2>4, <2>5, <2>6
<1> QED BY <1>3, <1>4

\* Another plugin's wrapper is one that is nowhere yet.
LEMMA ForeignStep ==
  ASSUME HooksIInv, NEW m \in Methods, Foreign(m)
  PROVE  methods' \in [Methods -> Layers] /\ MethodsAreSound' /\ HookInit'
<1> USE DEF HooksIInv, HooksTyped
<1> DEFINE w == wrappers + 1  s == methods[m]  n == <<w>> \o s
<1>1. /\ wrappers' = w /\ methods' = [methods EXCEPT ![m] = n]
      /\ originals' = originals /\ hooked' = hooked
  BY DEF Foreign
<1>2. /\ Sound(s) /\ s \in Layers /\ \A v \in Int : Has(s, v) => v <= wrappers
      /\ w \in Int /\ w > wrappers /\ w # Ours /\ ~Has(s, w)
  BY DEF MethodsAreSound, Ours
<1>3. /\ Sound(n) /\ n \in Layers /\ \A v : Has(n, v) <=> v = w \/ Has(s, v)
      /\ \A t \in Layers : EndsAs(t, s) => EndsAs(t, n)
  BY <1>2, WrappedIsSound DEF Sound
<1> HIDE DEF n
<1>4. ASSUME NEW v \in Int, Has(n, v) PROVE v <= wrappers'
  <2>1. v = w \/ Has(s, v)
    BY <1>3, <1>4
  <2>2. wrappers \in Nat /\ wrappers' = wrappers + 1 /\ (Has(s, v) => v <= wrappers)
    BY <1>1, <1>2
  <2> QED BY <2>1, <2>2
<1>5. /\ methods' \in [Methods -> Layers]
      /\ \A x \in Methods : methods'[x] = IF x = m THEN n ELSE methods[x]
  BY <1>1, <1>3
<1>6. MethodsAreSound'
  <2> SUFFICES ASSUME NEW x \in Methods
               PROVE /\ Sound(methods'[x]) /\ \A v \in Int : Has(methods'[x], v) => v <= wrappers'
                     /\ originals'[x] # Unpatched =>
                          /\ Sound(originals'[x]) /\ ~Has(originals'[x], Ours)
                          /\ EndsAs(<<Ours>> \o originals'[x], methods'[x])
                     /\ originals'[x] = Unpatched /\ (x = "hook_init" => ~hooked')
                          => ~Has(methods'[x], Ours)
    BY DEF MethodsAreSound, Unpatched
  <2>0. originals'[x] = originals[x] /\ originals[x] \in Layers
    BY <1>1
  <2>1. CASE x = m
    <3>1. methods'[x] = n
      BY <1>5, <2>1
    <3>2. <<Ours>> \o originals[x] \in Layers
      BY <2>0, Wrapped DEF Ours
    <3>3. originals[x] # Unpatched => EndsAs(<<Ours>> \o originals[x], n)
      BY <1>3, <2>1, <3>2 DEF MethodsAreSound
    <3> QED BY <1>1, <1>2, <1>3, <1>4, <2>0, <2>1, <3>1, <3>3 DEF MethodsAreSound
  <2>2. CASE x # m
    <3>1. methods'[x] = methods[x]
      BY <1>5, <2>2
    <3> QED BY <1>1, <1>2, <2>0, <3>1 DEF MethodsAreSound
  <2> QED BY <2>1, <2>2
<1>7. HookInit'
  BY <1>1, <1>3, <1>5 DEF HookInit, Methods
<1> QED BY <1>5, <1>6, <1>7

\* Executing a file registers its callback, the newest of its plugin, and keeps the others.
LEMMA LoadCallbacks ==
  ASSUME HooksIInv, NEW p \in Plugin, Load(p)
  PROVE  /\ callbacks' \in [Kinds -> Seq(Entry)]
         /\ latest' \in [Plugin -> [load : Nat, early : BOOLEAN]] /\ loadings' \in Nat
         /\ CallbacksAreNewest'
<1> USE DEF HooksIInv, HooksTyped
<1>0. KindOf[p] \in Kinds \cup {"paste"}
  BY HooksAssumption DEF HooksAssumption, Kinds
<1>1. /\ loadings' = loadings + 1 /\ loadings' \in Nat
      /\ latest' = [latest EXCEPT ![p] = [load |-> loadings', early |-> @.early \/ ~booted]]
  BY DEF Load
<1>2. latest' \in [Plugin -> [load : Nat, early : BOOLEAN]]
  BY <1>1
<1>3. \A q \in Plugin : latest'[q].load = IF q = p THEN loadings' ELSE latest[q].load
  BY <1>1
<1>4. CASE KindOf[p] = "paste"
  <2>1. callbacks' = callbacks
    BY <1>4 DEF Load
  <2>2. CallbacksAreNewest'
    BY <1>3, <1>4, <2>1 DEF CallbacksAreNewest, Loaded
  <2> QED BY <1>1, <1>2, <2>1, <2>2
<1>5. CASE KindOf[p] # "paste"
  <2> DEFINE k == KindOf[p]  r == Registered(callbacks[k], p, loadings')
             e == [key |-> p, fn |-> loadings']
  <2>1. k \in Kinds /\ callbacks' = [callbacks EXCEPT ![k] = r]
    BY <1>0, <1>5 DEF Load
  <2>2. /\ Registry(r) /\ Lists(r, e)
        /\ \A c \in Entry : Lists(callbacks[k], c) /\ c.key # p => Lists(r, c)
    BY <1>1, <2>1, RegisteredIs DEF CallbacksAreNewest
  <2>e. e.key = p /\ e.fn = loadings'
    OBVIOUS
  <2>k. k = KindOf[p]
    OBVIOUS
  <2>n. e = [key |-> p, fn |-> loadings']
    OBVIOUS
  <2> HIDE DEF r, k, e
  <2>3. \A x \in Kinds : callbacks'[x] = IF x = k THEN r ELSE callbacks[x]
    BY <2>1
  <2>4. callbacks' \in [Kinds -> Seq(Entry)]
    BY <2>1, <2>2 DEF Registry
  <2>5. \A x \in Kinds : Registry(callbacks'[x])
    BY <2>2, <2>3 DEF CallbacksAreNewest
  <2>6. ASSUME NEW q \in Plugin, KindOf[q] # "paste", latest'[q].load > 0
        PROVE  Lists(callbacks'[KindOf[q]], [key |-> q, fn |-> latest'[q].load])
    <3>1. KindOf[q] \in Kinds
      BY <2>6, HooksAssumption DEF HooksAssumption, Kinds
    <3>2. CASE q = p
      <4>1. callbacks'[KindOf[q]] = r /\ latest'[q].load = loadings'
        BY <1>3, <2>3, <2>k, <3>1, <3>2
      <4> QED BY <2>2, <2>n, <3>2, <4>1
    <3>3. CASE q # p
      <4> DEFINE c == [key |-> q, fn |-> latest[q].load]
      <4>1. latest'[q].load = latest[q].load /\ c \in Entry /\ c.key # p
        BY <1>3, <3>3 DEF Entry
      <4>2. Lists(callbacks[KindOf[q]], c)
        BY <2>6, <4>1 DEF CallbacksAreNewest, Loaded
      <4> HIDE DEF c
      <4>3. Lists(callbacks'[KindOf[q]], c)
        BY <2>2, <2>3, <3>1, <4>1, <4>2
      <4> QED BY <4>1, <4>3 DEF c
    <3> QED BY <3>2, <3>3
  <2>7. CallbacksAreNewest'
    BY <2>5, <2>6 DEF CallbacksAreNewest, Loaded
  <2> QED BY <1>1, <1>2, <2>4, <2>7
<1> QED BY <1>4, <1>5

\* No file that is executed breaks the invariant.
LEMMA LoadStep ==
  ASSUME HooksIInv, NEW p \in Plugin, Load(p)
  PROVE  HooksIInv'
<1>0. /\ callbacks' \in [Kinds -> Seq(Entry)]
      /\ latest' \in [Plugin -> [load : Nat, early : BOOLEAN]] /\ loadings' \in Nat
      /\ CallbacksAreNewest'
  BY LoadCallbacks
<1> USE DEF HooksIInv, HooksTyped
<1>1. /\ KindOf[p] \in {"tick", "cd", "guard", "paste"}
      /\ fmKnown' = fmKnown /\ booted' = booted /\ wrappers' = wrappers
      /\ latest' = [latest EXCEPT ![p] = [load |-> loadings', early |-> @.early \/ ~booted]]
  BY HooksAssumption DEF HooksAssumption, Load
<1>2. \A q \in Plugin : /\ q # p => latest'[q] = latest[q]
                        /\ latest'[p].early <=> latest[p].early \/ ~booted
  BY <1>1
<1>3. ASSUME \/ KindOf[p] = "tick" /\ Patch("work")
             \/ KindOf[p] = "paste" /\ Patch("paste"),
             bindings' = bindings, hooked' = hooked
      PROVE  HooksIInv'
  <2>1. PICK m \in {"work", "paste"} : Patch(m) /\ (KindOf[p] = "tick" => m = "work")
    BY <1>3
  <2>2. /\ methods' \in [Methods -> Layers] /\ originals' \in [Methods -> Layers]
        /\ MethodsAreSound' /\ HookInit' /\ originals'[m] # Unpatched
        /\ \A o \in Methods : originals[o] # Unpatched => originals'[o] # Unpatched
    BY <1>1, <1>3, <2>1, PatchStep DEF Methods
  <2>3. PluginsAreBound'
    <3> SUFFICES ASSUME NEW q \in Plugin
                 PROVE  /\ KindOf[q] = "tick" /\ latest'[q].load > 0 => originals'["work"] # Unpatched
                        /\ KindOf[q] = "cd" /\ latest'[q].load > 0 /\ fmKnown' => bindings' = 1
                        /\ KindOf[q] = "cd" /\ latest'[q].early => hooked'
                        /\ KindOf[q] = "cd" /\ latest'[q].early /\ booted' => bindings' = 1
      BY DEF PluginsAreBound, Loaded, Unpatched
    <3>1. CASE q = p
      BY <1>3, <2>1, <2>2, <3>1
    <3>2. CASE q # p
      <4>1. latest'[q] = latest[q]
        BY <1>2, <3>2
      <4>2. originals["work"] # Unpatched => originals'["work"] # Unpatched
        BY <2>2 DEF Methods
      <4> QED BY <1>1, <1>3, <4>1, <4>2 DEF PluginsAreBound, Loaded
    <3> QED BY <3>1, <3>2
  <2> QED BY <1>0, <1>1, <1>3, <2>2, <2>3
<1>4. ASSUME KindOf[p] = "cd", HookCd PROVE HooksIInv'
  <2>1. /\ methods' \in [Methods -> Layers] /\ originals' = originals
        /\ MethodsAreSound' /\ HookInit' /\ hooked'
        /\ bindings' \in {0, 1} /\ bindings' >= bindings /\ (fmKnown => bindings' = 1)
    BY <1>1, <1>4, HookCdStep
  <2>2. hooked' \in BOOLEAN
    BY <1>4 DEF HookCd
  <2>3. PluginsAreBound'
    <3> SUFFICES ASSUME NEW q \in Plugin
                 PROVE  /\ KindOf[q] = "tick" /\ latest'[q].load > 0 => originals'["work"] # Unpatched
                        /\ KindOf[q] = "cd" /\ latest'[q].load > 0 /\ fmKnown' => bindings' = 1
                        /\ KindOf[q] = "cd" /\ latest'[q].early => hooked'
                        /\ KindOf[q] = "cd" /\ latest'[q].early /\ booted' => bindings' = 1
      BY DEF PluginsAreBound, Loaded, Unpatched
    <3>1. CASE q = p
      <4>1. KindOf[q] = "cd" /\ latest'[q].early /\ booted' => bindings = 1
        BY <1>1, <1>2, <3>1 DEF PluginsAreBound
      <4> QED BY <1>1, <1>4, <2>1, <3>1, <4>1
    <3>2. CASE q # p
      <4>1. latest'[q] = latest[q]
        BY <1>2, <3>2
      <4> QED BY <1>1, <2>1, <4>1 DEF PluginsAreBound, Loaded
    <3> QED BY <3>1, <3>2
  <2> QED BY <1>0, <1>1, <2>1, <2>2, <2>3
<1>5. ASSUME KindOf[p] = "guard", Guard PROVE HooksIInv'
  <2>1. UNCHANGED <<methods, originals, bindings, hooked>>
    BY <1>5 DEF Guard
  <2>2. MethodsAreSound' /\ HookInit'
    BY <1>1, <2>1 DEF MethodsAreSound, HookInit, Unpatched
  <2>3. PluginsAreBound'
    <3> SUFFICES ASSUME NEW q \in Plugin
                 PROVE  /\ KindOf[q] = "tick" /\ latest'[q].load > 0 => originals'["work"] # Unpatched
                        /\ KindOf[q] = "cd" /\ latest'[q].load > 0 /\ fmKnown' => bindings' = 1
                        /\ KindOf[q] = "cd" /\ latest'[q].early => hooked'
                        /\ KindOf[q] = "cd" /\ latest'[q].early /\ booted' => bindings' = 1
      BY DEF PluginsAreBound, Loaded, Unpatched
    <3>1. CASE q = p
      BY <1>5, <3>1
    <3>2. CASE q # p
      <4>1. latest'[q] = latest[q]
        BY <1>2, <3>2
      <4> QED BY <1>1, <2>1, <4>1 DEF PluginsAreBound, Loaded
    <3> QED BY <3>1, <3>2
  <2> QED BY <1>0, <1>1, <2>1, <2>2, <2>3
<1>6. \/ KindOf[p] = "tick" /\ OnTick
      \/ KindOf[p] = "cd" /\ HookCd
      \/ KindOf[p] = "guard" /\ Guard
      \/ KindOf[p] = "paste" /\ Install
  BY <1>1 DEF Load
<1> QED BY <1>3, <1>4, <1>5, <1>6 DEF OnTick, Install

\* ranger calls hook_init once.
LEMMA BootStep ==
  ASSUME HooksIInv, Boot
  PROVE  HooksIInv'
<1> USE DEF HooksIInv, HooksTyped
<1>1. /\ booted' /\ booted' \in BOOLEAN
      /\ UNCHANGED <<methods, originals, callbacks, hooked, fmKnown, latest, loadings, wrappers>>
      /\ bindings' = IF Ours \in ToSet(methods["hook_init"]) THEN BoundOnce(TRUE) ELSE bindings
  BY DEF Boot
<1>2. bindings' \in {0, 1} /\ (bindings = 1 => bindings' = 1)
  BY <1>1 DEF BoundOnce
<1>3. hooked => bindings' = 1
  <2>1. methods["hook_init"] \in Layers
    BY DEF Methods
  <2>2. hooked => Ours \in ToSet(methods["hook_init"])
    BY <2>1 DEF HookInit, Has, ToSet, Layers
  <2> QED BY <1>1, <2>2 DEF BoundOnce
<1>4. MethodsAreSound' /\ HookInit' /\ CallbacksAreNewest'
  BY <1>1 DEF MethodsAreSound, HookInit, CallbacksAreNewest, Loaded, Unpatched
<1>5. PluginsAreBound'
  BY <1>1, <1>2, <1>3 DEF PluginsAreBound, Loaded, Unpatched
<1> QED BY <1>1, <1>2, <1>4, <1>5

\* A wrapper of another plugin leaves our registries and bindings alone.
LEMMA ForeignKeeps ==
  ASSUME HooksIInv, NEW m \in Methods, Foreign(m)
  PROVE  HooksIInv'
<1> USE DEF HooksIInv, HooksTyped
<1>1. methods' \in [Methods -> Layers] /\ MethodsAreSound' /\ HookInit'
  BY ForeignStep
<1>2. /\ UNCHANGED <<originals, callbacks, hooked, fmKnown, bindings, booted, latest, loadings>>
      /\ wrappers' \in Nat
  BY DEF Foreign
<1>3. CallbacksAreNewest' /\ PluginsAreBound'
  BY <1>2 DEF CallbacksAreNewest, PluginsAreBound, Loaded, Unpatched
<1> QED BY <1>1, <1>2, <1>3

\* Initially every method is ranger's own and nothing is registered.
LEMMA HooksInitInv == ASSUME HooksInit PROVE HooksIInv
<1>1. <<Native>> \in Layers /\ Unpatched \in Layers /\ << >> \in Seq(Entry)
  BY DEF Native, Unpatched, Layers
<1>2. HooksTyped
  BY <1>1 DEF HooksInit, HooksTyped, Kinds
<1>3. Sound(<<Native>>) /\ \A v : Has(<<Native>>, v) <=> v = Native
  BY <1>1 DEF Sound, Has, IsInjective, Native
<1>4. MethodsAreSound /\ HookInit
  BY <1>3 DEF HooksInit, MethodsAreSound, HookInit, Methods, Native, Ours
<1>5. Registry(<< >>)
  BY <1>1 DEF Registry
<1>6. CallbacksAreNewest /\ PluginsAreBound
  BY <1>5 DEF HooksInit, CallbacksAreNewest, PluginsAreBound, Loaded, Kinds
<1> QED BY <1>2, <1>4, <1>6 DEF HooksIInv

\* However often, in whatever order and with whatever wrappers of other plugins in between the
\* files of the plugins are executed: ranger's own method and every wrapper runs at most once,
\* wrappers that were there before ours stay, and the newest callback of every plugin that could
\* be bound runs exactly once ("wrappers never stack on themselves").
THEOREM HooksOnce == HooksSpec => []HooksRunOnce
<1>1. HooksInit => HooksIInv
  BY HooksInitInv
<1>2. HooksIInv /\ [HooksNext]_hookVars => HooksIInv'
  <2>1. HooksIInv /\ HooksNext => HooksIInv'
    BY LoadStep, BootStep, ForeignKeeps DEF HooksNext
  <2>2. HooksIInv /\ UNCHANGED hookVars => HooksIInv'
    BY DEF hookVars, HooksIInv, HooksTyped, MethodsAreSound, HookInit, CallbacksAreNewest,
           PluginsAreBound, Loaded, Unpatched
  <2> QED BY <2>1, <2>2
<1>3. HooksIInv => HooksRunOnce
  BY HooksEnough
<1> QED BY <1>1, <1>2, <1>3, PTL DEF HooksSpec

(***************************************************************************)
(* ProbeCache                                                              *)
(***************************************************************************)
Asking  == [at : {"ask", "read"}, path : MediaPath, ino : Inode, stamp : Nat]
Told    == [at : {"odd", "keep", "report"}, path : MediaPath, ino : Inode, stamp : Nat,
            verdict : Inode \X Nat]
Writing == [at : {"write"}, rows : Rows, for : Process]
ProbeTyped ==
  /\ inodeAt \in [MediaPath -> Inode] /\ stampOf \in [Inode -> Nat]
  /\ memo = [p \in Process |-> memo[p]] /\ unsaved \in [Process -> Rows] /\ table \in Rows
  /\ thread \in [Thread -> {Idle} \cup Asking \cup Told \cup Writing]
\* Until it has its verdict, a lookup's path is the file it took the stat of; and the stat is
\* never of later content than that file has.
PathsAreOwn   == \A t \in Thread : thread[t].at \in {"ask", "read", "odd"} =>
                                     inodeAt[thread[t].path] = thread[t].ino
StampsAreOld  == \A t \in Thread : thread[t].at \in {"ask", "read", "odd", "keep", "report"} =>
                                     thread[t].stamp <= stampOf[thread[t].ino]
VerdictsAreOwn == \A t \in Thread : thread[t].at \in {"odd", "keep", "report"} =>
                                     Describes(RowOf(thread[t]), thread[t].ino)
ProbeIInv == ProbeTyped /\ PathsAreOwn /\ StampsAreOld /\ VerdictsAreOwn /\ RowsDescribeTheirFile

\* A thread that does something: where it was and where it may be.
LEMMA ThreadKinds ==
  ASSUME ProbeTyped, NEW t \in Thread
  PROVE  /\ thread[t].at = "idle" => thread[t] = Idle
         /\ thread[t] = Idle => thread[t].at = "idle"
         /\ thread[t].at \in {"ask", "read"} => thread[t] \in Asking
         /\ thread[t].at \in {"odd", "keep", "report"} => thread[t] \in Told
         /\ thread[t].at = "write" => thread[t] \in Writing
  BY DEF ProbeTyped, Idle, Asking, Told, Writing

\* Rows are made of stats and verdicts.
LEMMA RowsAre ==
  /\ NoRow \in Row /\ NoRows \in Rows
  /\ \A s \in Told : RowOf(s) \in Row
  /\ \A s \in Asking \cup Told : [stamp |-> s.stamp, verdict |-> << >>] \in Row
  /\ \A rows \in Rows, i \in Inode, row \in Row : [rows EXCEPT ![i] = row] \in Rows
  /\ \A rows \in Rows, now \in Rows : PutBackRows(rows, now) \in Rows
  BY DEF NoRow, NoRows, Row, Rows, RowOf, Verdict, Told, Asking, PutBackRows

\* Every step keeps the types.
LEMMA ProbeTypedStep ==
  ASSUME ProbeTyped, [ProbeNext]_probeVars
  PROVE  ProbeTyped'
<1> USE ProbeAssumption, RowsAre DEF Files
<1>1. CASE UNCHANGED probeVars
  BY <1>1 DEF ProbeTyped, probeVars
<1>2. ASSUME NEW t \in Thread, NEW path \in MediaPath, Stat(t, path) PROVE ProbeTyped'
  BY <1>2 DEF ProbeTyped, Stat, Turns, Asking
<1>3. ASSUME NEW t \in Thread, Recall(t) PROVE ProbeTyped'
  <2>1. thread[t] \in Asking
    BY <1>3, ThreadKinds DEF Recall
  <2>2. [thread[t] EXCEPT !.at = "read"] \in Asking
    BY <2>1 DEF Asking
  <2> QED
    BY <1>3, <2>2 DEF ProbeTyped, Recall, Turns
<1>4. ASSUME NEW t \in Thread, Fetch(t) PROVE ProbeTyped'
  <2>1. thread[t] \in Asking
    BY <1>4, ThreadKinds DEF Fetch
  <2>2. [thread[t] EXCEPT !.at = "read"] \in Asking
    BY <2>1 DEF Asking
  <2>3. memo' = [p \in Process |-> memo'[p]]
    BY <1>4 DEF ProbeTyped, Fetch, Remember
  <2> QED
    BY <1>4, <2>2, <2>3 DEF ProbeTyped, Fetch, Turns
<1>5. ASSUME NEW t \in Thread, Read(t) PROVE ProbeTyped'
  <2>1. thread[t] \in Asking
    BY <1>5, ThreadKinds DEF Read
  <2>2. ReadNow(thread[t].path) \in Inode \X Nat
    BY <2>1 DEF ReadNow, ProbeTyped, Asking
  <2> DEFINE kind == IF inodeAt[thread[t].path] \in Odd THEN "odd"
                       ELSE IF Keeper[ProcessOf[t]] # ProcessOf[t] THEN "report" ELSE "keep"
             told == [at |-> kind, path |-> thread[t].path, ino |-> thread[t].ino,
                      stamp |-> thread[t].stamp, verdict |-> ReadNow(thread[t].path)]
  <2>3. kind \in {"odd", "keep", "report"}
    OBVIOUS
  <2>4. thread' = [thread EXCEPT ![t] = told]
    BY <1>5 DEF Read, Turns
  <2> HIDE DEF kind
  <2>5. told \in Told
    BY <2>1, <2>2, <2>3 DEF Asking, Told
  <2> HIDE DEF told
  <2>6. thread' \in [Thread -> {Idle} \cup Asking \cup Told \cup Writing]
    BY <2>4, <2>5 DEF ProbeTyped
  <2> QED
    BY <1>5, <2>6 DEF ProbeTyped, Read
<1>6. ASSUME NEW t \in Thread, AskMediainfo(t) PROVE ProbeTyped'
  <2>1. thread[t] \in Told
    BY <1>6, ThreadKinds DEF AskMediainfo
  <2>2. ReadNow(thread[t].path) \in Inode \X Nat
    BY <2>1 DEF ReadNow, ProbeTyped, Told
  <2>3. \A a \in {"keep", "report"} :
          [thread[t] EXCEPT !.at = a, !.verdict = ReadNow(thread[t].path)] \in Told
    BY <2>1, <2>2 DEF Told
  <2>4. \/ thread' = [thread EXCEPT ![t] = Idle]
        \/ \E a \in {"keep", "report"} :
             thread' = [thread EXCEPT ![t] =
                          [thread[t] EXCEPT !.at = a, !.verdict = ReadNow(thread[t].path)]]
    BY <1>6 DEF AskMediainfo, Turns
  <2>5. memo' = [p \in Process |-> memo'[p]]
    BY <1>6 DEF ProbeTyped, AskMediainfo, Remember
  <2>6. thread' \in [Thread -> {Idle} \cup Asking \cup Told \cup Writing]
    BY <2>3, <2>4 DEF ProbeTyped
  <2> QED
    BY <1>6, <2>5, <2>6 DEF ProbeTyped, AskMediainfo
<1>7. ASSUME NEW t \in Thread, NEW p \in Process, thread[t] \in Told, KeepIn(t, p, thread[t]),
             UNCHANGED <<inodeAt, stampOf, table>>
      PROVE  ProbeTyped'
  <2> DEFINE rows == [unsaved[p] EXCEPT ![thread[t].ino] = RowOf(thread[t])]
  <2>1. rows \in Rows
    BY <1>7 DEF ProbeTyped, Told
  <2>2. [at |-> "write", rows |-> rows, for |-> p] \in Writing
    BY <2>1 DEF Writing
  <2>3. memo' = [q \in Process |-> memo'[q]]
    BY <1>7 DEF ProbeTyped, KeepIn, Remember
  <2>4. thread' = [thread EXCEPT ![t] = [at |-> "write", rows |-> rows, for |-> p]]
        \/ thread' = [thread EXCEPT ![t] = Idle]
    BY <1>7 DEF KeepIn, Turns
  <2>5. unsaved' \in [Process -> Rows]
    BY <1>7, <2>1 DEF KeepIn, ProbeTyped
  <2> QED
    BY <1>7, <2>2, <2>3, <2>4, <2>5 DEF ProbeTyped
<1>8. ASSUME NEW t \in Thread, Keep(t) PROVE ProbeTyped'
  <2>1. thread[t] \in Told
    BY <1>8, ThreadKinds DEF Keep
  <2> QED
    BY <1>7, <1>8, <2>1 DEF Keep
<1>9. ASSUME NEW t \in Thread, Report(t) PROVE ProbeTyped'
  <2>1. thread[t] \in Told
    BY <1>9, ThreadKinds DEF Report
  <2>2. CASE Unchanged(thread[t])
    BY <1>7, <1>9, <2>1, <2>2 DEF Report
  <2>3. CASE ~Unchanged(thread[t])
    BY <1>9, <2>3 DEF Report, ProbeTyped, Turns
  <2> QED
    BY <2>2, <2>3
<1>10. ASSUME NEW t \in Thread, Flush(t) PROVE ProbeTyped'
  <2>1. [at |-> "write", rows |-> unsaved[ProcessOf[t]], for |-> ProcessOf[t]] \in Writing
    BY DEF Writing, ProbeTyped
  <2> QED
    BY <1>10, <2>1 DEF ProbeTyped, Flush, Turns
<1>11. ASSUME NEW t \in Thread, Write(t) PROVE ProbeTyped'
  <2>1. thread[t] \in Writing
    BY <1>11, ThreadKinds DEF Write
  <2>2. table' \in Rows
    BY <1>11, <2>1 DEF ProbeTyped, Write, Writing, Rows
  <2> QED
    BY <1>11, <2>2 DEF ProbeTyped, Write, Turns
<1>12. ASSUME NEW t \in Thread, WriteFails(t) PROVE ProbeTyped'
  <2>1. thread[t] \in Writing
    BY <1>12, ThreadKinds DEF WriteFails
  <2>2. PutBackRows(thread[t].rows, unsaved[thread[t].for]) \in Rows
    BY <2>1 DEF Writing, ProbeTyped
  <2> QED
    BY <1>12, <2>2 DEF ProbeTyped, WriteFails, Turns
<1>13. ASSUME NEW p \in Process, Restart(p) PROVE ProbeTyped'
  BY <1>13 DEF ProbeTyped, Restart
<1>14. CASE Migrate
  BY <1>14 DEF ProbeTyped, Migrate
<1>15. ASSUME NEW i \in Inode, WriteFile(i) PROVE ProbeTyped'
  BY <1>15 DEF ProbeTyped, WriteFile
<1>16. ASSUME NEW p \in MediaPath, NEW q \in MediaPath, Exchange(p, q) PROVE ProbeTyped'
  BY <1>16 DEF ProbeTyped, Exchange
<1> QED
  BY <1>1, <1>2, <1>3, <1>4, <1>5, <1>6, <1>8, <1>9, <1>10, <1>11, <1>12, <1>13, <1>14, <1>15,
     <1>16 DEF ProbeNext, LookupStep

\* What a step of one thread leaves to the others.
LEMMA OneTurns ==
  ASSUME ProbeTyped, NEW t \in Thread, NEW s, Turns(t, s)
  PROVE  thread'[t] = s /\ \A u \in Thread \ {t} : thread'[u] = thread[u]
  BY DEF ProbeTyped, Turns

\* A thread at work has the path, inode and stamp of its lookup until it ends.
LEMMA ThreadMoves ==
  ASSUME ProbeTyped, [ProbeNext]_probeVars, NEW t \in Thread,
         thread'[t].at \in {"ask", "read", "odd", "keep", "report"}
  PROVE  \/ /\ thread[t].at = "idle" /\ thread'[t].at = "ask"
            /\ thread'[t].path \in MediaPath /\ thread'[t].ino = inodeAt[thread'[t].path]
            /\ thread'[t].stamp = stampOf[thread'[t].ino]
            /\ UNCHANGED <<inodeAt, stampOf>>
         \/ /\ thread[t].at \in {"ask", "read", "odd", "keep", "report"}
            /\ thread'[t].path = thread[t].path /\ thread'[t].ino = thread[t].ino
            /\ thread'[t].stamp = thread[t].stamp
            /\ \/ thread'[t] = thread[t]
               \/ /\ thread[t].at = "ask" /\ thread'[t].at = "read"
                  /\ UNCHANGED <<inodeAt, stampOf>>
               \/ /\ thread[t].at \in {"read", "odd"} /\ thread'[t].at \in {"odd", "keep", "report"}
                  /\ thread'[t].verdict = ReadNow(thread[t].path)
                  /\ UNCHANGED <<inodeAt, stampOf>>
<1> USE ProbeAssumption DEF Files
<1> DEFINE Kept == thread'[t] = thread[t]
<1>1. CASE UNCHANGED probeVars
  BY <1>1 DEF probeVars
<1>2. ASSUME NEW u \in Thread, u # t,
             \/ LookupStep(u) \/ Flush(u) \/ Write(u) \/ WriteFails(u)
             \/ \E path \in MediaPath : Stat(u, path)
      PROVE  Kept
  <2>1. \E s : Turns(u, s)
    BY <1>2 DEF LookupStep, Flush, Write, WriteFails, Stat, Recall, Fetch, Read, AskMediainfo, Keep, Report, KeepIn
  <2> QED
    BY <1>2, <2>1, OneTurns
<1>3. ASSUME NEW path \in MediaPath, Stat(t, path)
      PROVE  /\ thread[t].at = "idle" /\ thread'[t].at = "ask"
             /\ thread'[t].path \in MediaPath /\ thread'[t].ino = inodeAt[thread'[t].path]
             /\ thread'[t].stamp = stampOf[thread'[t].ino] /\ UNCHANGED <<inodeAt, stampOf>>
  BY <1>3, OneTurns, ThreadKinds DEF Stat
<1>4. CASE Recall(t) \/ Fetch(t)
  <2>1. thread[t] \in Asking
    BY <1>4, ThreadKinds DEF Recall, Fetch
  <2>2. thread'[t] = Idle \/ thread'[t] = [thread[t] EXCEPT !.at = "read"]
    BY <1>4, OneTurns DEF Recall, Fetch
  <2> QED
    BY <1>4, <2>1, <2>2 DEF Recall, Fetch, Asking, Idle
<1>5. CASE Read(t)
  <2>1. /\ thread'[t].verdict = ReadNow(thread[t].path) /\ thread'[t].path = thread[t].path
        /\ thread'[t].ino = thread[t].ino /\ thread'[t].stamp = thread[t].stamp
    BY <1>5, OneTurns DEF Read
  <2>2. thread'[t].at = IF inodeAt[thread[t].path] \in Odd THEN "odd"
                          ELSE IF Keeper[ProcessOf[t]] # ProcessOf[t] THEN "report" ELSE "keep"
    BY <1>5, OneTurns DEF Read
  <2>3. thread'[t].at \in {"odd", "keep", "report"}
    BY <2>2
  <2> QED
    BY <1>5, <2>1, <2>3 DEF Read
<1>6. CASE AskMediainfo(t)
  <2>1. thread[t] \in Told
    BY <1>6, ThreadKinds DEF AskMediainfo
  <2>2. \/ thread'[t] = Idle
        \/ thread'[t] = [thread[t] EXCEPT !.at = "keep", !.verdict = ReadNow(thread[t].path)]
        \/ thread'[t] = [thread[t] EXCEPT !.at = "report", !.verdict = ReadNow(thread[t].path)]
    BY <1>6, OneTurns DEF AskMediainfo
  <2>3. ASSUME NEW a \in {"keep", "report"},
               thread'[t] = [thread[t] EXCEPT !.at = a, !.verdict = ReadNow(thread[t].path)]
        PROVE  /\ thread'[t].at = a /\ thread'[t].path = thread[t].path
               /\ thread'[t].ino = thread[t].ino /\ thread'[t].stamp = thread[t].stamp
               /\ thread'[t].verdict = ReadNow(thread[t].path)
    BY <2>1, <2>3 DEF Told
  <2>4. thread[t].at = "odd" /\ UNCHANGED <<inodeAt, stampOf>>
    BY <1>6 DEF AskMediainfo
  <2>5. thread'[t] # Idle
    BY DEF Idle
  <2> QED
    BY <2>2, <2>3, <2>4, <2>5
<1>7. ASSUME Keep(t) \/ Report(t) \/ Flush(t) \/ Write(t) \/ WriteFails(t) PROVE FALSE
  BY <1>7, OneTurns DEF Keep, Report, KeepIn, Flush, Write, WriteFails, Idle
<1>8. ASSUME NEW p \in Process, Restart(p) PROVE Kept
  BY <1>8 DEF Restart, Idle
<1>9. ASSUME \/ Migrate \/ \E i \in Inode : WriteFile(i)
             \/ \E p, q \in MediaPath : Exchange(p, q)
      PROVE  Kept
  BY <1>9 DEF Migrate, WriteFile, Exchange
<1> QED
  BY <1>1, <1>2, <1>3, <1>4, <1>5, <1>6, <1>7, <1>8, <1>9 DEF ProbeNext, LookupStep

\* Stamps only grow.
LEMMA StampsGrow ==
  ASSUME ProbeTyped, [ProbeNext]_probeVars, NEW i \in Inode
  PROVE  stampOf[i] <= stampOf'[i]
<1>1. UNCHANGED stampOf \/ \E j \in Inode : WriteFile(j)
  BY DEF ProbeNext, probeVars, LookupStep, Flush, Write, WriteFails, Stat, Recall, Fetch, Read,
         AskMediainfo, Keep, Report, Restart, Migrate, Exchange, Files
<1> QED
  BY <1>1 DEF ProbeTyped, WriteFile

\* Lookups and their stats, step by step.
LEMMA LookupsStep ==
  ASSUME ProbeTyped, PathsAreOwn, StampsAreOld, VerdictsAreOwn, [ProbeNext]_probeVars,
         Renames \in {"never", "quiet"}
  PROVE  (PathsAreOwn /\ StampsAreOld /\ VerdictsAreOwn)'
<1> USE ProbeAssumption
<1>1. ASSUME NEW t \in Thread, thread'[t].at \in {"ask", "read", "odd"}
      PROVE  inodeAt'[thread'[t].path] = thread'[t].ino
  <2>1. ASSUME thread'[t] = thread[t], NEW p \in MediaPath, NEW q \in MediaPath, Exchange(p, q)
        PROVE  inodeAt'[thread[t].path] = inodeAt[thread[t].path]
    <3>1. Reading(thread[t].path)
      BY <1>1, <2>1 DEF Reading
    <3>2. thread[t].path # p /\ thread[t].path # q
      BY <2>1, <3>1 DEF Exchange
    <3>3. thread[t] \in Asking \cup Told
      BY <1>1, <2>1, ThreadKinds
    <3>4. thread[t].path \in MediaPath
      BY <3>3 DEF Asking, Told
    <3> QED
      BY <2>1, <3>2, <3>4 DEF Exchange, ProbeTyped
  <2>2. UNCHANGED inodeAt \/ \E p, q \in MediaPath : Exchange(p, q)
    BY DEF ProbeNext, probeVars, LookupStep, Flush, Write, WriteFails, Stat, Recall, Fetch, Read,
           AskMediainfo, Keep, Report, Restart, Migrate, WriteFile, Files
  <2>3. CASE thread'[t] = thread[t]
    BY <1>1, <2>1, <2>2, <2>3 DEF PathsAreOwn
  <2>4. CASE thread'[t] # thread[t]
    BY <1>1, <2>4, ThreadMoves DEF PathsAreOwn
  <2> QED
    BY <2>3, <2>4
<1>2. ASSUME NEW t \in Thread, thread'[t].at \in {"ask", "read", "odd", "keep", "report"}
      PROVE  thread'[t].stamp <= stampOf'[thread'[t].ino]
  <2>1. thread'[t] \in Asking \cup Told
    BY <1>2, ProbeTypedStep DEF ProbeTyped, Idle, Writing
  <2>2. thread'[t].ino \in Inode /\ thread'[t].stamp \in Nat
    BY <2>1 DEF Asking, Told
  <2>3. /\ stampOf[thread'[t].ino] <= stampOf'[thread'[t].ino]
        /\ stampOf[thread'[t].ino] \in Nat /\ stampOf'[thread'[t].ino] \in Nat
    BY <2>2, StampsGrow, ProbeTypedStep DEF ProbeTyped
  <2>4. thread'[t].stamp <= stampOf[thread'[t].ino]
    BY <1>2, <2>2, <2>3, ThreadMoves DEF StampsAreOld
  <2> QED
    BY <2>2, <2>3, <2>4
<1>3. ASSUME NEW t \in Thread, thread'[t].at \in {"odd", "keep", "report"}
      PROVE  Describes(RowOf(thread'[t]), thread'[t].ino)
  <2>1. CASE thread'[t] = thread[t]
    BY <1>3, <2>1 DEF VerdictsAreOwn
  <2>2. CASE thread'[t] # thread[t]
    <3>1. /\ thread[t].at \in {"read", "odd"} /\ thread'[t].verdict = ReadNow(thread[t].path)
          /\ thread'[t].ino = thread[t].ino /\ thread'[t].stamp = thread[t].stamp
      BY <1>3, <2>2, ThreadMoves
    <3>2. ReadNow(thread[t].path) = <<thread[t].ino, stampOf[thread[t].ino]>>
      BY <3>1 DEF ReadNow, PathsAreOwn
    <3>3. thread[t] \in Asking \cup Told
      BY <3>1, ThreadKinds
    <3>4. thread[t].stamp <= stampOf[thread[t].ino]
      BY <3>1 DEF StampsAreOld
    <3>5. thread[t].stamp \in Nat /\ stampOf[thread[t].ino] \in Nat
      BY <3>3 DEF Asking, Told, ProbeTyped
    <3> QED
      BY <3>1, <3>2, <3>4, <3>5 DEF Describes, RowOf
  <2> QED
    BY <2>1, <2>2
<1> QED
  BY <1>1, <1>2, <1>3 DEF PathsAreOwn, StampsAreOld, VerdictsAreOwn

\* A row that is not there, or that says nothing, is no wrong one.
LEMMA NothingIsTrue ==
  \A i \in Inode : /\ Describes(NoRow, i) /\ Describes(NoRows[i], i)
                   /\ \A s : Describes([stamp |-> s, verdict |-> << >>], i)
  BY DEF Describes, NoRow, NoRows

\* Rows describe their file after every step, wherever they are.
LEMMA RowsStep ==
  ASSUME ProbeTyped, VerdictsAreOwn, RowsDescribeTheirFile, [ProbeNext]_probeVars
  PROVE  RowsDescribeTheirFile'
<1> USE ProbeAssumption DEF Files
<1> DEFINE Own(i)  == Describes(table'[i], i)
           Mem(i)  == \A p \in Process : i \in DOMAIN memo'[p] => Describes(memo'[p][i], i)
           New(i)  == \A p \in Process : Describes(unsaved'[p][i], i)
           Wrote(i) == \A t \in Thread : thread'[t].at = "write" => Describes(thread'[t].rows[i], i)
           Good == \A i \in Inode : Own(i) /\ Mem(i) /\ New(i) /\ Wrote(i)
<1> SUFFICES Good
  BY DEF RowsDescribeTheirFile, Recalls
<1>0. ASSUME NEW i \in Inode
      PROVE  /\ Describes(table[i], i)
             /\ \A p \in Process : Describes(unsaved[p][i], i)
             /\ \A p \in Process : i \in DOMAIN memo[p] => Describes(memo[p][i], i)
             /\ \A t \in Thread : thread[t].at = "write" => Describes(thread[t].rows[i], i)
  BY DEF RowsDescribeTheirFile, Recalls
<1>a. UNCHANGED table => \A i \in Inode : Own(i)
  BY <1>0
<1>b. UNCHANGED memo => \A i \in Inode : Mem(i)
  BY <1>0
<1>c. UNCHANGED unsaved => \A i \in Inode : New(i)
  BY <1>0
<1>d. UNCHANGED thread => \A i \in Inode : Wrote(i)
  BY <1>0
<1>1. CASE UNCHANGED probeVars
  BY <1>a, <1>b, <1>c, <1>d, <1>1 DEF probeVars
<1>2. ASSUME NEW p \in Process, NEW j \in Inode, NEW row, Remember(p, j, row), Describes(row, j)
      PROVE  \A i \in Inode : Mem(i)
  BY <1>0, <1>2 DEF Remember, ProbeTyped
<1>3. ASSUME NEW t \in Thread, NEW s, Turns(t, s), s.at # "write"
      PROVE  \A i \in Inode : Wrote(i)
  BY <1>0, <1>3, OneTurns
<1>4. ASSUME NEW t \in Thread, NEW path \in MediaPath, Stat(t, path) PROVE Good
  <2>1. \A i \in Inode : Wrote(i)
    BY <1>3, <1>4 DEF Stat
  <2> QED
    BY <1>a, <1>b, <1>c, <1>4, <2>1 DEF Stat
<1>5. ASSUME NEW t \in Thread, Recall(t) PROVE Good
  <2>1. thread[t] \in Asking
    BY <1>5, ThreadKinds DEF Recall
  <2>2. \A i \in Inode : Wrote(i)
    BY <1>5, <1>3, <2>1 DEF Recall, Asking, Idle
  <2> QED
    BY <1>a, <1>b, <1>c, <1>5, <2>2 DEF Recall
<1>6. ASSUME NEW t \in Thread, Fetch(t) PROVE Good
  <2>1. thread[t] \in Asking
    BY <1>6, ThreadKinds DEF Fetch
  <2>2. \A i \in Inode : Wrote(i)
    BY <1>6, <1>3, <2>1 DEF Fetch, Asking, Idle
  <2>3. \A i \in Inode : Mem(i)
    <3>1. PICK row \in {table[thread[t].ino], NoRow} :
            Remember(ProcessOf[t], thread[t].ino, IF Fits(row, thread[t]) THEN row ELSE NoRow)
      BY <1>6 DEF Fetch
    <3>2. thread[t].ino \in Inode
      BY <2>1 DEF Asking
    <3>3. Describes(IF Fits(row, thread[t]) THEN row ELSE NoRow, thread[t].ino)
      BY <1>0, <3>2, NothingIsTrue
    <3> QED
      BY <1>2, <3>1, <3>2, <3>3
  <2> QED
    BY <1>a, <1>c, <1>6, <2>2, <2>3 DEF Fetch
<1>7. ASSUME NEW t \in Thread, Read(t) PROVE Good
  <2>1. \A i \in Inode : Wrote(i)
    <3> DEFINE kind == IF inodeAt[thread[t].path] \in Odd THEN "odd"
                         ELSE IF Keeper[ProcessOf[t]] # ProcessOf[t] THEN "report" ELSE "keep"
    <3>1. kind # "write"
      OBVIOUS
    <3>2. thread'[t].at = kind
      BY <1>7, OneTurns DEF Read
    <3>3. \A u \in Thread \ {t} : thread'[u] = thread[u]
      BY <1>7, OneTurns DEF Read
    <3> QED
      BY <1>0, <3>1, <3>2, <3>3
  <2> QED
    BY <1>a, <1>b, <1>c, <1>7, <2>1 DEF Read
<1>8. ASSUME NEW t \in Thread, AskMediainfo(t) PROVE Good
  <2>1. thread[t] \in Told
    BY <1>8, ThreadKinds DEF AskMediainfo
  <2>2. \/ Turns(t, Idle)
        \/ Turns(t, [thread[t] EXCEPT !.at = "keep", !.verdict = ReadNow(thread[t].path)])
        \/ Turns(t, [thread[t] EXCEPT !.at = "report", !.verdict = ReadNow(thread[t].path)])
    BY <1>8 DEF AskMediainfo
  <2>3. \A i \in Inode : Wrote(i)
    BY <1>3, <2>1, <2>2 DEF Told, Idle
  <2>4. \A i \in Inode : Mem(i)
    <3>1. \/ UNCHANGED memo
          \/ Remember(Keeper[ProcessOf[t]], thread[t].ino, [stamp |-> thread[t].stamp, verdict |-> << >>])
      BY <1>8 DEF AskMediainfo
    <3>2. thread[t].ino \in Inode
      BY <2>1 DEF Told
    <3>3. Describes([stamp |-> thread[t].stamp, verdict |-> << >>], thread[t].ino)
      BY <3>2, NothingIsTrue
    <3> QED
      BY <1>b, <1>2, <3>1, <3>2, <3>3
  <2> QED
    BY <1>a, <1>c, <1>8, <2>3, <2>4 DEF AskMediainfo
<1>9. ASSUME NEW t \in Thread, NEW p \in Process, thread[t].at \in {"keep", "report"},
             KeepIn(t, p, thread[t]), UNCHANGED table
      PROVE  Good
  <2>1. thread[t] \in Told
    BY <1>9, ThreadKinds
  <2> DEFINE j    == thread[t].ino
             rows == [unsaved[p] EXCEPT ![j] = RowOf(thread[t])]
  <2>2. j \in Inode /\ Describes(RowOf(thread[t]), j)
    BY <1>9, <2>1 DEF Told, VerdictsAreOwn
  <2>3. \A i \in Inode : Describes(rows[i], i)
    BY <1>0, <2>2 DEF ProbeTyped, Rows
  <2>4. \A i \in Inode : Mem(i)
    BY <1>2, <1>9, <2>2 DEF KeepIn
  <2>5. /\ unsaved' = [unsaved EXCEPT ![p] = NoRows] \/ unsaved' = [unsaved EXCEPT ![p] = rows]
        /\ Turns(t, [at |-> "write", rows |-> rows, for |-> p]) \/ Turns(t, Idle)
    BY <1>9 DEF KeepIn
  <2> HIDE DEF rows
  <2>6. \A i \in Inode : New(i)
    BY <1>0, <2>3, <2>5, NothingIsTrue DEF ProbeTyped
  <2>7. \A i \in Inode : Wrote(i)
    <3>1. thread'[t] = [at |-> "write", rows |-> rows, for |-> p] \/ thread'[t] = Idle
      BY <2>5, OneTurns
    <3>2. \A u \in Thread \ {t} : thread'[u] = thread[u]
      BY <2>5, OneTurns
    <3> QED
      BY <1>0, <2>3, <3>1, <3>2 DEF Idle
  <2> QED
    BY <1>a, <1>9, <2>4, <2>6, <2>7
<1>10. ASSUME NEW t \in Thread, Keep(t) PROVE Good
  BY <1>9, <1>10 DEF Keep
<1>11. ASSUME NEW t \in Thread, Report(t) PROVE Good
  <2>1. CASE Unchanged(thread[t])
    BY <1>9, <1>11, <2>1 DEF Report
  <2>2. CASE ~Unchanged(thread[t])
    <3>1. \A i \in Inode : Wrote(i)
      BY <1>3, <1>11, <2>2 DEF Report, Idle
    <3> QED
      BY <1>a, <1>b, <1>c, <1>11, <2>2, <3>1 DEF Report
  <2> QED
    BY <2>1, <2>2
<1>12. ASSUME NEW t \in Thread, Flush(t) PROVE Good
  <2>1. \A i \in Inode : Wrote(i)
    BY <1>0, <1>12, OneTurns DEF Flush
  <2>2. \A i \in Inode : New(i)
    BY <1>0, <1>12, NothingIsTrue DEF Flush, ProbeTyped
  <2> QED
    BY <1>a, <1>b, <1>12, <2>1, <2>2 DEF Flush
<1>13. ASSUME NEW t \in Thread, Write(t) PROVE Good
  <2>1. \A i \in Inode : Wrote(i)
    BY <1>3, <1>13 DEF Write, Idle
  <2>2. \A i \in Inode : Own(i)
    BY <1>0, <1>13 DEF Write
  <2> QED
    BY <1>b, <1>c, <1>13, <2>1, <2>2 DEF Write
<1>14. ASSUME NEW t \in Thread, WriteFails(t) PROVE Good
  <2>1. \A i \in Inode : Wrote(i)
    BY <1>3, <1>14 DEF WriteFails, Idle
  <2>2. \A i \in Inode : New(i)
    <3>1. thread[t] \in Writing
      BY <1>14, ThreadKinds DEF WriteFails
    <3>2. \A i \in Inode : Describes(PutBackRows(thread[t].rows, unsaved[thread[t].for])[i], i)
      BY <1>0, <1>14, <3>1 DEF WriteFails, PutBackRows, Writing
    <3> QED
      BY <1>0, <1>14, <3>2 DEF WriteFails, ProbeTyped
  <2> QED
    BY <1>a, <1>b, <1>14, <2>1, <2>2 DEF WriteFails
<1>15. ASSUME NEW p \in Process, Restart(p) PROVE Good
  <2>1. \A i \in Inode : Wrote(i)
    BY <1>0, <1>15 DEF Restart, Idle
  <2>2. \A i \in Inode : New(i) /\ Mem(i)
    BY <1>0, <1>15, NothingIsTrue DEF Restart, ProbeTyped
  <2> QED
    BY <1>a, <1>15, <2>1, <2>2 DEF Restart
<1>16. CASE Migrate
  <2>1. \A i \in Inode : Own(i)
    BY <1>16, NothingIsTrue DEF Migrate
  <2> QED
    BY <1>b, <1>c, <1>d, <1>16, <2>1 DEF Migrate
<1>17. ASSUME \/ \E i \in Inode : WriteFile(i)
              \/ \E p, q \in MediaPath : Exchange(p, q)
       PROVE  Good
  BY <1>a, <1>b, <1>c, <1>d, <1>17 DEF WriteFile, Exchange
<1> HIDE DEF Good
<1> QED
  BY <1>1, <1>4, <1>5, <1>6, <1>7, <1>8, <1>10, <1>11, <1>12, <1>13, <1>14, <1>15, <1>16, <1>17
  DEF ProbeNext, LookupStep

\* Nothing is known at first.
LEMMA ProbeInitInv == ASSUME ProbeInit PROVE ProbeIInv
<1> USE ProbeAssumption
<1>1. ProbeTyped
  BY RowsAre DEF ProbeInit, ProbeTyped
<1>2. PathsAreOwn /\ StampsAreOld /\ VerdictsAreOwn
  BY DEF ProbeInit, PathsAreOwn, StampsAreOld, VerdictsAreOwn, Idle
<1>3. RowsDescribeTheirFile
  BY NothingIsTrue DEF ProbeInit, RowsDescribeTheirFile, NoRows, Recalls, Idle
<1> QED
  BY <1>1, <1>2, <1>3 DEF ProbeIInv

\* What a step does to the rows that wait to be saved: a put replaces or adds one, and the put that
\* fills them, or a flush, hands them to a thread that writes.
LEMMA WaitingKept ==
  ASSUME ProbeTyped, [ProbeNext]_probeVars, NEW p \in Process, NEW i \in Inode,
         unsaved[p][i] # NoRow, unsaved'[p][i] # unsaved[p][i]
  PROVE  \/ memo'[p] = << >>
         \/ unsaved'[p][i] # NoRow /\ unsaved'[p][i] = memo'[p][i]
         \/ \E t \in Thread : /\ thread'[t].at = "write" /\ thread'[t].for = p
                              /\ thread'[t].rows[i] = unsaved[p][i] \/ thread'[t].rows[i] = memo'[p][i]
<1> USE ProbeAssumption DEF Files
<1>0. /\ p \in Process /\ unsaved' # unsaved
      /\ unsaved \in [Process -> Rows]
  BY DEF ProbeTyped
<1>1. ASSUME NEW t \in Thread, NEW q \in Process, KeepIn(t, q, thread[t]), thread[t] \in Told
      PROVE  \/ unsaved'[p][i] # NoRow /\ unsaved'[p][i] = memo'[p][i]
             \/ /\ thread'[t].at = "write" /\ thread'[t].for = p
                /\ thread'[t].rows[i] = unsaved[p][i] \/ thread'[t].rows[i] = memo'[p][i]
  <2> DEFINE j    == thread[t].ino
             row  == RowOf(thread[t])
             rows == [unsaved[q] EXCEPT ![j] = row]
  <2>1. /\ Remember(q, j, row)
        /\ \/ unsaved' = [unsaved EXCEPT ![q] = NoRows] /\ Turns(t, [at |-> "write", rows |-> rows, for |-> q])
           \/ unsaved' = [unsaved EXCEPT ![q] = rows]
    BY <1>1 DEF KeepIn
  <2>2. q = p
    BY <1>0, <2>1
  <2>3. j \in Inode /\ memo'[q][j] = row
    BY <1>1, <2>1 DEF Told, Remember, ProbeTyped
  <2>4. rows[j] = row /\ \A k \in Inode \ {j} : rows[k] = unsaved[q][k]
    BY <1>0, <2>3 DEF Rows
  <2>5. row # NoRow
    BY <1>1 DEF Told, RowOf, NoRow
  <2> HIDE DEF rows, row
  <2>6. CASE unsaved' = [unsaved EXCEPT ![q] = rows]
    BY <1>0, <2>2, <2>3, <2>4, <2>5, <2>6
  <2>7. CASE Turns(t, [at |-> "write", rows |-> rows, for |-> q])
    <3>1. thread'[t] = [at |-> "write", rows |-> rows, for |-> q]
      BY <2>7, OneTurns
    <3>2. rows[i] = unsaved[p][i] \/ rows[i] = memo'[p][i]
      BY <2>2, <2>3, <2>4
    <3> QED
      BY <2>2, <3>1, <3>2
  <2> QED
    BY <2>1, <2>6, <2>7
<1>2. ASSUME NEW t \in Thread, Keep(t) \/ Report(t) PROVE \E q \in Process : KeepIn(t, q, thread[t])
  BY <1>0, <1>2 DEF Keep, Report
<1>3. ASSUME NEW t \in Thread, Keep(t) \/ Report(t) PROVE thread[t] \in Told
  BY <1>3, ThreadKinds DEF Keep, Report
<1>4. ASSUME NEW t \in Thread, Flush(t)
      PROVE  /\ thread'[t].at = "write" /\ thread'[t].for = p
             /\ thread'[t].rows[i] = unsaved[p][i]
  <2>1. p = ProcessOf[t]
    BY <1>0, <1>4 DEF Flush
  <2> QED
    BY <1>4, <2>1, OneTurns DEF Flush
<1>5. ASSUME NEW t \in Thread, WriteFails(t) PROVE FALSE
  <2>1. thread[t] \in Writing
    BY <1>5, ThreadKinds DEF WriteFails
  <2>2. unsaved' = [unsaved EXCEPT ![thread[t].for] = PutBackRows(thread[t].rows, unsaved[thread[t].for])]
    BY <1>5 DEF WriteFails
  <2>3. p = thread[t].for
    BY <1>0, <2>2
  <2> QED
    BY <1>0, <2>1, <2>2, <2>3 DEF Writing, PutBackRows
<1>6. ASSUME NEW q \in Process, Restart(q) PROVE memo'[p] = << >>
  <2>1. p = q
    BY <1>0, <1>6 DEF Restart
  <2> QED
    BY <1>6, <2>1 DEF Restart, ProbeTyped
<1>7. \/ \E t \in Thread : Keep(t) \/ Report(t) \/ Flush(t) \/ WriteFails(t)
      \/ \E q \in Process : Restart(q)
  BY <1>0 DEF ProbeNext, probeVars, LookupStep, Write, Stat, Recall, Fetch, Read, AskMediainfo, Migrate,
              WriteFile, Exchange
<1> QED
  BY <1>1, <1>2, <1>3, <1>4, <1>5, <1>6, <1>7

\* What a step does to the rows that a thread writes: they are in the table, or wait again.
LEMMA WritingKept ==
  ASSUME ProbeTyped, [ProbeNext]_probeVars, NEW t \in Thread,
         thread[t].at = "write", thread'[t] # thread[t]
  PROVE  \/ memo'[thread[t].for] = << >>
         \/ \A i \in Saved(thread[t].rows) :
              table'[i] = thread[t].rows[i] \/ unsaved'[thread[t].for][i] # NoRow
<1> USE ProbeAssumption DEF Files
<1>0. thread[t] \in Writing
  BY ThreadKinds
<1>1. CASE Write(t)
  BY <1>0, <1>1 DEF Write, Writing, Saved
<1>2. CASE WriteFails(t)
  <2>1. unsaved' = [unsaved EXCEPT ![thread[t].for] = PutBackRows(thread[t].rows, unsaved[thread[t].for])]
    BY <1>2 DEF WriteFails
  <2>2. unsaved'[thread[t].for] = PutBackRows(thread[t].rows, unsaved[thread[t].for])
    BY <1>0, <2>1 DEF Writing, ProbeTyped
  <2> QED
    BY <1>0, <2>2 DEF Writing, PutBackRows, Saved
<1>3. ASSUME NEW q \in Process, Restart(q) PROVE memo'[thread[t].for] = << >>
  <2>1. thread[t].for = q
    BY <1>3 DEF Restart
  <2> QED
    BY <1>0, <1>3, <2>1 DEF Restart, ProbeTyped
<1>4. ASSUME NEW u \in Thread, u # t,
             \/ LookupStep(u) \/ Flush(u) \/ Write(u) \/ WriteFails(u)
             \/ \E path \in MediaPath : Stat(u, path)
      PROVE  FALSE
  <2>1. \E s : Turns(u, s)
    BY <1>4 DEF LookupStep, Flush, Write, WriteFails, Stat, Recall, Fetch, Read, AskMediainfo, Keep, Report, KeepIn
  <2> QED
    BY <1>4, <2>1, OneTurns
<1>5. ASSUME \/ LookupStep(t) \/ Flush(t) \/ \E path \in MediaPath : Stat(t, path) PROVE FALSE
  <2>1. thread[t] # Idle
    BY DEF Idle
  <2> QED
    BY <1>5, <2>1 DEF LookupStep, Flush, Stat, Recall, Fetch, Read, AskMediainfo, Keep, Report
<1>6. ASSUME \/ UNCHANGED probeVars \/ Migrate \/ \E i \in Inode : WriteFile(i)
             \/ \E p, q \in MediaPath : Exchange(p, q)
      PROVE  FALSE
  BY <1>6 DEF Migrate, WriteFile, Exchange, probeVars
<1> QED
  BY <1>1, <1>2, <1>3, <1>4, <1>5, <1>6 DEF ProbeNext

\* Rows that were put are not lost before they are written, unless their process ends.
THEOREM RowsAreNotLost == ProbeSpec => RowsAreKept
<1>1. ProbeInit => ProbeTyped
  BY ProbeInitInv DEF ProbeIInv
<1>2. ProbeTyped /\ [ProbeNext]_probeVars => ProbeTyped'
  BY ProbeTypedStep
<1>3. ProbeSpec => []ProbeTyped
  BY <1>1, <1>2, PTL DEF ProbeSpec
<1> DEFINE Saving ==
     /\ \A p \in Process, i \in Inode :
          LET old == unsaved[p][i]  now == unsaved'[p][i] IN
          old # NoRow /\ now # old =>
            \/ memo'[p] = << >>
            \/ now # NoRow /\ now = memo'[p][i]
            \/ \E t \in Thread : thread'[t].at = "write" /\ thread'[t].for = p
                                  /\ (thread'[t].rows[i] = old \/ thread'[t].rows[i] = memo'[p][i])
     /\ \A t \in Thread : thread[t].at = "write" /\ thread'[t] # thread[t] =>
          LET p == thread[t].for IN
          \/ memo'[p] = << >>
          \/ \A i \in Saved(thread[t].rows) : \/ table'[i] = thread[t].rows[i]
                                              \/ unsaved'[p][i] # NoRow
<1>4. ASSUME ProbeTyped, [ProbeNext]_probeVars PROVE Saving
  <2>1. ASSUME NEW p \in Process, NEW i \in Inode, unsaved[p][i] # NoRow, unsaved'[p][i] # unsaved[p][i]
        PROVE  \/ memo'[p] = << >>
               \/ unsaved'[p][i] # NoRow /\ unsaved'[p][i] = memo'[p][i]
               \/ \E t \in Thread :
                    /\ thread'[t].at = "write" /\ thread'[t].for = p
                    /\ thread'[t].rows[i] = unsaved[p][i] \/ thread'[t].rows[i] = memo'[p][i]
    BY <1>4, <2>1, WaitingKept
  <2>2. ASSUME NEW t \in Thread, thread[t].at = "write", thread'[t] # thread[t]
        PROVE  \/ memo'[thread[t].for] = << >>
               \/ \A i \in Saved(thread[t].rows) :
                    table'[i] = thread[t].rows[i] \/ unsaved'[thread[t].for][i] # NoRow
    BY <1>4, <2>2, WritingKept
  <2>3. \A p \in Process, i \in Inode :
          LET old == unsaved[p][i]  now == unsaved'[p][i] IN
          old # NoRow /\ now # old =>
            \/ memo'[p] = << >>
            \/ now # NoRow /\ now = memo'[p][i]
            \/ \E t \in Thread : thread'[t].at = "write" /\ thread'[t].for = p
                                  /\ (thread'[t].rows[i] = old \/ thread'[t].rows[i] = memo'[p][i])
    BY <2>1, Zenon
  <2>4. \A t \in Thread : thread[t].at = "write" /\ thread'[t] # thread[t] =>
          LET p == thread[t].for IN
          \/ memo'[p] = << >>
          \/ \A i \in Saved(thread[t].rows) : \/ table'[i] = thread[t].rows[i]
                                              \/ unsaved'[p][i] # NoRow
    BY <2>2, Zenon
  <2> QED
    BY <2>3, <2>4, Zenon
<1>5. ProbeTyped /\ [ProbeNext]_probeVars => [Saving]_probeVars
  BY <1>4
<1> QED
  BY <1>3, <1>5, PTL DEF ProbeSpec, RowsAreKept

\* As long as no file is renamed between the stat and the verdict of a lookup, no row anywhere
\* tells of another file than its own or of content older than its stamp, and none is lost.
THEOREM RowsTrue ==
  ASSUME Renames \in {"never", "quiet"}
  PROVE  ProbeSpec => RowsAreTrue
<1>1. ProbeInit => ProbeIInv
  BY ProbeInitInv
<1>2. ProbeIInv /\ [ProbeNext]_probeVars => ProbeIInv'
  BY ProbeTypedStep, LookupsStep, RowsStep DEF ProbeIInv
<1>3. ProbeSpec => []ProbeIInv
  BY <1>1, <1>2, PTL DEF ProbeSpec
<1>4. ProbeIInv' => [RowsDescribeTheirFile']_probeVars
  BY DEF ProbeIInv
<1>5. ProbeSpec => [][RowsDescribeTheirFile']_probeVars
  BY <1>3, <1>4, PTL
<1> QED
  BY <1>5, RowsAreNotLost DEF RowsAreTrue

(***************************************************************************)
(* HistoryNavi                                                             *)
(***************************************************************************)
\* A history with its position: where it may be, how long it may be, and that no step in it
\* stands still.
Differ(s)  == \A k \in 1 .. Len(s) - 1 : s[k] # s[k + 1]
SoundHistory(h) ==
  /\ h \in [h : Seq(Places), i : Nat]
  /\ h.i \in 0 .. Len(h.h) /\ (h.i = 0 <=> h.h = << >>)
  /\ MaxHistory > 0 => Len(h.h) <= MaxHistory
  /\ Differ(h.h)

\* What Fork makes of a history: the place is added behind the position, and the oldest one is
\* dropped if there are too many.
LEMMA ForkIs ==
  ASSUME NEW h, SoundHistory(h), NEW d \in Places, h.i > 0 => h.h[h.i] # d
  PROVE  /\ SoundHistory(Fork(h, d))
         /\ Fork(h, d).i > 0 /\ Fork(h, d).h[Fork(h, d).i] = d
         /\ h.i > 0 => Fork(h, d).i > 1 /\ Fork(h, d).h[Fork(h, d).i - 1] = h.h[h.i]
<1> USE HistoryAssumption
<1> DEFINE s == Append(SubSeq(h.h, 1, h.i), d)
<1>0. h.h \in Seq(Places) /\ h.i \in Nat /\ h.i <= Len(h.h) /\ Len(h.h) \in Nat
  BY DEF SoundHistory
<1>d. \A k \in 1 .. Len(h.h) - 1 : h.h[k] # h.h[k + 1]
  BY DEF SoundHistory, Differ
<1>1. /\ SubSeq(h.h, 1, h.i) \in Seq(Places) /\ Len(SubSeq(h.h, 1, h.i)) = h.i
      /\ \A k \in 1 .. h.i : SubSeq(h.h, 1, h.i)[k] = h.h[k]
  BY <1>0
<1>2. /\ s \in Seq(Places) /\ Len(s) = h.i + 1 /\ s[h.i + 1] = d
      /\ \A k \in 1 .. h.i : s[k] = h.h[k]
  BY <1>0, <1>1
<1> HIDE DEF s
<1>3. Differ(s)
  <2> SUFFICES ASSUME NEW k \in 1 .. h.i PROVE s[k] # s[k + 1]
    BY <1>0, <1>2 DEF Differ
  <2>1. CASE k = h.i
    BY <1>0, <1>2, <2>1
  <2>2. CASE k < h.i
    <3>1. h.h[k] # h.h[k + 1]
      BY <1>0, <1>d, <2>2
    <3>2. k \in 1 .. h.i /\ k + 1 \in 1 .. h.i
      BY <1>0, <2>2
    <3>3. s[k] = h.h[k] /\ s[k + 1] = h.h[k + 1]
      BY <1>2, <3>2
    <3> QED
      BY <3>1, <3>3
  <2> QED
    BY <1>0, <2>1, <2>2
<1>4. CASE MaxHistory > 0 /\ Len(s) > MaxHistory
  <2>0. Fork(h, d) = Trim([h |-> s, i |-> h.i + 1])
    BY DEF Fork, Hist, s
  <2>a. Trim([h |-> s, i |-> h.i + 1]) = [h |-> Tail(s), i |-> (h.i + 1) - 1]
    BY <1>4 DEF Trim, Hist
  <2>b. (h.i + 1) - 1 = h.i
    BY <1>0
  <2>1. Fork(h, d) = [h |-> Tail(s), i |-> h.i]
    BY <2>0, <2>a, <2>b
  <2>2. h.i > 1
    BY <1>0, <1>2, <1>4
  <2>3. /\ Tail(s) \in Seq(Places) /\ Len(Tail(s)) = h.i
        /\ \A k \in 1 .. h.i : Tail(s)[k] = s[k + 1]
    BY <1>0, <1>2, <2>2
  <2>4. Differ(Tail(s))
    BY <1>0, <1>2, <1>3, <2>3 DEF Differ
  <2>5. Len(Tail(s)) <= MaxHistory
    BY <1>0, <2>3, <1>4 DEF SoundHistory
  <2>6. SoundHistory(Fork(h, d))
    <3>1. Tail(s) # << >>
      BY <2>2, <2>3
    <3> QED
      BY <1>0, <2>1, <2>2, <2>3, <2>4, <2>5, <3>1 DEF SoundHistory
  <2>7. Tail(s)[h.i] = d /\ Tail(s)[h.i - 1] = h.h[h.i]
    BY <1>0, <1>2, <2>2, <2>3
  <2>8. Fork(h, d).h = Tail(s) /\ Fork(h, d).i = h.i
    BY <2>1
  <2>9. Fork(h, d).h[Fork(h, d).i] = d /\ Fork(h, d).h[Fork(h, d).i - 1] = h.h[h.i]
    BY <2>7, <2>8
  <2>10. Fork(h, d).i > 1 /\ Fork(h, d).i > 0
    BY <1>0, <2>2, <2>8
  <2> QED
    BY <2>6, <2>9, <2>10
<1>5. CASE ~(MaxHistory > 0 /\ Len(s) > MaxHistory)
  <2>0. Fork(h, d) = Trim([h |-> s, i |-> h.i + 1])
    BY DEF Fork, Hist, s
  <2>1. Fork(h, d) = [h |-> s, i |-> h.i + 1]
    BY <1>0, <1>5, <2>0 DEF Trim, Hist
  <2>2. s # << >>
    BY <1>0, <1>2
  <2>3. SoundHistory(Fork(h, d))
    BY <1>0, <1>2, <1>3, <1>5, <2>1, <2>2 DEF SoundHistory
  <2> QED
    BY <1>0, <1>2, <2>1, <2>3
<1> QED
  BY <1>4, <1>5

\* A visited place is where one is then; and one is behind where one was, if that is elsewhere.
LEMMA VisitIs ==
  ASSUME NEW h, SoundHistory(h), NEW d \in Places
  PROVE  /\ SoundHistory(Visit(h, d))
         /\ Visit(h, d).i > 0 /\ Visit(h, d).h[Visit(h, d).i] = d
         /\ h.i > 0 /\ h.h[h.i] # d =>
              Visit(h, d).i > 1 /\ Visit(h, d).h[Visit(h, d).i - 1] = h.h[h.i]
         /\ h.i > 0 /\ h.h[h.i] = d => Visit(h, d) = h
         /\ h.i > 0 /\ h.i < Len(h.h) /\ h.h[h.i] # d /\ h.h[h.i + 1] = d => Visit(h, d).h = h.h
<1>0. h \in [h : Seq(Places), i : Nat] /\ h.i \in Nat /\ Len(h.h) \in Nat
  BY DEF SoundHistory
<1>1. CASE h.i > 0 /\ h.h[h.i] = d
  <2>1. Visit(h, d) = h
    BY <1>1 DEF Visit
  <2> QED
    BY <1>0, <1>1, <2>1
<1>2. CASE h.i > 0 /\ h.h[h.i] # d /\ h.i < Len(h.h) /\ h.h[h.i + 1] = d
  <2>1. Visit(h, d) = [h EXCEPT !.i = @ + 1]
    BY <1>2 DEF Visit
  <2>2. Visit(h, d) \in [h : Seq(Places), i : Nat] /\ Visit(h, d).h = h.h /\ Visit(h, d).i = h.i + 1
    BY <1>0, <2>1
  <2>3. SoundHistory(Visit(h, d))
    BY <1>0, <1>2, <2>2 DEF SoundHistory
  <2> QED
    BY <1>0, <1>2, <2>2, <2>3
<1>3. CASE ~(h.i > 0 /\ h.h[h.i] = d) /\ ~(h.i > 0 /\ h.h[h.i] # d /\ h.i < Len(h.h) /\ h.h[h.i + 1] = d)
  <2>1. Visit(h, d) = Fork(h, d)
    BY <1>3 DEF Visit
  <2> QED
    BY <1>0, <1>3, <2>1, ForkIs
<1> QED
  BY <1>1, <1>2, <1>3

HistIInv == HistTypeOK /\ NoStandstill

\* The variables as a history with its position.
LEMMA HistoryIsSound ==
  ASSUME HistIInv
  PROVE  SoundHistory(Hist(history, at)) /\ Hist(history, at).h = history /\ Hist(history, at).i = at
  BY DEF HistIInv, HistTypeOK, NoStandstill, SoundHistory, Hist, Differ

\* A jump that leads elsewhere: where one was and where one is are the two last visits.
LEMMA JumpIs ==
  ASSUME HistIInv, NEW d \in Places, Jump(d), place' # place
  PROVE  /\ place' = d
         /\ SoundHistory(Hist(history', at'))
         /\ at' > 1 /\ history'[at'] = d /\ history'[at' - 1] = place
         /\ (at \in 1 .. Len(history) - 1 /\ history[at] = place /\ history[at + 1] = d)
              => history' = history
<1> DEFINE h == Hist(history, at)
           v == Visit(h, place)
           w == Visit(v, place')
<1>1. place' = d /\ place \in Places /\ at \in Nat /\ Len(history) \in Nat
  BY DEF Jump, Entering, HistIInv, HistTypeOK
<1>2. SoundHistory(h) /\ h.h = history /\ h.i = at
  BY HistoryIsSound
<1>3. history' = w.h /\ at' = w.i
  BY DEF Jump
<1> HIDE DEF h
<1>4. /\ SoundHistory(v) /\ v.i > 0 /\ v.h[v.i] = place
      /\ h.i > 0 /\ h.h[h.i] = place => v = h
  BY <1>1, <1>2, VisitIs
<1> HIDE DEF v
<1>5. /\ SoundHistory(w) /\ w.i > 1 /\ w.h[w.i] = d /\ w.h[w.i - 1] = place
      /\ v.i < Len(v.h) /\ v.h[v.i + 1] = d => w.h = v.h
  BY <1>1, <1>4, VisitIs
<1> HIDE DEF w
<1>6. SoundHistory(Hist(history', at'))
  BY <1>3, <1>5 DEF SoundHistory, Hist
<1>7. (at \in 1 .. Len(history) - 1 /\ history[at] = place /\ history[at + 1] = d) => history' = history
  BY <1>1, <1>2, <1>3, <1>4, <1>5
<1> QED
  BY <1>1, <1>3, <1>5, <1>6, <1>7

\* Every step keeps the history sound.
LEMMA HistStep ==
  ASSUME HistIInv, [HistNext]_histVars
  PROVE  HistIInv'
<1> USE HistoryAssumption
<1>1. CASE UNCHANGED histVars
  BY <1>1 DEF HistIInv, HistTypeOK, NoStandstill, histVars
<1>2. ASSUME NEW d \in Places, Step(d) PROVE HistIInv'
  BY <1>2 DEF HistIInv, HistTypeOK, NoStandstill, Step, Entering
<1>3. ASSUME NEW d \in Places, Jump(d) PROVE HistIInv'
  <2>1. place' \in Places /\ enters' \in 0 .. MaxEnters
    BY <1>3 DEF Jump, Entering, HistIInv, HistTypeOK
  <2>2. CASE place' = place
    BY <1>3, <2>1, <2>2 DEF Jump, Hist, HistIInv, HistTypeOK, NoStandstill
  <2>3. CASE place' # place
    BY <1>3, <2>1, <2>3, JumpIs DEF SoundHistory, Hist, Differ, HistIInv, HistTypeOK, NoStandstill
  <2> QED
    BY <2>2, <2>3
<1>4. ASSUME NEW n \in {-1, 1}, Go(n) PROVE HistIInv'
  <2>1. history \in Seq(Places) /\ history # << >> /\ Len(history) \in Nat \ {0} /\ at \in 0 .. Len(history)
    BY <1>4 DEF Go, HistIInv, HistTypeOK
  <2>2. at' \in 1 .. Len(history) /\ place' \in {place, history[at']} /\ enters' \in 0 .. MaxEnters
    BY <1>4, <2>1 DEF Go, Entering, HistIInv, HistTypeOK
  <2>3. place' \in Places
    BY <2>1, <2>2 DEF HistIInv, HistTypeOK
  <2> QED
    BY <1>4, <2>1, <2>2, <2>3 DEF Go, HistIInv, HistTypeOK, NoStandstill
<1>5. CASE Clear
  <2>1. history \in Seq(Places) /\ at \in 1 .. Len(history)
    BY <1>5 DEF Clear, HistIInv, HistTypeOK
  <2>2. history' \in Seq(Places) /\ Len(history') = 1 /\ history' # << >> /\ at' = 1
    BY <1>5, <2>1 DEF Clear
  <2> QED
    BY <1>5, <2>2 DEF Clear, HistIInv, HistTypeOK, NoStandstill
<1> QED
  BY <1>1, <1>2, <1>3, <1>4, <1>5 DEF HistNext

\* H and L always lead elsewhere: no two entries of a history in a row are the same, whatever its
\* bound, and the position is always in it.
THEOREM HistoryMoves == HistSpec => [](HistTypeOK /\ NoStandstill)
<1>1. HistInit => HistIInv
  BY HistoryAssumption DEF HistInit, HistIInv, HistTypeOK, NoStandstill
<1>2. HistIInv /\ [HistNext]_histVars => HistIInv'
  BY HistStep
<1> QED
  BY <1>1, <1>2, PTL DEF HistSpec, HistIInv

\* One H after a jump goes back to where one was, for every bound of the history that ranger allows.
THEOREM JumpsGoBack == HistSpec => JumpGoesBack
<1>1. HistSpec => []HistIInv
  BY HistoryMoves DEF HistIInv
<1>2. HistIInv /\ [HistNext]_histVars =>
        [\A d \in Places : Jump(d) /\ place' # place
           => /\ at' > 1 /\ history'[at'] = d /\ history'[at' - 1] = place
              /\ at \in 1 .. Len(history) - 1 /\ history[at] = place /\ history[at + 1] = d
                   => history' = history]_histVars
  BY JumpIs
<1> QED
  BY <1>1, <1>2, PTL DEF HistSpec, JumpGoesBack

----------------------------------------------------------------------------
(***************************************************************************)
(* VdIndex: the inductive invariant                                        *)
(***************************************************************************)
Inside(d) == {e \in Dir \ {Root} : Above[e] = d}
Rec       == [mtime : Nat, links : SUBSET Link, dirs : SUBSET Dir, racy : BOOLEAN]
Tables    == UNION {[ds -> Rec] : ds \in SUBSET Dir}
Listed(set) == [Dir -> SUBSET set] \cup {NoRecords}
Walks == [at : {"idle", "fd", "stat", "start", "walk", "list", "touch"}, mode : ScanModes,
          asked : SUBSET Dir, starts : SUBSET Dir, start : Dir, todo : SUBSET Dir, seen : Tables,
          cur : Dir, cur_mtime : Nat, since : Nat, links : Listed(Link), dirs : Listed(Dir),
          failed : SUBSET Dir]
IndexTyped ==
  /\ content \in [Dir -> SUBSET (Link \cup Dir)] /\ mtime \in [Dir -> Nat] /\ clock \in 0 .. MaxClock
  /\ records \in Tables /\ version \in Nat /\ view \in [version : Int, links : SUBSET (Dir \X Link)]
  /\ visited \in SUBSET Dir /\ unreadable \in SUBSET Dir /\ altered \in SUBSET Dir /\ walk \in Walks

Lookup  == walk.at \in {"fd", "stat", "start", "walk", "list"}
WalkReads == walk.at \in {"stat", "walk", "list"}
Coming  == IF walk.at = "list" THEN walk.todo \cup {walk.cur} ELSE walk.todo
Says(rec, d) == rec.links = content[d] \cap Link /\ rec.dirs = content[d] \cap Dir
Calm(d) == Upward[d] \cap (altered \cup walk.failed) = {}
Right(d) == IF There(d) THEN d \in DOMAIN records /\ Says(records[d], d) ELSE d \notin DOMAIN records

\* What changed since the walk began has an mtime that is no older.
TimesOK ==
  /\ \A d \in Dir : mtime[d] <= clock /\ content[d] \cap Dir \subseteq Inside(d)
  /\ walk.since <= clock /\ walk.cur_mtime <= clock
  /\ Lookup => \A d \in altered : walk.since <= mtime[d]

\* A record that is not racy is older than any change to come, and right while its mtime is that
\* of the directory.
Honest(recs) ==
  \A d \in DOMAIN recs :
    /\ recs[d].dirs \subseteq Inside(d) /\ recs[d].mtime <= clock
    /\ ~recs[d].racy => recs[d].mtime < clock /\ (mtime[d] = recs[d].mtime => Says(recs[d], d))
RecordsOK == Honest(records) /\ Honest(walk.seen)

\* What fd listed is still so where nothing changed.
ListingOK ==
  walk.at \in {"fd", "stat"} =>
    /\ walk.asked = {Root} /\ walk.start = Root
    /\ walk.links # NoRecords =>
         \A d \in Dir \ altered : There(d) => walk.links[d] = content[d] \cap Link
    /\ walk.dirs # NoRecords =>
         /\ \A d \in Dir \ altered : There(d) => walk.dirs[d] = content[d] \cap Dir
         /\ \A d \in Dir : walk.dirs[d] \subseteq Inside(d)
    /\ IF walk.at = "stat" THEN walk.links # NoRecords /\ walk.dirs # NoRecords
       ELSE DOMAIN walk.seen = {}

\* What a walk has seen is right, and what is in it was seen or is still to come, where nothing
\* changed.
ReadingOK ==
  WalkReads =>
    /\ Coming \subseteq Beneath(walk.start)
    /\ \A e \in DOMAIN walk.seen :
         /\ walk.start \in Upward[e]
         /\ Upward[e] \cap altered = {} => There(e) /\ Says(walk.seen[e], e)
         /\ \A f \in walk.seen[e].dirs : Calm(f) => f \in Coming \cup DOMAIN walk.seen
    /\ Calm(walk.start) /\ There(walk.start) => walk.start \in Coming \cup DOMAIN walk.seen

\* A directory that was asked for has the right record, or there is a walk to come above it; or
\* there is no record of the root to begin from.
CoverOK ==
  walk.at \in {"start", "walk", "list"} =>
    \A d \in Dir : Calm(d) /\ Upward[d] \cap walk.asked # {} =>
      \/ Right(d)
      \/ Upward[d] \cap walk.starts # {}
      \/ WalkReads /\ walk.start \in Upward[d]
      \/ Root \notin DOMAIN records

\* A view of this version is of these records.
ViewOK ==
  /\ view.version <= version
  /\ DOMAIN records # {} /\ view.version = version => view.links = LinksOf(records)

IndexSound == TimesOK /\ RecordsOK /\ ListingOK /\ ReadingOK /\ CoverOK /\ ViewOK
IndexIInv  == IndexTyped /\ IndexSound

-----------------------------------------------------------------------------
(* The tree. *)

\* A directory is below itself and the root, and what is in every set that rises from it.
LEMMA UpwardIs ==
  ASSUME NEW d \in Dir
  PROVE  /\ d \in Upward[d] /\ Root \in Upward[d] /\ Upward[d] \subseteq Dir /\ Rising(Upward[d])
         /\ \A set \in SUBSET Dir : d \in set /\ Rising(set) => Upward[d] \subseteq set
<1>1. Root \in Upward[d]
  BY RootedAssumption
<1>2. Upward[d] = {e \in Dir : \A set \in SUBSET Dir : d \in set /\ Rising(set) => e \in set}
  BY DEF Upward
<1>3. Rising(Upward[d])
  <2>1. ASSUME NEW e \in Upward[d] \ {Root}, NEW set \in SUBSET Dir, d \in set, Rising(set)
        PROVE  Above[e] \in set
    BY <1>2, <2>1 DEF Rising
  <2>2. \A e \in Upward[d] \ {Root} : Above[e] \in Dir
    BY <1>2, IndexAssumption
  <2> QED BY <1>2, <2>1, <2>2 DEF Rising
<1> QED BY <1>1, <1>2, <1>3

\* What is above a directory is above what is below it.
LEMMA UpwardOn ==
  ASSUME NEW d \in Dir, NEW e \in Upward[d]
  PROVE  e \in Dir /\ Upward[e] \subseteq Upward[d]
BY UpwardIs

\* A directory is below what the directory above it is below.
LEMMA UpwardStep ==
  ASSUME NEW d \in Dir \ {Root}
  PROVE  Above[d] \in Dir /\ Above[d] \in Upward[d] /\ Upward[d] = {d} \cup Upward[Above[d]]
<1>1. Above[d] \in Dir /\ d \in Dir
  BY IndexAssumption
<1>2. Above[d] \in Upward[d]
  BY <1>1, UpwardIs DEF Rising
<1>3. Upward[Above[d]] \subseteq Upward[d] /\ d \in Upward[d]
  BY <1>1, <1>2, UpwardOn, UpwardIs
<1>4. Rising({d} \cup Upward[Above[d]])
  BY <1>1, UpwardIs DEF Rising
<1>5. Upward[d] \subseteq {d} \cup Upward[Above[d]]
  BY <1>1, <1>4, UpwardIs
<1> QED BY <1>1, <1>2, <1>3, <1>5

\* The root is below itself only.
LEMMA UpwardRoot == Upward[Root] = {Root}
<1>1. Root \in Dir /\ {Root} \in SUBSET Dir /\ Rising({Root})
  BY IndexAssumption DEF Rising
<1> QED BY <1>1, UpwardIs

\* A directory is there when the one above is, and has it.
LEMMA ThereStep ==
  ASSUME NEW d \in Dir \ {Root}
  PROVE  There(d) <=> There(Above[d]) /\ d \in content[Above[d]]
BY UpwardStep DEF There

\* The root is always there.
LEMMA ThereRoot == There(Root)
BY UpwardRoot DEF There

\* What a directory that is there is below is there.
LEMMA ThereOn ==
  ASSUME NEW d \in Dir, There(d), NEW e \in Upward[d]
  PROVE  There(e)
BY UpwardOn DEF There

\* The directory that _locate finds is one that this one is below.
LEMMA NearestIn ==
  ASSUME NEW d \in Dir
  PROVE  Nearest(d) \in Upward[d]
<1> DEFINE known == Located(d)
           set   == {x \in Upward[d] : \A f \in known : f \in Upward[x]}
<1>0. known \subseteq Upward[d]
  BY DEF Located
<1> HIDE DEF known
<1>1. CASE known = {}
  BY <1>1, UpwardIs DEF Nearest, known
<1>2. CASE known # {}
  <2>1. PICK a \in known : TRUE
    BY <1>2
  <2>2. d \in set /\ set \in SUBSET Dir
    BY <1>0, UpwardIs
  <2>3. ASSUME \A x \in set : x \notin known PROVE FALSE
    <3>1. ASSUME NEW x \in set \ {Root} PROVE Above[x] \in set
      <4>1. x \in Dir \ {Root} /\ x \in Upward[d] /\ x \notin known
        BY <2>2, <2>3
      <4>2. Above[x] \in Upward[d]
        BY <4>1, UpwardIs DEF Rising
      <4>3. \A f \in known : f \in Upward[Above[x]]
        BY <4>1, UpwardStep
      <4> QED BY <4>2, <4>3
    <3>2. Rising(set)
      BY <3>1 DEF Rising
    <3>3. a \in set
      BY <2>1, <2>2, <3>2, UpwardIs
    <3> QED BY <2>1, <2>3, <3>3
  <2>4. \E e \in known : \A f \in known : f \in Upward[e]
    BY <2>3
  <2> QED BY <1>0, <1>2, <2>4 DEF Nearest, known
<1> QED BY <1>1, <1>2

-----------------------------------------------------------------------------
(* The types are kept. *)

\* What a table is.
LEMMA TableIs ==
  ASSUME NEW recs
  PROVE  recs \in Tables <=> /\ DOMAIN recs \subseteq Dir /\ recs = [d \in DOMAIN recs |-> recs[d]]
                             /\ \A d \in DOMAIN recs : recs[d] \in Rec
BY DEF Tables

\* No records are a table.
LEMMA NoneTyped ==
  /\ NoRecords \in Tables /\ DOMAIN NoRecords = {}
  /\ \A recs \in Tables : DOMAIN recs = {} => recs = NoRecords
<1>1. DOMAIN NoRecords = {} /\ NoRecords = [d \in DOMAIN NoRecords |-> NoRecords[d]]
  BY DEF NoRecords
<1>2. ASSUME NEW recs \in Tables, DOMAIN recs = {} PROVE recs = NoRecords
  <2>1. recs = [d \in DOMAIN recs |-> recs[d]]
    BY TableIs
  <2> QED BY <1>2, <2>1 DEF NoRecords
<1> QED BY <1>1, <1>2, TableIs

\* A table with a record more is one.
LEMMA WithTyped ==
  ASSUME NEW recs \in Tables, NEW d \in Dir, NEW rec \in Rec
  PROVE  /\ With(recs, d, rec) \in Tables /\ DOMAIN With(recs, d, rec) = DOMAIN recs \cup {d}
         /\ With(recs, d, rec)[d] = rec
         /\ \A e \in DOMAIN recs : e # d => With(recs, d, rec)[e] = recs[e]
<1> DEFINE t == With(recs, d, rec)
<1>1. /\ DOMAIN t = DOMAIN recs \cup {d} /\ t = [e \in DOMAIN t |-> t[e]] /\ t[d] = rec
      /\ \A e \in DOMAIN recs : e # d => t[e] = recs[e]
  BY DEF With
<1>2. DOMAIN recs \subseteq Dir /\ \A e \in DOMAIN recs : recs[e] \in Rec
  BY TableIs
<1> HIDE DEF t
<1>3. DOMAIN t \subseteq Dir /\ \A e \in DOMAIN t : t[e] \in Rec
  BY <1>1, <1>2
<1>4. t \in Tables
  BY <1>1, <1>3, TableIs
<1> QED BY <1>1, <1>4 DEF t

\* The fields of a walk.
LEMMA WalkTyped ==
  ASSUME IndexTyped
  PROVE  /\ walk.start \in Dir /\ walk.cur \in Dir /\ walk.todo \subseteq Dir /\ walk.cur_mtime \in Nat
         /\ walk.since \in Nat /\ walk.asked \subseteq Dir /\ walk.starts \subseteq Dir
         /\ walk.failed \subseteq Dir /\ walk.seen \in Tables /\ DOMAIN walk.seen \subseteq Dir
         /\ walk.links \in Listed(Link) /\ walk.dirs \in Listed(Dir) /\ walk = [walk EXCEPT !.at = walk.at]
BY TableIs DEF IndexTyped, Walks

\* A walk at rest is one.
LEMMA RestTyped == AtRest \in Walks /\ AtRest.seen = NoRecords
BY NoneTyped, IndexAssumption DEF AtRest, Walks, Listed, ScanModes

\* What a record has.
LEMMA RecordIs ==
  ASSUME NEW m \in Nat, NEW links \in SUBSET Link, NEW dirs \in SUBSET Dir, NEW since
  PROVE  /\ Record(m, links, dirs, since) \in Rec
         /\ Record(m, links, dirs, since).mtime = m /\ Record(m, links, dirs, since).links = links
         /\ Record(m, links, dirs, since).dirs = dirs
         /\ ~Record(m, links, dirs, since).racy => m # clock /\ ~(m >= since)
BY DEF Record, Rec, Racy

\* The types hold initially.
LEMMA TypedInit == IndexInit => IndexTyped
<1> SUFFICES ASSUME IndexInit PROVE IndexTyped
  OBVIOUS
<1>1. walk \in Walks /\ records \in Tables
  BY RestTyped, NoneTyped DEF IndexInit
<1> QED BY <1>1, IndexAssumption DEF IndexInit, IndexTyped

\* Every step of other programs keeps them.
LEMMA TypedDisk ==
  ASSUME IndexTyped,
         \/ \E d \in Dir : OnCd(d) \/ \E x \in Link \cup Inside(d) : Change(d, x)
         \/ Pass
  PROVE  IndexTyped'
<1> USE DEF IndexTyped, cacheVars
<1>1. ASSUME NEW d \in Dir, NEW x \in Link \cup Inside(d), Change(d, x) PROVE IndexTyped'
  <2>1. content' \in [Dir -> SUBSET (Link \cup Dir)]
    BY <1>1 DEF Change, Inside
  <2>2. mtime' \in [Dir -> Nat] /\ altered' \in SUBSET Dir
    BY <1>1 DEF Change, Beneath
  <2> QED BY <1>1, <2>1, <2>2 DEF Change
<1>2. ASSUME NEW d \in Dir, OnCd(d) PROVE IndexTyped'
  BY <1>2 DEF OnCd
<1>3. ASSUME Pass PROVE IndexTyped'
  BY <1>3, IndexAssumption DEF Pass
<1> QED BY <1>1, <1>2, <1>3

\* Every step of a lookup before it walks keeps them.
LEMMA TypedList ==
  ASSUME IndexTyped, ListingOK,
         \/ \E mode \in ScanModes : Ensure(mode)
         \/ FdLinks \/ FdDirs \/ FdFails \/ FdDone \/ FdKeep \/ \E d \in Dir : FdStat(d)
  PROVE  IndexTyped'
<1> USE DEF IndexTyped, cacheVars, diskVars
<1>1. ASSUME NEW mode \in ScanModes, Ensure(mode) PROVE IndexTyped'
  <2>1. walk' \in Walks
    <3> DEFINE build  == mode = "rescan" \/ ~Built
               first  == IF build THEN "fd" ELSE "start"
               asked  == IF build \/ mode = "validate" THEN {Root} ELSE
                         IF mode = "visited" THEN visited ELSE {}
               starts == CASE mode = "visited" -> visited
                           [] mode = "validate" /\ ~build -> {Root}
                           [] OTHER -> {}
    <3>1. asked \in SUBSET Dir /\ starts \in SUBSET Dir /\ first \in {"fd", "start"} /\ clock \in Nat
      BY IndexAssumption
    <3>2. walk' = [AtRest EXCEPT !.at = first, !.mode = mode, !.since = clock, !.asked = asked, !.starts = starts]
      BY <1>1 DEF Ensure
    <3> HIDE DEF first, asked, starts
    <3>3. walk' \in [at : {"fd", "start"}, mode : ScanModes, asked : SUBSET Dir, starts : SUBSET Dir,
                     start : Dir, todo : SUBSET Dir, seen : Tables, cur : Dir, cur_mtime : Nat,
                     since : Nat, links : Listed(Link), dirs : Listed(Dir), failed : SUBSET Dir]
      BY <3>1, <3>2, RestTyped DEF Walks
    <3> QED BY <3>3 DEF Walks
  <2> QED BY <1>1, <2>1 DEF Ensure
<1>2. ASSUME FdLinks PROVE IndexTyped'
  <2>1. [d \in Dir |-> IF There(d) THEN content[d] \cap Link ELSE {}] \in Listed(Link)
    BY DEF Listed
  <2>2. walk' \in Walks
    BY <1>2, <2>1 DEF FdLinks, Walks
  <2> QED BY <1>2, <2>2 DEF FdLinks
<1>3. ASSUME FdDirs PROVE IndexTyped'
  <2>1. [d \in Dir |-> IF There(d) THEN content[d] \cap Dir ELSE {}] \in Listed(Dir)
    BY DEF Listed
  <2>2. walk' \in Walks
    BY <1>3, <2>1 DEF FdDirs, Walks
  <2> QED BY <1>3, <2>2 DEF FdDirs
<1>4. ASSUME FdFails PROVE IndexTyped'
  <2>1. walk' \in Walks
    BY <1>4, IndexAssumption DEF FdFails, Walks
  <2> QED BY <1>4, <2>1, NoneTyped DEF FdFails
<1>5. ASSUME FdDone PROVE IndexTyped'
  <2>1. walk' \in Walks
    BY <1>5, IndexAssumption DEF FdDone, Walks
  <2> QED BY <1>5, <2>1 DEF FdDone
<1>6. ASSUME FdKeep PROVE IndexTyped'
  <2>1. walk' \in Walks
    BY <1>6 DEF FdKeep, Walks
  <2>2. walk.seen \in Tables
    BY WalkTyped
  <2> QED BY <1>6, <2>1, <2>2 DEF FdKeep
<1>7. ASSUME NEW d \in Dir, FdStat(d) PROVE IndexTyped'
  <2> DEFINE rec == Record(mtime[d], walk.links[d], walk.dirs[d], walk.since)
  <2>0. walk.links \in [Dir -> SUBSET Link] /\ walk.dirs \in [Dir -> SUBSET Dir]
    BY <1>7, WalkTyped DEF FdStat, ListingOK, Listed
  <2>1. rec \in Rec /\ rec.dirs \subseteq Dir
    BY <2>0, RecordIs
  <2>2. With(walk.seen, d, rec) \in Tables
    BY <2>1, WalkTyped, WithTyped
  <2> HIDE DEF rec
  <2>3. walk' \in Walks
    BY <1>7, <2>1, <2>2 DEF FdStat, rec, Walks
  <2> QED BY <1>7, <2>3 DEF FdStat
<1> QED BY <1>1, <1>2, <1>3, <1>4, <1>5, <1>6, <1>7

\* Every step of a walk keeps them.
LEMMA TypedWalk ==
  ASSUME IndexTyped,
         \/ \E d \in Dir : Refresh(d) \/ StatDir(d) \/ Touch(d)
         \/ ListDir \/ RefreshDone \/ EnsureDone \/ TouchDone
  PROVE  IndexTyped'
<1> USE DEF IndexTyped, cacheVars, diskVars
<1>1. ASSUME NEW d \in Dir, Refresh(d) PROVE IndexTyped'
  <2>1. Nearest(d) \in Dir
    BY NearestIn, UpwardOn
  <2>2. walk' \in Walks
    <3>1. CASE walk' = [walk EXCEPT !.starts = @ \ {d}]
      BY <3>1 DEF Walks
    <3>2. CASE walk' = [walk EXCEPT !.at = "walk", !.starts = @ \ {d}, !.start = Nearest(d),
                                    !.todo = {Nearest(d)}, !.seen = NoRecords]
      BY <2>1, <3>2, NoneTyped DEF Walks
    <3> QED BY <1>1, <3>1, <3>2 DEF Refresh
  <2> QED BY <1>1, <2>2 DEF Refresh
<1>2. ASSUME NEW d \in Dir, StatDir(d) PROVE IndexTyped'
  <2>1. d \in DOMAIN records => With(walk.seen, d, records[d]) \in Tables /\ records[d].dirs \subseteq Dir
    <3>1. d \in DOMAIN records => records[d] \in Rec
      BY TableIs
    <3> QED BY <3>1, WalkTyped, WithTyped DEF Rec
  <2>2. walk' \in Walks
    <3>1. CASE walk' = [walk EXCEPT !.todo = @ \ {d}]
      BY <3>1 DEF Walks
    <3>2. CASE /\ d \in DOMAIN records
               /\ walk' = [walk EXCEPT !.seen = With(@, d, records[d]), !.todo = (@ \ {d}) \cup records[d].dirs]
      BY <2>1, <3>2 DEF Walks
    <3>3. CASE walk' = [walk EXCEPT !.at = "list", !.cur = d, !.cur_mtime = mtime[d], !.todo = @ \ {d}]
      BY <3>3 DEF Walks
    <3> QED BY <1>2, <3>1, <3>2, <3>3 DEF StatDir
  <2> QED BY <1>2, <2>2 DEF StatDir
<1>3. ASSUME NEW d \in Dir, Touch(d) PROVE IndexTyped'
  <2>1. walk' \in Walks
    BY <1>3, RestTyped DEF Touch, Walks
  <2> QED BY <1>3, <2>1 DEF Touch
<1> DEFINE rec == ListedNow(walk.cur, walk.cur_mtime)
<1>r. rec \in Rec /\ rec.dirs \subseteq Dir
  BY WalkTyped, RecordIs DEF ListedNow
<1>4. ASSUME ListDir PROVE IndexTyped'
  <2>1. With(walk.seen, walk.cur, rec) \in Tables
    BY <1>r, WalkTyped, WithTyped
  <2> HIDE DEF rec
  <2>2. walk' \in Walks /\ unreadable' \subseteq Dir
    <3>0. unreadable' \subseteq Dir
      BY <1>4, WalkTyped DEF ListDir
    <3>1. CASE walk' = [walk EXCEPT !.at = "walk", !.seen = With(@, walk.cur, rec), !.todo = @ \cup rec.dirs]
      BY <1>r, <2>1, <3>0, <3>1 DEF Walks
    <3>2. CASE walk' = [walk EXCEPT !.at = "walk"]
      BY <3>0, <3>2 DEF Walks
    <3>3. CASE walk' = [walk EXCEPT !.at = "walk", !.failed = @ \cup {walk.cur}]
      BY <3>0, <3>3 DEF Walks
    <3> QED BY <1>4, <3>1, <3>2, <3>3 DEF ListDir, rec
  <2> QED BY <1>4, <2>2 DEF ListDir
<1>5. ASSUME RefreshDone PROVE IndexTyped'
  <2>1. walk' \in Walks
    BY <1>5 DEF RefreshDone, Walks
  <2>2. version' \in Nat /\ unreadable' \subseteq Dir
    BY <1>5 DEF RefreshDone, Bumped
  <2>3. /\ DOMAIN records' \subseteq DOMAIN records \cup DOMAIN walk.seen
        /\ records' = [d \in DOMAIN records' |-> records'[d]]
        /\ \A d \in DOMAIN records' : records'[d] = IF d \in DOMAIN walk.seen THEN walk.seen[d] ELSE records[d]
    BY <1>5 DEF RefreshDone
  <2>4. records' \in Tables
    <3>1. /\ DOMAIN records \subseteq Dir /\ DOMAIN walk.seen \subseteq Dir
          /\ \A d \in DOMAIN records : records[d] \in Rec
          /\ \A d \in DOMAIN walk.seen : walk.seen[d] \in Rec
      BY TableIs, WalkTyped
    <3>2. \A d \in DOMAIN records' : records'[d] \in Rec
      BY <2>3, <3>1
    <3> QED BY <2>3, <3>1, <3>2, TableIs
  <2> QED BY <1>5, <2>1, <2>2, <2>4 DEF RefreshDone
<1>6. ASSUME EnsureDone PROVE IndexTyped'
  <2>1. LinksOf(records) \subseteq Dir \X Link
    BY TableIs DEF LinksOf, Rec
  <2> QED BY <1>6, <2>1, RestTyped DEF EnsureDone, View
<1>7. ASSUME TouchDone PROVE IndexTyped'
  <2>1. [records EXCEPT ![walk.cur] = rec] \in Tables
    <3> DEFINE t == [records EXCEPT ![walk.cur] = rec]
    <3>1. DOMAIN t = DOMAIN records /\ t = [d \in DOMAIN t |-> t[d]]
          /\ \A d \in DOMAIN t : t[d] = IF d = walk.cur THEN rec ELSE records[d]
      OBVIOUS
    <3> HIDE DEF t
    <3>2. \A d \in DOMAIN t : t[d] \in Rec
      BY <1>r, <3>1, TableIs
    <3>3. t \in Tables
      BY <3>1, <3>2, TableIs
    <3> QED BY <3>3 DEF t
  <2> QED BY <1>7, <2>1, RestTyped DEF TouchDone
<1> QED BY <1>1, <1>2, <1>3, <1>4, <1>5, <1>6, <1>7

-----------------------------------------------------------------------------
(* The invariant is kept: other programs. *)

\* It holds initially.
LEMMA SoundInit == IndexInit => IndexSound
<1> SUFFICES ASSUME IndexInit PROVE IndexSound
  OBVIOUS
<1>1. walk.at = "idle" /\ walk.since = 0 /\ walk.cur_mtime = 0 /\ DOMAIN walk.seen = {} /\ records = NoRecords
  BY NoneTyped DEF IndexInit, AtRest
<1>2. TimesOK
  BY <1>1, IndexAssumption DEF IndexInit, TimesOK, Lookup, Inside
<1>3. RecordsOK
  BY <1>1, NoneTyped DEF RecordsOK, Honest
<1>4. ListingOK /\ ReadingOK /\ CoverOK
  BY <1>1 DEF ListingOK, ReadingOK, WalkReads, CoverOK
<1>5. ViewOK
  BY <1>1, NoneTyped DEF ViewOK, IndexInit
<1> QED BY <1>2, <1>3, <1>4, <1>5 DEF IndexSound

\* A change by another program: it alters what it changes and gives it the mtime of now; what is
\* there afterwards and not altered was there before.
LEMMA ChangeIs ==
  ASSUME IndexTyped, TimesOK, NEW d \in Dir, NEW x \in Link \cup Inside(d), Change(d, x)
  PROVE  /\ altered \subseteq altered' /\ altered' \subseteq Dir
         /\ \A e \in Dir : \/ e \in altered' /\ mtime'[e] = clock
                           \/ mtime'[e] = mtime[e] /\ content'[e] = content[e]
         /\ \A e \in altered' : e \in altered \/ mtime'[e] = clock
         /\ \A e \in Dir \ altered' : content'[e] = content[e] /\ e \notin altered
         /\ \A e \in Dir : content'[e] \cap Dir \subseteq Inside(e)
         /\ \A e \in Dir \ altered' : There(e)' => There(e)
         /\ \A e \in Dir : Upward[e] \cap altered' = {} => (There(e)' <=> There(e))
<1> DEFINE new == IF x \in Dir THEN Beneath(x) ELSE {}
<1>1. /\ altered' = altered \cup {d} \cup new /\ new \subseteq Dir
      /\ mtime' = [e \in Dir |-> IF e = d \/ e \in new THEN clock ELSE mtime[e]]
  BY DEF Change, Beneath
<1>2. \A e \in Dir : /\ e # d /\ e \in new => content'[e] = {}
                     /\ e # d /\ e \notin new => content'[e] = content[e]
                     /\ e = d => content'[e] \subseteq content[d] \cup {x}
  BY DEF Change
<1> HIDE DEF new
<1>3. \A e \in Dir : content[e] \cap Dir \subseteq Inside(e)
  BY DEF TimesOK
<1>4. ASSUME NEW e \in Dir PROVE content'[e] \cap Dir \subseteq Inside(e)
  <2>1. CASE e = d
    BY <1>2, <1>3, <2>1, IndexAssumption
  <2> QED BY <1>2, <1>3, <2>1
<1>5. ASSUME NEW e \in Dir \ altered', There(e)' PROVE There(e)
  <2>1. ASSUME NEW f \in Upward[e] \ {Root}, f \notin content[Above[f]] PROVE FALSE
    <3>1. f \in Dir \ {Root} /\ Above[f] \in Dir
      BY UpwardIs, UpwardStep
    <3>2. f \in content'[Above[f]]
      BY <1>5 DEF There
    <3>3. Above[f] = d /\ f = x
      BY <1>2, <2>1, <3>1, <3>2
    <3>4. e \in new
      BY <3>1, <3>3 DEF new, Beneath
    <3> QED BY <1>1, <1>5, <3>4
  <2> QED BY <2>1 DEF There
<1>6. ASSUME NEW e \in Dir, Upward[e] \cap altered' = {}, There(e) PROVE There(e)'
  <2>1. ASSUME NEW f \in Upward[e] \ {Root} PROVE f \in content'[Above[f]]
    <3>1. f \in Dir \ {Root} /\ Above[f] \in Upward[e] /\ Above[f] \in Dir
      BY UpwardIs, UpwardStep, UpwardOn
    <3>2. Above[f] # d /\ Above[f] \notin new
      BY <1>1, <1>6, <3>1
    <3> QED BY <1>2, <1>6, <3>1, <3>2 DEF There
  <2> QED BY <2>1 DEF There
<1>7. \A e \in Dir : Upward[e] \cap altered' = {} => e \notin altered'
  BY UpwardIs
<1> QED BY <1>1, <1>2, <1>4, <1>5, <1>6, <1>7 DEF IndexTyped

\* Another program changes a directory.
LEMMA ChangeSound ==
  ASSUME IndexIInv, NEW d \in Dir, NEW x \in Link \cup Inside(d), Change(d, x)
  PROVE  IndexSound'
<1> USE DEF IndexIInv, IndexSound
<1>0. walk' = walk /\ clock' = clock /\ records' = records /\ version' = version /\ view' = view
  BY DEF Change, cacheVars
<1>1. /\ altered \subseteq altered' /\ altered' \subseteq Dir
      /\ \A e \in Dir : \/ e \in altered' /\ mtime'[e] = clock
                        \/ mtime'[e] = mtime[e] /\ content'[e] = content[e]
      /\ \A e \in altered' : e \in altered \/ mtime'[e] = clock
      /\ \A e \in Dir \ altered' : content'[e] = content[e] /\ e \notin altered
      /\ \A e \in Dir : content'[e] \cap Dir \subseteq Inside(e)
      /\ \A e \in Dir \ altered' : There(e)' => There(e)
      /\ \A e \in Dir : Upward[e] \cap altered' = {} => (There(e)' <=> There(e))
  BY ChangeIs
<1>2. \A e \in Dir : /\ Upward[e] \cap altered' = {} => Upward[e] \cap altered = {} /\ e \in Dir \ altered'
                     /\ Calm(e)' => Calm(e) /\ Upward[e] \cap altered' = {}
  BY <1>0, <1>1, UpwardIs DEF Calm
<1>3. TimesOK'
  <2>1. clock \in Nat /\ mtime \in [Dir -> Nat] /\ \A e \in Dir : mtime[e] <= clock
    BY DEF IndexTyped, TimesOK
  <2>2. \A e \in Dir : mtime'[e] <= clock'
    BY <1>0, <1>1, <2>1
  <2>3. Lookup => \A e \in altered' : walk.since <= mtime'[e]
    BY <1>1, WalkTyped DEF TimesOK
  <2> QED BY <1>0, <1>1, <2>2, <2>3 DEF TimesOK, Lookup
<1>4. RecordsOK'
  <2>1. ASSUME NEW e \in DOMAIN records
        PROVE  /\ records[e].dirs \subseteq Inside(e) /\ records[e].mtime <= clock
               /\ ~records[e].racy => /\ records[e].mtime < clock
                                      /\ mtime'[e] = records[e].mtime => Says(records[e], e)'
    <3>1. e \in Dir /\ records[e] \in Rec
      BY TableIs DEF IndexTyped
    <3> QED BY <1>0, <1>1, <3>1 DEF RecordsOK, Honest, Says, IndexTyped, Rec
  <2>2. ASSUME NEW e \in DOMAIN walk.seen
        PROVE  /\ walk.seen[e].dirs \subseteq Inside(e) /\ walk.seen[e].mtime <= clock
               /\ ~walk.seen[e].racy => /\ walk.seen[e].mtime < clock
                                        /\ mtime'[e] = walk.seen[e].mtime => Says(walk.seen[e], e)'
    <3>1. e \in Dir /\ walk.seen[e] \in Rec
      BY TableIs, WalkTyped DEF IndexTyped
    <3> QED BY <1>0, <1>1, <3>1 DEF RecordsOK, Honest, Says, IndexTyped, Rec
  <2> QED BY <1>0, <2>1, <2>2 DEF RecordsOK, Honest, Says
<1>5. ListingOK'
  BY <1>0, <1>1 DEF ListingOK
<1>6. ReadingOK'
  <2>1. ASSUME WalkReads, NEW e \in DOMAIN walk.seen, Upward[e] \cap altered' = {}
        PROVE  There(e)' /\ Says(walk.seen[e], e)'
    <3>1. e \in Dir
      BY WalkTyped
    <3> QED BY <1>0, <1>1, <1>2, <2>1, <3>1 DEF ReadingOK, Says
  <2>2. ASSUME WalkReads, NEW e \in DOMAIN walk.seen, NEW f \in walk.seen[e].dirs, Calm(f)'
        PROVE  f \in Coming \cup DOMAIN walk.seen
    <3>1. f \in Dir
      BY WalkTyped DEF RecordsOK, Honest, Inside
    <3> QED BY <1>2, <2>2, <3>1 DEF ReadingOK
  <2>3. ASSUME WalkReads, NEW start \in Dir, start = walk.start, Calm(start)', There(start)'
        PROVE  start \in Coming \cup DOMAIN walk.seen
    BY <1>1, <1>2, <2>3 DEF ReadingOK
  <2> QED BY <1>0, <2>1, <2>2, <2>3, WalkTyped DEF ReadingOK, WalkReads, Coming
<1>7. CoverOK'
  <2>1. ASSUME NEW e \in Dir, Calm(e)', Right(e) PROVE Right(e)'
    BY <1>0, <1>1, <1>2, <2>1 DEF Right, Says
  <2> QED BY <1>0, <1>2, <2>1 DEF CoverOK, WalkReads
<1>8. ViewOK'
  BY <1>0 DEF ViewOK
<1> QED BY <1>3, <1>4, <1>5, <1>6, <1>7, <1>8

\* Time passes, or somebody visits a directory.
LEMMA PassSound ==
  ASSUME IndexIInv, Pass \/ \E d \in Dir : OnCd(d)
  PROVE  IndexSound'
<1>1. /\ UNCHANGED <<content, mtime, records, version, view, walk, altered>>
      /\ clock \in Nat /\ clock' \in Nat /\ clock <= clock'
  BY IndexAssumption DEF Pass, OnCd, cacheVars, IndexIInv, IndexTyped
<1>2. \A d \in Dir : (There(d)' <=> There(d)) /\ (Calm(d)' <=> Calm(d)) /\ (Right(d)' <=> Right(d))
  BY <1>1 DEF There, Calm, Right, Says
<1>3. TimesOK'
  BY <1>1, WalkTyped DEF IndexIInv, IndexSound, IndexTyped, TimesOK, Lookup
<1>4. RecordsOK'
  <2>1. /\ \A e \in DOMAIN records : e \in Dir /\ records[e].mtime \in Nat
        /\ \A e \in DOMAIN walk.seen : e \in Dir /\ walk.seen[e].mtime \in Nat
    BY TableIs, WalkTyped DEF IndexIInv, IndexTyped, Rec
  <2> QED BY <1>1, <2>1 DEF IndexIInv, IndexSound, RecordsOK, Honest, Says
<1>5. ListingOK' /\ ViewOK'
  BY <1>1, <1>2 DEF IndexIInv, IndexSound, ListingOK, ViewOK
<1>6. ReadingOK'
  <2>1. /\ walk.start \in Dir /\ DOMAIN walk.seen \subseteq Dir
        /\ \A e \in DOMAIN walk.seen : walk.seen[e].dirs \subseteq Dir
    BY WalkTyped DEF IndexIInv, IndexSound, RecordsOK, Honest, Inside
  <2> QED BY <1>1, <1>2, <2>1 DEF IndexIInv, IndexSound, ReadingOK, WalkReads, Coming, Says
<1>7. CoverOK'
  BY <1>1, <1>2 DEF IndexIInv, IndexSound, CoverOK, WalkReads
<1> QED BY <1>3, <1>4, <1>5, <1>6, <1>7 DEF IndexSound

-----------------------------------------------------------------------------
(* The invariant is kept: a walk. *)

\* When nothing is to come any more, a walk has seen what is there below its start, where nothing
\* changed.
LEMMA WalkComplete ==
  ASSUME IndexIInv, WalkReads, Coming = {}, NEW d \in Dir, walk.start \in Upward[d], Calm(d)
  PROVE  IF There(d) THEN d \in DOMAIN walk.seen /\ Says(walk.seen[d], d) ELSE d \notin DOMAIN walk.seen
<1> USE DEF IndexIInv, IndexSound
<1>1. /\ walk.start \in Dir /\ DOMAIN walk.seen \subseteq Dir
      /\ \A e \in DOMAIN walk.seen :
           /\ Upward[e] \cap altered = {} => There(e) /\ Says(walk.seen[e], e)
           /\ \A f \in walk.seen[e].dirs : Calm(f) => f \in DOMAIN walk.seen
      /\ Calm(walk.start) /\ There(walk.start) => walk.start \in DOMAIN walk.seen
  BY WalkTyped DEF ReadingOK
<1>2. \A e \in Upward[d] : e \in Dir /\ Calm(e) /\ Upward[e] \cap altered = {}
  BY UpwardOn DEF Calm
<1>3. d \in Upward[d]
  BY UpwardIs
<1>4. ASSUME There(d), d \notin DOMAIN walk.seen PROVE FALSE
  <2> DEFINE unseen == {e \in Upward[d] : e \notin DOMAIN walk.seen}
  <2>1. ASSUME NEW e \in unseen \ {Root} PROVE Above[e] \in unseen
    <3>1. e \in Dir \ {Root} /\ Above[e] \in Upward[d] /\ There(e)
      BY <1>2, <1>4, UpwardIs, ThereOn DEF Rising
    <3>2. e \in content[Above[e]] \cap Dir
      BY <3>1, ThereStep
    <3>3. ASSUME Above[e] \in DOMAIN walk.seen PROVE FALSE
      BY <1>1, <1>2, <3>1, <3>2, <3>3 DEF Says
    <3> QED BY <3>1, <3>3
  <2>2. unseen \in SUBSET Dir /\ Rising(unseen)
    BY <1>2, <2>1 DEF Rising
  <2>3. walk.start \in unseen
    BY <1>3, <1>4, <2>2, UpwardIs
  <2> QED BY <1>1, <1>2, <1>4, <2>3, ThereOn
<1> QED BY <1>1, <1>2, <1>3, <1>4

\* A walk reads a directory that is there.
LEMMA SeenMore ==
  ASSUME IndexIInv, WalkReads, WalkReads', NEW d \in Coming, There(d), NEW rec \in Rec,
         rec.dirs \subseteq Inside(d), d \notin altered => Says(rec, d),
         walk'.start = walk.start, walk'.failed = walk.failed,
         walk'.seen = With(walk.seen, d, rec),
         Coming \ {d} \subseteq Coming', rec.dirs \subseteq Coming', Coming' \subseteq Coming \cup rec.dirs,
         UNCHANGED <<content, mtime, clock, altered>>
  PROVE  ReadingOK'
<1>1. /\ \A e \in Dir : (There(e)' <=> There(e)) /\ (Calm(e)' <=> Calm(e))
      /\ \A e, r : Says(r, e)' <=> Says(r, e)
  BY DEF There, Calm, Says
<1>2. d \in Dir /\ walk.start \in Upward[d]
  BY DEF IndexIInv, IndexSound, ReadingOK, Beneath
<1>3. ASSUME NEW f \in Inside(d) PROVE f \in Dir /\ walk.start \in Upward[f]
  BY <1>2, <1>3, UpwardStep DEF Inside
<1>4. Coming' \subseteq Beneath(walk'.start)
  BY <1>3 DEF IndexIInv, IndexSound, ReadingOK, Beneath
<1>5. /\ DOMAIN walk'.seen = DOMAIN walk.seen \cup {d} /\ walk'.seen[d] = rec
      /\ \A e \in DOMAIN walk.seen : e # d => walk'.seen[e] = walk.seen[e]
      /\ DOMAIN walk.seen \subseteq Dir
      /\ \A e \in DOMAIN walk.seen : walk.seen[e].dirs \subseteq Dir
  <2>1. walk.seen \in Tables /\ DOMAIN walk.seen \subseteq Dir
    BY WalkTyped DEF IndexIInv
  <2>2. \A e \in DOMAIN walk.seen : walk.seen[e].dirs \subseteq Dir
    BY DEF IndexIInv, IndexSound, RecordsOK, Honest, Inside
  <2>3. /\ DOMAIN With(walk.seen, d, rec) = DOMAIN walk.seen \cup {d}
        /\ With(walk.seen, d, rec)[d] = rec
        /\ \A e \in DOMAIN walk.seen : e # d => With(walk.seen, d, rec)[e] = walk.seen[e]
    BY <1>2, <2>1, WithTyped
  <2> QED BY <2>1, <2>2, <2>3
<1>6. ASSUME NEW e \in DOMAIN walk'.seen
      PROVE  /\ walk.start \in Upward[e]
             /\ Upward[e] \cap altered = {} => There(e) /\ Says(walk'.seen[e], e)
             /\ \A f \in walk'.seen[e].dirs : Calm(f) => f \in Coming' \cup DOMAIN walk'.seen
  <2>1. CASE e = d
    BY <1>2, <1>5, <2>1, UpwardIs
  <2>2. CASE e # d
    BY <1>5, <2>2 DEF IndexIInv, IndexSound, ReadingOK
  <2> QED BY <2>1, <2>2
<1>7. Calm(walk.start) /\ There(walk.start) => walk.start \in Coming' \cup DOMAIN walk'.seen
  BY <1>5 DEF IndexIInv, IndexSound, ReadingOK
<1>8. walk.start \in Dir /\ \A e \in DOMAIN walk'.seen : e \in Dir /\ walk'.seen[e].dirs \subseteq Dir
  BY <1>2, <1>3, <1>5, WalkTyped DEF IndexIInv
<1> QED BY <1>1, <1>4, <1>6, <1>7, <1>8 DEF ReadingOK

\* A walk leaves out what is not there or cannot be listed.
LEMMA SeenLess ==
  ASSUME IndexIInv, WalkReads, WalkReads', walk'.start = walk.start, walk.failed \subseteq walk'.failed,
         walk'.seen = walk.seen, Coming' \subseteq Coming,
         \A f \in Coming \ Coming' : There(f) => f \in walk'.failed,
         UNCHANGED <<content, mtime, clock, altered>>
  PROVE  ReadingOK'
<1>1. /\ \A e \in Dir : /\ There(e)' <=> There(e)
                        /\ Calm(e)' => Calm(e) /\ e \notin walk'.failed
      /\ \A e, r : Says(r, e)' <=> Says(r, e)
  BY UpwardIs DEF There, Calm, Says
<1>2. Coming' \subseteq Beneath(walk'.start)
  BY DEF IndexIInv, IndexSound, ReadingOK, Beneath
<1>3. walk.start \in Dir /\ DOMAIN walk.seen \subseteq Dir
  BY WalkTyped DEF IndexIInv
<1>4. ASSUME NEW e \in DOMAIN walk.seen, NEW f \in walk.seen[e].dirs, Calm(f)'
      PROVE  f \in Coming' \cup DOMAIN walk.seen
  <2>1. f \in Dir \ {Root} /\ Above[f] = e /\ e \in Dir
    BY <1>3 DEF IndexIInv, IndexSound, RecordsOK, Honest, Inside
  <2>2. f \in Coming \cup DOMAIN walk.seen
    BY <1>1, <1>4, <2>1 DEF IndexIInv, IndexSound, ReadingOK
  <2>3. ASSUME f \in Coming \ Coming' PROVE FALSE
    <3>1. Upward[e] \cap altered = {}
      BY <1>1, <1>4, <2>1, UpwardStep DEF Calm
    <3>2. There(e) /\ f \in content[e]
      BY <3>1, <2>1 DEF IndexIInv, IndexSound, ReadingOK, Says
    <3>3. There(f)
      BY <2>1, <3>2, ThereStep
    <3> QED BY <1>1, <1>4, <2>1, <2>3, <3>3
  <2> QED BY <2>2, <2>3
<1>5. ASSUME NEW start \in Dir, start = walk.start, Calm(start)', There(start)'
      PROVE  start \in Coming' \cup DOMAIN walk.seen
  BY <1>1, <1>5 DEF IndexIInv, IndexSound, ReadingOK
<1> QED BY <1>1, <1>2, <1>3, <1>4, <1>5 DEF ReadingOK, IndexIInv, IndexSound

-----------------------------------------------------------------------------
(* The invariant is kept: a lookup begins, and fd lists. *)

\* A lookup begins, or one directory is to be read again.
LEMMA BeginSound ==
  ASSUME IndexIInv, (\E mode \in ScanModes : Ensure(mode)) \/ \E d \in Dir : Touch(d)
  PROVE  IndexSound'
<1> USE DEF IndexIInv, IndexSound
<1>1. /\ UNCHANGED <<content, mtime, clock, records, version, view>> /\ altered' = {}
      /\ walk'.since \in Nat /\ walk'.since <= clock /\ walk'.cur_mtime \in Nat /\ walk'.cur_mtime <= clock
      /\ DOMAIN walk'.seen = {} /\ walk'.start = Root /\ walk'.links = NoRecords /\ walk'.dirs = NoRecords
      /\ walk'.at \in {"fd", "start", "touch"}
  <2>1. ASSUME NEW mode \in ScanModes, Ensure(mode)
        PROVE  /\ walk'.since = clock /\ walk'.cur_mtime = 0 /\ walk'.seen = NoRecords /\ walk'.start = Root
               /\ walk'.links = NoRecords /\ walk'.dirs = NoRecords /\ walk'.at \in {"fd", "start"}
               /\ UNCHANGED <<content, mtime, clock, records, version, view>> /\ altered' = {}
    BY <2>1 DEF Ensure, AtRest, diskVars, cacheVars
  <2>2. ASSUME NEW d \in Dir, Touch(d)
        PROVE  /\ walk'.since = 0 /\ walk'.cur_mtime = mtime[d] /\ walk'.seen = NoRecords /\ walk'.start = Root
               /\ walk'.links = NoRecords /\ walk'.dirs = NoRecords /\ walk'.at = "touch"
               /\ UNCHANGED <<content, mtime, clock, records, version, view>> /\ altered' = {}
    BY <2>2 DEF Touch, AtRest, diskVars, cacheVars
  <2>3. clock \in Nat /\ \A d \in Dir : mtime[d] \in Nat /\ mtime[d] <= clock
    BY DEF IndexTyped, TimesOK
  <2> QED BY <2>1, <2>2, <2>3, NoneTyped
<1>2. /\ walk'.at = "fd" => walk'.asked = {Root}
      /\ walk'.at = "start" => walk'.asked \subseteq walk'.starts
  <2>1. ASSUME NEW d \in Dir, Touch(d) PROVE walk'.at = "touch"
    BY <2>1 DEF Touch, AtRest
  <2>2. ASSUME NEW mode \in ScanModes, Ensure(mode), ~(mode = "rescan" \/ ~Built)
        PROVE  walk'.at = "start" /\ walk'.asked \subseteq walk'.starts
    BY <2>2 DEF Ensure, AtRest
  <2>3. ASSUME NEW mode \in ScanModes, Ensure(mode), mode = "rescan" \/ ~Built
        PROVE  walk'.at = "fd" /\ walk'.asked = {Root}
    BY <2>3 DEF Ensure, AtRest
  <2> QED BY <2>1, <2>2, <2>3
<1>3. TimesOK'
  BY <1>1 DEF TimesOK, Lookup
<1>4. RecordsOK'
  BY <1>1 DEF RecordsOK, Honest, Says
<1>5. ListingOK' /\ ReadingOK'
  BY <1>1, <1>2 DEF ListingOK, ReadingOK, WalkReads
<1>6. CoverOK'
  BY <1>1, <1>2 DEF CoverOK, WalkReads
<1>7. ViewOK'
  BY <1>1, <1>2 DEF ViewOK
<1> QED BY <1>3, <1>4, <1>5, <1>6, <1>7

\* fd lists the links, or the directories.
LEMMA ListingSound ==
  ASSUME IndexIInv, FdLinks \/ FdDirs
  PROVE  IndexSound'
<1> USE DEF IndexIInv, IndexSound
<1>1. /\ UNCHANGED <<content, mtime, clock, records, version, view, altered>>
      /\ walk.at = "fd" /\ walk'.at = "fd" /\ walk'.asked = walk.asked /\ walk'.start = walk.start
      /\ walk'.seen = walk.seen /\ walk'.since = walk.since /\ walk'.cur_mtime = walk.cur_mtime
  BY DEF FdLinks, FdDirs, diskVars, cacheVars, IndexTyped, Walks
<1>2. /\ \A d \in Dir : There(d)' <=> There(d)
      /\ \A d \in Dir : content[d] \cap Dir \subseteq Inside(d)
  BY <1>1 DEF There, TimesOK
<1>3. ListingOK'
  <2>1. CASE FdLinks
    <3>1. /\ walk'.links = [d \in Dir |-> IF There(d) THEN content[d] \cap Link ELSE {}]
          /\ walk'.dirs = walk.dirs
      BY <2>1 DEF FdLinks, IndexTyped, Walks
    <3>2. \A d \in Dir : There(d) => walk'.links[d] = content[d] \cap Link
      BY <3>1
    <3> QED BY <1>1, <1>2, <3>1, <3>2 DEF ListingOK
  <2>2. CASE FdDirs
    <3>1. /\ walk'.dirs = [d \in Dir |-> IF There(d) THEN content[d] \cap Dir ELSE {}]
          /\ walk'.links = walk.links
      BY <2>2 DEF FdDirs, IndexTyped, Walks
    <3>2. \A d \in Dir : /\ There(d) => walk'.dirs[d] = content[d] \cap Dir
                         /\ walk'.dirs[d] \subseteq Inside(d)
      BY <1>2, <3>1
    <3> QED BY <1>1, <1>2, <3>1, <3>2 DEF ListingOK
  <2> QED BY <2>1, <2>2
<1>4. TimesOK' /\ ReadingOK' /\ CoverOK' /\ ViewOK'
  BY <1>1 DEF TimesOK, Lookup, ReadingOK, WalkReads, CoverOK, ViewOK
<1>5. RecordsOK'
  BY <1>1 DEF RecordsOK, Honest, Says
<1> QED BY <1>3, <1>4, <1>5

\* fd fails, and the root is walked; or it is done, and the root is to be statted.
LEMMA ListedSound ==
  ASSUME IndexIInv, FdFails \/ FdDone
  PROVE  IndexSound'
<1> USE DEF IndexIInv, IndexSound
<1>1. /\ UNCHANGED <<content, mtime, clock, version, view, altered>>
      /\ walk.at = "fd" /\ walk'.asked = walk.asked /\ walk'.start = Root
      /\ walk'.seen = walk.seen /\ walk'.since = walk.since /\ walk'.cur_mtime = walk.cur_mtime
      /\ walk'.links = walk.links /\ walk'.dirs = walk.dirs /\ walk'.failed = walk.failed
      /\ walk'.todo = {Root} /\ walk.asked = {Root} /\ DOMAIN walk.seen = {}
  BY DEF FdFails, FdDone, diskVars, cacheVars, IndexTyped, Walks, ListingOK
<1>2. \/ walk'.at = "walk" /\ records' = NoRecords
      \/ /\ walk'.at = "stat" /\ records' = records
         /\ walk.links # NoRecords /\ walk.dirs # NoRecords
  <2>1. FdFails => walk'.at = "walk" /\ records' = NoRecords
    BY DEF FdFails, IndexTyped, Walks
  <2>2. FdDone => walk'.at = "stat" /\ records' = records /\ walk.links # NoRecords /\ walk.dirs # NoRecords
    BY DEF FdDone, IndexTyped, Walks, cacheVars
  <2> QED BY <2>1, <2>2
<1>3. TimesOK'
  BY <1>1, <1>2 DEF TimesOK, Lookup
<1>4. RecordsOK'
  BY <1>1, <1>2, NoneTyped DEF RecordsOK, Honest, Says
<1>5. ListingOK'
  BY <1>1, <1>2 DEF ListingOK, There
<1>6. ReadingOK'
  BY <1>1, <1>2, UpwardRoot, IndexAssumption DEF ReadingOK, WalkReads, Coming, Beneath
<1>7. CoverOK'
  BY <1>1, <1>2, UpwardIs DEF CoverOK, WalkReads
<1>8. ViewOK'
  BY <1>1, <1>2, NoneTyped DEF ViewOK
<1> QED BY <1>3, <1>4, <1>5, <1>6, <1>7, <1>8

\* A directory that fd listed is statted.
LEMMA StatSound ==
  ASSUME IndexIInv, NEW d \in Dir, FdStat(d)
  PROVE  IndexSound'
<1> USE DEF IndexIInv, IndexSound
<1> DEFINE rec == Record(mtime[d], walk.links[d], walk.dirs[d], walk.since)
<1>1. /\ UNCHANGED <<content, mtime, clock, records, version, view, altered>>
      /\ walk.at = "stat" /\ walk'.at = "stat" /\ walk'.asked = walk.asked /\ walk'.start = walk.start
      /\ walk'.since = walk.since /\ walk'.cur_mtime = walk.cur_mtime
      /\ walk'.links = walk.links /\ walk'.dirs = walk.dirs /\ walk'.failed = walk.failed
      /\ d \in walk.todo /\ walk.links # NoRecords /\ walk.dirs # NoRecords
      /\ IF There(d) THEN /\ walk'.seen = With(walk.seen, d, rec)
                          /\ walk'.todo = (walk.todo \ {d}) \cup rec.dirs
         ELSE walk'.seen = walk.seen /\ walk'.todo = walk.todo \ {d}
  BY DEF FdStat, diskVars, cacheVars, IndexTyped, Walks, ListingOK
<1>2. walk.links \in [Dir -> SUBSET Link] /\ walk.dirs \in [Dir -> SUBSET Dir] /\ mtime[d] \in Nat
  BY <1>1, WalkTyped DEF Listed, IndexTyped
<1>3. /\ rec \in Rec /\ rec.mtime = mtime[d] /\ rec.links = walk.links[d] /\ rec.dirs = walk.dirs[d]
      /\ ~rec.racy => rec.mtime # clock /\ ~(mtime[d] >= walk.since)
  BY <1>2, RecordIs
<1> HIDE DEF rec
<1>4. rec.dirs \subseteq Inside(d) /\ (There(d) /\ d \notin altered => Says(rec, d))
  BY <1>1, <1>3 DEF ListingOK, Says
<1>5. There(d) /\ ~rec.racy => Says(rec, d) /\ rec.mtime < clock
  <2>1. clock \in Nat /\ mtime[d] <= clock /\ walk.since \in Nat
    BY WalkTyped DEF IndexTyped, TimesOK
  <2>2. d \in altered => walk.since <= mtime[d]
    BY <1>1 DEF TimesOK, Lookup
  <2> QED BY <1>2, <1>3, <1>4, <2>1, <2>2
<1>6. TimesOK' /\ ListingOK' /\ CoverOK' /\ ViewOK'
  BY <1>1 DEF TimesOK, Lookup, ListingOK, There, CoverOK, ViewOK
<1>7. Honest(records)'
  BY <1>1 DEF RecordsOK, Honest, Says
<1>8. Honest(walk.seen)'
  <2>1. CASE ~There(d)
    BY <1>1, <2>1 DEF RecordsOK, Honest, Says
  <2>2. CASE There(d)
    <3>0. walk.seen \in Tables /\ rec \in Rec
      BY <1>3, WalkTyped
    <3>1. /\ DOMAIN With(walk.seen, d, rec) = DOMAIN walk.seen \cup {d}
          /\ With(walk.seen, d, rec)[d] = rec
          /\ \A e \in DOMAIN walk.seen : e # d => With(walk.seen, d, rec)[e] = walk.seen[e]
      BY <3>0, WithTyped
    <3>2. clock \in Nat /\ mtime[d] <= clock
      BY DEF IndexTyped, TimesOK
    <3>3. \A e \in DOMAIN walk'.seen :
            /\ walk'.seen[e].dirs \subseteq Inside(e) /\ walk'.seen[e].mtime <= clock
            /\ ~walk'.seen[e].racy =>
                 walk'.seen[e].mtime < clock /\ (mtime[e] = walk'.seen[e].mtime => Says(walk'.seen[e], e))
      BY <1>1, <1>3, <1>4, <1>5, <2>2, <3>1, <3>2 DEF RecordsOK, Honest
    <3> QED BY <1>1, <3>3 DEF Honest, Says
  <2> QED BY <2>1, <2>2
<1>9. ReadingOK'
  <2>1. WalkReads /\ WalkReads' /\ Coming = walk.todo /\ Coming' = walk'.todo
    BY <1>1 DEF WalkReads, Coming
  <2>2. CASE ~There(d)
    BY <1>1, <2>1, <2>2, SeenLess
  <2>3. CASE There(d)
    BY <1>1, <1>3, <1>4, <2>1, <2>3, SeenMore
  <2> QED BY <2>2, <2>3
<1> QED BY <1>6, <1>7, <1>8, <1>9 DEF RecordsOK

\* What fd listed is kept.
LEMMA KeepSound ==
  ASSUME IndexIInv, FdKeep
  PROVE  IndexSound'
<1>1. /\ UNCHANGED <<content, mtime, clock, view, altered>>
      /\ records' = walk.seen /\ version' = version + 1
      /\ walk.at = "stat" /\ walk.todo = {} /\ walk'.at = "start" /\ walk'.asked = walk.asked
      /\ walk'.start = walk.start /\ walk'.seen = walk.seen /\ walk'.since = walk.since
      /\ walk'.cur_mtime = walk.cur_mtime /\ walk'.failed = walk.failed
      /\ walk.asked = {Root} /\ walk.start = Root
  BY DEF FdKeep, diskVars, IndexIInv, IndexSound, IndexTyped, Walks, ListingOK
<1>2. \A d \in Dir : (There(d)' <=> There(d)) /\ (Calm(d)' <=> Calm(d))
  BY <1>1 DEF There, Calm
<1>3. ASSUME NEW d \in Dir, Calm(d) PROVE Right(d)'
  <2>1. WalkReads /\ Coming = {} /\ walk.start \in Upward[d]
    BY <1>1, UpwardIs DEF WalkReads, Coming
  <2>2. IF There(d) THEN d \in DOMAIN walk.seen /\ Says(walk.seen[d], d) ELSE d \notin DOMAIN walk.seen
    BY <1>3, <2>1, WalkComplete
  <2> QED BY <1>1, <1>2, <2>2 DEF Right, Says
<1>4. TimesOK' /\ ListingOK' /\ ReadingOK'
  BY <1>1 DEF IndexIInv, IndexSound, TimesOK, Lookup, ListingOK, ReadingOK, WalkReads
<1>5. RecordsOK'
  BY <1>1 DEF IndexIInv, IndexSound, RecordsOK, Honest, Says
<1>6. CoverOK'
  BY <1>1, <1>2, <1>3 DEF CoverOK
<1>7. ViewOK'
  BY <1>1 DEF IndexIInv, IndexSound, IndexTyped, ViewOK
<1> QED BY <1>4, <1>5, <1>6, <1>7 DEF IndexSound

\* A walk begins, or there is nowhere to begin.
LEMMA RefreshSound ==
  ASSUME IndexIInv, NEW d \in Dir, Refresh(d)
  PROVE  IndexSound'
<1>1. /\ UNCHANGED <<content, mtime, clock, records, version, view, altered>>
      /\ walk.at = "start" /\ walk'.asked = walk.asked
      /\ walk'.since = walk.since /\ walk'.cur_mtime = walk.cur_mtime /\ walk'.failed = walk.failed
      /\ d \in walk.starts /\ walk'.starts = walk.starts \ {d} /\ ~WalkReads
      /\ \/ walk'.at = "start" /\ walk'.seen = walk.seen /\ Located(d) = {}
         \/ /\ walk'.at = "walk" /\ walk'.start = Nearest(d) /\ walk'.todo = {Nearest(d)}
            /\ walk'.seen = NoRecords
  BY DEF Refresh, WalkReads, diskVars, cacheVars, IndexIInv, IndexTyped, Walks
<1>2. \A e \in Dir : (There(e)' <=> There(e)) /\ (Calm(e)' <=> Calm(e)) /\ (Right(e)' <=> Right(e))
  BY <1>1 DEF There, Calm, Right, Says
<1>3. Nearest(d) \in Upward[d] /\ Nearest(d) \in Dir /\ Nearest(d) \in Upward[Nearest(d)]
  BY NearestIn, UpwardOn, UpwardIs
<1>4. TimesOK' /\ ListingOK' /\ ViewOK'
  BY <1>1 DEF IndexIInv, IndexSound, TimesOK, Lookup, ListingOK, ViewOK
<1>5. RecordsOK'
  BY <1>1, NoneTyped DEF IndexIInv, IndexSound, RecordsOK, Honest, Says
<1>6. ReadingOK'
  BY <1>1, <1>3, NoneTyped DEF ReadingOK, WalkReads, Coming, Beneath
<1>7. CoverOK'
  <2>1. \A e \in Dir : d \in Upward[e] => Nearest(d) \in Upward[e]
    BY <1>3, UpwardOn
  <2>2. walk'.at = "walk" => WalkReads'
    BY DEF WalkReads
  <2>3. Located(d) = {} => Root \notin DOMAIN records
    BY UpwardIs DEF Located
  <2> QED BY <1>1, <1>2, <2>1, <2>2, <2>3 DEF IndexIInv, IndexSound, CoverOK
<1> QED BY <1>4, <1>5, <1>6, <1>7 DEF IndexSound

\* A walk goes on: what a step leaves as it is.
LEMMA WalkOn ==
  ASSUME IndexIInv, walk.at \in {"walk", "list"}, walk'.at \in {"walk", "list"},
         UNCHANGED <<content, mtime, clock, records, version, view, altered>>,
         walk'.asked = walk.asked, walk'.starts = walk.starts, walk'.start = walk.start,
         walk'.since = walk.since, walk'.cur_mtime <= clock, walk.failed \subseteq walk'.failed,
         ReadingOK', Honest(walk.seen)'
  PROVE  IndexSound'
<1> USE DEF IndexIInv, IndexSound
<1>1. \A e \in Dir : (Calm(e)' => Calm(e)) /\ (Right(e)' <=> Right(e))
  BY DEF Calm, Right, There, Says
<1>2. TimesOK' /\ ListingOK' /\ ViewOK'
  BY DEF TimesOK, Lookup, ListingOK, ViewOK
<1>3. Honest(records)'
  BY DEF RecordsOK, Honest, Says
<1>4. CoverOK'
  BY <1>1 DEF CoverOK, WalkReads
<1> QED BY <1>2, <1>3, <1>4 DEF RecordsOK

\* A walk's table stays honest with a record more.
LEMMA MoreHonest ==
  ASSUME IndexIInv, NEW d \in Dir, NEW rec \in Rec, rec.dirs \subseteq Inside(d), rec.mtime <= clock,
         ~rec.racy => rec.mtime < clock /\ (mtime[d] = rec.mtime => Says(rec, d)),
         walk'.seen = With(walk.seen, d, rec), UNCHANGED <<content, mtime, clock>>
  PROVE  Honest(walk.seen)'
<1>1. walk.seen \in Tables
  BY WalkTyped DEF IndexIInv
<1>2. /\ DOMAIN With(walk.seen, d, rec) = DOMAIN walk.seen \cup {d}
      /\ With(walk.seen, d, rec)[d] = rec
      /\ \A e \in DOMAIN walk.seen : e # d => With(walk.seen, d, rec)[e] = walk.seen[e]
  BY <1>1, WithTyped
<1>3. \A e \in DOMAIN walk'.seen :
        /\ walk'.seen[e].dirs \subseteq Inside(e) /\ walk'.seen[e].mtime <= clock
        /\ ~walk'.seen[e].racy =>
             walk'.seen[e].mtime < clock /\ (mtime[e] = walk'.seen[e].mtime => Says(walk'.seen[e], e))
  BY <1>2 DEF IndexIInv, IndexSound, RecordsOK, Honest
<1> QED BY <1>3 DEF Honest, Says

\* A directory is statted: it is gone, its record is good, or it is to be listed.
LEMMA StatDirSound ==
  ASSUME IndexIInv, NEW d \in Dir, StatDir(d)
  PROVE  IndexSound'
<1>1. /\ UNCHANGED <<content, mtime, clock, records, version, view, altered>>
      /\ walk.at = "walk" /\ WalkReads /\ d \in walk.todo /\ Coming = walk.todo
  BY DEF StatDir, diskVars, cacheVars, WalkReads, Coming
<1>2. walk.cur_mtime <= clock /\ mtime[d] <= clock
  BY DEF IndexIInv, IndexSound, TimesOK
<1>3. Honest(walk.seen)' \/ walk'.seen # walk.seen
  BY <1>1 DEF IndexIInv, IndexSound, RecordsOK, Honest, Says
<1>4. CASE ~There(d)
  <2>1. /\ walk'.at = "walk" /\ walk'.asked = walk.asked /\ walk'.starts = walk.starts
        /\ walk'.start = walk.start /\ walk'.since = walk.since /\ walk'.cur_mtime = walk.cur_mtime
        /\ walk'.failed = walk.failed /\ walk'.seen = walk.seen /\ walk'.todo = walk.todo \ {d}
    BY <1>4 DEF StatDir, IndexIInv, IndexTyped, Walks
  <2>2. WalkReads' /\ Coming' = walk'.todo
    BY <2>1 DEF WalkReads, Coming
  <2>3. ReadingOK'
    BY <1>1, <1>4, <2>1, <2>2, SeenLess
  <2> QED BY <1>1, <1>2, <1>3, <2>1, <2>3, WalkOn
<1>5. CASE There(d) /\ d \in DOMAIN records /\ records[d].mtime = mtime[d] /\ ~records[d].racy
  <2>1. /\ walk'.at = "walk" /\ walk'.asked = walk.asked /\ walk'.starts = walk.starts
        /\ walk'.start = walk.start /\ walk'.since = walk.since /\ walk'.cur_mtime = walk.cur_mtime
        /\ walk'.failed = walk.failed /\ walk'.seen = With(walk.seen, d, records[d])
        /\ walk'.todo = (walk.todo \ {d}) \cup records[d].dirs
    BY <1>5 DEF StatDir, IndexIInv, IndexTyped, Walks
  <2>2. WalkReads' /\ Coming' = walk'.todo
    BY <2>1 DEF WalkReads, Coming
  <2>3. /\ records[d] \in Rec /\ records[d].dirs \subseteq Inside(d) /\ records[d].mtime <= clock
        /\ Says(records[d], d) /\ records[d].mtime < clock
    BY <1>5, TableIs DEF IndexIInv, IndexSound, IndexTyped, RecordsOK, Honest
  <2>4. ReadingOK'
    BY <1>1, <1>5, <2>1, <2>2, <2>3, SeenMore
  <2>5. Honest(walk.seen)'
    BY <1>1, <2>1, <2>3, MoreHonest
  <2> QED BY <1>1, <1>2, <2>1, <2>4, <2>5, WalkOn
<1>6. CASE There(d) /\ ~(d \in DOMAIN records /\ records[d].mtime = mtime[d] /\ ~records[d].racy)
  <2>1. /\ walk'.at = "list" /\ walk'.asked = walk.asked /\ walk'.starts = walk.starts
        /\ walk'.start = walk.start /\ walk'.since = walk.since /\ walk'.cur_mtime = mtime[d]
        /\ walk'.failed = walk.failed /\ walk'.seen = walk.seen /\ walk'.todo = walk.todo \ {d}
        /\ walk'.cur = d
    BY <1>6 DEF StatDir, IndexIInv, IndexTyped, Walks
  <2>2. WalkReads' /\ Coming' = Coming
    BY <1>1, <2>1 DEF WalkReads, Coming
  <2>3. ReadingOK'
    BY <1>1, <2>1, <2>2, SeenLess
  <2> QED BY <1>1, <1>2, <1>3, <2>1, <2>3, WalkOn
<1> QED BY <1>4, <1>5, <1>6

\* A directory is listed, is gone, or cannot be read.
LEMMA ListDirSound ==
  ASSUME IndexIInv, ListDir
  PROVE  IndexSound'
<1> DEFINE d   == walk.cur
           rec == ListedNow(d, walk.cur_mtime)
<1>1. /\ UNCHANGED <<content, mtime, clock, records, version, view, altered>>
      /\ walk.at = "list" /\ WalkReads /\ Coming = walk.todo \cup {d} /\ d \in Dir
  BY WalkTyped DEF ListDir, diskVars, cacheVars, WalkReads, Coming, IndexIInv
<1>2. /\ walk'.at = "walk" /\ walk'.asked = walk.asked /\ walk'.starts = walk.starts
      /\ walk'.start = walk.start /\ walk'.since = walk.since /\ walk'.cur_mtime = walk.cur_mtime
      /\ \/ /\ There(d) /\ walk'.failed = walk.failed /\ walk'.seen = With(walk.seen, d, rec)
            /\ walk'.todo = walk.todo \cup rec.dirs
         \/ /\ walk'.seen = walk.seen /\ walk'.todo = walk.todo
            /\ \/ ~There(d) /\ walk'.failed = walk.failed
               \/ walk'.failed = walk.failed \cup {d}
  BY DEF ListDir, IndexIInv, IndexTyped, Walks
<1>3. /\ rec \in Rec /\ rec.mtime = walk.cur_mtime /\ rec.mtime <= clock /\ Says(rec, d)
      /\ rec.dirs \subseteq Inside(d) /\ (~rec.racy => rec.mtime < clock)
  <2>1. content[d] \cap Dir \subseteq Inside(d) /\ walk.cur_mtime <= clock /\ walk.cur_mtime \in Nat
    BY <1>1, WalkTyped DEF IndexIInv, IndexSound, TimesOK
  <2>2. /\ rec \in Rec /\ rec.mtime = walk.cur_mtime /\ rec.links = content[d] \cap Link
        /\ rec.dirs = content[d] \cap Dir /\ (~rec.racy => walk.cur_mtime # clock)
    BY <2>1, RecordIs DEF ListedNow
  <2> QED BY <2>1, <2>2 DEF Says, IndexIInv, IndexTyped
<1> HIDE DEF d, rec
<1>4. walk.failed \subseteq walk'.failed /\ WalkReads' /\ Coming' = walk'.todo
  BY <1>2 DEF WalkReads, Coming
<1>5. ReadingOK'
  <2>1. CASE There(d) /\ walk'.failed = walk.failed /\ walk'.seen = With(walk.seen, d, rec)
             /\ walk'.todo = walk.todo \cup rec.dirs
    BY <1>1, <1>2, <1>3, <1>4, <2>1, SeenMore
  <2>2. CASE /\ walk'.seen = walk.seen /\ walk'.todo = walk.todo
             /\ (~There(d) /\ walk'.failed = walk.failed) \/ walk'.failed = walk.failed \cup {d}
    BY <1>1, <1>2, <1>4, <2>2, SeenLess
  <2> QED BY <1>2, <2>1, <2>2
<1>6. Honest(walk.seen)'
  <2>1. CASE walk'.seen = With(walk.seen, d, rec)
    BY <1>1, <1>3, <2>1, MoreHonest
  <2>2. CASE walk'.seen = walk.seen
    BY <1>1, <2>2 DEF IndexIInv, IndexSound, RecordsOK, Honest, Says
  <2> QED BY <1>2, <2>1, <2>2
<1> QED BY <1>1, <1>2, <1>3, <1>4, <1>5, <1>6, WalkOn

-----------------------------------------------------------------------------
(* The invariant is kept: the end of a walk and of a lookup. *)

\* The links that a view of records has.
LEMMA LinksIs ==
  ASSUME NEW recs, NEW d, NEW l
  PROVE  <<d, l>> \in LinksOf(recs) <=> d \in DOMAIN recs /\ l \in recs[d].links
BY DEF LinksOf

\* Records with the same links have the same view.
LEMMA SameLinks ==
  ASSUME NEW some, NEW other, DOMAIN some = DOMAIN other,
         \A d \in DOMAIN some : some[d].links = other[d].links
  PROVE  LinksOf(some) = LinksOf(other)
BY DEF LinksOf

\* A walk ends: its records take the place of those below its start.
LEMMA RefreshDoneSound ==
  ASSUME IndexIInv, RefreshDone
  PROVE  IndexSound'
<1> DEFINE stale   == (DOMAIN records \cap Beneath(walk.start)) \ DOMAIN walk.seen
           changed == \E d \in DOMAIN walk.seen : d \in DOMAIN records => ~Same(records[d], walk.seen[d])
<1>1. /\ UNCHANGED <<content, mtime, clock, view, altered>>
      /\ walk.at = "walk" /\ walk.todo = {} /\ WalkReads /\ Coming = {}
      /\ walk'.at = "start" /\ walk'.asked = walk.asked /\ walk'.starts = walk.starts
      /\ walk'.start = walk.start /\ walk'.seen = walk.seen /\ walk'.since = walk.since
      /\ walk'.cur_mtime = walk.cur_mtime /\ walk'.failed = walk.failed
  BY DEF RefreshDone, diskVars, WalkReads, Coming, IndexIInv, IndexTyped, Walks
<1>2. /\ DOMAIN records' = (DOMAIN records \ stale) \cup DOMAIN walk.seen
      /\ \A d \in DOMAIN records' :
           records'[d] = IF d \in DOMAIN walk.seen THEN walk.seen[d] ELSE records[d]
      /\ version' = Bumped(stale, changed)
  BY DEF RefreshDone
<1>3. records \in Tables /\ records' \in Tables /\ DOMAIN records \subseteq Dir /\ DOMAIN walk.seen \subseteq Dir
      /\ version \in Nat /\ view.version \in Int /\ walk.start \in Dir
  <2>1. IndexTyped'
    BY TypedWalk DEF IndexIInv
  <2> QED BY <2>1, TableIs, WalkTyped DEF IndexIInv, IndexTyped
<1>4. \A d \in Dir : (There(d)' <=> There(d)) /\ (Calm(d)' <=> Calm(d))
  BY <1>1 DEF There, Calm
<1>5. ASSUME NEW d \in Dir, Calm(d), walk.start \in Upward[d] PROVE Right(d)'
  <2>1. IF There(d) THEN d \in DOMAIN walk.seen /\ Says(walk.seen[d], d) ELSE d \notin DOMAIN walk.seen
    BY <1>1, <1>5, WalkComplete
  <2>2. d \in DOMAIN records /\ d \notin DOMAIN walk.seen => d \in stale
    BY <1>5 DEF Beneath
  <2> HIDE DEF stale
  <2> QED BY <1>1, <1>2, <1>4, <2>1, <2>2 DEF Right, Says
<1>6. ASSUME NEW d \in Dir, Right(d), walk.start \notin Upward[d] PROVE Right(d)'
  <2>1. d \notin stale /\ d \notin DOMAIN walk.seen
    BY <1>1, <1>6 DEF Beneath, IndexIInv, IndexSound, ReadingOK
  <2> HIDE DEF stale
  <2> QED BY <1>1, <1>2, <1>4, <1>6, <2>1 DEF Right, Says
<1>7. ASSUME Root \notin DOMAIN records, NEW d \in Dir, walk.start \notin Upward[d]
      PROVE  Root \notin DOMAIN records'
  <2>1. walk.start \notin Upward[Root]
    BY <1>7, UpwardIs, UpwardRoot
  <2>2. Root \notin DOMAIN walk.seen
    BY <1>1, <2>1 DEF IndexIInv, IndexSound, ReadingOK
  <2> HIDE DEF stale
  <2> QED BY <1>2, <1>7, <2>2
<1>8. TimesOK' /\ ListingOK' /\ ReadingOK'
  BY <1>1 DEF IndexIInv, IndexSound, TimesOK, Lookup, ListingOK, ReadingOK, WalkReads
<1>9. RecordsOK'
  <2> HIDE DEF stale, changed
  <2>1. Honest(walk.seen)'
    BY <1>1 DEF IndexIInv, IndexSound, RecordsOK, Honest, Says
  <2>2. \A d \in DOMAIN records' :
          /\ records'[d].dirs \subseteq Inside(d) /\ records'[d].mtime <= clock
          /\ ~records'[d].racy =>
               records'[d].mtime < clock /\ (mtime[d] = records'[d].mtime => Says(records'[d], d))
    BY <1>2 DEF IndexIInv, IndexSound, RecordsOK, Honest
  <2>3. Honest(records)'
    BY <1>1, <2>2 DEF Honest, Says
  <2> QED BY <2>1, <2>3 DEF RecordsOK
<1>10. CoverOK'
  <2>1. ~WalkReads'
    BY <1>1 DEF WalkReads
  <2> QED BY <1>1, <1>4, <1>5, <1>6, <1>7, <2>1 DEF IndexIInv, IndexSound, CoverOK
<1>11. ViewOK'
  <2>1. version' = version \/ version' = version + 1
    <3> HIDE DEF stale, changed
    <3> QED BY <1>2, <1>3 DEF Bumped
  <2>2. CASE version' = version + 1
    BY <1>1, <1>3, <2>2 DEF IndexIInv, IndexSound, ViewOK
  <2>3. CASE version' = version
    <3>1. stale = {} /\ ~changed
      BY <1>2, <1>3, <2>3 DEF Bumped
    <3>2. DOMAIN records' = DOMAIN records /\ \A d \in DOMAIN records : records'[d].links = records[d].links
      BY <1>2, <3>1 DEF Same
    <3>3. LinksOf(records)' = LinksOf(records)
      BY <3>2, SameLinks
    <3> QED BY <1>1, <2>3, <3>2, <3>3 DEF IndexIInv, IndexSound, ViewOK
  <2> QED BY <2>1, <2>2, <2>3
<1> QED BY <1>8, <1>9, <1>10, <1>11 DEF IndexSound

\* A lookup has its view, or a directory was read again.
LEMMA EndSound ==
  ASSUME IndexIInv, EnsureDone \/ TouchDone
  PROVE  IndexSound'
<1> DEFINE rec == ListedNow(walk.cur, walk.cur_mtime)
<1>1. /\ UNCHANGED <<content, mtime, clock, altered>>
      /\ walk'.at = "idle" /\ walk'.since = 0 /\ walk'.cur_mtime = 0 /\ DOMAIN walk'.seen = {}
      /\ clock \in Nat /\ version \in Nat /\ view.version \in Int /\ view.version <= version
  BY NoneTyped DEF EnsureDone, TouchDone, AtRest, diskVars, IndexIInv, IndexSound, IndexTyped, ViewOK
<1>2. TimesOK' /\ ListingOK' /\ ReadingOK' /\ CoverOK'
  BY <1>1 DEF IndexIInv, IndexSound, TimesOK, Lookup, ListingOK, ReadingOK, WalkReads, CoverOK
<1>3. Honest(records)' /\ ViewOK'
  <2>1. CASE records' = records /\ version' = version /\ (view' = view \/ EnsureDone)
    <3>1. Honest(records)'
      BY <1>1, <2>1 DEF IndexIInv, IndexSound, RecordsOK, Honest, Says
    <3>2. view'.version <= version /\ (DOMAIN records # {} /\ view'.version = version => view'.links = LinksOf(records))
      BY <1>1, <2>1 DEF EnsureDone, View, IndexIInv, IndexSound, ViewOK
    <3> QED BY <1>1, <2>1, <3>1, <3>2 DEF ViewOK
  <2>2. CASE /\ records' = [records EXCEPT ![walk.cur] = rec] /\ version' = version + 1 /\ view' = view
    <3>1. walk.cur \in Dir /\ walk.cur_mtime \in Nat /\ walk.cur_mtime <= clock
      BY WalkTyped DEF IndexIInv, IndexSound, TimesOK
    <3>2. /\ rec.mtime = walk.cur_mtime /\ Says(rec, walk.cur) /\ rec.dirs \subseteq Inside(walk.cur)
          /\ ~rec.racy => walk.cur_mtime # clock
      BY <3>1, RecordIs DEF ListedNow, Says, IndexIInv, IndexSound, TimesOK
    <3> HIDE DEF rec
    <3>3. \A d \in DOMAIN records' :
            /\ records'[d].dirs \subseteq Inside(d) /\ records'[d].mtime <= clock
            /\ ~records'[d].racy =>
                 records'[d].mtime < clock /\ (mtime[d] = records'[d].mtime => Says(records'[d], d))
      BY <1>1, <2>2, <3>1, <3>2 DEF IndexIInv, IndexSound, RecordsOK, Honest
    <3>4. Honest(records)'
      BY <1>1, <3>3 DEF Honest, Says
    <3> QED BY <1>1, <2>2, <3>4 DEF ViewOK
  <2> QED BY <2>1, <2>2 DEF EnsureDone, TouchDone
<1>4. Honest(walk.seen)'
  BY <1>1 DEF Honest
<1> QED BY <1>2, <1>3, <1>4 DEF IndexSound, RecordsOK

-----------------------------------------------------------------------------
(* The theorems. *)

\* The index of symlinks keeps its invariant.
LEMMA IndexInvariance == IndexSpec => []IndexIInv
<1>1. IndexInit => IndexIInv
  BY TypedInit, SoundInit DEF IndexIInv
<1>2. IndexIInv /\ [IndexNext]_indexVars => IndexIInv'
  <2> SUFFICES ASSUME IndexIInv, [IndexNext]_indexVars PROVE IndexIInv'
    OBVIOUS
  <2> USE DEF IndexIInv
  <2>l. IndexTyped /\ ListingOK
    BY DEF IndexSound
  <2>1. ASSUME NEW d \in Dir, NEW x \in Link \cup {e \in Dir \ {Root} : Above[e] = d}, Change(d, x)
        PROVE  IndexIInv'
    BY <2>1, TypedDisk, ChangeSound DEF Inside
  <2>2. ASSUME (\E d \in Dir : OnCd(d)) \/ Pass PROVE IndexIInv'
    BY <2>2, TypedDisk, PassSound
  <2>3. ASSUME \E mode \in ScanModes : Ensure(mode) PROVE IndexIInv'
    BY <2>l, <2>3, TypedList, BeginSound
  <2>4. ASSUME \E d \in Dir : Touch(d) PROVE IndexIInv'
    BY <2>4, TypedWalk, BeginSound
  <2>5. ASSUME FdLinks \/ FdDirs PROVE IndexIInv'
    BY <2>l, <2>5, TypedList, ListingSound
  <2>6. ASSUME FdFails \/ FdDone PROVE IndexIInv'
    BY <2>l, <2>6, TypedList, ListedSound
  <2>7. ASSUME \E d \in Dir : FdStat(d) PROVE IndexIInv'
    BY <2>l, <2>7, TypedList, StatSound
  <2>8. ASSUME FdKeep PROVE IndexIInv'
    BY <2>l, <2>8, TypedList, KeepSound
  <2>9. ASSUME \E d \in Dir : Refresh(d) PROVE IndexIInv'
    BY <2>9, TypedWalk, RefreshSound
  <2>10. ASSUME \E d \in Dir : StatDir(d) PROVE IndexIInv'
    BY <2>10, TypedWalk, StatDirSound
  <2>11. ASSUME ListDir PROVE IndexIInv'
    BY <2>11, TypedWalk, ListDirSound
  <2>12. ASSUME RefreshDone PROVE IndexIInv'
    BY <2>12, TypedWalk, RefreshDoneSound
  <2>13. ASSUME EnsureDone \/ TouchDone PROVE IndexIInv'
    BY <2>13, TypedWalk, EndSound
  <2>14. ASSUME UNCHANGED indexVars PROVE IndexIInv'
    <3>1. IndexTyped'
      BY <2>14 DEF indexVars, diskVars, cacheVars, IndexTyped
    <3>2. IndexSound'
      BY <2>14 DEF indexVars, diskVars, cacheVars, IndexSound, TimesOK, RecordsOK, Honest, ListingOK,
                   ReadingOK, CoverOK, ViewOK, Lookup, WalkReads, Coming, Says, Calm, Right, There
    <3> QED BY <3>1, <3>2
  <2> QED BY <2>1, <2>2, <2>3, <2>4, <2>5, <2>6, <2>7, <2>8, <2>9, <2>10, <2>11, <2>12, <2>13, <2>14
          DEF IndexNext
<1> QED BY <1>1, <1>2, PTL DEF IndexSpec

\* The variables of the index always have their types.
THEOREM IndexTypes == IndexSpec => []IndexTypeOK
<1>1. IndexIInv => IndexTypeOK
  <2> SUFFICES ASSUME IndexIInv PROVE IndexTypeOK
    OBVIOUS
  <2>1. /\ DOMAIN records \subseteq Dir
        /\ \A d \in DOMAIN records : records[d].links \subseteq Link /\ records[d].dirs \subseteq Dir
    BY TableIs DEF IndexIInv, IndexTyped, Rec
  <2>2. mtime \in [Dir -> 0 .. MaxClock]
    BY IndexAssumption DEF IndexIInv, IndexTyped, IndexSound, TimesOK
  <2> QED BY <2>1, <2>2 DEF IndexIInv, IndexTyped, IndexTypeOK, Walks
<1> QED BY <1>1, IndexInvariance, PTL

\* When a lookup gets its view, what the view shows of a directory is what the directory has now,
\* for every directory that the walk had to cover, that it could list, and that did not change
\* since the walk began (with those it is below): whatever changed before, and however close to
\* the last reading (vdsym.py, _Cache.ensure, _refresh, _make_rec and _build).
THEOREM FreshViews == IndexSpec => IndexFresh
<1>1. IndexIInv /\ [IndexNext]_indexVars =>
        [EnsureDone /\ Root \in DOMAIN records => \A d \in Dir : Settled(d) =>
           {l \in Link : <<d, l>> \in view'.links} = IF There(d) THEN content[d] \cap Link ELSE {}]_indexVars
  <2> SUFFICES ASSUME IndexIInv, EnsureDone, Root \in DOMAIN records, NEW d \in Dir, Settled(d)
               PROVE  {l \in Link : <<d, l>> \in view'.links} = IF There(d) THEN content[d] \cap Link ELSE {}
    OBVIOUS
  <2>1. walk.at = "start" /\ walk.starts = {} /\ ~WalkReads
    BY DEF EnsureDone, WalkReads
  <2>2. Calm(d) /\ Upward[d] \cap walk.asked # {}
    BY DEF Settled, Calm
  <2>3. Right(d)
    BY <2>1, <2>2 DEF IndexIInv, IndexSound, CoverOK
  <2>4. view'.links = LinksOf(records)
    BY DEF EnsureDone, View, IndexIInv, IndexSound, ViewOK
  <2>5. \A l : <<d, l>> \in LinksOf(records) <=> d \in DOMAIN records /\ l \in records[d].links
    BY LinksIs
  <2> QED BY <2>3, <2>4, <2>5 DEF Right, Says
<1> QED BY <1>1, IndexInvariance, PTL DEF IndexSpec, IndexFresh
=============================================================================

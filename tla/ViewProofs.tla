----------------------------- MODULE ViewProofs -----------------------------
(***************************************************************************)
(* What is shown, and what is played, from the Virtual Directories:        *)
(*                                                                         *)
(*   - cumulative sizes, vdsize_cumulative.py: what is counted,            *)
(*     DcSize!SizesAreTrue, and what is shown, DcView!DcViewIsTrue;        *)
(*   - the flattened view, cmd_view.py: FlatView!FlatShowsWhatWasShown;    *)
(*   - the tree filter, treefilter.py: TreeFilter!MatchesAreReached;       *)
(*   - the image preview: ImvTracking!TrackingIsUndone;                    *)
(*   - the scene seeker of mpv: SceneSeeker!ScanIsTrue;                    *)
(*   - the command :vdsym, vdsym.py: VdSym!VdsymKeepsItsWord.              *)
(*                                                                         *)
(* Each is proved from an inductive invariant of its component.  The parts *)
(* share no state; they share the lemmas about sequences and numbers.      *)
(***************************************************************************)
EXTENDS DcSize, DcView, FlatView, TreeFilter, ImvTracking, SceneSeeker, VdSym,
        FiniteSetTheorems, WellFoundedInduction, TLAPS

(***************************************************************************)
(* Numbers                                                                 *)
(***************************************************************************)
\* A set of natural numbers has a least one.
LEMMA LeastNat ==
  ASSUME NEW S \in SUBSET Nat, S # {}
  PROVE  \E n \in S : \A m \in S : n <= m
<1>1. IsWellFoundedOn(OpToRel(<, Nat), Nat)
  BY NatLessThanWellFounded
<1>2. PICK n \in S : \A m \in S : ~(<<m, n>> \in OpToRel(<, Nat))
  BY <1>1, WFMin
<1>3. ASSUME NEW m \in S PROVE n <= m
  <2>1. <<m, n>> \in Nat \X Nat
    OBVIOUS
  <2>2. ~ (m < n)
    BY <1>2, <2>1 DEF OpToRel
  <2> QED BY <2>2
<1> QED BY <1>3

\* A set of integers that is bounded below has a least one, which Min is.
LEMMA LeastInt ==
  ASSUME NEW b \in Int, NEW S \in SUBSET Int, S # {}, \A x \in S : b <= x
  PROVE  Min(S) \in S /\ \A x \in S : Min(S) <= x
<1> DEFINE T == {x - b : x \in S}
<1>1. T \subseteq Nat /\ T # {} /\ \A n \in T : \E x \in S : n = x - b
  <2>1. \A x \in S : x - b \in Nat
    OBVIOUS
  <2> QED BY <2>1
<1>2. \A x \in S : x - b \in T
  OBVIOUS
<1> HIDE DEF T
<1>a. PICK n \in T : \A m \in T : n <= m
  BY <1>1, LeastNat
<1>b. PICK y \in S : n = y - b
  BY <1>1
<1>3. ASSUME NEW x \in S PROVE y <= x
  <2>1. y - b <= x - b
    BY <1>2, <1>a, <1>b
  <2> QED BY <2>1
<1>4. \E y1 \in S : \A x \in S : y1 <= x
  BY <1>3
<1> QED BY <1>4 DEF Min

\* A set of integers that is bounded above has a greatest one, which Max is.
LEMMA GreatestInt ==
  ASSUME NEW b \in Int, NEW S \in SUBSET Int, S # {}, \A x \in S : x <= b
  PROVE  Max(S) \in S /\ \A x \in S : Max(S) >= x
<1> DEFINE T == {b - x : x \in S}
<1>1. T \subseteq Nat /\ T # {} /\ \A n \in T : \E x \in S : n = b - x
  <2>1. \A x \in S : b - x \in Nat
    OBVIOUS
  <2> QED BY <2>1
<1>2. \A x \in S : b - x \in T
  OBVIOUS
<1> HIDE DEF T
<1>a. PICK n \in T : \A m \in T : n <= m
  BY <1>1, LeastNat
<1>b. PICK y \in S : n = b - y
  BY <1>1
<1>3. ASSUME NEW x \in S PROVE y >= x
  <2>1. b - y <= b - x
    BY <1>2, <1>a, <1>b
  <2> QED BY <2>1
<1>4. \E y1 \in S : \A x \in S : y1 >= x
  BY <1>3
<1> QED BY <1>4 DEF Max

\* The next of the numbers 0 .. b, below the last one.
LEMMA Mods == ASSUME NEW p \in Nat, NEW b \in Nat, p < b PROVE (p + 1) % (b + 1) = p + 1
OBVIOUS

\* The next of the numbers 0 .. b is one of them.
LEMMA Mods3 == ASSUME NEW p \in Nat, NEW b \in Nat PROVE (p + 1) % (b + 1) \in 0 .. b
OBVIOUS

\* A finite set of numbers can be put in order.
LEMMA IndexOrdered ==
  ASSUME NEW U \in SUBSET Nat, IsFiniteSet(U), NEW S \in SUBSET U
  PROVE  /\ IndexOrder(S) \in Seq(S) /\ Len(IndexOrder(S)) = Cardinality(S)
         /\ \A i, j \in 1 .. Len(IndexOrder(S)) : IndexOrder(S)[i] = IndexOrder(S)[j] => i = j
         /\ \A x \in S : \E i \in 1 .. Len(IndexOrder(S)) : IndexOrder(S)[i] = x
         /\ \A i, j \in 1 .. Len(IndexOrder(S)) : i < j => IndexOrder(S)[i] < IndexOrder(S)[j]
<1> DEFINE Up(q)  == \A i, j \in DOMAIN q : i < j => q[i] < q[j]
           Bad    == {n \in Nat : \E T \in SUBSET U : Cardinality(T) = n /\ ~\E q \in SetToSeqs(T) : Up(q)}
<1>1. ASSUME NEW T \in SUBSET U
      PROVE  IsFiniteSet(T) /\ Cardinality(T) \in Nat
  BY FS_Subset, FS_CardinalityType
<1>2. ASSUME NEW T \in SUBSET U, NEW m \in T, \A x \in T : m <= x,
             NEW r \in SetToSeqs(T \ {m}), Up(r)
      PROVE  \E q \in SetToSeqs(T) : Up(q)
  <2> DEFINE n == Cardinality(T)
             q == [i \in 1 .. n |-> IF i = 1 THEN m ELSE r[i - 1]]
  <2>1. IsFiniteSet(T) /\ n \in Nat /\ Cardinality(T \ {m}) = n - 1 /\ n >= 1
    <3>1. Cardinality(T \ {m}) = n - 1 /\ Cardinality(T \ {m}) \in Nat
      BY <1>1, FS_RemoveElement
    <3> QED BY <1>1, <3>1
  <2>2. r \in [1 .. n - 1 -> T \ {m}] /\ \A i, j \in 1 .. n - 1 : i # j => r[i] # r[j]
    BY <2>1 DEF SetToSeqs
  <2>3. \A i, j \in 1 .. n - 1 : i < j => r[i] < r[j]
    BY <1>2, <2>2
  <2> HIDE DEF n
  <2>4. \A i \in 1 .. n : i # 1 => i - 1 \in 1 .. n - 1 /\ r[i - 1] \in T \ {m}
    BY <2>1, <2>2
  <2>5. q \in [1 .. n -> T] /\ q[1] = m /\ \A i \in 1 .. n : i # 1 => q[i] = r[i - 1]
    BY <2>1, <2>4
  <2> HIDE DEF q
  <2>6. \A i, j \in 1 .. n : i # j => q[i] # q[j]
    <3> SUFFICES ASSUME NEW i \in 1 .. n, NEW j \in 1 .. n, i # j PROVE q[i] # q[j]
      OBVIOUS
    <3>1. CASE i = 1
      BY <3>1, <2>4, <2>5
    <3>2. CASE j = 1
      BY <3>2, <2>4, <2>5
    <3>3. CASE i # 1 /\ j # 1
      <4>1. i - 1 \in 1 .. n - 1 /\ j - 1 \in 1 .. n - 1 /\ i - 1 # j - 1
        BY <2>1, <3>3
      <4> QED BY <2>2, <2>5, <3>3, <4>1
    <3> QED BY <3>1, <3>2, <3>3
  <2>7. \A x \in T \ {m} : m < x
    <3>1. \A x \in T \ {m} : m <= x /\ m # x /\ m \in Nat /\ x \in Nat
      BY <1>2
    <3> QED BY <3>1
  <2>8. \A i, j \in 1 .. n : i < j => q[i] < q[j]
    <3> SUFFICES ASSUME NEW i \in 1 .. n, NEW j \in 1 .. n, i < j PROVE q[i] < q[j]
      OBVIOUS
    <3>1. j # 1
      OBVIOUS
    <3>2. CASE i = 1
      BY <3>1, <3>2, <2>4, <2>5, <2>7
    <3>3. CASE i # 1
      <4>1. i - 1 \in 1 .. n - 1 /\ j - 1 \in 1 .. n - 1 /\ i - 1 < j - 1
        BY <2>1, <3>1, <3>3
      <4> QED BY <2>3, <2>5, <3>1, <3>3, <4>1
    <3> QED BY <3>2, <3>3
  <2>9. q \in SetToSeqs(T)
    BY <2>5, <2>6 DEF SetToSeqs, n
  <2>10. Up(q)
    BY <2>5, <2>8
  <2> QED BY <2>9, <2>10
<1> HIDE DEF Up
<1>3. Bad = {}
  <2> SUFFICES ASSUME Bad # {} PROVE FALSE
    OBVIOUS
  <2>1. PICK n \in Bad : \A k \in Bad : n <= k
    BY LeastNat
  <2>2. PICK T \in SUBSET U : Cardinality(T) = n /\ ~\E q \in SetToSeqs(T) : Up(q)
    OBVIOUS
  <2>3. CASE T = {}
    <3>1. << >> \in SetToSeqs(T) /\ Up(<< >>)
      <4>1. Cardinality({}) = 0 /\ 1 .. 0 = {}
        BY FS_EmptySet
      <4>2. << >> \in [{} -> {}]
        OBVIOUS
      <4> QED BY <2>3, <4>1, <4>2 DEF SetToSeqs, Up
    <3> QED BY <2>2, <3>1
  <2>4. CASE T # {}
    <3>1. PICK m \in T : \A x \in T : m <= x
      BY <2>4, LeastNat
    <3>2. Cardinality(T \ {m}) = n - 1 /\ Cardinality(T \ {m}) \in Nat /\ n \in Nat
      BY <1>1, <2>2, FS_RemoveElement
    <3>3. Cardinality(T \ {m}) \notin Bad
      BY <2>1, <3>2
    <3>4. PICK r \in SetToSeqs(T \ {m}) : Up(r)
      BY <3>2, <3>3
    <3> QED BY <1>2, <2>2, <3>1, <3>4
  <2> QED BY <2>3, <2>4
<1>4. \E q \in SetToSeqs(S) : Up(q)
  BY <1>1, <1>3
<1> DEFINE q == IndexOrder(S)
           n == Cardinality(S)
<1>5. q \in SetToSeqs(S) /\ \A i, j \in DOMAIN q : i < j => q[i] < q[j]
  BY <1>4 DEF IndexOrder, Up
<1>6. n \in Nat /\ IsFiniteSet(S)
  BY <1>1
<1>7. q \in [1 .. n -> S] /\ \A i, j \in 1 .. n : i # j => q[i] # q[j]
  BY <1>5 DEF SetToSeqs
<1>u. \A i, j \in 1 .. n : i < j => q[i] < q[j]
  BY <1>5, <1>7
<1> HIDE DEF q
<1>8. q \in Seq(S) /\ Len(q) = n
  BY <1>6, <1>7
<1>9. \A x \in S : \E i \in 1 .. n : q[i] = x
  <2>1. q \in Injection(1 .. n, S)
    BY <1>7 DEF Injection, IsInjective
  <2>2. Cardinality(1 .. n) = n
    BY <1>6, FS_Interval
  <2>3. q \in Surjection(1 .. n, S)
    BY <1>6, <2>1, <2>2, FS_Injection
  <2> QED BY <2>3 DEF Surjection
<1> QED BY <1>7, <1>8, <1>9, <1>u DEF q

(***************************************************************************)
(* Sequences                                                               *)
(***************************************************************************)
\* Two sequences in a row.
LEMMA JoinedEntries ==
  ASSUME NEW S, NEW s \in Seq(S), NEW t \in Seq(S)
  PROVE  /\ s \o t \in Seq(S) /\ Len(s \o t) = Len(s) + Len(t) /\ Len(s) \in Nat /\ Len(t) \in Nat
         /\ \A i \in 1 .. Len(s) + Len(t) :
              (s \o t)[i] = IF i <= Len(s) THEN s[i] ELSE t[i - Len(s)]
OBVIOUS

\* What remains when one entry is removed: entries of before.
LEMMA RemovedEntry ==
  ASSUME NEW S, NEW s \in Seq(S), NEW k \in 1 .. Len(s)
  PROVE  /\ RemoveAt(s, k) \in Seq(S) /\ Len(RemoveAt(s, k)) = Len(s) - 1
         /\ \A i \in 1 .. Len(s) - 1 : RemoveAt(s, k)[i] = IF i < k THEN s[i] ELSE s[i + 1]
<1> DEFINE a == SubSeq(s, 1, k - 1)
           b == SubSeq(s, k + 1, Len(s))
<1>1. a \in Seq(S) /\ Len(a) = k - 1 /\ \A i \in 1 .. k - 1 : a[i] = s[i]
  OBVIOUS
<1>2. b \in Seq(S) /\ Len(b) = Len(s) - k /\ \A i \in 1 .. Len(s) - k : b[i] = s[i + k]
  OBVIOUS
<1>3. RemoveAt(s, k) = a \o b /\ Len(s) \in Nat
  BY DEF RemoveAt
<1> HIDE DEF a, b
<1>4. /\ a \o b \in Seq(S) /\ Len(a \o b) = Len(a) + Len(b)
      /\ \A i \in 1 .. Len(a) + Len(b) : (a \o b)[i] = IF i <= Len(a) THEN a[i] ELSE b[i - Len(a)]
  BY <1>1, <1>2, JoinedEntries
<1>5. ASSUME NEW i \in 1 .. Len(s) - 1 PROVE (a \o b)[i] = IF i < k THEN s[i] ELSE s[i + 1]
  <2>1. (a \o b)[i] = IF i <= k - 1 THEN a[i] ELSE b[i - (k - 1)]
    BY <1>1, <1>2, <1>3, <1>4
  <2>2. CASE i < k
    BY <1>1, <2>1, <2>2
  <2>3. CASE ~(i < k)
    <3>1. k \in Nat /\ i \in Nat /\ i >= k /\ i <= Len(s) - 1
      BY <1>3, <2>3
    <3>2. i - (k - 1) \in 1 .. Len(s) - k /\ (i - (k - 1)) + k = i + 1
      BY <1>3, <3>1
    <3> QED BY <1>2, <1>3, <2>1, <2>3, <3>1, <3>2
  <2> QED BY <1>3, <2>2, <2>3
<1> QED BY <1>1, <1>2, <1>3, <1>4, <1>5

\* A new entry before the others, each of which is mapped
LEMMA PrependedEntry ==
  ASSUME NEW S, NEW n \in Nat, NEW f \in [1 .. n -> S], NEW x \in S
  PROVE  /\ <<x>> \o f \in Seq(S) /\ Len(<<x>> \o f) = n + 1 /\ (<<x>> \o f)[1] = x
         /\ \A i \in 1 .. n : (<<x>> \o f)[i + 1] = f[i]
<1>1. f \in Seq(S) /\ Len(f) = n
  OBVIOUS
<1>2. <<x>> \in Seq(S) /\ Len(<<x>>) = 1 /\ <<x>>[1] = x
  OBVIOUS
<1> QED
  BY <1>1, <1>2

(***************************************************************************)
(* DcSize: what a size counts                                              *)
(***************************************************************************)
Sized   == [entries : Int, edits : Int, spec : Codec, from : Int, torn : BOOLEAN]
SizesOf == [DcModes -> [Shelf -> Sized]]
DcRow   == [mtime : Int, entries : Int, edits : Int, aged : BOOLEAN, torn : BOOLEAN]
JobOf   == [at : {"todo", "dir", "done", "shown"}, mtime : Int, value : Sized]
LoadOf  == [mode : DcModes, filtered : BOOLEAN, started : BOOLEAN, job : [Shelf -> JobOf],
            anew : BOOLEAN, entries : [Shelf -> Nat], edits : [Shelf -> Nat], settled : [Shelf -> Nat]]
SnapOf  == [size : SizesOf, linemode : [Shelf -> DcModes \cup {"plain"}],
            filter : DcModes \cup {"none"}]
SizesTyped ==
  /\ entries \in [Shelf -> Nat] /\ edits \in [Shelf -> Nat] /\ dirTime \in [Shelf -> Nat]
  /\ row \in [Shelf -> DcRow] /\ spec \in Codec /\ fresh \in BOOLEAN /\ size \in SizesOf
  /\ linemode \in [Shelf -> DcModes \cup {"plain"}] /\ filter \in DcModes \cup {"none"}
  /\ snap \in Seq(SnapOf) /\ Len(snap) <= 1 /\ loads \in Seq(LoadOf)

\* A row was read after its mtime was taken, if it could be; and no mtime is ahead of its entries.
RowsCount ==
  \A d \in Shelf : /\ dirTime[d] <= entries[d]
                   /\ row[d] # NoDcRow => /\ 0 <= row[d].mtime
                                          /\ row[d].torn \/ row[d].mtime <= row[d].entries
                   /\ row[d].edits # -1 => row[d].edits \in Nat

\* What was counted for a task counts what it has to; "fresh" is still said when a task goes by it.
JobCounts(l, d) ==
  /\ l.entries[d] <= entries[d] /\ l.edits[d] <= edits[d]
  /\ l.settled[d] <= dirTime[d] /\ l.settled[d] <= l.entries[d]
  /\ l.job[d].at = "dir" => l.settled[d] <= l.job[d].mtime /\ l.job[d].mtime <= dirTime[d]
  /\ l.job[d].at = "done" => EnoughIsCounted(l.job[d].value, l, d)
  /\ l.anew => fresh
LoadsCount == \A i \in DOMAIN loads : \A d \in Shelf : JobCounts(loads[i], d)

\* What is known of videos is counted for the codecs of now, if those change only while no task
\* goes on, and a snapshot has been taken when nothing was counted.
CodecsOfNow ==
  /\ \A d \in Shelf : size["video"][d] # Unsized => size["video"][d].spec = spec
  /\ \A i \in DOMAIN loads : \A d \in Shelf :
       loads[i].job[d].at = "done" => loads[i].job[d].value.spec = spec
  /\ snap # << >> => \A d \in Shelf : snap[1].size["video"][d] = Unsized
  /\ snap = << >> => loads = << >> /\ \A d \in Shelf : size["video"][d] = Unsized

SizesIInv == SizesTyped /\ RowsCount /\ LoadsCount

\* Every task is one.
LEMMA EachLoad ==
  ASSUME SizesTyped, NEW i \in DOMAIN loads
  PROVE  /\ loads[i] \in LoadOf /\ loads[i].mode \in DcModes /\ loads[i].job \in [Shelf -> JobOf]
         /\ loads[i].entries \in [Shelf -> Nat] /\ loads[i].edits \in [Shelf -> Nat]
         /\ loads[i].settled \in [Shelf -> Nat] /\ loads[i].anew \in BOOLEAN
         /\ \A d \in Shelf : loads[i].job[d] \in JobOf /\ loads[i].job[d].mtime \in Int
                              /\ loads[i].job[d].value \in Sized
<1>1. DOMAIN loads = 1 .. Len(loads)
  BY DEF SizesTyped
<1>2. loads[i] \in LoadOf
  BY <1>1 DEF SizesTyped
<1>3. loads[i].job \in [Shelf -> JobOf]
  BY <1>2 DEF LoadOf
<1>4. \A d \in Shelf : loads[i].job[d] \in JobOf
  BY <1>3
<1> QED BY <1>2, <1>3, <1>4 DEF LoadOf, JobOf

\* In the beginning nothing is counted.
LEMMA SizesBegin == DcInit => SizesIInv /\ CodecsOfNow
<1> SUFFICES ASSUME DcInit PROVE SizesIInv /\ CodecsOfNow
  OBVIOUS
<1>1. Unsized \in Sized /\ NoDcRow \in DcRow
  BY DcAssumption DEF Unsized, Sized, NoDcRow, DcRow
<1>2. /\ size \in SizesOf /\ row \in [Shelf -> DcRow] /\ snap \in Seq(SnapOf) /\ Len(snap) = 0
      /\ loads \in Seq(LoadOf) /\ DOMAIN loads = {}
  <2>1. size \in SizesOf /\ row \in [Shelf -> DcRow]
    BY <1>1 DEF DcInit, SizesOf
  <2>2. snap = << >> /\ loads = << >>
    BY DEF DcInit
  <2> QED BY <2>1, <2>2
<1>3. SizesTyped
  <2>1. /\ entries \in [Shelf -> Nat] /\ edits \in [Shelf -> Nat] /\ spec \in Codec
        /\ dirTime \in [Shelf -> Nat] /\ linemode \in [Shelf -> DcModes \cup {"plain"}] /\ filter \in DcModes \cup {"none"}
    BY DcAssumption DEF DcInit
  <2>2. fresh \in BOOLEAN
    BY Zenon DEF DcInit
  <2> QED BY <1>2, <2>1, <2>2 DEF SizesTyped
<1>4. RowsCount /\ LoadsCount
  BY <1>2 DEF DcInit, RowsCount, LoadsCount, NoDcRow
<1>5. CodecsOfNow
  BY <1>2 DEF DcInit, CodecsOfNow, DcModes
<1> QED BY <1>3, <1>4, <1>5 DEF SizesIInv

\* Changes of the disk make nothing that was counted too much.
LEMMA DiskStep ==
  ASSUME SizesIInv, NEW d \in Shelf, NEW later \in BOOLEAN, AddEntry(d, later) \/ EditFile(d)
  PROVE  SizesIInv' /\ (CodecsOfNow => CodecsOfNow')
<1>1. /\ row' = row /\ spec' = spec /\ fresh' = fresh /\ size' = size /\ linemode' = linemode
      /\ filter' = filter /\ snap' = snap /\ loads' = loads
  BY DEF AddEntry, EditFile, dcShow
<1>2. /\ entries' \in [Shelf -> Nat] /\ edits' \in [Shelf -> Nat] /\ dirTime' \in [Shelf -> Nat]
      /\ \A e \in Shelf : /\ entries[e] <= entries'[e] /\ edits[e] <= edits'[e]
                           /\ dirTime[e] <= dirTime'[e] /\ dirTime'[e] <= entries'[e]
  <2>1. /\ entries \in [Shelf -> Nat] /\ edits \in [Shelf -> Nat] /\ dirTime \in [Shelf -> Nat]
        /\ \A e \in Shelf : dirTime[e] <= entries[e]
    BY DEF SizesIInv, SizesTyped, RowsCount
  <2>2. CASE AddEntry(d, later)
    BY <2>1, <2>2 DEF AddEntry
  <2>3. CASE EditFile(d)
    BY <2>1, <2>3 DEF EditFile
  <2> QED BY <2>2, <2>3
<1>3. SizesTyped' /\ RowsCount' /\ (CodecsOfNow => CodecsOfNow')
  BY <1>1, <1>2 DEF SizesIInv, SizesTyped, RowsCount, CodecsOfNow
<1>4. DOMAIN loads = 1 .. Len(loads)
  BY DEF SizesIInv, SizesTyped
<1>5. LoadsCount'
  <2> SUFFICES ASSUME NEW i \in DOMAIN loads, NEW e \in Shelf PROVE JobCounts(loads[i], e)'
    BY <1>1 DEF LoadsCount
  <2>1. loads[i] \in LoadOf /\ JobCounts(loads[i], e)
    BY <1>4 DEF SizesIInv, SizesTyped, LoadsCount
  <2>2. /\ loads[i].entries[e] \in Nat /\ loads[i].edits[e] \in Nat /\ loads[i].job[e].mtime \in Int
        /\ loads[i].settled[e] \in Nat /\ dirTime[e] \in Nat /\ dirTime'[e] \in Nat
        /\ entries[e] \in Nat /\ edits[e] \in Nat /\ entries'[e] \in Nat /\ edits'[e] \in Nat
    BY <1>2, <2>1 DEF LoadOf, JobOf, SizesIInv, SizesTyped
  <2> QED BY <1>1, <1>2, <2>1, <2>2 DEF JobCounts, EnoughIsCounted
<1> QED BY <1>3, <1>5 DEF SizesIInv

\* A day that goes by makes rows older, and does nothing else.
LEMMA DayStep ==
  ASSUME SizesIInv, DayPasses
  PROVE  SizesIInv' /\ (CodecsOfNow => CodecsOfNow')
<1>1. \A d \in Shelf : \/ row'[d] = row[d]
                       \/ row[d] # NoDcRow /\ row'[d] = [row[d] EXCEPT !.aged = TRUE]
  BY DEF DayPasses
<1>2. /\ row' \in [Shelf -> DcRow]
      /\ \A d \in Shelf : row'[d].mtime = row[d].mtime /\ row'[d].entries = row[d].entries
                          /\ row'[d].edits = row[d].edits /\ row'[d].torn = row[d].torn
  <2>1. row' = [d \in Shelf |-> row'[d]]
    BY DEF DayPasses
  <2>2. \A d \in Shelf : row[d] \in DcRow
    BY DEF SizesIInv, SizesTyped
  <2>3. \A d \in Shelf : row'[d] \in DcRow /\ row'[d].mtime = row[d].mtime
                         /\ row'[d].entries = row[d].entries /\ row'[d].edits = row[d].edits
                         /\ row'[d].torn = row[d].torn
    BY <1>1, <2>2 DEF DcRow
  <2> QED BY <2>1, <2>3
<1>3. SizesTyped'
  BY <1>2 DEF SizesIInv, SizesTyped, DayPasses, dcDisk, dcShow
<1>4. RowsCount'
  <2> SUFFICES ASSUME NEW d \in Shelf
               PROVE  /\ row'[d] # NoDcRow => /\ 0 <= row'[d].mtime
                                              /\ row'[d].torn \/ row'[d].mtime <= row'[d].entries
                      /\ row'[d].edits # -1 => row'[d].edits \in Nat
    BY DEF RowsCount, SizesIInv, DayPasses, dcDisk
  <2> QED BY <1>1, <1>2 DEF SizesIInv, RowsCount
<1>5. LoadsCount' /\ (CodecsOfNow => CodecsOfNow')
  BY DEF SizesIInv, LoadsCount, JobCounts, EnoughIsCounted, CodecsOfNow, DayPasses, dcDisk, dcShow
<1> QED BY <1>3, <1>4, <1>5 DEF SizesIInv

\* What becomes of a job: a mtime is taken, a value counted and shown.
Stated(r, n)  == [r EXCEPT !.at = "dir", !.mtime = n]
Valued(r, v)  == [r EXCEPT !.at = "done", !.value = v]
RowsShown(r)      == [r EXCEPT !.at = "shown"]

\* A job is a record.
LEMMA JobChanges ==
  ASSUME NEW r \in JobOf
  PROVE  /\ \A n \in Int : Stated(r, n) \in JobOf /\ Stated(r, n).at = "dir" /\ Stated(r, n).mtime = n
         /\ \A v \in Sized : Valued(r, v) \in JobOf /\ Valued(r, v).at = "done" /\ Valued(r, v).value = v
         /\ RowsShown(r) \in JobOf /\ RowsShown(r).at = "shown"
<1>1. ASSUME NEW n \in Int PROVE Stated(r, n) \in JobOf
  BY DEF JobOf, Stated
<1>2. ASSUME NEW v \in Sized PROVE Valued(r, v) \in JobOf
  BY DEF JobOf, Valued
<1>3. RowsShown(r) \in JobOf
  BY DEF JobOf, RowsShown
<1>4. r = [at |-> r.at, mtime |-> r.mtime, value |-> r.value]
  BY DEF JobOf
<1>5. \A v : Valued(r, v).at = "done" /\ Valued(r, v).value = v
  BY <1>4 DEF Valued
<1>6. \A n : Stated(r, n).at = "dir" /\ Stated(r, n).mtime = n
  BY <1>4 DEF Stated
<1>7. RowsShown(r).at = "shown"
  BY <1>4 DEF RowsShown
<1> QED BY <1>1, <1>2, <1>3, <1>5, <1>6, <1>7

\* A task that is worked on changes in one directory only, and not in what it has to count.
Worked(i, d, j) ==
  /\ i \in DOMAIN loads /\ d \in Shelf /\ j \in JobOf
  /\ loads' = [loads EXCEPT ![i].job[d] = j]

\* Which of the facts about tasks are about the one that changed.
LEMMA WorkedStep ==
  ASSUME SizesTyped, LoadsCount, NEW i, NEW d, NEW j, Worked(i, d, j),
         entries' = entries, edits' = edits, dirTime' = dirTime, fresh' = fresh,
         j.at = "dir" => loads[i].settled[d] <= j.mtime /\ j.mtime <= dirTime[d],
         j.at = "done" => EnoughIsCounted(j.value, loads[i], d)
  PROVE  /\ loads' \in Seq(LoadOf) /\ LoadsCount' /\ loads # << >>
         /\ (\A k \in DOMAIN loads : \A e \in Shelf :
               loads[k].job[e].at = "done" => loads[k].job[e].value.spec = spec)
            /\ (j.at = "done" => j.value.spec = spec)
            => \A k \in DOMAIN loads' : \A e \in Shelf :
                 loads'[k].job[e].at = "done" => loads'[k].job[e].value.spec = spec
<1>1. DOMAIN loads = 1 .. Len(loads) /\ i \in 1 .. Len(loads) /\ loads # << >> /\ loads[i] \in LoadOf
      /\ d \in Shelf /\ j \in JobOf
  BY DEF SizesTyped, Worked
<1> DEFINE new == [loads[i] EXCEPT !.job[d] = j]
<1>2. /\ new \in LoadOf /\ new.mode = loads[i].mode /\ new.entries = loads[i].entries
      /\ new.edits = loads[i].edits /\ new.settled = loads[i].settled /\ new.anew = loads[i].anew
      /\ new.job[d] = j
      /\ \A e \in Shelf : e # d => new.job[e] = loads[i].job[e]
  BY <1>1 DEF LoadOf
<1>3. loads' = [loads EXCEPT ![i] = new]
  BY DEF Worked
<1> HIDE DEF new
<1>4. /\ loads' \in Seq(LoadOf) /\ DOMAIN loads' = DOMAIN loads /\ loads'[i] = new
      /\ \A k \in DOMAIN loads : k # i => loads'[k] = loads[k]
  BY <1>1, <1>2, <1>3 DEF SizesTyped
<1>5. ASSUME NEW k \in DOMAIN loads', NEW e \in Shelf PROVE JobCounts(loads[k], e)'
  <2>1. JobCounts(loads[k], e) /\ JobCounts(loads[i], d)
    BY <1>1, <1>4, <1>5 DEF LoadsCount
  <2>2. CASE k # i
    BY <1>4, <1>5, <2>1, <2>2 DEF JobCounts, EnoughIsCounted
  <2>3. CASE k = i /\ e # d
    BY <1>2, <1>4, <2>1, <2>3 DEF JobCounts, EnoughIsCounted
  <2>4. CASE k = i /\ e = d
    BY <1>2, <1>4, <2>1, <2>4 DEF JobCounts, EnoughIsCounted
  <2> QED BY <2>2, <2>3, <2>4
<1>6. LoadsCount'
  BY <1>5 DEF LoadsCount
<1>7. ASSUME \A k \in DOMAIN loads : \A e \in Shelf :
               loads[k].job[e].at = "done" => loads[k].job[e].value.spec = spec,
             j.at = "done" => j.value.spec = spec,
             NEW k \in DOMAIN loads', NEW e \in Shelf
      PROVE  loads'[k].job[e].at = "done" => loads'[k].job[e].value.spec = spec
  BY <1>1, <1>2, <1>4, <1>7
<1> QED BY <1>1, <1>4, <1>6, <1>7

\* The directory's mtime, which is the number of its changes
LEMMA DirStatStep ==
  ASSUME SizesIInv, NEW i \in DOMAIN loads, NEW d \in Shelf, DirStat(i, d)
  PROVE  SizesIInv' /\ (CodecsOfNow => CodecsOfNow')
<1> DEFINE j == Stated(loads[i].job[d], dirTime[d])
<1>1. /\ loads[i] \in LoadOf /\ loads[i].job \in [Shelf -> JobOf] /\ loads[i].job[d] \in JobOf
      /\ dirTime[d] \in Nat
  BY EachLoad DEF SizesIInv, SizesTyped
<1>2. j \in JobOf /\ j.at = "dir" /\ j.mtime = dirTime[d]
  <2>1. dirTime[d] \in Int
    BY <1>1
  <2> QED BY <1>1, <2>1, JobChanges, ZenonT(20)
<1>3. Worked(i, d, j)
  BY <1>1, <1>2, Zenon DEF Worked, DirStat, Stated
<1>4. /\ row' = row /\ spec' = spec /\ fresh' = fresh /\ size' = size /\ linemode' = linemode
      /\ filter' = filter /\ snap' = snap /\ entries' = entries /\ edits' = edits
      /\ dirTime' = dirTime
  BY DEF DirStat, dcShow, dcDisk
<1>5. loads[i].settled[d] <= dirTime[d]
  BY <1>1 DEF SizesIInv, LoadsCount, JobCounts, LoadOf
<1> HIDE DEF j
<1>6. /\ loads' \in Seq(LoadOf) /\ LoadsCount' /\ loads # << >>
      /\ (\A k \in DOMAIN loads : \A e \in Shelf :
            loads[k].job[e].at = "done" => loads[k].job[e].value.spec = spec)
         => \A k \in DOMAIN loads' : \A e \in Shelf :
              loads'[k].job[e].at = "done" => loads'[k].job[e].value.spec = spec
  BY <1>1, <1>2, <1>3, <1>4, <1>5, WorkedStep DEF SizesIInv
<1>7. SizesTyped' /\ RowsCount'
  BY <1>4, <1>6 DEF SizesIInv, SizesTyped, RowsCount
<1>8. CodecsOfNow => CodecsOfNow'
  BY <1>4, <1>6 DEF CodecsOfNow
<1> QED BY <1>6, <1>7, <1>8 DEF SizesIInv

\* What is counted for a job, from the directory or from its row
LEMMA ValuedStep ==
  ASSUME SizesIInv, NEW i \in DOMAIN loads, NEW d \in Shelf, NEW v \in Sized,
         Worked(i, d, Valued(loads[i].job[d], v)), v.spec = spec,
         EnoughIsCounted(v, loads[i], d), dirTime' = dirTime,
         row' \in [Shelf -> DcRow], RowsCount', spec' = spec, fresh' = fresh, size' = size,
         linemode' = linemode, filter' = filter, snap' = snap, entries' = entries, edits' = edits
  PROVE  SizesIInv' /\ (CodecsOfNow => CodecsOfNow')
<1> DEFINE j == Valued(loads[i].job[d], v)
<1>1. loads[i].job[d] \in JobOf
  BY EachLoad DEF SizesIInv
<1>2. j \in JobOf /\ j.at = "done" /\ j.value = v
  BY <1>1, JobChanges, ZenonT(20)
<1>3. Worked(i, d, j)
  OBVIOUS
<1> HIDE DEF j
<1>4. /\ loads' \in Seq(LoadOf) /\ LoadsCount' /\ loads # << >>
      /\ (\A k \in DOMAIN loads : \A e \in Shelf :
            loads[k].job[e].at = "done" => loads[k].job[e].value.spec = spec)
         => \A k \in DOMAIN loads' : \A e \in Shelf :
              loads'[k].job[e].at = "done" => loads'[k].job[e].value.spec = spec
  BY <1>2, <1>3, WorkedStep DEF SizesIInv
<1>5. SizesTyped'
  BY <1>4 DEF SizesIInv, SizesTyped
<1>6. CodecsOfNow => CodecsOfNow'
  BY <1>4 DEF CodecsOfNow
<1> QED BY <1>4, <1>5, <1>6 DEF SizesIInv

\* What is put into a job is a size.
LEMMA CountIsSized ==
  ASSUME SizesTyped, NEW es \in Int, NEW ed \in Int, NEW from \in Int, NEW torn \in BOOLEAN
  PROVE  /\ Count(es, ed, from, torn) \in Sized /\ Count(es, ed, from, torn).spec = spec
         /\ Count(es, ed, from, torn).entries = es /\ Count(es, ed, from, torn).edits = ed
         /\ Count(es, ed, from, torn).from = from /\ Count(es, ed, from, torn).torn = torn
BY DEF SizesTyped, Count, Sized

LEMMA NoneIsSized ==
  ASSUME SizesTyped, NEW from \in Int
  PROVE  /\ Count(0, 0, from, TRUE) \in Sized /\ Count(0, 0, from, TRUE).spec = spec
         /\ Count(0, 0, from, TRUE).from = from /\ Count(0, 0, from, TRUE).torn = TRUE
<1>1. spec \in Codec
  BY DEF SizesTyped
<1> QED BY <1>1 DEF Count, Sized

\* A directory that cannot be looked at counts nothing, and leaves no row.
LEMMA DirLostStep ==
  ASSUME SizesIInv, NEW i \in DOMAIN loads, NEW d \in Shelf, DirLost(i, d)
  PROVE  SizesIInv' /\ (CodecsOfNow => CodecsOfNow')
<1> DEFINE v == Count(0, 0, -1, TRUE)
<1>1. loads[i].job[d] \in JobOf
  BY EachLoad DEF SizesIInv
<1>2. v \in Sized /\ v.spec = spec /\ v.from = -1 /\ v.torn = TRUE
  <2>1. SizesTyped /\ -1 \in Int
    BY DEF SizesIInv
  <2> HIDE DEF SizesTyped
  <2> QED BY <2>1, NoneIsSized
<1>3. loads' = [loads EXCEPT ![i].job[d] = [loads[i].job[d] EXCEPT !.at = "done", !.value = v]]
  BY <1>1, Zenon DEF DirLost
<1> HIDE DEF v
<1>4. Valued(loads[i].job[d], v) \in JobOf
  BY <1>1, <1>2, JobChanges, ZenonT(20)
<1>5. Worked(i, d, Valued(loads[i].job[d], v))
  BY <1>3, <1>4 DEF Worked, Valued
<1>6. /\ row' = row /\ spec' = spec /\ fresh' = fresh /\ size' = size /\ linemode' = linemode
      /\ filter' = filter /\ snap' = snap /\ entries' = entries /\ edits' = edits
      /\ dirTime' = dirTime
  BY DEF DirLost, dcShow, dcDisk
<1>7. row' \in [Shelf -> DcRow] /\ RowsCount'
  BY <1>6 DEF SizesIInv, SizesTyped, RowsCount
<1>8. EnoughIsCounted(v, loads[i], d)
  BY <1>2 DEF EnoughIsCounted
<1> QED BY <1>2, <1>5, <1>6, <1>7, <1>8, ValuedStep

\* A row with the mtime that was taken counts what was there before; and edits, too, where they
\* have to be counted.
LEMMA DirCachedStep ==
  ASSUME SizesIInv, NEW i \in DOMAIN loads, NEW d \in Shelf, NEW ok \in BOOLEAN, DirCached(i, d, ok)
  PROVE  SizesIInv' /\ (CodecsOfNow => CodecsOfNow')
<1> DEFINE ed == IF loads[i].mode = "file" THEN row[d].edits ELSE edits[d]
           u == Count(row[d].entries, ed, row[d].mtime, row[d].torn)
           w == Count(0, 0, row[d].mtime, TRUE)
           v == IF ok THEN u ELSE w
<1>1. /\ loads[i] \in LoadOf /\ loads[i].job[d] \in JobOf /\ loads[i].job[d].mtime \in Int
      /\ loads[i].entries[d] \in Nat /\ loads[i].edits[d] \in Nat /\ loads[i].settled[d] \in Nat
      /\ loads[i].mode \in DcModes /\ edits[d] \in Nat /\ row[d] \in DcRow /\ spec \in Codec
  BY EachLoad DEF SizesIInv, SizesTyped
<1>2. row[d].entries \in Int /\ row[d].edits \in Int /\ row[d].mtime \in Int /\ row[d].torn \in BOOLEAN
  BY <1>1 DEF DcRow
<1>3. /\ loads[i].job[d].at = "dir" /\ ~fresh /\ row[d] # NoDcRow
      /\ row[d].mtime = loads[i].job[d].mtime
  BY DEF DirCached, Hit, DirGet
<1>4. /\ loads[i].settled[d] <= row[d].mtime /\ (row[d].torn \/ row[d].mtime <= row[d].entries)
      /\ loads[i].edits[d] <= edits[d] /\ ~loads[i].anew
  BY <1>3 DEF SizesIInv, LoadsCount, JobCounts, RowsCount
<1>5. /\ u \in Sized /\ u.spec = spec /\ u.entries = row[d].entries /\ u.edits = ed
      /\ u.from = row[d].mtime /\ u.torn = row[d].torn
  <2>1. ed \in Int
    BY <1>1, <1>2
  <2> HIDE DEF ed
  <2> QED BY <1>2, <2>1, CountIsSized DEF SizesIInv
<1>6. w \in Sized /\ w.spec = spec /\ w.from = row[d].mtime /\ w.torn = TRUE
  BY <1>2, NoneIsSized DEF SizesIInv
<1>7. loads' = [loads EXCEPT ![i].job[d] = [loads[i].job[d] EXCEPT !.at = "done", !.value = v]]
  BY <1>1, Zenon DEF DirCached
<1> HIDE DEF u, w
<1>8. v \in Sized /\ v.spec = spec
  BY <1>5, <1>6
<1>9. EnoughIsCounted(v, loads[i], d)
  <2>1. CASE ok
    BY <1>1, <1>2, <1>4, <1>5, <2>1 DEF EnoughIsCounted, DcModes
  <2>2. CASE ~ok
    BY <1>1, <1>2, <1>4, <1>6, <2>2 DEF EnoughIsCounted
  <2> QED BY <2>1, <2>2
<1> HIDE DEF v
<1>10. Worked(i, d, Valued(loads[i].job[d], v))
  <2>1. Valued(loads[i].job[d], v) \in JobOf
    BY <1>1, <1>8, JobChanges, ZenonT(20)
  <2> QED BY <1>7, <2>1 DEF Worked, Valued
<1>11. /\ row' = row /\ spec' = spec /\ fresh' = fresh /\ size' = size /\ linemode' = linemode
       /\ filter' = filter /\ snap' = snap /\ entries' = entries /\ edits' = edits
       /\ dirTime' = dirTime
  BY DEF DirCached, dcShow, dcDisk
<1>12. row' \in [Shelf -> DcRow] /\ RowsCount'
  BY <1>11 DEF SizesIInv, SizesTyped, RowsCount
<1> QED BY <1>8, <1>9, <1>10, <1>11, <1>12, ValuedStep

\* A directory that is read has all that was in it when the task was added, and its row gets no
\* mtime that is too young, unless the listing fails.
LEMMA DirReadStep ==
  ASSUME SizesIInv, NEW i \in DOMAIN loads, NEW d \in Shelf, NEW listed \in BOOLEAN, NEW ok \in BOOLEAN,
         DirRead(i, d, listed, ok)
  PROVE  SizesIInv' /\ (CodecsOfNow => CodecsOfNow')
<1> DEFINE u == Count(entries[d], edits[d], -1, FALSE)
           w == Count(0, 0, -1, TRUE)
           v == IF ok THEN u ELSE w
           prev == row[d].mtime = loads[i].job[d].mtime /\ ~fresh
           es == IF listed THEN entries[d] ELSE 0
           ed == IF loads[i].mode = "file" THEN (IF listed THEN edits[d] ELSE 0)
                 ELSE IF prev THEN row[d].edits ELSE -1
           r == [mtime |-> loads[i].job[d].mtime, entries |-> es, edits |-> ed,
                 aged |-> loads[i].mode = "video" /\ prev /\ row[d].aged, torn |-> ~listed]
<1>1. /\ loads[i] \in LoadOf /\ loads[i].job[d] \in JobOf /\ loads[i].job[d].mtime \in Int
      /\ loads[i].entries[d] \in Nat /\ loads[i].edits[d] \in Nat /\ loads[i].settled[d] \in Nat
      /\ entries[d] \in Nat /\ edits[d] \in Nat /\ dirTime[d] \in Nat /\ row[d] \in DcRow
  BY EachLoad DEF SizesIInv, SizesTyped
<1>2. row[d].edits \in Int /\ (row[d].edits # -1 => row[d].edits \in Nat)
  BY <1>1 DEF DcRow, SizesIInv, RowsCount
<1>3. loads[i].job[d].at = "dir"
  BY DEF DirRead
<1>4. /\ loads[i].settled[d] <= loads[i].job[d].mtime /\ loads[i].job[d].mtime <= dirTime[d]
      /\ loads[i].settled[d] <= loads[i].entries[d] /\ dirTime[d] <= entries[d]
      /\ loads[i].entries[d] <= entries[d] /\ loads[i].edits[d] <= edits[d]
  BY <1>3 DEF SizesIInv, LoadsCount, JobCounts, RowsCount
<1>5. u \in Sized /\ u.spec = spec /\ u.entries = entries[d] /\ u.edits = edits[d] /\ u.from = -1
  <2>1. entries[d] \in Int /\ edits[d] \in Int /\ spec \in Codec
    BY <1>1 DEF SizesIInv, SizesTyped
  <2> QED BY <2>1 DEF Count, Sized
<1>6. w \in Sized /\ w.spec = spec /\ w.from = -1 /\ w.torn = TRUE
  <2>1. SizesTyped /\ -1 \in Int
    BY DEF SizesIInv
  <2> HIDE DEF SizesTyped
  <2> QED BY <2>1, NoneIsSized
<1>7. loads' = [loads EXCEPT ![i].job[d] = [loads[i].job[d] EXCEPT !.at = "done", !.value = v]]
  BY <1>1, Zenon DEF DirRead
<1>8. row' = [row EXCEPT ![d] = r]
  BY DEF DirRead, DirPut
<1> HIDE DEF u, w
<1>9. v \in Sized /\ v.spec = spec
  BY <1>5, <1>6
<1>10. EnoughIsCounted(v, loads[i], d)
  <2>1. CASE ok
    BY <1>1, <1>4, <1>5, <2>1 DEF EnoughIsCounted
  <2>2. CASE ~ok
    BY <1>6, <2>2 DEF EnoughIsCounted
  <2> QED BY <2>1, <2>2
<1> HIDE DEF v
<1>11. Worked(i, d, Valued(loads[i].job[d], v))
  <2>1. Valued(loads[i].job[d], v) \in JobOf
    BY <1>1, <1>9, JobChanges, ZenonT(20)
  <2> QED BY <1>7, <2>1 DEF Worked, Valued
<1>12. /\ spec' = spec /\ fresh' = fresh /\ size' = size /\ linemode' = linemode
       /\ filter' = filter /\ snap' = snap /\ entries' = entries /\ edits' = edits
       /\ dirTime' = dirTime
  BY DEF DirRead, dcShow, dcDisk
<1>13. /\ r \in DcRow /\ r.mtime = loads[i].job[d].mtime /\ r.torn = ~listed
       /\ listed => r.entries = entries[d]
       /\ r.edits # -1 => r.edits \in Nat
  <2>1. /\ (loads[i].mode = "video" /\ prev /\ row[d].aged) \in BOOLEAN /\ (~listed) \in BOOLEAN
        /\ es \in Int /\ (listed => es = entries[d])
    BY <1>1
  <2>2. ed \in Int /\ (ed # -1 => ed \in Nat)
    BY <1>1, <1>2
  <2> HIDE DEF es, ed, prev
  <2> QED BY <1>1, <2>1, <2>2 DEF DcRow
<1> HIDE DEF r
<1>14. row' \in [Shelf -> DcRow] /\ row'[d] = r /\ \A e \in Shelf : e # d => row'[e] = row[e]
  BY <1>8, <1>13 DEF SizesIInv, SizesTyped
<1>15. RowsCount'
  <2> SUFFICES ASSUME NEW e \in Shelf
               PROVE  /\ row'[e] # NoDcRow => /\ 0 <= row'[e].mtime
                                              /\ row'[e].torn \/ row'[e].mtime <= row'[e].entries
                      /\ row'[e].edits # -1 => row'[e].edits \in Nat
    BY <1>12 DEF SizesIInv, RowsCount
  <2>1. CASE e # d
    BY <1>14, <2>1 DEF SizesIInv, RowsCount
  <2>2. CASE e = d
    <3>1. row'[e] = r /\ row'[e].mtime = loads[i].job[d].mtime /\ loads[i].job[d].mtime <= entries[d]
          /\ 0 <= loads[i].job[d].mtime
      BY <1>1, <1>4, <1>14, <2>2, <1>13
    <3>2. CASE listed
      BY <1>13, <3>1, <3>2
    <3>3. CASE ~listed
      BY <1>13, <3>1, <3>3
    <3> QED BY <3>2, <3>3
  <2> QED BY <2>1, <2>2
<1> QED BY <1>9, <1>10, <1>11, <1>12, <1>14, <1>15, ValuedStep

\* Tasks that begin, and tasks that go, change nothing of what the others count.
LEMMA TasksStep ==
  ASSUME SizesIInv, loads' \in Seq(LoadOf), NEW filt, filt \in DcModes \cup {"none"},
         \A k \in DOMAIN loads' : \E i \in DOMAIN loads :
            /\ loads'[k].entries = loads[i].entries /\ loads'[k].edits = loads[i].edits
            /\ loads'[k].settled = loads[i].settled /\ loads'[k].anew = loads[i].anew
            /\ loads'[k].job = loads[i].job /\ loads'[k].mode = loads[i].mode,
         loads # << >>, row' = row, spec' = spec, fresh' = fresh, size' = size, filter' = filt,
         linemode' \in [Shelf -> DcModes \cup {"plain"}],
         snap' = snap, entries' = entries, edits' = edits, dirTime' = dirTime
  PROVE  SizesIInv' /\ (CodecsOfNow => CodecsOfNow')
<1>1. SizesTyped' /\ RowsCount'
  BY DEF SizesIInv, SizesTyped, RowsCount
<1>2. ASSUME NEW k \in DOMAIN loads', NEW d \in Shelf PROVE JobCounts(loads[k], d)'
  <2>1. PICK i \in DOMAIN loads :
            /\ loads'[k].entries = loads[i].entries /\ loads'[k].edits = loads[i].edits
            /\ loads'[k].settled = loads[i].settled /\ loads'[k].anew = loads[i].anew
            /\ loads'[k].job = loads[i].job /\ loads'[k].mode = loads[i].mode
    BY <1>2
  <2>2. JobCounts(loads[i], d)
    BY DEF SizesIInv, LoadsCount
  <2> QED BY <2>1, <2>2 DEF JobCounts, EnoughIsCounted
<1>3. LoadsCount'
  BY <1>2 DEF LoadsCount
<1>4. ASSUME CodecsOfNow PROVE CodecsOfNow'
  <2>1. \A k \in DOMAIN loads' : \A d \in Shelf :
          loads'[k].job[d].at = "done" => loads'[k].job[d].value.spec = spec
    BY <1>4 DEF CodecsOfNow
  <2> QED BY <1>4, <2>1 DEF CodecsOfNow
<1> QED BY <1>1, <1>3, <1>4 DEF SizesIInv

\* The loader's first task begins.
LEMMA StartLoadStep ==
  ASSUME SizesIInv, StartLoad
  PROVE  SizesIInv' /\ (CodecsOfNow => CodecsOfNow')
<1>1. loads \in Seq(LoadOf) /\ loads # << >> /\ DOMAIN loads = 1 .. Len(loads) /\ 1 \in DOMAIN loads
  BY DEF SizesIInv, SizesTyped, StartLoad
<1>2. loads[1] \in LoadOf
  BY <1>1
<1> DEFINE new == [loads[1] EXCEPT !.started = TRUE]
<1>3. /\ new \in LoadOf /\ new.entries = loads[1].entries /\ new.edits = loads[1].edits
      /\ new.settled = loads[1].settled /\ new.anew = loads[1].anew
      /\ new.job = loads[1].job /\ new.mode = loads[1].mode
  BY <1>2 DEF LoadOf
<1>4. loads' = [loads EXCEPT ![1] = new]
  BY DEF StartLoad
<1> HIDE DEF new
<1>5. /\ loads' \in Seq(LoadOf) /\ DOMAIN loads' = DOMAIN loads /\ loads'[1] = new
      /\ \A k \in DOMAIN loads : k # 1 => loads'[k] = loads[k]
  BY <1>1, <1>3, <1>4
<1>6. \A k \in DOMAIN loads' : \E i \in DOMAIN loads :
            /\ loads'[k].entries = loads[i].entries /\ loads'[k].edits = loads[i].edits
            /\ loads'[k].settled = loads[i].settled /\ loads'[k].anew = loads[i].anew
            /\ loads'[k].job = loads[i].job /\ loads'[k].mode = loads[i].mode
  BY <1>1, <1>3, <1>5
<1>7. /\ row' = row /\ spec' = spec /\ fresh' = fresh /\ size' = size /\ linemode' = linemode
      /\ filter' = filter /\ snap' = snap /\ entries' = entries /\ edits' = edits
      /\ dirTime' = dirTime
  BY DEF StartLoad, dcShow, dcDisk
<1>8. filter \in DcModes \cup {"none"} /\ linemode \in [Shelf -> DcModes \cup {"plain"}]
  BY DEF SizesIInv, SizesTyped
<1> QED BY <1>1, <1>5, <1>6, <1>7, <1>8, TasksStep

\* The first task ends.
LEMMA FinishLoadStep ==
  ASSUME SizesIInv, FinishLoad
  PROVE  SizesIInv' /\ (CodecsOfNow => CodecsOfNow')
<1>1. loads \in Seq(LoadOf) /\ loads # << >> /\ DOMAIN loads = 1 .. Len(loads) /\ 1 \in DOMAIN loads
      /\ loads' = Tail(loads)
  BY DEF SizesIInv, SizesTyped, FinishLoad, AllShown
<1>2. /\ loads' \in Seq(LoadOf) /\ \A k \in DOMAIN loads' : k + 1 \in DOMAIN loads
      /\ \A k \in DOMAIN loads' : loads'[k] = loads[k + 1]
  BY <1>1
<1>3. \A k \in DOMAIN loads' : \E i \in DOMAIN loads : loads'[k] = loads[i]
  BY <1>2
<1>4. loads[1] \in LoadOf /\ loads[1].mode \in DcModes
  BY <1>1, EachLoad DEF SizesIInv
<1>5. /\ row' = row /\ spec' = spec /\ fresh' = fresh /\ size' = size
      /\ snap' = snap /\ entries' = entries /\ edits' = edits
      /\ dirTime' = dirTime
  BY DEF FinishLoad, dcDisk
<1>6. filter' \in DcModes \cup {"none"} /\ linemode' \in [Shelf -> DcModes \cup {"plain"}]
  BY <1>4 DEF FinishLoad, SizesIInv, SizesTyped
<1> QED BY <1>1, <1>2, <1>3, <1>5, <1>6, TasksStep

\* A task is stopped.
LEMMA AbortLoadStep ==
  ASSUME SizesIInv, NEW i \in DOMAIN loads, AbortLoad(i)
  PROVE  SizesIInv' /\ (CodecsOfNow => CodecsOfNow')
<1>1. loads \in Seq(LoadOf) /\ loads # << >> /\ DOMAIN loads = 1 .. Len(loads)
      /\ i \in 1 .. Len(loads) /\ loads' = RemoveAt(loads, i) /\ Len(loads) \in Nat
  BY DEF SizesIInv, SizesTyped, AbortLoad
<1>2. /\ loads' \in Seq(LoadOf) /\ Len(loads') = Len(loads) - 1
      /\ \A k \in 1 .. Len(loads) - 1 : loads'[k] = IF k < i THEN loads[k] ELSE loads[k + 1]
  BY <1>1, RemovedEntry
<1>3. \A k \in DOMAIN loads' : \E n \in DOMAIN loads : loads'[k] = loads[n]
  <2> SUFFICES ASSUME NEW k \in DOMAIN loads' PROVE \E n \in DOMAIN loads : loads'[k] = loads[n]
    OBVIOUS
  <2>1. k \in 1 .. Len(loads) - 1 /\ k \in DOMAIN loads /\ k + 1 \in DOMAIN loads
    BY <1>1, <1>2
  <2>2. loads'[k] = loads[k] \/ loads'[k] = loads[k + 1]
    BY <1>2, <2>1
  <2> QED BY <2>1, <2>2
<1>4. /\ row' = row /\ spec' = spec /\ fresh' = fresh /\ size' = size /\ filter' = filter
      /\ linemode' = linemode /\ snap' = snap /\ entries' = entries /\ edits' = edits
      /\ dirTime' = dirTime
  BY DEF AbortLoad, dcDisk, dcShow
<1>5. filter \in DcModes \cup {"none"} /\ linemode \in [Shelf -> DcModes \cup {"plain"}]
  BY DEF SizesIInv, SizesTyped
<1>6. \A k \in DOMAIN loads' : \E n \in DOMAIN loads :
            /\ loads'[k].entries = loads[n].entries /\ loads'[k].edits = loads[n].edits
            /\ loads'[k].settled = loads[n].settled /\ loads'[k].anew = loads[n].anew
            /\ loads'[k].job = loads[n].job /\ loads'[k].mode = loads[n].mode
  BY <1>3, Zenon
<1>7. loads # << >> /\ loads' \in Seq(LoadOf)
      /\ linemode' \in [Shelf -> DcModes \cup {"plain"}]
  BY <1>1, <1>2, <1>4, <1>5
<1> QED BY <1>4, <1>5, <1>6, <1>7, TasksStep, Zenon

\* A result arrives, which counts what its task had to count.
LEMMA ShowStep ==
  ASSUME SizesIInv, NEW d \in Shelf, Show(d)
  PROVE  /\ SizesIInv' /\ (CodecsOfNow => CodecsOfNow')
         /\ EnoughIsCounted(size'[loads[1].mode][d], loads[1], d)
<1> DEFINE j == RowsShown(loads[1].job[d])
           v == loads[1].job[d].value
           m == loads[1].mode
<1>1. loads \in Seq(LoadOf) /\ loads # << >> /\ 1 \in DOMAIN loads
      /\ loads[1].job[d].at = "done"
  BY DEF SizesIInv, SizesTyped, Show, Finished
<1>2. /\ loads[1] \in LoadOf /\ m \in DcModes /\ loads[1].job[d] \in JobOf /\ v \in Sized
  BY <1>1, EachLoad DEF SizesIInv
<1>3. j \in JobOf /\ j.at = "shown"
  BY <1>2, JobChanges, ZenonT(20)
<1>4. Worked(1, d, j)
  BY <1>1, <1>3, Zenon DEF Worked, Show, RowsShown
<1>5. /\ row' = row /\ spec' = spec /\ fresh' = fresh /\ filter' = filter /\ snap' = snap
      /\ entries' = entries /\ edits' = edits /\ dirTime' = dirTime /\ size' = [size EXCEPT ![m][d] = v]
      /\ linemode' = [linemode EXCEPT ![d] = m]
  BY DEF Show, dcDisk
<1> HIDE DEF j, v, m
<1>6. /\ loads' \in Seq(LoadOf) /\ LoadsCount'
      /\ (\A k \in DOMAIN loads : \A e \in Shelf :
            loads[k].job[e].at = "done" => loads[k].job[e].value.spec = spec)
         => \A k \in DOMAIN loads' : \A e \in Shelf :
              loads'[k].job[e].at = "done" => loads'[k].job[e].value.spec = spec
  BY <1>3, <1>4, <1>5, WorkedStep DEF SizesIInv
<1>7. /\ size' \in SizesOf /\ size'[m][d] = v
      /\ \A n \in DcModes, e \in Shelf : n # m \/ e # d => size'[n][e] = size[n][e]
  BY <1>2, <1>5 DEF SizesIInv, SizesTyped, SizesOf
<1>8. SizesTyped' /\ RowsCount'
  <2>1. linemode' \in [Shelf -> DcModes \cup {"plain"}]
    BY <1>2, <1>5 DEF SizesIInv, SizesTyped
  <2> QED BY <1>5, <1>6, <1>7, <2>1 DEF SizesIInv, SizesTyped, RowsCount
<1>9. ASSUME CodecsOfNow PROVE CodecsOfNow'
  <2>1. v.spec = spec /\ snap # << >>
    BY <1>1, <1>9 DEF CodecsOfNow, v
  <2>2. "video" \in DcModes
    BY DEF DcModes
  <2>3. \A e \in Shelf : size'["video"][e] # Unsized => size'["video"][e].spec = spec
    BY <1>7, <1>9, <2>1, <2>2 DEF CodecsOfNow
  <2> QED BY <1>5, <1>6, <1>9, <2>1, <2>3 DEF CodecsOfNow
<1>10. EnoughIsCounted(v, loads[1], d)
  BY <1>1 DEF SizesIInv, LoadsCount, JobCounts, v
<1> QED BY <1>6, <1>7, <1>8, <1>9, <1>10 DEF SizesIInv, m

\* An undo brings sizes back; before the first command nothing was counted.
LEMMA UndoSizesStep ==
  ASSUME SizesIInv, UndoSizes
  PROVE  SizesIInv' /\ (~Anytime /\ CodecsOfNow => CodecsOfNow')
<1>1. /\ snap # << >> /\ size' = snap[1].size /\ linemode' = snap[1].linemode
      /\ filter' = snap[1].filter /\ snap' = << >> /\ (Anytime \/ loads = << >>)
      /\ row' = row /\ spec' = spec /\ fresh' = fresh /\ entries' = entries /\ edits' = edits
      /\ dirTime' = dirTime /\ loads' = loads
  BY DEF UndoSizes, dcDisk
<1>2. snap[1] \in SnapOf
  <2>1. snap \in Seq(SnapOf)
    BY DEF SizesIInv, SizesTyped
  <2> QED BY <1>1, <2>1
<1>3. SizesTyped'
  <2>1. snap' \in Seq(SnapOf) /\ Len(snap') <= 1
    BY <1>1
  <2> QED BY <1>1, <1>2, <2>1 DEF SizesIInv, SizesTyped, SnapOf
<1>4. RowsCount' /\ LoadsCount'
  BY <1>1 DEF SizesIInv, RowsCount, LoadsCount, JobCounts, EnoughIsCounted
<1>5. ASSUME ~Anytime, CodecsOfNow PROVE CodecsOfNow'
  BY <1>1, <1>5 DEF CodecsOfNow
<1> QED BY <1>3, <1>4, <1>5 DEF SizesIInv

\* What a command makes of the tasks that are there: unless it says "fresh", too, they do no longer.
Less(l, anew) == [l EXCEPT !.anew = @ /\ anew]

\* Less has to be counted then.
LEMMA LessIsOwed ==
  ASSUME NEW l \in LoadOf, NEW anew \in BOOLEAN
  PROVE  /\ Less(l, anew) \in LoadOf /\ Less(l, anew).job = l.job /\ Less(l, anew).mode = l.mode
         /\ Less(l, anew).entries = l.entries /\ Less(l, anew).edits = l.edits
         /\ Less(l, anew).settled = l.settled /\ Less(l, anew).anew = (l.anew /\ anew)
<1>1. (l.anew /\ anew) \in BOOLEAN
  OBVIOUS
<1> QED BY <1>1 DEF Less, LoadOf

\* A command adds a task, which has to count what is there now.
LEMMA CommandStep ==
  ASSUME SizesIInv, NEW mode \in DcModes, NEW codec \in Codec, NEW anew \in BOOLEAN,
         NEW filtered \in BOOLEAN, Command(mode, codec, anew, filtered)
  PROVE  SizesIInv' /\ (~Anytime /\ CodecsOfNow => CodecsOfNow')
<1> DEFINE new == NewLoad(mode, anew, filtered)
           rest == [i \in DOMAIN loads |-> Less(loads[i], anew)]
           now == [size |-> size, linemode |-> linemode, filter |-> filter]
<1>1. /\ loads' = <<new>> \o rest /\ spec' = codec /\ fresh' = anew /\ filter' = filter
      /\ snap' = (IF snap = << >> THEN <<now>> ELSE snap)
      /\ size' = Cleared(mode, codec) /\ linemode' = [d \in Shelf |-> mode]
      /\ row' = row /\ entries' = entries /\ edits' = edits /\ dirTime' = dirTime
      /\ codec # spec => mode = "video" /\ (Anytime \/ loads = << >>)
  BY Zenon DEF Command, Less, dcDisk
<1>2. /\ loads \in Seq(LoadOf) /\ Len(loads) \in Nat /\ DOMAIN loads = 1 .. Len(loads)
      /\ entries \in [Shelf -> Nat] /\ edits \in [Shelf -> Nat] /\ dirTime \in [Shelf -> Nat]
      /\ \A d \in Shelf : dirTime[d] <= entries[d]
  BY DEF SizesIInv, SizesTyped, RowsCount
<1>3. Unsized \in Sized
  BY DcAssumption DEF Unsized, Sized
<1>5. /\ new \in LoadOf /\ new.mode = mode /\ new.entries = entries /\ new.edits = edits
      /\ new.settled = dirTime /\ new.anew = anew /\ \A d \in Shelf : new.job[d] = Todo
  <2>1. Todo \in JobOf /\ [d \in Shelf |-> Todo] \in [Shelf -> JobOf]
    BY <1>3 DEF Todo, JobOf
  <2> HIDE DEF Todo
  <2> QED BY <1>2, <2>1 DEF NewLoad, LoadOf
<1>6. rest \in [1 .. Len(loads) -> LoadOf]
  BY <1>2, LessIsOwed
<1> HIDE DEF new, rest
<1>7. /\ loads' \in Seq(LoadOf) /\ Len(loads') = Len(loads) + 1 /\ loads'[1] = new
      /\ \A i \in 1 .. Len(loads) : loads'[i + 1] = rest[i]
  <2> DEFINE n == Len(loads)
  <2>1. n \in Nat /\ rest \in [1 .. n -> LoadOf] /\ new \in LoadOf /\ loads' = <<new>> \o rest
    BY <1>1, <1>2, <1>5, <1>6
  <2> HIDE DEF n
  <2>2. /\ <<new>> \o rest \in Seq(LoadOf) /\ Len(<<new>> \o rest) = n + 1
        /\ (<<new>> \o rest)[1] = new /\ \A i \in 1 .. n : (<<new>> \o rest)[i + 1] = rest[i]
    <3>1. ASSUME NEW S, NEW f \in [1 .. n -> S], NEW x \in S
          PROVE  /\ <<x>> \o f \in Seq(S) /\ Len(<<x>> \o f) = n + 1 /\ (<<x>> \o f)[1] = x
                 /\ \A i \in 1 .. n : (<<x>> \o f)[i + 1] = f[i]
      BY <2>1, PrependedEntry
    <3> QED BY <2>1, <3>1
  <2> QED BY <2>1, <2>2 DEF n
<1>8. ASSUME NEW k \in DOMAIN loads'
      PROVE  loads'[k] = new \/ \E i \in DOMAIN loads : loads'[k] = Less(loads[i], anew)
  <2>1. k \in 1 .. Len(loads) + 1
    BY <1>7
  <2>2. CASE k = 1
    BY <1>7, <2>2
  <2>3. CASE k # 1
    <3>1. k - 1 \in 1 .. Len(loads) /\ (k - 1) + 1 = k
      BY <1>2, <2>1, <2>3
    <3> QED BY <1>2, <1>7, <3>1 DEF rest
  <2> QED BY <2>2, <2>3
<1>9. ASSUME NEW k \in DOMAIN loads', NEW d \in Shelf PROVE JobCounts(loads[k], d)'
  <2>1. CASE loads'[k] = new
    <3>1. new.job[d].at = "todo"
      BY <1>5 DEF Todo
    <3>2. entries[d] \in Nat /\ edits[d] \in Nat /\ dirTime[d] \in Nat /\ dirTime[d] <= entries[d]
      BY <1>2
    <3>3. /\ loads'[k].entries[d] = entries[d] /\ loads'[k].edits[d] = edits[d]
          /\ loads'[k].settled[d] = dirTime[d] /\ loads'[k].job[d].at = "todo"
          /\ loads'[k].anew = anew
      BY <1>5, <2>1, <3>1
    <3>4. loads'[k].anew => fresh'
      BY <1>1, <3>3
    <3>5. /\ loads'[k].entries[d] <= entries'[d] /\ loads'[k].edits[d] <= edits'[d]
          /\ loads'[k].settled[d] <= dirTime'[d] /\ loads'[k].settled[d] <= loads'[k].entries[d]
      BY <1>1, <3>2, <3>3
    <3>6. loads'[k].job[d].at # "dir" /\ loads'[k].job[d].at # "done"
      BY <3>3
    <3> QED BY <3>4, <3>5, <3>6 DEF JobCounts
  <2>2. ASSUME NEW i \in DOMAIN loads, loads'[k] = Less(loads[i], anew) PROVE JobCounts(loads[k], d)'
    <3>1. JobCounts(loads[i], d) /\ loads[i] \in LoadOf /\ loads[i].job[d] \in JobOf
          /\ loads[i].entries[d] \in Nat /\ loads[i].settled[d] \in Nat
      BY EachLoad DEF SizesIInv, LoadsCount
    <3>2. loads[i].job[d].at = "done" => loads[i].job[d].value.entries \in Int
      BY <3>1 DEF JobOf, Sized
    <3>3. /\ loads'[k].job = loads[i].job /\ loads'[k].mode = loads[i].mode
          /\ loads'[k].entries = loads[i].entries /\ loads'[k].edits = loads[i].edits
          /\ loads'[k].settled = loads[i].settled /\ loads'[k].anew = (loads[i].anew /\ anew)
      BY <2>2, <3>1, LessIsOwed
    <3>4. loads[i].settled[d] <= loads[i].entries[d]
      BY <3>1 DEF JobCounts
    <3>5. loads[i].job[d].at = "done" => EnoughIsCounted(loads'[k].job[d].value, loads'[k], d)
      <4>1. SUFFICES ASSUME loads[i].job[d].at = "done"
                     PROVE  EnoughIsCounted(loads[i].job[d].value, loads'[k], d)
        BY <3>3
      <4>2. EnoughIsCounted(loads[i].job[d].value, loads[i], d)
        BY <3>1, <4>1 DEF JobCounts
      <4>3. /\ loads[i].job[d].value.entries \in Int
            /\ loads'[k].anew => loads[i].anew
            /\ loads'[k].settled[d] = loads[i].settled[d] /\ loads'[k].entries[d] = loads[i].entries[d]
            /\ loads'[k].edits[d] = loads[i].edits[d] /\ loads'[k].mode = loads[i].mode
        BY <3>2, <3>3, <4>1
      <4>4. CASE loads[i].anew
        BY <3>1, <3>4, <4>2, <4>3, <4>4 DEF EnoughIsCounted
      <4>5. CASE ~loads[i].anew
        BY <3>1, <3>4, <4>2, <4>3, <4>5 DEF EnoughIsCounted
      <4> QED BY <4>4, <4>5
    <3> HIDE DEF EnoughIsCounted
    <3> QED BY <1>1, <3>1, <3>3, <3>5 DEF JobCounts
  <2> QED BY <1>8, <2>1, <2>2
<1>10. LoadsCount' /\ RowsCount'
  <2>1. LoadsCount'
    BY <1>9 DEF LoadsCount
  <2> QED BY <1>1, <2>1 DEF SizesIInv, RowsCount
<1>11. size' \in SizesOf /\ \A d \in Shelf : \/ size'["video"][d] = Unsized
                                             \/ codec = spec /\ size'["video"][d] = size["video"][d]
                                             \/ codec # spec /\ mode # "video"
  <2>1. size \in SizesOf /\ "video" \in DcModes
    BY DEF SizesIInv, SizesTyped, DcModes
  <2>2. CASE mode = "video" /\ codec # spec
    BY <1>1, <1>3, <2>1, <2>2 DEF Cleared, SizesOf
  <2>3. CASE ~(mode = "video" /\ codec # spec)
    BY <1>1, <2>1, <2>3 DEF Cleared
  <2> QED BY <2>2, <2>3
<1>12. now \in SnapOf /\ now.size = size
  BY DEF SizesIInv, SizesTyped, SnapOf
<1> HIDE DEF now
<1>13. /\ snap' \in Seq(SnapOf) /\ Len(snap') <= 1 /\ snap' # << >>
       /\ \/ snap # << >> /\ snap' = snap
          \/ snap = << >> /\ snap'[1] = now
  <2>1. snap \in Seq(SnapOf) /\ Len(snap) <= 1
    BY DEF SizesIInv, SizesTyped
  <2>2. <<now>> \in Seq(SnapOf) /\ Len(<<now>>) = 1 /\ <<now>> # << >> /\ <<now>>[1] = now
    BY <1>12
  <2> QED BY <1>1, <2>1, <2>2
<1>14. SizesTyped'
  <2>1. linemode' \in [Shelf -> DcModes \cup {"plain"}] /\ fresh' \in BOOLEAN
    BY <1>1
  <2> QED BY <1>1, <1>7, <1>11, <1>13, <2>1 DEF SizesIInv, SizesTyped
<1>15. ASSUME ~Anytime, CodecsOfNow PROVE CodecsOfNow'
  <2>1. \A d \in Shelf : size'["video"][d] # Unsized => size'["video"][d].spec = codec
    BY <1>1, <1>11, <1>15 DEF CodecsOfNow
  <2>2. ASSUME NEW k \in DOMAIN loads', NEW d \in Shelf, loads'[k].job[d].at = "done"
        PROVE  loads'[k].job[d].value.spec = codec
    <3>1. loads'[k] # new
      BY <1>5, <2>2 DEF Todo
    <3>2. PICK i \in DOMAIN loads : loads'[k] = Less(loads[i], anew)
      BY <1>8, <3>1
    <3>3. loads'[k].job = loads[i].job /\ loads # << >>
      BY <1>2, <3>2, LessIsOwed
    <3> QED BY <1>1, <1>15, <2>2, <3>2, <3>3 DEF CodecsOfNow
  <2>3. \A d \in Shelf : snap'[1].size["video"][d] = Unsized
    BY <1>12, <1>13, <1>15 DEF CodecsOfNow
  <2> QED BY <1>1, <1>13, <2>1, <2>2, <2>3 DEF CodecsOfNow
<1> QED BY <1>10, <1>14, <1>15 DEF SizesIInv

\* Every step keeps the invariant.
LEMMA SizesStep ==
  SizesIInv /\ [DcNext]_dcVars => SizesIInv' /\ (~Anytime /\ CodecsOfNow => CodecsOfNow')
<1> SUFFICES ASSUME SizesIInv, [DcNext]_dcVars
             PROVE  SizesIInv' /\ (~Anytime /\ CodecsOfNow => CodecsOfNow')
  OBVIOUS
<1>1. ASSUME NEW d \in Shelf, NEW later \in BOOLEAN, AddEntry(d, later) \/ EditFile(d)
      PROVE  SizesIInv' /\ (CodecsOfNow => CodecsOfNow')
  BY <1>1, DiskStep
<1>2. ASSUME NEW d \in Shelf, Show(d) PROVE SizesIInv' /\ (CodecsOfNow => CodecsOfNow')
  BY <1>2, ShowStep
<1>3. ASSUME NEW mode \in DcModes, NEW codec \in Codec, NEW anew \in BOOLEAN, NEW filtered \in BOOLEAN,
             Command(mode, codec, anew, filtered)
      PROVE  SizesIInv' /\ (~Anytime /\ CodecsOfNow => CodecsOfNow')
  BY <1>3, CommandStep
<1>4. ASSUME NEW i \in DOMAIN loads, NEW d \in Shelf, NEW listed \in BOOLEAN, NEW ok \in BOOLEAN,
             \/ DirStat(i, d) \/ DirLost(i, d)
             \/ DirCached(i, d, ok) \/ DirRead(i, d, listed, ok)
      PROVE  SizesIInv' /\ (CodecsOfNow => CodecsOfNow')
  BY <1>4, DirStatStep, DirLostStep, DirCachedStep, DirReadStep
<1>5. ASSUME NEW i \in DOMAIN loads, AbortLoad(i) PROVE SizesIInv' /\ (CodecsOfNow => CodecsOfNow')
  BY <1>5, AbortLoadStep
<1>6. CASE DayPasses
  BY <1>6, DayStep
<1>7. CASE UndoSizes
  BY <1>7, UndoSizesStep
<1>8. CASE StartLoad
  BY <1>8, StartLoadStep
<1>9. CASE FinishLoad
  BY <1>9, FinishLoadStep
<1>10. CASE UNCHANGED dcVars
  BY <1>10 DEF dcVars, SizesIInv, SizesTyped, RowsCount, LoadsCount, JobCounts, EnoughIsCounted, CodecsOfNow
<1> QED BY <1>1, <1>2, <1>3, <1>4, <1>5, <1>6, <1>7, <1>8, <1>9, <1>10 DEF DcNext

\* Whatever changes while workers read, whatever is cached, whatever cannot be read, and whenever
\* commands, undos and aborts come: a size that arrives counts what it has to count, or is of a
\* directory whose reading failed, since the mtime it had when the command asked for it.
THEOREM SizesCount ==
  DcSpec => [][\A d \in Shelf :
                 Show(d) => EnoughIsCounted(size'[loads[1].mode][d], loads[1], d)]_dcVars
<1> DEFINE A == \A d \in Shelf :
                  Show(d) => EnoughIsCounted(size'[loads[1].mode][d], loads[1], d)
<1>1. DcInit => SizesIInv
  BY SizesBegin
<1>2. SizesIInv /\ [DcNext]_dcVars => SizesIInv'
  BY SizesStep
<1>3. SizesIInv /\ [DcNext]_dcVars => [A]_dcVars
  BY ShowStep
<1> QED BY <1>1, <1>2, <1>3, PTL DEF DcSpec

\* Besides, what is shown of videos is counted for the codecs asked for now, provided that nobody
\* asks for others, or undoes, while a task goes on.
THEOREM SizesTrue == ASSUME ~Anytime PROVE DcSpec => SizesAreTrue
<1>1. DcInit => SizesIInv /\ CodecsOfNow
  BY SizesBegin
<1>2. SizesIInv /\ CodecsOfNow /\ [DcNext]_dcVars => SizesIInv' /\ CodecsOfNow'
  BY SizesStep
<1>3. SizesIInv /\ CodecsOfNow /\ [DcNext]_dcVars =>
        [\A d \in Shelf, m \in DcModes :
           LET v == size'[m][d] IN
           /\ m = "video" /\ v # Unsized => v.spec = spec'
           /\ Show(d) /\ m = loads[1].mode => EnoughIsCounted(v, loads[1], d)]_dcVars
  <2> SUFFICES ASSUME SizesIInv, CodecsOfNow, [DcNext]_dcVars, NEW d \in Shelf, NEW m \in DcModes
               PROVE  /\ m = "video" /\ size'[m][d] # Unsized => size'[m][d].spec = spec'
                      /\ Show(d) /\ m = loads[1].mode => EnoughIsCounted(size'[m][d], loads[1], d)
    BY Zenon
  <2>1. m = "video" /\ size'[m][d] # Unsized => size'[m][d].spec = spec'
    BY <1>2 DEF CodecsOfNow
  <2>2. Show(d) /\ m = loads[1].mode => EnoughIsCounted(size'[m][d], loads[1], d)
    BY ShowStep
  <2> QED BY <2>1, <2>2
<1> QED BY <1>1, <1>2, <1>3, PTL DEF DcSpec, SizesAreTrue

(***************************************************************************)
(* DcView: what is shown                                                   *)
(***************************************************************************)
Numbers    == Unknown .. Cardinality(DcItem)
FilterOf  == [mode : ViewMode, hide : BOOLEAN, dir : DcFolder]
TaskOf    == [dir : DcFolder, mode : ViewMode, opts : SUBSET DcOption, todo : SUBSET DcItem]
ViewTyped ==
  /\ thisdir \in loadedDirs /\ loadedDirs \in SUBSET DcFolder /\ specNow # OtherSpec
  /\ sizeOf \in [ViewMode -> [DcItem -> Numbers]]
  /\ stackOf \in [DcFolder -> Seq(Nat)] /\ filterAt \in Seq(FilterOf)
  /\ filesOf \in [DcFolder -> SUBSET DcItem] /\ \A d \in DcFolder : filesOf[d] \subseteq Held(d)
  /\ snapOf = [d \in DcFolder |-> snapOf[d]] /\ foundAt = [d \in DcFolder |-> foundAt[d]]
  /\ dcTasks \in Seq(TaskOf)

\* A stack has one DcFilter at most, and one that was made for its directory.
OwnFilters(stack, d, filters) ==
  \A k \in DOMAIN stack : stack[k] # UserFilter =>
    /\ stack[k] \in DOMAIN filters /\ filters[stack[k]].dir = d
    /\ \A l \in DOMAIN stack : stack[l] # UserFilter => l = k

\* What is known of an item is right, if it was counted for these codecs.
Tells(n, item, mode, codecs) == n \in {Unknown, Tree(item, mode, codecs)}

\* A snapshot can be gone back to.
SnapOK(sn, d, filters) ==
  /\ sn.filt \in Seq(Nat) /\ OwnFilters(sn.filt, d, filters)
  /\ DOMAIN sn.subdirs \subseteq DcFolder \ {d} /\ sn.subdirs = [e \in DOMAIN sn.subdirs |-> sn.subdirs[e]]
  /\ \A e \in DOMAIN sn.subdirs : sn.subdirs[e] \in Seq(Nat) /\ OwnFilters(sn.subdirs[e], e, filters)
  /\ d \in DOMAIN sn.local /\ (sn.local[d] # "" => sn.local[d] = sn.sort)
  /\ \A m \in ViewMode, i \in Held(d) :
       /\ sn.sizes[m][i] \in Numbers
       /\ m # "video" \/ sn.spec # OtherSpec => Tells(sn.sizes[m][i], i, m, sn.spec)
SnapsOK ==
  \A d \in DcFolder :
    /\ snapOf[d] = << >> => foundAt[d] = << >>
    /\ snapOf[d] # << >> =>
         /\ snapOf[d] = <<snapOf[d][1]>> /\ SnapOK(snapOf[d][1], d, filterAt)
         /\ foundAt[d] = <<[sort |-> snapOf[d][1].sort, stack |-> snapOf[d][1].filt,
                            subs |-> snapOf[d][1].subdirs]>>

StacksOK == \A d \in DcFolder : OwnFilters(stackOf[d], d, filterAt)
CountsOK ==
  \A m \in ViewMode, i \in DcItem :
    m # "video" \/ Holder[i] \notin outdated => Tells(sizeOf[m][i], i, m, specNow)

\* Why an item is not shown
Reason(stack, item, filters, codecs) == \E k \in DOMAIN stack : Hides(stack[k], item, filters, codecs)
HiddenOK ==
  \A i \in DcItem :
    Holder[i] \in loadedDirs /\ i \notin filesOf[Holder[i]] /\ filteredFor[Holder[i]] # OtherSpec =>
      Reason(stackOf[Holder[i]], i, filterAt, filteredFor[Holder[i]])

ViewIInv == ViewTyped /\ SnapsOK /\ StacksOK /\ CountsOK /\ HiddenOK /\ undone.was = undone.is

\* How much an item counts: no more than all, and the codecs matter only for videos.
LEMMA TreeCounts ==
  ASSUME NEW i \in DcItem, NEW m \in ViewMode, NEW s
  PROVE  /\ Tree(i, m, s) \in Numbers /\ Tree(i, m, s) # Unknown
         /\ \A t : m # "video" => Tree(i, m, s) = Tree(i, m, t)
         /\ Nature[i] = "video" /\ Match(CodecOf[i], s) => Tree(i, "video", s) = 1
<1> DEFINE counted(t) == {j \in DcItem : Leaf(j, m, t) /\ IF Nature[i] = "dir" THEN Holder[j] = i ELSE j = i}
<1>1. Cardinality(DcItem) \in Nat /\ Cardinality(counted(s)) \in Nat
      /\ Cardinality(counted(s)) <= Cardinality(DcItem)
  <2>1. counted(s) \subseteq DcItem /\ IsFiniteSet(DcItem)
    BY DcViewAssumption
  <2> HIDE DEF counted
  <2> QED BY <2>1, FS_CardinalityType, FS_Subset
<1>2. Tree(i, m, s) = Cardinality(counted(s))
  BY DEF Tree
<1>3. ASSUME NEW t, m # "video" PROVE Tree(i, m, s) = Tree(i, m, t)
  <2>1. counted(s) = counted(t)
    BY <1>3 DEF Leaf
  <2> QED BY <2>1 DEF Tree
<1>4. ASSUME Nature[i] = "video", Match(CodecOf[i], s) PROVE Tree(i, "video", s) = 1
  <2>1. {j \in DcItem : Leaf(j, "video", s) /\ IF Nature[i] = "dir" THEN Holder[j] = i ELSE j = i} = {i}
    BY <1>4 DEF Leaf
  <2>2. Cardinality({i}) = 1
    BY FS_Singleton
  <2> QED BY <2>1, <2>2 DEF Tree
<1> HIDE DEF counted
<1> QED BY <1>1, <1>2, <1>3, <1>4 DEF Numbers, Unknown

\* A directory that is filtered from right counts hides nothing without a reason.
LEMMA RefilterTells ==
  ASSUME NEW d, NEW stack, NEW sizes, NEW filters, NEW codecs,
         \A m \in ViewMode, i \in DcItem : Holder[i] = d => Tells(sizes[m][i], i, m, codecs),
         \A k \in DOMAIN stack : IsDcFilter(stack[k]) => filters[stack[k]].mode \in ViewMode,
         NEW i \in DcItem, Holder[i] = d, i \notin Refiltered(d, stack, sizes, filters, codecs)
  PROVE  Reason(stack, i, filters, codecs)
<1>1. PICK k \in DOMAIN stack : ~LetsPass(stack[k], i, sizes, filters, codecs)
  BY DEF Refiltered, Held
<1>2. Hides(stack[k], i, filters, codecs)
  <2>1. CASE ~IsDcFilter(stack[k])
    BY <1>1, <2>1 DEF LetsPass, Hides
  <2>2. CASE IsDcFilter(stack[k]) /\ Nature[i] = "dir"
    <3>1. /\ filters[stack[k]].hide /\ sizes[filters[stack[k]].mode][i] = 0
          /\ filters[stack[k]].mode \in ViewMode
      BY <1>1, <2>2 DEF LetsPass
    <3>2. Tree(i, filters[stack[k]].mode, codecs) = 0
      BY <3>1 DEF Tells, Unknown
    <3> QED BY <2>2, <3>1, <3>2 DEF Hides
  <2>3. CASE IsDcFilter(stack[k]) /\ Nature[i] # "dir"
    <3>1. /\ filters[stack[k]].mode = "video" /\ ~(sizes["video"][i] > 0)
          /\ ~(sizes["video"][i] = Unknown /\ Tree(i, "video", codecs) > 0)
      BY <1>1, <2>3 DEF LetsPass
    <3>2. Tells(sizes["video"][i], i, "video", codecs) /\ "video" \in ViewMode
      BY DEF ViewMode
    <3>3. ASSUME Nature[i] = "video", Match(CodecOf[i], codecs) PROVE FALSE
      <4>1. Tree(i, "video", codecs) = 1
        BY <3>2, <3>3, TreeCounts
      <4> QED BY <3>1, <3>2, <4>1 DEF Tells
    <3> QED BY <2>3, <3>1, <3>3 DEF Hides
  <2> QED BY <2>1, <2>2, <2>3
<1> QED BY <1>1, <1>2 DEF Reason

\* What filters count is right, and what was known is kept.
LEMMA CountedTells ==
  ASSUME NEW dirs, NEW stacks, NEW sizes \in [ViewMode -> [DcItem -> Numbers]], NEW filters, NEW codecs
  PROVE  /\ Counted(dirs, stacks, sizes, filters, codecs) \in [ViewMode -> [DcItem -> Numbers]]
         /\ \A m \in ViewMode, i \in DcItem :
              Counted(dirs, stacks, sizes, filters, codecs)[m][i] \in {sizes[m][i], Tree(i, m, codecs)}
<1> DEFINE f == [i \in DcItem |->
     IF /\ Holder[i] \in dirs /\ CountsVideos(stacks[Holder[i]], filters)
        /\ Nature[i] # "dir" /\ sizes["video"][i] = Unknown
     THEN Tree(i, "video", codecs) ELSE sizes["video"][i]]
<1>1. "video" \in ViewMode /\ \A i \in DcItem : Tree(i, "video", codecs) \in Numbers
  BY TreeCounts DEF ViewMode
<1>2. f \in [DcItem -> Numbers]
      /\ \A i \in DcItem : f[i] = sizes["video"][i] \/ f[i] = Tree(i, "video", codecs)
  BY <1>1
<1>3. Counted(dirs, stacks, sizes, filters, codecs) = [sizes EXCEPT !["video"] = f]
  BY DEF Counted
<1> HIDE DEF f
<1> QED BY <1>1, <1>2, <1>3

\* A stack with one DcFilter at most
LEMMA OneFilter ==
  ASSUME NEW stack, NEW d, NEW filters, OwnFilters(stack, d, filters)
  PROVE  Cardinality(DcFilterOf(stack)) <= 1
<1>1. CASE DcFilterOf(stack) = {}
  BY <1>1, FS_EmptySet
<1>2. CASE DcFilterOf(stack) # {}
  <2>1. PICK k : k \in DcFilterOf(stack)
    BY <1>2
  <2>2. DcFilterOf(stack) = {k}
    BY <2>1 DEF DcFilterOf, IsDcFilter, OwnFilters
  <2> QED BY <2>2, FS_Singleton
<1> QED BY <1>1, <1>2

\* Filters that are added, or changed, leave it to stacks which of them are theirs.
Grown(old, new) == \A id \in DOMAIN old : id \in DOMAIN new /\ new[id].dir = old[id].dir

\* Filters that are there keep their directory, so a stack of them stays its own.
LEMMA FiltersStay ==
  ASSUME NEW old, NEW new, Grown(old, new)
  PROVE  /\ \A stack, d : OwnFilters(stack, d, old) => OwnFilters(stack, d, new)
         /\ \A sn, d : SnapOK(sn, d, old) => SnapOK(sn, d, new)
<1>1. ASSUME NEW stack, NEW d, OwnFilters(stack, d, old) PROVE OwnFilters(stack, d, new)
  BY <1>1 DEF OwnFilters, Grown
<1>2. ASSUME NEW sn, NEW d, SnapOK(sn, d, old) PROVE SnapOK(sn, d, new)
  BY <1>1, <1>2 DEF SnapOK
<1> QED BY <1>1, <1>2

\* A filter of the user's on a stack, and a new one for the directory where there is none.
LEMMA StackGrows ==
  ASSUME NEW stack \in Seq(Nat), NEW d, NEW filters, OwnFilters(stack, d, filters), NEW id \in Nat
  PROVE  /\ Append(stack, id) \in Seq(Nat)
         /\ id = UserFilter => OwnFilters(Append(stack, id), d, filters)
         /\ DcFilterOf(stack) = {} /\ id \in DOMAIN filters /\ filters[id].dir = d
              => OwnFilters(Append(stack, id), d, filters)
         /\ \A k \in DOMAIN stack : k \in DOMAIN Append(stack, id) /\ Append(stack, id)[k] = stack[k]
<1> DEFINE t == Append(stack, id)
<1>1. /\ t \in Seq(Nat) /\ Len(t) = Len(stack) + 1 /\ Len(stack) \in Nat
      /\ t[Len(stack) + 1] = id /\ \A k \in 1 .. Len(stack) : t[k] = stack[k]
      /\ DOMAIN stack = 1 .. Len(stack) /\ DOMAIN t = 1 .. Len(t)
  OBVIOUS
<1> HIDE DEF t
<1>2. \A k \in DOMAIN t :
       (k \in DOMAIN stack /\ t[k] = stack[k]) \/ (k = Len(stack) + 1 /\ t[k] = id)
  <2>1. ASSUME NEW k \in 1 .. Len(stack) + 1 PROVE k \in 1 .. Len(stack) \/ k = Len(stack) + 1
    BY <1>1
  <2>2. DOMAIN t = 1 .. Len(stack) + 1
    BY <1>1
  <2>3. \A k \in DOMAIN t : k \in DOMAIN stack \/ k = Len(stack) + 1
    <3>1. DOMAIN stack = 1 .. Len(stack)
      BY <1>1
    <3> QED BY <2>1, <2>2, <3>1, Zenon
  <2>4. \A k \in DOMAIN stack : t[k] = stack[k]
    BY <1>1
  <2>5. t[Len(stack) + 1] = id
    BY <1>1
  <2> QED BY <2>3, <2>4, <2>5, Zenon
<1>3. \A k \in DOMAIN stack : k \in DOMAIN t /\ t[k] = stack[k]
  BY <1>1
<1>4. ASSUME id = UserFilter PROVE OwnFilters(t, d, filters)
  BY <1>2, <1>4 DEF OwnFilters
<1>5. ASSUME DcFilterOf(stack) = {}, id \in DOMAIN filters, filters[id].dir = d
      PROVE  OwnFilters(t, d, filters)
  <2>1. \A k \in DOMAIN stack : stack[k] = UserFilter
    BY <1>5 DEF DcFilterOf, IsDcFilter
  <2> QED BY <1>2, <1>5, <2>1 DEF OwnFilters
<1> QED BY <1>1, <1>3, <1>4, <1>5 DEF t

\* What remains of a stack when an entry is removed
LEMMA StackShrinks ==
  ASSUME NEW stack \in Seq(Nat), NEW d, NEW filters, OwnFilters(stack, d, filters), NEW k \in DOMAIN stack
  PROVE  RemoveAt(stack, k) \in Seq(Nat) /\ OwnFilters(RemoveAt(stack, k), d, filters)
<1> DEFINE t == RemoveAt(stack, k)
           old(l) == IF l < k THEN l ELSE l + 1
<1>1. k \in 1 .. Len(stack) /\ Len(stack) \in Nat /\ DOMAIN stack = 1 .. Len(stack)
  OBVIOUS
<1>2. /\ t \in Seq(Nat) /\ Len(t) = Len(stack) - 1
      /\ \A l \in 1 .. Len(stack) - 1 : t[l] = IF l < k THEN stack[l] ELSE stack[l + 1]
  BY <1>1, RemovedEntry
<1> HIDE DEF t
<1>3. ASSUME NEW l \in DOMAIN t PROVE l \in Nat /\ old(l) \in DOMAIN stack /\ t[l] = stack[old(l)]
  <2>1. l \in 1 .. Len(stack) - 1 /\ l \in Nat /\ k \in Nat
    BY <1>1, <1>2
  <2>2. CASE l < k
    <3>1. old(l) = l /\ l \in 1 .. Len(stack)
      BY <1>1, <2>1, <2>2
    <3> QED BY <1>1, <1>2, <2>1, <2>2, <3>1
  <2>3. CASE ~(l < k)
    <3>1. old(l) = l + 1 /\ l + 1 \in 1 .. Len(stack)
      BY <1>1, <2>1, <2>3
    <3>2. t[l] = stack[l + 1]
      BY <1>2, <2>1, <2>3
    <3> QED BY <1>1, <2>1, <3>1, <3>2
  <2> QED BY <2>2, <2>3
<1>4. ASSUME NEW l \in Nat, NEW m \in Nat, old(l) = old(m) PROVE l = m
  BY <1>1, <1>4
<1> HIDE DEF old
<1>5. OwnFilters(t, d, filters)
  BY <1>3, <1>4 DEF OwnFilters
<1> QED BY <1>2, <1>5 DEF t

\* What a count may be
LEMMA CountsAre == Unknown \in Numbers /\ Cardinality(DcItem) \in Nat
<1>1. Cardinality(DcItem) \in Nat
  BY FS_CardinalityType, DcViewAssumption
<1> QED BY <1>1 DEF Numbers, Unknown

\* At first nothing is counted, filtered or hidden.
LEMMA ViewBegin == DcViewInit => ViewIInv
<1> SUFFICES ASSUME DcViewInit PROVE ViewIInv
  OBVIOUS
<1>0. << >> \in Seq(Nat) /\ << >> \in Seq(FilterOf) /\ << >> \in Seq(TaskOf) /\ DOMAIN << >> = {}
  OBVIOUS
<1> USE DEF DcViewInit
<1>1. ViewTyped
  <2>1. specNow # OtherSpec
    <3>1. {"av1"} # {"earlier"}
      OBVIOUS
    <3> QED BY <3>1 DEF OtherSpec
  <2>2. sizeOf \in [ViewMode -> [DcItem -> Numbers]]
    BY CountsAre
  <2>3. /\ stackOf \in [DcFolder -> Seq(Nat)] /\ filterAt \in Seq(FilterOf)
        /\ dcTasks \in Seq(TaskOf)
    BY <1>0
  <2>4. filesOf \in [DcFolder -> SUBSET DcItem] /\ \A d \in DcFolder : filesOf[d] \subseteq Held(d)
    BY DEF Held
  <2>5. snapOf = [d \in DcFolder |-> snapOf[d]] /\ foundAt = [d \in DcFolder |-> foundAt[d]]
    OBVIOUS
  <2>6. thisdir \in loadedDirs /\ loadedDirs \in SUBSET DcFolder
    BY DcViewAssumption
  <2> QED BY <2>1, <2>2, <2>3, <2>4, <2>5, <2>6 DEF ViewTyped
<1>2. SnapsOK
  BY DEF SnapsOK
<1>3. StacksOK
  <2>1. \A d \in DcFolder : DOMAIN stackOf[d] = {}
    BY <1>0
  <2> QED BY <2>1 DEF StacksOK, OwnFilters
<1>4. CountsOK
  BY DEF CountsOK, Tells
<1>5. HiddenOK
  <2>1. \A i \in DcItem : Holder[i] \in loadedDirs => i \in filesOf[Holder[i]]
    BY DcViewAssumption DEF Held
  <2> QED BY <2>1 DEF HiddenOK
<1>6. undone.was = undone.is
  BY DEF NothingUndone
<1> QED BY <1>1, <1>2, <1>3, <1>4, <1>5, <1>6 DEF ViewIInv

\* Directories are filtered again: what they hide they have a reason for, the others are as before.
LEMMA FilteringTells ==
  ASSUME ViewTyped, HiddenOK, NEW dirs \in SUBSET DcFolder, NEW old,
         NEW stacks \in [DcFolder -> Seq(Nat)], NEW filters \in Seq(FilterOf),
         \A d \in DcFolder : OwnFilters(stacks[d], d, filters),
         NEW sizes \in [ViewMode -> [DcItem -> Numbers]],
         \A m \in ViewMode, i \in DcItem :
           m # "video" \/ Holder[i] \notin old => Tells(sizes[m][i], i, m, specNow),
         \A d \in DcFolder \ dirs :
           stacks[d] = stackOf[d] /\ \A k \in DOMAIN stackOf[d] :
             IsDcFilter(stackOf[d][k]) => filters[stackOf[d][k]] = filterAt[stackOf[d][k]],
         NEW files,
         \A d \in DcFolder : files[d] = IF d \in dirs THEN Refiltered(d, stacks[d], sizes, filters, specNow)
                                        ELSE filesOf[d]
  PROVE  /\ \A d \in DcFolder : files[d] \subseteq Held(d)
         /\ \A i \in DcItem :
              Holder[i] \in loadedDirs \cup dirs /\ i \notin files[Holder[i]]
                /\ FilteredAs(dirs, old)[Holder[i]] # OtherSpec
              => Reason(stacks[Holder[i]], i, filters, FilteredAs(dirs, old)[Holder[i]])
<1>1. ASSUME NEW d \in DcFolder PROVE files[d] \subseteq Held(d)
  BY <1>1 DEF Refiltered, ViewTyped
<1>2. ASSUME NEW i \in DcItem, Holder[i] \in loadedDirs \cup dirs, i \notin files[Holder[i]],
             FilteredAs(dirs, old)[Holder[i]] # OtherSpec
      PROVE  Reason(stacks[Holder[i]], i, filters, FilteredAs(dirs, old)[Holder[i]])
  <2> DEFINE d == Holder[i]
  <2>1. d \in DcFolder
    BY DcViewAssumption
  <2>2. CASE d \in dirs
    <3>1. d \notin old /\ FilteredAs(dirs, old)[d] = specNow
      BY <1>2, <2>1, <2>2 DEF FilteredAs
    <3>2. \A m \in ViewMode, j \in DcItem : Holder[j] = d => Tells(sizes[m][j], j, m, specNow)
      BY <3>1
    <3>3. \A k \in DOMAIN stacks[d] : IsDcFilter(stacks[d][k]) => filters[stacks[d][k]].mode \in ViewMode
      <4> SUFFICES ASSUME NEW k \in DOMAIN stacks[d], IsDcFilter(stacks[d][k])
                   PROVE  filters[stacks[d][k]].mode \in ViewMode
        OBVIOUS
      <4>1. stacks[d][k] \in DOMAIN filters
        BY <2>1 DEF IsDcFilter, OwnFilters
      <4>2. filters[stacks[d][k]] \in FilterOf
        BY <4>1
      <4> QED BY <4>2 DEF FilterOf
    <3>4. i \notin Refiltered(d, stacks[d], sizes, filters, specNow)
      BY <1>2, <2>1, <2>2
    <3> HIDE DEF d
    <3>5. Reason(stacks[d], i, filters, specNow)
      BY <3>2, <3>3, <3>4, RefilterTells DEF d
    <3> QED BY <3>1, <3>5 DEF d
  <2>3. CASE d \notin dirs
    <3>1. FilteredAs(dirs, old)[d] = filteredFor[d] /\ d \in loadedDirs /\ i \notin filesOf[d]
      BY <1>2, <2>1, <2>3 DEF FilteredAs
    <3>2. Reason(stackOf[d], i, filterAt, filteredFor[d])
      BY <1>2, <3>1 DEF HiddenOK
    <3>3. PICK k \in DOMAIN stackOf[d] : Hides(stackOf[d][k], i, filterAt, filteredFor[d])
      BY <3>2 DEF Reason
    <3>4. stacks[d] = stackOf[d] /\ Hides(stackOf[d][k], i, filters, filteredFor[d])
      BY <2>1, <2>3, <3>3 DEF Hides
    <3> QED BY <3>1, <3>3, <3>4 DEF Reason
  <2> QED BY <2>2, <2>3
<1> QED BY <1>1, <1>2

\* What filters count besides, is right as well.
LEMMA CountingTells ==
  ASSUME NEW dirs, NEW stacks, NEW filters, NEW old, NEW sizes \in [ViewMode -> [DcItem -> Numbers]],
         \A m \in ViewMode, i \in DcItem :
           m # "video" \/ Holder[i] \notin old => Tells(sizes[m][i], i, m, specNow)
  PROVE  /\ Counted(dirs, stacks, sizes, filters, specNow) \in [ViewMode -> [DcItem -> Numbers]]
         /\ \A m \in ViewMode, i \in DcItem :
              m # "video" \/ Holder[i] \notin old
                => Tells(Counted(dirs, stacks, sizes, filters, specNow)[m][i], i, m, specNow)
<1> DEFINE counted == Counted(dirs, stacks, sizes, filters, specNow)
<1>1. /\ counted \in [ViewMode -> [DcItem -> Numbers]]
      /\ \A m \in ViewMode, i \in DcItem : counted[m][i] \in {sizes[m][i], Tree(i, m, specNow)}
  BY CountedTells
<1> HIDE DEF counted
<1>2. \A m \in ViewMode, i \in DcItem :
        m # "video" \/ Holder[i] \notin old => Tells(counted[m][i], i, m, specNow)
  BY <1>1 DEF Tells
<1> QED BY <1>1, <1>2 DEF counted

\* A result is right when it arrives.
LEMMA ResultCounts == ViewIInv /\ DcResult => ViewIInv'
<1> SUFFICES ASSUME ViewIInv, DcResult PROVE ViewIInv'
  OBVIOUS
<1> DEFINE item == CHOOSE i \in Head(dcTasks).todo : TRUE
           mode == Head(dcTasks).mode
<1>1. /\ dcTasks # << >> /\ Head(dcTasks).todo # {}
      /\ sizeOf' = [sizeOf EXCEPT ![mode][item] = Tree(item, mode, specNow)]
      /\ dcTasks' = [dcTasks EXCEPT ![1].todo = @ \ {item}]
      /\ UNCHANGED <<thisdir, loadedDirs, specNow, stackOf, filterAt, filesOf, snapOf,
                     foundAt, filteredFor, outdated, undone>>
  BY DEF DcResult
<1>2. item \in Head(dcTasks).todo
  BY <1>1
<1>3. /\ 1 \in DOMAIN dcTasks /\ Head(dcTasks) = dcTasks[1] /\ dcTasks[1] \in TaskOf
      /\ dcTasks \in Seq(TaskOf)
  BY <1>1 DEF ViewIInv, ViewTyped
<1>4. item \in DcItem /\ mode \in ViewMode
  BY <1>2, <1>3 DEF TaskOf
<1>5. [dcTasks[1] EXCEPT !.todo = @ \ {item}] \in TaskOf
  BY <1>3 DEF TaskOf
<1> HIDE DEF item, mode
<1>6. dcTasks' \in Seq(TaskOf)
  BY <1>1, <1>3, <1>5
<1>7. /\ sizeOf' \in [ViewMode -> [DcItem -> Numbers]]
      /\ \A m \in ViewMode, i \in DcItem :
           sizeOf'[m][i] = IF m = mode /\ i = item THEN Tree(i, m, specNow) ELSE sizeOf[m][i]
  BY <1>1, <1>4, TreeCounts DEF ViewIInv, ViewTyped
<1>8. ViewTyped'
  BY <1>1, <1>6, <1>7 DEF ViewIInv, ViewTyped, Held
<1>9. CountsOK'
  BY <1>1, <1>7 DEF ViewIInv, CountsOK, Tells
<1>10. SnapsOK' /\ StacksOK' /\ HiddenOK'
  BY <1>1 DEF ViewIInv, SnapsOK, StacksOK, HiddenOK
<1> QED BY <1>1, <1>8, <1>9, <1>10 DEF ViewIInv

\* A directory that is entered for the first time is filtered.
LEMMA EnterTells == ASSUME NEW d \in DcFolder PROVE ViewIInv /\ EnterFolder(d) => ViewIInv'
<1> SUFFICES ASSUME ViewIInv, EnterFolder(d) PROVE ViewIInv'
  OBVIOUS
<1>1. /\ thisdir' = d /\ loadedDirs' = loadedDirs \cup {d}
      /\ UNCHANGED <<specNow, sizeOf, stackOf, filterAt, snapOf, dcTasks, foundAt, outdated, undone>>
  BY DEF EnterFolder
<1>2. /\ filesOf' \in [DcFolder -> SUBSET DcItem]
      /\ (\A e \in DcFolder : filesOf'[e] \subseteq Held(e)) /\ HiddenOK'
  <2>1. CASE d \in loadedDirs
    <3>1. UNCHANGED <<filesOf, filteredFor>> /\ loadedDirs' = loadedDirs
      BY <1>1, <2>1 DEF EnterFolder
    <3> QED BY <1>1, <3>1 DEF ViewIInv, ViewTyped, HiddenOK
  <2>2. CASE d \notin loadedDirs
    <3>1. /\ filesOf' = [filesOf EXCEPT ![d] = Refiltered(d, stackOf[d], sizeOf, filterAt, specNow)]
          /\ filteredFor' = FilteredAs({d}, outdated)
      BY <2>2 DEF EnterFolder
    <3>2. /\ \A e \in DcFolder : filesOf'[e] = IF e \in {d}
               THEN Refiltered(e, stackOf[e], sizeOf, filterAt, specNow) ELSE filesOf[e]
          /\ Refiltered(d, stackOf[d], sizeOf, filterAt, specNow) \subseteq DcItem
      BY <3>1 DEF ViewIInv, ViewTyped, Refiltered, Held
    <3>3. /\ \A e \in DcFolder : filesOf'[e] \subseteq Held(e)
          /\ \A i \in DcItem :
               Holder[i] \in loadedDirs \cup {d} /\ i \notin filesOf'[Holder[i]]
                 /\ FilteredAs({d}, outdated)[Holder[i]] # OtherSpec
               => Reason(stackOf[Holder[i]], i, filterAt, FilteredAs({d}, outdated)[Holder[i]])
      <4>1. /\ {d} \in SUBSET DcFolder /\ stackOf \in [DcFolder -> Seq(Nat)] /\ filterAt \in Seq(FilterOf)
            /\ sizeOf \in [ViewMode -> [DcItem -> Numbers]]
            /\ \A e \in DcFolder : OwnFilters(stackOf[e], e, filterAt)
            /\ \A m \in ViewMode, i \in DcItem :
                 m # "video" \/ Holder[i] \notin outdated => Tells(sizeOf[m][i], i, m, specNow)
        BY DEF ViewIInv, ViewTyped, StacksOK, CountsOK
      <4> QED BY <3>2, <4>1, FilteringTells DEF ViewIInv
    <3> QED BY <1>1, <3>1, <3>2, <3>3 DEF ViewIInv, ViewTyped, HiddenOK
  <2> QED BY <2>1, <2>2
<1>3. ViewTyped'
  BY <1>1, <1>2 DEF ViewIInv, ViewTyped, Held
<1>4. SnapsOK' /\ StacksOK' /\ CountsOK'
  BY <1>1 DEF ViewIInv, SnapsOK, StacksOK, CountsOK
<1> QED BY <1>1, <1>2, <1>3, <1>4 DEF ViewIInv

\* A sorting of the user's hides nothing.
LEMMA SortingTells == ViewIInv /\ SetLocalSort => ViewIInv'
<1> SUFFICES ASSUME ViewIInv, SetLocalSort PROVE ViewIInv'
  OBVIOUS
<1>1. UNCHANGED <<thisdir, loadedDirs, specNow, sizeOf, stackOf, filterAt, filesOf, snapOf, dcTasks,
                  foundAt, filteredFor, outdated, undone>>
  BY DEF SetLocalSort
<1>2. ViewTyped' /\ SnapsOK'
  BY <1>1 DEF ViewIInv, ViewTyped, SnapsOK, Held
<1>3. StacksOK' /\ CountsOK' /\ HiddenOK'
  BY <1>1 DEF ViewIInv, StacksOK, CountsOK, HiddenOK
<1> QED BY <1>1, <1>2, <1>3 DEF ViewIInv

\* When directories are filtered again, and what their filters count is kept, all is right.
LEMMA RefreshTells ==
  ASSUME ViewIInv, NEW dirs \in SUBSET DcFolder, NEW sizes \in [ViewMode -> [DcItem -> Numbers]],
         \A m \in ViewMode, i \in DcItem :
           m # "video" \/ Holder[i] \notin outdated' => Tells(sizes[m][i], i, m, specNow),
         stackOf' \in [DcFolder -> Seq(Nat)], filterAt' \in Seq(FilterOf), StacksOK',
         \A d \in DcFolder \ dirs :
           stackOf'[d] = stackOf[d] /\ \A k \in DOMAIN stackOf[d] :
             IsDcFilter(stackOf[d][k]) => filterAt'[stackOf[d][k]] = filterAt[stackOf[d][k]],
         filesOf' = [d \in DcFolder |-> IF d \in dirs
                       THEN Refiltered(d, stackOf'[d], sizes, filterAt', specNow) ELSE filesOf[d]],
         filteredFor' = FilteredAs(dirs, outdated'),
         sizeOf' = Counted(dirs, stackOf', sizes, filterAt', specNow),
         UNCHANGED <<loadedDirs, specNow>>
  PROVE  /\ sizeOf' \in [ViewMode -> [DcItem -> Numbers]] /\ CountsOK' /\ HiddenOK'
         /\ filesOf' \in [DcFolder -> SUBSET DcItem]
         /\ \A d \in DcFolder : filesOf'[d] \subseteq Held(d)
<1>1. /\ sizeOf' \in [ViewMode -> [DcItem -> Numbers]]
      /\ \A m \in ViewMode, i \in DcItem :
           m # "video" \/ Holder[i] \notin outdated' => Tells(sizeOf'[m][i], i, m, specNow)
  BY CountingTells
<1>2. \A d \in DcFolder : OwnFilters(stackOf'[d], d, filterAt')
  BY DEF StacksOK
<1>3. \A d \in DcFolder : filesOf'[d] = IF d \in dirs
        THEN Refiltered(d, stackOf'[d], sizes, filterAt', specNow) ELSE filesOf[d]
  OBVIOUS
<1>4. /\ \A d \in DcFolder : filesOf'[d] \subseteq Held(d)
      /\ \A i \in DcItem :
           Holder[i] \in loadedDirs \cup dirs /\ i \notin filesOf'[Holder[i]]
             /\ FilteredAs(dirs, outdated')[Holder[i]] # OtherSpec
           => Reason(stackOf'[Holder[i]], i, filterAt', FilteredAs(dirs, outdated')[Holder[i]])
  BY <1>2, <1>3, FilteringTells DEF ViewIInv
<1>5. filesOf' \in [DcFolder -> SUBSET DcItem]
  BY DEF ViewIInv, ViewTyped, Refiltered, Held
<1>6. CountsOK'
  BY <1>1 DEF CountsOK
<1>7. HiddenOK'
  BY <1>4 DEF HiddenOK
<1> QED BY <1>1, <1>4, <1>5, <1>6, <1>7

\* A filter of the user's hides what it must.
LEMMA PushTells == ViewIInv /\ PushFilter => ViewIInv'
<1> SUFFICES ASSUME ViewIInv, PushFilter PROVE ViewIInv'
  OBVIOUS
<1> DEFINE d == thisdir
<1>1. /\ stackOf' = [stackOf EXCEPT ![d] = Append(stackOf[d], UserFilter)]
      /\ filesOf' = [filesOf EXCEPT ![d] = Refiltered(d, stackOf'[d], sizeOf, filterAt, specNow)]
      /\ sizeOf' = Counted({d}, stackOf', sizeOf, filterAt, specNow)
      /\ filteredFor' = FilteredAs({d}, outdated)
      /\ UNCHANGED <<thisdir, loadedDirs, specNow, filterAt, snapOf, dcTasks, foundAt, outdated, undone>>
  BY DEF PushFilter
<1>2. d \in DcFolder /\ stackOf[d] \in Seq(Nat) /\ UserFilter \in Nat
  BY DEF ViewIInv, ViewTyped, UserFilter
<1>3. OwnFilters(Append(stackOf[d], UserFilter), d, filterAt) /\ Append(stackOf[d], UserFilter) \in Seq(Nat)
  <2>1. OwnFilters(stackOf[d], d, filterAt)
    BY <1>2 DEF ViewIInv, StacksOK
  <2> HIDE DEF d
  <2> QED BY <1>2, <2>1, StackGrows
<1> HIDE DEF d
<1>4. /\ stackOf' \in [DcFolder -> Seq(Nat)] /\ StacksOK'
      /\ \A e \in DcFolder \ {d} : stackOf'[e] = stackOf[e]
  BY <1>1, <1>2, <1>3 DEF ViewIInv, ViewTyped, StacksOK
<1>5. filesOf' = [e \in DcFolder |-> IF e \in {d}
                    THEN Refiltered(e, stackOf'[e], sizeOf, filterAt', specNow) ELSE filesOf[e]]
  BY <1>1 DEF ViewIInv, ViewTyped
<1>6. /\ {d} \in SUBSET DcFolder /\ sizeOf \in [ViewMode -> [DcItem -> Numbers]]
      /\ filterAt' \in Seq(FilterOf)
      /\ \A m \in ViewMode, i \in DcItem :
           m # "video" \/ Holder[i] \notin outdated' => Tells(sizeOf[m][i], i, m, specNow)
  BY <1>1, <1>2 DEF ViewIInv, ViewTyped, CountsOK
<1>7. /\ sizeOf' \in [ViewMode -> [DcItem -> Numbers]] /\ CountsOK' /\ HiddenOK'
      /\ filesOf' \in [DcFolder -> SUBSET DcItem]
      /\ \A e \in DcFolder : filesOf'[e] \subseteq Held(e)
  BY <1>1, <1>4, <1>5, <1>6, RefreshTells
<1>8. ViewTyped'
  BY <1>1, <1>4, <1>7 DEF ViewIInv, ViewTyped, Held
<1>9. SnapsOK'
  BY <1>1 DEF ViewIInv, SnapsOK
<1> QED BY <1>1, <1>4, <1>7, <1>8, <1>9 DEF ViewIInv

\* A filter that is changed in place, or made, is that of one directory.
LEMMA SetFilterKeeps ==
  ASSUME ViewTyped, StacksOK, NEW d \in DcFolder, NEW mode \in ViewMode, NEW hide \in BOOLEAN,
         SetFilter(d, mode, hide)
  PROVE  /\ stackOf' \in [DcFolder -> Seq(Nat)] /\ filterAt' \in Seq(FilterOf) /\ StacksOK'
         /\ Grown(filterAt, filterAt')
         /\ \A e \in DcFolder \ {d} :
              stackOf'[e] = stackOf[e] /\ \A k \in DOMAIN stackOf[e] :
                IsDcFilter(stackOf[e][k]) => filterAt'[stackOf[e][k]] = filterAt[stackOf[e][k]]
<1> DEFINE new == [mode |-> mode, hide |-> hide, dir |-> d]
<1>1. new \in FilterOf /\ new.dir = d
  BY DEF FilterOf
<1>2. \A e \in DcFolder : \A k \in DOMAIN stackOf[e] : IsDcFilter(stackOf[e][k]) =>
        stackOf[e][k] \in DOMAIN filterAt /\ filterAt[stackOf[e][k]].dir = e
  BY DEF StacksOK, OwnFilters, IsDcFilter
<1>3. CASE DcFilterOf(stackOf[d]) # {}
  <2> DEFINE k == CHOOSE k \in DcFilterOf(stackOf[d]) : TRUE
             id == stackOf[d][k]
  <2>1. k \in DcFilterOf(stackOf[d])
    BY <1>3
  <2>2. filterAt' = [filterAt EXCEPT ![id] = new] /\ UNCHANGED stackOf
    BY <1>3 DEF SetFilter
  <2>3. k \in DOMAIN stackOf[d] /\ IsDcFilter(id)
    BY <2>1 DEF DcFilterOf
  <2> HIDE DEF k, new
  <2>4. id \in DOMAIN filterAt /\ filterAt[id].dir = d
    BY <1>2, <2>3
  <2> HIDE DEF id
  <2>5. /\ filterAt' \in Seq(FilterOf) /\ DOMAIN filterAt' = DOMAIN filterAt
        /\ \A i \in DOMAIN filterAt : filterAt'[i] = IF i = id THEN new ELSE filterAt[i]
    BY <1>1, <2>2, <2>4 DEF ViewTyped
  <2>6. Grown(filterAt, filterAt')
    BY <1>1, <2>4, <2>5 DEF Grown
  <2>7. StacksOK'
    BY <2>2, <2>6, FiltersStay DEF StacksOK
  <2>8. \A e \in DcFolder \ {d} : \A l \in DOMAIN stackOf[e] :
          IsDcFilter(stackOf[e][l]) => filterAt'[stackOf[e][l]] = filterAt[stackOf[e][l]]
    BY <1>2, <2>4, <2>5
  <2> QED BY <2>2, <2>5, <2>6, <2>7, <2>8 DEF ViewTyped
<1>4. CASE DcFilterOf(stackOf[d]) = {}
  <2> DEFINE id == Len(filterAt) + 1
  <2>1. /\ filterAt' = Append(filterAt, new)
        /\ stackOf' = [stackOf EXCEPT ![d] = Append(stackOf[d], id)]
    BY <1>4 DEF SetFilter
  <2> HIDE DEF new
  <2>2. /\ filterAt' \in Seq(FilterOf) /\ id \in Nat /\ id \in DOMAIN filterAt' /\ filterAt'[id] = new
        /\ \A i \in DOMAIN filterAt : i \in DOMAIN filterAt' /\ filterAt'[i] = filterAt[i]
    BY <1>1, <2>1 DEF ViewTyped
  <2>3. Grown(filterAt, filterAt')
    BY <2>2 DEF Grown
  <2>4. \A e \in DcFolder : OwnFilters(stackOf[e], e, filterAt')
    BY <2>3, FiltersStay DEF StacksOK
  <2> HIDE DEF id
  <2>5. Append(stackOf[d], id) \in Seq(Nat) /\ OwnFilters(Append(stackOf[d], id), d, filterAt')
    <3>1. stackOf[d] \in Seq(Nat) /\ filterAt'[id].dir = d
      BY <1>1, <2>2 DEF ViewTyped
    <3> QED BY <1>4, <2>2, <2>4, <3>1, StackGrows
  <2>6. stackOf' \in [DcFolder -> Seq(Nat)] /\ StacksOK' /\ \A e \in DcFolder \ {d} : stackOf'[e] = stackOf[e]
    BY <2>1, <2>4, <2>5 DEF ViewTyped, StacksOK
  <2>7. \A e \in DcFolder : \A l \in DOMAIN stackOf[e] :
          IsDcFilter(stackOf[e][l]) => filterAt'[stackOf[e][l]] = filterAt[stackOf[e][l]]
    BY <1>2, <2>2
  <2> QED BY <2>2, <2>3, <2>6, <2>7
<1> QED BY <1>3, <1>4

\* Of the filters only that of the directory is taken away.
LEMMA RemoveFilterKeeps ==
  ASSUME ViewTyped, StacksOK, NEW d \in DcFolder, RemoveFilter(d)
  PROVE  /\ stackOf' \in [DcFolder -> Seq(Nat)] /\ filterAt' = filterAt /\ StacksOK'
         /\ \A e \in DcFolder \ {d} : stackOf'[e] = stackOf[e]
         /\ DcFilterOf(stackOf[d]) = {} => stackOf' = stackOf
<1>1. CASE DcFilterOf(stackOf[d]) = {}
  <2>1. stackOf' = stackOf /\ filterAt' = filterAt
    BY <1>1 DEF RemoveFilter
  <2> QED BY <2>1 DEF ViewTyped, StacksOK
<1>2. CASE DcFilterOf(stackOf[d]) # {}
  <2> DEFINE k == CHOOSE k \in DcFilterOf(stackOf[d]) : TRUE
  <2>1. k \in DOMAIN stackOf[d]
    BY <1>2 DEF DcFilterOf
  <2>2. stackOf' = [stackOf EXCEPT ![d] = RemoveAt(stackOf[d], k)] /\ filterAt' = filterAt
    BY <1>2 DEF RemoveFilter
  <2> HIDE DEF k
  <2>3. RemoveAt(stackOf[d], k) \in Seq(Nat) /\ OwnFilters(RemoveAt(stackOf[d], k), d, filterAt)
    BY <2>1, StackShrinks DEF ViewTyped, StacksOK
  <2> QED BY <1>2, <2>2, <2>3 DEF ViewTyped, StacksOK
<1> QED BY <1>1, <1>2

\* When a task ends, its directory is filtered as it was asked to be.
LEMMA FinishTells == ViewIInv /\ DcFinish => ViewIInv'
<1> SUFFICES ASSUME ViewIInv, DcFinish PROVE ViewIInv'
  OBVIOUS
<1> DEFINE task == Head(dcTasks)
           d    == task.dir
           hide == "hide_empty" \in task.opts
           set  == "filter" \in task.opts \/ (task.mode # "video" /\ hide)
           refresh == {"sort", "filter", "hide_empty"} \cap task.opts # {} \/ DcFilterOf(stackOf[d]) # {}
<1>1. /\ dcTasks # << >> /\ dcTasks' = Tail(dcTasks)
      /\ UNCHANGED <<thisdir, loadedDirs, specNow, snapOf, foundAt, outdated, undone>>
  BY DEF DcFinish
<1>2. IF set THEN SetFilter(d, task.mode, hide) ELSE RemoveFilter(d)
  BY DEF DcFinish
<1>3. IF refresh
      THEN /\ filesOf' = [filesOf EXCEPT ![d] = Refiltered(d, stackOf'[d], sizeOf, filterAt', specNow)]
           /\ sizeOf' = Counted({d}, stackOf', sizeOf, filterAt', specNow)
           /\ filteredFor' = FilteredAs({d}, outdated)
      ELSE UNCHANGED <<filesOf, sizeOf, filteredFor>>
  BY DEF DcFinish
<1>4. task \in TaskOf /\ Tail(dcTasks) \in Seq(TaskOf)
  BY <1>1 DEF ViewIInv, ViewTyped
<1>5. d \in DcFolder /\ task.mode \in ViewMode /\ hide \in BOOLEAN
  BY <1>4 DEF TaskOf
<1>6. ~refresh => ~set /\ DcFilterOf(stackOf[d]) = {}
  OBVIOUS
<1> HIDE DEF d, hide, set, refresh
<1>7. /\ stackOf' \in [DcFolder -> Seq(Nat)] /\ filterAt' \in Seq(FilterOf) /\ StacksOK'
      /\ Grown(filterAt, filterAt')
      /\ \A e \in DcFolder \ {d} :
           stackOf'[e] = stackOf[e] /\ \A k \in DOMAIN stackOf[e] :
             IsDcFilter(stackOf[e][k]) => filterAt'[stackOf[e][k]] = filterAt[stackOf[e][k]]
      /\ ~refresh => UNCHANGED <<stackOf, filterAt>>
  <2>1. CASE set
    BY <1>2, <1>5, <1>6, <2>1, SetFilterKeeps DEF ViewIInv
  <2>2. CASE ~set
    <3>1. RemoveFilter(d)
      BY <1>2, <2>2
    <3> QED BY <1>5, <1>6, <3>1, RemoveFilterKeeps DEF ViewIInv, ViewTyped, Grown
  <2> QED BY <2>1, <2>2
<1>8. /\ sizeOf' \in [ViewMode -> [DcItem -> Numbers]] /\ CountsOK' /\ HiddenOK'
      /\ filesOf' \in [DcFolder -> SUBSET DcItem]
      /\ \A e \in DcFolder : filesOf'[e] \subseteq Held(e)
  <2>1. CASE refresh
    <3>1. filesOf' = [e \in DcFolder |-> IF e \in {d}
                        THEN Refiltered(e, stackOf'[e], sizeOf, filterAt', specNow) ELSE filesOf[e]]
      BY <1>3, <2>1 DEF ViewIInv, ViewTyped
    <3>2. /\ {d} \in SUBSET DcFolder /\ sizeOf \in [ViewMode -> [DcItem -> Numbers]]
          /\ \A m \in ViewMode, i \in DcItem :
               m # "video" \/ Holder[i] \notin outdated' => Tells(sizeOf[m][i], i, m, specNow)
      BY <1>1, <1>5 DEF ViewIInv, ViewTyped, CountsOK
    <3>3. /\ sizeOf' = Counted({d}, stackOf', sizeOf, filterAt', specNow)
          /\ filteredFor' = FilteredAs({d}, outdated') /\ UNCHANGED <<loadedDirs, specNow>>
      BY <1>1, <1>3, <2>1
    <3> QED BY <1>7, <3>1, <3>2, <3>3, RefreshTells
  <2>2. CASE ~refresh
    <3>1. UNCHANGED <<filesOf, sizeOf, filteredFor, stackOf, filterAt>>
      BY <1>3, <1>7, <2>2
    <3> QED BY <1>1, <3>1 DEF ViewIInv, ViewTyped, CountsOK, HiddenOK
  <2> QED BY <2>1, <2>2
<1>9. ViewTyped'
  BY <1>1, <1>4, <1>7, <1>8 DEF ViewIInv, ViewTyped, Held
<1>10. SnapsOK'
  <2>1. \A sn, e : SnapOK(sn, e, filterAt) => SnapOK(sn, e, filterAt')
    BY <1>7, FiltersStay
  <2> QED BY <1>1, <2>1 DEF ViewIInv, SnapsOK
<1> QED BY <1>1, <1>7, <1>8, <1>9, <1>10 DEF ViewIInv

\* What a command finds can be gone back to.
LEMMA SnapshotTells ==
  ASSUME ViewTyped, StacksOK, CountsOK, NEW d \in DcFolder
  PROVE  SnapOK(Snapshot(d), d, filterAt)
<1> DEFINE sn == Snapshot(d)
<1>1. /\ sn.sort = SortSeen(d) /\ sn.local = [e \in {d} \cup Children(d) |-> sortOf[e]]
      /\ sn.filt = stackOf[d] /\ sn.spec = IF d \in outdated THEN OtherSpec ELSE specNow
      /\ sn.sizes = [m \in ViewMode |-> [i \in Held(d) |-> sizeOf[m][i]]]
      /\ sn.subdirs = [e \in Children(d) \cap loadedDirs |-> stackOf[e]]
  BY DEF Snapshot
<1> HIDE DEF sn
<1>2. sn.filt \in Seq(Nat) /\ OwnFilters(sn.filt, d, filterAt)
  BY <1>1 DEF ViewTyped, StacksOK
<1>3. /\ DOMAIN sn.subdirs \subseteq DcFolder \ {d}
      /\ sn.subdirs = [e \in DOMAIN sn.subdirs |-> sn.subdirs[e]]
      /\ \A e \in DOMAIN sn.subdirs : sn.subdirs[e] = stackOf[e]
  <2>1. Children(d) \subseteq DcFolder \ {d}
    BY DcViewAssumption DEF Children
  <2> QED BY <1>1, <2>1
<1>4. \A e \in DOMAIN sn.subdirs : sn.subdirs[e] \in Seq(Nat) /\ OwnFilters(sn.subdirs[e], e, filterAt)
  BY <1>3 DEF ViewTyped, StacksOK
<1>5. d \in DOMAIN sn.local /\ (sn.local[d] # "" => sn.local[d] = sn.sort)
  BY <1>1 DEF SortSeen
<1>6. ASSUME NEW m \in ViewMode, NEW i \in Held(d)
      PROVE  /\ sn.sizes[m][i] \in Numbers
             /\ m # "video" \/ sn.spec # OtherSpec => Tells(sn.sizes[m][i], i, m, sn.spec)
  <2>1. i \in DcItem /\ Holder[i] = d /\ sn.sizes[m][i] = sizeOf[m][i]
    BY <1>1 DEF Held
  <2>2. m # "video" \/ sn.spec # OtherSpec => Tells(sizeOf[m][i], i, m, specNow)
    BY <1>1, <2>1 DEF CountsOK
  <2>3. CASE m = "video"
    BY <1>1, <2>1, <2>2, <2>3 DEF ViewTyped
  <2>4. CASE m # "video"
    <3>1. Tree(i, m, specNow) = Tree(i, m, sn.spec)
      BY <2>1, <2>4, TreeCounts
    <3> QED BY <2>1, <2>2, <2>4, <3>1 DEF Tells, ViewTyped
  <2> QED BY <2>3, <2>4
<1>7. SnapOK(sn, d, filterAt)
  BY <1>2, <1>3, <1>4, <1>5, <1>6 DEF SnapOK
<1> QED BY <1>7 DEF sn

\* A command forgets what was counted for other codecs, and keeps what it finds.
LEMMA DcCommandTells == ASSUME NEW c \in DcCommands PROVE ViewIInv /\ DcCommand(c) => ViewIInv'
<1> SUFFICES ASSUME ViewIInv, DcCommand(c) PROVE ViewIInv'
  OBVIOUS
<1> DEFINE d == thisdir
           found == <<[sort |-> SortSeen(d), stack |-> stackOf[d],
                       subs |-> [e \in Children(d) \cap loadedDirs |-> stackOf[e]]]>>
<1>1. /\ specNow' = IF c.mode = "video" THEN c.codec ELSE specNow
      /\ sizeOf' = ClearedFor(c) /\ outdated' = IF specNow' # specNow THEN {} ELSE outdated
      /\ UNCHANGED <<thisdir, loadedDirs, stackOf, filterAt, filesOf, filteredFor, undone>>
  BY DEF DcCommand
<1>2. /\ d \in DcFolder /\ c.mode \in ViewMode /\ c.opts \subseteq DcOption /\ c.codec # OtherSpec
      /\ filesOf[d] \subseteq DcItem
  BY DcViewAssumption DEF ViewIInv, ViewTyped
<1>3. dcTasks' \in Seq(TaskOf)
  <2>1. PICK cursor \in {{i} : i \in filesOf[d]} \cup (IF filesOf[d] = {} THEN {{}} ELSE {}) :
          dcTasks' = <<[dir |-> d, mode |-> c.mode, opts |-> c.opts, todo |-> Wanted(d, c, cursor)]>> \o dcTasks
    BY DEF DcCommand
  <2>2. cursor \subseteq filesOf[d]
    BY <2>1
  <2>3. Wanted(d, c, cursor) \subseteq DcItem
    BY <1>2, <2>2 DEF Wanted
  <2> DEFINE task == [dir |-> d, mode |-> c.mode, opts |-> c.opts, todo |-> Wanted(d, c, cursor)]
  <2>4. task \in TaskOf
    BY <1>2, <2>3 DEF TaskOf
  <2>5. dcTasks' = <<task>> \o dcTasks
    BY <2>1
  <2> HIDE DEF task, d
  <2>6. dcTasks \in [1 .. Len(dcTasks) -> TaskOf] /\ Len(dcTasks) \in Nat
    BY DEF ViewIInv, ViewTyped
  <2> QED BY <2>4, <2>5, <2>6, PrependedEntry
<1>4. snapOf' = IF snapOf[d] # << >> THEN snapOf ELSE [snapOf EXCEPT ![d] = <<Snapshot(d)>>]
  BY DEF DcCommand, Kept
<1>5. foundAt' = IF foundAt[d] # << >> THEN foundAt ELSE [foundAt EXCEPT ![d] = found]
  BY DEF DcCommand, Seen
<1>6. /\ sizeOf' \in [ViewMode -> [DcItem -> Numbers]]
      /\ \A m \in ViewMode, i \in DcItem :
           \/ sizeOf'[m][i] = Unknown
           \/ sizeOf'[m][i] = sizeOf[m][i] /\ (m = "video" => specNow' = specNow)
  <2>1. CASE c.mode = "video" /\ c.codec # specNow
    <3>1. /\ sizeOf' = [sizeOf EXCEPT !["video"] = [i \in DcItem |-> Unknown]]
          /\ [i \in DcItem |-> Unknown] \in [DcItem -> Numbers] /\ "video" \in ViewMode
      BY <1>1, <2>1, CountsAre DEF ClearedFor, ViewMode
    <3> QED BY <3>1 DEF ViewIInv, ViewTyped
  <2>2. CASE ~(c.mode = "video" /\ c.codec # specNow)
    <3>1. sizeOf' = sizeOf /\ specNow' = specNow
      BY <1>1, <2>2 DEF ClearedFor
    <3> QED BY <3>1 DEF ViewIInv, ViewTyped
  <2> QED BY <2>1, <2>2
<1> HIDE DEF d
<1>7. CountsOK'
  <2> SUFFICES ASSUME NEW m \in ViewMode, NEW i \in DcItem, m # "video" \/ Holder[i] \notin outdated'
               PROVE  Tells(sizeOf'[m][i], i, m, specNow')
    BY DEF CountsOK
  <2>1. CASE sizeOf'[m][i] = Unknown
    BY <2>1 DEF Tells
  <2>2. CASE sizeOf'[m][i] = sizeOf[m][i] /\ m = "video" /\ specNow' = specNow
    <3>1. Holder[i] \notin outdated
      BY <1>1, <2>2
    <3> QED BY <2>2, <3>1 DEF ViewIInv, CountsOK, Tells
  <2>3. CASE sizeOf'[m][i] = sizeOf[m][i] /\ m # "video"
    <3>1. Tells(sizeOf[m][i], i, m, specNow)
      BY <2>3 DEF ViewIInv, CountsOK
    <3>2. Tree(i, m, specNow) = Tree(i, m, specNow')
      BY <2>3, TreeCounts
    <3> QED BY <2>3, <3>1, <3>2 DEF Tells
  <2> QED BY <1>6, <2>1, <2>2, <2>3
<1>8. SnapsOK'
  <2>1. SnapOK(Snapshot(d), d, filterAt)
    BY <1>2, SnapshotTells DEF ViewIInv
  <2>2. ASSUME NEW e \in DcFolder
        PROVE  /\ snapOf'[e] = << >> => foundAt'[e] = << >>
               /\ snapOf'[e] # << >> =>
                    /\ snapOf'[e] = <<snapOf'[e][1]>> /\ SnapOK(snapOf'[e][1], e, filterAt)
                    /\ foundAt'[e] = <<[sort |-> snapOf'[e][1].sort, stack |-> snapOf'[e][1].filt,
                                        subs |-> snapOf'[e][1].subdirs]>>
    <3>1. CASE e # d \/ snapOf[d] # << >>
      <4>1. snapOf'[e] = snapOf[e]
        BY <1>4, <3>1 DEF ViewIInv, ViewTyped
      <4>2. foundAt'[e] = foundAt[e]
        <5>1. CASE e # d
          BY <1>5, <5>1 DEF ViewIInv, ViewTyped
        <5>2. CASE e = d /\ snapOf[d] # << >>
          <6>1. foundAt[d] # << >>
            <7>1. PICK x : foundAt[d] = <<x>>
              BY <1>2, <5>2 DEF ViewIInv, SnapsOK
            <7> QED BY <7>1
          <6> QED BY <1>5, <6>1
        <5> QED BY <3>1, <5>1, <5>2
      <4> QED BY <4>1, <4>2 DEF ViewIInv, SnapsOK
    <3>2. CASE e = d /\ snapOf[d] = << >>
      <4>1. snapOf'[e] = <<Snapshot(d)>>
        BY <1>2, <1>4, <3>2 DEF ViewIInv, ViewTyped
      <4>2. foundAt[d] = << >>
        BY <1>2, <3>2 DEF ViewIInv, SnapsOK
      <4>3. foundAt'[e] = found
        BY <1>2, <1>5, <3>2, <4>2 DEF ViewIInv, ViewTyped
      <4>4. /\ Snapshot(d).sort = SortSeen(d) /\ Snapshot(d).filt = stackOf[d]
            /\ Snapshot(d).subdirs = [x \in Children(d) \cap loadedDirs |-> stackOf[x]]
        BY DEF Snapshot
      <4>5. snapOf'[e][1] = Snapshot(d) /\ snapOf'[e] # << >>
        BY <4>1
      <4> QED BY <2>1, <3>2, <4>1, <4>3, <4>4, <4>5
    <3> QED BY <3>1, <3>2
  <2> QED BY <1>1, <2>2 DEF SnapsOK
<1>9. snapOf' = [e \in DcFolder |-> snapOf'[e]] /\ foundAt' = [e \in DcFolder |-> foundAt'[e]]
  BY <1>4, <1>5 DEF ViewIInv, ViewTyped
<1>10. ViewTyped'
  BY <1>1, <1>2, <1>3, <1>6, <1>9 DEF ViewIInv, ViewTyped, Held
<1>11. StacksOK' /\ HiddenOK'
  BY <1>1 DEF ViewIInv, StacksOK, HiddenOK
<1> QED BY <1>1, <1>7, <1>8, <1>10, <1>11 DEF ViewIInv

\* An undo brings back what was found; counts for other codecs are known to be that.
LEMMA UndoTells == ViewIInv /\ UndoView => ViewIInv'
<1> SUFFICES ASSUME ViewIInv, UndoView PROVE ViewIInv'
  OBVIOUS
<1> DEFINE d == thisdir
           sn == snapOf[d][1]
           dirs == {d} \cup DOMAIN sn.subdirs
           restored == [e \in DcFolder |-> IF e = d THEN sn.filt
                          ELSE IF e \in DOMAIN sn.subdirs THEN sn.subdirs[e] ELSE stackOf[e]]
           sizes == [m \in ViewMode |-> [i \in DcItem |-> IF Holder[i] = d THEN sn.sizes[m][i] ELSE sizeOf[m][i]]]
           sorts == [e \in DcFolder |-> IF e \in DOMAIN sn.local THEN sn.local[e] ELSE sortOf[e]]
<1>1. /\ snapOf[d] # << >> /\ snapOf' = [snapOf EXCEPT ![d] = << >>]
      /\ stackOf' = restored /\ foundAt' = [foundAt EXCEPT ![d] = << >>]
      /\ filesOf' = [e \in DcFolder |-> IF e \in dirs
                       THEN Refiltered(e, restored[e], sizes, filterAt, specNow) ELSE filesOf[e]]
      /\ outdated' = IF sn.spec = specNow THEN outdated \ {d} ELSE outdated \cup {d}
      /\ filteredFor' = FilteredAs(dirs, outdated') /\ sizeOf' = Counted(dirs, restored, sizes, filterAt, specNow)
      /\ UNCHANGED <<thisdir, loadedDirs, specNow, filterAt, dcTasks>>
  BY DEF UndoView
<1>2. /\ sortOf' = sorts /\ globalSort' = sn.sort /\ undone'.was = foundAt[d]
      /\ undone'.is = <<[sort |-> IF sortOf'[d] # "" THEN sortOf'[d] ELSE globalSort',
                         stack |-> stackOf'[d],
                         subs |-> [e \in DOMAIN sn.subdirs |-> stackOf'[e]]]>>
  BY DEF UndoView
<1>3. d \in DcFolder
  BY DEF ViewIInv, ViewTyped
<1>4. /\ SnapOK(sn, d, filterAt)
      /\ foundAt[d] = <<[sort |-> sn.sort, stack |-> sn.filt, subs |-> sn.subdirs]>>
  BY <1>1, <1>3 DEF ViewIInv, SnapsOK
<1>5. dirs \in SUBSET DcFolder
  BY <1>3, <1>4 DEF SnapOK
<1>6. /\ restored \in [DcFolder -> Seq(Nat)]
      /\ \A e \in DcFolder : OwnFilters(restored[e], e, filterAt)
      /\ \A e \in DcFolder \ dirs : restored[e] = stackOf[e]
      /\ restored[d] = sn.filt /\ \A e \in DOMAIN sn.subdirs : restored[e] = sn.subdirs[e]
  BY <1>3, <1>4 DEF SnapOK, ViewIInv, ViewTyped, StacksOK
<1>7. /\ sizes \in [ViewMode -> [DcItem -> Numbers]]
      /\ \A m \in ViewMode, i \in DcItem :
           m # "video" \/ Holder[i] \notin outdated' => Tells(sizes[m][i], i, m, specNow)
  <2>1. ASSUME NEW m \in ViewMode, NEW i \in DcItem
        PROVE  /\ sizes[m][i] \in Numbers
               /\ m # "video" \/ Holder[i] \notin outdated' => Tells(sizes[m][i], i, m, specNow)
    <3>1. CASE Holder[i] = d
      <4>1. /\ sizes[m][i] = sn.sizes[m][i] /\ sizes[m][i] \in Numbers
            /\ m # "video" \/ sn.spec # OtherSpec => Tells(sizes[m][i], i, m, sn.spec)
        BY <1>4, <3>1 DEF SnapOK, Held
      <4> HIDE DEF sizes
      <4>2. CASE m = "video" /\ d \notin outdated'
        <5>1. sn.spec = specNow /\ specNow # OtherSpec
          BY <1>1, <4>2 DEF ViewIInv, ViewTyped
        <5> QED BY <4>1, <5>1
      <4>3. CASE m # "video"
        <5>1. Tree(i, m, sn.spec) = Tree(i, m, specNow)
          BY <4>3, TreeCounts
        <5> QED BY <4>1, <4>3, <5>1 DEF Tells
      <4> QED BY <3>1, <4>1, <4>2, <4>3
    <3>2. CASE Holder[i] # d
      <4>1. sizes[m][i] = sizeOf[m][i] /\ (Holder[i] \notin outdated' => Holder[i] \notin outdated)
        BY <1>1, <3>2
      <4> QED BY <4>1 DEF ViewIInv, ViewTyped, CountsOK
    <3> QED BY <3>1, <3>2
  <2> QED BY <2>1
<1> HIDE DEF dirs, restored, sizes
<1>8. stackOf' \in [DcFolder -> Seq(Nat)] /\ filterAt' \in Seq(FilterOf) /\ StacksOK'
  BY <1>1, <1>6 DEF ViewIInv, ViewTyped, StacksOK
<1>9. /\ sizeOf' \in [ViewMode -> [DcItem -> Numbers]] /\ CountsOK' /\ HiddenOK'
      /\ filesOf' \in [DcFolder -> SUBSET DcItem]
      /\ \A e \in DcFolder : filesOf'[e] \subseteq Held(e)
  <2>1. filesOf' = [e \in DcFolder |-> IF e \in dirs
                      THEN Refiltered(e, stackOf'[e], sizes, filterAt', specNow) ELSE filesOf[e]]
    BY <1>1
  <2>2. /\ sizeOf' = Counted(dirs, stackOf', sizes, filterAt', specNow)
        /\ filteredFor' = FilteredAs(dirs, outdated') /\ UNCHANGED <<loadedDirs, specNow>>
        /\ \A e \in DcFolder \ dirs :
             stackOf'[e] = stackOf[e] /\ \A k \in DOMAIN stackOf[e] :
               IsDcFilter(stackOf[e][k]) => filterAt'[stackOf[e][k]] = filterAt[stackOf[e][k]]
    BY <1>1, <1>6
  <2> QED BY <1>5, <1>7, <1>8, <2>1, <2>2, RefreshTells
<1>10. snapOf' = [e \in DcFolder |-> snapOf'[e]] /\ foundAt' = [e \in DcFolder |-> foundAt'[e]]
  BY <1>1 DEF ViewIInv, ViewTyped
<1>11. ViewTyped'
  BY <1>1, <1>8, <1>9, <1>10 DEF ViewIInv, ViewTyped, Held
<1>12. SnapsOK'
  <2>1. \A e \in DcFolder : IF e = d THEN snapOf'[e] = << >> /\ foundAt'[e] = << >>
                            ELSE snapOf'[e] = snapOf[e] /\ foundAt'[e] = foundAt[e]
    BY <1>1 DEF ViewIInv, ViewTyped
  <2> QED BY <1>1, <2>1 DEF ViewIInv, SnapsOK
<1>13. undone'.was = undone'.is
  <2>1. sortOf'[d] = sn.local[d] /\ (sn.local[d] # "" => sn.local[d] = sn.sort)
    BY <1>2, <1>3, <1>4 DEF SnapOK
  <2>2. (IF sortOf'[d] # "" THEN sortOf'[d] ELSE globalSort') = sn.sort
    BY <1>2, <2>1
  <2>3. stackOf'[d] = sn.filt /\ [e \in DOMAIN sn.subdirs |-> stackOf'[e]] = sn.subdirs
    <3>1. \A e \in DOMAIN sn.subdirs : stackOf'[e] = sn.subdirs[e]
      BY <1>1, <1>6
    <3>2. sn.subdirs = [e \in DOMAIN sn.subdirs |-> sn.subdirs[e]]
      BY <1>4 DEF SnapOK
    <3> QED BY <1>1, <1>6, <3>1, <3>2
  <2> QED BY <1>2, <1>4, <2>2, <2>3
<1> QED BY <1>8, <1>9, <1>11, <1>12, <1>13 DEF ViewIInv

\* Every step keeps the invariant.
LEMMA ViewStep == ViewIInv /\ [DcViewNext]_viewVars => ViewIInv'
<1> SUFFICES ASSUME ViewIInv, [DcViewNext]_viewVars PROVE ViewIInv'
  OBVIOUS
<1>1. ASSUME NEW c \in DcCommands, DcCommand(c) PROVE ViewIInv'
  BY <1>1, DcCommandTells
<1>2. CASE DcResult
  BY <1>2, ResultCounts
<1>3. CASE DcFinish
  BY <1>3, FinishTells
<1>4. CASE UndoView
  BY <1>4, UndoTells
<1>5. CASE SetLocalSort
  BY <1>5, SortingTells
<1>6. CASE PushFilter
  BY <1>6, PushTells
<1>7. ASSUME NEW d \in DcFolder, EnterFolder(d) PROVE ViewIInv'
  BY <1>7, EnterTells
<1>8. CASE UNCHANGED viewVars
  <2>1. UNCHANGED <<thisdir, loadedDirs, specNow, sizeOf, stackOf, filterAt, filesOf, snapOf, dcTasks,
                    foundAt, filteredFor, outdated, undone>>
    BY <1>8 DEF viewVars
  <2>2. ViewTyped' /\ SnapsOK'
    BY <2>1 DEF ViewIInv, ViewTyped, SnapsOK, Held
  <2>3. StacksOK' /\ CountsOK' /\ HiddenOK'
    BY <2>1 DEF ViewIInv, StacksOK, CountsOK, HiddenOK
  <2> QED BY <2>1, <2>2, <2>3 DEF ViewIInv
<1> QED BY <1>1, <1>2, <1>3, <1>4, <1>5, <1>6, <1>7, <1>8 DEF DcViewNext

\* For all directories, files, mappings and numbers of steps: a directory has one filter of dcsize
\* at most, an undo brings back what the first command found, and nothing is hidden without a reason
\* (vdsize_cumulative.py; see DcView).
THEOREM ViewTrue == DcViewSpec => []DcViewIsTrue
<1>1. DcViewInit => ViewIInv
  BY ViewBegin
<1>2. ViewIInv /\ [DcViewNext]_viewVars => ViewIInv'
  BY ViewStep
<1>3. ViewIInv => DcViewIsTrue
  <2> SUFFICES ASSUME ViewIInv PROVE DcViewIsTrue
    OBVIOUS
  <2>1. \A d \in DcFolder : Cardinality(DcFilterOf(stackOf[d])) <= 1
    BY OneFilter DEF ViewIInv, StacksOK
  <2>2. ASSUME NEW i \in DcItem, Holder[i] \in loadedDirs, i \notin filesOf[Holder[i]],
               filteredFor[Holder[i]] = specNow
        PROVE  \E k \in DOMAIN stackOf[Holder[i]] : Hides(stackOf[Holder[i]][k], i, filterAt, specNow)
    BY <2>2 DEF ViewIInv, ViewTyped, HiddenOK, Reason
  <2> QED BY <2>1, <2>2 DEF ViewIInv, DcViewIsTrue
<1> QED BY <1>1, <1>2, <1>3, PTL DEF DcViewSpec

\* What the view keeps has its type: only loaded directories are shown, what is shown is in the
\* directory, and a directory has one snapshot at most (vdsize_cumulative.py).
THEOREM ViewTypes == DcViewSpec => []DcViewTypeOK
<1>1. DcViewInit => ViewIInv
  BY ViewBegin
<1>2. ViewIInv /\ [DcViewNext]_viewVars => ViewIInv'
  BY ViewStep
<1>3. ViewIInv => DcViewTypeOK
  <2> SUFFICES ASSUME ViewIInv PROVE DcViewTypeOK
    OBVIOUS
  <2>1. ASSUME NEW d \in DcFolder PROVE Len(snapOf[d]) <= 1
    <3>1. CASE snapOf[d] = << >>
      BY <3>1
    <3>2. CASE snapOf[d] # << >>
      <4>1. PICK x : snapOf[d] = <<x>>
        BY <3>2 DEF ViewIInv, SnapsOK
      <4> QED BY <4>1
    <3> QED BY <3>1, <3>2
  <2>2. /\ thisdir \in loadedDirs /\ loadedDirs \subseteq DcFolder
        /\ \A d \in DcFolder : filesOf[d] \subseteq Held(d)
    BY DEF ViewIInv, ViewTyped
  <2>3. \A m \in ViewMode, i \in DcItem : sizeOf[m][i] \in Unknown .. Cardinality(DcItem)
    BY DEF ViewIInv, ViewTyped, Numbers
  <2> QED BY <2>1, <2>2, <2>3 DEF DcViewTypeOK
<1> QED BY <1>1, <1>2, <1>3, PTL DEF DcViewSpec

(***************************************************************************)
(* The flattened view: what it shows                                       *)
(***************************************************************************)
\* What is loaded is the walk of the last load through the filters of now; the load began with the
\* level and the entries of now; a view that no plain :flat changed is flattened from the entries
\* that were visible.
FlatIInv ==
  /\ flatEntries = before
  /\ flat # 0 => flatActive \/ plain
  /\ loaded # Nothing \/ loading = "begun" => /\ flatWalk.prunes = (flat # 0 /\ flatActive)
                                              /\ flatWalk.entries = flatEntries
  /\ loaded # Nothing => loaded = Found(flat) /\ flatFiles = Filtered(loaded, kind)

\* Where nothing is loaded or loading, the rest is as before.
LEMMA FlatUnloads ==
  ASSUME flatEntries' = before', flat' # 0 => flatActive' \/ plain', loaded' = Nothing, loading' = "no"
  PROVE  FlatIInv'
BY DEF FlatIInv

\* What is loaded is only filtered again.
LEMMA FlatRefilters ==
  ASSUME FlatIInv, NEW shows, NEW filters, showing' = shows, filtering' = filters,
         flatFiles' = FilteredAgain(shows, filters),
         UNCHANGED <<growing, flat, kind, flatActive, flatEntries, loaded, loading, flatWalk, before, plain>>
  PROVE  FlatIInv'
<1>1. loaded # Nothing => flatFiles' = Filtered(loaded, kind)'
  BY DEF FilteredAgain, Filtered, Passes
<1>2. Found(flat)' = Found(flat)
  BY DEF Found, Walk, Pruned
<1> QED BY <1>1, <1>2 DEF FlatIInv

\* Every step keeps the invariant.
LEMMA FlatStep == FlatIInv /\ [FlatNext]_flatVars => FlatIInv'
<1> SUFFICES ASSUME FlatIInv, [FlatNext]_flatVars PROVE FlatIInv'
  OBVIOUS
<1>1. flatEntries = before /\ (flat # 0 => flatActive \/ plain)
  BY DEF FlatIInv
<1>2. CASE LoadBegins
  <2>1. /\ UNCHANGED <<flat, flatActive, flatEntries, loaded, before, plain>> /\ loaded = Nothing
        /\ flatWalk'.prunes = (flat # 0 /\ flatActive) /\ flatWalk'.entries = flatEntries
    BY <1>2 DEF LoadBegins
  <2> QED BY <1>1, <2>1 DEF FlatIInv
<1>3. CASE LoadEnds
  <2>1. UNCHANGED <<growing, flat, kind, filtering, showing, flatActive, flatEntries, flatWalk, before, plain>>
    BY <1>3 DEF LoadEnds
  <2>2. loaded' = Found(flat) /\ (loaded' # Nothing => flatFiles' = Filtered(loaded', kind))
    BY <1>3 DEF LoadEnds, Shown
  <2>3. Found(flat)' = Found(flat)
    BY <2>1 DEF Found, Walk, Pruned
  <2>4. Filtered(loaded', kind) = Filtered(loaded, kind)'
    BY <2>1 DEF Filtered, Passes
  <2>5. flatWalk.prunes = (flat # 0 /\ flatActive) /\ flatWalk.entries = flatEntries
    BY <1>3 DEF LoadEnds, FlatIInv
  <2> QED BY <1>1, <2>1, <2>2, <2>3, <2>4, <2>5 DEF FlatIInv
<1>4. ASSUME NEW types \in {{}, {"d"}, {"f"}, {"l"}}, NEW level \in {-1, 0, 1}, NEW toggle \in BOOLEAN,
             FlatInode(types, level, toggle)
      PROVE  FlatIInv'
  <2> DEFINE off    == toggle /\ level = flat /\ kind # {}
             level2 == IF off THEN 0 ELSE level
             all    == IF loaded = Nothing THEN Walk(0) ELSE loaded
             now    == Filtered(all, kind)
  <2>1. /\ flatActive' = (level2 # 0) /\ flat' = level2
        /\ flatEntries' = IF level2 # 0 THEN EntriesKept(now) ELSE Nothing
        /\ before' = IF level2 = 0 THEN Nothing ELSE IF before = Nothing THEN now ELSE before
        /\ loaded' = Nothing /\ loading' = "no"
    BY <1>4 DEF FlatInode, Shown
  <2> HIDE DEF level2, now
  <2>2. flatEntries' = before'
    BY <1>1, <2>1 DEF EntriesKept
  <2>3. flat' # 0 => flatActive'
    BY <2>1
  <2> QED BY <2>1, <2>2, <2>3, FlatUnloads
<1>5. ASSUME NEW level \in {-1, 0, 1}, Flat(level) PROVE FlatIInv'
  <2>1. /\ flat' = level /\ plain' = (before # Nothing \/ level # 0) /\ loaded' = Nothing
        /\ loading' = "no" /\ UNCHANGED <<flatEntries, before, flatActive>>
    BY <1>5 DEF Flat, Shown
  <2>2. flat' # 0 => plain'
    BY <2>1
  <2> QED BY <1>1, <2>1, <2>2, FlatUnloads
<1>6. ASSUME NEW on \in BOOLEAN, Filter(on) PROVE FlatIInv'
  BY <1>6, FlatRefilters DEF Filter
<1>7. CASE ShowHidden
  BY <1>7, FlatRefilters DEF ShowHidden
<1>8. ASSUME NEW n \in Node, Sprout(n) PROVE FlatIInv'
  BY <1>1, <1>8, FlatUnloads DEF Sprout
<1>9. CASE UNCHANGED flatVars
  <2>1. UNCHANGED <<growing, flat, kind, filtering, showing, flatActive, flatEntries, loaded, flatFiles,
                    loading, flatWalk, before, plain>>
    BY <1>9 DEF flatVars
  <2>2. Found(flat)' = Found(flat) /\ Filtered(loaded, kind)' = Filtered(loaded, kind)
    BY <2>1 DEF Found, Walk, Pruned, Filtered, Passes
  <2> QED BY <2>1, <2>2 DEF FlatIInv
<1> QED BY <1>2, <1>3, <1>4, <1>5, <1>6, <1>7, <1>8, <1>9 DEF FlatNext

\* For all trees and sequences of commands: a flattened view shows what the filters let pass below
\* the entries that were visible before, and lacks of that only what lies in directories that were
\* hidden as the walk began (cmd_view.py; see FlatView).
THEOREM FlatShows == FlatSpec => []FlatShowsWhatWasShown
<1>1. FlatInit => FlatIInv
  BY DEF FlatInit, FlatIInv
<1>2. FlatIInv /\ [FlatNext]_flatVars => FlatIInv'
  BY FlatStep
<1>3. FlatIInv /\ growing \subseteq Node => FlatShowsWhatWasShown
  <2> SUFFICES ASSUME FlatIInv, growing \subseteq Node, loaded # Nothing, ~plain
               PROVE  flatFiles = Meant \ Unwalked
    BY DEF FlatShowsWhatWasShown
  <2>1. /\ flatFiles = Filtered(Found(flat), kind) /\ flatEntries = before
        /\ flatWalk.prunes = (flat # 0) /\ flatWalk.entries = before
    BY DEF FlatIInv
  <2>2. CASE flat = 0
    <3>1. Unwalked = {} /\ Found(flat) = Walk(flat)
      BY <2>2 DEF Unwalked, Found
    <3>2. Filtered(Walk(flat), kind) = Meant
      BY <2>2 DEF Walk, Filtered, Meant
    <3> QED BY <2>1, <3>1, <3>2
  <2>3. CASE flat # 0
    <3>1. Found(flat) = Pruned(Walk(flat))
      BY <2>1, <2>3 DEF Found
    <3>2. \A n \in growing : Passes(n, kind) /\ ~showing => ~InHidden(n)
      BY DEF Passes, Lets, InHidden
    <3>3. \A n \in growing : n \in Unwalked <=> showing /\ flatWalk.hidden /\ InHidden(n)
      BY <2>3 DEF Unwalked
    <3>4. \A n : n \in flatFiles <=> /\ n \in growing /\ InLevel(n, flat) /\ Passes(n, kind)
                                    /\ TopOf(n) \in before /\ (flatWalk.hidden => ~InHidden(n))
      BY <2>1, <3>1 DEF Pruned, Walk, Filtered
    <3>5. \A n : n \in Meant <=> /\ n \in growing /\ InLevel(n, flat) /\ Passes(n, kind)
                                /\ TopOf(n) \in before
      BY <2>3 DEF Meant
    <3>6. \A n : n \in flatFiles <=> n \in Meant \ Unwalked
      BY <3>2, <3>3, <3>4, <3>5
    <3> QED BY <2>1, <3>6 DEF Filtered, Meant
  <2> QED BY <2>2, <2>3
<1>4. FlatInit => growing \subseteq Node
  BY DEF FlatInit
<1>5. growing \subseteq Node /\ [FlatNext]_flatVars => (growing \subseteq Node)'
  BY DEF FlatNext, flatVars, LoadBegins, LoadEnds, ShowHidden, FlatInode, Flat, Filter, Sprout
<1> QED BY <1>1, <1>2, <1>3, <1>4, <1>5, PTL DEF FlatSpec

(***************************************************************************)
(* The tree filter: what its layers leave visible                          *)
(***************************************************************************)
\* What lies on the way to an entry; layers, and searches, with what they found there.
Ways      == UNION {Chain[p] : p \in Entry}
Layer     == [root : Folders, released : SUBSET Folders, matches : SUBSET Entry,
              allowed : SUBSET Ways, full : SUBSET Entry]
Searching == [root : Folders, found : SUBSET Entry, names : SUBSET Entry, fd : BOOLEAN]

\* The matches of each layer can be reached through itself and the layers before it; later
\* ones may hide them, and are dropped before it is the newest again.
Reached(ls) ==
  \A i \in 1 .. Len(ls) : \A p \in ls[i].matches : \A c \in Between(p, ls[i].root) :
    \A j \in 1 .. i : Live(ls[j], FolderOf[c]) => c \in ls[j].allowed

TreeIInv ==
  /\ cwd \in Folders /\ layers \in Seq(Layer) /\ searches \in Seq(Searching)
  /\ ~toggled => Reached(layers)

\* A layer whose matches are visible is added.
LEMMA LayerAdded ==
  ASSUME NEW ls \in Seq(Layer), NEW l \in Layer, Reached(ls),
         \A p \in l.matches : \A c \in Between(p, l.root) :
           c \in l.allowed /\ \A j \in 1 .. Len(ls) : Live(ls[j], FolderOf[c]) => c \in ls[j].allowed
  PROVE  Reached(Append(ls, l))
<1> DEFINE n == Len(ls)
           new == Append(ls, l)
<1>1. /\ n \in Nat /\ Len(new) = n + 1 /\ new[n + 1] = l
      /\ \A i \in 1 .. n : new[i] = ls[i]
  OBVIOUS
<1> HIDE DEF new
<1>2. SUFFICES ASSUME NEW i \in 1 .. n + 1, NEW p \in new[i].matches,
                      NEW c \in Between(p, new[i].root), NEW j \in 1 .. i,
                      Live(new[j], FolderOf[c])
               PROVE  c \in new[j].allowed
  BY <1>1 DEF Reached, new
<1>3. \A k \in 1 .. n : \A p1 \in ls[k].matches : \A c1 \in Between(p1, ls[k].root) :
        \A j1 \in 1 .. k : Live(ls[j1], FolderOf[c1]) => c1 \in ls[j1].allowed
  BY DEF Reached
<1> HIDE DEF n
<1>4. CASE i \in 1 .. n
  <2>1. j \in 1 .. n /\ new[i] = ls[i] /\ new[j] = ls[j]
    BY <1>1, <1>4
  <2> QED BY <1>2, <1>3, <1>4, <2>1
<1>5. CASE i = n + 1
  <2>1. new[i] = l
    BY <1>1, <1>5
  <2>2. CASE j = n + 1
    BY <1>1, <2>1, <2>2
  <2>3. CASE j # n + 1
    <3>1. j \in 1 .. n /\ new[j] = ls[j]
      BY <1>1, <1>5, <2>3
    <3> QED BY <1>2, <2>1, <3>1 DEF n
  <2> QED BY <2>2, <2>3
<1> QED BY <1>1, <1>4, <1>5

\* What is left of the layers, in their order.
LEMMA LayersInOrder ==
  ASSUME NEW n \in Nat, NEW is
  PROVE  /\ Ascending(1 .. n \ is) \in Seq(1 .. n)
         /\ \A i, j \in 1 .. Len(Ascending(1 .. n \ is)) :
              i < j => Ascending(1 .. n \ is)[i] < Ascending(1 .. n \ is)[j]
<1> DEFINE U == 1 .. n
           S == 1 .. n \ is
<1>1. U \in SUBSET Nat /\ IsFiniteSet(U) /\ S \in SUBSET U
  BY FS_Interval
<1>2. Ascending(S) = IndexOrder(S)
  BY DEF Ascending, IndexOrder
<1> HIDE DEF U, S
<1>3. /\ IndexOrder(S) \in Seq(S)
      /\ \A i, j \in 1 .. Len(IndexOrder(S)) : i < j => IndexOrder(S)[i] < IndexOrder(S)[j]
  BY <1>1, IndexOrdered
<1>4. IndexOrder(S) \in Seq(U)
  <2>1. ASSUME NEW B, NEW A \in SUBSET B, NEW q \in Seq(A) PROVE q \in Seq(B)
    OBVIOUS
  <2> QED BY <1>1, <1>3, <2>1
<1> QED BY <1>2, <1>3, <1>4 DEF U, S

\* Layers are dropped, the others keep their order.
LEMMA LayersDropped ==
  ASSUME layers \in Seq(Layer), Reached(layers), NEW is
  PROVE  Reached(Dropped(is))
<1> DEFINE n == Len(layers)
           q == Ascending(DOMAIN layers \ is)
           m == Len(q)
           new == Dropped(is)
<1>1. n \in Nat /\ DOMAIN layers = 1 .. n
  OBVIOUS
<1>2. q \in Seq(1 .. n) /\ \A i, j \in 1 .. m : i < j => q[i] < q[j]
  BY <1>1, LayersInOrder
<1> HIDE DEF n, q
<1>3. m \in Nat /\ DOMAIN q = 1 .. m /\ \A i \in 1 .. m : q[i] \in 1 .. n
  <2>1. ASSUME NEW B, NEW r \in Seq(B)
        PROVE  Len(r) \in Nat /\ DOMAIN r = 1 .. Len(r) /\ \A i \in 1 .. Len(r) : r[i] \in B
    OBVIOUS
  <2> QED BY <1>2, <2>1
<1>4. new = [j \in 1 .. m |-> layers[q[j]]] /\ Len(new) = m
  <2>1. new = [j \in DOMAIN q |-> layers[q[j]]]
    BY DEF Dropped, q
  <2>2. new = [j \in 1 .. m |-> layers[q[j]]]
    BY <1>3, <2>1
  <2> HIDE DEF new, m
  <2> QED BY <1>3, <2>2
<1> HIDE DEF new, m
<1>5. \A k \in 1 .. n : \A p1 \in layers[k].matches : \A c1 \in Between(p1, layers[k].root) :
        \A j1 \in 1 .. k : Live(layers[j1], FolderOf[c1]) => c1 \in layers[j1].allowed
  BY DEF Reached, n
<1>6. ASSUME NEW i \in 1 .. m, NEW p \in new[i].matches, NEW c \in Between(p, new[i].root),
             NEW j \in 1 .. i, Live(new[j], FolderOf[c])
      PROVE  c \in new[j].allowed
  <2>1. j \in 1 .. m /\ (j = i \/ j < i)
    BY <1>3, <1>6
  <2>2. new[i] = layers[q[i]] /\ new[j] = layers[q[j]] /\ q[i] \in 1 .. n /\ q[j] \in 1 .. n
    BY <1>3, <1>4, <2>1
  <2>3. q[j] \in 1 .. q[i]
    BY <1>1, <1>2, <1>6, <2>1, <2>2
  <2> QED BY <1>5, <1>6, <2>2, <2>3
<1> QED BY <1>4, <1>6 DEF Reached, new

\* A directory is released: fewer layers are live.
LEMMA LayersReleased ==
  ASSUME NEW ls \in Seq(Layer), NEW new \in Seq(Layer), Len(new) = Len(ls), Reached(ls),
         \A i \in 1 .. Len(ls) :
           /\ new[i].root = ls[i].root /\ new[i].matches = ls[i].matches
           /\ new[i].allowed = ls[i].allowed /\ new[i].full = ls[i].full
           /\ ls[i].released \subseteq new[i].released
  PROVE  Reached(new)
<1> DEFINE n == Len(ls)
<1>1. n \in Nat
  OBVIOUS
<1>2. \A k \in 1 .. n : \A p1 \in ls[k].matches : \A c1 \in Between(p1, ls[k].root) :
        \A j1 \in 1 .. k : Live(ls[j1], FolderOf[c1]) => c1 \in ls[j1].allowed
  BY DEF Reached
<1>3. \A k \in 1 .. n : \A d : Live(new[k], d) => Live(ls[k], d)
  BY DEF Live
<1> HIDE DEF n
<1>4. ASSUME NEW i \in 1 .. n, NEW p \in new[i].matches, NEW c \in Between(p, new[i].root),
             NEW j \in 1 .. i, Live(new[j], FolderOf[c])
      PROVE  c \in new[j].allowed
  <2>1. j \in 1 .. n /\ p \in ls[i].matches /\ c \in Between(p, ls[i].root)
    BY <1>1, <1>4 DEF n
  <2>2. Live(ls[j], FolderOf[c])
    BY <1>3, <1>4, <2>1
  <2>3. c \in ls[j].allowed
    BY <1>2, <1>4, <2>1, <2>2
  <2> QED BY <2>1, <2>3 DEF n
<1> QED BY <1>4 DEF Reached, n

\* A search that ends adds what it found, as far as it is visible now.
LEMMA SearchEnds ==
  ASSUME TreeIInv, EndSearch
  PROVE  TreeIInv'
<1> DEFINE s == Head(searches)
           matches == {p \in s.found : Ok(p, s)}
           l == [root |-> s.root, released |-> {}, matches |-> matches,
                 allowed |-> UNION {Between(p, s.root) : p \in matches},
                 full |-> IF s.fd THEN matches \cap Folders ELSE {}]
<1>1. /\ searches # << >> /\ searches' = Tail(searches)
      /\ layers' = (IF matches = {} THEN layers ELSE Append(layers, l))
      /\ cwd' = cwd /\ toggled' = toggled
  BY DEF EndSearch
<1>2. s \in Searching /\ searches' \in Seq(Searching)
  <2>1. ASSUME NEW B, NEW q \in Seq(B), q # << >> PROVE Head(q) \in B /\ Tail(q) \in Seq(B)
    BY <2>1
  <2> QED BY <1>1, <2>1 DEF TreeIInv
<1>3. l \in Layer
  <2>1. s.root \in Folders /\ s.found \in SUBSET Entry
    BY <1>2 DEF Searching
  <2>2. matches \in SUBSET Entry
    BY <2>1
  <2>3. \A p \in Entry : Between(p, s.root) \subseteq Ways
    BY DEF Between, Ways
  <2> HIDE DEF matches
  <2>4. UNION {Between(p, s.root) : p \in matches} \in SUBSET Ways
    BY <2>2, <2>3
  <2> QED BY <2>1, <2>2, <2>4 DEF Layer
<1>4. ASSUME NEW p \in l.matches, NEW c \in Between(p, l.root)
      PROVE  c \in l.allowed /\ \A j \in 1 .. Len(layers) : Live(layers[j], FolderOf[c]) => c \in layers[j].allowed
  <2>1. p \in matches /\ Ok(p, s) /\ c \in Between(p, s.root) /\ c \in l.allowed
    BY <1>4
  <2>2. Visible(c) /\ DOMAIN layers = 1 .. Len(layers)
    BY <2>1 DEF Ok, TreeIInv
  <2> QED BY <2>1, <2>2 DEF Visible
<1> HIDE DEF l, matches, s
<1>5. CASE matches = {}
  BY <1>1, <1>2, <1>5 DEF TreeIInv
<1>6. CASE matches # {}
  <2>1. layers' = Append(layers, l) /\ layers \in Seq(Layer)
    BY <1>1, <1>6 DEF TreeIInv
  <2>2. Append(layers, l) \in Seq(Layer)
    BY <1>3, <2>1
  <2>3. ~toggled' => Reached(Append(layers, l))
    <3> SUFFICES ASSUME ~toggled' PROVE Reached(Append(layers, l))
      OBVIOUS
    <3>1. Reached(layers)
      BY <1>1 DEF TreeIInv
    <3> QED BY <1>3, <1>4, <2>1, <3>1, LayerAdded
  <2> QED BY <1>1, <1>2, <2>1, <2>2, <2>3 DEF TreeIInv
<1> QED BY <1>5, <1>6

\* An undo drops layers, releases a directory, or filters it again.
LEMMA LayersUndone ==
  ASSUME TreeIInv, UndoFilter
  PROVE  TreeIInv'
<1>1. cwd' = cwd /\ searches' = searches /\ layers \in Seq(Layer) /\ cwd \in Folders
  BY DEF UndoFilter, TreeIInv
<1>2. ASSUME NEW is PROVE Dropped(is) \in Seq(Layer)
  <2> DEFINE n == Len(layers)
             q == Ascending(DOMAIN layers \ is)
  <2>1. n \in Nat /\ DOMAIN layers = 1 .. n /\ \A i \in 1 .. n : layers[i] \in Layer
    BY <1>1
  <2>2. q \in Seq(1 .. n)
    BY <2>1, LayersInOrder
  <2>3. Dropped(is) = [j \in DOMAIN q |-> layers[q[j]]]
    BY DEF Dropped
  <2> HIDE DEF q, n
  <2>4. Len(q) \in Nat /\ DOMAIN q = 1 .. Len(q) /\ \A i \in 1 .. Len(q) : q[i] \in 1 .. n
    <3>1. ASSUME NEW B, NEW r \in Seq(B)
          PROVE  Len(r) \in Nat /\ DOMAIN r = 1 .. Len(r) /\ \A i \in 1 .. Len(r) : r[i] \in B
      OBVIOUS
    <3> QED BY <2>2, <3>1
  <2>5. Dropped(is) \in [1 .. Len(q) -> Layer]
    BY <2>1, <2>3, <2>4
  <2> QED BY <2>4, <2>5
<1>3. ASSUME NEW is, layers' = Dropped(is), toggled' = toggled PROVE TreeIInv'
  <2>1. ~toggled' => Reached(Dropped(is))
    BY <1>1, <1>3, LayersDropped DEF TreeIInv
  <2> QED BY <1>1, <1>2, <1>3, <2>1 DEF TreeIInv
<1>4. CASE /\ toggled' = (toggled \/ Released)
           /\ layers' = [i \in DOMAIN layers |->
                IF i \notin Covering THEN layers[i]
                ELSE [layers[i] EXCEPT !.released = IF Released THEN @ \ {cwd} ELSE @ \cup {cwd}]]
  <2> DEFINE n == Len(layers)
             With(i) == IF Released THEN layers[i].released \ {cwd} ELSE layers[i].released \cup {cwd}
  <2>1. n \in Nat /\ DOMAIN layers = 1 .. n /\ \A i \in 1 .. n : layers[i] \in Layer
    BY <1>1
  <2>2. ASSUME NEW i \in 1 .. n
        PROVE  /\ layers'[i] \in Layer /\ layers'[i].root = layers[i].root
               /\ layers'[i].matches = layers[i].matches /\ layers'[i].allowed = layers[i].allowed
               /\ layers'[i].full = layers[i].full
               /\ ~Released => layers[i].released \subseteq layers'[i].released
    <3>1. layers'[i] = IF i \notin Covering THEN layers[i] ELSE [layers[i] EXCEPT !.released = With(i)]
      BY <1>4, <2>1
    <3>2. layers[i] \in Layer /\ With(i) \in SUBSET Folders
      BY <1>1, <2>1 DEF Layer
    <3>3. ~Released => layers[i].released \subseteq With(i)
      OBVIOUS
    <3> HIDE DEF With, n
    <3>4. CASE i \notin Covering
      BY <3>1, <3>2, <3>4
    <3>5. CASE i \in Covering
      BY <3>1, <3>2, <3>3, <3>5 DEF Layer
    <3> QED BY <3>4, <3>5
  <2>3. layers' \in Seq(Layer) /\ Len(layers') = n
    <3>1. layers' = [i \in 1 .. n |-> layers'[i]]
      BY <1>4, <2>1
    <3> HIDE DEF n
    <3> QED BY <2>1, <2>2, <3>1
  <2>4. ~toggled' => Reached(layers')
    <3> SUFFICES ASSUME ~toggled' PROVE Reached(layers')
      OBVIOUS
    <3>1. ~Released /\ ~toggled
      BY <1>4
    <3>2. Reached(layers)
      BY <3>1 DEF TreeIInv
    <3> QED BY <1>1, <2>2, <2>3, <3>1, <3>2, LayersReleased
  <2> QED BY <1>1, <2>3, <2>4 DEF TreeIInv
<1>5. \/ \E is : layers' = Dropped(is) /\ toggled' = toggled
      \/ /\ toggled' = (toggled \/ Released)
         /\ layers' = [i \in DOMAIN layers |->
                IF i \notin Covering THEN layers[i]
                ELSE [layers[i] EXCEPT !.released = IF Released THEN @ \ {cwd} ELSE @ \cup {cwd}]]
  BY Zenon DEF UndoFilter
<1> QED BY <1>3, <1>4, <1>5

\* Every step keeps the invariant.
LEMMA TreeStep == TreeAssumption /\ TreeIInv /\ [TreeNext]_treeVars => TreeIInv'
<1> SUFFICES ASSUME TreeAssumption, TreeIInv, [TreeNext]_treeVars PROVE TreeIInv'
  OBVIOUS
<1>1. cwd \in Folders /\ searches \in Seq(Searching) /\ (~toggled => Reached(layers))
  BY DEF TreeIInv
<1>2. ASSUME NEW d \in Folders, CdTree(d) PROVE TreeIInv'
  BY <1>2 DEF CdTree, TreeIInv
<1>3. ASSUME NEW names \in SUBSET Entry, NEW found \in SUBSET Entry, NEW paths \in BOOLEAN,
             NEW fd \in BOOLEAN, StartSearch(names, paths, found, fd)
      PROVE  TreeIInv'
  <2> DEFINE s == [root |-> cwd, found |-> found, names |-> Planned(names, paths), fd |-> fd]
  <2>1. searches' = <<s>> \o searches /\ UNCHANGED <<cwd, layers, toggled>>
    BY <1>3 DEF StartSearch
  <2>2. s \in Searching
    BY <1>1 DEF Planned, Searching
  <2> HIDE DEF s
  <2>3. searches' \in Seq(Searching)
    <3>1. ASSUME NEW B, NEW q \in Seq(B), NEW x \in B PROVE <<x>> \o q \in Seq(B)
      OBVIOUS
    <3> QED BY <1>1, <2>1, <2>2, <3>1
  <2> QED BY <2>1, <2>3 DEF TreeIInv
<1>4. CASE EndSearch
  BY <1>4, SearchEnds
<1>5. CASE UndoFilter
  BY <1>5, LayersUndone
<1>6. ASSUME NEW i \in DOMAIN searches, AbortSearch(i) PROVE TreeIInv'
  <2>1. searches' = RemoveAt(searches, i) /\ UNCHANGED <<cwd, layers, toggled>>
    BY <1>6 DEF AbortSearch
  <2>2. searches' \in Seq(Searching)
    BY <1>1, <2>1, RemovedEntry
  <2> QED BY <2>1, <2>2 DEF TreeIInv
<1>7. CASE UNCHANGED treeVars
  BY <1>7 DEF treeVars, TreeIInv
<1> QED BY <1>2, <1>3, <1>4, <1>5, <1>6, <1>7 DEF TreeNext

\* However layers and searches come and go, and until a released directory is filtered again:
\* the matches of the newest layer can be reached from where it was searched.
THEOREM TreeReached == TreeSpec => []MatchesAreReached
<1>1. TreeInit => TreeIInv
  <2> SUFFICES ASSUME TreeInit PROVE TreeIInv
    OBVIOUS
  <2>1. << >> \in Seq(Layer) /\ << >> \in Seq(Searching) /\ Len(<< >>) = 0 /\ 1 .. 0 = {}
    OBVIOUS
  <2>2. Reached(<< >>)
    BY <2>1 DEF Reached
  <2> QED BY <2>1, <2>2 DEF TreeInit, TreeIInv
<1>2. TreeIInv /\ [TreeNext]_treeVars => TreeIInv'
  BY TreeStep, TreeAssumption
<1>3. TreeIInv => MatchesAreReached
  <2> SUFFICES ASSUME TreeIInv, layers # << >>, ~toggled,
                      NEW p \in Last(layers).matches, NEW c \in Between(p, Last(layers).root)
               PROVE  Visible(c)
    BY DEF MatchesAreReached
  <2> DEFINE n == Len(layers)
  <2>1. n \in 1 .. n /\ Last(layers) = layers[n] /\ DOMAIN layers = 1 .. n
    BY DEF TreeIInv, Last
  <2>2. \A j \in 1 .. n : Live(layers[j], FolderOf[c]) => c \in layers[j].allowed
    <3> HIDE DEF n
    <3> QED BY <2>1 DEF TreeIInv, Reached, n
  <2> QED BY <2>1, <2>2 DEF Visible
<1> QED BY <1>1, <1>2, <1>3, PTL DEF TreeSpec

(***************************************************************************)
(* The image preview: what undoes tracking                                 *)
(***************************************************************************)
Mapping  == Binding \cup {Unbound}
Sendable == Mapping \cup {TrackingMap}

TrackTyped ==
  /\ sockets \subseteq [pid : Pid, born : 0 .. imvStarts] /\ imvStarts \in Nat
  /\ tracked = << >> \/ \E s \in [pid : Pid, born : 0 .. imvStarts] : tracked = <<s>>
  /\ mapOf \in [TrackedKey -> Sendable] /\ preview \in BOOLEAN
  /\ meant \in [maps : [TrackedKey -> Mapping], preview : BOOLEAN]

\* What was there when M was pressed stays ignored as long as it is there, and only that.
Stopped ==
  /\ ignored \subseteq stopped /\ stopped \cap sockets \subseteq ignored
  /\ stopped \subseteq [pid : Pid, born : 0 .. imvStarts]
  /\ \A s \in stopped : tracked # <<s>>

\* While imv is tracked, what the user would have is kept aside or in place.
Undoable ==
  IF tracked = << >>
  THEN savedPreview = << >> /\ savedMaps = << >> /\ mapOf = meant.maps /\ preview = meant.preview
  ELSE /\ savedPreview = <<meant.preview>> /\ savedMaps \in [TrackedKey -> Sendable]
       /\ \A k \in TrackedKey : \/ mapOf[k] = TrackingMap /\ savedMaps[k] = meant.maps[k]
                                \/ mapOf[k] = meant.maps[k]

\* The delays of a burst are counted up to its pause.
BurstCounted ==
  /\ burst \in Nat /\ progress \in Nat /\ shorts \in Nat
  /\ shorts = 0 \/ (progress <= burst /\ shorts <= progress + 1)

TrackIInv == TrackTyped /\ Stopped /\ Undoable /\ BurstCounted

\* The newest socket is one of them.
LEMMA TheNewest ==
  ASSUME NEW n \in Nat, NEW ss \in SUBSET [pid : Pid, born : 0 .. n], ss # {}
  PROVE  \E s \in ss : Newest(ss) = <<s>>
<1> DEFINE B == {s.born : s \in ss}
<1>1. B # {} /\ B \in SUBSET Int /\ n \in Int /\ \A x \in B : x <= n
  OBVIOUS
<1>2. \A s \in ss : s.born \in B
  OBVIOUS
<1>3. \A x \in B : \E s \in ss : x = s.born
  OBVIOUS
<1> HIDE DEF B
<1>4. Max(B) \in B /\ \A x \in B : Max(B) >= x
  BY <1>1, GreatestInt
<1>5. PICK s \in ss : Max(B) = s.born
  BY <1>3, <1>4
<1>6. \A t \in ss : t.born <= s.born
  <2> SUFFICES ASSUME NEW t \in ss PROVE t.born <= s.born
    OBVIOUS
  <2>1. Max(B) >= t.born /\ t.born \in Int /\ s.born \in Int
    BY <1>2, <1>4
  <2> QED BY <1>5, <2>1
<1>7. (CHOOSE u \in ss : \A t \in ss : t.born <= u.born) \in ss
  BY <1>6
<1> QED BY <1>7 DEF Newest

\* Tracking is begun, handed over to another imv, or undone: what the user would have is not lost.
LEMMA RetrackUndoable ==
  ASSUME TrackingAssumption, TrackTyped, Undoable, NEW found, Retrack(found), UNCHANGED meant
  PROVE  /\ Undoable' /\ tracked' = found
         /\ mapOf' \in [TrackedKey -> Sendable] /\ preview' \in BOOLEAN
<1>1. /\ mapOf \in [TrackedKey -> Sendable] /\ preview \in BOOLEAN /\ meant.preview \in BOOLEAN
      /\ meant.maps \in [TrackedKey -> Mapping]
  BY DEF TrackTyped
<1>2. CASE found = tracked
  BY <1>1, <1>2 DEF Retrack, Undoable
<1>3. CASE found # tracked /\ found # << >>
  <2>1. /\ tracked' = found
        /\ savedPreview' = IF savedPreview = << >> THEN <<preview>> ELSE savedPreview
        /\ preview' = IF savedPreview = << >> THEN FALSE ELSE preview
        /\ IF savedMaps = << >> THEN savedMaps' = mapOf /\ mapOf' = [k \in TrackedKey |-> TrackingMap]
           ELSE UNCHANGED <<mapOf, savedMaps>>
    BY <1>3 DEF Retrack, Hide
  <2>2. preview' \in BOOLEAN /\ mapOf' \in [TrackedKey -> Sendable]
    BY <1>1, <2>1 DEF Sendable
  <2>3. savedPreview' = <<meant.preview>>
    BY <2>1 DEF Undoable
  <2>4. savedMaps' \in [TrackedKey -> Sendable]
    BY <1>1, <2>1 DEF Undoable
  <2>5. ASSUME NEW k \in TrackedKey
        PROVE  \/ mapOf'[k] = TrackingMap /\ savedMaps'[k] = meant.maps[k]
               \/ mapOf'[k] = meant.maps[k]
    <3>1. CASE tracked = << >>
      BY <2>1, <3>1 DEF Undoable
    <3>2. CASE tracked # << >>
      <4>1. savedMaps # << >>
        <5>1. savedMaps \in [TrackedKey -> Sendable]
          BY <3>2 DEF Undoable
        <5>2. k \in DOMAIN savedMaps /\ DOMAIN << >> = {}
          BY <5>1
        <5> QED BY <5>2
      <4> QED BY <2>1, <3>2, <4>1 DEF Undoable
    <3> QED BY <3>1, <3>2
  <2> QED BY <1>3, <2>1, <2>2, <2>3, <2>4, <2>5 DEF Undoable
<1>4. CASE found # tracked /\ found = << >>
  <2>1. /\ tracked' = << >> /\ savedPreview' = << >> /\ savedMaps' = << >>
        /\ preview' = IF savedPreview # << >> THEN savedPreview[1] ELSE preview
        /\ mapOf' = [k \in TrackedKey |-> IF savedMaps # << >> /\ mapOf[k] = TrackingMap
                                         THEN savedMaps[k] ELSE mapOf[k]]
    BY <1>4 DEF Retrack
  <2>2. /\ savedPreview = <<meant.preview>> /\ savedMaps \in [TrackedKey -> Sendable]
        /\ \A k \in TrackedKey : \/ mapOf[k] = TrackingMap /\ savedMaps[k] = meant.maps[k]
                                 \/ mapOf[k] = meant.maps[k]
    BY <1>4 DEF Undoable
  <2>3. \A k \in TrackedKey : meant.maps[k] # TrackingMap
    BY <1>1 DEF Mapping, Unbound, TrackingMap, TrackingAssumption
  <2>4. ASSUME NEW k \in TrackedKey PROVE mapOf'[k] = meant.maps[k]
    <3>1. savedMaps # << >>
      <4>1. k \in DOMAIN savedMaps /\ DOMAIN << >> = {}
        BY <2>2
      <4> QED BY <4>1
    <3> QED BY <2>1, <2>2, <2>3, <3>1
  <2>5. mapOf' = meant.maps
    <3>1. mapOf' \in [TrackedKey -> {meant.maps[k] : k \in TrackedKey}]
      BY <2>1, <2>4
    <3> QED BY <1>1, <2>4, <3>1
  <2>6. preview' = meant.preview
    BY <2>1, <2>2
  <2> QED BY <1>1, <1>4, <2>1, <2>5, <2>6 DEF Undoable, Sendable
<1> QED BY <1>2, <1>3, <1>4

\* Every step keeps the invariant.
LEMMA TrackStep == TrackingAssumption /\ TrackIInv /\ [TrackingNext]_trackVars => TrackIInv'
<1> SUFFICES ASSUME TrackingAssumption, TrackIInv, [TrackingNext]_trackVars PROVE TrackIInv'
  OBVIOUS
<1>1. TrackTyped /\ Stopped /\ Undoable /\ BurstCounted
  BY DEF TrackIInv
<1>2. ASSUME NEW p \in Pid, Starts(p) PROVE TrackIInv'
  <2>1. /\ imvStarts' = imvStarts + 1 /\ sockets' = sockets \cup {[pid |-> p, born |-> imvStarts']}
        /\ UNCHANGED <<ignored, tracked, mapOf, savedMaps, preview, savedPreview, delayVars, stopped,
                       meant, meddles>>
    BY <1>2 DEF Starts
  <2>2. \A s \in [pid : Pid, born : 0 .. imvStarts] : s \in [pid : Pid, born : 0 .. imvStarts']
    BY <1>1, <2>1 DEF TrackTyped
  <2>3. [pid |-> p, born |-> imvStarts'] \in [pid : Pid, born : 0 .. imvStarts'] /\ imvStarts' \in Nat
    BY <1>1, <2>1 DEF TrackTyped
  <2>4. TrackTyped'
    BY <1>1, <2>1, <2>2, <2>3 DEF TrackTyped
  <2>5. [pid |-> p, born |-> imvStarts'] \notin stopped
    BY <1>1, <2>1 DEF Stopped, TrackTyped
  <2>6. Stopped'
    BY <1>1, <2>1, <2>2, <2>5 DEF Stopped
  <2> QED BY <1>1, <2>1, <2>4, <2>6 DEF TrackIInv, Undoable, BurstCounted, delayVars
<1>3. ASSUME NEW s \in sockets, Ends(s) PROVE TrackIInv'
  BY <1>1, <1>3 DEF Ends, TrackIInv, TrackTyped, Stopped, Undoable, BurstCounted, delayVars
<1>4. CASE Discovered
  <2> DEFINE ss == sockets \ ignored'
  <2>1. /\ ignored' = ignored \cap sockets /\ Retrack(Newest(ss))
        /\ UNCHANGED <<sockets, delayVars, stopped, meant, imvStarts, meddles>>
    BY <1>4 DEF Discovered
  <2>2. ss \in SUBSET [pid : Pid, born : 0 .. imvStarts] /\ ss \cap stopped = {} /\ imvStarts \in Nat
    BY <1>1, <2>1 DEF TrackTyped, Stopped
  <2> HIDE DEF ss
  <2>3. Newest(ss) = << >> \/ \E s \in ss : Newest(ss) = <<s>>
    <3>1. CASE ss = {}
      BY <3>1 DEF Newest
    <3>2. CASE ss # {}
      BY <2>2, <3>2, TheNewest
    <3> QED BY <3>1, <3>2
  <2>4. /\ Undoable' /\ tracked' = Newest(ss)
        /\ mapOf' \in [TrackedKey -> Sendable] /\ preview' \in BOOLEAN
    BY <1>1, <2>1, RetrackUndoable
  <2>5. TrackTyped'
    BY <1>1, <2>1, <2>2, <2>3, <2>4 DEF TrackTyped
  <2>6. \A s \in stopped : tracked' # <<s>>
    <3>1. \A s, t : <<s>> = <<t>> => s = t
      OBVIOUS
    <3>2. \A s : << >> # <<s>>
      OBVIOUS
    <3> QED BY <2>2, <2>3, <2>4, <3>1, <3>2
  <2>7. Stopped'
    BY <1>1, <2>1, <2>6 DEF Stopped
  <2> QED BY <1>1, <2>1, <2>4, <2>5, <2>7 DEF TrackIInv, BurstCounted, delayVars
<1>5. CASE StopTracking
  <2>1. /\ ignored' = ignored \cup sockets /\ Retrack(<< >>) /\ stopped' = stopped \cup sockets
        /\ UNCHANGED <<sockets, delayVars, meant, imvStarts, meddles>>
    BY <1>5 DEF StopTracking
  <2>2. /\ Undoable' /\ tracked' = << >>
        /\ mapOf' \in [TrackedKey -> Sendable] /\ preview' \in BOOLEAN
    BY <1>1, <2>1, RetrackUndoable
  <2>3. TrackTyped'
    BY <1>1, <2>1, <2>2 DEF TrackTyped
  <2>4. Stopped'
    BY <1>1, <2>1, <2>2 DEF Stopped, TrackTyped
  <2> QED BY <1>1, <2>1, <2>2, <2>3, <2>4 DEF TrackIInv, BurstCounted, delayVars
<1>6. CASE TogglesPreview
  <2>1. /\ preview' = ~preview
        /\ meant' = IF tracked = << >> THEN [meant EXCEPT !.preview = ~preview] ELSE meant
        /\ UNCHANGED <<sockets, ignored, tracked, mapOf, savedMaps, savedPreview, delayVars, stopped,
                       imvStarts>>
    BY <1>6 DEF TogglesPreview
  <2>2. TrackTyped' /\ Stopped'
    BY <1>1, <2>1 DEF TrackTyped, Stopped
  <2>3. Undoable'
    <3>1. CASE tracked = << >>
      <4>1. meant'.preview = preview' /\ meant'.maps = meant.maps
        BY <1>1, <2>1, <3>1 DEF TrackTyped
      <4> QED BY <1>1, <2>1, <3>1, <4>1 DEF Undoable
    <3>2. CASE tracked # << >>
      BY <1>1, <2>1, <3>2 DEF Undoable
    <3> QED BY <3>1, <3>2
  <2> QED BY <1>1, <2>1, <2>2, <2>3 DEF TrackIInv, BurstCounted, delayVars
<1>7. ASSUME NEW k \in TrackedKey, NEW b \in Binding, Binds(k, b) PROVE TrackIInv'
  <2>1. /\ mapOf' = [mapOf EXCEPT ![k] = b] /\ meant' = [meant EXCEPT !.maps[k] = b]
        /\ UNCHANGED <<sockets, ignored, tracked, savedMaps, preview, savedPreview, delayVars, stopped,
                       imvStarts>>
    BY <1>7 DEF Binds
  <2>2. meant' = [meant EXCEPT !.maps = [meant.maps EXCEPT ![k] = b]]
    BY <2>1, Zenon
  <2>3. /\ meant'.maps = [meant.maps EXCEPT ![k] = b] /\ meant'.preview = meant.preview
        /\ meant' \in [maps : [TrackedKey -> Mapping], preview : BOOLEAN]
    BY <1>1, <2>2 DEF TrackTyped, Mapping
  <2>4. TrackTyped' /\ Stopped'
    BY <1>1, <2>1, <2>3 DEF TrackTyped, Stopped, Sendable, Mapping
  <2>5. Undoable'
    <3>1. mapOf \in [TrackedKey -> Sendable] /\ meant.maps \in [TrackedKey -> Mapping]
      BY <1>1 DEF TrackTyped
    <3> QED BY <1>1, <2>1, <2>3, <3>1 DEF Undoable
  <2> QED BY <1>1, <2>1, <2>4, <2>5 DEF TrackIInv, BurstCounted, delayVars
<1>8. ASSUME NEW n \in CountsTyped, BurstOf(n) PROVE TrackIInv'
  BY <1>1, <1>8 DEF BurstOf, TrackIInv, TrackTyped, Stopped, Undoable, BurstCounted, delayVars
<1>9. ASSUME NEW n \in CountsTyped, CycleDelay(n) PROVE TrackIInv'
  BY <1>1, <1>9 DEF CycleDelay, TrackIInv, TrackTyped, Stopped, Undoable, BurstCounted, delayVars
<1>10. CASE OtherDelay
  BY <1>1, <1>10 DEF OtherDelay, TrackIInv, TrackTyped, Stopped, Undoable, BurstCounted, delayVars
<1>11. ASSUME NEW continuous \in BOOLEAN, NEW up \in BOOLEAN, NEW elsewhere \in BOOLEAN,
              StepSent(continuous, up, elsewhere)
       PROVE  TrackIInv'
  <2> DEFINE n == IF continuous THEN held + 1 ELSE 0
             p == IF continuous THEN progress ELSE 0
  <2>1. /\ progress' = IF elsewhere THEN 0
                        ELSE IF n >= 2 /\ burst > 1 THEN (p + 1) % (burst + 1) ELSE p
        /\ shorts' = IF ~elsewhere /\ n >= 2 /\ burst > 1 /\ ~(burst > 1 /\ p = burst) /\ ~up
                     THEN shorts + 1 ELSE 0
        /\ UNCHANGED <<sockets, ignored, tracked, mapOf, savedMaps, preview, savedPreview, burst, stopped,
                       meant, imvStarts>>
    BY <1>11 DEF StepSent
  <2>2. burst \in Nat /\ p \in Nat /\ shorts \in Nat
        /\ (shorts = 0 \/ (progress <= burst /\ shorts <= progress + 1)) /\ (n >= 2 => p = progress)
    BY <1>1 DEF BurstCounted
  <2> HIDE DEF n, p
  <2>3. (p + 1) % (burst + 1) \in 0 .. burst /\ (p < burst => (p + 1) % (burst + 1) = p + 1)
    BY <2>2, Mods, Mods3
  <2>4. BurstCounted'
    <3>1. CASE shorts' = 0
      BY <2>1, <2>2, <2>3, <3>1 DEF BurstCounted
    <3>2. CASE shorts' # 0
      <4>1. shorts' = shorts + 1 /\ progress' = (p + 1) % (burst + 1) /\ p # burst /\ p = progress
        BY <2>1, <2>2, <3>2
      <4> QED BY <2>1, <2>2, <2>3, <4>1 DEF BurstCounted
    <3> QED BY <3>1, <3>2
  <2> QED BY <1>1, <2>1, <2>4 DEF TrackIInv, TrackTyped, Stopped, Undoable
<1>12. CASE UNCHANGED trackVars
  BY <1>1, <1>12 DEF trackVars, TrackIInv, TrackTyped, Stopped, Undoable, BurstCounted
<1> QED BY <1>2, <1>3, <1>4, <1>5, <1>6, <1>7, <1>8, <1>9, <1>10, <1>11, <1>12 DEF TrackingNext

\* For all imvs that come and go, and whatever the user changes meanwhile: when none is tracked,
\* ranger is as the user would have it without imv, none that was stopped is tracked again, and a
\* burst ends in a pause (image_preview_imv2.py; see ImvTracking).
THEOREM TrackingUndone == TrackingSpec => []TrackingIsUndone
<1>1. TrackingInit => TrackIInv
  BY TrackingAssumption
     DEF TrackingInit, TrackIInv, TrackTyped, Stopped, Undoable, BurstCounted, Sendable, Mapping
<1>2. TrackIInv /\ [TrackingNext]_trackVars => TrackIInv'
  BY TrackStep, TrackingAssumption
<1>3. TrackIInv => TrackingIsUndone
  <2> SUFFICES ASSUME TrackIInv PROVE TrackingIsUndone
    OBVIOUS
  <2>1. \A k \in DOMAIN tracked : tracked[k] \notin stopped
    BY DEF TrackIInv, TrackTyped, Stopped
  <2>2. \A s \in sockets : s \notin stopped => s \notin ignored
    BY DEF TrackIInv, Stopped
  <2>3. shorts <= burst + 1
    BY DEF TrackIInv, BurstCounted
  <2> QED BY <2>1, <2>2, <2>3 DEF TrackIInv, Undoable, TrackingIsUndone
<1> QED BY <1>1, <1>2, <1>3, PTL DEF TrackingSpec

(***************************************************************************)
(* The scene seeker: what a scan has found                                 *)
(***************************************************************************)
\* A scan that was begun.
Scan == [id : 1 .. pressed, file : SceneFile, origin : 0 .. SceneDuration, cursor : Int,
         direction : {1, -1}]
\* The changes that a scan is after.
Ahead(s) == {t \in changesOf[s.file] : (t - s.origin) * s.direction > Epsilon}
\* None of them is behind its cursor, which has left the origin.
Covered(s) ==
  /\ s.direction = 1 => s.cursor > s.origin + Epsilon /\ \A t \in Ahead(s) : t >= s.cursor
  /\ s.direction = -1 => s.cursor <= s.origin /\ \A t \in Ahead(s) : t < s.cursor

\* One scan goes on, the one that was wished; it waits for the timer or for its one window, and
\* what it has left behind is covered.
SceneIInv ==
  /\ changesOf \in [SceneFile -> SUBSET SceneFrame]
  /\ playing \in SceneFile /\ timePos \in 0 .. SceneDuration
  /\ pressed \in Nat /\ timer \in BOOLEAN
  /\ active # NoScan => active \in Scan /\ active.id = wished /\ Covered(active)
  /\ active = NoScan => ~timer
  /\ \A w \in windows :
       /\ w.scan \in Scan /\ w.lo = LowEnd(w.scan) /\ w.hi = HighEnd(w.scan) /\ w.lo < w.hi
       /\ w.scan.id = active.id => w.scan = active /\ ~timer
       /\ w = [scan |-> w.scan, lo |-> w.lo, hi |-> w.hi]
  /\ ScanIsTrue

\* The two ends of a window, either way.
LEMMA WindowEnds2 ==
  ASSUME SceneAssumption, NEW s, s.cursor \in Int
  PROVE  /\ LowEnd(s) = IF s.direction = 1 THEN s.cursor
                        ELSE IF s.cursor - Window <= 0 THEN 0 ELSE s.cursor - Window
         /\ HighEnd(s) = IF s.direction = 1
                         THEN IF SceneDuration <= s.cursor + Window THEN SceneDuration
                              ELSE s.cursor + Window
                         ELSE s.cursor
<1>1. ASSUME NEW a \in Int, NEW b \in Int PROVE Max({a, b}) = IF b <= a THEN a ELSE b
  <2> DEFINE m == IF b <= a THEN a ELSE b
  <2>1. Max({a, b}) \in {a, b} /\ \A x \in {a, b} : Max({a, b}) >= x
    <3>1. {a, b} \in SUBSET Int /\ {a, b} # {} /\ m \in Int /\ \A x \in {a, b} : x <= m
      OBVIOUS
    <3> QED BY <3>1, GreatestInt
  <2> QED BY <2>1
<1>2. ASSUME NEW a \in Int, NEW b \in Int PROVE Min({a, b}) = IF a <= b THEN a ELSE b
  <2> DEFINE m == IF a <= b THEN a ELSE b
  <2>1. Min({a, b}) \in {a, b} /\ \A x \in {a, b} : Min({a, b}) <= x
    <3>1. {a, b} \in SUBSET Int /\ {a, b} # {} /\ m \in Int /\ \A x \in {a, b} : m <= x
      OBVIOUS
    <3> QED BY <3>1, LeastInt
  <2> QED BY <2>1
<1>3. Max({0, s.cursor - Window}) = IF s.cursor - Window <= 0 THEN 0 ELSE s.cursor - Window
  BY <1>1 DEF SceneAssumption
<1>4. Min({SceneDuration, s.cursor + Window}) =
        IF SceneDuration <= s.cursor + Window THEN SceneDuration ELSE s.cursor + Window
  BY <1>2 DEF SceneAssumption
<1> QED BY <1>3, <1>4 DEF LowEnd, HighEnd

\* The least of a set of numbers is the one that exceeds no other.
LEMMA TheLeast ==
  ASSUME NEW S \in SUBSET Int, NEW m \in Int, m \in S, \A x \in S : m <= x
  PROVE  Min(S) = m
<1>1. Min(S) \in S /\ \A x \in S : Min(S) <= x
  BY LeastInt
<1>2. Min(S) <= m /\ m <= Min(S) /\ m \in Int /\ Min(S) \in Int
  BY <1>1
<1> QED BY <1>2

\* The greatest of a set of numbers is the one that no other exceeds.
LEMMA TheGreatest ==
  ASSUME NEW S \in SUBSET Int, NEW m \in Int, m \in S, \A x \in S : x <= m
  PROVE  Max(S) = m
<1>1. Max(S) \in S /\ \A x \in S : Max(S) >= x
  BY GreatestInt
<1>2. Max(S) >= m /\ m >= Max(S) /\ m \in Int /\ Max(S) \in Int
  BY <1>1
<1> QED BY <1>2

\* The window of a scan that is covered, in numbers.
LEMMA TheWindow ==
  ASSUME SceneAssumption, SceneIInv, NEW w \in windows, Covered(w.scan)
  PROVE  /\ w.scan \in Scan /\ changesOf[w.scan.file] \in SUBSET (0 .. SceneDuration - 1)
         /\ w.lo \in 0 .. SceneDuration /\ w.hi \in 0 .. SceneDuration /\ w.lo < w.hi
         /\ w.scan.direction = 1 => w.lo = w.scan.cursor
         /\ w.scan.direction = -1 => w.hi = w.scan.cursor
<1>1. /\ w.scan \in Scan /\ w.lo = LowEnd(w.scan) /\ w.hi = HighEnd(w.scan) /\ w.lo < w.hi
      /\ changesOf \in [SceneFile -> SUBSET SceneFrame]
  BY DEF SceneIInv
<1>2. /\ w.scan.cursor \in Int /\ w.scan.origin \in 0 .. SceneDuration /\ w.scan.direction \in {1, -1}
      /\ w.scan.file \in SceneFile
  BY <1>1 DEF Scan
<1>3. changesOf[w.scan.file] \in SUBSET (0 .. SceneDuration - 1)
  BY <1>1, <1>2 DEF SceneAssumption
<1> DEFINE c == w.scan.cursor
           d == w.scan.direction
<1>4. /\ w.lo = IF d = 1 THEN c ELSE IF c - Window <= 0 THEN 0 ELSE c - Window
      /\ w.hi = IF d = 1 THEN IF SceneDuration <= c + Window THEN SceneDuration ELSE c + Window ELSE c
  BY <1>1, <1>2, WindowEnds2
<1>5. (d = 1 => c > w.scan.origin + 1) /\ (d = -1 => c <= w.scan.origin)
  BY DEF Covered, Epsilon
<1>c. c = w.scan.cursor /\ d = w.scan.direction
  OBVIOUS
<1> HIDE DEF c, d
<1>6. c \in Int /\ d \in {1, -1} /\ SceneDuration \in Nat /\ Window \in Nat \ {0}
  BY <1>2 DEF c, d, SceneAssumption
<1>7. d = 1 => w.lo \in 0 .. SceneDuration /\ w.hi \in 0 .. SceneDuration /\ w.lo = c
  BY <1>1, <1>2, <1>4, <1>5, <1>6
<1>8. d = -1 => w.lo \in 0 .. SceneDuration /\ w.hi \in 0 .. SceneDuration /\ w.hi = c
  BY <1>1, <1>2, <1>4, <1>5, <1>6
<1>9. w.lo \in 0 .. SceneDuration /\ w.hi \in 0 .. SceneDuration
  BY <1>6, <1>7, <1>8
<1> QED BY <1>1, <1>3, <1>7, <1>8, <1>9, <1>c

\* What is found in the window is the nearest that the scan is after.
LEMMA TheNearest ==
  ASSUME SceneAssumption, SceneIInv, NEW w \in windows, Covered(w.scan), Beyond(w) # {}
  PROVE  /\ NearestOf(w.scan, Beyond(w)) = NearestOf(w.scan, Ahead(w.scan))
         /\ NearestOf(w.scan, Beyond(w)) \in 0 .. SceneDuration
<1> DEFINE s   == w.scan
           A   == Ahead(s)
           sel == {t \in changesOf[s.file] : w.lo <= t /\ t < w.hi}
           B   == Beyond(w)
<1>1. /\ changesOf[s.file] \in SUBSET (0 .. SceneDuration - 1)
      /\ w.lo \in 0 .. SceneDuration /\ w.hi \in 0 .. SceneDuration /\ w.lo < w.hi
      /\ s.direction \in {1, -1} /\ s.origin \in 0 .. SceneDuration /\ SceneDuration \in Nat
  BY TheWindow DEF Scan, SceneAssumption
<1>2. sel \in SUBSET Int /\ A \in SUBSET Int /\ \A x \in sel : 0 <= x
  BY <1>1 DEF Ahead
<1>s. /\ \A t : t \in sel <=> t \in changesOf[s.file] /\ w.lo <= t /\ t < w.hi
      /\ Printed(w) = IF s.direction = 1 /\ sel # {} THEN {Min(sel)} ELSE sel
  BY DEF Printed
<1> HIDE DEF sel
<1>3. CASE s.direction = 1
  <2> DEFINE m == Min(sel)
  <2>1. sel # {} /\ B \subseteq {m}
    BY <1>3, <1>s DEF Beyond
  <2>2. m \in sel /\ \A x \in sel : m <= x
    <3>1. sel # {} /\ sel \in SUBSET Int /\ 0 \in Int /\ \A x \in sel : 0 <= x
      BY <2>1, <1>2
    <3> HIDE DEF B
    <3> QED BY ONLY <3>1, LeastInt
  <2>3. B = {m} /\ m \in A
    BY <2>1, <2>2, <1>s DEF Beyond, Ahead
  <2>4. \A t \in A : t >= w.lo /\ t \in changesOf[s.file]
    BY <1>3, TheWindow DEF Covered, Ahead
  <2> HIDE DEF m
  <2>5. ASSUME NEW t \in A PROVE m <= t
    <3>1. CASE t < w.hi
      BY <3>1, <2>2, <2>4, <1>s
    <3>2. CASE t >= w.hi
      BY <3>2, <2>2, <1>1, <1>2, <1>s
    <3> QED BY <3>1, <3>2, <1>1, <1>2
  <2>6. m \in Int /\ m \in 0 .. SceneDuration
    BY <2>2, <1>1, <1>s
  <2> HIDE DEF A, B
  <2>7. Min(A) = m
    BY <2>3, <2>5, <2>6, <1>2, TheLeast
  <2>8. Min(B) = m
    BY <2>3, <2>6, TheLeast
  <2>9. NearestOf(s, B) = Min(B) /\ NearestOf(s, A) = Min(A)
    BY <1>3 DEF NearestOf
  <2> QED BY <2>6, <2>7, <2>8, <2>9 DEF A, B
<1>4. CASE s.direction = -1
  <2> DEFINE m == Max(B)
  <2>1. B = {t \in A : w.lo <= t /\ t < w.hi}
    <3>1. \A t \in sel : t >= w.lo - Epsilon
      BY <1>1, <1>2, <1>s DEF Epsilon
    <3>2. Printed(w) = sel
      BY <1>4, <1>s
    <3> QED BY <3>1, <3>2, <1>s DEF Beyond, Ahead
  <2>2. m \in B /\ \A x \in B : m >= x
    <3>1. B \in SUBSET Int /\ B # {} /\ \A x \in B : x <= w.hi
      BY <2>1, <1>1, <1>2
    <3>2. w.hi \in Int
      BY <1>1
    <3> HIDE DEF B
    <3> QED BY <3>1, <3>2, GreatestInt
  <2>4. \A t \in A : t < w.hi
    BY <1>4, TheWindow DEF Covered, Ahead
  <2> HIDE DEF m, A, B
  <2>5. ASSUME NEW t \in A PROVE t <= m
    <3>1. CASE t >= w.lo
      BY <3>1, <2>1, <2>2, <2>4, <1>2
    <3>2. CASE t < w.lo
      BY <3>2, <2>1, <2>2, <1>1, <1>2
    <3> QED BY <3>1, <3>2, <1>1, <1>2
  <2>6. m \in A /\ m \in Int /\ m \in 0 .. SceneDuration
    BY <2>1, <2>2, <1>1, <1>2
  <2>7. Max(A) = m
    BY <2>5, <2>6, <1>2, TheGreatest
  <2>9. NearestOf(s, B) = Max(B) /\ NearestOf(s, A) = Max(A)
    BY <1>4 DEF NearestOf
  <2> QED BY <2>6, <2>7, <2>9 DEF A, B, m
<1> QED BY <1>1, <1>3, <1>4

\* Where nothing is found, what the scan is after is beyond the window.
LEMMA ThePassed ==
  ASSUME SceneAssumption, SceneIInv, NEW w \in windows, Covered(w.scan), Beyond(w) = {},
         NEW t \in Ahead(w.scan)
  PROVE  /\ w.scan.direction = 1 => t >= w.hi
         /\ w.scan.direction = -1 => t < w.lo
<1> DEFINE s   == w.scan
           sel == {u \in changesOf[s.file] : w.lo <= u /\ u < w.hi}
<1>1. /\ changesOf[s.file] \in SUBSET (0 .. SceneDuration - 1)
      /\ w.lo \in 0 .. SceneDuration /\ w.hi \in 0 .. SceneDuration /\ w.lo < w.hi
      /\ s.direction \in {1, -1} /\ s.origin \in 0 .. SceneDuration /\ SceneDuration \in Nat
  BY TheWindow DEF Scan, SceneAssumption
<1>2. t \in changesOf[s.file] /\ (t - s.origin) * s.direction > 1 /\ t \in Int
  BY <1>1 DEF Ahead, Epsilon
<1>3. CASE s.direction = 1
  <2>1. t >= w.lo /\ w.lo > s.origin + 1
    BY <1>3, TheWindow DEF Covered, Epsilon
  <2>2. ASSUME t < w.hi PROVE FALSE
    <3>1. t \in sel
      BY <2>1, <2>2, <1>2
    <3>2. Min(sel) \in sel
      <4>1. sel \in SUBSET Int /\ \A x \in sel : 0 <= x
        BY <1>1
      <4> HIDE DEF sel
      <4> QED BY <3>1, <4>1, LeastInt
    <3>3. Printed(w) = {Min(sel)}
      BY <3>1, <1>3 DEF Printed
    <3> DEFINE m == Min(sel)
    <3>4. m \in changesOf[s.file] /\ w.lo <= m /\ m < w.hi
      BY <3>2
    <3> HIDE DEF m
    <3>5. m \in Int /\ m >= w.lo - 1 /\ (m - s.origin) * s.direction > 1
      BY <3>4, <2>1, <1>1, <1>3
    <3> QED BY <3>3, <3>4, <3>5 DEF Beyond, m, Epsilon
  <2> QED BY <2>2, <1>1, <1>2, <1>3
<1>4. CASE s.direction = -1
  <2>1. t < w.hi
    BY <1>4, TheWindow DEF Covered
  <2>2. ASSUME t >= w.lo PROVE FALSE
    <3>1. t \in Printed(w)
      BY <2>1, <2>2, <1>2, <1>4 DEF Printed
    <3>2. t >= w.lo - 1
      BY <2>2, <1>1, <1>2
    <3> QED BY <3>1, <3>2, <2>1, <1>2 DEF Beyond, Epsilon
  <2> QED BY <2>2, <1>1, <1>2, <1>4
<1> QED BY <1>1, <1>3, <1>4

\* Where the other variables are as before, and the windows are some of those there were.
LEMMA SceneRests ==
  ASSUME SceneIInv, UNCHANGED <<changesOf, active, timer, wished, verdict>>, windows' \subseteq windows,
         playing' \in SceneFile, timePos' \in 0 .. SceneDuration, pressed' = pressed
  PROVE  SceneIInv'
<1>1. Scan' = Scan /\ (Covered(active))' = Covered(active) /\ ScanIsTrue' = ScanIsTrue
  BY DEF Scan, Covered, Ahead, ScanIsTrue
<1>2. \A w \in windows : LowEnd(w.scan)' = LowEnd(w.scan) /\ HighEnd(w.scan)' = HighEnd(w.scan)
  BY DEF LowEnd, HighEnd
<1> QED BY <1>1, <1>2 DEF SceneIInv

\* A scan has ended, and what is said of it is true.
LEMMA SceneStops ==
  ASSUME SceneIInv, UNCHANGED changesOf, active' = NoScan, timer' = FALSE, windows' \subseteq windows,
         playing' \in SceneFile, timePos' \in 0 .. SceneDuration, pressed' \in Nat, pressed <= pressed',
         ScanIsTrue'
  PROVE  SceneIInv'
<1>1. \A w \in windows' : w.scan \in Scan /\ w.scan.id \in 1 .. pressed
  BY DEF SceneIInv, Scan
<1>2. \A s \in Scan : s \in Scan'
  BY DEF SceneIInv, Scan
<1>3. \A w \in windows' : w.scan.id # active'.id
  BY <1>1 DEF NoScan, SceneIInv
<1>4. \A w \in windows' : /\ w.lo = LowEnd(w.scan)' /\ w.hi = HighEnd(w.scan)' /\ w.lo < w.hi
                          /\ w = [scan |-> w.scan, lo |-> w.lo, hi |-> w.hi]
  BY DEF LowEnd, HighEnd, SceneIInv
<1> QED BY <1>1, <1>2, <1>3, <1>4 DEF SceneIInv

\* A scan goes on with its next window, or there is nothing that it is after.
LEMMA SceneScans ==
  ASSUME SceneAssumption, SceneIInv, NEW s, ScanWindow(s), UNCHANGED changesOf, timer' = FALSE,
         s \in Scan', s.id = wished', Covered(s), \A w \in windows : w.scan.id # s.id,
         playing' \in SceneFile, timePos' \in 0 .. SceneDuration, pressed' \in Nat, pressed <= pressed'
  PROVE  SceneIInv'
<1>1. /\ s.cursor \in Int /\ s.file \in SceneFile /\ s.direction \in {1, -1}
      /\ s.id \in 1 .. pressed' /\ s.origin \in 0 .. SceneDuration
  BY DEF Scan
<1>2. CASE HighEnd(s) <= LowEnd(s)
  <2>1. active' = NoScan /\ verdict' = SceneVerdict("nothing", s, 0) /\ UNCHANGED windows
    BY <1>2 DEF ScanWindow
  <2>2. ASSUME NEW t \in Ahead(s) PROVE FALSE
    <3>1. t \in 0 .. SceneDuration - 1 /\ SceneDuration \in Nat /\ Window \in Nat \ {0}
      BY <1>1 DEF Ahead, SceneIInv, SceneAssumption
    <3>2. (s.direction = 1 => t >= s.cursor) /\ (s.direction = -1 => t < s.cursor)
      BY DEF Covered
    <3>3. /\ LowEnd(s) = IF s.direction = 1 THEN s.cursor
                         ELSE IF s.cursor - Window <= 0 THEN 0 ELSE s.cursor - Window
          /\ HighEnd(s) = IF s.direction = 1
                          THEN IF SceneDuration <= s.cursor + Window THEN SceneDuration
                               ELSE s.cursor + Window
                          ELSE s.cursor
      BY <1>1, WindowEnds2
    <3> QED BY <3>1, <3>2, <3>3, <1>1, <1>2
  <2>3. ScanIsTrue'
    BY <2>1, <2>2 DEF ScanIsTrue, SceneVerdict, Ahead
  <2> QED BY <2>1, <2>3, SceneStops
<1>3. CASE ~(HighEnd(s) <= LowEnd(s))
  <2> DEFINE w1 == [scan |-> s, lo |-> LowEnd(s), hi |-> HighEnd(s)]
  <2>1. active' = s /\ UNCHANGED verdict /\ windows' = windows \cup {w1}
    BY <1>3 DEF ScanWindow
  <2>2. LowEnd(s) < HighEnd(s)
    <3>1. LowEnd(s) \in Int /\ HighEnd(s) \in Int
      BY <1>1, WindowEnds2 DEF SceneAssumption
    <3> QED BY <3>1, <1>3
  <2>3. ScanIsTrue' /\ (Covered(active))' /\ s # NoScan
    <3>1. ScanIsTrue'
      BY <2>1 DEF SceneIInv, ScanIsTrue
    <3>2. (Covered(active))'
      BY <2>1 DEF Covered, Ahead
    <3> QED BY <3>1, <3>2, <1>1 DEF NoScan
  <2>4. \A r \in Scan : r \in Scan'
    BY DEF SceneIInv, Scan
  <2>5. ASSUME NEW w \in windows'
        PROVE  /\ w.scan \in Scan' /\ w.lo = LowEnd(w.scan)' /\ w.hi = HighEnd(w.scan)' /\ w.lo < w.hi
               /\ w.scan.id = active'.id => w.scan = active' /\ ~timer'
               /\ w = [scan |-> w.scan, lo |-> w.lo, hi |-> w.hi]
    <3>1. CASE w \in windows
      BY <3>1, <2>1, <2>4 DEF SceneIInv, LowEnd, HighEnd
    <3>2. CASE w = w1
      <4>1. w.scan = s /\ w.lo = LowEnd(s) /\ w.hi = HighEnd(s)
        BY <3>2
      <4>2. LowEnd(s)' = LowEnd(s) /\ HighEnd(s)' = HighEnd(s)
        BY DEF LowEnd, HighEnd
      <4> QED BY <4>1, <4>2, <3>2, <2>1, <2>2
    <3> QED BY <3>1, <3>2, <2>1
  <2> HIDE DEF w1
  <2>6. /\ changesOf' \in [SceneFile -> SUBSET SceneFrame] /\ timer' \in BOOLEAN
        /\ active' \in Scan' /\ active'.id = wished' /\ active' # NoScan
    BY <2>1, <2>3 DEF SceneIInv
  <2> QED BY <2>3, <2>5, <2>6 DEF SceneIInv
<1> QED BY <1>2, <1>3

\* The result of a window.
LEMMA SceneResults ==
  ASSUME SceneAssumption, SceneIInv, NEW w \in windows, NEW ok \in BOOLEAN, WindowDone(w, ok)
  PROVE  SceneIInv'
<1>1. /\ windows' = windows \ {w} /\ windows' \subseteq windows
      /\ UNCHANGED <<wished, changesOf, playing, fileEvents, pressed, seeks>>
  BY DEF WindowDone
<1>2. /\ playing \in SceneFile /\ timePos \in 0 .. SceneDuration /\ pressed \in Nat
      /\ pressed <= pressed' /\ w.scan \in Scan
  BY <1>1 DEF SceneIInv
<1>3. CASE ~StillActive(w)
  BY <1>1, <1>2, <1>3, SceneRests DEF WindowDone
<1>4. CASE StillActive(w)
  <2>1. /\ w.scan = active /\ active # NoScan /\ ~timer /\ active.id = wished /\ Covered(w.scan)
        /\ timer \in BOOLEAN
    BY <1>2, <1>4 DEF StillActive, SceneIInv, NoScan, Scan
  <2>2. CASE ~ok
    <3>1. active' = NoScan /\ verdict' = SceneVerdict("failed", w.scan, 0) /\ UNCHANGED <<timer, timePos>>
      BY <1>4, <2>2 DEF WindowDone
    <3>2. ScanIsTrue'
      BY <3>1, <2>1, <1>1 DEF ScanIsTrue, SceneVerdict
    <3> QED BY <3>1, <3>2, <2>1, <1>1, <1>2, SceneStops
  <2>3. CASE ok /\ Beyond(w) # {}
    <3>1. /\ active' = NoScan /\ timePos' = NearestOf(w.scan, Beyond(w)) /\ UNCHANGED timer
          /\ verdict' = SceneVerdict("found", w.scan, timePos')
      BY <1>4, <2>3 DEF WindowDone
    <3>2. timePos' = NearestOf(w.scan, Ahead(w.scan)) /\ timePos' \in 0 .. SceneDuration
      BY <3>1, <2>1, <2>3, TheNearest
    <3>3. ScanIsTrue'
      <4>1. /\ verdict'.scan = w.scan /\ verdict'.how = "found" /\ verdict'.at = timePos'
            /\ verdict'.wished = wished'
        BY <3>1 DEF SceneVerdict
      <4>2. verdict'.at = NearestOf(w.scan, Ahead(w.scan))
        BY <3>2, <4>1
      <4> QED BY <4>1, <4>2, <2>1, <1>1 DEF ScanIsTrue, Ahead, NearestOf
    <3> QED BY <3>1, <3>2, <3>3, <2>1, <1>1, <1>2, SceneStops
  <2>4. CASE ok /\ Beyond(w) = {}
    <3> DEFINE c == CursorAfter(w)
               s == w.scan
    <3>1. /\ timePos' = c
          /\ IF c <= 0 \/ c >= SceneDuration
             THEN active' = NoScan /\ verdict' = SceneVerdict("nothing", s, 0) /\ UNCHANGED timer
             ELSE active' = [s EXCEPT !.cursor = c] /\ timer' = TRUE /\ UNCHANGED verdict
      BY <1>4, <2>4 DEF WindowDone
    <3>2. /\ changesOf[s.file] \in SUBSET (0 .. SceneDuration - 1)
          /\ w.lo \in 0 .. SceneDuration /\ w.hi \in 0 .. SceneDuration /\ w.lo < w.hi
          /\ s.direction \in {1, -1} /\ s.origin \in 0 .. SceneDuration /\ SceneDuration \in Nat
          /\ s.direction = 1 => w.lo = s.cursor
          /\ s.direction = -1 => w.hi = s.cursor
      BY <2>1, TheWindow DEF Scan, SceneAssumption
    <3>3. c \in 0 .. SceneDuration /\ c = IF s.direction = 1 THEN w.hi ELSE w.lo
      BY <3>2 DEF CursorAfter
    <3>4. /\ s.direction = 1 => c > s.origin + 1 /\ \A t \in Ahead(s) : t >= c
          /\ s.direction = -1 => c < s.origin /\ \A t \in Ahead(s) : t < c
      <4>1. /\ s.direction = 1 => s.cursor > s.origin + 1
            /\ s.direction = -1 => s.cursor <= s.origin
        BY <2>1 DEF Covered, Epsilon
      <4>2. \A t \in Ahead(s) : (s.direction = 1 => t >= w.hi) /\ (s.direction = -1 => t < w.lo)
        BY <2>1, <2>4, ThePassed
      <4>3. s.direction = 1 => c > s.origin + 1
        BY <3>2, <3>3, <4>1
      <4>4. s.direction = -1 => c < s.origin
        BY <3>2, <3>3, <4>1
      <4> QED BY <3>2, <3>3, <4>2, <4>3, <4>4
    <3> HIDE DEF c
    <3>5. CASE c <= 0 \/ c >= SceneDuration
      <4>1. active' = NoScan /\ verdict' = SceneVerdict("nothing", s, 0) /\ UNCHANGED timer
        BY <3>1, <3>5
      <4>2. Ahead(s) = {}
        <5>1. SUFFICES ASSUME NEW t \in Ahead(s) PROVE FALSE
          OBVIOUS
        <5>2. t \in 0 .. SceneDuration - 1
          BY <3>2 DEF Ahead
        <5> QED BY <5>2, <3>2, <3>3, <3>4, <3>5
      <4>3. ScanIsTrue'
        <5>1. /\ verdict'.scan = s /\ verdict'.how = "nothing" /\ verdict'.wished = wished'
          BY <4>1 DEF SceneVerdict
        <5> QED BY <5>1, <4>2, <2>1, <1>1 DEF ScanIsTrue, Ahead
      <4> QED BY <4>1, <4>3, <3>1, <3>3, <2>1, <1>1, <1>2, SceneStops
    <3>6. CASE ~(c <= 0 \/ c >= SceneDuration)
      <4> DEFINE r == [s EXCEPT !.cursor = c]
      <4>1. active' = r /\ timer' = TRUE /\ UNCHANGED verdict
        BY <3>1, <3>6
      <4>2. r \in Scan /\ r.id = s.id /\ r.id # 0
        BY <1>2, <3>3 DEF Scan
      <4>3. Covered(r)
        <5>1. r.cursor = c /\ r.origin = s.origin /\ r.direction = s.direction /\ r.file = s.file
          BY <1>2 DEF Scan
        <5>2. Ahead(r) = Ahead(s)
          BY <5>1 DEF Ahead
        <5>3. c <= s.origin \/ s.direction = 1
          BY <3>2, <3>3, <3>4
        <5> HIDE DEF r
        <5> QED BY <5>1, <5>2, <5>3, <3>4 DEF Covered, Epsilon
      <4> HIDE DEF r
      <4>4. \A v \in windows' : v.scan.id # active'.id
        <5>1. SUFFICES ASSUME NEW v \in windows, v.scan.id = active.id PROVE v = w
          BY <1>1, <2>1, <4>1, <4>2
        <5>2. v.scan = active /\ v = [scan |-> v.scan, lo |-> LowEnd(v.scan), hi |-> HighEnd(v.scan)]
          BY <5>1 DEF SceneIInv
        <5>3. w = [scan |-> w.scan, lo |-> LowEnd(w.scan), hi |-> HighEnd(w.scan)]
          BY DEF SceneIInv
        <5> QED BY <5>2, <5>3, <2>1
      <4>5. Scan' = Scan /\ (Covered(active))' /\ ScanIsTrue'
        <5>1. Scan' = Scan
          BY <1>1 DEF Scan
        <5>2. (Covered(active))'
          BY <4>1, <4>3, <1>1 DEF Covered, Ahead
        <5>3. ScanIsTrue'
          BY <4>1, <1>1 DEF ScanIsTrue, SceneIInv
        <5> QED BY <5>1, <5>2, <5>3
      <4>6. \A v \in windows' :
              /\ v.scan \in Scan' /\ v.lo = LowEnd(v.scan)' /\ v.hi = HighEnd(v.scan)' /\ v.lo < v.hi
              /\ v = [scan |-> v.scan, lo |-> v.lo, hi |-> v.hi]
        BY <1>1, <4>5 DEF SceneIInv, LowEnd, HighEnd
      <4>7. active' \in Scan' /\ active'.id = wished' /\ active' # NoScan
        BY <4>1, <4>2, <4>5, <2>1, <1>1 DEF NoScan
      <4>8. /\ changesOf' \in [SceneFile -> SUBSET SceneFrame] /\ playing' \in SceneFile
            /\ timePos' \in 0 .. SceneDuration /\ pressed' \in Nat /\ timer' \in BOOLEAN
        BY <1>1, <1>2, <3>1, <3>3, <4>1 DEF SceneIInv
      <4> QED BY <4>4, <4>5, <4>6, <4>7, <4>8 DEF SceneIInv
    <3> QED BY <3>5, <3>6
  <2> QED BY <2>2, <2>3, <2>4
<1> QED BY <1>3, <1>4

\* Every step keeps the invariant.
LEMMA SceneStep == SceneAssumption /\ SceneIInv /\ [SceneNext]_sceneVars => SceneIInv'
<1> SUFFICES ASSUME SceneAssumption, SceneIInv, [SceneNext]_sceneVars PROVE SceneIInv'
  OBVIOUS
<1>1. /\ playing \in SceneFile /\ timePos \in 0 .. SceneDuration /\ pressed \in Nat /\ ScanIsTrue
      /\ SceneDuration \in Nat /\ SceneFrame \subseteq 0 .. SceneDuration
  BY DEF SceneIInv, SceneAssumption
<1>2. CASE WindowEnds
  BY <1>2, SceneResults DEF WindowEnds
<1>3. CASE NextWindow
  <2>1. timer /\ timer' = FALSE /\ ScanWindow(active)
        /\ UNCHANGED <<wished, changesOf, playing, timePos, fileEvents, pressed, seeks>>
    BY <1>3 DEF NextWindow
  <2>2. active \in Scan' /\ active.id = wished' /\ Covered(active)
    BY <2>1 DEF SceneIInv, Scan
  <2>3. \A w \in windows : w.scan.id # active.id
    BY <2>1 DEF SceneIInv
  <2>4. /\ playing' \in SceneFile /\ timePos' \in 0 .. SceneDuration /\ pressed' \in Nat
        /\ pressed <= pressed' /\ UNCHANGED changesOf
    BY <1>1, <2>1
  <2> QED BY <2>1, <2>2, <2>3, <2>4, SceneScans
<1>4. ASSUME NEW direction \in {1, -1}, PressKey(direction) PROVE SceneIInv'
  <2>1. /\ pressed' = pressed + 1 /\ timer' = FALSE
        /\ UNCHANGED <<changesOf, playing, timePos, fileEvents, seeks>>
    BY <1>4 DEF PressKey
  <2>4. /\ playing' \in SceneFile /\ timePos' \in 0 .. SceneDuration /\ pressed' \in Nat
        /\ pressed <= pressed' /\ UNCHANGED changesOf
    BY <1>1, <2>1
  <2>2. CASE active.direction = direction
    <3>1. active' = NoScan /\ UNCHANGED <<windows, verdict>>
      BY <1>4, <2>2 DEF PressKey
    <3>2. ScanIsTrue'
      BY <3>1, <2>1, <1>1 DEF ScanIsTrue
    <3>3. windows' \subseteq windows
      BY <3>1
    <3> QED BY <3>1, <3>2, <3>3, <2>1, <2>4, SceneStops
  <2>3. CASE active.direction # direction
    <3> DEFINE s == [id |-> pressed', file |-> playing, origin |-> timePos,
                     cursor |-> StartCursor(timePos, direction), direction |-> direction]
    <3>1. wished' = pressed' /\ ScanWindow(s)
      BY <1>4, <2>3 DEF PressKey
    <3>2. s \in Scan' /\ s.id = wished'
      BY <1>1, <2>1, <3>1 DEF Scan, StartCursor, Epsilon
    <3>3. Covered(s)
      <4>1. s.cursor = StartCursor(timePos, direction) /\ s.origin = timePos /\ s.direction = direction
        OBVIOUS
      <4>2. \A t \in Ahead(s) : t \in Int /\ (t - timePos) * direction > 1
        BY <1>1 DEF Ahead, Epsilon, SceneIInv
      <4> HIDE DEF s
      <4> QED BY <1>1, <4>1, <4>2 DEF Covered, StartCursor, Epsilon
    <3>4. \A w \in windows : w.scan.id # s.id
      BY <1>1, <2>1 DEF SceneIInv, Scan
    <3> HIDE DEF s
    <3> QED BY <2>1, <2>4, <3>1, <3>2, <3>3, <3>4, SceneScans
  <2> QED BY <2>2, <2>3
<1>5. CASE FileEvent
  <2>1. active' = NoScan /\ timer' = FALSE
        /\ UNCHANGED <<changesOf, playing, timePos, windows, pressed, verdict, seeks>>
    BY <1>5 DEF FileEvent, Stop
  <2>2. ScanIsTrue'
    BY <2>1, <1>1 DEF ScanIsTrue
  <2>3. /\ playing' \in SceneFile /\ timePos' \in 0 .. SceneDuration /\ pressed' \in Nat
        /\ pressed <= pressed' /\ UNCHANGED changesOf /\ windows' \subseteq windows
    BY <1>1, <2>1
  <2> QED BY <2>1, <2>2, <2>3, SceneStops
<1>6. CASE OtherFilePlays
  BY <1>1, <1>6, SceneRests DEF OtherFilePlays
<1>7. ASSUME NEW t \in SceneFrame, UserSeeks(t) PROVE SceneIInv'
  BY <1>1, <1>7, SceneRests DEF UserSeeks
<1>8. CASE UNCHANGED sceneVars
  BY <1>1, <1>8, SceneRests DEF sceneVars
<1> QED BY <1>2, <1>3, <1>4, <1>5, <1>6, <1>7, <1>8 DEF SceneNext

\* For all files, windows and sequences of keys and seeks: a scan moves playback for the user who
\* asked for it last, to the nearest change beyond; it says that there is none only where there is
\* none; and one subprocess at most scans for it (sceneseeker.lua; see SceneSeeker).
THEOREM ScansAreTrue == SceneSpec => [](ScanIsTrue /\ SceneTypeOK)
<1>1. SceneInit => SceneIInv
  <2> SUFFICES ASSUME SceneInit PROVE SceneIInv
    OBVIOUS
  <2>1. timePos \in 0 .. SceneDuration
    BY SceneAssumption DEF SceneInit, SceneAssumption
  <2>2. ScanIsTrue
    BY DEF SceneInit, ScanIsTrue, NoVerdict, NoScan
  <2> QED BY <2>1, <2>2 DEF SceneInit, SceneIInv
<1>2. SceneIInv /\ [SceneNext]_sceneVars => SceneIInv'
  BY SceneStep, SceneAssumption
<1>3. SceneIInv => ScanIsTrue /\ SceneTypeOK
  <2> SUFFICES ASSUME SceneIInv PROVE SceneTypeOK
    BY DEF SceneIInv
  <2> DEFINE own == {w \in windows : w.scan.id = active.id}
  <2>1. \A v, w \in own : v = w
    BY DEF SceneIInv
  <2>2. Cardinality(own) <= 1
    <3>1. CASE own = {}
      BY <3>1, FS_EmptySet
    <3>2. ASSUME NEW w \in own PROVE Cardinality(own) = 1
      <4>1. own = {w}
        BY <2>1
      <4> QED BY <4>1, FS_Singleton
    <3> QED BY <3>1, <3>2
  <2>3. timePos \in 0 .. SceneDuration + 2 * Epsilon
    BY SceneAssumption DEF SceneIInv, SceneAssumption, Epsilon
  <2>4. timer => active # NoScan
    BY DEF SceneIInv
  <2> QED BY <2>2, <2>3, <2>4 DEF SceneTypeOK, SceneIInv
<1> QED BY <1>1, <1>2, <1>3, PTL DEF SceneSpec

(***************************************************************************)
(* The symlink command: jumps, hooks and questions                         *)
(***************************************************************************)
Place == Spot \cup {0}

\* A rotation has each of its members once.
Circle(r) ==
  /\ r.members \subseteq Place /\ IsFiniteSet(r.members)
  /\ r.order \in Seq(Place) /\ Len(r.order) = Cardinality(r.members)
  /\ \A k, l \in 1 .. Len(r.order) : r.order[k] = r.order[l] => k = l
  /\ \A x \in Place : x \in r.members <=> \E k \in 1 .. Len(r.order) : r.order[k] = x

\* A tour goes from place to place of the rotation, and round at its end.
Round(r, t) ==
  /\ Len(t) > 1 => \A i \in 1 .. Len(t) : t[i] \in r.members
  /\ \A i, j \in 1 .. Len(t) : \A k, l \in 1 .. Len(r.order) :
       i <= j /\ j - i < Len(r.order) /\ r.order[k] = t[i] /\ r.order[l] = t[j]
       => l = k + (j - i) \/ l = k + (j - i) - Len(r.order)

SymTyped == thisfile \in Place /\ spots \subseteq Spot
Touring ==
  /\ Circle(rotation) /\ tour \in Seq(Place) /\ Round(rotation, tour)
  /\ tour # << >> => tour[Len(tour)] = thisfile

\* The hooks proceed in their order, each once; and the command runs after the last.
Asked(c) ==
  /\ c \in [flags : Flagged, next : Hook, called : SUBSET Hook, runs : {0, 1}]
  /\ IF c.runs = 0 THEN c.called = 1 .. c.next - 1 ELSE c.called = Hook
CallsAsked == calls \in Seq([flags : Flagged, next : Hook, called : SUBSET Hook, runs : {0, 1}])
              /\ \A i \in 1 .. Len(calls) : Asked(calls[i])

\* The index has been told of what is not touched.
Telling ==
  /\ replaced \subseteq agreed
  /\ \A l \in replaced : l[1] \in toldDirs \cup touchedDirs
  /\ asking = << >> => touchedDirs = {}

SymIInv == SymTyped /\ Touring /\ CallsAsked /\ Telling

\* A tour of one place goes round anything.
LEMMA OnePlace ==
  ASSUME NEW r, Circle(r), NEW x
  PROVE  Round(r, <<x>>)
<1>1. Len(<<x>>) = 1 /\ \A i \in 1 .. 1 : i = 1
  OBVIOUS
<1>2. Len(r.order) \in Nat
  BY DEF Circle
<1> QED BY <1>1, <1>2 DEF Round, Circle

\* The place after another one.
LEMMA NextPlace ==
  ASSUME NEW n \in Nat, NEW at \in 1 .. n
  PROVE  (at % n) + 1 = IF at = n THEN 1 ELSE at + 1
OBVIOUS

\* A tour goes on at the next place of its rotation.
LEMMA GoesRound ==
  ASSUME NEW r, Circle(r), NEW t \in Seq(Place), t # << >>, Round(r, t),
         NEW at \in 1 .. Len(r.order), r.order[at] = t[Len(t)],
         NEW target, target = r.order[IF at = Len(r.order) THEN 1 ELSE at + 1]
  PROVE  Round(r, Append(t, target)) /\ target \in Place
<1> DEFINE n == Len(r.order)
           m == Len(t)
           u == Append(t, target)
<1>1. n \in Nat /\ at \in 1 .. n /\ n >= 1 /\ m \in Nat /\ m >= 1
  BY DEF Circle
<1>2. /\ Len(u) = m + 1 /\ u[m + 1] = target /\ \A i \in 1 .. m : u[i] = t[i] /\ t[i] \in Place
  OBVIOUS
<1> DEFINE b == IF at = n THEN 1 ELSE at + 1
<1>3. b \in 1 .. n /\ target = r.order[b]
  BY <1>1
<1>m. \A k \in 1 .. n : r.order[k] \in Place /\ r.order[k] \in r.members
  BY DEF Circle
<1>4. target \in Place /\ target \in r.members
  BY <1>3, <1>m
<1>5. \A i \in 1 .. m : t[i] \in r.members
  <2>1. CASE m = 1
    <3>1. t[m] = r.order[at] /\ r.order[at] \in r.members
      BY <1>1, <1>m
    <3> HIDE DEF m, n
    <3> QED BY <2>1, <3>1
  <2>2. CASE m # 1
    <3>1. m > 1
      <4> HIDE DEF m, n
      <4> QED BY <1>1, <2>2
    <3> QED BY <3>1 DEF Round
  <2> QED BY <2>1, <2>2
<1>6. \A i \in 1 .. m + 1 : u[i] \in r.members
  BY <1>1, <1>2, <1>4, <1>5
<1>7. \A k, l \in 1 .. n : r.order[k] = r.order[l] => k = l
  BY DEF Circle
<1>8. \A i, j \in 1 .. m : \A k, l \in 1 .. n :
        i <= j /\ j - i < n /\ r.order[k] = t[i] /\ r.order[l] = t[j]
        => l = k + (j - i) \/ l = k + (j - i) - n
  BY DEF Round
<1>9. r.order[at] = t[m]
  OBVIOUS
<1> HIDE DEF n, m, u, b
<1>10. ASSUME NEW i \in 1 .. m + 1, NEW j \in 1 .. m + 1, NEW k \in 1 .. n, NEW l \in 1 .. n,
              i <= j, j - i < n, r.order[k] = u[i], r.order[l] = u[j]
       PROVE  l = k + (j - i) \/ l = k + (j - i) - n
  <2>1. CASE j <= m
    <3>1. i \in 1 .. m /\ j \in 1 .. m
      BY <1>1, <1>10, <2>1
    <3>2. r.order[k] = t[i] /\ r.order[l] = t[j]
      BY <1>2, <1>10, <3>1
    <3> QED BY <1>8, <1>10, <3>1, <3>2
  <2>2. CASE i = m + 1
    <3>1. j = m + 1 /\ k = l
      BY <1>1, <1>2, <1>7, <1>10, <2>2
    <3> QED BY <1>1, <2>2, <3>1
  <2>3. CASE i <= m /\ j = m + 1
    <3>1. l = b
      BY <1>2, <1>3, <1>7, <1>10, <2>3
    <3>2. m - i < n /\ i \in 1 .. m /\ m \in 1 .. m /\ i <= m /\ r.order[k] = t[i]
      BY <1>1, <1>2, <1>10, <2>3
    <3>3. at = k + (m - i) \/ at = k + (m - i) - n
      BY <1>1, <1>8, <1>9, <3>2
    <3> QED BY <1>1, <1>10, <2>3, <3>1, <3>2, <3>3 DEF b
  <2> QED BY <1>1, <2>1, <2>2, <2>3
<1>11. Round(r, u)
  BY <1>2, <1>6, <1>10 DEF Round, n
<1> QED BY <1>4, <1>11 DEF u

\* The matches are places of files, each once.
LEMMA SymMatches ==
  ASSUME VdSymAssumption, SymTyped, NEW fs
  PROVE  /\ Matches(fs) \in Seq(Spot) /\ ToSet(Matches(fs)) \subseteq Spot
         /\ Matches(fs) # << >> => Matches(fs)[1] \in Spot
<1> DEFINE S == {s \in spots : NameAt[s] \in NamesOf(fs)} \ SourcesOf(fs)
<1>1. S \in SUBSET Spot /\ Spot \in SUBSET Nat /\ IsFiniteSet(Spot)
  BY DEF SymTyped, VdSymAssumption
<1>2. Matches(fs) = IndexOrder(S)
  BY DEF Matches
<1> HIDE DEF S
<1>3. IndexOrder(S) \in Seq(S)
  BY <1>1, IndexOrdered
<1>4. IndexOrder(S) \in Seq(Spot)
  <2>1. ASSUME NEW B, NEW A \in SUBSET B, NEW q \in Seq(A) PROVE q \in Seq(B)
    OBVIOUS
  <2> QED BY <1>1, <1>3, <2>1
<1>5. ASSUME NEW q \in Seq(Spot) PROVE ToSet(q) \subseteq Spot /\ (q # << >> => q[1] \in Spot)
  BY DEF ToSet
<1> QED BY <1>2, <1>4, <1>5

\* The rotation that a jump begins is one.
LEMMA NewCircle ==
  ASSUME VdSymAssumption, NEW M \in SUBSET Spot, NEW x \in Place
  PROVE  Circle([members |-> M \cup {x}, order |-> <<x>> \o IndexOrder(M \ {x})])
<1> DEFINE T == M \ {x}
           q == IndexOrder(T)
           o == <<x>> \o q
           n == Cardinality(T)
<1>1. IsFiniteSet(Spot) /\ T \in SUBSET Spot /\ Spot \in SUBSET Nat /\ x \notin T
  BY DEF VdSymAssumption
<1>2. /\ q \in Seq(T) /\ Len(q) = n
      /\ \A i, j \in 1 .. Len(q) : q[i] = q[j] => i = j
      /\ \A y \in T : \E i \in 1 .. Len(q) : q[i] = y
  <2> HIDE DEF T
  <2> QED BY <1>1, IndexOrdered
<1>3. /\ IsFiniteSet(T) /\ n \in Nat /\ IsFiniteSet(T \cup {x})
      /\ Cardinality(T \cup {x}) = n + 1 /\ M \cup {x} = T \cup {x}
  <2>1. IsFiniteSet(T)
    BY <1>1, FS_Subset
  <2> QED BY <1>1, <2>1, FS_CardinalityType, FS_AddElement
<1> HIDE DEF T, n, q
<1>4. /\ o \in Seq(Place) /\ Len(o) = n + 1 /\ o[1] = x
      /\ \A i \in 1 .. n : o[i + 1] = q[i] /\ q[i] \in T
  <2>1. q \in Seq(Place) /\ <<x>> \in Seq(Place) /\ Len(<<x>>) = 1
    <3>1. ASSUME NEW B, NEW A \in SUBSET B, NEW r \in Seq(A) PROVE r \in Seq(B)
      OBVIOUS
    <3>2. T \in SUBSET Place
      BY <1>1 DEF Place
    <3> QED BY <1>2, <3>1, <3>2
  <2>2. o \in Seq(Place) /\ Len(o) = 1 + Len(q) /\ o[1] = x
    BY <2>1
  <2>3. \A i \in 1 .. Len(q) : o[i + 1] = q[i] /\ q[i] \in T
    BY <1>2, <2>1
  <2> QED BY <1>2, <1>3, <2>2, <2>3
<1>5. \A k \in 1 .. n + 1 : k = 1 \/ (k - 1 \in 1 .. n /\ o[k] = q[k - 1] /\ o[k] \in T)
  BY <1>3, <1>4
<1>6. \A k, l \in 1 .. n + 1 : o[k] = o[l] => k = l
  <2> SUFFICES ASSUME NEW k \in 1 .. n + 1, NEW l \in 1 .. n + 1, o[k] = o[l] PROVE k = l
    OBVIOUS
  <2>1. CASE k = 1 \/ l = 1
    BY <1>1, <1>4, <1>5, <2>1
  <2>2. CASE k # 1 /\ l # 1
    <3>1. k - 1 \in 1 .. n /\ l - 1 \in 1 .. n /\ q[k - 1] = q[l - 1]
      BY <1>5, <2>2
    <3>2. k - 1 = l - 1
      BY <1>2, <3>1
    <3> QED BY <3>2, <1>3
  <2> QED BY <2>1, <2>2
<1>7. \A y : y \in T \cup {x} <=> \E k \in 1 .. n + 1 : o[k] = y
  <2>1. ASSUME NEW y \in T PROVE \E k \in 1 .. n + 1 : o[k] = y
    <3>1. PICK i \in 1 .. n : q[i] = y
      BY <1>2
    <3>2. i + 1 \in 1 .. n + 1 /\ o[i + 1] = y
      BY <1>3, <1>4, <3>1
    <3> QED BY <3>2
  <2>2. 1 \in 1 .. n + 1
    BY <1>3
  <2> QED BY <1>4, <1>5, <2>1, <2>2
<1> HIDE DEF o
<1>8. T \cup {x} \subseteq Place
  BY <1>1 DEF Place
<1> QED BY <1>3, <1>4, <1>6, <1>7, <1>8 DEF Circle, o, q, T

\* What a sequence has is of its kind.
LEMMA OfItsKind ==
  ASSUME NEW B, NEW q \in Seq(B)
  PROVE  ToSet(q) \subseteq B /\ (q # << >> => q[1] \in B)
BY DEF ToSet

\* A sequence of two.
LEMMA TwoPlaces ==
  ASSUME NEW B, NEW x \in B, NEW y \in B
  PROVE  /\ Append(<<x>>, y) = <<x, y>> /\ <<x, y>> \in Seq(B) /\ <<x, y>> # << >>
         /\ Len(<<x, y>>) = 2 /\ <<x, y>>[2] = y
<1>1. <<x, y>> \in Seq(B) /\ Len(<<x, y>>) = 2 /\ <<x, y>>[2] = y /\ <<x, y>>[1] = x
  OBVIOUS
<1>2. <<x>> \in Seq(B) /\ Len(<<x>>) = 1 /\ <<x>>[1] = x
  OBVIOUS
<1> DEFINE p == <<x>>
           r == <<x, y>>
<1>3. p \in Seq(B) /\ Len(p) = 1 /\ p[1] = x /\ r \in Seq(B) /\ Len(r) = 2 /\ r[1] = x /\ r[2] = y
  BY <1>1, <1>2
<1> HIDE DEF p, r
<1>4. /\ Append(p, y) \in Seq(B) /\ Len(Append(p, y)) = 2 /\ Append(p, y)[1] = x
      /\ Append(p, y)[2] = y
  <2>1. ASSUME NEW v \in Seq(B)
        PROVE  /\ Append(v, y) \in Seq(B) /\ Len(Append(v, y)) = Len(v) + 1
               /\ Append(v, y)[Len(v) + 1] = y /\ \A i \in 1 .. Len(v) : Append(v, y)[i] = v[i]
    OBVIOUS
  <2>2. /\ Append(p, y) \in Seq(B) /\ Len(Append(p, y)) = 1 + 1
        /\ Append(p, y)[1 + 1] = y /\ \A i \in 1 .. 1 : Append(p, y)[i] = p[i]
    BY <1>3, <2>1
  <2>3. 1 + 1 = 2 /\ 1 \in 1 .. 1
    OBVIOUS
  <2> QED BY <1>3, <2>2, <2>3
<1>5. Append(p, y) = r
  <2>1. ASSUME NEW v \in Seq(B), NEW w \in Seq(B), Len(v) = 2, Len(w) = 2, v[1] = w[1], v[2] = w[2]
        PROVE  v = w
    <3>1. DOMAIN v = {1, 2} /\ DOMAIN w = {1, 2} /\ v = [i \in DOMAIN v |-> v[i]] /\ w = [i \in DOMAIN w |-> w[i]]
      BY <2>1
    <3>2. \A i \in {1, 2} : v[i] = w[i]
      BY <2>1
    <3> QED BY <3>1, <3>2
  <2> QED BY <1>3, <1>4, <2>1
<1>6. r # << >>
  <2>1. Len(<< >>) = 0 /\ 0 # 2
    OBVIOUS
  <2> QED BY <1>3, <2>1
<1> QED BY <1>1, <1>5, <1>6 DEF p, r

\* Where a jump goes, and the tour with it.
LEMMA SymGoes ==
  ASSUME VdSymAssumption, SymTyped, Touring, NEW matches \in Seq(Spot), matches # << >>, NEW fs,
         NEW position \in {0, 2}, GoTo(matches, fs, position)
  PROVE  thisfile' \in Place /\ Touring'
<1> DEFINE members == ToSet(matches) \cup {thisfile}
           state   == IF GoesOn(members) THEN rotation
                      ELSE [members |-> members,
                            order |-> <<thisfile>> \o IndexOrder(ToSet(matches) \ {thisfile})]
           n       == Len(state.order)
           at      == SelectInSeq(state.order, LAMBDA s : s = thisfile)
           target  == IF position > 0
                      THEN state.order[IF position < n THEN position + 1 ELSE n]
                      ELSE IF "r" \in fs THEN state.order[(at % n) + 1]
                      ELSE JumpFallback(matches)
<1>1. /\ rotation' = state /\ thisfile' = target
      /\ tour' = IF position = 0 /\ "r" \in fs /\ rotation.members = members /\ tour # <<>>
                 THEN Append(tour, target)
                 ELSE IF position = 0 /\ "r" \in fs THEN <<thisfile, target>> ELSE <<target>>
  BY DEF GoTo
<1>2. /\ thisfile \in Place /\ ToSet(matches) \in SUBSET Spot /\ matches[1] \in Place
      /\ Spot \subseteq Place
  <2>2. Spot \subseteq Place
    BY DEF Place
  <2> DEFINE q == matches
  <2>q. q \in Seq(Spot) /\ q # << >>
    OBVIOUS
  <2>3. ToSet(q) \subseteq Spot /\ q[1] \in Spot
    <3> HIDE DEF q
    <3> QED BY <2>q, OfItsKind
  <2> QED BY <2>2, <2>3 DEF SymTyped
<1>3. Circle(state) /\ thisfile \in state.members /\ state.members = members
  <2>1. CASE GoesOn(members)
    BY <2>1 DEF Touring, GoesOn
  <2>2. CASE ~GoesOn(members)
    BY <1>2, <2>2, NewCircle
  <2> QED BY <2>1, <2>2
<1>4. n \in Nat /\ state.order \in Seq(Place) /\ \E k \in 1 .. n : state.order[k] = thisfile
  <2> HIDE DEF state
  <2>1. thisfile \in state.members
    BY <1>3
  <2>2. ASSUME NEW r, Circle(r), NEW x \in Place, x \in r.members
        PROVE  Len(r.order) \in Nat /\ r.order \in Seq(Place) /\ \E k \in 1 .. Len(r.order) : r.order[k] = x
    BY <2>2 DEF Circle
  <2> HIDE DEF at, target
  <2> QED BY <1>2, <1>3, <2>1, <2>2
<1>5. at \in 1 .. n /\ state.order[at] = thisfile
  <2> HIDE DEF state
  <2> DEFINE I == {k \in 1 .. Len(state.order) : state.order[k] = thisfile}
  <2>1. I # {} /\ I \in SUBSET Int /\ 1 \in Int /\ \A k \in I : 1 <= k
    BY <1>4
  <2>2. at = Min(I)
    BY <2>1 DEF SelectInSeq
  <2>3. Min(I) \in I
    <3> HIDE DEF I
    <3> QED BY <2>1, LeastInt
  <2> QED BY <2>2, <2>3
<1> DEFINE b == IF at = n THEN 1 ELSE at + 1
<1>6. (at % n) + 1 = b /\ b \in 1 .. n
  <2> HIDE DEF at, n
  <2>1. (at % n) + 1 = IF at = n THEN 1 ELSE at + 1
    BY <1>4, <1>5, NextPlace
  <2> QED BY <1>4, <1>5, <2>1
<1>7. target \in Place
  <2>1. CASE position > 0
    <3>1. target = state.order[IF position < n THEN position + 1 ELSE n]
      BY <2>1
    <3>2. n >= 1 /\ position = 2
      BY <1>4, <2>1
    <3> HIDE DEF state, target
    <3> QED BY <1>4, <3>1, <3>2
  <2>2. CASE ~(position > 0) /\ "r" \in fs
    <3>1. target = state.order[b]
      BY <1>6, <2>2
    <3> HIDE DEF state, target, b
    <3> QED BY <1>4, <1>6, <3>1
  <2>3. CASE ~(position > 0) /\ "r" \notin fs
    <3>1. target = JumpFallback(matches)
      BY <2>3
    <3>2. JumpFallback(matches) \in Place
      <4>1. \A s \in DOMAIN TwinOf : TwinOf[s] \in Place
        BY DEF VdSymAssumption, Place
      <4>2. CASE thisfile = 0
        BY <4>2 DEF JumpFallback, Place
      <4>3. CASE thisfile # 0
        BY <1>2, <4>1, <4>3 DEF JumpFallback
      <4> QED BY <4>2, <4>3
    <3> HIDE DEF target
    <3> QED BY <3>1, <3>2
  <2> QED BY <2>1, <2>2, <2>3
<1>8. position = 0 /\ "r" \in fs => target = state.order[b]
  BY <1>6
<1> HIDE DEF state, n, at, target, members
<1>9. \A t : tour' = <<t>> => tour' \in Seq({t}) /\ tour' # << >> /\ tour'[Len(tour')] = t
  OBVIOUS
<1>10. CASE position = 0 /\ "r" \in fs /\ rotation.members = members /\ tour # << >>
  <2>1. state = rotation
    BY <1>10 DEF state, GoesOn
  <2>2. /\ tour \in Seq(Place) /\ tour # << >> /\ tour[Len(tour)] = thisfile /\ Round(rotation, tour)
        /\ Circle(rotation)
    BY <1>10 DEF Touring
  <2>3. target = rotation.order[IF at = Len(rotation.order) THEN 1 ELSE at + 1]
    BY <1>8, <1>10, <2>1 DEF n
  <2>4. at \in 1 .. Len(rotation.order) /\ rotation.order[at] = tour[Len(tour)]
    BY <1>5, <2>1, <2>2 DEF n
  <2>5. Round(rotation, Append(tour, target))
    BY <2>2, <2>3, <2>4, GoesRound
  <2>6. /\ Append(tour, target) \in Seq(Place) /\ Append(tour, target) # << >>
        /\ Append(tour, target)[Len(Append(tour, target))] = target
    BY <1>7, <2>2
  <2> QED BY <1>1, <1>7, <1>10, <2>1, <2>2, <2>5, <2>6 DEF Touring
<1>11. CASE position = 0 /\ "r" \in fs /\ ~(rotation.members = members /\ tour # << >>)
  <2>1. tour' = <<thisfile, target>> /\ rotation' = state /\ thisfile' = target
    BY <1>1, <1>11
  <2>2. Round(state, <<thisfile>>) /\ <<thisfile>> \in Seq(Place) /\ <<thisfile>> # << >>
        /\ <<thisfile>>[Len(<<thisfile>>)] = thisfile
    BY <1>2, <1>3, OnePlace
  <2>3. target = state.order[IF at = Len(state.order) THEN 1 ELSE at + 1]
    BY <1>8, <1>11 DEF n
  <2>4. at \in 1 .. Len(state.order) /\ state.order[at] = <<thisfile>>[Len(<<thisfile>>)]
    BY <1>5, <2>2 DEF n
  <2>5. Round(state, Append(<<thisfile>>, target))
    <3> DEFINE t == <<thisfile>>
    <3> HIDE DEF t
    <3>1. /\ t \in Seq(Place) /\ t # << >> /\ Round(state, t) /\ at \in 1 .. Len(state.order)
          /\ state.order[at] = t[Len(t)]
      BY <2>2, <2>4 DEF t
    <3> QED BY <1>3, <2>3, <3>1, GoesRound DEF t
  <2>6. Append(<<thisfile>>, target) = <<thisfile, target>>
    BY <1>2, <1>7, TwoPlaces
  <2>7. /\ <<thisfile, target>> \in Seq(Place) /\ <<thisfile, target>> # << >>
        /\ <<thisfile, target>>[Len(<<thisfile, target>>)] = target
    BY <1>2, <1>7, TwoPlaces
  <2> QED BY <1>3, <1>7, <2>1, <2>5, <2>6, <2>7 DEF Touring
<1>12. CASE ~(position = 0 /\ "r" \in fs)
  <2>1. tour' = <<target>> /\ rotation' = state /\ thisfile' = target
    BY <1>1, <1>12
  <2>2. Round(state, <<target>>)
    BY <1>3, OnePlace
  <2>3. <<target>> \in Seq(Place) /\ <<target>>[Len(<<target>>)] = target
    BY <1>7
  <2> QED BY <1>3, <1>7, <2>1, <2>2, <2>3 DEF Touring
<1> QED BY <1>10, <1>11, <1>12

\* A tour that is over goes round anything.
LEMMA SymEnds ==
  ASSUME Touring, rotation' = rotation, tour' = << >>
  PROVE  Touring'
<1>1. << >> \in Seq(Place) /\ Len(<< >>) = 0 /\ 1 .. 0 = {}
  OBVIOUS
<1>2. Round(rotation, << >>)
  BY <1>1 DEF Round
<1> QED BY <1>1, <1>2 DEF Touring

\* A step that leaves the cursor and the rotation alone leaves the tour as it was.
LEMMA SymStays ==
  ASSUME Touring, UNCHANGED <<thisfile, rotation, tour>>
  PROVE  Touring'
BY DEF Touring

\* A step that asks no question and answers none tells as much as was told.
LEMMA SymSilent ==
  ASSUME Telling, UNCHANGED symLinks
  PROVE  Telling'
BY DEF Telling, symLinks

\* The command, once it runs, jumps along the tour and owes nothing.
LEMMA SymRuns ==
  ASSUME VdSymAssumption, SymTyped, Touring, Telling, UNCHANGED spots,
         NEW fs, NEW position \in {0, 2}, Run(fs, position)
  PROVE  SymTyped' /\ Touring' /\ Telling'
<1> DEFINE matches == Matches(fs)
<1>1. matches \in Seq(Spot) /\ (matches # << >> => matches[1] \in Spot)
  BY SymMatches
<1>2. \/ \E what : Reports(what)
      \/ StartReplace(fs)
      \/ Dashboard(matches)
      \/ matches # << >> /\ GoTo(matches, fs, position) /\ UNCHANGED symLinks
      \/ /\ matches # << >> /\ thisfile' = matches[1] /\ tour' = << >>
         /\ UNCHANGED <<rotation, symLinks>>
  <2> HIDE DEF Reports, StartReplace, Dashboard, GoTo, symLinks
  <2> QED BY Zenon DEF Run
<1> HIDE DEF matches
<1>3. ASSUME NEW what, Reports(what) PROVE SymTyped' /\ Touring' /\ Telling'
  <2>1. UNCHANGED <<thisfile, rotation, tour>> /\ UNCHANGED symLinks
    BY <1>3 DEF Reports
  <2> QED BY <2>1, SymStays, SymSilent DEF SymTyped
<1>4. CASE StartReplace(fs)
  <2>1. /\ UNCHANGED <<thisfile, rotation, tour>>
        /\ touchedDirs' = {} /\ agreed' = {} /\ replaced' = {} /\ toldDirs' = {}
    BY <1>4 DEF StartReplace
  <2>2. Telling'
    BY <2>1 DEF Telling
  <2> QED BY <2>1, <2>2, SymStays DEF SymTyped
<1>5. CASE Dashboard(matches)
  <2>1. thisfile' = 0 /\ tour' = << >> /\ rotation' = rotation /\ UNCHANGED symLinks
    BY <1>5 DEF Dashboard
  <2> QED BY <2>1, SymEnds, SymSilent DEF SymTyped, Place
<1>6. CASE matches # << >> /\ GoTo(matches, fs, position) /\ UNCHANGED symLinks
  <2>1. thisfile' \in Place /\ Touring'
    BY <1>1, <1>6, SymGoes
  <2> QED BY <1>6, <2>1, SymSilent DEF SymTyped
<1>7. CASE /\ matches # << >> /\ thisfile' = matches[1] /\ tour' = << >>
           /\ UNCHANGED <<rotation, symLinks>>
  <2>1. rotation' = rotation /\ UNCHANGED symLinks
    BY <1>7
  <2> QED BY <1>1, <1>7, <2>1, SymEnds, SymSilent DEF SymTyped, Place
<1> QED BY <1>2, <1>3, <1>4, <1>5, <1>6, <1>7

\* What is replaced was asked about, and its directory is touched or told of.
LEMMA SymAnswers ==
  ASSUME Telling, NEW answer, Answer(answer)
  PROVE  Telling'
<1> DEFINE rest == Tail(asking)
           doing == IF answer = "a" THEN asking
                    ELSE IF answer = "y" THEN <<Head(asking)>> ELSE << >>
           done == DoneIn(leads, doing)
           touched == touchedDirs \cup {l[1] : l \in done}
           over == answer \in {"a", "q"} \/ (answer # "l" /\ rest = << >>)
<1>1. /\ asking # << >>
      /\ replaced' = replaced \cup done /\ agreed' = agreed \cup ToSet(doing)
      /\ asking' = IF over THEN << >> ELSE IF answer = "l" THEN asking ELSE rest
      /\ IF over THEN Finish(touched) ELSE touchedDirs' = touched /\ UNCHANGED toldDirs
  BY DEF Answer, Replace
<1>2. done \subseteq ToSet(doing)
  <2>1. ASSUME NEW l, NEW q PROVE DoneIn(l, q) \subseteq ToSet(q)
    BY DEF DoneIn, ToSet
  <2> QED BY <2>1
<1> HIDE DEF rest, doing, done
<1>3. CASE over
  <2>1. toldDirs' \cup touchedDirs' = toldDirs \cup touched /\ touchedDirs' = {}
    BY <1>1, <1>3 DEF Finish, Finishes
  <2>2. toldDirs \cup touched = toldDirs \cup touchedDirs \cup {l[1] : l \in done}
    OBVIOUS
  <2> QED BY <1>1, <1>2, <2>1, <2>2 DEF Telling
<1>4. CASE ~over
  <2>1. asking' # << >> /\ touchedDirs' = touched /\ toldDirs' = toldDirs
    BY <1>1, <1>4
  <2> QED BY <1>1, <1>2, <2>1 DEF Telling
<1> QED BY <1>3, <1>4

\* A step that changes one call, of a kind, leaves calls of that kind.
LEMMA OneCall ==
  ASSUME NEW S, NEW q \in Seq(S), NEW i \in 1 .. Len(q), NEW c \in S
  PROVE  /\ [q EXCEPT ![i] = c] \in Seq(S) /\ Len([q EXCEPT ![i] = c]) = Len(q)
         /\ \A k \in 1 .. Len(q) : [q EXCEPT ![i] = c][k] = IF k = i THEN c ELSE q[k]
OBVIOUS

\* The hooks are numbered from 1.
LEMMA HooksNumbered == ASSUME VdSymAssumption PROVE \E n \in Nat \ {0} : Hook = 1 .. n
<1> DEFINE n == Cardinality(Hook)
<1>1. n \in Nat /\ Hook = 1 .. n /\ Hook # {}
  BY FS_CardinalityType DEF VdSymAssumption
<1> HIDE DEF n
<1>2. n # 0
  BY <1>1
<1> QED BY <1>1, <1>2

\* A hook that proceeds is the one that was asked last.
LEMMA SymProceeds ==
  ASSUME VdSymAssumption, CallsAsked, NEW i \in DOMAIN calls, NEW h \in Hook,
         NEW position, Proceed(i, h, position)
  PROVE  CallsAsked'
<1> DEFINE c == calls[i]
           Kind == [flags : Flagged, next : Hook, called : SUBSET Hook, runs : {0, 1}]
<1>1. PICK n \in Nat \ {0} : Hook = 1 .. n
  BY HooksNumbered
<1>2. Cardinality(Hook) = n
  BY <1>1, FS_Interval
<1>3. calls \in Seq(Kind) /\ i \in 1 .. Len(calls) /\ \A k \in 1 .. Len(calls) : Asked(calls[k])
  BY DEF CallsAsked
<1>4. c \in Kind /\ Asked(c) /\ h <= c.next /\ h \notin c.called
  <2>1. h <= calls[i].next /\ h \notin calls[i].called
    BY DEF Proceed, Counts
  <2>2. calls[i] \in Kind /\ Asked(calls[i])
    <3> HIDE DEF Kind
    <3> QED BY <1>3
  <2> QED BY <2>1, <2>2
<1> HIDE DEF c, Kind
<1>5. c.runs = 0 /\ h = c.next /\ c.called = 1 .. c.next - 1
  <2>1. c.runs \in {0, 1} /\ c.next \in 1 .. n /\ h \in 1 .. n
    BY <1>1, <1>4 DEF Kind
  <2>2. c.runs = 0 /\ c.called = 1 .. c.next - 1
    BY <1>4, <2>1 DEF Asked
  <2> QED BY <1>4, <2>1, <2>2
<1>6. CASE c.next < n
  <2> DEFINE d == [c EXCEPT !.next = @ + 1, !.called = @ \cup {h}]
  <2>1. calls' = [calls EXCEPT ![i] = d]
    <3>1. calls' = [calls EXCEPT ![i].next = @ + 1, ![i].called = @ \cup {h}]
      BY <1>2, <1>6 DEF Proceed, c
    <3> QED BY <3>1, Zenon DEF c
  <2>2. d \in Kind /\ Asked(d)
    <3>1. c.next \in 1 .. n /\ c.next + 1 \in 1 .. n /\ c.called \cup {h} \in SUBSET Hook
      BY <1>1, <1>4, <1>6 DEF Kind
    <3>2. d \in Kind /\ d.runs = 0 /\ d.next = c.next + 1 /\ d.called = c.called \cup {h}
      BY <1>1, <1>4, <1>5, <3>1 DEF Kind
    <3>3. c.called \cup {h} = 1 .. d.next - 1
      BY <1>1, <1>5, <3>1, <3>2
    <3> QED BY <3>2, <3>3 DEF Asked, Kind
  <2> HIDE DEF d
  <2> QED BY <1>3, <2>1, <2>2, OneCall DEF CallsAsked, Kind
<1>7. CASE ~(c.next < n)
  <2> DEFINE d == [c EXCEPT !.runs = @ + 1, !.called = @ \cup {h}]
  <2>1. calls' = [calls EXCEPT ![i] = d]
    <3>1. calls' = [calls EXCEPT ![i].runs = @ + 1, ![i].called = @ \cup {h}]
      BY <1>2, <1>7 DEF Proceed, c
    <3> QED BY <3>1, Zenon DEF c
  <2>2. d \in Kind /\ Asked(d)
    <3>1. c.next = n /\ c.called \cup {h} = Hook
      BY <1>1, <1>4, <1>5, <1>7 DEF Kind
    <3>2. d \in Kind /\ d.runs = 1 /\ d.called = c.called \cup {h}
      <4>1. c.runs + 1 = 1
        BY <1>5
      <4>2. d = [c EXCEPT !.runs = 1, !.called = Hook]
        BY <3>1, <4>1, Zenon
      <4>3. c.flags \in Flagged /\ c.next \in Hook /\ Hook \in SUBSET Hook /\ 1 \in {0, 1}
        BY <1>4 DEF Kind
      <4>4. /\ [c EXCEPT !.runs = 1, !.called = Hook] \in Kind
            /\ [c EXCEPT !.runs = 1, !.called = Hook].runs = 1
            /\ [c EXCEPT !.runs = 1, !.called = Hook].called = Hook
        BY <1>4, <4>3 DEF Kind
      <4> QED BY <3>1, <4>2, <4>4
    <3>3. d \in [flags : Flagged, next : Hook, called : SUBSET Hook, runs : {0, 1}]
      BY <3>2 DEF Kind
    <3>4. d.runs # 0 /\ d.called = Hook
      BY <3>1, <3>2
    <3> HIDE DEF d
    <3> QED BY <3>2, <3>3, <3>4 DEF Asked
  <2> HIDE DEF d
  <2> QED BY <1>3, <2>1, <2>2, OneCall DEF CallsAsked, Kind
<1> QED BY <1>6, <1>7

\* Every step of the command, its hooks, its questions and the world around it.
LEMMA SymStep ==
  ASSUME VdSymAssumption, SymIInv, SymNext
  PROVE  SymIInv'
<1>1. ASSUME NEW fs \in Flagged, Vdsym(fs) PROVE SymIInv'
  <2>1. /\ UNCHANGED <<thisfile, rotation, tour>> /\ UNCHANGED symLinks
        /\ spots' = spots /\ thisfile' = thisfile
    BY <1>1 DEF Vdsym
  <2>2. CallsAsked'
    <3> DEFINE Kind == [flags : Flagged, next : Hook, called : SUBSET Hook, runs : {0, 1}]
    <3>1. calls' = Append(calls, NewCall(fs)) /\ calls \in Seq(Kind)
          /\ \A k \in 1 .. Len(calls) : Asked(calls[k])
      BY <1>1 DEF Vdsym, SymIInv, CallsAsked
    <3>2. NewCall(fs) \in Kind /\ Asked(NewCall(fs))
      <4>1. 1 \in Hook /\ 1 .. 0 = {} /\ 1 - 1 = 0
        BY HooksNumbered
      <4> QED BY <4>1 DEF NewCall, Asked
    <3> HIDE DEF Kind
    <3>3. ASSUME NEW c \in Kind
          PROVE  /\ Append(calls, c) \in Seq(Kind) /\ Len(Append(calls, c)) = Len(calls) + 1
                 /\ \A k \in 1 .. Len(calls) + 1 :
                      Append(calls, c)[k] = IF k = Len(calls) + 1 THEN c ELSE calls[k]
      BY <3>1
    <3>4. /\ calls' \in Seq(Kind) /\ Len(calls') = Len(calls) + 1
          /\ \A k \in 1 .. Len(calls) + 1 :
               calls'[k] = IF k = Len(calls) + 1 THEN NewCall(fs) ELSE calls[k]
      BY <3>1, <3>2, <3>3
    <3>5. \A k \in 1 .. Len(calls) + 1 : Asked(calls'[k])
      BY <3>1, <3>2, <3>4
    <3> QED BY <3>4, <3>5 DEF CallsAsked, Kind
  <2> QED BY <2>1, <2>2, SymStays, SymSilent DEF SymIInv, SymTyped
<1>2. ASSUME NEW i \in DOMAIN calls, NEW h \in Hook, NEW position \in {0, 2}, Proceed(i, h, position)
      PROVE  SymIInv'
  <2>1. CallsAsked'
    BY <1>2, SymProceeds DEF SymIInv
  <2>2. UNCHANGED spots
    BY <1>2 DEF Proceed
  <2>3. CASE calls[i].next < Cardinality(Hook)
    <3>1. UNCHANGED <<thisfile, rotation, tour>> /\ UNCHANGED symLinks
      BY <1>2, <2>3 DEF Proceed
    <3> QED BY <2>1, <2>2, <3>1, SymStays, SymSilent DEF SymIInv, SymTyped
  <2>4. CASE ~(calls[i].next < Cardinality(Hook))
    <3>1. Run(calls[i].flags, position)
      BY <1>2, <2>4 DEF Proceed
    <3> QED BY <2>1, <2>2, <3>1, SymRuns DEF SymIInv
  <2> QED BY <2>3, <2>4
<1>3. ASSUME NEW answer, Answer(answer) PROVE SymIInv'
  <2>1. UNCHANGED <<thisfile, rotation, tour>> /\ UNCHANGED <<spots, calls, thisfile>>
    BY <1>3 DEF Answer
  <2> QED BY <1>3, <2>1, SymAnswers, SymStays DEF SymIInv, SymTyped, CallsAsked
<1>4. ASSUME NEW s \in Spot, MoveCursor(s) PROVE SymIInv'
  <2>1. /\ s \in spots /\ thisfile' = s /\ tour' = << >> /\ rotation' = rotation
        /\ UNCHANGED <<spots, calls>> /\ UNCHANGED symLinks
    BY <1>4 DEF MoveCursor
  <2> QED BY <2>1, SymEnds, SymSilent DEF SymIInv, SymTyped, CallsAsked, Place
<1>5. ASSUME NEW s \in Spot, FileChanges(s) PROVE SymIInv'
  <2>1. /\ spots' \subseteq spots \cup {s} /\ tour' = << >> /\ rotation' = rotation
        /\ UNCHANGED <<thisfile, calls>> /\ UNCHANGED symLinks
    BY <1>5 DEF FileChanges
  <2> QED BY <2>1, SymEnds, SymSilent DEF SymIInv, SymTyped, CallsAsked
<1>6. CASE Yank
  <2>1. UNCHANGED <<thisfile, rotation, tour>> /\ UNCHANGED <<spots, calls, thisfile>>
        /\ UNCHANGED symLinks
    BY <1>6 DEF Yank
  <2> QED BY <2>1, SymStays, SymSilent DEF SymIInv, SymTyped, CallsAsked
<1>7. ASSUME NEW l \in Backlink, LinkChanges(l) PROVE SymIInv'
  <2>1. /\ UNCHANGED <<thisfile, rotation, tour>> /\ UNCHANGED <<spots, calls, thisfile>>
        /\ UNCHANGED <<asking, touchedDirs, toldDirs, agreed, replaced>>
    BY <1>7 DEF LinkChanges
  <2> QED BY <2>1, SymStays DEF SymIInv, SymTyped, CallsAsked, Telling
<1> QED BY <1>1, <1>2, <1>3, <1>4, <1>5, <1>6, <1>7 DEF SymNext

\* What is invariant is what the command promises.
LEMMA SymPromises ==
  ASSUME SymIInv
  PROVE  VdsymKeepsItsWord
<1>1. RotationVisitsAll
  <2> DEFINE o == rotation.order
             n == Len(o)
  <2>1. /\ n \in Nat /\ n = Cardinality(rotation.members) /\ tour \in Seq(Place)
        /\ \A x \in Place : x \in rotation.members => \E k \in 1 .. n : o[k] = x
    BY DEF SymIInv, Touring, Circle
  <2>2. /\ Len(tour) > 1 => \A i \in 1 .. Len(tour) : tour[i] \in rotation.members
        /\ \A i, j \in 1 .. Len(tour) : \A k, l \in 1 .. n :
             i <= j /\ j - i < n /\ o[k] = tour[i] /\ o[l] = tour[j]
             => l = k + (j - i) \/ l = k + (j - i) - n
    BY DEF SymIInv, Touring, Round
  <2>3. \A i \in 1 .. Len(tour) : tour[i] \in Place
    BY <2>1
  <2> HIDE DEF o, n
  <2>4. ASSUME NEW i \in 1 .. Len(tour), NEW j \in 1 .. Len(tour), i < j, j - i < n,
               tour[i] = tour[j]
        PROVE  FALSE
    <3>1. Len(tour) > 1 /\ Len(tour) \in Nat
      BY <2>1, <2>4
    <3>2. PICK k \in 1 .. n : o[k] = tour[i]
      BY <2>1, <2>2, <2>3, <3>1
    <3>3. k = k + (j - i) \/ k = k + (j - i) - n
      BY <2>2, <2>4, <3>2
    <3> QED BY <2>1, <2>4, <3>3
  <2> QED BY <2>1, <2>4 DEF RotationVisitsAll
<1>2. HooksAgree
  BY DEF SymIInv, CallsAsked, Asked, HooksAgree
<1>3. ReplacedIsTold
  BY DEF SymIInv, Telling, ReplacedIsTold
<1> QED BY <1>1, <1>2, <1>3 DEF VdsymKeepsItsWord

\* Jumps with -r come to every place of the name before they come to one again; a
\* command runs at most once, after all hooks let it; and only links that were
\* agreed to are replaced, all of them told to the index once the questions end.
THEOREM VdsymIsTrue == SymSpec => []VdsymKeepsItsWord
<1>1. SymInit => SymIInv
  <2> SUFFICES ASSUME SymInit PROVE SymIInv
    OBVIOUS
  <2>1. << >> \in Seq(Place) /\ Len(<< >>) = 0 /\ 1 .. 0 = {} /\ DOMAIN << >> = {}
    OBVIOUS
  <2>2. Circle(NoRotation)
    BY <2>1, FS_EmptySet DEF Circle, NoRotation
  <2>3. Round(NoRotation, << >>)
    BY <2>1 DEF Round
  <2>4. Touring
    BY <2>1, <2>2, <2>3 DEF SymInit, Touring
  <2>5. CallsAsked
    BY DEF SymInit, CallsAsked
  <2> QED BY <2>4, <2>5 DEF SymInit, SymIInv, SymTyped, Telling, Place
<1>2. SymIInv /\ [SymNext]_symVars => SymIInv'
  <2> SUFFICES ASSUME SymIInv, [SymNext]_symVars PROVE SymIInv'
    OBVIOUS
  <2>1. CASE SymNext
    BY <2>1, SymStep, VdSymAssumption
  <2>2. CASE UNCHANGED symVars
    BY <2>2 DEF symVars, SymIInv, SymTyped, Touring, CallsAsked, Telling
  <2> QED BY <2>1, <2>2
<1> QED BY <1>1, <1>2, SymPromises, PTL DEF SymSpec
=============================================================================

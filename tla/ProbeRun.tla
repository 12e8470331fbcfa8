------------------------------ MODULE ProbeRun ------------------------------
(***************************************************************************)
(* src/ranger/plugins/vdprobe.py as a program: it scans a directory, or    *)
(* takes paths from its input, looks up every file, itself as long as that *)
(* is quick and then with forked workers, asks mediainfo about the rest in *)
(* batches, and prints a line per media file.  Files change meanwhile.     *)
(* (The cache between its lookups and those of ranger is in ProbeCache.)   *)
(* A verdict stands for the content it was read from: <<inode, stamp>>.    *)
(***************************************************************************)
EXTENDS Integers, Sequences, FiniteSets, SequencesExt

CONSTANTS
  Listing,            \* [name -> [in, kind, tag, ino, media]]: what is below the scanned root
  Sorted,             \* its names in the order of the alphabet
  ScanRoot, AnimRoots, \* the root; and which are, or are below, ANIM_ROOT
  Inputs,             \* lists of paths that may come on the standard input
  Workers, ParMin, Batch, \* WORKERS, PAR_MIN, and how many files mediainfo is asked about at once
  MaxRewrites, MaxDeaths \* bounds: files written to or removed; workers and mediainfos that fail
ASSUME RunAssumption ==
  /\ ToSet(Sorted) = DOMAIN Listing /\ IsInjective(Sorted)
  /\ Workers \in Nat \ {0} /\ ParMin \in Nat \ {0} /\ Batch \in Nat \ {0}
  /\ \A f \in DOMAIN Listing : /\ Listing[f].kind \in {"dir", "file"}
                               /\ Listing[f].tag \in {"", "-pics", "-anim", "webp", "part"}
                               /\ Listing[f].media \in {"native", "odd", "none"}

VARIABLES
  there, stampAt,     \* the disk: the names that are there, [inode -> Nat]
  rowsStored,         \* the media store: [inode -> <<>> or <<[stamp, verdict]>>]; flushed at the end
  rowsHeld,           \* _mem, the same
  at,                 \* where main is
  scanning,           \* scan's stack: [dir, keep]
  listed, statedAs,   \* paths; stated: per path <<>> or <<[ino, stamp]>>
  outs, deferred,     \* out, _defer: [path, ino, stamp]
  kids,               \* per worker: [todo, out, new, dfr]
  printed,            \* the lines: <<path, verdict>>
  disturbed,            \* observed: the inodes written to or removed since the start
  rewrites, deaths    \* counted for the bounds
diskVars == <<there, stampAt, rowsStored>>
runVars == <<there, stampAt, rowsStored, rowsHeld, at, scanning, listed, statedAs, outs, deferred,
             kids, printed, disturbed, rewrites, deaths>>

Inodes    == {Listing[f].ino : f \in {g \in DOMAIN Listing : Listing[g].kind = "file"}}
FilesThere == {f \in there : Listing[f].kind = "file"}
Lesser(a, b) == IF a < b THEN a ELSE b
None      == << >>

-----------------------------------------------------------------------------
(* Files: written to, or removed *)

Rewrites(i) ==
  /\ at # "done" /\ rewrites < MaxRewrites /\ rewrites' = rewrites + 1 /\ disturbed' = disturbed \cup {i}
  /\ \/ stampAt' = [stampAt EXCEPT ![i] = @ + 1] /\ UNCHANGED there
     \/ there' = {f \in there : Listing[f].ino # i} /\ UNCHANGED stampAt
  /\ UNCHANGED <<rowsStored, rowsHeld, at, scanning, listed, statedAs, outs, deferred, kids,
                 printed, deaths>>
StatNow(p)    == IF p \in FilesThere THEN <<[ino |-> Listing[p].ino, stamp |-> stampAt[Listing[p].ino]]>>
                 ELSE None
VerdictOf(p)  == IF p \in FilesThere /\ Listing[p].media # "none"
                 THEN <<Listing[p].ino, stampAt[Listing[p].ino]>> ELSE None

-----------------------------------------------------------------------------
(* scan, _level *)

InFolder(d) == SelectSeq(Sorted, LAMBDA f : f \in there /\ Listing[f].in = d)
KeptDir(t, f)  == t.keep \/ Listing[f].tag = "-anim" \/ f \in AnimRoots
KeptFile(t, f) == Listing[f].tag # "part" /\ (t.keep \/ Listing[f].tag # "webp")
ScanLevel ==
  /\ at = "scan" /\ scanning # << >>
  /\ LET t == Last(scanning)
         subs  == SelectSeq(InFolder(t.dir), LAMBDA f : /\ Listing[f].kind = "dir"
                                                        /\ (KeptDir(t, f) \/ Listing[f].tag # "-pics"))
         files == SelectSeq(InFolder(t.dir), LAMBDA f : Listing[f].kind = "file" /\ KeptFile(t, f))
     IN /\ scanning' = Front(scanning) \o [k \in DOMAIN subs |-> [dir |-> subs[k], keep |-> KeptDir(t, subs[k])]]
        /\ listed' = listed \o files
  /\ UNCHANGED <<diskVars, rowsHeld, at, statedAs, outs, deferred, kids, printed, disturbed,
                 rewrites, deaths>>

-----------------------------------------------------------------------------
(* _prime, resolve, lookup *)

Prime ==
  /\ at = "scan" /\ scanning = << >> /\ at' = "resolve"
  /\ statedAs' = [k \in DOMAIN listed |-> StatNow(listed[k])]
  /\ UNCHANGED <<diskVars, rowsHeld, scanning, listed, outs, deferred, kids, printed, disturbed,
                 rewrites, deaths>>

\* lookup with a stat: remembered, read now, or left for mediainfo
Hit(rows, s)  == rows[s.ino] # None /\ rows[s.ino][1].stamp = s.stamp
LookedUp(p, stat, rows) ==
  CASE stat = None -> [out |-> None, new |-> rows, dfr |-> << >>]
    [] stat # None /\ Hit(rows, stat[1]) ->
         [out |-> rows[stat[1].ino][1].verdict, new |-> rows, dfr |-> << >>]
    [] stat # None /\ ~Hit(rows, stat[1]) /\ p \in FilesThere /\ Listing[p].media = "odd" ->
         [out |-> None, new |-> rows, dfr |-> <<[path |-> p, ino |-> stat[1].ino, stamp |-> stat[1].stamp]>>]
    [] OTHER ->
         [out |-> VerdictOf(p), dfr |-> << >>,
          new |-> [rows EXCEPT ![stat[1].ino] = <<[stamp |-> stat[1].stamp, verdict |-> VerdictOf(p)]>>]]
NextPath == listed[Len(outs) + 1]
ResolveNext ==
  LET r == LookedUp(NextPath, statedAs[Len(outs) + 1], rowsHeld) IN
  /\ at = "resolve" /\ Len(outs) < Len(listed)
  /\ outs' = Append(outs, r.out) /\ rowsHeld' = r.new /\ deferred' = deferred \o r.dfr
  /\ UNCHANGED <<diskVars, at, scanning, listed, statedAs, kids, printed, disturbed, rewrites,
                 deaths>>

-----------------------------------------------------------------------------
(* _parallel *)

\* Slow, and enough left: the rest is divided, rounded up.
ShareDown(n) == n \div Workers
Share(n)     == (n + Workers - 1) \div Workers
Chunk(rest, k) == SubSeq(rest, (k - 1) * Share(Len(rest)) + 1, Lesser(k * Share(Len(rest)), Len(rest)))
Fork ==
  LET rest == SubSeq(listed, Len(outs) + 1, Len(listed)) IN
  /\ at = "resolve" /\ outs # << >> /\ Len(rest) >= ParMin /\ Workers > 1 /\ at' = "wait"
  /\ kids' = [k \in 1 .. Workers |-> [todo |-> Chunk(rest, k), out |-> << >>, rows |-> rowsStored, dfr |-> << >>]]
  /\ UNCHANGED <<diskVars, rowsHeld, scanning, listed, statedAs, outs, deferred, printed, disturbed,
                 rewrites, deaths>>
\* A worker takes its own stats, and starts with the rows that are stored.
Work(k) ==
  /\ at = "wait" /\ kids[k].todo # << >>
  /\ LET p == Head(kids[k].todo)
         r == LookedUp(p, StatNow(p), kids[k].rows)
     IN kids' = [kids EXCEPT ![k] = [todo |-> Tail(@.todo), out |-> Append(@.out, r.out), rows |-> r.new,
                                     dfr |-> @.dfr \o r.dfr]]
  /\ UNCHANGED <<diskVars, rowsHeld, at, scanning, listed, statedAs, outs, deferred, printed,
                 disturbed, rewrites, deaths>>
\* What the first worker found is taken when it has ended; rows only of files that are as they
\* were, at a path of its share.
Taken(kid, paths) ==
  [i \in Inodes |->
     IF kid.rows[i] # None /\ \E k \in DOMAIN paths :
          StatNow(paths[k]) = <<[ino |-> i, stamp |-> kid.rows[i][1].stamp]>>
     THEN kid.rows[i] ELSE rowsHeld[i]]
Collect ==
  LET kid   == Head(kids)
      paths == SubSeq(listed, Len(outs) + 1, Len(outs) + Len(kid.out))
  IN /\ at = "wait" /\ kids # << >> /\ kid.todo = << >> /\ kids' = Tail(kids)
     /\ outs' = outs \o kid.out /\ deferred' = deferred \o kid.dfr /\ rowsHeld' = Taken(kid, paths)
     /\ UNCHANGED <<diskVars, at, scanning, listed, statedAs, printed, disturbed, rewrites, deaths>>
\* "worker failed; nothing written"
WorkerDies ==
  /\ at = "wait" /\ kids # << >> /\ deaths < MaxDeaths /\ deaths' = deaths + 1 /\ at' = "done"
  /\ UNCHANGED <<diskVars, rowsHeld, scanning, listed, statedAs, outs, deferred, kids, printed,
                 disturbed, rewrites>>

-----------------------------------------------------------------------------
(* _mediainfo_batch, and the lines *)

\* What was deferred under this path is shown wherever the path is.
Answered(part) ==
  {d \in ToSet(part) : StatNow(d.path) = <<[ino |-> d.ino, stamp |-> d.stamp]>>}
AllLooked == kids = << >> /\ (at = "wait" \/ (at = "resolve" /\ Len(outs) = Len(listed)))
AskBatch ==
  LET part == SubSeq(deferred, 1, Lesser(Batch, Len(deferred))) IN
  /\ AllLooked /\ deferred # << >>
  /\ deferred' = SubSeq(deferred, Len(part) + 1, Len(deferred))
  /\ outs' = [k \in DOMAIN outs |-> IF listed[k] \in {d.path : d \in Answered(part)}
                                    THEN VerdictOf(listed[k]) ELSE outs[k]]
  /\ rowsHeld' = [i \in Inodes |-> IF \E d \in Answered(part) : d.ino = i
                                   THEN <<[stamp |-> stampAt[i], verdict |-> <<i, stampAt[i]>>]>>
                                   ELSE rowsHeld[i]]
  /\ UNCHANGED <<diskVars, at, scanning, listed, statedAs, kids, printed, disturbed, rewrites,
                 deaths>>
NoMediainfo ==
  /\ AllLooked /\ deferred # << >>
  /\ deaths < MaxDeaths /\ deaths' = deaths + 1 /\ deferred' = << >>
  /\ UNCHANGED <<diskVars, rowsHeld, at, scanning, listed, statedAs, outs, kids, printed, disturbed,
                 rewrites>>
PrintLines ==
  /\ AllLooked /\ deferred = << >> /\ at' = "done"
  /\ printed' = SelectSeq([k \in DOMAIN outs |-> <<listed[k], outs[k]>>], LAMBDA l : l[2] # None)
  /\ UNCHANGED <<diskVars, rowsHeld, scanning, listed, statedAs, outs, deferred, kids, disturbed,
                 rewrites, deaths>>

RunInit ==
  /\ there = DOMAIN Listing /\ stampAt = [i \in Inodes |-> 1]
  /\ \E known \in [Inodes -> {0, 1, 2}] :  \* nothing, what was there once, what is there
       /\ \A i \in Inodes : (\A f \in DOMAIN Listing : Listing[f].ino = i => Listing[f].media = "none")
                           => known[i] = 0
       /\ rowsHeld = [i \in Inodes |-> IF known[i] = 0 THEN None
                                       ELSE <<[stamp |-> known[i] - 1, verdict |-> <<i, known[i] - 1>>]>>]
  /\ rowsStored = rowsHeld /\ at = "scan"
  /\ \/ listed \in Inputs /\ scanning = << >>
     \/ listed = << >> /\ scanning = <<[dir |-> ScanRoot, keep |-> ScanRoot \in AnimRoots]>>
  /\ statedAs = << >> /\ outs = << >> /\ deferred = << >> /\ kids = << >> /\ printed = << >>
  /\ disturbed = {} /\ rewrites = 0 /\ deaths = 0
RunNext ==
  \/ \E i \in Inodes : Rewrites(i)
  \/ ScanLevel \/ Prime \/ ResolveNext \/ Fork \/ Collect \/ WorkerDies \/ AskBatch \/ NoMediainfo \/ PrintLines
  \/ \E k \in DOMAIN kids : Work(k)
RunSpec == RunInit /\ [][RunNext]_runVars

-----------------------------------------------------------------------------
(* Properties *)

\* When the program ends, and no worker or mediainfo failed, there is a line for every media file
\* that stood still, as often and in the order it was listed, with what is in it; and of a file
\* that was written to or removed meanwhile at most something that was in it then.  A scan has listed
\* every file once that is not below a "-pics" directory, webp images only below an animated one,
\* and all that is below an animated one.
Above[f \in DOMAIN Listing] ==
  IF Listing[f].in = ScanRoot THEN {} ELSE {Listing[f].in} \cup Above[Listing[f].in]
Animated(ds) == ScanRoot \in AnimRoots \/ \E d \in ds : Listing[d].tag = "-anim" \/ d \in AnimRoots
Wanted == {f \in DOMAIN Listing :
             /\ Listing[f].kind = "file" /\ Listing[f].tag # "part"
             /\ Listing[f].tag = "webp" => Animated(Above[f])
             /\ \A d \in Above[f] : Listing[d].tag = "-pics" => Animated(Above[d] \cup {d})}
AllIsPrinted ==
  at = "done" /\ deaths = 0 =>
    LET quiet(s) == SelectSeq(s, LAMBDA p : Listing[p].ino \notin disturbed)
        lines    == [k \in DOMAIN printed |-> printed[k][1]]
    IN /\ listed \in Inputs \/ (ToSet(quiet(listed)) = {f \in Wanted : Listing[f].ino \notin disturbed}
                               /\ IsInjective(listed))
       /\ quiet(lines) = SelectSeq(quiet(listed), LAMBDA p : /\ Listing[p].kind = "file"
                                                            /\ Listing[p].media # "none")
       /\ \A k \in DOMAIN printed :
            LET v == printed[k][2]
                i == Listing[printed[k][1]].ino
            IN v[1] = i /\ v[2] \in 1 .. stampAt[i]
=============================================================================

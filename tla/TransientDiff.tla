---------------------------- MODULE TransientDiff ----------------------------
(***************************************************************************)
(* src/git/rev/transient_diff.py: analyse() walks the commits of a feature *)
(* branch and gives every line an identity, None for one of the base and a *)
(* lineage for one born on the branch.  Lines keep their identity through  *)
(* similar edits, moves and exact re-additions; lineages that are gone at  *)
(* the tip are reported with their last removal.                           *)
(*                                                                         *)
(* A commit is a set of changed files with their hunks, as git diff        *)
(* reports them; the walk over them is one action, because nothing runs    *)
(* beside it.  Texts are model values with their likeness (Score).  Lines  *)
(* count from 1.                                                           *)
(***************************************************************************)
EXTENDS Integers, FiniteSets, Sequences, SequencesExt

CONSTANTS
  Path,            \* file names, numbered in their order
  Text,            \* lines
  Score(_, _),     \* likeness of two lines: 0 is below 0.72
  Informative,     \* the lines that are long and distinctive by themselves
  FirstLine,       \* what Path 1 holds at the merge base; the others are absent
  MaxLines,        \* bound: lines of a file
  MaxCommits,      \* bound: commits of the branch
  MaxMerges        \* bound: merges among them

ASSUME TransientAssumption ==
  /\ Path \subseteq Nat /\ 1 \in Path /\ Informative \subseteq Text
  /\ FirstLine \in Text /\ MaxLines \in Nat /\ MaxCommits \in Nat

VARIABLES
  files,      \* the files at the commit reached: their lines with identities
  baseGone, featureGone,   \* tombstones of each path
  removals,       \* removals of lineages, in their order
  born,       \* the lineages so far
  commits     \* one Boolean each: a merge commit?
tdVars == <<files, baseGone, featureGone, removals, born, commits>>

Base == [commit |-> 0, path |-> 0, line |-> 0]   \* the identity None
Line(t, id) == [text |-> t, id |-> id]
Absent == <<[text |-> "absent", id |-> Base]>>   \* no such file

\* a line that goes, one that comes, what is kept of the former, and the loss of a lineage
RemovedLine(p, i, l)  == [path |-> p, line |-> i, text |-> l.text, id |-> l.id]
AddedLine(p, k, l)    == [path |-> p, line |-> k, text |-> l.text]
BaselineTombstone(r)  == [line |-> r.line, text |-> r.text]
FeatureTombstone(r)   == [line |-> r.line, text |-> r.text, id |-> r.id]
LostLine(r, n)        == [id |-> r.id, commit |-> n, path |-> r.path, line |-> r.line]

\* Two commits have passed: the first added a line below the only one of
\* Path 1, the second removed it.
TdInit ==
  LET id == [commit |-> 1, path |-> 1, line |-> 2]
      gone == RemovedLine(1, 2, Line(FirstLine, id))
  IN /\ files = [p \in Path |-> IF p = 1 THEN <<Line(FirstLine, Base)>> ELSE Absent]
     /\ baseGone = [p \in Path |-> <<>>]
     /\ featureGone = [p \in Path |-> IF p = 1
                         THEN <<FeatureTombstone(gone)>> ELSE <<>>]
     /\ removals = <<LostLine(gone, 2)>>
     /\ born = {id} /\ commits = <<FALSE, FALSE>>

-----------------------------------------------------------------------------
(* In-place edits: carry_similar_replacements and transition *)

\* lexicographic order of tuples of numbers of one length
RECURSIVE Before(_, _)
Before(a, b) == /\ a # <<>>
                /\ \/ Head(a) < Head(b)
                   \/ Head(a) = Head(b) /\ Before(Tail(a), Tail(b))
Last1(S) == CHOOSE x \in S : \A y \in S : x = y \/ Before(y, x)

\* pairs <<old, new>> of a hunk, the most similar first, no line twice
RECURSIVE Pairs(_)
Pairs(cands) ==
  IF cands = {} THEN {}
  ELSE LET best == Last1(cands)
       IN {<<best[2], best[3]>>} \cup Pairs({c \in cands : c[2] # best[2] /\ c[3] # best[3]})

Carried(old, h) ==
  Pairs({c \in {<<Score(old[i].text, h.new[k]), i, k>> :
                  i \in h.start + 1 .. h.start + h.count, k \in DOMAIN h.new} :
           c[1] > 0 /\ old[c[2]].id # Base})

\* the new lines of one hunk, with the identities of those they replace
HunkLines(old, h) ==
  LET pairs == Carried(old, h)
  IN [k \in DOMAIN h.new |->
        IF \E i \in DOMAIN old : <<i, k>> \in pairs
        THEN [text |-> h.new[k], id |-> old[CHOOSE i \in DOMAIN old : <<i, k>> \in pairs].id,
              fresh |-> FALSE]
        ELSE [text |-> h.new[k], id |-> Base, fresh |-> TRUE]]

Kept(old, i, j) == [k \in 1 .. (j - i) |-> [text |-> old[i + k].text, id |-> old[i + k].id,
                                           fresh |-> FALSE]]

\* the file after its hunks
Transition(old, hunks) ==
  LET after(i) == IF i = 0 THEN 0 ELSE hunks[i].start + hunks[i].count
      part(i)  == Kept(old, after(i - 1), hunks[i].start) \o HunkLines(old, hunks[i])
  IN FlattenSeq([i \in DOMAIN hunks |-> part(i)]) \o Kept(old, after(Len(hunks)), Len(old))

RemovedLines(old, hunks) ==
  UNION {{i \in hunks[n].start + 1 .. hunks[n].start + hunks[n].count :
            \A pair \in Carried(old, hunks[n]) : pair[1] # i} : n \in DOMAIN hunks}

-----------------------------------------------------------------------------
(* Moves: carry_confident_moves *)

\* runs of neighboring lines of one file, as <<path, first line, length>>
Groups(lines) ==
  {g \in {<<l.path, l.line, n>> : l \in lines, n \in 1..MaxLines} :
     LET has(i) == \E l \in lines : l.path = g[1] /\ l.line = i
     IN /\ \A i \in g[2] .. g[2] + g[3] - 1 : has(i)
        /\ ~has(g[2] - 1) /\ ~has(g[2] + g[3])}

TextAt(lines, p, i) == (CHOOSE l \in lines : l.path = p /\ l.line = i).text
Texts(lines, p, i, n) == [k \in 1..n |-> TextAt(lines, p, i + k - 1)]

\* difflib's matching blocks of two sequences: the longest one, the first of
\* them in a and then in b, and so on to both sides of it
RECURSIVE Blocks(_, _, _, _, _, _)
Blocks(a, al, ah, b, bl, bh) ==
  LET all == {<<n, -i, -j>> : n \in 1..MaxLines, i \in al..ah, j \in bl..bh}
      found == {m \in all : /\ m[1] - m[2] - 1 <= ah /\ m[1] - m[3] - 1 <= bh
                            /\ \A k \in 0 .. m[1] - 1 : a[k - m[2]] = b[k - m[3]]}
  IN IF found = {} THEN {}
     ELSE LET m == Last1(found)
              n == m[1]
              i == -m[2]
              j == -m[3]
          IN {<<n, i, j>>} \cup Blocks(a, al, i - 1, b, bl, j - 1)
                           \cup Blocks(a, i + n, ah, b, j + n, bh)

ConfidentMoveKey(key) == \E i \in DOMAIN key : key[i] \in Informative

Occurrences(lines, key) ==
  Cardinality({<<g, i>> \in Groups(lines) \X (1..MaxLines) :
     i + Len(key) - 1 <= g[3] /\ Texts(lines, g[1], g[2] + i - 1, Len(key)) = key})

\* blocks that occur once on either side, the longest first, no line twice;
\* as <<size, from path, from line, to path, to line>>
RECURSIVE Consumed(_)
Consumed(cands) ==
  IF cands = {} THEN {}
  ELSE LET best == Last1(cands)
           clash(c) == \/ c[2] = best[2] /\ c[3] < best[3] + best[1] /\ best[3] < c[3] + c[1]
                       \/ c[4] = best[4] /\ c[5] < best[5] + best[1] /\ best[5] < c[5] + c[1]
       IN {best} \cup Consumed({c \in cands : ~clash(c)})

Moves(gone, new) ==
  LET blocks(r, a) ==
        {<<m[1], r[1], r[2] + m[2] - 1, a[1], a[2] + m[3] - 1>> :
           m \in Blocks(Texts(gone, r[1], r[2], r[3]), 1, r[3],
                        Texts(new, a[1], a[2], a[3]), 1, a[3])}
      cands == UNION {blocks(r, a) : r \in Groups(gone), a \in Groups(new)}
      key(c) == Texts(gone, c[2], c[3], c[1])
  IN Consumed({c \in cands : /\ ConfidentMoveKey(key(c))
                             /\ Occurrences(gone, key(c)) = 1
                             /\ Occurrences(new, key(c)) = 1})

-----------------------------------------------------------------------------
(* One commit: the loop body of analyse() *)

\* A bug for the runs to find: a tombstone that was used stays.
AllRemain(seq, used) == seq

\* the tombstones but those at the places in used
Remaining(seq, used) ==
  LET at == SetToSortSeq(DOMAIN seq \ used, <)
  IN [i \in DOMAIN at |-> seq[at[i]]]

Commit(merge, changes) ==
  LET number  == Len(commits) + 1
      old(ch) == IF ch.old = 0 THEN <<>> ELSE files[ch.old]
      dest(ch) == IF ch.new = 0 THEN ch.old ELSE ch.new
      lines   == [ch \in changes |-> Transition(old(ch), ch.hunks)]
      removed == UNION {{RemovedLine(dest(ch), i, old(ch)[i]) :
                          i \in RemovedLines(old(ch), ch.hunks)} : ch \in changes}
      added   == UNION {{AddedLine(dest(ch), k, lines[ch][k]) :
                          k \in {x \in DOMAIN lines[ch] : lines[ch][x].fresh}} : ch \in changes}
      moves   == Moves(removed, added)
      moved(r) == \E m \in moves : m[2] = r.path /\ r.line \in m[3] .. m[3] + m[1] - 1
      movesTo(a) == {m \in moves : m[4] = a.path /\ a.line \in m[5] .. m[5] + m[1] - 1}
      stays   == {a \in added : movesTo(a) = {}}
      matches(a, t) == t.line = a.line /\ t.text = a.text
      first(seq, a) == SelectInSeq(seq, LAMBDA t : matches(a, t))
      feature(a) == first(featureGone[a.path], a)
      base(a) == IF feature(a) = 0 THEN first(baseGone[a.path], a) ELSE 0
      identity(a) ==
        IF movesTo(a) # {}
        THEN LET m == CHOOSE m \in movesTo(a) : TRUE
             IN (CHOOSE r \in removed : r.path = m[2] /\ r.line = m[3] + a.line - m[5]).id
        ELSE IF feature(a) # 0 THEN featureGone[a.path][feature(a)].id
        ELSE IF base(a) # 0 \/ merge THEN Base
        ELSE [commit |-> number, path |-> a.path, line |-> a.line]
      result(ch) == [k \in DOMAIN lines[ch] |->
        Line(lines[ch][k].text,
             IF lines[ch][k].fresh
             THEN identity(AddedLine(dest(ch), k, lines[ch][k]))
             ELSE lines[ch][k].id)]
      inOrder(S) == SetToSortSeq(S, LAMBDA x, y : Before(<<x.path, x.line>>, <<y.path, y.line>>))
      losses  == inOrder({r \in removed : ~moved(r) /\ r.id # Base})
      bases   == inOrder({r \in removed : ~moved(r) /\ r.id = Base})
      of(seq, p) == SelectSeq(seq, LAMBDA r : r.path = p)
      features(p) == LET l == of(losses, p) IN [i \in DOMAIN l |-> FeatureTombstone(l[i])]
      baselines(p) == LET l == of(bases, p) IN [i \in DOMAIN l |-> BaselineTombstone(l[i])]
      usedFeature(p) == {feature(a) : a \in {x \in stays : x.path = p /\ feature(x) # 0}}
      usedBase(p) == {base(a) : a \in {x \in stays : x.path = p /\ base(x) # 0}}
  IN /\ files' = [p \in Path |->
          IF \E ch \in changes : ch.new = p THEN result(CHOOSE ch \in changes : ch.new = p)
          ELSE IF \E ch \in changes : ch.old = p THEN Absent ELSE files[p]]
     /\ featureGone' = [p \in Path |-> Remaining(featureGone[p], usedFeature(p)) \o features(p)]
     /\ baseGone' = [p \in Path |-> Remaining(baseGone[p], usedBase(p)) \o baselines(p)]
     /\ removals' = removals \o [i \in DOMAIN losses |-> LostLine(losses[i], number)]
     /\ born' = born \cup ({identity(a) : a \in added} \ {Base})
     /\ commits' = Append(commits, merge)

\* return of analyse(): the last removals of the lineages that are not alive
AliveAtTip == {files[p][i].id : <<p, i>> \in {x \in Path \X (1..MaxLines) : x[2] \in DOMAIN files[x[1]]}}
Reported == SelectSeq(removals, LAMBDA e : /\ e.id \notin AliveAtTip
                                     /\ \A d \in ToSet(removals) : d.id = e.id => d.commit <= e.commit)

\* render(): by commit and path, the lines that are shown as added and as removed
Rendered ==
  LET lost == ToSet(Reported)
      births(n, p) == {e \in lost : e.id.commit = n /\ e.id.path = p}
      deaths(n, p) == {e \in lost : e.commit = n /\ e.path = p}
  IN [n \in 1 .. Len(commits), p \in Path |->
        [plus |-> {e.id.line : e \in births(n, p)}, minus |-> {e.line : e \in deaths(n, p)}]]

-----------------------------------------------------------------------------
(* What a commit may change, as git diff reports it *)

New == {<<t>> : t \in Text} \cup {<<t, u>> : t, u \in Text}
Slices(p) == {x \in (0..Len(files[p])) \X (0..Len(files[p])) : x[1] + x[2] <= Len(files[p])}
Hunk(x, new) == [start |-> x[1], count |-> x[2], new |-> new]
Removals(p) == {Hunk(x, <<>>) : x \in {y \in Slices(p) : y[2] > 0}}
Insertions(p) == {Hunk(<<i, 0>>, new) : i \in 0..Len(files[p]),
                                        new \in {n \in New : Len(n) + Len(files[p]) <= MaxLines}}
Replacements(p) ==
  {Hunk(y[1], y[2]) : y \in {z \in Slices(p) \X New :
     /\ z[1][2] > 0 /\ Len(files[p]) - z[1][2] + Len(z[2]) <= MaxLines
     /\ files[p][z[1][1] + 1].text # Head(z[2])
     /\ files[p][z[1][1] + z[1][2]].text # Last(z[2])}}

Present == {p \in Path : files[p] # Absent}
FileChange(o, n, hs) == [old |-> o, new |-> n, hunks |-> hs]
Edits(p, hunks) == {FileChange(p, p, <<h>>) : h \in hunks}
Added(p) == {FileChange(0, p, <<Hunk(<<0, 0>>, s)>>) : s \in New}
DeletedFile(p) == FileChange(p, 0, IF files[p] = <<>> THEN <<>> ELSE <<Hunk(<<0, Len(files[p])>>, <<>>)>>)
Renamed(p, q) == {FileChange(p, q, hs) : hs \in {<<>>} \cup {<<h>> : h \in Replacements(p)}}
\* a line that goes to another place of its file, between two hunks
Shifted(p) ==
  {FileChange(p, p, IF x[1].start < x[2].start THEN x ELSE <<x[2], x[1]>>) :
     x \in {y \in Removals(p) \X {Hunk(<<i, 0>>, <<t>>) : i \in 0..Len(files[p]), t \in Text} :
              y[1].start + y[1].count < y[2].start \/ y[2].start < y[1].start}}

Commits ==
  {{ch} : ch \in UNION {Edits(p, Removals(p) \cup Insertions(p) \cup Replacements(p))
                         \cup {DeletedFile(p)} \cup Shifted(p) : p \in Present}
               \cup UNION {Added(p) : p \in Path \ Present}
               \cup UNION {Renamed(p, q) : p \in Present, q \in Path \ Present}}
  \cup UNION {{{c, d} : c \in Edits(x[1], Removals(x[1])),
                        d \in IF x[2] \in Present THEN Edits(x[2], Insertions(x[2])) ELSE Added(x[2])} :
                x \in {y \in Present \X Path : y[1] # y[2]}}

TdNext ==
  \E merge \in BOOLEAN, changes \in Commits :
    /\ Len(commits) < MaxCommits
    /\ merge => Cardinality({i \in DOMAIN commits : commits[i]}) < MaxMerges
    /\ Commit(merge, changes)

-----------------------------------------------------------------------------
(* Properties *)

TdTypeOK == /\ \A p \in Path : files[p] = Absent \/ Len(files[p]) <= MaxLines
            /\ Len(commits) <= MaxCommits

\* Every lineage is in one place, a line or a tombstone, so that none is lost
\* from the account or counted twice; what is reported at the tip are the
\* lineages that are nowhere in its files, each once, with its last removal;
\* no addition of a merge commit is one (README: "A lineage still present
\* at the feature tip is never printed", "never call an unmatched merge
\* addition feature-born"); and what is rendered shows every one of them as
\* added once and as removed once, in a later commit, whatever other lines
\* were moved, restored or renamed to that place.
HomesOf(id) == {<<p, i>> \in Path \X (1..MaxLines) :
                 i \in DOMAIN files[p] /\ files[p][i].id = id}
LineagesAccounted ==
  /\ \A id \in born :
       /\ Cardinality(HomesOf(id))
          + Cardinality({<<p, i>> \in Path \X (1..Len(removals)) :
               i \in DOMAIN featureGone[p] /\ featureGone[p][i].id = id}) = 1
       /\ ~commits[id.commit]
  /\ {Reported[i].id : i \in DOMAIN Reported} = born \ AliveAtTip
  /\ \A i, j \in DOMAIN Reported : Reported[i].id = Reported[j].id => i = j
  /\ \A i \in DOMAIN Reported : Reported[i].id.commit < Reported[i].commit
  /\ LET shown(of(_)) == FoldFunction(LAMBDA s, n : n + Cardinality(of(s)), 0, Rendered)
     IN /\ shown(LAMBDA s : s.plus) = Len(Reported)
        /\ shown(LAMBDA s : s.minus) = Len(Reported)

-----------------------------------------------------------------------------
(***************************************************************************)
(* render_hunks(): the lines that a commit brought and that were lost      *)
(* later (or that it removed) are shown as hunks of the file as it was,    *)
(* with up to three lines of context.  Some of the lines that the commit   *)
(* changed are not shown, because they live; the file is its lines         *)
(* 0 .. size - 1.                                                          *)
(***************************************************************************)
CONSTANT MaxSize      \* bound: lines of the file

ASSUME HunksAssumption == MaxSize \in Nat \ {0}

VARIABLES
  side,     \* one side of the change: size, changed lines, those to be shown,
            \* the hunks of the commit with a line on the other side, and
            \* whether the file came or went
  hunks     \* what has been printed: its lines, first and past the last, what
            \* of them is marked and what its header says
hunkVars == <<side, hunks>>

\* git diff --unified=0 ends a hunk of the commit at every unchanged line
RunsOf(changed) == {run \in {i..j : i, j \in changed} :
                      /\ run # {} /\ run \subseteq changed
                      /\ Min(run) - 1 \notin changed /\ Max(run) + 1 \notin changed}

\* The commit adds or removes lines anywhere, of which some are lost; in the
\* bounds of this model only its hunk at the first line may have both sides.
HunksInit ==
  /\ hunks = <<>>
  /\ \E changed \in SUBSET (0..MaxSize - 1) : \E kept \in SUBSET changed :
     \E both \in {{}, {run \in RunsOf(changed) : 0 \in run}}, file \in BOOLEAN :
       /\ kept # {} /\ (file => changed = 0..MaxSize - 1 /\ both = {})
       /\ side = [size |-> MaxSize, changed |-> changed, kept |-> kept, both |-> both, file |-> file]

\* A bug for the runs to find: lines that are not shown do not come between.
NearOnly(i, j) == j <= i + 7 /\ ~\E k \in side.kept : i < k /\ k < j

\* position_groups: two neighbors among the lines shown are in one group
Near(i, j) ==
  /\ j <= i + 7
  /\ ~\E k \in side.changed : i < k /\ k < j

GroupStarts == {j \in side.kept : ~\E i \in side.kept : i < j /\ Near(i, j)}
GroupFrom(i) == {j \in side.kept : i <= j /\ ~\E k \in GroupStarts : i < k /\ k <= j}

\* the context stops at a changed line and after three lines
HunkStart(g) == Min({i \in 0..Min(g) : Min(g) - i <= 3 /\ i..(Min(g) - 1) \cap side.changed = {}})
HunkStop(g) ==
  Max({i \in (Max(g) + 1)..side.size :
         i - Max(g) <= 4 /\ (Max(g) + 1)..(i - 1) \cap side.changed = {}})

\* hunk_status: what the header says of the commit's hunks that are touched.
\* Lines that are kept count wherever they are printed.
WholeFile == side.file /\ side.kept = 0..side.size - 1
HunkStatus(positions) ==
  LET related  == {run \in RunsOf(side.changed) : run \cap positions # {}}
      total    == Cardinality(UNION related)
      kept     == Cardinality(UNION related \cap side.kept)
      opposite == Cardinality(related \cap side.both)
  IN [claim    |-> IF kept = total /\ opposite = 0 THEN "complete hunk"
                   ELSE IF WholeFile THEN "whole file"
                   ELSE IF kept = total THEN "complete side" ELSE "filtered",
      out      |-> total - kept,
      here     |-> IF kept < total /\ kept # Cardinality(positions) THEN Cardinality(positions) ELSE 0,
      opposite |-> opposite,
      combined |-> Cardinality(related)]

RenderHunks ==
  /\ hunks = <<>>
  /\ LET starts == SetToSortSeq(GroupStarts, <)
     IN hunks' = [n \in DOMAIN starts |->
          LET g == GroupFrom(starts[n]) IN [from |-> HunkStart(g), to |-> HunkStop(g), marked |-> g, status |-> HunkStatus(g)]]
  /\ UNCHANGED side

\* Every line that was lost is printed, in one hunk, and as lost; the hunks
\* follow one another as in a patch and do not overlap; and no line that the
\* commit changed is printed as unchanged context: position_groups and the
\* limits of the context agree. What a header says is true of the hunk below
\* it, although it is counted over all that is printed: one said to be a
\* complete hunk or side of the commit shows all of it, and one that does not
\* count its own lines shows every line that is left of what it is a part of
\* (transient_diff.py:503-598).
Shown(n) == hunks[n].from .. hunks[n].to - 1
HunksAreSound ==
  hunks # <<>> =>
    /\ side.kept \subseteq UNION {Shown(n) : n \in DOMAIN hunks}
    /\ \A n \in DOMAIN hunks :
         LET touched == UNION {run \in RunsOf(side.changed) : run \cap Shown(n) # {}}
             status  == hunks[n].status
         IN /\ Shown(n) \cap (side.changed \ side.kept) = {}
            /\ n > 1 => hunks[n - 1].to <= hunks[n].from
            /\ status.claim \in {"complete hunk", "complete side"} =>
                 touched \subseteq Shown(n) /\ touched = hunks[n].marked
            /\ status.claim = "complete hunk" => touched = UNION (RunsOf(touched) \ side.both)
            /\ status.here = 0 => touched \cap side.kept \subseteq Shown(n)
=============================================================================

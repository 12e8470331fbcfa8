------------------------------ MODULE VdLinks -------------------------------
(***************************************************************************)
(* Symbolic links that lead to files which are about to be moved: how they *)
(* are found (vdsym.find_hits), staged before the move and settled after   *)
(* it (vdguard._MoveJob), and how the place of a moved file is predicted   *)
(* (pasteflow.predict_moves).  Pure operators on a tree fs.                *)
(*                                                                         *)
(* A path is <<directory, base, n>>: n counts what ranger appends to the   *)
(* base to make a name safe ("", "_", "_0", ...).  A link holds the path   *)
(* it leads to (relative or absolute is only its spelling).  A tree maps   *)
(* the paths that exist to what is there.  Subjects are files: links into  *)
(* a moved directory are not modelled.                                     *)
(***************************************************************************)
EXTENDS Naturals, Sequences, SequencesExt

CONSTANTS Dir, Base,
          MaxSafe,     \* the last safe name of a base that is considered
          Files,       \* the files there are at first
          CopyIno,     \* the inode of any copy
          None

MaxHops == 3  \* no chain of links of these trees is longer
Path    == Dir \X Base \X (0 .. MaxSafe)
File(i) == [kind |-> "file", ino |-> i]
Link(p) == [kind |-> "link", to |-> p]
Entry   == {File(i) : i \in Files \cup {CopyIno}} \cup {Link(p) : p \in Path}
Policy  == {"", "y", "U", "R"}

Into(dir, p)   == <<dir, p[2], p[3]>>
Lexists(fs, p) == p \in DOMAIN fs
IsLink(fs, p)  == p \in DOMAIN fs /\ fs[p].kind = "link"
IsFile(fs, p)  == p \in DOMAIN fs /\ fs[p].kind = "file"
InoAt(fs, p)   == IF IsFile(fs, p) THEN fs[p].ino ELSE None
\* One tree laid over another; an entry put in place of any other, or only where there is none.
Over(top, fs)     == [p \in DOMAIN top \cup DOMAIN fs |-> IF p \in DOMAIN top THEN top[p] ELSE fs[p]]
Put(fs, p, entry) == [q \in DOMAIN fs \cup {p} |-> IF q = p THEN entry ELSE fs[q]]
Add(fs, p, entry) == IF Lexists(fs, p) THEN fs ELSE Put(fs, p, entry)
Without(fs, ps)   == Restrict(fs, DOMAIN fs \ ps)

\* The successive targets of a chain of links; a chain that ends stays at its end.
Hops(fs, p) ==
  LET hop[n \in 0 .. MaxHops] ==
        IF n = 0 THEN p ELSE IF IsLink(fs, hop[n - 1]) THEN fs[hop[n - 1]].to ELSE hop[n - 1]
  IN  [n \in 1 .. MaxHops |-> hop[n]]

LeadsTo(fs, p)  == Hops(fs, p)[MaxHops]
Exists(fs, p)   == IsFile(fs, LeadsTo(fs, p))
DanglingLoop(fs, p) == IsLink(fs, p) /\ IsLink(fs, LeadsTo(fs, p))  \* a bug for the runs to find
Dangling(fs, p) == IsLink(fs, p) /\ ~Exists(fs, p)

\* The first name at or after p that neither leads to a file nor is promised to another.
SafePath(fs, p, taken) ==
  LET free == {n \in p[3] .. MaxSafe : ~Exists(fs, <<p[1], p[2], n>>) /\ <<p[1], p[2], n>> \notin taken}
  IN  <<p[1], p[2], Min(free)>>

SafeLeft(fs, p) == {n \in p[3] .. MaxSafe : ~Exists(fs, <<p[1], p[2], n>>)} # {}

\* What the names of the entries will end in, each safe from those before.
Endings(fs, olds, dest, overwrite) ==
  LET safe(n, old) == SafePath(fs, Into(dest, old), {<<dest, p[2], n[p]>> : p \in DOMAIN n})[3]
  IN  FoldLeft(LAMBDA n, old : n @@ (old :> IF overwrite THEN old[3] ELSE safe(n, old)), << >>, olds)

Predict(fs, olds, dest, overwrite) ==
  [old \in Range(olds) |-> <<dest, old[2], Endings(fs, olds, dest, overwrite)[old]>>]

\* Links in dirs whose chain passes through a subject.  Only a link whose first hop is the
\* subject itself need be re-pointed.
Hits(fs, subjects, dirs) ==
  LET At(p) == {n \in 1 .. MaxHops : Hops(fs, p)[n] \in subjects}
  IN  {[link |-> p, subject |-> Hops(fs, p)[Min(At(p))], direct |-> Min(At(p)) = 1] :
          p \in {q \in DOMAIN fs \cap Path : q[1] \in dirs /\ IsLink(fs, q) /\ At(q) # {}}}

\* What the policies ask to be done to a hit.  Dashboard links are always updated.
Mode(hit, policy, dashboards) ==
  IF hit.link[1] \in dashboards THEN "UA" ELSE policy[hit.subject]

Work(hits, policy, dashboards) ==
  {h \in hits : \/ Mode(h, policy, dashboards) \in {"UA", "R"}
                \/ Mode(h, policy, dashboards) = "U" /\ h.direct}

\* Another entry owns the name a link wants.
TakenByLink(fs, want, sources) == want \notin sources /\ IsLink(fs, want)  \* a bug to find
Taken(fs, want, sources)       == want \notin sources /\ Lexists(fs, want)

\* The orders in which hits may be worked off: links that already have the final name come
\* first.
Orders(hits, moves) ==
  LET named(h) == h.link = Into(h.link[1], moves[h.subject])
  IN  {order \in SetToSeqs(hits) :
         \A j \in DOMAIN order : \A i \in 1 .. j : named(order[j]) => named(order[i])}

\* One record per old link: where its replacement goes (nowhere when that link is there
\* already, or an earlier one has claimed the name) and what it will hold.
Stages(fs, hits, moves, policy, dashboards) ==
  LET sources  == {h.link : h \in Range(hits)}
      want(h)  == IF Mode(h, policy, dashboards) = "R" THEN Into(h.link[1], moves[h.subject])
                                                       ELSE h.link
      taken(h) == Taken(fs, want(h), sources)
      there(h) == /\ taken(h) /\ IsLink(fs, want(h))
                  /\ LeadsTo(fs, want(h)) = LeadsTo(fs, moves[h.subject])
      claim(h) == IF taken(h) THEN h.link ELSE want(h)
      owned(i) == \E j \in 1 .. i - 1 : ~there(hits[j]) /\ claim(hits[j]) = want(hits[i])
  IN  [i \in DOMAIN hits |->
        [link |-> hits[i].link, to |-> fs[hits[i].link].to,
         old  |-> hits[i].subject, text |-> moves[hits[i].subject],
         dest |-> IF owned(i) \/ there(hits[i]) THEN None ELSE claim(hits[i])]]

\* A link at the destination of every stage of some, to what text says of it.  The last of
\* the stages with one destination counts.
Linked(fs, stages, some, text) ==
  LET last(p) == Max({i \in some : stages[i].dest = p})
  IN  Over([p \in {stages[i].dest : i \in some} \ {None} |-> Link(text[last(p)])], fs)

\* Every old link goes to its backup name (its stage then holds it), replacements follow.
Staged(fs, stages) ==
  Linked(Without(fs, {s.link : s \in Range(stages)}), stages,
         DOMAIN stages, [i \in DOMAIN stages |-> stages[i].text])

\* A bug for the runs to find: the prediction is trusted.
LocatePredicted(fs, old, predicted, ino) ==
  IF ~Lexists(fs, old) /\ Lexists(fs, predicted) THEN predicted ELSE None

\* Where the file that was at old has gone: nowhere while something is there; the predicted
\* place if it has the inode (or none is known), else the inode is looked for beside it.
Locate(fs, old, predicted, ino) ==
  LET same == {p \in DOMAIN fs : p[1] = predicted[1] /\ InoAt(fs, p) = ino}
  IN  CASE Lexists(fs, old)                                                     -> None
        [] ~Lexists(fs, old) /\ (ino = None \/ InoAt(fs, predicted) = ino)      ->
              IF Lexists(fs, predicted) THEN predicted ELSE None
        [] OTHER -> IF same = {} THEN None ELSE CHOOSE p \in same : TRUE

\* A bug for the runs to find: the replacement stays.
UndoneOnly(state, s) ==
  IF Lexists(state.fs, s.link)
  THEN [fs |-> state.fs, aside |-> state.aside \cup {[link |-> s.link, to |-> s.to]}]
  ELSE [fs |-> Put(state.fs, s.link, Link(s.to)), aside |-> state.aside]

\* The replacement goes away if it is still as staged, the backup comes back unless its name
\* was taken meanwhile; then it stays aside.
Undone(state, s) ==
  LET cleared == IF IsLink(state.fs, s.dest) /\ state.fs[s.dest] = Link(s.text)
                 THEN Without(state.fs, {s.dest}) ELSE state.fs
  IN  IF Lexists(cleared, s.link)
      THEN [fs |-> cleared, aside |-> state.aside \cup {[link |-> s.link, to |-> s.to]}]
      ELSE [fs |-> Put(cleared, s.link, Link(s.to)), aside |-> state.aside]

\* The stages of some are undone, the last staged first.
Rollback(state, stages, some) ==
  LET undo[k \in 0 .. Len(stages)] ==
        LET i == Len(stages) + 1 - k
        IN  IF k = 0 THEN state
            ELSE IF i \in some THEN Undone(undo[k - 1], stages[i]) ELSE undo[k - 1]
  IN  undo[Len(stages)]

\* After the move: links to files that were found are committed, the others undone.
Settle(fs, stages, located) ==
  LET found == {i \in DOMAIN stages : located[stages[i].old] # None}
  IN  Rollback([fs |-> Linked(fs, stages, found, [i \in found |-> located[stages[i].old]]),
                aside |-> {}],
               stages, DOMAIN stages \ found)

\* _LeaveLinkJob.finish: a link at every vacated path.
LeaveLinks(fs, moves, inos) ==
  LET at == [old \in DOMAIN moves |-> Locate(fs, old, moves[old], inos[old])]
  IN  Over([p \in {q \in DOMAIN moves : at[q] # None} |-> Link(at[p])], fs)

\* _DanglingPasteJob.finish: what was not replaced comes back.
PutBack(fs, held) == Over(fs, held)
=============================================================================

------------------------------- MODULE VdPaste ------------------------------
(***************************************************************************)
(* src/ranger/plugins/pasteflow.py and vdguard.py: cut, copy, paste,       *)
(* delete and rename in ranger, with the guards that ask about links first *)
(* and re-point (U) or replace (R) them once the files have moved.         *)
(*                                                                         *)
(* One thread runs the commands, the answers to questions and the steps of *)
(* the loaders (ranger's background copies), so each of them is one        *)
(* action; they interleave, and so do other processes.  While a question   *)
(* is open the console takes no command, but loaders go on.                *)
(***************************************************************************)
EXTENDS VdLinks

CONSTANTS Roots,      \* directories whose links are indexed and whose files are guarded
          DashOf,     \* the dashboard directory of a base
          Dests,      \* directories that are pasted into
          Sessions,   \* bounds: see session
          Busy,       \* when the index may be locked: "ask" (a question), "go" (a paste)
          JUMP_RETRIES

\* No inode of the model is that of a copy, or none; what is there at first is within the
\* model, and its files have one name each (no hard links).
ASSUME PasteAssumption ==
  /\ IsFiniteSet(Dir) /\ IsFiniteSet(Base) /\ IsFiniteSet(Files) /\ MaxSafe \in Nat
  /\ {None, CopyIno} \cap Files = {} /\ None \notin Path
  /\ Dests \subseteq Dir
  /\ \A s \in Sessions : \A p \in DOMAIN s.tree :
       InoAt(s.tree, p) \in Files
         => p \in Path /\ \A q \in DOMAIN s.tree : InoAt(s.tree, q) = InoAt(s.tree, p) => q = p

VARIABLES session,         \* fixed: the commands given (ops), how many of them (turns), of pastes and
                           \* of faults, whether pastes jump, the tree to start from
          fs,              \* the tree
          buffer, cut,     \* fm.copy_buffer, fm.do_cut
          policy,          \* _POLICY: what was answered about a cut path
          prompt,          \* the open question, with what its answer needs
          loader,          \* one record per paste
          aside,           \* backups nobody will put back
          jump,            \* _STATE.handler: the jump that waits for a listing
          cursor,          \* fm.thisfile
          turns, faults    \* counted for the bounds
vars == <<session, fs, buffer, cut, policy, prompt, loader, aside, jump, cursor, turns, faults>>

NoPrompt   == [op |-> "none"]
NoLoader   == [st |-> "new", stages |-> << >>, held |-> << >>]
Dashboards == Range(DashOf)
Loader     == DOMAIN loader
St(l)      == IF l \in Loader THEN loader[l].st ELSE "new"
At(dir)    == {p \in DOMAIN fs : p[1] = dir}
Inos(olds) == [p \in olds |-> InoAt(fs, p)]
\* The buffer is a new set: queued loaders no longer share it.
NewSet     == [l \in Loader |-> IF loader[l].st = "queued"
                                THEN [loader[l] EXCEPT !.shares = FALSE] ELSE loader[l]]
\* _jump: what appeared in dest, or what was pasted over, will be jumped to.
Jump(now, dest, before, olds) ==
  LET there == {p \in DOMAIN now : p[1] = dest}
      new   == IF there \ before # {} THEN there \ before ELSE {Into(dest, p) : p \in olds} \cap there
  IN  IF ~session.jump \/ new = {} THEN jump ELSE [new |-> new, tries |-> 0]

Init ==
  /\ session \in Sessions
  /\ fs = session.tree
  /\ buffer = {} /\ cut = FALSE /\ policy = << >> /\ prompt = NoPrompt
  /\ loader = [l \in 1 .. session.pastes |-> NoLoader]
  /\ aside = {} /\ jump = None /\ turns = 0 /\ faults = 0
  /\ cursor \in {p \in Path : p[1] \in Dests /\ IsFile(fs, p)} \cup {None}

(***************************************************************************)
(* What is done once it is known what to do.  q is the question, asked or  *)
(* not: the paths it was about and what the answer is applied to.          *)
(***************************************************************************)
Locked(when) == IF when \in Busy THEN BOOLEAN ELSE {FALSE}
Unused       == {l \in Loader : loader[l].st = "new"}
NoJob == [st |-> "queued", kind |-> "move", dest |-> "", over |-> FALSE, todo |-> << >>,
          olds |-> {}, shares |-> FALSE, before |-> {}, moves |-> << >>, inos |-> << >>,
          stages |-> << >>, leave |-> << >>, leaveInos |-> << >>, held |-> << >>,
          append |-> FALSE, links |-> {}]

\* Paste.launch: ranger's own paste makes a loader that holds the buffer of this moment,
\* which an earlier loader that started meanwhile has emptied.
Launch(kind, order, q, job) ==
  loader' = [loader EXCEPT ![Min(Unused)] =
    [job EXCEPT !.kind = kind, !.dest = q.dest, !.over = q.over, !.todo = order,
                !.olds = q.olds, !.shares = (kind = "move"), !.before = At(q.dest)]]

\* _guard_moves.go: predict, find the links, stage them, launch.  links only remembers what
\* the answers asked for.
GoMove(q, pol) ==
  \E order \in SetToSeqs(q.olds), busy \in Locked("go") :
    LET active == SelectSeq(order, LAMBDA p : pol[p] \in {"U", "R"})
        moves  == Predict(fs, active, q.dest, q.over)
        asked  == Work(Hits(fs, Range(active), Roots \cup Dashboards), pol, Dashboards)
    IN \E hits \in Orders(IF busy THEN {} ELSE asked, moves) :
         LET stages == Stages(fs, hits, moves, pol, Dashboards)
         IN  /\ fs' = Staged(fs, stages)
             /\ Launch("move", IF q.olds \subseteq buffer THEN order ELSE << >>, q,
                  [NoJob EXCEPT !.moves = moves, !.inos = Inos(Range(active)),
                     !.stages = stages, !.links = asked,
                     !.leave = IF q.leave THEN Predict(fs, order, q.dest, q.over) ELSE << >>,
                     !.leaveInos = IF q.leave THEN Inos(q.olds) ELSE << >>])
             /\ policy' = Restrict(pol, DOMAIN pol \ q.olds)
             /\ cut' = FALSE
             /\ UNCHANGED <<buffer, aside, jump, cursor, faults>>

\* rename.done: stage, let ranger rename the file under the cursor, settle; all at once.
GoRename(q, answer) ==
  LET old   == CHOOSE p \in q.olds : TRUE
      pol   == (old :> answer)
      asked == IF answer \in {"U", "R"}
               THEN Work(Hits(fs, {old}, Roots \cup Dashboards), pol, Dashboards) ELSE {}
  IN  \E hits \in Orders(asked, old :> q.new) :
        LET stages  == Stages(fs, hits, old :> q.new, pol, Dashboards)
            staged  == Staged(fs, stages)
            may     == cursor # None /\ cursor # q.new /\ Lexists(staged, cursor)
                         /\ ~Exists(staged, q.new)
            moved   == IF may THEN Put(Without(staged, {cursor}), q.new, staged[cursor]) ELSE staged
            settled == Settle(moved, stages, old :> Locate(moved, old, q.new, InoAt(fs, old)))
        IN  /\ fs' = settled.fs
            /\ aside' = aside \cup settled.aside
            /\ cursor' = IF may THEN q.new ELSE cursor
            /\ UNCHANGED <<buffer, cut, policy, loader, jump, faults>>

\* Nothing is removed when the names cannot be copied to the clipboard.
GoDelete(q) ==
  /\ fs' \in {fs, Without(fs, q.olds)}
  /\ UNCHANGED <<buffer, cut, policy, loader, aside, jump, cursor, faults>>

(***************************************************************************)
(* Questions (_guard_move, _guarded_remove).                               *)
(***************************************************************************)
Question(op, olds, fresh) ==
  [op |-> op, olds |-> olds, fresh |-> fresh, dest |-> "", over |-> FALSE, leave |-> FALSE,
   new |-> None, busy |-> FALSE, hits |-> {}]

Ask(q, asked, go) ==
  \E busy \in IF \E p \in q.fresh : p[1] \in Roots THEN Locked("ask") ELSE {FALSE} :
    LET hits == IF busy THEN {} ELSE Hits(fs, {p \in q.fresh : p[1] \in Roots}, Roots)
    IN  IF busy \/ hits # {}
        THEN prompt' = [q EXCEPT !.busy = busy, !.hits = hits] /\ asked
        ELSE prompt' = NoPrompt /\ go

\* make_dashboard: a link to every link; the stale links of that directory go.
Dashboard(hits, dir) ==
  LET wanted == {Into(dir, h.link) : h \in hits}
      stale  == {p \in DOMAIN fs \ wanted : p[1] = dir /\ IsLink(fs, p)}
  IN  Over(Without(fs, stale),
           [p \in wanted |-> Link((CHOOSE h \in hits : Into(dir, h.link) = p).link)])

\* A cancelled question; the paths of a cut leave the buffer (pasteflow.unmark).
Cancel(q) ==
  /\ IF q.op = "cut"
     THEN buffer' = buffer \ q.fresh /\ cut' = (cut /\ buffer' # {}) /\ loader' = NewSet
     ELSE UNCHANGED <<buffer, cut, loader>>
  /\ UNCHANGED <<policy, aside, jump, cursor, faults>>

Answer ==
  /\ prompt # NoPrompt
  /\ prompt' = NoPrompt
  /\ UNCHANGED <<session, turns>>
  /\ \/ Cancel(prompt) /\ UNCHANGED fs
     \/ /\ ~prompt.busy
        /\ \E p \in prompt.fresh : fs' = Dashboard(prompt.hits, DashOf[p[2]])
        /\ Cancel(prompt)
     \/ \E answer \in IF prompt.busy \/ prompt.op = "delete" THEN {"y"} ELSE {"y", "U", "R"} :
          CASE prompt.op = "cut" ->
                 /\ policy' = [p \in prompt.fresh |-> answer] @@ policy
                 /\ UNCHANGED <<fs, buffer, cut, loader, aside, jump, cursor, faults>>
            [] prompt.op = "move"   -> GoMove(prompt, [p \in prompt.fresh |-> answer] @@ policy)
            [] prompt.op = "delete" -> GoDelete(prompt)
            [] prompt.op = "rename" -> GoRename(prompt, answer)

(***************************************************************************)
(* Commands.                                                               *)
(***************************************************************************)
Command(op) ==
  /\ op \in session.ops /\ prompt = NoPrompt
  /\ op # "paste" => turns < session.turns
  /\ turns' = IF op = "paste" THEN turns ELSE turns + 1
  /\ UNCHANGED session
Flags(over, more) == (over => "over" \in session.ops) /\ (more => "more" \in session.ops)
Selection   == {olds \in SUBSET {p \in DOMAIN fs : InoAt(fs, p) \in Files} : olds # {}}

\* :cut, or :cut mode=add.  Its copy() resets the answers unless it adds.
Cut(olds, add) ==
  /\ Command("cut")
  /\ buffer' = IF add THEN buffer \cup olds ELSE olds
  /\ cut' = TRUE
  /\ loader' = IF add THEN loader ELSE NewSet
  /\ LET kept  == IF add THEN policy ELSE << >>
         fresh == buffer' \ DOMAIN kept
     IN  IF fresh = {} THEN policy' = kept /\ UNCHANGED prompt
         ELSE Ask(Question("cut", fresh, fresh),
                  policy' = kept, policy' = [p \in fresh |-> ""] @@ kept)
  /\ UNCHANGED <<fs, aside, jump, cursor, faults>>

\* :copy and :uncut (nothing selected).
Copy(olds) ==
  /\ Command("copy")
  /\ buffer' = olds /\ cut' = FALSE /\ policy' = << >> /\ loader' = NewSet
  /\ UNCHANGED <<fs, prompt, aside, jump, cursor, faults>>

PasteMove(dest, over, leave) ==
  /\ Command("paste") /\ Flags(over, leave) /\ cut /\ buffer # {} /\ Unused # {}
  /\ LET q == [Question("move", buffer, buffer \ DOMAIN policy)
                 EXCEPT !.dest = dest, !.over = over, !.leave = leave]
     IN  IF q.fresh = {} THEN GoMove(q, policy) /\ UNCHANGED prompt
         ELSE Ask(q, UNCHANGED <<fs, buffer, cut, policy, loader, aside, jump, cursor, faults>>,
                  GoMove(q, [p \in q.fresh |-> ""] @@ policy))

\* A copy: links that are already there are skipped (_guard_links), dangling links in the way
\* of an overwriting copy are held aside (_guard_dangling).
PasteCopy(dest, over, append) ==
  /\ Command("paste") /\ Flags(over, append) /\ ~cut /\ buffer # {} /\ Unused # {}
  /\ LET there(p) == IsLink(fs, p) /\ IsLink(fs, Into(dest, p))
                       /\ LeadsTo(fs, p) = LeadsTo(fs, Into(dest, p))
         olds == {p \in buffer : ~there(p)}
         held == IF over /\ ~append THEN {p \in {Into(dest, o) : o \in olds} : Dangling(fs, p)}
                                    ELSE {}
     IN  /\ olds # {}
         /\ fs' = Without(fs, held)
         /\ \E order \in SetToSeqs(olds) :
              Launch("copy", order, [olds |-> olds, dest |-> dest, over |-> over],
                     [NoJob EXCEPT !.held = [p \in held |-> fs[p]], !.append = append])
  /\ UNCHANGED <<buffer, cut, policy, prompt, aside, jump, cursor, faults>>

\* A link to each entry, under a safe name.
Symlinked(tree, order, dest) ==
  LET made[i \in 0 .. Len(order)] ==
        IF i = 0 THEN tree
        ELSE Add(made[i - 1], SafePath(made[i - 1], Into(dest, order[i]), {}), Link(order[i]))
  IN  made[Len(order)]

\* :paste_symlink has no loader; the paste is finished when it returns.
PasteLinks(dest) ==
  /\ Command("links") /\ buffer # {}
  /\ LET olds == {p \in buffer : ~(IsLink(fs, Into(dest, p))
                                     /\ LeadsTo(fs, Into(dest, p)) = LeadsTo(fs, p))}
     IN  \E order \in SetToSeqs(olds) :
           /\ olds # {}
           /\ fs' = Symlinked(fs, order, dest)
           /\ jump' = Jump(fs', dest, At(dest), olds)
  /\ UNCHANGED <<buffer, cut, policy, prompt, loader, aside, cursor, faults>>

Delete(olds) ==
  /\ Command("delete")
  /\ LET q == Question("delete", olds, olds)
     IN  Ask(q, UNCHANGED <<fs, buffer, cut, policy, loader, aside, jump, cursor, faults>>,
             GoDelete(q))

Rename(new) ==
  /\ Command("rename") /\ cursor # None
  /\ new[1] = cursor[1] /\ IsFile(fs, cursor) /\ ~Lexists(fs, new)
  /\ LET q == [Question("rename", {cursor}, {cursor}) EXCEPT !.new = new]
     IN  Ask(q, UNCHANGED <<fs, buffer, cut, policy, loader, aside, jump, cursor, faults>>,
             GoRename(q, ""))

(***************************************************************************)
(* The steps of a loader (ranger's CopyLoader), in any order among loaders. *)
(***************************************************************************)
\* What the end of a paste does to its loader.
Leave(l) == loader' = [loader EXCEPT ![l] = [NoLoader EXCEPT !.st = "done"]]

\* What Paste.finish runs: the jobs of the guards in order, then the jump.
Finish(l) ==
  LET me == loader[l]
  IN  \E back \in {PutBack(fs, me.held)} :
      \E done \in {Settle(back, me.stages,
                 [o \in {s.old : s \in Range(me.stages)} |->
                    Locate(back, o, me.moves[o], me.inos[o])])} :
      \E after \in {LeaveLinks(done.fs, me.leave, me.leaveInos)} :
        /\ fs' = after
        /\ aside' = aside \cup done.aside
        /\ Leave(l)
        /\ jump' = Jump(after, me.dest, me.before, me.olds)

Start(l) ==
  /\ St(l) = "queued"
  /\ loader' = [k \in Loader |->
       IF k = l THEN [loader[k] EXCEPT !.st = "running", !.shares = FALSE] ELSE loader[k]]
  /\ buffer' = IF loader[l].shares /\ loader[l].todo # << >> THEN {} ELSE buffer
  /\ UNCHANGED <<session, turns, fs, cut, policy, prompt, aside, jump, cursor, faults>>

\* shutil_g.move and copy2 of the next entry.
Moved(me, p) ==
  LET to == IF me.over THEN Into(me.dest, p) ELSE SafePath(fs, Into(me.dest, p), {})
      at == LeadsTo(fs, to)
  IN  CASE me.kind = "move"                    -> Put(Without(fs, {p}), to, fs[p])
        [] me.kind = "copy" /\ IsLink(fs, p)    -> Put(fs, to, fs[p])
        [] me.kind = "copy" /\ ~IsLink(fs, p)   -> Add(fs, at, File(CopyIno))

\* The loader takes its next entry.
Moving(l) ==
  LET next == Head(loader[l].todo)
  IN  /\ St(l) = "running" /\ loader[l].todo # << >>
      /\ Lexists(fs, next)
      /\ ~loader[l].over => SafeLeft(fs, Into(loader[l].dest, next))  \* bound: of the names
      /\ loader' = [loader EXCEPT ![l].todo = Tail(@)]

Transfer(l) ==
  /\ Moving(l)
  /\ fs' = Moved(loader[l], Head(loader[l].todo))
  /\ UNCHANGED <<session, turns, buffer, cut, policy, prompt, aside, jump, cursor, faults>>

EndedWhenEmpty(me) == me.todo = << >>  \* a bug for the runs to find
Ended(me) == me.todo # << >> => ~Lexists(fs, Head(me.todo))

\* The generator ends: everything is done, or the next entry is gone.
Ending(l) == St(l) = "running" /\ Ended(loader[l]) /\ Leave(l)
End(l) ==
  /\ Ending(l)
  /\ Finish(l)
  /\ UNCHANGED <<session, turns, buffer, cut, policy, prompt, cursor, faults>>

\* The user removes a loader from the task view, or an error ends it.  The generator of one
\* that never ran has no finally to run.
Drop(l) ==
  /\ faults < session.faults /\ faults' = faults + 1
  /\ \/ St(l) = "running" /\ Finish(l)
     \/ /\ St(l) = "queued"
        /\ loader' = [loader EXCEPT ![l].st = "removed"]
        /\ UNCHANGED <<fs, aside, jump>>
  /\ UNCHANGED <<session, turns, buffer, cut, policy, prompt, cursor>>

Retries(tries) == tries < JUMP_RETRIES

\* _jump's ready: a listing of the destination arrived, perhaps an old one.
JumpReady ==
  /\ jump # None
  /\ \/ /\ Retries(jump.tries)
        /\ jump' = [jump EXCEPT !.tries = @ + 1]
        /\ UNCHANGED cursor
     \/ /\ jump' = None
        /\ cursor' \in {cursor} \cup {p \in jump.new : /\ Lexists(fs, p)
                                                      /\ cursor # None /\ cursor[1] = p[1]}
  /\ UNCHANGED <<session, turns, fs, buffer, cut, policy, prompt, loader, aside, faults>>

\* Another process makes a file.
Create(p) ==
  /\ faults < session.faults /\ faults' = faults + 1
  /\ ~Lexists(fs, p)
  /\ fs' = Put(fs, p, File(CopyIno))
  /\ UNCHANGED <<session, turns, buffer, cut, policy, prompt, loader, aside, jump, cursor>>

(***************************************************************************)
LoaderStep(l) == Start(l) \/ Transfer(l) \/ End(l)

Next ==
  \/ Answer
  \/ \E olds \in Selection : (\E add \in BOOLEAN : Cut(olds, add)) \/ Copy(olds) \/ Delete(olds)
  \/ \E dest \in Dests : \/ \E over, flag \in BOOLEAN : PasteMove(dest, over, flag)
                                                         \/ PasteCopy(dest, over, flag)
                         \/ PasteLinks(dest)
  \/ \E new \in Path : new[3] = 0 /\ Rename(new)  \* bound: to names of the instance
  \/ \E l \in Loader : LoaderStep(l) \/ Drop(l)
  \/ JumpReady
  \/ \E p \in Path : p[1] \in Dests /\ p[3] = 0 /\ Create(p)

Spec == Init /\ [][Next]_vars

\* ranger's idle loop works its loaders as long as there are any; nobody has to answer.
\* Stated of what a step does to the loader: Moving is only done by Transfer, Ending by End,
\* or by a Drop of a loader that could have ended.
FairSpec ==
  Spec /\ \A l \in 1 .. 2 : WF_loader(Start(l)) /\ WF_loader(Moving(l)) /\ WF_loader(Ending(l))

-----------------------------------------------------------------------------
(* What the paste guards promise. *)

\* Variables have their types; questions, loaders and jumps their fields.
TypeOK ==
  /\ DOMAIN fs \subseteq Path /\ Range(fs) \subseteq Entry
  /\ buffer \in SUBSET Path /\ cut \in BOOLEAN
  /\ DOMAIN policy \subseteq Path /\ Range(policy) \subseteq Policy
  /\ prompt.op \in {"none", "cut", "move", "delete", "rename"}
  /\ \A l \in Loader : /\ loader[l].st \in {"new", "queued", "running", "done", "removed"}
                       /\ loader[l].st \in {"queued", "running"} => loader[l].dest \in Dests
  /\ \A b \in aside : b.link \in Path /\ b.to \in Path
  /\ jump # None => jump.new \subseteq Path /\ jump.tries \in 0 .. JUMP_RETRIES
  /\ cursor \in Path \cup {None}
  /\ turns \in 0 .. session.turns /\ faults \in 0 .. session.faults

Ends(l)      == loader[l].st = "running" /\ loader'[l].st = "done"
Transfers(l) == loader[l].st = "running" /\ loader'[l].st = "running"
                  /\ loader'[l].todo # loader[l].todo
\* Where loader l has put the file that was at old: it is in the destination, not at old.
Landed(l, old, at) ==
  /\ loader[l].inos[old] \in Files
  /\ ~Lexists(fs, old)
  /\ at[1] = loader[l].dest /\ InoAt(fs, at) = loader[l].inos[old]

\* Only entries go, and nothing else changes.
Deletes == /\ prompt.op \in {"none", "delete"} /\ prompt' = NoPrompt /\ loader' = loader
           /\ fs' = Restrict(fs, DOMAIN fs')

\* A file disappears only when it is deleted or by the overwriting move of another onto its
\* name: neither staging nor settling links, which rename over names, ever replaces one
\* (_MoveJob.stage, _finish_staged, "never overwrite it").
NoFileLost ==
  [][\A p \in DOMAIN fs :
       InoAt(fs, p) \in Files /\ fs[p] \notin Range(fs')
         => \/ Deletes
            \/ \E l \in Loader : Transfers(l) /\ loader[l].over
                                   /\ p = Into(loader[l].dest, Head(loader[l].todo))]_vars

\* The replacement of another link of the paste has, or reads like, what was under s.link.
Crossed(l, s)  == \E t \in Range(loader[l].stages) : t # s /\ t.dest = s.link
Mistaken(l, s) == \E t \in Range(loader[l].stages) : t # s /\ t.dest = s.link /\ t.text = s.to
Kept(s)        == \E b \in aside' : b.link = s.link /\ b.to = s.to

\* A paste that ends gives back the links to files it did not move: the old link is under its
\* name again, or that name was taken meanwhile and the backup is kept ("put surviving old
\* links back under their original names").  In a paste that renames one link to the name of
\* another, which is then still there when the other is put back, the backup is all there is.
LinksAreBack ==
  [][\A l \in Loader : Ends(l) =>
       \A s \in Range(loader[l].stages) :
         Lexists(fs, s.old) =>
           \/ IsLink(fs', s.link) /\ fs'[s.link] = Link(s.to)
           \/ /\ Kept(s)
              /\ \/ Crossed(l, s)
                 \/ Lexists(fs', s.link) /\ (s.dest = s.link => fs'[s.link] # Link(s.text))
           \/ Mistaken(l, s)]_vars

\* Some link of its directory leads to the moved file when the paste ends.
Follows(l, h) ==
  \A at \in Path :
    Landed(l, h.subject, at) => \E p \in DOMAIN fs' : p[1] = h.link[1] /\ fs'[p] = Link(at)

\* Every link the user asked to update or replace leads to the moved file when the paste ends
\* ("re-point (U) or replace (R) symlinks once the files they led to have really moved").
LinksFollow == [][\A l \in Loader : Ends(l) => \A h \in loader[l].links : Follows(l, h)]_vars

\* The name h should get is another's: the links that will have it are not just those to its
\* file.
Displaced(l, h) ==
  LET stages == {s \in Range(loader[l].stages) : s.dest # None}
      name(s) == IF s.dest = None THEN Into(s.link[1], s.text) ELSE s.dest
  IN  \E s \in Range(loader[l].stages) :
        s.link = h.link /\ {t.old : t \in {u \in stages : u.dest = name(s)}} # {s.old}

\* The same unless its name is another's, also when the file got another name than predicted.
MovedLinksFollow ==
  [][\A l \in Loader : Ends(l) =>
       \A h \in loader[l].links : ~Displaced(l, h) => Follows(l, h)]_vars

\* An overwriting copy that does not append replaces a dangling link in its way; it never
\* writes through it and so makes a file elsewhere (_guard_dangling).
DanglingReplaced ==
  [][\A l \in Loader :
       Transfers(l) /\ loader[l].kind = "copy" /\ loader[l].over /\ ~loader[l].append
         => \A p \in DOMAIN fs' \ DOMAIN fs : p[1] = loader[l].dest]_vars

\* What was put aside is put back or replaced in the end, whatever happens to the loader,
\* unless it is removed before its first step ("finish (exactly once)").
StagedSettles ==
  \A l \in 1 .. 2 : St(l) \in {"queued", "running"} ~> St(l) \in {"done", "removed"}

\* Both of what is put aside: links to files that move, and links that lead nowhere.
AsideSettles == DanglingReplaced /\ StagedSettles
=============================================================================

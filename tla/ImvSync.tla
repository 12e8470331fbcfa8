------------------------------- MODULE ImvSync -------------------------------
(***************************************************************************)
(* src/ranger/plugins/image_preview_imv2.py: ranger's cursor and the image *)
(* that imv shows follow each other.  ranger's loop handles an input, then *)
(* pushes its cursor (the list of images when imv does not have it, and    *)
(* "goto"), then looks at the snapshot that a thread of an executor took.  *)
(* imv is external: it starts, ends, and its user walks through its list.  *)
(* IMV_SYNC_MODE is "index", its default.                                  *)
(***************************************************************************)
EXTENDS Integers, Sequences, SequencesExt

CONSTANTS Folder, FilesOf,  \* [Folder -> Seq of its files, folders included]
          Image,            \* what imv shows
          MaxKeys, MaxViews, MaxViewers, MaxLost  \* bounds: inputs, imv's user, imvs, lost commands
ASSUME ImvAssumption ==
  /\ \A d \in Folder : Len(FilesOf[d]) > 0
  /\ MaxKeys \in Nat /\ MaxViews \in Nat /\ MaxViewers \in Nat /\ MaxLost \in Nat

VARIABLES folder, cursor, gone,  \* ranger: fm.thisdir, fm.thisfile, deleted files
          viewer,  \* imv: [id, files, pos]; id 0: none runs
          sync,    \* ImvSync: socket, playlist, directory, observed_selection, pending
          job,     \* snapshot_job; fresh: the generation is still that of the request
          loop,    \* where handle_input is; quiet: no generation has passed in it
          keys, views, viewers, lost  \* counted for the bounds
imvVars == <<folder, cursor, gone, viewer, sync, job, loop, keys, views, viewers, lost>>

Nothing    == "nothing"
FilesIn(d) == SelectSeq(FilesOf[d], LAMBDA f : f \notin gone)
Images(d)  == SelectSeq(FilesIn(d), LAMBDA f : f \in Image)
Shown      == IF viewer.files = << >> THEN Nothing ELSE viewer.files[viewer.pos]
NoJob      == [at |-> "none", fresh |-> FALSE, id |-> 0, seen |-> Nothing, keys |-> 0]
Untracked  == [socket |-> 0, playlist |-> << >>, directory |-> Nothing, observed |-> Nothing,
               pending |-> FALSE, ignored |-> 0, passed |-> FALSE]

ImvInit ==
  /\ folder \in Folder /\ cursor = FilesOf[folder][1] /\ gone = {}
  /\ viewer = [id |-> 0, files |-> << >>, pos |-> 1]
  /\ sync = Untracked /\ job = NoJob /\ loop = [at |-> "input", quiet |-> TRUE]
  /\ keys = 0 /\ views = 0 /\ viewers = 0 /\ lost = 0

(***************************************************************************)
(* imv                                                                     *)
(***************************************************************************)
ViewerOpens(d) ==
  /\ viewer.id = 0 /\ viewers < MaxViewers /\ viewers' = viewers + 1 /\ Images(d) # << >>
  /\ viewer' = [id |-> viewers', files |-> <<Head(Images(d))>>, pos |-> 1]
  /\ UNCHANGED <<folder, cursor, gone, sync, job, loop, keys, views, lost>>
ViewerCloses ==
  /\ viewer.id # 0 /\ viewers = MaxViewers - 1
  /\ viewer' = [id |-> 0, files |-> << >>, pos |-> 1]
  /\ UNCHANGED <<folder, cursor, gone, sync, job, loop, keys, views, viewers, lost>>
ViewerMoves(i) ==
  /\ views < MaxViews /\ views' = views + 1
  /\ i \in 1 .. Len(viewer.files) /\ i # viewer.pos /\ viewer.files[i] \notin gone
  /\ viewer' = [viewer EXCEPT !.pos = i]
  /\ UNCHANGED <<folder, cursor, gone, sync, job, loop, keys, viewers, lost>>

(***************************************************************************)
(* handle_input: discover, and one input                                   *)
(***************************************************************************)
\* self.generation += 1: earlier snapshots are not looked at any more.
NotPassed(s) == s
Passed(s) == [s EXCEPT !.passed = TRUE]

\* discover and set_socket: a new imv gets the list of this directory once.
Pushable(s) == IF viewer.id = s.ignored THEN 0 ELSE viewer.id
DiscoverOnly(s, d) == IF Pushable(s) = s.socket THEN s
                      ELSE [Passed(s) EXCEPT !.socket = Pushable(s), !.directory = d]
Discover(s, d) ==
  LET id == Pushable(s) IN
  IF id = s.socket THEN s
  ELSE [Passed(s) EXCEPT !.socket = id, !.playlist = << >>, !.directory = d,
                         !.observed = Nothing, !.pending = id # 0]

\* on_move, after the cursor moved to f in d; nothing to do where imv is thought to be.
OnMove(s, d, f) ==
  IF s.observed = f /\ s.directory = d THEN [s EXCEPT !.pending = FALSE]
  ELSE [Discover(Passed(s), d) EXCEPT !.pending = Discover(s, d).socket # 0]
\* The checks that follow the input.
OnFolder(s, d) == IF d = folder THEN s ELSE [Passed(s) EXCEPT !.pending = s.socket # 0]

\* What the loop does with the state that an input leaves.
Then(s) ==
  /\ sync' = [s EXCEPT !.passed = FALSE]
  /\ job' = [job EXCEPT !.fresh = @ /\ ~s.passed]
  /\ loop' = [at |-> "push", quiet |-> ~s.passed]

\* set_socket in the first discover counts before handle_input takes the generation.
Begin == Discover(sync, folder)
Input(s) ==
  /\ loop.at = "input" /\ Then(s)
  /\ UNCHANGED <<viewer, views, viewers, lost>>

NoInput ==
  /\ loop.at = "input"
  /\ sync' = [Begin EXCEPT !.passed = FALSE] /\ job' = [job EXCEPT !.fresh = @ /\ ~Begin.passed]
  /\ loop' = [at |-> "push", quiet |-> TRUE]
  /\ UNCHANGED <<folder, cursor, gone, viewer, keys, views, viewers, lost>>
Pressed == keys < MaxKeys /\ keys' = keys + 1
\* A key, or a click, that moves the cursor, by one or several moves, or not at all.
Key(f) ==
  /\ Pressed /\ f \in ToSet(FilesIn(folder)) /\ cursor' = f
  /\ \/ Input(IF f = cursor THEN Passed(Begin) ELSE OnMove(Passed(Begin), folder, f))
     \/ \E g \in ToSet(FilesIn(folder)) \ {f, cursor} :
          Input(OnMove(OnMove(Passed(Begin), folder, g), folder, f))
  /\ UNCHANGED <<folder, gone>>
Cd(d) ==
  /\ Pressed /\ d # folder /\ FilesIn(d) # << >>
  /\ folder' = d /\ cursor' \in ToSet(FilesIn(d))
  /\ Input(OnFolder(OnMove(Passed(Begin), d, cursor'), d))
  /\ UNCHANGED gone
Delete ==
  /\ Pressed /\ Len(FilesIn(folder)) > 1
  /\ gone' = gone \cup {cursor}
  /\ cursor' \in ToSet(FilesIn(folder)) \ {cursor}
  /\ Input(OnMove(Passed(Begin), folder, cursor'))
  /\ UNCHANGED folder
\* stop_imv_tracking: this imv is ignored from now on.
Stop ==
  /\ Pressed /\ sync.socket # 0
  /\ Input([Passed(Untracked) EXCEPT !.ignored = viewer.id, !.directory = folder])
  /\ UNCHANGED <<folder, cursor, gone>>

(***************************************************************************)
(* sync_to_imv                                                             *)
(***************************************************************************)
Alive    == viewer.id = sync.socket
EnteringFolder == folder # sync.directory
Deleted  == \E f \in ToSet(sync.playlist) : f \in gone
Rebuild  == EnteringFolder \/ sync.playlist = << >> \/ Deleted
Paths    == IF Rebuild /\ (Images(folder) # << >> \/ Deleted) THEN Images(folder) ELSE sync.playlist
Pushing  == sync.pending /\ sync.socket # 0
Goes(at) == loop' = [loop EXCEPT !.at = at]
Loses    == IF Alive THEN lost < MaxLost /\ lost' = lost + 1 ELSE UNCHANGED lost

\* The cursor is on nothing in the list, or there is nothing to do.
Listed == cursor \in ToSet(Paths)
PushNothing ==
  /\ loop.at = "push" /\ ~(Pushing /\ Listed) /\ Goes("poll")
  /\ sync' = IF Pushing THEN [sync EXCEPT !.playlist = Paths, !.directory = folder, !.pending = FALSE]
             ELSE sync
  /\ UNCHANGED <<folder, cursor, gone, viewer, job, keys, views, viewers, lost>>

\* "close all", "open" ...: imv gets the list, shows its first image, and tells how many it has ...
PushList ==
  /\ loop.at = "push" /\ Pushing /\ Listed /\ Rebuild /\ Alive
  /\ viewer' = [viewer EXCEPT !.files = Paths, !.pos = 1]
  /\ sync' = [sync EXCEPT !.playlist = Paths] /\ Goes("goto")
  /\ UNCHANGED <<folder, cursor, gone, job, keys, views, viewers, lost>>
\* ... or a command is not acknowledged, after some arrived; or the count is not told in time.
RetryInFull(s) == [s EXCEPT !.playlist = << >>]
PushListFails ==
  /\ loop.at = "push" /\ Pushing /\ Listed /\ Rebuild /\ Loses
  /\ \/ /\ sync' = RetryInFull(sync)
        /\ \E files \in {viewer.files, << >>, Paths} :
             viewer' = IF Alive THEN [viewer EXCEPT !.files = files, !.pos = 1] ELSE viewer
     \/ /\ sync' = [sync EXCEPT !.playlist = Paths, !.pending = FALSE]
        /\ viewer' = IF Alive THEN [viewer EXCEPT !.files = Paths, !.pos = 1] ELSE viewer
  /\ Goes("poll")
  /\ UNCHANGED <<folder, cursor, gone, job, keys, views, viewers>>

Position(f, s) == CHOOSE i \in 1 .. Len(s) : s[i] = f
AtGoto == loop.at = "goto" \/ (loop.at = "push" /\ Pushing /\ Listed /\ ~Rebuild)
PushGoto ==
  LET i == Position(cursor, sync.playlist) IN
  /\ AtGoto /\ Alive /\ Goes("poll")
  /\ viewer' = IF i <= Len(viewer.files) THEN [viewer EXCEPT !.pos = i] ELSE viewer
  /\ sync' = [sync EXCEPT !.directory = folder, !.observed = cursor, !.pending = FALSE]
  /\ UNCHANGED <<folder, cursor, gone, job, keys, views, viewers, lost>>
PushGotoFails ==
  /\ AtGoto /\ Loses /\ Goes("poll")
  /\ sync' = RetryInFull(sync)
  /\ \/ UNCHANGED viewer
     \/ /\ Alive /\ Position(cursor, sync.playlist) <= Len(viewer.files)
        /\ viewer' = [viewer EXCEPT !.pos = Position(cursor, sync.playlist)]
  /\ UNCHANGED <<folder, cursor, gone, job, keys, views, viewers>>
Push == PushNothing \/ PushList \/ PushListFails \/ PushGoto \/ PushGotoFails

(***************************************************************************)
(* sync_from_imv                                                           *)
(***************************************************************************)
\* The thread asks imv what it shows.
Snapshot ==
  /\ job.at = "asked"
  /\ job' = [job EXCEPT !.at = "done", !.seen = IF viewer.id = job.id THEN Shown ELSE Nothing]
  /\ UNCHANGED <<folder, cursor, gone, viewer, sync, loop, keys, views, viewers, lost>>

\* What a snapshot that is still of this generation does.
Follow(seen) ==
  LET s == IF seen \in ToSet(sync.playlist) THEN sync ELSE RetryInFull(sync) IN
  IF /\ seen # sync.observed /\ folder = sync.directory /\ seen \in ToSet(FilesIn(folder))
  THEN cursor' = seen /\ sync' = [s EXCEPT !.observed = seen]
  ELSE UNCHANGED cursor /\ sync' = s
Poll ==
  /\ loop.at = "poll" /\ Goes("input")
  /\ IF ~loop.quiet \/ sync.socket = 0 \/ sync.pending \/ job.at = "asked"
     THEN UNCHANGED <<cursor, sync, job>>
     ELSE IF job.at = "none"
     THEN /\ job' = [at |-> "asked", fresh |-> TRUE, id |-> sync.socket, seen |-> Nothing, keys |-> keys]
          /\ UNCHANGED <<cursor, sync>>
     ELSE /\ job' = NoJob
          /\ IF job.fresh /\ job.seen # Nothing THEN Follow(job.seen) ELSE UNCHANGED <<cursor, sync>>
  /\ UNCHANGED <<folder, gone, viewer, keys, views, viewers, lost>>

ImvNext ==
  \/ \E d \in Folder : ViewerOpens(d) \/ Cd(d)
  \/ \E d \in Folder : \E f \in ToSet(FilesOf[d]) : Key(f)
  \/ \E i \in 1 .. Len(viewer.files) : ViewerMoves(i)
  \/ ViewerCloses \/ NoInput \/ Delete \/ Stop \/ Push \/ Snapshot \/ Poll

ImvFairness == WF_imvVars(NoInput) /\ WF_imvVars(Push) /\ WF_imvVars(Poll) /\ WF_imvVars(Snapshot)
ImvSpec == ImvInit /\ [][ImvNext]_imvVars /\ ImvFairness

ImvTypeOK ==
  /\ folder \in Folder /\ viewer.id \in 0 .. MaxViewers /\ sync.socket \in 0 .. MaxViewers
  /\ viewer.files # << >> => viewer.pos \in 1 .. Len(viewer.files)
  /\ sync.pending \in BOOLEAN /\ job.at \in {"none", "asked", "done"}
  /\ loop.at \in {"input", "push", "goto", "poll"}

\* What imv showed before an input never moves ranger's cursor after it ("results from before
\* subsequent input are discarded").
LateIsDiscarded == [][Poll /\ cursor' # cursor => job.keys = keys]_imvVars

\* When nobody touches either any more, imv and ranger come to the same image, unless ranger's
\* cursor is on no image, and stay there: they never push each other around.
Tracked == sync.socket # 0 /\ Alive
ComeToAgree == <>[](Tracked /\ cursor \in Image => Shown = cursor)

\* A late answer of the viewer does not undo an input, and once nobody touches cursor or viewer
\* any more, and no call gets lost, they agree.
ViewerAgrees == LateIsDiscarded /\ ComeToAgree
=============================================================================

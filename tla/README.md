# Verification of airy's programs

This directory holds TLA+ models of the programs of the *airy* repository, the
TLC configurations that check them on small instances, and TLAPS proofs about
them. The models are translations of the source; where the documentation and the
code disagree, the code is modelled and the disagreement is reported below.

    tlc -config JobsSafety.cfg MCJobsSafety     # executor: faults, and concurrency without them
    tlc -config JobsBatches.cfg MCTmuxJobs      # also JobsLive.cfg, JobsIdleExit.cfg
    tlc -config VcvtCrash.cfg MCVcvt            # also VcvtSuppressed.cfg
    tlc -config VdPaste.cfg MCVdPaste           # also VdPasteLoss.cfg, VdPasteLinks.cfg
    tlc -config Plugins.cfg MCPlugins           # the smaller plugins of ranger
    tlc -config Programs.cfg MCPrograms         # the smaller programs
    tlc -config Live.cfg MCLive                 # what must eventually happen
    tlapm TmuxJobsProofs.tla                    # also VcvtProofs, VdPasteProofs,
                                                # PluginsProofs, ProgramsProofs, ViewProofs

## 1. Inventory

*airy* is a personal system configuration: about 3000 small files, most of them
settings, notes and one-shot scripts. The programs below have state and control
flow of their own. None is modelled without exception; PROJECT.json says for
each what is left out, and so does section 6.

| component | state it keeps | operations | what is hard |
|---|---|---|---|
| **tmux-jobs** `tmux/bin/tmux-jobs.py` | SQLite tables `jobs` and `settings`; `launch.lock`, `coordinator.lock`; a tmux session with its panes | submit, `--unique`, `-j`, `-c`/`-C`, `-k`, `-K`, resume; `--worker`; `--run-job` | many processes on shared state, crashes at every step, late tmux requests, restarts, liveness |
| **legacy Bash executor** `tmux/bin/tmux-jobs` | queue, in-flight and log files, a FIFO, panes | submit, coordinate, recover, control commands | files that several processes rewrite, events of the dead |
| **vcvt** `ffmpeg/vcvt.py` | output files, `_prevN` backups, temporary markers, lock files, `todo/`, `queue/`, `done/` | convert, publish, archive, watch, enqueue through tmux-jobs; over directories by hand | crash between steps, roll-back, replay, overlapping calls |
| **paste pipeline** `ranger/plugins/pasteflow.py` | guards, the cut, the copy buffer, loaders, the pending jump | paste, copy, cut, delete, rename; guards that prompt; finish callbacks | answers long after the question, removed loaders, "exactly once" |
| **VD guard** `ranger/plugins/vdguard.py`, `vdutil.py` | staged links, links held aside | find, stage, settle, roll back | several steps of which one fails |
| **dangling-link monitor** `ranger/plugins/vddangling.py` | baseline of dangling links, timer | tick, check, acknowledge, re-point | every path has to set the timer again |
| **VD index and :vdsym** `ranger/plugins/vdsym.py`, `vdconf.py` | records per directory with their mtimes, views, rotation of jumps, questions | ensure, touch, find, jump, dashboard, replace | stale records, answers after the cursor has moved |
| **inode cache**, **probe cache** `inocache.py`, `vdprobe.py` | memo, unsaved rows, one SQLite table, index of durations with a marker | lookup, flush, fork, build, command line | processes that share the table, files that change while they are read |
| **cumulative sizes** `vdsize_cumulative.py` | rows of directories, snapshots of views, filter objects | dcsize with its modes, undo | background results, nested views |
| **tree filter** `treefilter.py` | layers over a tree | search, undo, release | searches that end after layers have gone |
| **duration view, :df** `vddur_sort_linemode.py`, `diff_frontend.py` | a cached scan, marks and cursors of two tabs | group, filter, pick two files | stale scans and marks |
| **flattened view** `cmd_view.py` | level and filter of a directory being loaded | flat_inode, flat, filter, reload | a walk wrapped into ranger's generator |
| **history, jumps** `history_navi.py`, `cmd_cd.py` | two ends of a bounded history; a path through symlinks | visit, back, forward; the jump commands | directories that vanish, spelled against resolved paths |
| **image preview** `image_preview_imv2.py` | list and position of a viewer, snapshots, tracking | follow in both directions, track, ignore, delay | late answers, lost commands, files dropped silently |
| **hooks** `rhooks.py` | wrapper stacks, callbacks, flags | register, patch, bind | reloading, two import names, wrappers of others |
| **clip.lua**, **sceneseeker.lua** `mpv/scripts/` | marks, preview jobs and images; a scan | keys, timers, callbacks of subprocesses | late callbacks, adoption and cancelling of jobs |
| **transient diff** `git/rev/transient_diff.py` | identity of every line, tombstones, lineages | walk commits, merge, report, print hunks | lines that move, return, and are edited in place |
| other mpv scripts, desktop and editor configuration, system setup | | | not modelled: third-party code or settings, see PROJECT.json |

How they interact. vcvt submits its batches to tmux-jobs (`--unique` in watch
mode) and is what tmux-jobs then executes, with the job id in `VCVT_JOB_ID`. The
plugins of ranger share the thread of ranger and `rhooks`; pasteflow calls the
guards of vdguard; vdguard finds links through vdsym's index and acknowledges
what it re-points in the baseline of vddangling; dcsize switches vddangling off
while it works; vdprobe's rows live in inocache, and the duration view, `dcsize`
and `:cd_samedur` ask them.

### The executor

Four kinds of processes meet in one state directory and one tmux session:

* **clients**, the command line (`main`): under `launch.lock` they check that the
  session is theirs, write settings, insert jobs in one transaction and make sure
  that a worker serves (`ensure_worker`);
* **workers** (`worker`): the one that gets `coordinator.lock` marks itself,
  recovers (requeues what lost its pane), and then polls: reconcile the table
  with the live panes, and under `launch.lock` dispatch, or leave when idle;
* **wrappers** (`execute_job`): one per attempt, in a pane of its own, named by a
  fresh token. A wrapper claims its job, runs the command, commits the outcome,
  and keeps a failed job's slot until ENTER or `-c`;
* **tmux** creates panes when asked, possibly after the asker has given up.

What makes it correct: an outcome is real, final, and written only by the attempt
that owns the row; a job that was accepted is served, or the submitter is told;
no slot is lost for ever; the controls are obeyed by whoever dispatches; locks
neither let two processes dispatch nor make everybody wait.

### The converter

`vcvt -w` is a pipeline over four directories' worth of names: producers rename
videos into `todo/`; one **watcher** moves them to `queue/` and submits each as a
job; the executor runs a **conversion** (`vcvt -i -D`) per attempt; a conversion
encodes `queue/NAME` into a marker file beside it with ffmpeg, publishes the
marker as `queue/OUTPUT` (a hard link keeps the previous output), and moves both
files to `done/`. They share nothing but the directories, one lock file per
output name, and the executor's table. Every move is a hard link and an unlink,
so that it can refuse to overwrite, and can stop half-way.

What makes it correct: no video that was delivered ever loses its last name; no
output does without a backup; what is published is whole; the archive is never
overwritten and pairs sources with their own outputs; success means archived;
every arrival gets there.

### The paste pipeline

A user cuts files (which drops what an earlier question was about), pastes,
deletes or renames them. The **guards** of vdguard look up which symlinks lead to
the files that are about to move and ask: U updates the links to where the files
will be, R replaces the links in the destination by the files, and so on. The
answer may come when a **loader** that was queued before has moved other files.
Links are *staged* (written to lead to the predicted place) before the original
method of ranger runs and *settled* (confirmed, corrected, rolled back) when its
loader is done, fails, or is removed. Dangling links in the way of a copy are
held aside.

What makes it correct: no file loses its last name; a link that led to a moved
file leads to it afterwards and nothing else is re-pointed; what was staged is
settled whatever becomes of the loader; a dangling link that was to be replaced
does not swallow the copy.

### Everything else

The caches have to describe the file they name as it was when it was read, and
never lose or resurrect a row; views have to show what they promise for the
listing of *now*; commands that ask have to do what they said when they are
answered; scripts beside a player have to survive callbacks that come late. The
hazards are listed one by one, at their lines, in PROJECT.json.

## 2. Modules

| module | content |
|---|---|
| `JobTable` | a row of the table and what each SQL UPDATE does to it: pure operators |
| `TmuxJobs` | the executor: processes, locks, panes, crashes; specification and fairness |
| `TmuxJobsProps` | its properties, the inductive invariant of the proofs, the refinement mapping |
| `JobQueue` | the abstract at-least-once queue that it implements |
| `BashJobs` | the executor in Bash: files, FIFO, panes, recovery, control commands |
| `Vcvt` | the converter, its watcher and the directories, on top of the actions of `JobQueue`; its properties and the inductive invariant |
| `VcvtBatch` | vcvt called by hand over directories and files, calls overlapping |
| `VdLinks` | links to files that are about to move: finding, staging, settling; pure operators on a tree |
| `VdPaste` | cut, copy, paste, delete, rename with guards and loaders; what they promise |
| `VdMonitor` | the dangling-link monitor, its timer, and its pausing by dcsize |
| `VdIndex` | the index of symlinks: validation of directories by mtime |
| `VdPasteProofs` | that the guards of `VdPaste` lose no file (`NoFileLost`) and give links back (`LinksAreBack`), proved |
| `VdSearch` | names in the views of several roots, numeric names of pictures |
| `VdSym` | the command `:vdsym` with its rotation, questions and dashboards |
| `ProbeCache` | memo, unsaved rows and table between threads and processes (inocache, vdprobe) |
| `ProbeRun` | vdprobe on the command line: scan, workers, batches, lines |
| `MediaHeaders` | the parsers of MP4, Matroska and WebP headers over a paged buffer |
| `DurationIndex` | the index from durations to paths with its marker, `:cd_samedur` |
| `DcSize`, `DcView` | cumulative sizes: counting while the disk changes; the view with sorting, filter and undo |
| `TreeFilter` | layers of searches over a tree |
| `PairView` | groups of equal durations and the choice of two files by `:df` |
| `FlatView` | the flattened directory |
| `HistoryNavi`, `Jumps` | the history of a tab; jumps over a tree with symlinks |
| `ImvSync`, `ImvName`, `ImvTracking` | the viewer: agreement by positions; by names; which viewer is followed |
| `Hooks` | wrapping of methods, callbacks, reloading |
| `Clip`, `SceneSeeker` | the two scripts of mpv |
| `TransientDiff` | lineages of lines; the hunks that are printed |
| `MCTmuxJobs`, `MCJobsSafety`, `MCVcvt`, `MCVdPaste` | instances of these for TLC |
| `MCPlugins`, `MCPrograms`, `MCLive` | several parts that share no state in one run: a behaviour is one of one part, chosen at the start |
| `TmuxJobsProofs`, `VcvtProofs`, `PluginsProofs`, `ProgramsProofs` | theorems and proofs about these parts |
| `ViewProofs` | theorems and proofs about what is shown and played: `DcSize`, `DcView`, `FlatView`, `TreeFilter`, `ImvTracking`, `SceneSeeker`, `VdSym` |

`TmuxJobs` extends `JobTable`; `TmuxJobsProps` instantiates `JobQueue` under a
refinement mapping. `Vcvt` instantiates `JobQueue` with its own state, so what it
assumes of the executor is what `TmuxJobs` is proved to provide. `VdPaste` builds
on the operators of `VdLinks`, `Jumps` on those of `HistoryNavi`. Where one
module relies on another only through what that one promises, it says so in its
header (`VdSym` and `VdMonitor` on a fresh index, `VdSearch` on validated roots).

### State and code: the executor

| variables | in the code |
|---|---|
| `jobs`; `mode`, `stop`, `limit`, `marker` | tables `jobs` and `settings`; `marker` is the pane id in the setting `worker` |
| `launchLock`, `coordLock` | the `flock`s; a holder that ends releases them |
| `panes`, `owned` | live panes and the session option `@tmux-jobs-python`. A session exists while it has a pane |
| `owner`, `wrap`, `child` | arguments and program position of each `--run-job` process, and its child |
| `wk`, `snap`, `batch`, `cur` | program position and locals of each worker |
| `cl`, `req`, `seen`, `cw` | program position, arguments and locals of each invocation |
| `faults` | counts what the environment did, for the bound `MaxFaults` |

One action is one SQL statement or transaction, one lock operation, one tmux
request or one process event; statements that nobody can tell apart are one
action, with a comment. In particular these pairs are *not* merged, because
other processes act between them: list-panes and the transaction of
`reconcile`; the row update and the tmux request of `launch_job`; the fork and
the assignment of `child`; `has-session`, `show-options` and `new-window`;
`new-session` and its `set-option`; the two lock releases of a leaving worker;
the transaction of `-K` and each `kill-pane`.

Abstractions: a command stands for argv and cwd; outcomes are `ok`, `fail` (any
other code, 127 included) and `interrupted` (137, written only by
`Store.finish`). Tokens are never reused, as uuid4 promises. A worker and its
pane, and an attempt and its pane, have one name, so recycled tmux pane ids are
not modelled. A requested pane may come up any time later while a session of the
name exists. Sleeps and time limits are nondeterminism: a timeout may always
happen, but giving up on a live worker is counted as a fault.

`BashJobs` has the files as sequences of records, the FIFO as a sequence of
events that lasts while a process has it open, and one action per file operation
or message; the coordinator's `read` takes events one at a time. A wrapper's event
may get lost whether the coordinator reads or not (`timeout 1s`, line 192); the
observer `untold` has the records whose failure got lost to a coordinator that was
there, `torn` those whose claim its end interrupted.

### State and code: the converter

| variables | in the code |
|---|---|
| `fs` | the directory entries of `todo/`, `queue/`, `done/`: which inode a name leads to |
| `prev`, `cvt` | the backups `OUTPUT_prev1`, `_prev2`, ... and the markers `OUTPUT.cvt-jobID` |
| `delivered`, `ver` | what producers have delivered, and how often they wrote to it afterwards |
| `status`, `attempt`, `outcome`, `begun`, `result`, `argv`, `held` | the executor: `JobQueue`, the commands, and failed jobs that keep their slot |
| `pc`, `jobOf`, `took`, `enc`, `lock` | each conversion's position, `VCVT_JOB_ID`, the `before` of `convert`, its ffmpeg, and the holders of `.OUTPUT.lock` |
| `torn`, `published` | observers: attempts whose source changed while it was encoded, and attempts that have published |
| `wpc`, `heard`, `pending`, `backlog`, `wname` | the watcher's position, unread inotify events, `pending` of `watch`, and what it is about to submit or move |

An inode is a video or the file of the attempt that encoded it; contents are not
modelled, except that a late write makes a new version. One action is one
directory operation, one lock operation, one scan or one process event. A move
is two actions, and so is `publish`.

Faults, each counted: ffmpeg fails (`encoder`); SIGTERM, SIGHUP or an I/O error
at any step (`interrupt`: the `except` of `archive` rolls back, everything else
just ends, ffmpeg dies too); SIGKILL at any step (`kill`: no handler, the lock is
released, ffmpeg goes on); the executor forgets an attempt that may still run
(`replay`); the watcher stops at any step (`watcher`); a producer writes again to
a file it has delivered (`writer`).

Abstractions: the scan of a directory and of its files by ffprobe is one step
(the submission that follows is another, so the result may be stale); the order
of `sorted(ready)` is any order; `--settle` is a nondeterministic delay; WebP
files, which are not probed, are videos of codec "other".

`VcvtBatch` is about calls by hand: a name is its stem, the tags of its
encodings, its backup number and its extension; a content is the original it
goes back to, the encodings it went through and the timing of its pictures. A
call selects files, chooses an encoder for each and converts them one by one, or
submits them; each of the steps between two file operations is an action. What
names and tags can say is open (`OtherWord`): a user may take any for `-ifx`, also
one that `GENERATED` does not know, and then the first part of `BatchesSettle`
promises nothing (`TagsAreKnown`).

### State and code: the paste pipeline and what it relies on

| variables of `VdPaste` | in the code |
|---|---|
| the tree | paths `<<directory, base, n>>`, where `n` counts the suffixes that ranger appends to make a name safe; a link holds the path it leads to |
| the copy buffer, the cut | `fm.copy_buffer`, `fm.do_cut`, the registry of cuts in pasteflow |
| the question, the paste | the console prompt of a guard with everything its closure captured |
| the loaders | ranger's `CopyLoader`s with the generator that pasteflow wraps around theirs: queued, running, ended or removed |
| the jump | the pending jump to what was pasted, with its retries |

One thread runs commands, answers and steps of loaders, so each of these is one
action; they interleave in every order, and other processes act between them.

`VdMonitor` has the links that dangle, the baseline, the timer, the tasks of
dcsize with the flag each saved, and the switch; ranger's idle loop is
`FairSpec`. `VdIndex` has the tree with its mtimes, the records, and walks that
hold the lock while others change the tree; mtimes have a resolution of a tick.
`VdSym` has the question that is open, what was captured with it, the index's
content, the cursor and the rotation.

### State and code: the smaller parts

* `ProbeCache`: per process a memo and unsaved rows, one table, and per thread
  the position in `lookup`; `Fork` copies the memory of a process. A stamp stands
  for mtime and size. `DurationIndex` is the second table of that database: which
  content (inode, mtime and size) each path leads to, so that links share one, the
  verdicts that are cached for it, and per process what it knows of the marker, the
  rows it has put, those that a thread's flush has taken, and what a build has left
  to resolve. Rows may be written, or fail to be, at any time of a build, and a chunk
  handed to a worker is one action: it writes the rows of hits, and returns
  what it probed, for one name each;
  `ProbeRun` has the list of files, forked workers with their shares, and the
  batches of mediainfo; `MediaHeaders` a file as a sequence of boxes and the
  parser's loop over a page.
* `DcSize`: two counters per directory (entries, edits in place) and its mtime,
  which a change within its tick leaves as it is; readings that fail, whose row is kept
  all the same (`vdsize_cumulative.py:337`, `371`); the loader's
  tasks, rows with the counters they were made of. `DcView`: directory settings,
  filters as objects with identity, the stack of snapshots.
* `TreeFilter`: searches that run, layers, the directories loaded. `PairView`: a
  directory whose files change, marks, the cached scan. `FlatView`: level and
  filters of a directory, the position of its generator and what that took as it
  began (`flatWalk`). `zh` and `:filter` only filter what is loaded again.
* `HistoryNavi`: history, position, what has vanished. `Jumps`: the path of the
  tab as it is spelled, over a fixed tree.
* `ImvSync`: ranger's cursor and folder, the viewer's list and position, commands
  under way, the last snapshot. `ImvName`: the list in chunks, guesses and
  answers. `ImvTracking`: sockets, bindings, settings, delays of steps, held or not.
* `Hooks`: per method the sequence of wrappers, per plugin its generation, what
  survives a reload.
* `Clip`: two edges with mark, job and image each, processes under way.
  `SceneSeeker`: one scan, its subprocess, a queue of events.
* `TransientDiff`: the file as a sequence of lines with identities, tombstones,
  lineages; the walk over one commit is one action; then what
  `render_hunks` makes of the changed and the reported lines of a file.

Data is a model value or a small set everywhere; the header of each module says
what is left out.

## 3. Runs

Every configuration has `CHECK_DEADLOCK FALSE`, because the systems really stop:
all invocations made, no worker left; everything delivered and archived; all the
bounded inputs used up. `SYMMETRY` is used in safety runs only; tokens, workers,
clients, attempts and videos are interchangeable there, and so are names that
share an output; jobs are not (they are dispatched in the order of ids).

| run | instance | question |
|---|---|---|
| `jobs_safety` | two, chosen at the start: 2 jobs, 4 tokens, 2 workers, 2 clients, 2 faults, submit and resume; or 3 tokens, 3 workers, 3 clients, no fault, and every command | Do two crashes, timeouts or lost panes, at any step, ever falsify a row (`OutcomeIsReal`, `RecordedIsFinal`, `InterruptedIsGone`)? Is mere concurrency harmless (`ExactlyOnceUndisturbed`, `NoLostWakeup`, `FailsOnlyOnVanishedSession`)? `ExecutorInv` is the invariant of the proofs |
| `jobs_batches` | 3 jobs, 2 commands, 3 tokens, limits 1 and 2, 2 clients, 1 fault; `--unique` batches, resume, `-j`, `-k`, `-K` | Does the executor implement `JobQueue` (`ImplementsQueue`)? Does `-K` fence before it kills (`KillFences`)? Does dispatch obey `-j` and `-k` (`DispatchObeysControls`)? Is `--unique` right for repetitions inside a batch and across batches (`UniquePending`)? |
| `jobs_live` | 1 job, 3 tokens, 3 workers, 2 clients, 1 fault, fair | `JobsFinish`, `NobodyWaitsForever` |
| `jobs_idle_exit` | violated | finding 1 |
| `vcvt_crash` | `clip.mp4` and `clip.webp` with one output, 2 videos under any of these names, 2 jobs, 3 attempts; 2 faults of all kinds | Is anything lost, overwritten or mixed up, or a partial or outdated encoding published, whatever stops where? `NoVideoLost`, `NoOutputLost`, `OutputsAreWhole`, `ArchiveIsKept`, and `IInv` |
| `vcvt_suppressed` | violated | finding 2 |
| `live` | a video and one that is AV1 already, 4 jobs, 4 attempts, 1 watcher crash; one link, 2 breaks, 2 tasks; two folders, 3 keys, 2 viewers; each fair | `ArrivalsAreArchived`, `DanglingIsTold`, `ViewerAgrees` |
| `paste` | sessions of commands over one or two linked files (`MCSessions`), any answer at any time, one removed loader or foreign file | Is a file ever lost (`NoFileLost`)? Do links to files that stay come back (`LinksAreBack`), and do links follow the files that move (`MovedLinksFollow`)? Is what was put aside replaced or settled (`AsideSettles`)? |
| `paste_loss` | violated | finding 3 |
| `plugins` | one of twelve plugins, chosen at the start | `ViewsAreTrue` (matches are reached, pairs are meant, the flat view shows what was shown, jumps land, searches find), `VdsymKeepsItsWord`, `HooksRunOnce`, `RowsAreTrue`, `IndexFresh`, `SizesAreTrue`, `DcViewIsTrue` |
| `programs` | one of eleven programs, chosen at the start | `PlayersAreLed` (previews, scene scans, imv by names and its tracking), `LinesAreTrue` (lineages, hunks, vdprobe's lines), `QueueIsKept`, `HeadersAreRead`, `IndexIsComplete`, `BatchesSettle` |
| `paste_links` | violated | finding 4 |

**Bounds.** Two jobs are what it takes for one to wait for another's slot and
for ids to order them; `jobs_batches` has a third, so that a batch of two meets
another job, and two commands that can each be pending once. Two faults let a
recovery be disturbed in turn. Where tokens or workers run out, the model just
stops there, which safety properties do not notice, and the liveness run has
enough of both that this never decides. `ClientBegin` asks for as many absent ids
as its batch has records: the bound on the table. `ExecutorInv` was also checked
by hand on the instance of `jobs_batches`.

In `vcvt_crash` two videos meet under one name or one output name in every
directory, and two faults let the roll-back or the replay after a fault be
disturbed again. In `live` jobs and attempts are plenty: a restarted watcher
submits what it finds at most once more.

In `paste` the sessions name what the user does in which order: a cut and a
paste, a second cut before the answer, overlapping pastes, renames onto names
that clash, deletions; answers, loader steps and foreign changes come at any
time. Names get up to `MaxSafe` suffixes and the session ends first.

In the joint runs each part has bounds of its own: `MaxX` counts an input of the
environment (changes, commands, failures, ticks), and each is at least what it
takes for two of them to meet. Some narrow the model on purpose, and say so where
they are declared: `Renames = "quiet"` lets files be renamed only between
lookups (`"ever"`: see the observations); `Anytime = FALSE` lets `dcsize undo`
come only when its task is done (`TRUE`: observations); `MaxLost = 0` loses no
command to imv; `TaskView = FALSE` removes only the first task (`TRUE`:
observations); `MaxEdits = 1`, `MaxFails = 1`.
`MaxCommits = 4` with `MaxMerges = 1` is a change, its loss, its return and one
more; `MaxSize = 9` lines let two groups of lines have contexts that meet,
overlap or stay apart, and files are changed on both sides only in their first
hunk. The clip script's `JobIds` are reused when nothing knows them any more.
Scenes are counted in steps of ten milliseconds where the code's epsilon is one.
`ProbeRun` forks after any file, where the code waits for a slow group of 256;
`DurationIndex` hands any part of what is left to a worker and flushes at any time,
where the code counts. `MaxGlances = 1` is one lookup, question or flush of a thread
during a build; the rangers are interchangeable there (`Rangers`).
By hand and with larger bounds: `DcView` with `MaxDcs = 3` and `MaxHands = 5` (the
first 2.9 million states, with the invariant of its proof),
`ImvName` with all natures of files (560 000), `Jumps` with `MaxJumps = 4`,
`VdSearch` with `MaxSearched = 3`; nothing new turned up.

Each property was checked to fail on a plausible bug of the code: the
definitions commented "A bug for the runs to find" are those variants, next to
the definition they would replace.

**Fairness.** Executor (`Fairness`, `Attended`): weak fairness of every worker,
wrapper and client: they are ordinary processes that nothing suspends, and all
their waits poll. A closed pane is noticed: the kernel sends SIGHUP to the
process in it. tmux answers a worker that still waits for it; a pane that comes up
after the worker has died is not promised. Commands terminate, and somebody
presses ENTER in failed panes (`Attended`): without these two no job has to
finish, by design. Nobody has to submit, resume, kill or crash anything.

Converter: conversions, ffmpeg and the watcher are ordinary processes; each name
the watcher has to look at is looked at, because it works its list off; the
executor starts queued jobs, records returns and gives up killed attempts
(`JobsFinish`); failed panes are released, and a watcher that ended is started
again. Nobody has to deliver anything. `ArrivalsAreArchived` holds without faults
of conversions only: an interrupted one leaves files for a person to look at.

Plugins: ranger's loop keeps running, so ticks come, the first loader makes steps
and a queued one gets its turn (`FairSpec` of `VdPaste`, stated of what a step does
to the loader, and `MonFairness`); inputs
are handled and snapshots return (`ImvFairness`). Users need not do anything.

## 4. Findings

1. **Submitting while a worker leaves can strand the batch** (`jobs_idle_exit`,
   `IdleExitRaceClosed`). The worker has given up its marker and both locks and
   only has its notification left; an invocation commits its jobs, sees the
   session that still exists, and calls `new-window`; the worker's pane closes
   in between and takes the session along. `new-window` fails, the invocation
   exits 1, and the jobs are queued with no coordinator.
   `tmux-jobs.py.md:53-55`: "This closes the enqueue-versus-idle-exit race."
   `FailsOnlyOnVanishedSession` shows that this is the only way in which an
   undisturbed invocation fails.
2. **An arrival can be dropped by `--unique`** (`vcvt_suppressed`,
   `ArrivalsEnqueue`). While the job of `queue/x.mp4` is archiving, its source
   is in `done/` already and its command still pending; a new `todo/x.mp4` is
   moved to `queue/` and its submission is suppressed as a duplicate. Nothing
   looks at it until a watcher starts again. `tmux-jobs.py.md:119`: "Watch
   arrivals always enqueue".
3. **A paste answered with U can lose the file** (`paste_loss`, `NoFileLost`). A
   cut file is pasted into a directory that has a link of its name leading to it.
   The staged link dangles until the file is there; ranger's `os.path.exists`
   takes its name for free, the move replaces the staged link by the file, and
   settling (`_finish_staged`, `vdguard.py:254-255`) renames a link over it.
   `vdguard.py:321`: "a foreign file owns the wanted name: never overwrite it".
4. **A link can be lost to its neighbour** (`paste_links`, `LinksFollow`). `v/a` leads
   to `s/b` and `v/b` to `s/a`; the files are cut one by one, answered U and R, and
   pasted. The replacement of one link should get the name that the other keeps:
   `if dest in owners: dest = None` (`vdguard.py:185-186`) takes that one for a link
   to the same file and makes none; when the file has moved the backup is unlinked
   and "1 updated, 1 replaced" notified. `vdguard.py:100`: "Re-point (U) or replace
   (R) symlinks once the files they led to have really moved". `MovedLinksFollow`
   shows that only links whose name goes to another file's link are lost (`Displaced`).

Observations without a run of their own; the models behave as described. Where a
constant is named, a run with that value shows it.

*tmux-jobs.* A late pane is not adopted: it comes up between the recovering
worker's list of panes and its transaction, and its job is requeued under it.
The fencing holds (`OutcomeIsReal`), so the effect is a second execution,
although `tmux-jobs.py.md:60` speaks of adoption. `-j` outlives its session
although the help says "default: 4 for new session". A worker killed by `-K` that
still holds `coordinator.lock` makes the next submission time out and fail.

*tmux-jobs in Bash.* Events of a former coordinator's panes are taken for those
of jobs with the same number; a record is lost when the coordinator dies between
popping it and writing it down, although the comment at 270 speaks of a crash
between claim and completion; a submission during the coordinator's exit stays
queued; a pane closed by the user costs a slot until the coordinator ends; an
event is given up after a second (192), also when the coordinator is there. When it
was `done`, the slot stays occupied until the coordinator ends; when it was `fail`, the
`done` after ENTER takes the `else` at 674-675, which takes the record out of `inflight`
and logs nothing, although `tmux-jobs.md:110-115` says of a failed pane that it "Writes
one failure.log entry": `FailuresAreLogged` of `BashJobs` is violated by 12 states in
which nobody meddles. `QueueIsKept` shows that no other record is lost, but those whose
claim was torn.

*vcvt.* The marker of a killed attempt makes the next one fail (`vcvt.py:333`),
although `tmux-jobs.py.md:141` promises "a private temporary directory"; it also
blocks later calls without a job id. Published but not archived is never
submitted again (`vcvt.py:362`; `tmux-jobs.py.md:162`: "Queue backlog is submitted
on watcher startup."). One unreadable file stops the watcher for good, or ends a
call over a directory; an arrival whose name is in `queue/` ends the watcher.
`-i -g` over a directory encodes its own outputs again; tags of `--ifx` that
GENERATED does not know are not recognised as outputs; `VCVT_SKIP_EXISTING=0` does
not disable skipping; the verdict `eligible` is stale when another call has
replaced the file before its turn; `clip.webp` delivered after `clip.mp4` is
hidden by their common output.

*Pasting.* A rename is done to the file under the cursor when the question is
answered, and a jump that was pending may have moved the cursor since; the links
of the other file are re-pointed. When another process takes the name of a staged
link, the old link is not put back but kept beside it, although "a cancelled or
failed move leaves everything as it was". A loader removed before its first step
settles nothing (`pasteflow.py:648-667`). Where two links have each other's names
and a paste with R is cancelled, `_rollback` (`vdguard.py:231-240`) puts one back
while the replacement of the other still has its name, or the other way round; the
one that loses is left as `.vdsym-old-…` and no problem is reported (`Crossed` in
`LinksAreBack`). A link whose new name is a foreign file's is re-pointed under its old
name (`vdguard.py:190`), although that name may be the one that another link gets.
`find_hits` answers "none" when the index
is busy, and misses links whose chain passes through a link outside the roots.
An overwriting copy that was queued before another move staged a link in its
destination writes through that link, which still dangles, and makes a file where
the move expects a free place: `_guard_dangling` has looked before, when the copy
was pasted. So the paste properties are checked for destinations without links in
the index (`Dests`); TLC shows the sequence when they have some.

*Monitor and index.* Links are acknowledged before they dangle, so one that
never does is forgotten; `_repoint_unique` turns a missing baseline into an empty
one, after which every dangling link is new. Each dcsize task saves the monitor's
switch and restores what it saved (`vdsize_cumulative.py:239`, `257`): when an older
task is removed before a newer one the monitor stays off (`TaskView = TRUE`,
`MonitorComesBack` of `VdMonitor`); `DanglingIsTold` is checked while only the first
task is removed. An error in the check itself would leave the timer unset
(`vddangling.py:140`); the model has no such error. In `visited` mode the index misses
changes below a directory after the visit; `_refresh` loses the warning about an
unreadable directory (`vdsym.py:385-400`). Both together: once the root could not
be listed its table is empty, nothing is reported any more, and `_locate`
(`vdsym.py:431`) finds nowhere to begin, so that searches in `visited` mode show
nothing until one in another mode lists the root again. `IndexFresh` is stated for
a root with a record; without that premise TLC shows this with three lookups
(`MaxWalks = 3`). `:vdsym -R` with a yanked symlink can
make a loop.

*Probe cache.* A file renamed over another between the stat and the read of a
lookup gets the other's row (`Renames = "ever"`; `vdprobe.py:411`, `427`).
`vdprobe.py:562` and `719` say that workers never touch sqlite, but a forked one
clears its memo and flushes rows of durations of its own; a root whose own name
has "-anim" is not kept by a scan; the index of durations does not notice files
that went (`317-328`), nor that a worker's flush failed (580), and a build's last
flush may store the marker while rows that a thread's flush has taken
(`inocache.py:246-258`) are still to be written. `_parallel` puts what a worker has
probed under the last path of the chunk with that inode (599-613), and the worker has
put only the names that it met after the first; so a file whose symlink (`scan` returns
them, 544) comes later in the chunk gets no row, and the marker is stored all the same,
after which no hit adds it: `IndexSeeded` of `DurationIndex` is violated by 5 states
without a change or a fault, although `build_duration_index` is to "Seed the path index"
(332). `IndexIsComplete` shows that no row is missing but in these ways. Truncated Matroska and WebP headers give partial answers,
and an `hdlr` after `minf` hides a video track.

*dcsize.* A directory whose listing fails (`vdsize_cumulative.py:337`) gets a row with
what was listed until then, and later commands answer from it until the directory has
another mtime or `fresh` is said; "racing changes force a rescan" (371) is not so for
one within the tick of the mtime. `undo` while a task runs is overwritten by it (`Anytime = TRUE`;
`vdsize_cumulative.py:60`, `616`). A filter object is shared between snapshots and
changed in place; `_snap_sort` reads an attribute that never exists, so a sort
that was local is restored as global (the text at line 29 says otherwise); the
undo of a parent brings a subdirectory's filter back. That filter counts again, for
the codecs of then; a later `dcsize video codec=` there keeps these counts, and its
undo brings them back while `SPEC` stays the new one (`_undo` restores `SIZES`
but not `SPEC`), so files are hidden by counts for codecs that nobody asks for any
more, although line 82 says "Changing codec spec clears all cached v SIZES".
`DcViewIsTrue` therefore speaks of directories without such counts (`outdated`).

*Other plugins.* After `zh` a flattened view lacks what is below directories that
were hidden when it was loaded (`cmd_view.py:80-90`), until it is loaded again.
A released layer of the tree filter filters a directory again
that is loaded later; the duration filter scans again only when the *number* of
files has changed (`vddur_sort_linemode.py:179` says "if listing changed"); `df -F`
with three or more marks ignores them, and `-M` is satisfied by a pair of the
current tab. A wrapper of another plugin is lost when a method is patched again
(the code says `ALT:BUG`). `cda -l` resolves relative links as text; `cda -M` takes
the last name, not the newest, when nothing is below. imv: a lost command
(`MaxLost = 1`) or a lost answer after opening leaves viewer and cursor apart; a
path too long for a message counts as sent; a delay count of 0 takes the last
preset.

*mpv and git.* In `clip.lua` a key between `start-file` and `file-loaded` uses the
previous file's marks, and a refreshed map of frame times makes previews under
way outdated. A scan of `sceneseeker.lua` whose result is queued before `end-file` may seek in the
next file. `transient_diff.py` splits lines with `splitlines()`, which knows more
separators than git, and a file that becomes binary can end it.

## 5. Proofs

All theorems hold for every value of the constants that satisfies the named
assumptions of the modules. The assumptions say that ids and bounds are numbers,
that the model's `None`s are none of the values they are absent from, that
processes of different kinds have different names, and that requests are well
formed; `Job` is finite because ids are handed out up to a bound. For the
converter: sources and outputs have different names (the tag in the output's name
guarantees it), videos and encoded files are different inodes.

| module | theorem | statement |
|---|---|---|
| `TmuxJobsProofs` | `Invariance`, `TypeCorrect` | `Spec => []IInv`, `Spec => []TypeOK` |
| | `AttemptsFenced` | every active row names an attempt launched for that job |
| | `RealOutcomes`, `Finality` | `OutcomeIsReal`, `RecordedIsFinal` |
| | `KillIsFenced` | `KillFences` |
| | `QueueImplemented` | `Spec => Queue!Spec`: the executor implements `JobQueue` |
| | `UniqueIsKept` | `UniquePending` |
| | `DispatchIsObedient` | `DispatchObeysControls`, for any finite number of jobs |
| | `InterruptionIsReal` | `InterruptedIsGone`, for any faults |
| | `NoWakeupIsLost` | `NoLostWakeup` |
| | `ExactlyOnce` | `ExactlyOnceUndisturbed` |
| | `FailureMeansNoSession` | `FailsOnlyOnVanishedSession` |
| | `ExecutorInvariance` | `Spec => []ExecutorInv`, all of these invariants together |
| `VcvtProofs` | `Invariance`, `TypeCorrect` | `Spec => []IInv`, `Spec => []TypeOK` |
| | `VideosSurvive`, `OutputsSurvive` | `NoVideoLost`, `NoOutputLost` |
| | `WholeOutputs` | `OutputsAreWhole` |
| | `ArchiveTells`, `ArchiveOnlyGrows`, `ArchiveKept` | archived pairs belong together and success means archived; nothing in `done/` is replaced; both (`ArchiveIsKept`) |
| `PluginsProofs` | `IndexComplete` | `IndexIsComplete` of the index of durations, for any numbers of rangers, paths, links, changes and failures |
| | `HooksOnce` | `HooksRunOnce` |
| | `RowsTrue` | `RowsAreTrue` of the probe cache, unless files are renamed within a lookup |
| | `RowsAreNotLost` | `RowsAreKept`, without that hypothesis |
| | `HistoryMoves`, `JumpsGoBack` | `NoStandstill`, `JumpGoesBack` of the history |
| | `FreshViews` | `IndexFresh` of the index of symlinks, for any tree |
| | `IndexTypes` | `IndexTypeOK` |
| `ProgramsProofs` | `QueueSurvives` | `QueueIsKept` of the executor in Bash, with events that get lost at any time |
| | `BashTypes` | `BashTypeOK` |
| | `CallsSettle` | `BatchesSettle` of vcvt called by hand |
| `VdPasteProofs` | `FilesSurvive` | `NoFileLost` of the paste guards, when nothing is pasted where links are guarded |
| | `PasteGuarded` | the invariant it follows from, under the same hypothesis |
| | `LinksComeBack` | `LinksAreBack` of the paste guards, without that hypothesis |
| | `LinksFollowFiles` | `MovedLinksFollow` of the paste guards, when nobody else holds the index as a paste goes ahead |
| `ViewProofs` | `SizesTrue` | `SizesAreTrue`, when codecs change and undos come between tasks (`~Anytime`) |
| | `SizesCount` | its second half, what a shown size counts, without that hypothesis |
| | `ViewTrue`, `ViewTypes` | `DcViewIsTrue`, `DcViewTypeOK`, also with undos while a task runs |
| | `FlatShows` | `FlatShowsWhatWasShown` of the flattened view, with `zh` at any time |
| | `TreeReached` | `MatchesAreReached` of the tree filter |
| | `TrackingUndone` | `TrackingIsUndone` of the viewer that is followed |
| | `ScansAreTrue` | `ScanIsTrue` and `SceneTypeOK` of the scene seeker |
| | `VdsymIsTrue` | `VdsymKeepsItsWord` of `:vdsym` |

**Rows and tokens.** `OutcomeIsReal` is not inductive: that a commit writes the
right outcome needs the row's token to belong to this very job (`RowOK`), which
needs a new launch to use a token that no row mentions, which needs tokens
without an owner to be exactly those of attempts never launched (`Started`).
`RecordedIsFinal` needs a launch to touch only queued rows; the worker fixed its
batch earlier, so the batch must stay queued while it is launched (`BatchOK`): no
other step takes a row out of the queue (`QueuedStays`), and no second worker
launches, because launching works under `launch.lock` (`Exclusion`). `TableSteps`
says that only a dozen actions touch rows, owners or commands; each part of the
invariant is one lemma with one step per action, and `IInvStep` collects them.

**The refinement.** Under the mapping a row's status is the abstract job's, its
token the attempt. Each kind of step that `TableSteps` names maps to one abstract
action, everything else to a stutter; a launch needs `BatchOK`, a commit `RowOK`.
For
`DispatchObeysControls` the slots counted at the beginning of a batch have to be
enough for what is left of it: rows only leave the held slots meanwhile, which
takes lemmas about cardinalities of finite sets.

**Panes.** `InterruptedIsGone` needs to relate the worker's older list of panes to
those of now: panes that came up since belong to attempts that are not in its list
and whose rows are either not active or not to be written off (`PanesInv`, which
holds whatever fails). Without faults more is true: the marker names the
coordinator as long as it has its pane (`MarkerOK`), and unfinished work has a
coordinator or an invocation that will see to it (`WorkIsSeenTo`), from which
`NoLostWakeup` follows. While nothing is disturbed each wrapper is at the point
that its row says (`UndisturbedOK`), so no recovery finds an active row without its
pane, and an invocation that starts a worker leaves `coordinator.lock` to it
(`StarterOK`): hence exactly once, and a failure only when the session has gone.

**The converter.** That a file with a name keeps one needs that whatever is about
to be unlinked or replaced has a second name or a backup *now* (`Doubled`): it had
one when the link was made, and nobody can have taken it away since, because
everybody who writes these entries does so under the lock of the same output
(`Locked`, `Exclusive`, `Undisturbed`), except the watcher and the producers, who
overwrite nothing (`NothingOverwritten`). That outputs are whole needs to know
that what `Replace` renames is the attempt's own marker (`Encoded`, `OwnMarker`).
That the archive pairs what belongs together needs to say of each attempt between
its moves which files in `done/` are its own (`OwnFiles`), and of each finished
attempt what it left (`Outcomes`, `Successes`); the output's lock and the check
for collisions before archiving make a pair the work of a single attempt.

**The plugins.** *Durations*: the invariant says of each process on its own
(`Fine`) that whatever it holds of a path, put or taken by a thread's flush, is the
content of now unless the path is excused (`PutsOf`); that if it builds and has
resolved a path, or has the marker to write, the path has its row in the table or
among those it holds (`BuildMissesNothing`); and that a marker which a thread's flush
has taken goes with all the rows that are not stored (`MarkIsBacked`).
Other processes only add rows that are right (`PutGrows`, `FineKeeps`), so each
action has to be looked at for one process. What makes a row go missing is one of
the named cases: the file changed, a failed write nobody hears of, a marker that
overtakes a thread's flush, another name later in the chunk. *Hooks*: the wrappers
on every method are distinct and end in ranger's own, what a plugin remembers as
the original is a suffix of them without its own wrapper, and flags that survive
a reload agree with what is bound. *Probe cache*: what lies in a memo, among the
unsaved rows, in a flush under way or in the table describes the contents at its
stamp (`VerdictsAreOwn`, `StampsAreOld`); a stamp never comes back for other
contents. *History*: adjacent entries differ after `Fork`, `Visit` and a jump, also
when the oldest entry is dropped.

**The executor in Bash.** Its properties hold as long as no event of a former
coordinator is taken for one of the present (`confused`), so the invariant
(`BashIInv`) is about job numbers first: each is given once in a coordinator's
life, to one pane, and panes and events of the present coordinator have numbers
that it has given (`NumbersOK`). From that follows that an event tells the truth
about its pane (`EventsOK`): after `done` and `dead` it lives no more, so forgetting
a job frees a slot that is free (`SlotsKept`). An end that is not well leaves no
line in a log by itself; the record is not lost because a failure is always told
before the end (`FailuresTold`), which the order of the FIFO keeps, or is among
those that were `untold`. While nobody
meddles no pane outlives its coordinator and nothing is left in `inflight`
(`CalmOK`), so that no recovery starts a record again. That
`_inflight_remove` takes one line and that line only is a lemma about sequences
(`LineRemoved`).

**vcvt by hand.** `BatchesSettle` speaks of calls that have ended, so the invariant
(`BatchIInv`) says of each file of a call what is true meanwhile: it waits for its
turn in some process or job, or has its encoding, or the call has failed
(`Settling`). The rest is that what the call found stays true until then
(`Untouched`). Nobody but the user writes at a plain file: `publish` writes an
output and a backup of it, and both are recognised by their tags
(`OutputsAreGenerated`), if the tag is a known one; a job selects the file that it
was submitted for, whatever was published since; and it writes the output that its
call expects, since it is handed the encoder, the quality and the tag
(`JobsKeepPlans`). That nothing is overwritten needs a free number for a backup:
there is one among the first n + 1 where n files are (`BackupIsFree`). The timing
of an animation survives because a picture is encoded from a `.webp`, and no output
is one (`PicturesOK`).

**The paste guards.** Between the staging of links and their settling a loader
runs, other loaders, commands and processes act, and settling renames links over
whatever is at the names that were chosen long before. `NoFileLost` holds because
these names are where no file comes meanwhile. So the invariant (`PasteInv`) says
of every loader that has not ended that the places of its staged links are outside
the destinations and hold none of the files (`Off`), and that what it holds aside
are links; of every question, that its answer puts files into destinations only.
Every step is then one of three kinds, and each kind is shown to keep the
invariant once: it touches none of the files (`SameFiles`: staging, settling,
rolling back, dashboards, links), it keeps each of them under some name of a
destination (`KeepsAll`, `Adds`: moves, copies, renames), or it is a deletion or an
overwriting move. Settling and rolling back run over all staged links;
that they keep the files for any number of them is shown with the least step
that would not (`LeastNat` in `RollbackKeeps`), in place of an induction. That
staging replaces no file is the check `Taken` for every kind of answer.

The hypothesis (`LinksElsewhere`) is that destinations are neither directories whose links
are indexed nor dashboards. It is necessary: without it finding 3 loses a file
(`paste_loss`). It is a condition on what a user does, not on the code. Assumed
besides (`PasteAssumption`): directories, names and files are finitely many, copies
get inodes of their own, and the files of a session lie at paths of the model, each
under one name (hard links are not modelled; `_locate` compares inodes and would take
one name of a file for another).
A transfer that would need a safe name beyond `MaxSafe` is outside the model; that
bound is part of its guard.

`LinksAreBack` and `MovedLinksFollow` are about the step that ends a paste, in which
`_finish_staged` writes some links again, unlinks their backups and rolls the others
back in reverse order. What has to be known about the state before does not depend on
the directories: each link is staged once, in its own directory, with its file
expected in the destination of the paste, and every link that was asked for is staged
(`LinksInv`), whatever was found, cancelled or answered before. The rest of
`LinksAreBack` is about a loop of any length: undoing a stage gives its own link back or keeps its backup
(`UndoneBack`), and once that is so, undoing another stage changes it only if the
replacement of that one has the link's name and reads like it (`OthersStayBack`); a
least step at which it is lost takes the place of an induction (`RollbackBack`). Links
left at old places are put only where nothing is (`LeaveLinksOnly`).

For `MovedLinksFollow`, `_locate` has to find the file (`LocateLanded`): the predicted
name if the file is there, else the inode somewhere beside it. That is the file only
because each file has one name in every state of a session (`OneName`): no step copies
an inode, and most only remove names (`Fewer`); a move gives one file another
(`MoveOne`). Of the stages with one destination the last written counts, and where they
are all for one file, all say the same (`LinkedWrites`); the stages undone after that
have other destinations (`RollbackLeaves`). `Displaced` says exactly when they are not
all for one file, which is finding 4. The hypothesis (`IndexFree`) is that no other
process holds the index at the moment a paste goes ahead; if one does, `go` stages
nothing and the links stay as they are.

**The index.** `VdIndex` defines what a directory is below (`Upward`) as what is in
every set that rises from it. That takes the place of an induction over the tree:
to show something of everything between a directory and the start of a walk, one
shows that the set of what contradicts it rises, so that it would have the start
(`WalkComplete`, `NearestIn`). The invariant says why a record can be trusted: one
that is not racy is older than any change to come, and right as long as its mtime
is the directory's (`Honest`); and where fd listed first and the mtime was taken
later, whatever changed in between has an mtime that is not older than the lookup
(`TimesOK`), so its record is racy. A walk has seen what is there below its start,
or has it still to come, except where something changed (`ReadingOK`); whatever a
lookup has to cover has the right record or a walk to come above it (`CoverOK`);
and a view of the present version is one of the present records (`ViewOK`).
Assumed: the directories are a tree under the root, and a name is not a directory
and a link at once.

**Cumulative sizes.** What a task shows is at least what was there when it was asked
for, because a row of the cache has the entries of its mtime or is of a listing that
failed (`RowsCount`), and a job that took the mtime after the command takes no row
of an mtime before (`LoadsCount`); an mtime is never ahead of the entries;
codecs are those of now because with no task on its way a command clears what was
counted for others, and a snapshot has no counts yet (`CodecsOfNow`). In the view
the identity of filters matters: a `DcFilter` is changed in place while stacks
and the lists in snapshots share it, so the invariant (`ViewIInv`) says that each
belongs to the directory it was made for (`OwnFilters`): changing it disturbs no
other directory, and any list that is brought back has one at most. That a count
which is not `outdated` is unknown or right (`CountsOK`), also in the snapshots
(`SnapOK`), makes every refiltering hide only what it has a reason to hide
(`RefilterTells`), and the reason stays until the directory is filtered again.

**Views, viewers and jumps.** *The flattened view*: the entries that are remembered
are always those visible before; what is loaded was walked from them by what the walk
took as it began, and what is shown of it is filtered by what holds now (`FlatIInv`);
every other step unloads it. What a filter of now lets pass was not pruned, unless
`zh` has shown it since (`Unwalked`). *The tree filter*: the
matches of a layer are within reach through that layer and those *before* it
(`Reached`), for every layer: a newer one may hide them, but is dropped first, and
dropping a layer in between only shows more, since what is left keeps its order
(`LayersInOrder`). *The viewer*: while one is
followed, each key has the tracking command with the user's own kept aside, or what
the user has set since (`Undoable`); sockets carry when they were made, so that a
new one under an old process id is not among those that were stopped (`Stopped`).
*The scene seeker*: of the changes that a scan is after, none lies between its origin
and its cursor (`Covered`), and a result on its way is that of the window at the
cursor, or of a scan that is over; so the nearest change in the window is the nearest
of all (`TheNearest`), and where there is none the cursor passes the window without
leaving one behind (`ThePassed`). *Jumps with -r*: a rotation has each of its
members once (`Circle`), and whatever two stops of a tour are less than a round
apart, their positions differ by as many places, modulo the round (`Round`); it is
this form that is inductive, where "all stops differ" is not, because a tour goes on
after its first round. *Hooks*: a call has been let through by exactly those before
the one it waits for (`Asked`). *Questions*: each directory with a replaced link is
told or still touched, and with no question open nothing is touched (`Telling`).

**Only model-checked.** Liveness (`JobsFinish`, `NobodyWaitsForever`,
`ArrivalsAreArchived`, `DanglingIsTold`, `ViewerAgrees`, `AsideSettles`): the
prover has no reasoning about fairness. Modules with recursive operators, where it
loses its backend (`ImvName`, `Jumps`, `TransientDiff`). The joint properties of several parts (`ViewsAreTrue`,
`PlayersAreLed`, `LinesAreTrue` and the type invariants of the MC modules). The
part of `AsideSettles` that is no liveness property, `DanglingReplaced`, is true of the
run's instance and not of every one: dangling links in the way are held aside when the
copy is asked for, and one that another paste brings to the destination before the
loader gets there would be written through.
`HeadersAreRead`, where the parser runs over a file box by box, an
induction over data.

## 6. Plan

Done: the executor with its safety and action properties proved; the converter
likewise; the paste pipeline, the plugins and the other programs modelled and
checked; the first plugins, the index, the views and viewers, `:vdsym`, the executor in Bash
and vcvt by hand proved, and that pasting loses no file, gives links back and has them
follow what moved.

Next: proofs about `Clip`.

Not modelled: third-party scripts for mpv and settings of third-party programs;
the code commented out in `vdguard.py` (870-1165); `cda -m`; ids of panes that a
restarted tmux server hands out again; moves across file systems; bulk renames;
parsing of command lines and drawing.

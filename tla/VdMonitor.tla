------------------------------ MODULE VdMonitor ------------------------------
(***************************************************************************)
(* src/ranger/plugins/vddangling.py: telling of symlinks that start to     *)
(* dangle behind ranger's back.  Every check compares with the one before. *)
(* A one-shot timer starts a check when the user is quiet, and again when  *)
(* ranger's loader or the index is busy.  dcsize (vdsize_cumulative.py)    *)
(* turns the monitor off while it walks the tree.                          *)
(* The index is that of VdIndex: here it has all links.                    *)
(***************************************************************************)
EXTENDS Integers, Sequences, SequencesExt

CONSTANTS Symlink,
          TaskView,  \* BOOLEAN: the user removes tasks other than the first (dd in the task view)
          MaxBreaks, MaxTasks, MaxVisits  \* bounds on changes, tasks, and commands of the user
ASSUME MonitorAssumption ==
  TaskView \in BOOLEAN /\ MaxBreaks \in Nat /\ MaxTasks \in Nat /\ MaxVisits \in Nat

VARIABLES broken,       \* the symlinks that lead nowhere
          known, based, \* mon.known; not based: None
          armed,        \* mon.deadline # None
          on,           \* vdconf.DANGLING_MONITOR
          loader,        \* ranger's loader: [kind, started, old, breaks], the first one works
          warm,         \* the thread that builds the index
          check,        \* check_dangling, link by link, with the lock
          breaks, tasks, visits  \* counted for the bounds
monVars == <<broken, known, based, armed, on, loader, warm, check, breaks, tasks, visits>>

NoCheck == [by |-> "nobody", left |-> {}, found |-> {}]

MonInit ==
  /\ broken \in SUBSET Symlink /\ known = {} /\ based = FALSE /\ armed = FALSE /\ on = TRUE
  /\ loader = << >> /\ warm = "no" /\ check = NoCheck
  /\ breaks = 0 /\ tasks = 0 /\ visits = 0

\* Other programs break and mend symlinks.
Break(l) ==
  /\ breaks < MaxBreaks /\ breaks' = breaks + 1
  /\ broken' = IF l \in broken THEN broken \ {l} ELSE broken \cup {l}
  /\ UNCHANGED <<known, based, armed, on, loader, warm, check, tasks, visits>>

(***************************************************************************)
(* check_dangling                                                          *)
(***************************************************************************)
Busy   == loader # << >>
IndexLocked == warm \in {"building", "checking"}
\* The user's thread does one thing at a time.
AtEase == check.by \in {"nobody", "warm"}
Starts(by) == check' = [by |-> by, left |-> Symlink, found |-> {}]
CheckLink(l) ==
  /\ check.by # "nobody" /\ l \in check.left
  /\ check' = [check EXCEPT !.left = @ \ {l}, !.found = @ \cup ({l} \cap broken)]
  /\ UNCHANGED <<broken, known, based, armed, on, loader, warm, breaks, tasks, visits>>
\* The first check is the baseline; later ones tell what is new.
CheckDone ==
  /\ check.by # "nobody" /\ check.left = {}
  /\ known' = check.found /\ based' = TRUE
  /\ check' = NoCheck /\ warm' = IF check.by = "warm" THEN "done" ELSE warm
  /\ UNCHANGED <<broken, armed, on, loader, breaks, tasks, visits>>

\* _tick: a check that cannot run now is tried again.
ArmAgain == on
Tick ==
  /\ armed /\ AtEase
  /\ IF on /\ ~Busy /\ ~IndexLocked
     THEN Starts("tick") /\ armed' = FALSE
     ELSE armed' = ArmAgain /\ UNCHANGED check
  /\ UNCHANGED <<broken, known, based, on, loader, warm, breaks, tasks, visits>>

(***************************************************************************)
(* The user                                                                *)
(***************************************************************************)
Acts == AtEase /\ visits < MaxVisits /\ visits' = visits + 1
\* _on_cd of vdsym: the first time the index is built in the background.
CdVd ==
  /\ Acts /\ armed' = (armed \/ on) /\ warm' = IF warm = "no" THEN "building" ELSE warm
  /\ UNCHANGED <<broken, known, based, on, loader, check, breaks, tasks>>
\* _preflight of a :vdsym that refreshes the index.
Preflight ==
  /\ Acts /\ armed' = (armed \/ on)
  /\ IF on /\ ~Busy /\ ~IndexLocked THEN Starts("preflight") ELSE UNCHANGED check
  /\ UNCHANGED <<broken, known, based, on, loader, warm, breaks, tasks>>
\* _repoint_unique of links that have one candidate.
Repoint(ls) ==
  /\ Acts /\ ~IndexLocked /\ ls # {} /\ ls \subseteq broken
  /\ broken' = broken \ ls /\ known' = known \ ls /\ based' = TRUE
  /\ UNCHANGED <<armed, on, loader, warm, check, breaks, tasks>>

\* _warm and _baseline.
Warmed ==
  /\ warm = "building" /\ warm' = "built"
  /\ UNCHANGED <<broken, known, based, armed, on, loader, check, breaks, tasks, visits>>
Baseline ==
  /\ warm = "built" /\ check = NoCheck
  /\ IF ~based /\ on THEN Starts("warm") /\ warm' = "checking"
     ELSE warm' = "done" /\ UNCHANGED check
  /\ UNCHANGED <<broken, known, based, armed, on, loader, breaks, tasks, visits>>

(***************************************************************************)
(* ranger's loader                                                         *)
(***************************************************************************)
\* A paste that the user lets leave a link dangling (_acknowledge), or a dcsize: put first.
Add(kind, ls) ==
  /\ AtEase /\ tasks < MaxTasks /\ tasks' = tasks + 1
  /\ loader' = <<[kind |-> kind, started |-> FALSE, old |-> FALSE, breaks |-> ls]>> \o loader
  /\ known' = IF based THEN known \cup ls ELSE known
  /\ UNCHANGED <<broken, based, armed, on, warm, check, breaks, visits>>
\* The first task starts; dcsize turns the monitor off (_pause_vdsym_monitor) ...
StartTask ==
  /\ AtEase /\ loader # << >> /\ ~loader[1].started
  /\ loader' = [loader EXCEPT ![1].started = TRUE, ![1].old = on]
  /\ on' = IF loader[1].kind = "dcsize" THEN FALSE ELSE on
  /\ UNCHANGED <<broken, known, based, armed, warm, check, breaks, tasks, visits>>
\* ... and restores it when it is done or removed (_restore_vdsym_monitor).
StaysUnarmed(t) == armed
Rearmed(t) == armed \/ t.old
Ends(i) ==
  LET t == loader[i] IN
  /\ loader' = RemoveAt(loader, i)
  /\ IF t.started /\ t.kind = "dcsize" THEN on' = t.old /\ armed' = Rearmed(t)
     ELSE UNCHANGED <<on, armed>>
EndTask ==
  /\ AtEase /\ loader # << >> /\ loader[1].started /\ Ends(1)
  /\ broken' = broken \cup loader[1].breaks
  /\ UNCHANGED <<known, based, warm, check, breaks, tasks, visits>>
RemoveTask(i) ==
  /\ AtEase /\ (i = 1 \/ TaskView) /\ Ends(i)
  /\ UNCHANGED <<broken, known, based, warm, check, breaks, tasks, visits>>

MonNext ==
  \/ \E l \in Symlink : Break(l) \/ CheckLink(l) \/ Add("paste", {l})
  \/ CheckDone \/ Tick \/ CdVd \/ Preflight \/ Warmed \/ Baseline \/ StartTask \/ EndTask
  \/ Add("dcsize", {})
  \/ \E ls \in SUBSET Symlink : Repoint(ls)
  \/ \E i \in DOMAIN loader : RemoveTask(i)

MonFairness == /\ WF_monVars(\E l \in Symlink : CheckLink(l)) /\ WF_monVars(CheckDone)
               /\ WF_monVars(Tick) /\ WF_monVars(Warmed) /\ WF_monVars(Baseline)
               /\ WF_monVars(StartTask) /\ WF_monVars(EndTask)
MonSpec == MonInit /\ [][MonNext]_monVars /\ MonFairness

MonTypeOK ==
  /\ broken \subseteq Symlink /\ known \subseteq Symlink
  /\ armed \in BOOLEAN /\ on \in BOOLEAN /\ based \in BOOLEAN
  /\ warm \in {"no", "building", "built", "checking", "done"}
  /\ check.by \in {"nobody", "warm", "tick", "preflight"} /\ check.found \subseteq Symlink

\* A symlink that dangles unknown to the last check, while the timer runs or dcsize has turned
\* it off, is noticed, or mended: neither a busy loader or index nor a dcsize in between loses
\* the check ("nothing is lost, the next check simply compares against the older state").
Watching == armed \/ ~on
DanglingIsTold ==
  \A l \in Symlink : Watching /\ based /\ l \in broken \ known ~> l \in known \/ l \notin broken

\* The monitor is off only while a dcsize walks the tree ("Pause the whole-tree dangling-link
\* scan while dcsize walks the tree").
MonitorComesBack == on \/ \E i \in DOMAIN loader : loader[i].kind = "dcsize" /\ loader[i].started
=============================================================================

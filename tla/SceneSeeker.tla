----------------------------- MODULE SceneSeeker -----------------------------
(***************************************************************************)
(* src/mpv/scripts/sceneseeker.lua: PgDn and PgUp search the next and the  *)
(* previous abrupt change of the picture.  ffmpeg scans one window of the  *)
(* file after the other in a subprocess; between them playback follows the *)
(* scan, and a key can stop it.                                            *)
(*                                                                         *)
(* Times are milliseconds.  ffmpeg's scene filter is external: it prints   *)
(* the changes whose frames are in the window, of which the first only     *)
(* when the scan goes forward.  An aborted subprocess may have ended well. *)
(*                                                                         *)
(* What happens to the file reaches the script as an event, in a queue     *)
(* with the results.  Left out: messages, and files that cannot be scanned.*)
(***************************************************************************)
EXTENDS Integers, Sequences, FiniteSets, FiniteSetsExt

CONSTANTS
  SceneFile,               \* the files that are played, one after the other
  SceneFrame,              \* the times of the frames
  SceneDuration, Window,   \* the length of a file, and opts.window
  MaxScans, MaxSeeks       \* bounds: key presses, seeks by the user

Epsilon == 1

ASSUME SceneAssumption ==
  /\ SceneFrame \subseteq 0 .. SceneDuration - 1 /\ 0 \in SceneFrame
  /\ SceneDuration \in Nat /\ Window \in Nat \ {0}

VARIABLES
  changesOf,   \* [SceneFile -> the frames that differ abruptly from the one before]
  playing,     \* the file that is played
  timePos,     \* where
  active,      \* the scan that is going on, if any
  windows,     \* the subprocesses and their results on the way: [scan, lo, hi]
  timer,       \* the next window waits for the queued keys
  fileEvents,  \* number of files that the script has not been told of
  pressed,     \* observed: key presses; the number of one is that of its scan
  wished,      \* observed: the scan that the user last asked for and did not stop
  verdict,     \* observed: how the last scan ended: [how, scan, at, wished]
  seeks        \* counted for the bound
sceneVars == <<changesOf, playing, timePos, active, windows, timer, fileEvents, pressed,
               wished, verdict, seeks>>

NoScan == [id |-> 0, direction |-> 0]
NoVerdict == [how |-> "none yet", scan |-> NoScan, at |-> 0, wished |-> 0]
SceneVerdict(how, scan, at) == [how |-> how, scan |-> scan, at |-> at, wished |-> wished']

SceneInit ==
  /\ changesOf \in [SceneFile -> SUBSET (SceneFrame \ {0})]
  /\ playing \in SceneFile /\ timePos \in SceneFrame
  /\ active = NoScan /\ windows = {} /\ timer = FALSE /\ fileEvents = 0
  /\ pressed = 0 /\ wished = 0 /\ verdict = NoVerdict /\ seeks = 0

-----------------------------------------------------------------------------
(* scan_window *)

LowEnd(scan)  == IF scan.direction = 1 THEN scan.cursor ELSE Max({0, scan.cursor - Window})
HighEnd(scan) == IF scan.direction = 1 THEN Min({SceneDuration, scan.cursor + Window})
                 ELSE scan.cursor

\* The scan goes on with its next window, in the scan's own cursor, or stops.
ScanWindow(scan) ==
  IF HighEnd(scan) <= LowEnd(scan)
  THEN /\ active' = NoScan /\ verdict' = SceneVerdict("nothing", scan, 0)
       /\ UNCHANGED windows
  ELSE /\ active' = scan /\ UNCHANGED verdict
       /\ windows' = windows \cup {[scan |-> scan, lo |-> LowEnd(scan), hi |-> HighEnd(scan)]}

\* ffmpeg: trim and select; -frames:v 1 forward
Printed(w) ==
  LET selected == {t \in changesOf[w.scan.file] : w.lo <= t /\ t < w.hi}
  IN IF w.scan.direction = 1 /\ selected # {} THEN {Min(selected)} ELSE selected

\* the changes of the result that count, and the best of them
Beyond(w) == {t \in Printed(w) : /\ t >= w.lo - Epsilon /\ t < w.hi
                                 /\ (t - w.scan.origin) * w.scan.direction > Epsilon}
NearestOf(scan, times) == IF scan.direction = 1 THEN Min(times) ELSE Max(times)

CursorAfter(w) == IF w.scan.direction = 1 THEN w.hi ELSE w.lo

StillActive(w) == active.id = w.scan.id

\* The callback of the subprocess. A scan that is active has one; a stopped one
\* was aborted, but its result may be there already.
WindowDone(w, ok) ==
  /\ w \in windows /\ windows' = windows \ {w} /\ UNCHANGED wished
  /\ IF ~StillActive(w) THEN UNCHANGED <<active, timer, timePos, verdict>>
     ELSE IF ~ok
     THEN /\ active' = NoScan /\ verdict' = SceneVerdict("failed", w.scan, 0)
          /\ UNCHANGED <<timer, timePos>>
     ELSE IF Beyond(w) # {}
     THEN /\ active' = NoScan /\ timePos' = NearestOf(w.scan, Beyond(w))
          /\ verdict' = SceneVerdict("found", w.scan, timePos') /\ UNCHANGED timer
     ELSE LET cursor == CursorAfter(w)
          IN /\ timePos' = cursor
             /\ IF cursor <= 0 \/ cursor >= SceneDuration
                THEN active' = NoScan /\ verdict' = SceneVerdict("nothing", w.scan, 0) /\ UNCHANGED timer
                ELSE /\ active' = [w.scan EXCEPT !.cursor = cursor] /\ timer' = TRUE
                     /\ UNCHANGED verdict
  /\ UNCHANGED <<changesOf, playing, fileEvents, pressed, seeks>>

\* mp.add_timeout(0, ...)
NextWindow ==
  /\ timer /\ timer' = FALSE /\ UNCHANGED wished /\ ScanWindow(active)
  /\ UNCHANGED <<changesOf, playing, timePos, fileEvents, pressed, seeks>>

-----------------------------------------------------------------------------
(* start, stop *)

\* A bug for the runs to find: the change that is shown may be what ffmpeg stops at.
FromHere(position, direction) == position

StartCursor(position, direction) ==
  IF direction = 1 THEN position + 2 * Epsilon ELSE position

PressKey(direction) ==
  /\ pressed < MaxScans /\ pressed' = pressed + 1 /\ timer' = FALSE
  /\ IF active.direction = direction
     THEN active' = NoScan /\ wished' = 0 /\ UNCHANGED <<windows, verdict>>
     ELSE /\ wished' = pressed'
          /\ ScanWindow([id |-> pressed', file |-> playing, origin |-> timePos,
                         cursor |-> StartCursor(timePos, direction), direction |-> direction])
  /\ UNCHANGED <<changesOf, playing, timePos, fileEvents, seeks>>

\* A bug for the runs to find: the next window is not called off.
StopScanOnly == active' = NoScan /\ wished' = 0 /\ UNCHANGED timer

Stop == active' = NoScan /\ wished' = 0 /\ timer' = FALSE

\* start-file, end-file, shutdown
FileEvent ==
  /\ fileEvents > 0 /\ fileEvents' = fileEvents - 1 /\ Stop
  /\ UNCHANGED <<changesOf, playing, timePos, windows, pressed, verdict, seeks>>

\* The user, or the end of the file. (playback_only aborts the subprocess.)
OtherFilePlays ==
  /\ seeks < MaxSeeks /\ seeks' = seeks + 1
  /\ \E f \in SceneFile : f # playing /\ playing' = f
  /\ timePos' = 0 /\ fileEvents' = fileEvents + 1
  /\ UNCHANGED <<changesOf, active, windows, timer, pressed, wished, verdict>>
UserSeeks(t) ==
  /\ seeks < MaxSeeks /\ seeks' = seeks + 1 /\ timePos' = t /\ t # timePos
  /\ UNCHANGED <<changesOf, playing, active, windows, timer, fileEvents, pressed, wished,
                 verdict>>

WindowEnds == \E w \in windows, ok \in BOOLEAN : WindowDone(w, ok)
SceneNext ==
  \/ WindowEnds \/ NextWindow
  \/ PressKey(1) \/ PressKey(-1)
  \/ FileEvent \/ OtherFilePlays
  \/ \E t \in SceneFrame : UserSeeks(t)

SceneSpec == SceneInit /\ [][SceneNext]_sceneVars

-----------------------------------------------------------------------------
(* Properties *)

SceneTypeOK ==
  /\ playing \in SceneFile /\ timePos \in 0 .. SceneDuration + 2 * Epsilon
  /\ timer => active # NoScan
  /\ Cardinality({w \in windows : w.scan.id = active.id}) <= 1

\* A scan moves playback and says something only for the user who asked for it
\* last and did not stop it ("Invalidate callbacks before requesting
\* cancellation").  What it finds is the nearest change beyond where it was asked for (further
\* than the tolerance), and it finds nothing only if there is none there: no change is lost at
\* the seam of two windows, or behind one at the origin itself ("Exclude the current
\* boundary before forward early-exit can consume it").
ScanIsTrue ==
  LET scan == verdict.scan
      ahead == {t \in changesOf[scan.file] : (t - scan.origin) * scan.direction > Epsilon}
  IN /\ scan.id = verdict.wished
     /\ verdict.how = "found" => verdict.at = NearestOf(scan, ahead)
     /\ verdict.how = "nothing" => ahead = {}

=============================================================================

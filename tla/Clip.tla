-------------------------------- MODULE Clip --------------------------------
(***************************************************************************)
(* The preview machinery of src/mpv/scripts/clip.lua: two edges of a       *)
(* selection, each with a mark, a debounce timer, a job (a chain of        *)
(* processes: converter plan, cutting, decoding; or one decoding of the    *)
(* source) and the cached image of its last finished job.  Keys, process   *)
(* callbacks, timers, layout changes and file changes come in any order;   *)
(* Lua runs one callback at a time.                                        *)
(*                                                                         *)
(* `clip` is the state of the script with what it reads of the player.     *)
(* Times are whole frames.  Not here: the loop and seeking keys, texts,    *)
(* geometry beyond "there is room", and the pixels.                        *)
(***************************************************************************)
EXTENDS Integers, FiniteSets, Sequences, FiniteSetsExt

CONSTANTS
  Media,          \* the files played
  FirstMedia,      \* the one that is loaded first
  Duration,       \* length of each, in frames of its nominal rate
  Frames,         \* their frame times by ffprobe (ascending)
  Keyframes,      \* those that are keyframes
  Marks,          \* positions at which [ and ] are pressed
  SampleWindow,         \* first sample window (WINDOW)
  WindowLimit,    \* options.preview_window_limit
  BegSource,      \* options.beg_source
  JobIds,         \* enough names for the jobs alive at a time
  MaxPresses,        \* bound: presses pressed and file changes
  MaxOffset,      \* bound: |frames offset|
  NoMedia, NoSample

ASSUME ClipAssumption ==
  /\ Duration \in Nat /\ SampleWindow \in Nat \ {0} /\ WindowLimit \in Nat
  /\ SampleWindow <= WindowLimit /\ MaxPresses \in Nat /\ MaxOffset \in Nat
  /\ Marks \subseteq 0..Duration /\ Keyframes \subseteq 0..Duration
  /\ BegSource \in BOOLEAN /\ FirstMedia \in Media /\ NoMedia \notin Media /\ NoSample \notin JobIds

VARIABLES clip, presses
clipVars == <<clip, presses>>

Edges == {"A", "B"}
Modes == {"copy", "fast", "smart"}
NEXT_MODE == [m \in Modes |-> CASE m = "copy" -> "fast" [] m = "fast" -> "smart"
                                [] OTHER -> "copy"]
Other(e) == IF e = "A" THEN "B" ELSE "A"

\* the subprocess of an export or of moving the file
NoOperation == [kind |-> "none", path |-> NoMedia, same |-> FALSE]

Edge0 == [time |-> 0, marked |-> FALSE, timer |-> FALSE, job |-> NoSample,
          cache |-> NoSample, error |-> FALSE, shown |-> FALSE]
NoPlan == <<>>
Job0 == [edge |-> "A", path |-> NoMedia, a |-> 0, b |-> 0, mode |-> "copy", offset |-> 0,
         red |-> FALSE, source |-> FALSE, window |-> SampleWindow, limit |-> 0, plan |-> NoPlan,
         frames |-> FALSE, recheck |-> FALSE, stage |-> "plan"]

-----------------------------------------------------------------------------
(* The selection *)

Least(x, y) == IF x < y THEN x ELSE y
Most(x, y) == IF x < y THEN y ELSE x

\* etime: the time that is cut at, with the offset in frames; by the frame
\* times of the file once they are known, else by the nominal rate
Etime(s, e) ==
  LET t   == s.edges[e].time
      off == s.offset[e]
      at  == {i \in DOMAIN Frames : Frames[i] = t}
      moved == IF off # 0 /\ s.map /\ at # {}
               THEN LET i == CHOOSE i \in at : TRUE
                    IN Frames[Most(1, Least(Len(Frames), i + off))]
               ELSE t + off
  IN Most(0, Least(Duration, moved))

ValidRange(s) == Etime(s, "A") < Etime(s, "B")

\* ffmpeg/run --preview-plan: the part of the source that is cut, and how
Bound(e, a, b, w) == IF e = "A" THEN <<a, Least(b, a + w)>> ELSE <<Most(a, b - w), b>>
Plan(e, path, a, b, mode, w) ==
  LET after  == {k \in Keyframes : a <= k /\ k <= b}
      before == {k \in Keyframes : k <= b}
      ka == Min(after)
      kb == Max(before)
  IN CASE mode # "smart" -> <<path, mode, Bound(e, a, b, w)>>
       [] mode = "smart" /\ (after = {} \/ before = {}) ->
            <<path, "encode", Bound(e, a, b, w)>>
       [] OTHER ->
            IF ka >= kb THEN <<path, "encode", Bound(e, a, b, w)>>
            ELSE IF e = "A"
                 THEN IF a < ka THEN <<path, "segment", Bound(e, a, ka, w)>>
                      ELSE <<path, "copied segment", Bound(e, a, kb, w)>>
                 ELSE IF kb < b THEN <<path, "segment", Bound(e, kb, b, w)>>
                      ELSE <<path, "copied segment", Bound(e, ka, b, w)>>

\* the conversion of the whole selection: what is cut, and how, one part
\* after the other
Export(a, b, mode) ==
  LET ka == Min({k \in Keyframes : a <= k /\ k <= b})
      kb == Max({k \in Keyframes : k <= b})
  IN IF mode # "smart" THEN <<<<mode, a, b>>>>
     ELSE IF \A k, l \in Keyframes : ~(a <= k /\ k < l /\ l <= b) THEN <<<<"encode", a, b>>>>
     ELSE SelectSeq(<<<<"segment", a, ka>>, <<"copied segment", ka, kb>>, <<"segment", kb, b>>>>,
                    LAMBDA c : c[2] < c[3])

\* source_args: the frames around the boundary, the color of the border
SourcePlan(e, path, t, red, map) == <<path, "source", t, red, map>>

-----------------------------------------------------------------------------
(* Helpers on the state of the script *)

SetEdge(s, e, f, v) == [s EXCEPT !.edges[e][f] = v]

RemoveOverlay(s, e) == SetEdge(s, e, "shown", FALSE)

\* the names of a job whose process has ended are free for another
Dispose(s, j) ==
  [s EXCEPT !.files = @ \ {j},
            !.jobs = [k \in JobIds |-> IF k = j /\ j \notin s.running THEN Job0 ELSE @[k]]]

\* a job that is given up is aborted; its callback only disposes of it, so
\* that nothing but its name matters from here on
Cancel(s, e, discard, keepVisible) ==
  LET s0 == [s EXCEPT !.jobs = [j \in JobIds |-> IF j = s.edges[e].job THEN Job0 ELSE @[j]]]
      s1 == SetEdge(SetEdge(s0, e, "timer", FALSE), e, "job", NoSample)
      s2 == IF keepVisible THEN s1 ELSE RemoveOverlay(s1, e)
  IN IF discard
     THEN [Dispose(s2, s2.edges[e].cache) EXCEPT !.edges[e].cache = NoSample,
                                                 !.edges[e].error = FALSE]
     ELSE s2

Render(s, e) ==
  IF s.hidden \/ s.edges[e].cache = NoSample THEN s
  ELSE IF ~s.layout THEN RemoveOverlay(s, e)
  ELSE SetEdge(SetEdge(s, e, "shown", TRUE), e, "error", FALSE)

Recheck(s, e) == s.edges[e].cache # NoSample /\ s.jobs[s.edges[e].cache].recheck

Fail(s, e) ==
  LET s1 == Dispose(s, s.edges[e].job)
      s2 == IF Recheck(s1, e)
            THEN SetEdge(Dispose(RemoveOverlay(s1, e), s1.edges[e].cache), e, "cache", NoSample)
            ELSE s1
  IN SetEdge(SetEdge(s2, e, "job", NoSample), e, "error", TRUE)

\* run_job: a process of job j starts
RunJob(s, j, stage) == [s EXCEPT !.jobs[j].stage = stage, !.running = @ \cup {j}]

SampleJob(s, j) == RunJob(s, j, "plan")

Publish(s, j) ==
  LET e  == s.jobs[j].edge
      s1 == Dispose(s, s.edges[e].cache)
  IN Render([s1 EXCEPT !.edges[e].job = NoSample, !.edges[e].cache = j,
                       !.edges[e].error = FALSE], e)

CanWiden(s, j) == s.jobs[j].window < s.jobs[j].limit
RetryEmpty(s, j) ==
  SampleJob([s EXCEPT !.jobs[j].window = Least(s.jobs[j].limit, 4 * @)], j)

\* A bug for the runs to find: a job is started only where there is no image.
StartableWithoutImage(s, e) ==
  /\ ~s.hidden /\ s.edges[e].marked /\ s.edges[e].job = NoSample
  /\ ~s.edges[e].timer /\ ~s.edges[e].error /\ s.layout /\ s.edges[e].cache = NoSample

\* start_preview(edge)
Startable(s, e) ==
  /\ ~s.hidden /\ s.edges[e].marked /\ s.edges[e].job = NoSample
  /\ ~s.edges[e].timer /\ ~s.edges[e].error /\ s.layout

StartPreview(s, e) ==
  IF ~Startable(s, e) THEN s
  ELSE LET j   == Min(JobIds \ (s.files \cup s.running))
           a   == Etime(s, "A")
           b   == Etime(s, "B")
           red == ~ValidRange(s)
           src == (e = "A" /\ BegSource) \/ red
           new == [Job0 EXCEPT !.edge = e, !.path = s.path, !.a = a, !.b = b,
                     !.mode = s.mode, !.offset = s.offset[e], !.red = red, !.source = src,
                     !.limit = Least(b - a, WindowLimit),
                     !.plan = IF src THEN SourcePlan(e, s.path, IF e = "A" THEN a ELSE b,
                                                     red, s.map)
                              ELSE NoPlan]
           s1  == [s EXCEPT !.jobs[j] = new, !.files = @ \cup {j}, !.edges[e].job = j]
       IN IF src THEN RunJob(s1, j, "source") ELSE SampleJob(s1, j)

ShowEdge(s, e) ==
  LET s1 == IF s.edges[e].cache # NoSample THEN Render(s, e) ELSE s
  IN IF s1.edges[e].cache = NoSample \/ Recheck(s1, e) THEN StartPreview(s1, e) ELSE s1
ShowPreviews(s) == ShowEdge(ShowEdge(s, "A"), "B")

\* A bug for the runs to find: the other mark is believed not to matter.
UnchangedByItsMark(s, e) ==
  LET j == IF s.edges[e].job # NoSample THEN s.edges[e].job ELSE s.edges[e].cache
  IN /\ ~s.edges[e].error /\ j # NoSample /\ s.jobs[j].path = s.path
     /\ s.jobs[j].mode = s.mode
     /\ (IF e = "A" THEN s.jobs[j].a ELSE s.jobs[j].b) = Etime(s, e)

\* unchanged_sample: what is pending or cached still shows this selection
UnchangedSample(s, e) ==
  LET ed == s.edges[e]
      j  == IF ed.job # NoSample THEN ed.job ELSE ed.cache
      a  == Etime(s, "A")
      b  == Etime(s, "B")
  IN /\ ~ed.error /\ j # NoSample /\ s.jobs[j].path = s.path
     /\ LET o == s.jobs[j]
        IN IF o.source
           THEN /\ IF e = "A" THEN o.a = a ELSE o.b = b
                /\ o.red = ~ValidRange(s)
           ELSE /\ o.mode = s.mode /\ s.mode # "smart"
                /\ IF e = "A" THEN o.a = a /\ Least(o.b, a + o.window) = Least(b, a + o.window)
                   ELSE o.b = b /\ Most(o.a, b - o.window) = Most(a, b - o.window)
Adopt(s, e) ==
  LET ed == s.edges[e]
      j  == IF ed.job # NoSample THEN ed.job ELSE ed.cache
      a  == Etime(s, "A")
      b  == Etime(s, "B")
  IN [s EXCEPT !.jobs[j] = [@ EXCEPT !.a = a, !.b = b, !.limit = Least(b - a, WindowLimit)]]

\* refresh_previews(changed) for one edge; `changed` is "none" for all of them
RefreshEdge(s, e, changed) ==
  LET mayStay == changed # "none" /\ e # changed /\ ValidRange(s)
      c       == s.edges[e].cache
      keep    == /\ mayStay /\ c # NoSample
                 /\ s.jobs[c].mode = s.mode /\ s.jobs[c].path = s.path
                 /\ (IF e = "A" THEN s.jobs[c].a ELSE s.jobs[c].b) = Etime(s, e)
      s1 == IF keep THEN [s EXCEPT !.jobs[c].recheck = TRUE] ELSE s
      s2 == Cancel(s1, e, ~keep, keep)
  IN IF mayStay /\ UnchangedSample(s, e) THEN Adopt(s, e)
     ELSE [s2 EXCEPT !.edges[e].error = FALSE,
                     !.edges[e].timer = s.edges[e].marked /\ ~s.hidden]

\* the revision is compared by the one operation that can be under way
Revised(s) == [s EXCEPT !.op.same = FALSE]

RefreshPreviews(s, changed) == RefreshEdge(RefreshEdge(Revised(s), "A", changed), "B", changed)

ClearEdge(s, e) == Cancel(SetEdge(s, e, "marked", FALSE), e, TRUE, FALSE)
ClearAll(s) == ClearEdge(ClearEdge(Revised(s), "A"), "B")

-----------------------------------------------------------------------------
(* Initial states: a file has been loaded and there is room for the overlays; *)
(* either nothing is marked yet, or both marks are set, the frame times are   *)
(* known and the images shown (not in the mode "fast", whose images differ    *)
(* from those of "copy" by name).                                            *)

\* what the image of a job has to be for the selection of s: the beginning, or
\* the end, of what the conversion would produce
ImageOf(s, e, o) ==
  LET cuts == Export(Etime(s, "A"), Etime(s, "B"), s.mode)
      own  == IF e = "A" THEN Head(cuts) ELSE cuts[Len(cuts)]
  IN IF o.source THEN SourcePlan(e, s.path, Etime(s, e), ~ValidRange(s), s.map)
     ELSE <<s.path, own[1], Bound(e, own[2], own[3], o.window)>>

Loaded == [mode |-> "copy", hidden |-> FALSE,
           edges |-> [e \in Edges |-> [Edge0 EXCEPT !.time = IF e = "A" THEN 0 ELSE Duration]],
           jobs |-> [j \in JobIds |-> Job0], files |-> {}, running |-> {},
           offset |-> [e \in Edges |-> 0], map |-> FALSE, asked |-> FALSE,
           probes |-> {}, op |-> NoOperation,
           path |-> FirstMedia, loaded |-> TRUE, layout |-> TRUE, advance |-> FALSE]

Finished(s, e) ==
  LET s1 == StartPreview(s, e)
      j  == s1.edges[e].job
  IN Publish([s1 EXCEPT !.running = {}, !.jobs[j].frames = TRUE,
                        !.jobs[j].plan = ImageOf(s1, e, s1.jobs[j])], j)

Marked(m, a, b) ==
  [Loaded EXCEPT !.mode = m, !.map = TRUE, !.asked = TRUE,
                 !.edges = [@ EXCEPT !["A"].time = a, !["A"].marked = TRUE,
                                     !["B"].time = b, !["B"].marked = TRUE]]

ClipInit ==
  /\ presses = 0
  /\ \/ clip = Loaded
     \/ \E m \in Modes \ {"fast"}, a, b \in Marks :
          a < b /\ clip = Finished(Finished(Marked(m, a, b), "A"), "B")

-----------------------------------------------------------------------------
(* Keys and messages *)

\* Bounds: the keys, and the processes that are still ending when one is pressed
Free == JobIds \ (clip.files \cup clip.running)
Press == presses < MaxPresses /\ presses' = presses + 1 /\ Cardinality(Free) >= 2

\* [ and ]: the other mark is pushed along; the first mark of a file asks
\* for its frame times
Mark(e) ==
  /\ Press /\ clip.loaded
  /\ \E t \in Marks :
       LET other == IF e = "A" /\ ~clip.edges["B"].marked /\ clip.edges["B"].time <= t
                       /\ Duration > t
                    THEN Duration ELSE clip.edges[Other(e)].time
           s1 == [clip EXCEPT !.edges[e].time = t, !.edges[e].marked = TRUE,
                    !.edges[Other(e)].time = IF e = "A" THEN Most(t, other) ELSE Least(t, other),
                    !.probes = IF clip.asked THEN @ ELSE @ \cup {clip.path},
                    !.asked = TRUE]
       IN clip' = RefreshPreviews(s1, e)

ShiftOffset(e, d) ==
  /\ Press /\ clip.loaded
  /\ clip.offset[e] + d \in -MaxOffset..MaxOffset
  /\ clip' = RefreshPreviews([clip EXCEPT !.offset[e] = @ + d], e)

SelectMode(m) ==
  /\ Press
  /\ clip' = RefreshPreviews([clip EXCEPT !.mode = m, !.hidden = FALSE,
                        !.edges = [e \in Edges |-> [@[e] EXCEPT !.marked = TRUE]]], "none")

SetHidden(h) ==
  /\ Press /\ clip.hidden # h
  /\ LET s == [clip EXCEPT !.hidden = h]
     IN clip' = IF h THEN Cancel(Cancel(s, "A", FALSE, FALSE), "B", FALSE, FALSE)
                ELSE ShowPreviews(s)

ClearKey == Press /\ clip' = ClearAll(clip)

\* what a person has chosen
Chosen(s) == <<s.path, s.mode, {<<e, s.edges[e].time, s.offset[e]>> :
                                   e \in {x \in Edges : s.edges[x].marked}}>>

Operate(kind) ==
  /\ Press /\ clip.op.kind = "none" /\ clip.path # NoMedia
  /\ kind = "export" => ValidRange(clip)
  /\ clip' = [clip EXCEPT !.op = [kind |-> kind, path |-> clip.path, same |-> TRUE]]

-----------------------------------------------------------------------------
(* Callbacks *)

\* the debounce of an edge is over
Timer(e) ==
  /\ clip.edges[e].timer /\ Free # {}
  /\ clip' = StartPreview(SetEdge(clip, e, "timer", FALSE), e)
  /\ UNCHANGED presses

\* the plan of the converter has arrived
Planned(s, j) ==
  LET o == s.jobs[j]
      e == o.edge
      p == Plan(e, o.path, o.a, o.b, o.mode, o.window)
      c == s.edges[e].cache
      s1 == [s EXCEPT !.jobs[j].plan = p, !.jobs[j].frames = FALSE]
  IN IF o.frames /\ o.plan = p THEN Publish(s, j)
     ELSE IF c # NoSample /\ s.jobs[c].plan = p
     THEN Render(Dispose([s1 EXCEPT
            !.jobs[c] = [@ EXCEPT !.a = o.a, !.b = o.b, !.limit = o.limit, !.recheck = FALSE],
            !.edges[e].job = NoSample, !.edges[e].error = FALSE], j), e)
     ELSE RunJob(SetEdge(Dispose(RemoveOverlay(s1, e), c), e, "cache", NoSample), j, "cut")

\* a decoded sample: complete, with fewer frames than wanted, with none, or
\* not decoded
Decoded(s, j, result) ==
  LET s1 == [s EXCEPT !.jobs[j].frames = TRUE]
  IN CASE result = "ok" -> Publish(s1, j)
       [] result = "short" -> IF CanWiden(s, j) THEN RetryEmpty(s1, j) ELSE Publish(s1, j)
       [] result = "empty" -> IF CanWiden(s, j) THEN RetryEmpty(s, j)
                              ELSE Fail(s, s.jobs[j].edge)

\* a process of job j ends (result "error": a failure, or an unusable result)
Callback(j, result) ==
  /\ j \in clip.running
  /\ LET s == [clip EXCEPT !.running = @ \ {j}]
         o == s.jobs[j]
     IN clip' = IF s.edges[o.edge].job # j THEN Dispose(s, j)
                ELSE IF result = "error" THEN Fail(s, o.edge)
                ELSE CASE o.stage = "plan"   -> Planned(s, j)
                       [] o.stage = "cut"    -> RunJob(s, j, "decode")
                       [] o.stage = "decode" -> Decoded(s, j, result)
                       [] o.stage = "source" ->
                            Publish([s EXCEPT !.jobs[j].frames = TRUE], j)
  /\ result \in {"short", "empty"} => clip.jobs[j].stage = "decode"
  /\ UNCHANGED presses

\* the export, or the script that moves the file, has ended
OperationDone(ok) ==
  /\ clip.op.kind # "none"
  /\ LET op    == clip.op
         valid == ok /\ op.path = clip.path /\ op.same
         s     == [clip EXCEPT !.op = NoOperation]
     IN clip' = IF ~valid THEN s
                ELSE IF op.kind = "export" THEN ClearAll(s) ELSE [s EXCEPT !.advance = TRUE]
  /\ UNCHANGED presses

\* ffprobe has listed the frame times of p, or failed
MapDone(p, ok) ==
  /\ p \in clip.probes
  /\ LET s  == [clip EXCEPT !.probes = @ \ {p}]
         s1 == [s EXCEPT !.map = TRUE]
     IN clip' = IF p # clip.path \/ ~ok THEN s
                ELSE IF \E e \in Edges : s.edges[e].marked THEN RefreshPreviews(s1, "none") ELSE s1
  /\ UNCHANGED presses

-----------------------------------------------------------------------------
(* The player *)

Playing(s, p) == [ClearAll(s) EXCEPT !.path = p, !.loaded = FALSE, !.layout = FALSE,
                                  !.advance = FALSE]
StartFile(p) == Press /\ p # clip.path /\ clip' = Playing(clip, p)
EndFile == Press /\ clip.path # NoMedia /\ clip' = Playing(clip, NoMedia)

FileLoaded ==
  /\ clip.path # NoMedia /\ ~clip.loaded
  /\ clip' = [clip EXCEPT !.loaded = TRUE,
                !.offset = [e \in Edges |-> 0], !.map = FALSE, !.asked = FALSE,
                !.edges = [@ EXCEPT !["A"].time = 0, !["B"].time = Duration]]
  /\ UNCHANGED presses

\* there is room for the overlays, or not any more
Layout ==
  /\ Press /\ clip.loaded
  /\ clip' = ShowPreviews([clip EXCEPT !.layout = ~@])

Results == {"ok", "short", "empty", "error"}
ClipNext ==
  \/ \E e \in Edges : Mark(e) \/ Timer(e) \/ \E d \in {-1, 1} : ShiftOffset(e, d)
  \/ \E m \in Modes : SelectMode(m)
  \/ \E h \in BOOLEAN : SetHidden(h)
  \/ ClearKey
  \/ \E k \in {"export", "move"} : Operate(k)
  \/ \E j \in JobIds, r \in Results : Callback(j, r)
  \/ \E ok \in BOOLEAN : OperationDone(ok) \/ \E p \in Media : MapDone(p, ok)
  \/ \E p \in Media : StartFile(p)
  \/ EndFile
  \/ FileLoaded
  \/ Layout

ClipSpec == ClipInit /\ [][ClipNext]_clipVars

-----------------------------------------------------------------------------
(* Properties *)

ClipTypeOK ==
  /\ clip.mode \in Modes /\ clip.hidden \in BOOLEAN
  /\ clip.files \subseteq JobIds /\ clip.running \subseteq JobIds
  /\ \A e \in Edges : /\ clip.edges[e].time \in 0..Duration
                      /\ {clip.edges[e].job, clip.edges[e].cache} \subseteq JobIds \cup {NoSample}
  /\ clip.probes \subseteq Media /\ clip.path \in Media \cup {NoMedia} /\ presses \in 0..MaxPresses

\* The image on the screen is of the file, the mode, the own mark and the
\* offset that are set now, and, unless it is being rechecked because of the
\* other mark, of exactly the part that the conversion would cut:
\* refresh_previews, unchanged_sample, publish and the comparison of plans,
\* with stale callbacks, late frame times, hiding and file changes between.
ShownIsTrue ==
  \A e \in Edges : clip.edges[e].shown =>
    /\ clip.edges[e].cache # NoSample
    /\ LET o == clip.jobs[clip.edges[e].cache]
       IN /\ o.path = clip.path /\ o.offset = clip.offset[e]
          /\ o.source \/ o.mode = clip.mode
          /\ (IF e = "A" THEN o.a ELSE o.b) = Etime(clip, e)
          /\ o.recheck \/ o.plan = ImageOf(clip, e, o)

\* The temporary files of a job exist exactly as long as one of its processes
\* runs or an edge shows its image ("Never delete a running process's files.
\* Its stale callback owns cleanup", clip.lua:273); a job that an edge waits for
\* has a process; and a mark that should be seen is seen as it is, is an error,
\* or has a timer or a job that will show it.
NothingIsForgotten ==
  /\ clip.files = clip.running \cup ({clip.edges[e].cache : e \in Edges} \ {NoSample})
  /\ \A e \in Edges : LET ed == clip.edges[e] IN
       /\ ed.job # NoSample => ed.job \in clip.running
       /\ ed.marked /\ clip.layout /\ ~clip.hidden =>
            \/ ed.error \/ ed.timer \/ ed.job # NoSample
            \/ ed.shown /\ ~Recheck(clip, e)

\* Previews show their marks, in the end and never anything else meanwhile.
PreviewsAreTrue == ShownIsTrue /\ NothingIsForgotten
=============================================================================

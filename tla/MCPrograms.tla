----------------------------- MODULE MCPrograms -----------------------------
(***************************************************************************)
(* The smaller programs, and ranger's leading of imv, checked in one run:  *)
(* mpv's clip script and scene seeker, the transient diff, the Bash        *)
(* executor, vcvt and vdprobe over a directory, and the reading of media   *)
(* headers and of the index of durations. They share no state, so that     *)
(* interleaving them would show nothing: a behaviour is one of one part,   *)
(* chosen at the start, and the others stay at rest.                       *)
(***************************************************************************)
EXTENDS Clip, TransientDiff, SceneSeeker, BashJobs, MediaHeaders, DurationIndex,
        VcvtBatch, ProbeRun, ImvTracking, ImvName, TLC

CONSTANTS ra, rb  \* DurationIndex
MCFrames    == <<0, 1, 3, 4>>
MCScore(t, u) == IF t = u THEN 2 ELSE IF {t, u} = {"long", "alike"} THEN 1 ELSE 0
MCMs        == <<10, 30>>
Vid(made, e)   == [stem |-> "clip", made |-> made, prev |-> 0, ext |-> e]
Con(o, shows)  == [origin |-> o, version |-> 0, made |-> << >>, shows |-> shows]
N28 == <<<<"n", 28>>>>
MCOriginal  == Vid(<< >>, "mp4") :> Con("a", << >>)
               @@ Vid(<< >>, "webp") :> Con("w", <<[frame |-> 1, for |-> 0], [frame |-> 2, for |-> 40]>>)
               @@ Vid(N28, "mp4") :> Con("t", << >>)
MCGiven     == {Vid(<< >>, "mp4"), Vid(<< >>, "webp")}
OnCpu       == [encoder |-> "", g |-> FALSE, c |-> Unset, a |-> FALSE, ifx |-> "", j |-> 0,
                i |-> FALSE, skip |-> TRUE]
MCOptions   == {OnCpu, [OnCpu EXCEPT !.g = TRUE, !.a = TRUE], [OnCpu EXCEPT !.g = TRUE, !.i = TRUE]}
MCArgument  == {Everything, JustOne(Vid(<< >>, "webp")), JustOne(Vid(N28, "mp4"))}

File(in, tag, ino, m) == [in |-> in, kind |-> "file", tag |-> tag, ino |-> ino, media |-> m]
Folder(in, tag)       == [File(in, tag, 0, "none") EXCEPT !.kind = "dir"]
MCListing ==
  "d" :> Folder("root", "-pics") @@ "e" :> Folder("root", "-anim") @@ "f" :> Folder("e", "-pics")
  @@ "a" :> File("root", "", 1, "native") @@ "b" :> File("root", "", 2, "odd")
  @@ "w" :> File("root", "webp", 3, "native") @@ "x" :> File("f", "webp", 4, "native")
  @@ "y" :> File("d", "", 5, "native") @@ "t" :> File("root", "", 6, "none")
  @@ "p" :> Folder("root", "-pics") @@ "l" :> File("p", "", 2, "odd")
MCSorted    == <<"d", "e", "p", "a", "b", "w", "t", "f", "l", "x", "y">>
MCInputs    == {<<"a", "b", "l", "b", "t", "d">>}
MCPresets   == <<50, 100, 150, 200, 360, 420, 640, 800>>
MCNatures   == {<<"still", "small anim", "text", "corrupt", "still", "big anim">>,
                <<"corrupt", "still", "corrupt", "small anim", "still", "still">>,
                <<"corrupt", "corrupt", "corrupt", "still", "still", "still">>,
                <<"still", "long", "corrupt", "still", "text", "still">>}
MCArgOf     == [p \in 1 .. 6 |-> 2]

AtRest      == [size |-> 1, changed |-> {0}, kept |-> {0}, both |-> {}, file |-> FALSE]

Rangers     == Permutations(Ranger)

VARIABLE part
Parts == {"clip", "transient", "hunks", "scene", "bash", "headers", "duration", "batch", "run",
          "track", "name"}
partVars == <<part, clipVars, tdVars, hunkVars, sceneVars, bashVars, headerVars, durationVars,
              batchVars, runVars, trackVars, nameVars>>

Init ==
  /\ part \in Parts
  /\ BashInit
  /\ BatchInit
  /\ TrackingInit /\ (part # "track" => sockets = {})
  /\ NameInit /\ (part # "name" => natureOf[2] = "long" /\ chosen = 1)
  /\ RunInit /\ rowsHeld[5] = None /\ rowsHeld[4] = None /\ rowsHeld[3] = None
  /\ part # "run" => scanning # << >> /\ rowsHeld[1] = None /\ rowsHeld[2] = None
  /\ DurationInit /\ contentAt = <<1, IF part = "duration" THEN contentAt[2] ELSE 0>>
  /\ SceneInit /\ playing = "f" /\ changesOf["g"] = {} /\ timePos # 20
  /\ part # "scene" => changesOf["f"] = {} /\ timePos = 0
  /\ ClipInit /\ (part # "clip" => clip = Loaded)
  /\ TdInit
  /\ IF part = "hunks" THEN HunksInit ELSE side = AtRest /\ hunks = <<>>
  /\ HeadersInit(IF part = "headers" THEN AllMedia ELSE {WebpFile(<<3>>, 8)})

Only(p) ==
  /\ part = p /\ UNCHANGED part
  /\ p # "bash"      => UNCHANGED bashVars
  /\ p # "batch"     => UNCHANGED batchVars
  /\ p # "track"     => UNCHANGED trackVars
  /\ p # "name"      => UNCHANGED nameVars
  /\ p # "run"       => UNCHANGED runVars
  /\ p # "headers"   => UNCHANGED headerVars
  /\ p # "duration"  => UNCHANGED durationVars
  /\ p # "clip"      => UNCHANGED clipVars
  /\ p # "transient" => UNCHANGED tdVars
  /\ p # "hunks"     => UNCHANGED hunkVars
  /\ p # "scene"     => UNCHANGED sceneVars

Next ==
  \/ Only("bash")      /\ BashNext
  \/ Only("batch")     /\ BatchNext
  \/ Only("track")     /\ TrackingNext
  \/ Only("name")      /\ NameNext
  \/ Only("run")       /\ RunNext
  \/ Only("headers")   /\ HeadersNext
  \/ Only("duration")  /\ DurationNext
  \/ Only("clip")      /\ ClipNext
  \/ Only("transient") /\ TdNext
  \/ Only("hunks")     /\ RenderHunks
  \/ Only("scene")     /\ SceneNext

Spec == Init /\ [][Next]_partVars

\* Every variable of the part that acts has its type.
ProgramsTypeOK ==
  CASE part = "clip"  -> ClipTypeOK   [] part = "transient" -> TdTypeOK
    [] part = "scene" -> SceneTypeOK  [] part = "bash"      -> BashTypeOK
    [] part = "duration" -> DurationTypeOK  [] part = "batch" -> BatchTypeOK
    [] OTHER          -> TRUE
\* What is printed line by line is true: transient_diff accounts for a branch's lineages and its
\* hunks are sound, and vdprobe has a line for every media file.
LinesAreTrue == LineagesAccounted /\ HunksAreSound /\ AllIsPrinted
\* What mpv and imv show: previews of the frames of the clip script's marks, scenes where they are,
\* and the file under ranger's cursor; and no trace of imv is left in ranger when it is gone.
PlayersAreLed == PreviewsAreTrue /\ ScanIsTrue /\ ViewerIsLed /\ TrackingIsUndone
=============================================================================

----------------------------- MODULE VcvtBatch -----------------------------
(***************************************************************************)
(* src/ffmpeg/vcvt.py as it is called by hand: over a directory, over      *)
(* named files, or both, serially or through the executor, whose jobs call *)
(* it again with "-i" and one path.  (The watcher is the module Vcvt.)     *)
(* Several calls overlap, encoders fail, and the user delivers and         *)
(* rewrites files meanwhile.                                               *)
(*                                                                         *)
(* A name is [stem, made, prev, ext]: made are the suffixes "_<tag><c>" in *)
(* their order, prev the number of a backup.  A content is the original it *)
(* goes back to, the encodings it went through, and how long every picture *)
(* is shown.  Left out: files without a video stream (they end the call    *)
(* before it converts anything), dry runs, and the order of the files.     *)
(***************************************************************************)
EXTENDS Integers, Sequences, FiniteSets, SequencesExt

CONSTANTS
  OtherWord,      \* what names and tags say that is not known here
  Original,       \* [the names a user gives -> the content he gives them]
  Given,          \* the names that are there at the start
  Options,        \* what the calls are made with: encoder, g, c, a, ifx, j, i, skip
  Argument,       \* the paths of a call: [directory: BOOLEAN, names: a set]
  Devices,        \* what GPUs the machine has
  MaxCalls, MaxTampers  \* bounds: calls; deliveries, changes of files and failures

Unset == -1                        \* "-c" was not given
KnownTag == {"va", "a", "c", "n", "q", "v"}
Word == KnownTag \cup {"", "cpu", "nv", "qsv", "none", "mp4", "webp"} \cup OtherWord
NoName == [stem |-> "", made |-> << >>, prev |-> 0, ext |-> ""]
NoContent == [origin |-> "", version |-> 0, made |-> << >>, shows |-> << >>]

\* parser, and what the environment adds to it (use, ifx, VCVT_SKIP_EXISTING)
Option == [encoder : {"", "cpu", "nv", "qsv"}, g : BOOLEAN, a : BOOLEAN, i : BOOLEAN, c : Int,
           j : Nat, ifx : Word, skip : BOOLEAN]

\* A name, and a content: the numbered pictures of an animation and how long each is shown.
Name    == [stem : Word \ {""}, made : Seq(Word \X Int), prev : Nat, ext : Word]
Content == [origin : Word, version : Nat, made : Seq(Word),
            shows : Seq([frame : Nat, for : Nat])]

ASSUME BatchAssumption ==
  /\ Options \subseteq Option
  /\ \A name \in DOMAIN Original :
       /\ name \in Name /\ Original[name] \in Content
       /\ \A k \in DOMAIN Original[name].shows : Original[name].shows[k].frame = k
  /\ Given \subseteq DOMAIN Original /\ Given # {} /\ IsFiniteSet(Given)
  /\ Argument \subseteq [directory : BOOLEAN, names : SUBSET DOMAIN Original]
  /\ MaxCalls \in Nat /\ MaxTampers \in Nat

VARIABLES
  shelf,     \* the directory: [name -> content]
  markers,   \* temporary files: <<output, number of the job or 0>>
  calls,     \* the calls so far: [option, args, plan, files, failed, disturbed]
  tasks,     \* processes that convert, and jobs that wait: [call, job, path, left, source, was]
  jobs,      \* number of jobs so far
  tampers,
  ever       \* observed: the contents that were there and were not rewritten by the user
batchVars == <<shelf, markers, calls, tasks, jobs, tampers, ever>>

-----------------------------------------------------------------------------
(* encoder: what is encoded with, and what the outputs are called *)

Choice(o) ==
  IF o.encoder # "" THEN o.encoder
  ELSE IF ~o.g THEN "cpu"
  ELSE IF "nvidia" \in Devices THEN "nv"
  ELSE IF "intel" \in Devices THEN "qsv"
  ELSE "none"
Quality(o) == IF o.c # Unset THEN o.c ELSE IF Choice(o) = "cpu" THEN 32 ELSE 28
Tag(o) ==
  IF o.a THEN "a"
  ELSE IF o.ifx # "" THEN o.ifx
  ELSE CASE Choice(o) = "cpu" -> "v" [] Choice(o) = "nv" -> "n" [] OTHER -> "q"
Valid(o) ==
  /\ Choice(o) # "none"
  /\ Quality(o) \in 0 .. (IF Choice(o) = "cpu" THEN 63 ELSE 51)
  /\ ~(Choice(o) = "qsv" /\ Quality(o) = 0)
Concurrency(o, processors) ==
  IF o.j # 0 THEN o.j
  ELSE CASE Choice(o) = "cpu" -> IF processors < 32 THEN 1 ELSE processors \div 16
         [] Choice(o) = "nv"  -> 5
         [] OTHER             -> 1
Encoder(o) == [encoder |-> Choice(o), c |-> Quality(o), tag |-> Tag(o), j |-> Concurrency(o, 16)]

\* A bug for the runs to find: the tag is not handed on.
JobOptionUntagged(o) == [o EXCEPT !.encoder = Choice(o), !.c = Quality(o), !.i = TRUE, !.a = FALSE]

\* enqueue: the options of a job are those that the call decided on
JobOption(o) == [o EXCEPT !.encoder = Choice(o), !.c = Quality(o), !.i = TRUE]

-----------------------------------------------------------------------------
(* collect, skip_existing, eligible *)

Suffix(plan) == <<plan.tag, plan.c>>
OutputPath(plan, name) ==
  [stem |-> name.stem, made |-> Append(name.made, Suffix(plan)), prev |-> 0, ext |-> "mp4"]

Generated(name) == name.made # << >> /\ Last(name.made)[1] \in KnownTag

Collected(args, includeGenerated) ==
  {name \in DOMAIN shelf : /\ args.directory \/ name \in args.names
                           /\ includeGenerated \/ ~Generated(name)}

SkipExisting(o, name) == o.skip /\ OutputPath(Encoder(o), name) \in DOMAIN shelf

Av1(content) == content.made # << >> /\ Last(content.made) = "cpu"
Eligible(name) == name.ext = "webp" \/ ~Av1(shelf[name])

Everything == [directory |-> TRUE, names |-> {}]
JustOne(name) == [directory |-> FALSE, names |-> {name}]
Selected(o, args) ==
  {name \in Collected(args, o.i) : Eligible(name) /\ (name \in args.names \/ ~SkipExisting(o, name))}

-----------------------------------------------------------------------------
(* webp_source, command: what ffmpeg is told to encode *)

\* The concat script: every picture with its duration, and the last once more, because the
\* duration of the last entry is not heeded (at 1000 frames a second it lasts 1 ms).
Script(durations) ==
  Append([k \in DOMAIN durations |->
            [frame |-> k, for |-> IF durations[k] = 0 THEN 1 ELSE durations[k]]],
         [frame |-> Len(durations), for |-> 1])

\* External: libav's concat demuxer.  A picture is shown until the next entry begins.
Played(script) ==
  [k \in 1 .. Len(script) |-> [script[k] EXCEPT !.for = IF k = Len(script) THEN 1 ELSE @]]

\* what ffmpeg makes of a file; an image without durations is encoded as it is
Encoded(plan, name) ==
  LET content == shelf[name]
  IN [content EXCEPT !.made = Append(@, plan.encoder),
                     !.shows = IF name.ext = "webp" /\ @ # << >>
                               THEN Played(Script([k \in DOMAIN @ |-> @[k].for])) ELSE @]

-----------------------------------------------------------------------------
(* main *)

Task(call, job, path, left) ==
  [call |-> call, job |-> job, path |-> path, left |-> left, source |-> NoName, was |-> NoContent]
Waiting(t) == t.job # 0 /\ t.path # NoName
Serially(o, files) == o.i \/ Encoder(o).j = 1 \/ Cardinality(files) = 1

\* A call by hand. It converts serially, or submits a job for every file.
Call(o, args) ==
  LET files == Selected(o, args)
      names == SetToSeq(files)
      call  == Len(calls) + 1
  IN /\ Len(calls) < MaxCalls /\ Valid(o) /\ args.names \subseteq DOMAIN shelf
     /\ calls' = Append(calls, [option |-> o, args |-> args, files |-> {<<f, shelf[f]>> : f \in files},
                                failed |-> FALSE, disturbed |-> FALSE])
     /\ IF files = {} THEN UNCHANGED <<tasks, jobs>>
        ELSE IF Serially(o, files) THEN tasks' = tasks \cup {Task(call, 0, NoName, files)} /\ UNCHANGED jobs
        ELSE /\ tasks' = tasks \cup {Task(call, jobs + k, names[k], {}) : k \in DOMAIN names}
             /\ jobs' = jobs + Len(names)
     /\ UNCHANGED <<shelf, markers, tampers, ever>>

\* A process returns after its last conversion.
GoesOn(t, next) == tasks' = (tasks \ {t}) \cup {u \in {next} : u.source # NoName \/ u.left # {}}

OptionOf(t) == IF t.job = 0 THEN calls[t.call].option ELSE JobOption(calls[t.call].option)
PlanOf(t) == Encoder(OptionOf(t))
CallFails(t) == calls' = [calls EXCEPT ![t.call].failed = TRUE]

\* The executor starts a job, which is a call with -i and its path, at most -j at a time.
JobStarts(t) ==
  /\ Waiting(t)
  /\ Cardinality({u \in tasks : u.job # 0 /\ ~Waiting(u)}) < PlanOf([t EXCEPT !.job = 0]).j
  /\ IF t.path \in DOMAIN shelf
     THEN /\ GoesOn(t, [t EXCEPT !.path = NoName, !.left = Selected(OptionOf(t), JustOne(t.path))])
          /\ UNCHANGED calls
     ELSE tasks' = tasks \ {t} /\ CallFails(t)
  /\ UNCHANGED <<shelf, markers, jobs, tampers, ever>>

-----------------------------------------------------------------------------
(* convert *)

Output(t) == OutputPath(PlanOf(t), t.source)
Marker(t) == <<Output(t), t.job>>
Locked(output) == \E u \in tasks : u.source # NoName /\ Output(u) = output

\* The lock, the stat of the source, and the marker that ffmpeg creates. A conversion
\* fails if it finds the marker of another, or no source.
Begin(t, name) ==
  LET busy == [t EXCEPT !.source = name, !.left = @ \ {name}, !.was = shelf[name]]
  IN /\ ~Waiting(t) /\ t.source = NoName /\ name \in t.left /\ ~Locked(OutputPath(PlanOf(t), name))
     /\ IF Marker(busy) \notin markers
        THEN /\ GoesOn(t, busy) /\ markers' = markers \cup {Marker(busy)}
             /\ UNCHANGED calls
        ELSE /\ GoesOn(t, [t EXCEPT !.left = @ \ {name}]) /\ CallFails(t)
             /\ UNCHANGED markers
     /\ UNCHANGED <<shelf, jobs, tampers, ever>>

\* publish: the previous output gets the first free number, then the new one its name
Backup(output) ==
  [output EXCEPT !.prev = CHOOSE n \in 1 .. Cardinality(DOMAIN shelf) + 1 :
                            /\ [output EXCEPT !.prev = n] \notin DOMAIN shelf
                            /\ \A m \in 1 .. n - 1 : [output EXCEPT !.prev = m] \in DOMAIN shelf]
With(directory, name, content) ==
  [n \in DOMAIN directory \cup {name} |-> IF n = name THEN content ELSE directory[n]]
Published(output, content) ==
  IF output \in DOMAIN shelf
  THEN With(With(shelf, Backup(output), shelf[output]), output, content)
  ELSE With(shelf, output, content)

\* A failed encoder, or a source that was changed, leaves the marker to the user.
End(t, ok) ==
  /\ t.source # NoName
  /\ (~ok => tampers < MaxTampers) /\ tampers' = tampers + (IF ok THEN 0 ELSE 1)
  /\ GoesOn(t, [t EXCEPT !.source = NoName, !.was = NoContent])
  /\ IF ok /\ t.was = shelf[t.source]
     THEN LET content == Encoded(PlanOf(t), t.source)
          IN /\ shelf' = Published(Output(t), content) /\ ever' = ever \cup {content}
             /\ markers' = markers \ {Marker(t)} /\ UNCHANGED calls
     ELSE CallFails(t) /\ UNCHANGED <<shelf, markers, ever>>
  /\ UNCHANGED jobs

-----------------------------------------------------------------------------
(* The user *)

Disturbed == calls' = [k \in DOMAIN calls |-> [calls[k] EXCEPT !.disturbed = TRUE]]
Deliver(name) ==
  /\ tampers < MaxTampers /\ tampers' = tampers + 1
  /\ name \in DOMAIN Original \ DOMAIN shelf
  /\ shelf' = With(shelf, name, Original[name]) /\ ever' = ever \cup {Original[name]}
  /\ Disturbed /\ UNCHANGED <<markers, tasks, jobs>>
Rewrite(name) ==
  /\ tampers < MaxTampers /\ tampers' = tampers + 1
  /\ name \in DOMAIN shelf /\ shelf[name].made = << >>
  /\ shelf' = [shelf EXCEPT ![name].version = @ + 1]
  /\ ever' = (ever \ {shelf[name]}) \cup {shelf'[name]}
  /\ Disturbed /\ UNCHANGED <<markers, tasks, jobs>>

BatchInit ==
  /\ shelf = [name \in Given |-> Original[name]]
  /\ ever = {Original[name] : name \in Given}
  /\ markers = {} /\ calls = << >> /\ tasks = {} /\ jobs = 0 /\ tampers = 0
BatchNext ==
  \/ \E o \in Options, args \in Argument : Call(o, args)
  \/ \E t \in tasks : \/ JobStarts(t)
                      \/ \E name \in t.left : Begin(t, name)
                      \/ \E ok \in BOOLEAN : End(t, ok)
  \/ \E name \in DOMAIN Original : Deliver(name) \/ Rewrite(name)
BatchSpec == BatchInit /\ [][BatchNext]_batchVars

-----------------------------------------------------------------------------
(* Properties *)

BatchTypeOK ==
  /\ \A t \in tasks : /\ t.call \in DOMAIN calls /\ t.job \in 0 .. jobs
                      /\ t.source # NoName => Marker(t) \in markers
  /\ Cardinality({<<Output(t), t.job>> : t \in {u \in tasks : u.source # NoName}})
       = Cardinality({Output(t) : t \in {u \in tasks : u.source # NoName}})

\* A call that has ended, at whose files nobody else wrote, and in which nothing failed
Undisturbed(k) ==
  ~calls[k].failed /\ ~calls[k].disturbed /\ \A t \in tasks : t.call # k
\* A plain call over the directory settles it: the same call would convert nothing, neither
\* what has an output, nor outputs, nor backups of them (GENERATED, skip_existing), although
\* the outputs were written by jobs that decided on their names themselves.  Every file that
\* the call took has its encoding then, under its output's name or a backup's, although files
\* may share an output (but one that has an output's name may be replaced before its turn).
SettledBy(k) ==
  LET o == calls[k].option
  IN /\ calls[k].args.directory /\ ~o.i /\ o.skip => Selected(o, Everything) = {}
     /\ \A f \in {g \in calls[k].files : ~Generated(g[1])} : \E name \in DOMAIN shelf :
          /\ shelf[name].made = Append(f[2].made, Choice(o))
          /\ shelf[name].origin = f[2].origin /\ shelf[name].version = f[2].version
\* GENERATED knows the tags of all outputs.
TagsAreKnown == \A j \in DOMAIN calls : Tag(calls[j].option) \in KnownTag
\* Every picture of an animation is shown as long as in the original.
ShownAsLong(content) ==
  \E n \in DOMAIN Original :
    /\ Original[n].origin = content.origin
    /\ \A k \in DOMAIN Original[n].shows : \E e \in DOMAIN content.shows :
         content.shows[e].frame = k /\ content.shows[e].for >= Original[n].shows[k].for

\* Calls settle what they are asked to. No content was overwritten, not even a user's file that
\* has an output's name, and animations are as slow as they were.
BatchesSettle ==
  /\ TagsAreKnown => \A k \in DOMAIN calls : Undisturbed(k) => SettledBy(k)
  /\ \A content \in ever : \E name \in DOMAIN shelf : shelf[name] = content
  /\ \A name \in DOMAIN shelf : ShownAsLong(shelf[name])
=============================================================================

------------------------------- MODULE DcSize -------------------------------
(***************************************************************************)
(* src/ranger/plugins/vdsize_cumulative.py: how many files, or videos of   *)
(* some codec, the directories shown in one directory hold.  A command     *)
(* hands them to a loader, whose workers read them in the background; the  *)
(* commands of the user, and the loader's other tasks, go on meanwhile.    *)
(* A directory that has not changed is not read again: its row is kept.    *)
(*                                                                         *)
(* What is in a directory is two counters: of entries made or removed, and *)
(* of files edited in place, which do not touch its mtime.  A size is what *)
(* they were when they were counted.  The mtime stands for the number of   *)
(* entries when it was last set: a change within its tick does not set it. *)
(* A directory that cannot be read counts nothing, and that row is kept.   *)
(***************************************************************************)
EXTENDS Integers, Sequences, SequencesExt, FiniteSets

CONSTANTS Shelf,     \* the directories shown
          Codec,     \* codec specifications
          DefaultCodec,
          Anytime,   \* BOOLEAN: undo, and another codec, while a task runs
          MaxCommands, MaxEdits, MaxFails  \* bounds on commands, changes, aborts and errors
ASSUME DcAssumption ==
  /\ DefaultCodec \in Codec /\ Anytime \in BOOLEAN
  /\ MaxCommands \in Nat /\ MaxEdits \in Nat /\ MaxFails \in Nat

VARIABLES entries, edits, dirTime,  \* the disk: [Shelf -> Nat]
          row,             \* vdprobe's directory table
          spec, fresh,     \* SPEC, _FRESH
          size,            \* SIZES: [{"file", "video"} -> [Shelf -> what was counted]]
          linemode, filter, snap,  \* of the directory: linemodes, DcFilter, SNAP
          loads,           \* the loader's tasks, the first one works; workers work for all
          commands, changed, failed  \* counted for the bounds
dcVars == <<entries, edits, dirTime, row, spec, fresh, size, linemode, filter, snap, loads,
            commands, changed, failed>>
dcDisk == <<entries, edits, dirTime, changed>>
dcShow == <<size, linemode, filter>>

DcModes  == {"file", "video"}  \* "all" differs from "file" in following symlinks
\* Observed: of a size, which row it is from, if any; and whether the reading had failed
Unsized  == [entries |-> -1, edits |-> -1, spec |-> DefaultCodec, from |-> -1, torn |-> FALSE]
NoDcRow  == [mtime |-> -1, entries |-> -1, edits |-> -1, aged |-> FALSE, torn |-> FALSE]
Todo     == [at |-> "todo", mtime |-> -1, value |-> Unsized]

DcInit ==
  /\ entries = [d \in Shelf |-> 0] /\ edits = [d \in Shelf |-> 0]
  /\ dirTime = [d \in Shelf |-> 0]
  /\ row = [d \in Shelf |-> NoDcRow] /\ spec = DefaultCodec /\ fresh = FALSE
  /\ size = [m \in DcModes |-> [d \in Shelf |-> Unsized]]
  /\ linemode = [d \in Shelf |-> "plain"] /\ filter = "none" /\ snap = << >>
  /\ loads = << >> /\ commands = 0 /\ changed = 0 /\ failed = 0

(***************************************************************************)
(* The disk; a day goes by (TRUST)                                         *)
(***************************************************************************)
AddEntry(d, later) ==
  /\ changed < MaxEdits /\ changed' = changed + 1
  /\ entries' = [entries EXCEPT ![d] = @ + 1]
  /\ dirTime' = [dirTime EXCEPT ![d] = IF later THEN entries[d] + 1 ELSE @]
  /\ UNCHANGED <<edits, row, spec, fresh, dcShow, snap, loads, commands, failed>>
EditFile(d) ==
  /\ changed < MaxEdits /\ changed' = changed + 1
  /\ edits' = [edits EXCEPT ![d] = @ + 1]
  /\ UNCHANGED <<entries, dirTime, row, spec, fresh, dcShow, snap, loads, commands, failed>>
DayPasses == /\ \E d \in Shelf : row[d] # NoDcRow /\ ~row[d].aged
             /\ row' = [d \in Shelf |-> IF row[d] = NoDcRow THEN NoDcRow ELSE [row[d] EXCEPT !.aged = TRUE]]
             /\ UNCHANGED <<dcDisk, spec, fresh, dcShow, snap, loads, commands, failed>>

(***************************************************************************)
(* dcsize                                                                  *)
(***************************************************************************)
\* With another codec the sizes counted before are cleared.
Cleared(m, c) == IF m = "video" /\ c # spec THEN [size EXCEPT !["video"] = [d \in Shelf |-> Unsized]]
                 ELSE size
\* Observed: what there is when a task is asked for, and whether "fresh" was said then and since
NewLoad(mode, anew, filtered) ==
  [mode |-> mode, filtered |-> filtered, started |-> FALSE, job |-> [d \in Shelf |-> Todo],
   anew |-> anew, entries |-> entries, edits |-> edits, settled |-> dirTime]
Command(mode, codec, anew, filtered) ==
  /\ commands < MaxCommands /\ commands' = commands + 1
  /\ codec # spec => mode = "video" /\ (Anytime \/ loads = << >>)
  /\ snap' = IF snap = << >> THEN <<[size |-> size, linemode |-> linemode, filter |-> filter]>> ELSE snap
  /\ spec' = codec /\ fresh' = anew
  /\ size' = Cleared(mode, codec)
  /\ linemode' = [d \in Shelf |-> mode]
  /\ loads' = <<NewLoad(mode, anew, filtered)>>
              \o [i \in DOMAIN loads |-> [loads[i] EXCEPT !.anew = @ /\ anew]]
  /\ UNCHANGED <<dcDisk, row, filter, failed>>

\* dcsize undo: as it was before the first command.
UndoSizes ==
  /\ snap # << >> /\ (Anytime \/ loads = << >>)
  /\ size' = snap[1].size /\ linemode' = snap[1].linemode /\ filter' = snap[1].filter
  /\ snap' = << >>
  /\ UNCHANGED <<dcDisk, row, spec, fresh, loads, commands, failed>>

(***************************************************************************)
(* The loader and its workers: _dir, _readdir, _scan                       *)
(***************************************************************************)
StartLoad ==
  /\ loads # << >> /\ ~loads[1].started /\ loads' = [loads EXCEPT ![1].started = TRUE]
  /\ UNCHANGED <<dcDisk, row, spec, fresh, dcShow, snap, commands, failed>>

Count(es, ed, from, torn) == [entries |-> es, edits |-> ed, spec |-> spec, from |-> from, torn |-> torn]
\* An operation of the disk fails.
DiskFails == failed < MaxFails /\ failed' = failed + 1
\* The directory's mtime is taken, and its row; or it cannot be, and nothing is kept.
DirStat(i, d) ==
  /\ loads[i].started /\ loads[i].job[d].at = "todo"
  /\ loads' = [loads EXCEPT ![i].job[d] = [@ EXCEPT !.at = "dir", !.mtime = dirTime[d]]]
  /\ UNCHANGED <<dcDisk, row, spec, fresh, dcShow, snap, commands, failed>>
DirLost(i, d) ==
  /\ loads[i].started /\ loads[i].job[d].at = "todo" /\ DiskFails
  /\ loads' = [loads EXCEPT ![i].job[d] = [@ EXCEPT !.at = "done", !.value = Count(0, 0, -1, TRUE)]]
  /\ UNCHANGED <<dcDisk, row, spec, fresh, dcShow, snap, commands>>
\* vdprobe's dir_get_stat and dir_put: what it has of a directory, if anything, and its new row
DirGet(d) == IF row[d] = NoDcRow THEN << >> ELSE <<row[d]>>
DirPut(d, r) == row' = [row EXCEPT ![d] = r]
\* The videos are looked at each time, which may fail; totals of files only when the row is older than TRUST.
HitAnyTime(i, d) == /\ ~fresh /\ DirGet(d) # << >>
                    /\ loads[i].mode = "file" => row[d].edits # -1 /\ ~row[d].aged
Hit(i, d) == /\ ~fresh /\ DirGet(d) # << >> /\ row[d].mtime = loads[i].job[d].mtime
             /\ loads[i].mode = "file" => row[d].edits # -1 /\ ~row[d].aged
DirCached(i, d, ok) ==
  /\ loads[i].job[d].at = "dir" /\ Hit(i, d)
  /\ IF ok THEN UNCHANGED failed ELSE loads[i].mode = "video" /\ DiskFails
  /\ loads' = [loads EXCEPT ![i].job[d] = [@ EXCEPT !.at = "done", !.value =
                 IF ok THEN Count(row[d].entries, IF loads[i].mode = "file" THEN row[d].edits ELSE edits[d],
                                  row[d].mtime, row[d].torn)
                 ELSE Count(0, 0, row[d].mtime, TRUE)]]
  /\ UNCHANGED <<dcDisk, row, spec, fresh, dcShow, snap, commands>>
\* Or it is read; the row gets the mtime that was taken before, also when the listing fails: it
\* then has what was read until that, here nothing.
DirRead(i, d, listed, ok) ==
  /\ loads[i].job[d].at = "dir" /\ ~Hit(i, d)
  /\ ok => listed
  /\ listed /\ ~ok => loads[i].mode = "video"
  /\ IF ok THEN UNCHANGED failed ELSE DiskFails
  /\ LET prev == row[d].mtime = loads[i].job[d].mtime /\ ~fresh IN
     DirPut(d,
       [mtime |-> loads[i].job[d].mtime, entries |-> IF listed THEN entries[d] ELSE 0,
        edits |-> IF loads[i].mode = "file" THEN (IF listed THEN edits[d] ELSE 0)
                  ELSE IF prev THEN row[d].edits ELSE -1,
        aged  |-> loads[i].mode = "video" /\ prev /\ row[d].aged, torn |-> ~listed])
  /\ loads' = [loads EXCEPT ![i].job[d] = [@ EXCEPT !.at = "done", !.value =
                 IF ok THEN Count(entries[d], edits[d], -1, FALSE) ELSE Count(0, 0, -1, TRUE)]]
  /\ UNCHANGED <<dcDisk, spec, fresh, dcShow, snap, commands>>

\* generate() of the first task, one result in a turn: those that are there, in any order
Finished == {d \in Shelf : loads # << >> /\ loads[1].started /\ loads[1].job[d].at = "done"}
AllShown == loads # << >> /\ \A d \in Shelf : loads[1].job[d].at = "shown"

\* on_result
Show(d) ==
  /\ d \in Finished
  /\ size' = [size EXCEPT ![loads[1].mode][d] = loads[1].job[d].value]
  /\ linemode' = [linemode EXCEPT ![d] = loads[1].mode]
  /\ loads' = [loads EXCEPT ![1].job[d].at = "shown"]
  /\ UNCHANGED <<dcDisk, row, spec, fresh, filter, snap, commands, failed>>
\* on_finish: the filter is set or removed, and all that was counted is shown.
FinishLoad ==
  /\ AllShown
  /\ filter' = IF loads[1].filtered THEN loads[1].mode ELSE "none"
  /\ linemode' = [d \in Shelf |-> IF size[loads[1].mode][d] # Unsized THEN loads[1].mode ELSE linemode[d]]
  /\ loads' = Tail(loads)
  /\ UNCHANGED <<dcDisk, row, spec, fresh, size, snap, commands, failed>>
AbortLoad(i) ==
  /\ DiskFails \* or the user stops it
  /\ loads' = RemoveAt(loads, i)
  /\ UNCHANGED <<dcDisk, row, spec, fresh, dcShow, snap, commands>>

DcNext ==
  \/ \E d \in Shelf : (\E later \in BOOLEAN : AddEntry(d, later)) \/ EditFile(d) \/ Show(d)
  \/ \E mode \in DcModes, codec \in Codec, anew, filtered \in BOOLEAN : Command(mode, codec, anew, filtered)
  \/ \E i \in DOMAIN loads : \/ AbortLoad(i)
                             \/ \E d \in Shelf, listed, ok \in BOOLEAN :
                                  DirStat(i, d) \/ DirLost(i, d) \/ DirCached(i, d, ok) \/ DirRead(i, d, listed, ok)
  \/ DayPasses \/ UndoSizes \/ StartLoad \/ FinishLoad

DcSpec == DcInit /\ [][DcNext]_dcVars

DcTypeOK ==
  /\ spec \in Codec /\ fresh \in BOOLEAN /\ filter \in DcModes \cup {"none"}
  /\ linemode \in [Shelf -> DcModes \cup {"plain"}] /\ Len(snap) <= 1
  /\ \A i \in DOMAIN loads : \A d \in Shelf : loads[i].job[d].at \in {"todo", "dir", "done", "shown"}

\* What a size has to count, for the task that brings it: with "fresh", all that was there when
\* the task was asked for, and from no row.  Else, a row is not older than the mtime of then: no
\* entry is missed but those made within the tick of that mtime.  Edits are counted of videos.
EnoughIsCounted(v, l, d) ==
  /\ l.anew => v.from = -1
  /\ v.from # -1 => v.from >= l.settled[d]
  /\ v.torn \/ /\ v.entries >= IF l.anew THEN l.entries[d] ELSE l.settled[d]
               /\ l.anew \/ l.mode = "video" => v.edits >= l.edits[d]

\* Whatever is cached, whatever changes while workers read, and whatever they fail to read: a size
\* that is shown counts every entry made or removed before the command that asked for it, but for
\* changes that gave the directory no other mtime; and every edit, too, if it was of videos, or
\* if the command, and those after it, said "fresh", which none of the rows may then answer.  Of
\* a directory whose reading failed it may count less: that row, too, is kept, but until the
\* directory has another mtime, or "fresh" is said.  And videos are counted for the codec that is
\* asked for now ("valid while its mtime is unchanged"; "video mode still stats every .mp4";
\* "add `fresh` to bypass the directory cache"; "Changing codec spec clears all cached v SIZES").
SizesAreTrue ==
  [][\A d \in Shelf, m \in DcModes :
       LET v == size'[m][d] IN
       /\ m = "video" /\ v # Unsized => v.spec = spec'
       /\ Show(d) /\ m = loads[1].mode => EnoughIsCounted(v, loads[1], d)]_dcVars
=============================================================================

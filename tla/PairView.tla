------------------------------ MODULE PairView ------------------------------
(***************************************************************************)
(* src/ranger/plugins/vddur_sort_linemode.py: files of nearly the same     *)
(* duration are grouped, and :view_duration shows those that have company, *)
(* from a scan kept until the number of files changes; and                 *)
(* diff_frontend.py: :df picks two files from the marks and cursors of two *)
(* tabs, or, with -F, the next ones of their duration groups.              *)
(*                                                                         *)
(* The current tab shows a directory that changes, the other one does not. *)
(* A file is a number, its place in the order of names.                    *)
(***************************************************************************)
EXTENDS Integers, FiniteSets, SequencesExt

CONSTANTS PairFile, OtherFiles,  \* the files there can be, in the directory and in the other one
          Length,                \* durations in ms; 0 is what probing another thing answers: None
          OtherMs,               \* [OtherFiles -> Length]
          MaxRetouches, MaxMarks
ASSUME PairAssumption ==
  /\ PairFile \subseteq Nat /\ OtherFiles \subseteq Nat /\ PairFile \cap OtherFiles = {}
  /\ Length \subseteq Nat /\ OtherMs \in [OtherFiles -> Length]
  /\ {MaxRetouches, MaxMarks} \subseteq Nat

VARIABLES listing, msNow,  \* files_all; [PairFile -> Length]
          pairFilter,      \* the DurationFilter of the stack: [on, gray], and its cache for the
          scan,            \* directory: NotScanned, or what it was made from and found
          visible, dim,    \* the files shown, and those drawn as unpaired
          marks, cursor,   \* per tab, in the order of marking; 0: no file
           retouches
pairVars == <<listing, msNow, pairFilter, scan, visible, dim, marks, cursor, retouches>>

NotScanned == [count |-> 0 - 1, of |-> << >>, paired |-> {}]
MsOfFile(f) == IF f \in OtherFiles THEN OtherMs[f] ELSE msNow[f]

(***************************************************************************)
(* duration_groups                                                         *)
(***************************************************************************)
\* The media files in order of duration, then of path; a gap starts a group.
DurationGroups(files, tolerance) ==
  LET media == {f \in files : MsOfFile(f) # 0}
      Sooner(f, g) == MsOfFile(f) < MsOfFile(g) \/ (MsOfFile(f) = MsOfFile(g) /\ f < g)
      Into(groups, f) ==
        IF groups = << >> \/ MsOfFile(f) - MsOfFile(Last(Last(groups))) > tolerance
        THEN Append(groups, <<f>>)
        ELSE Append(Front(groups), Append(Last(groups), f))
  IN  FoldLeft(Into, << >>, SetToSortSeq(media, Sooner))

(***************************************************************************)
(* DurationFilter: refilter and drawing, with what is listed now           *)
(***************************************************************************)
Scan(files) == [count |-> Cardinality(files), of |-> [f \in files |-> msNow[f]],
                paired |-> {f \in files : \E g \in ToSet(DurationGroups(files, 500)) :
                                            Len(g) > 1 /\ f \in ToSet(g)}]
StaleOnce(s, files) == s.count < 0
Stale(s, files) == s.count # Cardinality(files)
Refilter(files, flt, old) ==
  LET s == IF Stale(old, files) THEN Scan(files) ELSE old IN
  /\ scan' = IF flt.on /\ files # {} THEN s ELSE old
  /\ visible' = {f \in files : flt.on => f \in s.paired \/ flt.gray}
  /\ dim' = {f \in files : flt.on /\ flt.gray /\ f \notin s.paired}
  /\ \E f \in IF visible' = {} THEN {0} ELSE IF cursor.here \in visible' THEN {cursor.here} ELSE visible' :
       cursor' = [cursor EXCEPT !.here = f]

PairInit ==
  /\ listing \in SUBSET PairFile /\ msNow \in [PairFile -> Length]
  /\ pairFilter = [on |-> FALSE, gray |-> FALSE] /\ scan = NotScanned
  /\ visible = listing /\ dim = {}
  /\ marks = [here |-> << >>, other |-> << >>]
  /\ cursor = [here |-> IF listing = {} THEN 0 ELSE CHOOSE f \in listing : \A g \in listing : f <= g,
               other |-> CHOOSE f \in OtherFiles : \A g \in OtherFiles : f <= g]
  /\ retouches = 0

\* :view_duration on, off, or toggled; a new filter has scanned nothing.
ViewDuration(on, gray) ==
  /\ pairFilter' = [on |-> on, gray |-> on /\ gray]
  /\ Refilter(listing, pairFilter', NotScanned)
  /\ UNCHANGED <<listing, msNow, marks, retouches>>

\* The directory is loaded again; the marks of files that are gone go with them.
Reload(files) ==
  /\ retouches < MaxRetouches /\ retouches' = retouches + 1
  /\ listing' = files
  /\ Refilter(files, pairFilter, scan)
  /\ marks' = [marks EXCEPT !.here = SelectSeq(@, LAMBDA f : f \in files)]
  /\ UNCHANGED <<msNow, pairFilter>>

\* A file gets another duration: it was written again, or replaced.
Retouch(f, ms) ==
  /\ retouches < MaxRetouches /\ retouches' = retouches + 1
  /\ msNow' = [msNow EXCEPT ![f] = ms]
  /\ UNCHANGED <<listing, pairFilter, scan, visible, dim, marks, cursor>>

SeenIn(tab) == IF tab = "here" THEN visible ELSE OtherFiles
MoveTo(tab, f) ==
  /\ cursor' = [cursor EXCEPT ![tab] = f]
  /\ UNCHANGED <<listing, msNow, pairFilter, scan, visible, dim, marks, retouches>>
MarkFile(tab, f) ==
  /\ f \notin ToSet(marks[tab]) /\ Len(marks[tab]) < MaxMarks
  /\ marks' = [marks EXCEPT ![tab] = Append(@, f)]
  /\ UNCHANGED <<listing, msNow, pairFilter, scan, visible, dim, cursor, retouches>>

(***************************************************************************)
(* :df                                                                     *)
(***************************************************************************)
\* _pick_selection: from the marks and the cursors, or nothing.
Selection(tgt) ==
  LET cm == marks.here  tm == marks[tgt]  cross == tgt # "here" IN
  CASE cross /\ cm = << >> /\ tm = << >>       -> <<cursor.here, cursor[tgt]>>
    [] (~cross \/ tm = << >>) /\ Len(cm) = 1   -> <<cm[1], cursor.here>>
    [] (~cross \/ tm = << >>) /\ Len(cm) = 2   -> cm
    [] cross /\ cm = << >> /\ Len(tm) = 1      -> <<cursor.here, tm[1]>>
    [] cross /\ Len(cm) = 1 /\ Len(tm) = 1     -> <<cm[1], tm[1]>>
    [] OTHER                                   -> << >>
\* The message "select one or two files", or a tab without a file under its cursor.
NothingSelected(tgt) ==
  \/ (tgt = "here" \/ marks[tgt] = << >>) /\ Selection(tgt) = << >>
  \/ 0 \in ToSet(Selection(tgt))

\* _duration_next: the second for the first of a group, else the one before; 0: no company.
NextInGroup(files, f) ==
  Max({0} \cup UNION {{g[IF i > 1 THEN i - 1 ELSE 2] : i \in {j \in DOMAIN g : g[j] = f}} :
                     g \in {h \in ToSet(DurationGroups(files, 500)) : Len(h) > 1}})
OrElse(f, g) == IF f # 0 THEN f ELSE g
NextOnes(tgt) ==
  LET left  == NextInGroup(listing, cursor.here)
      right == NextInGroup(OtherFiles, cursor[tgt])
  IN  IF cursor.here = 0 THEN << >>
      ELSE IF tgt = "here" THEN IF left = 0 THEN << >> ELSE <<cursor.here, left>>
      ELSE IF left = 0 /\ right = 0 THEN << >>
      ELSE <<OrElse(left, cursor.here), OrElse(right, cursor[tgt])>>

\* The other tab: the one of the quantifier, else the next one, or with -m the current one.
TabMeant(quantifier, policy) ==
  IF quantifier # "none" THEN quantifier ELSE IF policy = "same" THEN "here" ELSE "other"
\* _pick: nothing when -m and -M ask for another tab; -F guesses when nothing is selected.
Picked(tgt, policy, fallback) ==
  IF policy = (IF tgt = "here" THEN "other" ELSE "same") THEN << >>
  ELSE IF fallback /\ NothingSelected(tgt) THEN NextOnes(tgt) ELSE Selection(tgt)
\* execute: the two files compared; none when one is missing, or would be compared with itself.
Compared(quantifier, policy, fallback) ==
  LET files == Picked(TabMeant(quantifier, policy), policy, fallback) IN
  IF files = << >> \/ 0 \in ToSet(files) \/ files[1] = files[2] THEN << >> ELSE files

PairNext ==
  \/ \E on, gray \in BOOLEAN : ViewDuration(on, gray)
  \/ \E files \in SUBSET PairFile : Reload(files)
  \/ \E f \in PairFile, ms \in Length : Retouch(f, ms)
  \/ \E tab \in {"here", "other"} : \E f \in SeenIn(tab) : MoveTo(tab, f) \/ MarkFile(tab, f)

PairSpec == PairInit /\ [][PairNext]_pairVars

PairTypeOK ==
  /\ listing \subseteq PairFile /\ msNow \in [PairFile -> Length]
  /\ visible \subseteq listing /\ dim \subseteq visible
  /\ cursor.here \in visible \cup {0} /\ cursor.other \in OtherFiles
  /\ ToSet(marks.here) \subseteq listing /\ ToSet(marks.other) \subseteq OtherFiles
  /\ retouches \in 0 .. MaxRetouches

\* The filter shows, or draws undimmed, exactly the files that have another one within the
\* tolerance, according to durations that were true of as many files as there are now, and to
\* the present ones when nothing changed since ("rescan if listing changed").  What :df compares
\* are always two different files of the tabs it was given, among them every marked one; only a
\* guess of -F leaves marks aside, when they are none or too many, and a guess goes to files of
\* nearly the same duration.
Company(ms) == {f \in DOMAIN ms : ms[f] # 0 /\ \E g \in DOMAIN ms \ {f} :
                                    ms[g] # 0 /\ ms[f] - ms[g] \in -500 .. 500}
PairsAreMeant ==
  /\ pairFilter.on /\ listing # {} =>
       /\ Cardinality(DOMAIN scan.of) = Cardinality(listing)
       /\ visible \ dim = Company(scan.of) \cap listing
       /\ pairFilter.gray => visible = listing
  /\ \A quantifier \in {"none", "here", "other"}, policy \in {"", "same", "other"}, fallback \in BOOLEAN :
     \A pair \in {Compared(quantifier, policy, fallback)} :
       LET tgt == TabMeant(quantifier, policy)
           marked == ToSet(marks.here) \cup ToSet(marks[tgt])
           guessed == fallback /\ NothingSelected(tgt)
       IN pair # << >> =>
            /\ pair[1] # pair[2] /\ pair[1] \in listing
            /\ pair[2] \in listing \cup (IF tgt = "here" THEN {} ELSE OtherFiles)
            /\ IF guessed
               THEN /\ \/ Len(marks.here) \notin {1, 2} /\ (tgt # "here" => marks[tgt] = << >>)
                       \/ 0 \in ToSet(Selection(tgt))
                    /\ \E i \in {1, 2} : pair[i] # (IF i = 1 THEN cursor.here ELSE cursor[tgt])
                    /\ pair[1] # cursor.here => MsOfFile(pair[1]) - MsOfFile(cursor.here) \in -500 .. 500
               ELSE marked \subseteq ToSet(pair)
=============================================================================

-------------------------------- MODULE VdSym --------------------------------
(***************************************************************************)
(* The command :vdsym of src/ranger/plugins/vdsym.py.  It asks the         *)
(* preflight hooks of other plugins one after the other (they may prompt,  *)
(* and proceed much later or not at all), then looks the names of some     *)
(* files up and jumps to, lists, yanks, or makes a dashboard of the other  *)
(* places that have them.  Jumps with -r go round all of these places.     *)
(* With -R it asks for each link to the file under the cursor whether it   *)
(* shall lead to the yanked file instead.                                  *)
(*                                                                         *)
(* The index that the lookup uses is in VdIndex; here it is up to date.    *)
(* Left out: patterns, the pictures of a page, what is printed, counters,  *)
(* and flags that exclude one another.                                     *)
(***************************************************************************)
EXTENDS Integers, Sequences, FiniteSets, SequencesExt, FiniteSetsExt

CONSTANTS
  Spot,         \* the places of files, numbered in the order of the index
  NameAt,       \* [Spot -> name]
  TwinOf,       \* the first link to the same file in the directory of a place, if any
  Flagged,      \* the sets of flags that are used
  Hook,         \* 1 .. number of preflight hooks (that of vddangling at least)
  Backlink,     \* links, as <<directory, name>>
  SourceFile, TargetFile, OtherFile,   \* what they lead to
  MaxVdsyms, MaxMoves, MaxAsks    \* bounds: commands, changes by others, answers "l"

ASSUME VdSymAssumption ==
  /\ Spot \subseteq Nat \ {0} /\ IsFiniteSet(Spot) /\ NameAt \in [Spot -> STRING]
  /\ DOMAIN TwinOf \subseteq Spot /\ \A s \in DOMAIN TwinOf : TwinOf[s] \in Spot
  /\ IsFiniteSet(Hook) /\ Hook # {} /\ Hook = 1 .. Cardinality(Hook)
  /\ MaxVdsyms \in Nat /\ MaxMoves \in Nat /\ MaxAsks \in Nat

VARIABLES
  spots,      \* the places where there is a file
  thisfile,   \* the file under the cursor; 0: a link in the dashboard
  yanked,     \* the copy buffer: at most one file here
  calls,      \* the commands: hooks still to ask, those that may proceed, that did
  rotation,   \* _ROTATIONS: the members and their order
  outcome,    \* what the last command did
  dash,       \* the places that the links in the dashboard lead to
  leads,      \* [Backlink -> what it leads to, or "none"]
  asking,     \* the links still to be asked about (<<>> : no question)
  touchedDirs, toldDirs,      \* of _touched; those that the index has been told of
  agreed, replaced,           \* observed: links agreed to, links replaced
  tour,       \* observed: the places visited by -r since anything else happened
  symMoves, symAsks           \* counted for the bounds
symVars == <<spots, thisfile, yanked, calls, rotation, outcome, dash, leads, asking,
             touchedDirs, toldDirs, agreed, replaced, tour, symMoves, symAsks>>
symLinks == <<leads, asking, touchedDirs, toldDirs, agreed, replaced, symAsks>>

NoRotation == [members |-> {}, order |-> <<>>]
NewCall(fs) == [flags |-> fs, next |-> 1, called |-> {}, runs |-> 0]

SymInit ==
  /\ spots = Spot /\ thisfile \in Spot /\ yanked = {} /\ calls = <<>>
  /\ rotation = NoRotation /\ outcome = "none" /\ dash = {}
  /\ leads \in [Backlink -> {SourceFile, OtherFile}]
  /\ asking = <<>> /\ touchedDirs = {} /\ toldDirs = {} /\ agreed = {} /\ replaced = {}
  /\ tour = <<>> /\ symMoves = 0 /\ symAsks = 0

-----------------------------------------------------------------------------
(* Names and matches *)

\* _compute_names and _source_paths: of the cursor (b), of the copy buffer (y),
\* or explicit, here the name of every place. (The name of a link in the dashboard
\* is a whole path; no file has it.)
SourcesOf(fs) == IF "b" \in fs THEN {thisfile} ELSE IF "y" \in fs THEN yanked ELSE {}
NameOfPlace(s) == IF s = 0 THEN "path" ELSE NameAt[s]
NamesOf(fs) ==
  IF "names" \in fs THEN {NameAt[s] : s \in Spot} ELSE {NameOfPlace(s) : s \in SourcesOf(fs)}

\* _matches, without the files the names were taken from
IndexOrder(S) == CHOOSE q \in SetToSeqs(S) : \A i, j \in DOMAIN q : i < j => q[i] < q[j]
Matches(fs) == IndexOrder({s \in spots : NameAt[s] \in NamesOf(fs)} \ SourcesOf(fs))

-----------------------------------------------------------------------------
(* _jump *)

\* A bug for the runs to find: the order is computed anew by every jump.
EachTimeAnew(members) == FALSE

\* the rotation that is going on has these members
GoesOn(members) == rotation.members = members

\* _jump_fallback: in the dashboard that is the link itself
JumpFallback(matches) ==
  CASE thisfile = 0 -> 0
    [] thisfile \in DOMAIN TwinOf /\ TwinOf[thisfile] \in spots -> TwinOf[thisfile]
    [] OTHER -> matches[1]

GoTo(matches, fs, position) ==
  LET members == ToSet(matches) \cup {thisfile}
      state == IF GoesOn(members) THEN rotation
               ELSE [members |-> members,
                     order |-> <<thisfile>> \o IndexOrder(ToSet(matches) \ {thisfile})]
      n   == Len(state.order)
      at  == SelectInSeq(state.order, LAMBDA s : s = thisfile)
      target == IF position > 0
                THEN state.order[IF position < n THEN position + 1 ELSE n]
                ELSE IF "r" \in fs THEN state.order[(at % n) + 1]
                ELSE JumpFallback(matches)
  IN /\ rotation' = state
     /\ thisfile' = target
     /\ tour' = IF position = 0 /\ "r" \in fs /\ rotation.members = members /\ tour # <<>>
                THEN Append(tour, target)
                ELSE IF position = 0 /\ "r" \in fs THEN <<thisfile, target>> ELSE <<target>>
     /\ outcome' = "jumped" /\ UNCHANGED dash

-----------------------------------------------------------------------------
(* _replace_links: the questions *)

NameOf(link) == link[2]
BesideAs(link, name) == <<link[1], name>>
TargetName == "target"

\* replace_link, after _replace_one has looked at the link again: a link of the
\* name of the target takes its place, or is already there
Replaceable(l, link) ==
  /\ l[link] = SourceFile
  /\ LET new == BesideAs(link, TargetName)
     IN new # link /\ new \in Backlink => l[new] \in {"none", TargetFile}

ReplaceOne(l, link) ==
  IF ~Replaceable(l, link) THEN l
  ELSE [x \in Backlink |-> IF x = BesideAs(link, TargetName) THEN TargetFile
                           ELSE IF x = link THEN "none" ELSE l[x]]

\* _finish_replace
Finishes(touched) == touched # {}

Finish(touched) ==
  IF Finishes(touched)
  THEN toldDirs' = toldDirs \cup touched /\ touchedDirs' = {}
  ELSE touchedDirs' = touched /\ UNCHANGED toldDirs

\* the links of a sequence are replaced, one after the other
AfterAll(l, links) == FoldLeft(ReplaceOne, l, links)
DoneIn(l, links) == {links[i] : i \in {i \in DOMAIN links :
                       Replaceable(AfterAll(l, SubSeq(links, 1, i - 1)), links[i])}}

Replace(links) ==
  LET done == DoneIn(leads, links)
  IN /\ leads' = AfterAll(leads, links)
     /\ replaced' = replaced \cup done
     /\ agreed' = agreed \cup ToSet(links)

Answer(answer) ==
  /\ asking # <<>>
  /\ LET rest == Tail(asking)
         doing == IF answer = "a" THEN asking ELSE IF answer = "y" THEN <<Head(asking)>> ELSE <<>>
         touched == touchedDirs \cup {l[1] : l \in DoneIn(leads, doing)}
         over == answer \in {"a", "q"} \/ (answer # "l" /\ rest = <<>>)
     IN /\ Replace(doing)
        /\ asking' = IF over THEN <<>> ELSE IF answer = "l" THEN asking ELSE rest
        /\ IF over THEN Finish(touched) ELSE touchedDirs' = touched /\ UNCHANGED toldDirs
        /\ answer = "l" => symAsks < MaxAsks
        /\ symAsks' = IF answer = "l" THEN symAsks + 1 ELSE symAsks
  /\ UNCHANGED <<spots, thisfile, yanked, calls, rotation, outcome, dash, tour, symMoves>>

StartReplace(fs) ==
  /\ asking' = IF yanked = {} \/ "y" \notin fs THEN <<>>
               ELSE SetToSeq({l \in Backlink : leads[l] = SourceFile})
  /\ touchedDirs' = {} /\ agreed' = {} /\ replaced' = {} /\ toldDirs' = {}
  /\ outcome' = IF yanked = {} \/ "y" \notin fs THEN "refused" ELSE "asking"
  /\ UNCHANGED <<thisfile, rotation, dash, leads, tour, symAsks>>

-----------------------------------------------------------------------------
(* execute and _execute *)

Reports(what) == outcome' = what /\ UNCHANGED <<thisfile, rotation, dash, tour, symLinks>>

\* make_dashboard: the directory gets one link for each match, loses its other
\* links, and is entered
Dashboard(matches) ==
  /\ dash' = ToSet(matches) /\ thisfile' = 0 /\ tour' = <<>> /\ outcome' = "dashboard"
  /\ UNCHANGED <<rotation, symLinks>>

Run(fs, position) ==
  LET matches == Matches(fs)
      names == NamesOf(fs)
  IN IF "q" \in fs /\ fs \cap {"a", "d", "j", "p", "x", "R"} = {} THEN Reports("rescanned")
     ELSE IF "R" \in fs THEN StartReplace(fs)
     ELSE IF names = {} \/ (Cardinality(names) > 1 /\ "m" \notin fs) THEN Reports("refused")
     ELSE IF matches = <<>> THEN Reports(IF "p" \in fs THEN "printed" ELSE "no match")
     ELSE IF ("a" \in fs /\ Len(matches) > 1) \/ ("d" \in fs /\ fs \cap {"a", "x"} = {})
     THEN Dashboard(matches)
     ELSE IF "x" \in fs /\ "a" \notin fs THEN Reports("yanked")
     ELSE IF "p" \in fs /\ "a" \notin fs THEN Reports("printed")
     ELSE IF fs \cap {"a", "j"} # {} THEN GoTo(matches, fs, position) /\ UNCHANGED symLinks
     ELSE /\ thisfile' = matches[1] /\ outcome' = "selected" /\ tour' = <<>>
          /\ UNCHANGED <<rotation, dash, symLinks>>

\* The user gives the command; there is no question on the console.
Vdsym(fs) ==
  /\ asking = <<>> /\ Len(calls) < MaxVdsyms
  /\ calls' = Append(calls, NewCall(fs))
  /\ UNCHANGED <<spots, thisfile, yanked, rotation, outcome, dash, symLinks, tour, symMoves>>

\* a prompt answered twice must not run the command twice
Counts(c, h) == h \notin c.called

\* Hook h of a command proceeds: the next one is asked, or the command runs
Proceed(i, h, position) ==
  /\ h <= calls[i].next /\ h \in Hook
  /\ Counts(calls[i], h)
  /\ IF calls[i].next < Cardinality(Hook)
     THEN /\ calls' = [calls EXCEPT ![i].next = @ + 1, ![i].called = @ \cup {h}]
          /\ UNCHANGED <<thisfile, rotation, outcome, dash, symLinks, tour>>
     ELSE /\ asking = <<>>
          /\ calls' = [calls EXCEPT ![i].runs = @ + 1, ![i].called = @ \cup {h}]
          /\ Run(calls[i].flags, position)
  /\ UNCHANGED <<spots, yanked, symMoves>>

-----------------------------------------------------------------------------
(* The user and other programs *)

MoveCursor(s) ==
  /\ symMoves < MaxMoves /\ symMoves' = symMoves + 1
  /\ s \in spots /\ s # thisfile /\ thisfile' = s /\ tour' = <<>>
  /\ UNCHANGED <<spots, yanked, calls, rotation, outcome, dash, symLinks>>
Yank ==
  /\ yanked = {} /\ thisfile # 0 /\ yanked' = {thisfile}
  /\ UNCHANGED <<spots, thisfile, calls, rotation, outcome, dash, symLinks, tour, symMoves>>
\* a file disappears, or is made
FileChanges(s) ==
  /\ symMoves < MaxMoves /\ symMoves' = symMoves + 1 /\ s # thisfile /\ s \notin yanked
  /\ spots' = IF s \in spots THEN spots \ {s} ELSE spots \cup {s}
  /\ tour' = <<>>
  /\ UNCHANGED <<thisfile, yanked, calls, rotation, outcome, dash, symLinks>>
LinkChanges(l) ==
  /\ symMoves < MaxMoves /\ symMoves' = symMoves + 1
  /\ leads' = [leads EXCEPT ![l] = IF @ = OtherFile THEN SourceFile ELSE OtherFile]
  /\ UNCHANGED <<spots, thisfile, yanked, calls, rotation, outcome, dash, asking,
                 touchedDirs, toldDirs, agreed, replaced, tour, symAsks>>

SymNext ==
  \/ \E fs \in Flagged : Vdsym(fs)
  \/ \E i \in DOMAIN calls, h \in Hook, position \in {0, 2} : Proceed(i, h, position)
  \/ \E answer \in {"y", "n", "a", "l", "q"} : Answer(answer)
  \/ \E s \in Spot : MoveCursor(s) \/ FileChanges(s)
  \/ Yank
  \/ \E l \in Backlink : LinkChanges(l)

SymSpec == SymInit /\ [][SymNext]_symVars

-----------------------------------------------------------------------------
(* Properties *)

SymTypeOK ==
  /\ spots \subseteq Spot /\ thisfile \in Spot \cup {0} /\ yanked \subseteq Spot
  /\ dash \subseteq Spot /\ leads \in [Backlink -> {SourceFile, TargetFile, OtherFile, "none"}]
  /\ ToSet(asking) \subseteq Backlink /\ agreed \subseteq Backlink /\ replaced \subseteq Backlink

\* Jumps with -r, each of which searches anew from where the one before went,
\* come to every place of the name before they come to one again.
RotationVisitsAll ==
  \A i, j \in DOMAIN tour :
    i < j /\ j - i < Cardinality(rotation.members) => tour[i] # tour[j]

\* However often and late hooks proceed: a command runs at most once, after all
\* of them let it ("each calls proceed() to go on, maybe after a prompt, or not
\* at all to abort"; "a prompt answered twice must not run the command twice").
HooksAgree ==
  \A i \in DOMAIN calls : calls[i].runs <= 1 /\ (calls[i].runs = 1 => calls[i].called = Hook)

\* Only links that were agreed to are replaced; and in whichever way the
\* questions end, the index has been told of every directory with a new link.
ReplacedIsTold ==
  /\ replaced \subseteq agreed
  /\ asking = <<>> => {l[1] : l \in replaced} \subseteq toldDirs

\* What :vdsym promises for its jumps, its hooks and its replacements.
VdsymKeepsItsWord == RotationVisitsAll /\ HooksAgree /\ ReplacedIsTold
=============================================================================

------------------------------ MODULE MCPlugins -----------------------------
(***************************************************************************)
(* The smaller plugins of ranger, checked in one run.  They share no state *)
(* that their own modules do not have, so that interleaving them would     *)
(* show nothing: a behaviour is one of one plugin, chosen at the start,    *)
(* and the others stay at rest.                                            *)
(***************************************************************************)
EXTENDS HistoryNavi, ProbeCache, VdIndex, DcSize, DcView, TreeFilter, VdSym, PairView, FlatView,
        Hooks, Jumps, VdSearch, TLC

CONSTANTS home, work,              \* HistoryNavi
          p1, p2, i1, i2, t1, t2, t3, ranger, worker,  \* ProbeCache
          root, sub,               \* VdIndex
          top, dir, deep, leaf, note  \* TreeFilter
MCProcessOf == t1 :> ranger @@ t2 :> ranger @@ t3 :> worker
MCKeeper    == ranger :> ranger @@ worker :> ranger
MCAbove     == sub :> root
MCNameAt    == <<"n", "n", "n", "m">>
MCTwinOf    == 3 :> 2
MCFlagged   == {{"b", "j", "r"}, {"b", "j"}, {"b"}, {"names", "m", "a"}, {"y", "R"}}
MCBacklink  == {<<"d", "l">>, <<"d", "target">>, <<"e", "l">>}
MCFolderOf  == dir :> top @@ note :> top @@ deep :> dir @@ leaf :> deep
MCOtherMs   == 7 :> 1000 @@ 8 :> 1400
MCFolderAbove == 2 :> 1 @@ 3 :> 1 @@ 4 :> 3 @@ 6 :> 5
MCTypeOf    == <<"d", "f", "d", "f", "d", "f", "f", "l">>
MCHolder    == [i \in {"sub", "h", "t", "l"} |-> "top"] @@ "b" :> "sub"
MCNature    == "sub" :> "dir" @@ "t" :> "note" @@ "l" :> "link" @@ [i \in {"b", "h"} |-> "video"]
MCCodecOf   == "l" :> "av1" @@ [i \in {"b", "h"} |-> "hevc"] @@ [i \in {"sub", "t"} |-> ""]
Av1Only     == [want |-> {"av1"}, not |-> {}]
Dc(mode, opts) == [mode |-> mode, opts |-> opts, codec |-> Av1Only, cursor |-> FALSE]
MCDcCommands ==
  {Dc("all", {"sort", "hide_empty"}), Dc("video", {"filter", "hide_empty"}),
   [Dc("video", {"sort", "filter"}) EXCEPT !.codec = [want |-> {}, not |-> {"av1"}]],
   [Dc("video", {}) EXCEPT !.cursor = TRUE]}
MCKindOf    == "dangling" :> "tick" @@ "sym" :> "cd" @@ "guard" :> "guard" @@ "flow" :> "paste"

FolderAt(age) == [kind |-> "dir", abs |-> FALSE, to |-> << >>, age |-> age]
LeafAt(age)   == [FolderAt(age) EXCEPT !.kind = "file"]
AbsTo(to)   == [kind |-> "link", abs |-> TRUE, to |-> to, age |-> 0]
RelTo(to)   == [AbsTo(to) EXCEPT !.abs = FALSE]
MCTreeAt ==
  << >> :> FolderAt(0) @@ <<"a">> :> FolderAt(0) @@ <<"b">> :> FolderAt(0) @@ <<"a", "c">> :> FolderAt(0)
  @@ <<"a", ".git">> :> FolderAt(0) @@ <<"b", "f">> :> LeafAt(0)
  @@ <<"a", "l">> :> AbsTo(<<"b">>) @@ <<"b", "m">> :> RelTo(<<"..", "a", "c", "n">>)
  @@ <<"a", "c", "n">> :> RelTo(<<"..", "l", "f">>) @@ <<"b", "x">> :> AbsTo(<<"a", "q", "z">>)
  @@ <<"a", "c", "u">> :> RelTo(<<"..">>)
  @@ <<"a", "today1">> :> FolderAt(0) @@ <<"a", "today1", "g">> :> LeafAt(1)
  @@ <<"a", "today1", "h">> :> FolderAt(2)
MCTodays    == <<"today1">>
MCStart     == <<"a">>
Called_(r, n, l) == [root |-> r, name |-> n, leads |-> l]
Numbered(z, l)   == [root |-> "data", dnum |-> 1, zeros |-> z, idx |-> 5, link |-> l]
MCItem      == {Called_("view", "a", "A"), Called_("data", "A", ""), Called_("data", "ab", "a")}
MCPicture   == {Numbered(0, FALSE), Numbered(2, TRUE), Numbered(4, FALSE)}
MCFold      == [w \in {"a", "ab", "1-05"} |-> w] @@ "A" :> "a"
MCPartOf    == [w \in {"A", "ab", "1-05"} |-> {w}] @@ "a" :> {"a", "ab"}
MCNumeric   == "1-05" :> <<1, 5>>
Ask(n, f, v, m) == [needle |-> n, icase |-> "i" \in f, glob |-> "g" \in f, links |-> "l" \in f,
                    view |-> v, mode |-> m]
MCQueries   == {Ask("a", {"i"}, FALSE, "none"), Ask("A", {"i"}, TRUE, "validate"),
                Ask("a", {"g"}, FALSE, "rescan"), Ask("A", {"l"}, FALSE, "validate"),
                Ask("1-05", {}, FALSE, "none")}

VARIABLE part
Parts == {"history", "probe", "index", "dcsize", "dcview", "tree", "sym", "pair", "flat",
          "hooks", "jumps", "search"}
partVars == <<part, histVars, probeVars, indexVars, dcVars, viewVars, treeVars, symVars, pairVars,
              flatVars, hookVars, jumpVars, searchVars>>

Init ==
  /\ part \in Parts
  /\ HistInit
  /\ ProbeInit /\ inodeAt = (p1 :> i1 @@ p2 :> i2)
  /\ IndexInit
  /\ PairInit /\ listing = (IF part = "pair" THEN PairFile ELSE {})
  /\ \/ msNow = <<1000, 1400, 1800>>
     \/ (part = "pair" /\ msNow = <<1000, 1800, 0>>)
  /\ FlatInit /\ (growing = Node \ {8, 4} \/ (part = "flat" /\ growing = Node))
  /\ HooksInit /\ (part # "hooks" => fmKnown)
  /\ DcInit /\ DcViewInit
  /\ JumpsInit
  /\ SearchInit /\ (part # "search" => stored = Item /\ pictures = {})
  /\ TreeInit /\ (part # "tree" => cwd = top)
  /\ SymInit  /\ thisfile = 1
  /\ \A l \in Backlink : (l[2] = "target" /\ part = "sym") \/ leads[l] = SourceFile

Only(p) ==
  /\ part = p /\ UNCHANGED part
  /\ p # "history" => UNCHANGED histVars
  /\ p # "probe"   => UNCHANGED probeVars
  /\ p # "index"   => UNCHANGED indexVars
  /\ p # "pair"    => UNCHANGED pairVars
  /\ p # "flat"    => UNCHANGED flatVars
  /\ p # "hooks"   => UNCHANGED hookVars
  /\ p # "dcsize"  => UNCHANGED dcVars
  /\ p # "dcview"  => UNCHANGED viewVars
  /\ p # "tree"    => UNCHANGED treeVars
  /\ p # "sym"     => UNCHANGED symVars
  /\ p # "jumps"   => UNCHANGED jumpVars
  /\ p # "search"  => UNCHANGED searchVars

Next ==
  \/ Only("history") /\ HistNext
  \/ Only("probe")   /\ ProbeNext
  \/ Only("index")   /\ IndexNext
  \/ Only("pair")    /\ PairNext
  \/ Only("flat")    /\ FlatNext
  \/ Only("hooks")   /\ HooksNext
  \/ Only("dcsize")  /\ DcNext
  \/ Only("dcview")  /\ DcViewNext
  \/ Only("tree")    /\ TreeNext
  \/ Only("sym")     /\ SymNext
  \/ Only("jumps")   /\ JumpsNext
  \/ Only("search")  /\ SearchNext

Spec == Init /\ [][Next]_partVars

\* Every variable of the plugin that acts has its type, and H and L never stand still.
PluginsTypeOK ==
  CASE part = "history" -> HistTypeOK /\ NoStandstill  [] part = "tree"  -> TreeTypeOK
    [] part = "probe"   -> ProbeTypeOK                 [] part = "index" -> IndexTypeOK
    [] part = "dcsize"  -> DcTypeOK                    [] part = "sym"   -> SymTypeOK
    [] part = "pair"    -> PairTypeOK                  [] part = "flat"  -> FlatTypeOK
    [] part = "hooks"   -> HooksTypeOK                 [] part = "dcview" -> DcViewTypeOK
    [] OTHER -> TRUE
\* What the views of files show is what they were asked for: every match can be reached, pairs
\* are files of one duration, a flattened view has what the directory had, jumps land where links
\* lead and can be undone, and a search finds what is called like its needle.
ViewsAreTrue == /\ MatchesAreReached /\ PairsAreMeant /\ FlatShowsWhatWasShown
                /\ JumpsLand /\ SearchFinds
=============================================================================

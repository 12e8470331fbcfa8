------------------------------ MODULE FlatView ------------------------------
(***************************************************************************)
(* src/ranger/plugins/cmd_view.py: :flat_inode shows a directory together  *)
(* with what lies below it, only from the entries that were visible before *)
(* and, if asked, only inodes of one type.  It wraps ranger's generator    *)
(* that loads a directory and the walk that the generator makes.  Loading  *)
(* goes on in the background, commands arrive before it is done, and the   *)
(* plain :flat, :filter and the files change the same directory.           *)
(***************************************************************************)
EXTENDS Integers, FiniteSets

CONSTANTS Node,           \* what can lie below the directory
          FolderAbove,    \* [nodes below another node -> that node], a directory
          TypeOf,         \* [Node -> {"d", "f", "l"}]
          Dotted,         \* nodes that the option hidden_filter matches
          Banned,         \* nodes that a :filter hides
          MaxFlats, MaxSprouts  \* bounds on commands, and on changes of the files
ASSUME FlatAssumption ==
  /\ TypeOf \in [Node -> {"d", "f", "l"}]
  /\ FolderAbove \in [DOMAIN FolderAbove -> {n \in Node : TypeOf[n] = "d"}]
  /\ Node \subseteq Nat \ {0}
  /\ DOMAIN FolderAbove \cup Dotted \cup Banned \subseteq Node
  /\ MaxFlats \in Nat /\ MaxSprouts \in Nat

VARIABLES growing,             \* the nodes that exist
          flat, kind,          \* Directory.flat; the types of the _InodeTypeFilter, or {}
          filtering, showing,  \* whether the :filter is set; show_hidden
          flatActive, flatEntries, \* _flat_inode_active, _flat_inode_entries (Nothing: None)
          loaded, flatFiles,   \* files_all and files; Nothing while they are unloaded
          loading,             \* "no", or a load of the background: "begun"
          flatWalk,            \* what the last load took as it began
          before,              \* what was visible before the view was flattened, or Nothing
          plain,               \* :flat changed the level since
          flats, sprouts
flatVars == <<growing, flat, kind, filtering, showing, flatActive, flatEntries, loaded, flatFiles, loading,
              flatWalk, before, plain, flats, sprouts>>

Nothing == {0}

(***************************************************************************)
(* ranger: the walk, and the filters of a directory                        *)
(***************************************************************************)
Parent(n)   == IF n \in DOMAIN FolderAbove THEN FolderAbove[n] ELSE n
AtTop(n)    == n \notin DOMAIN FolderAbove
Above2(n)   == {n, Parent(n), Parent(Parent(n))}     \* no node lies deeper
DepthOf(n)  == Cardinality(Above2(n)) - 1
TopOf(n)    == Parent(Parent(n))
InLevel(n, level) == level = -1 \/ DepthOf(n) <= level
Walk(level) == {n \in growing : InLevel(n, level)}

\* _filtered_walklevel: at the top only the entries, and hidden directories nowhere.
InHidden(n) == \E m \in Above2(n) : TypeOf[m] = "d" /\ m \in Dotted
Pruned(ns)  == {n \in ns : /\ TopOf(n) \in flatWalk.entries
                           /\ flatWalk.hidden => ~InHidden(n)}
\* _filtered_load_bit_by_bit: the walk goes by what was true as the generator began.
Found(level) == IF level # 0 /\ flatWalk.prunes THEN Pruned(Walk(level)) ELSE Walk(level)

\* ranger's filters: show_hidden, :filter, and the types.
Lets(n, shows, filters, kinds) == /\ shows \/ Above2(n) \cap Dotted = {}
                                  /\ filters => n \notin Banned
                                  /\ kinds # {} => TypeOf[n] \in kinds
Passes(n, kinds)    == Lets(n, showing, filtering, kinds)
Filtered(ns, kinds) == {n \in ns : Passes(n, kinds)}

FlatInit ==
  /\ growing \in {ns \in SUBSET Node : \A n \in ns : Parent(n) \in ns}
  /\ flat = 0 /\ kind = {} /\ filtering = FALSE /\ showing = FALSE
  /\ flatActive = FALSE /\ flatEntries = Nothing
  /\ loaded = Nothing /\ flatFiles = Nothing /\ loading = "no"
  /\ flatWalk = [hidden |-> TRUE, prunes |-> FALSE, entries |-> Nothing]
  /\ before = Nothing /\ plain = FALSE /\ flats = 0 /\ sprouts = 0

Shown(ns, kinds) == loaded' = ns /\ flatFiles' = IF ns = Nothing THEN Nothing ELSE Filtered(ns, kinds)

\* load_content: scheduled; with its first step the generator takes show_hidden and the entries ...
LoadBegins ==
  /\ loading = "no" /\ loaded = Nothing /\ loading' = "begun"
  /\ flatWalk' = [hidden |-> ~showing, prunes |-> flat # 0 /\ flatActive, entries |-> flatEntries]
  /\ UNCHANGED <<growing, flat, kind, filtering, showing, flatActive, flatEntries, loaded, flatFiles, before,
                 plain, flats, sprouts>>
\* ... and after a pause it walks by them, and filters what it has found by what is true now.
LoadEnds ==
  /\ loading = "begun" /\ loading' = "no"
  /\ Shown(Found(flat), kind)
  /\ UNCHANGED <<growing, flat, kind, filtering, showing, flatActive, flatEntries, flatWalk, before,
                 plain, flats, sprouts>>

(***************************************************************************)
(* :flat_inode                                                             *)
(***************************************************************************)
\* Contents that are not there are loaded at once, without the levels below; what is visible now
\* is remembered, unless the view is flattened already; the filter is replaced, and :flat called.
EntriesNow(now) == now
EntriesKept(now) == IF flatEntries = Nothing THEN now ELSE flatEntries
FlatInode(types, level, toggle) ==
  LET all    == IF loaded = Nothing THEN Walk(0) ELSE loaded
      now    == Filtered(all, kind)
      kept   == EntriesKept(now)
      off    == toggle /\ level = flat /\ kind # {}
      level2 == IF off THEN 0 ELSE level
  IN
  /\ flats < MaxFlats /\ flats' = flats + 1
  /\ kind' = IF off THEN {} ELSE types
  /\ flatActive' = (level2 # 0)
  /\ flatEntries' = IF level2 # 0 THEN kept ELSE Nothing
  /\ flat' = level2
  /\ loading' = "no" /\ Shown(Nothing, kind')     \* :flat unloads, and loads again
  /\ before' = IF level2 = 0 THEN Nothing ELSE IF before = Nothing THEN now ELSE before
  /\ plain' = (plain /\ level2 # 0)
  /\ UNCHANGED <<growing, filtering, showing, flatWalk, sprouts>>

\* ranger's :flat.
Flat(level) ==
  /\ flats < MaxFlats /\ flats' = flats + 1
  /\ flat' = level /\ plain' = (before # Nothing \/ level # 0)
  /\ loading' = "no" /\ Shown(Nothing, kind)
  /\ UNCHANGED <<growing, kind, filtering, showing, flatActive, flatEntries, flatWalk, before, sprouts>>

\* :filter and :unfilter, zh (:set show_hidden!): what is loaded is filtered again, and no more.
FilteredAgain(shows, filters) == IF loaded = Nothing THEN Nothing
                              ELSE {n \in loaded : Lets(n, shows, filters, kind)}
Filter(on) ==
  /\ flats < MaxFlats /\ flats' = flats + 1
  /\ filtering # on /\ filtering' = on
  /\ flatFiles' = FilteredAgain(showing, on)
  /\ UNCHANGED <<growing, flat, kind, showing, flatActive, flatEntries, loaded, loading, flatWalk, before,
                 plain, sprouts>>
ShowHidden ==
  /\ flats < MaxFlats /\ flats' = flats + 1
  /\ showing' = ~showing
  /\ flatFiles' = FilteredAgain(~showing, filtering)
  /\ UNCHANGED <<growing, flat, kind, filtering, flatActive, flatEntries, loaded, loading, flatWalk, before,
                 plain, sprouts>>

\* A file comes or goes, and the directory is loaded again at once or some day.
Sprout(n) ==
  /\ sprouts < MaxSprouts /\ sprouts' = sprouts + 1
  /\ growing' = IF n \in growing THEN growing \ {n} ELSE growing \cup {n}
  /\ \A m \in growing' : Parent(m) \in growing'
  /\ loaded' = Nothing /\ flatFiles' = Nothing /\ loading' = "no"
  /\ UNCHANGED <<flat, kind, filtering, showing, flatActive, flatEntries, flatWalk, before, plain, flats>>

FlatNext ==
  \/ LoadBegins \/ LoadEnds \/ ShowHidden
  \/ \E types \in {{}, {"d"}, {"f"}, {"l"}}, level \in {-1, 0, 1}, toggle \in BOOLEAN :
       FlatInode(types, level, toggle)
  \/ \E level \in {-1, 0, 1} : Flat(level)
  \/ \E on \in BOOLEAN : Filter(on)
  \/ \E n \in Node : Sprout(n)

FlatSpec == FlatInit /\ [][FlatNext]_flatVars

FlatTypeOK ==
  /\ growing \subseteq Node /\ flat \in {-1, 0, 1} /\ kind \subseteq {"d", "f", "l"}
  /\ {filtering, showing, flatActive, plain} \subseteq BOOLEAN
  /\ flatEntries = Nothing \/ flatEntries \subseteq Node
  /\ loaded = Nothing \/ (loaded \subseteq Node /\ flatFiles \subseteq loaded)
  /\ {flatWalk.hidden, flatWalk.prunes} \subseteq BOOLEAN
  /\ flatWalk.entries = Nothing \/ flatWalk.entries \subseteq Node
  /\ loading \in {"no", "begun"} /\ flats \in 0 .. MaxFlats /\ sprouts \in 0 .. MaxSprouts

\* What the commands asked for: of the files below the entries that were visible before the view
\* was flattened, down to the level, those that the filters of now let pass.
Meant == {n \in growing : /\ InLevel(n, flat) /\ Passes(n, kind)
                          /\ flat # 0 => TopOf(n) \in before}
\* A walk does not enter hidden directories if it began before zh showed them; zh walks no more.
Unwalked == IF flat # 0 /\ showing /\ flatWalk.hidden THEN {n \in Node : InHidden(n)} ELSE {}

\* Whatever is loading when the commands arrive, a view shows nothing but what they asked for, and
\* all of it, except what lies below directories that were hidden as the walk began and that zh
\* shows since; without a level the view is that of the directory alone.
FlatShowsWhatWasShown ==
  loaded # Nothing /\ ~plain => flatFiles = Meant \ Unwalked
=============================================================================

----------------------------- MODULE TreeFilter -----------------------------
(***************************************************************************)
(* src/ranger/plugins/treefilter.py: layers of filters over a tree, each   *)
(* the result of a search with fd or rg that ran in ranger's loader while  *)
(* other layers came and went.  A directory shows an entry when all layers *)
(* that are live in it allow it.                                           *)
(***************************************************************************)
EXTENDS Integers, Sequences, SequencesExt

CONSTANTS Top, Entry,  \* the tree: its root and what is below
          FolderOf,    \* [Entry -> Entry \cup {Top}]
          Folders,     \* the directories
          MaxSearches, MaxUndos  \* bounds
ASSUME TreeAssumption ==
  /\ Top \notin Entry /\ FolderOf \in [Entry -> Folders] /\ Top \in Folders
  /\ Folders \subseteq Entry \cup {Top} /\ MaxSearches \in Nat /\ MaxUndos \in Nat

VARIABLES cwd,
          layers,    \* _stack: [root, allowed, full, released], and what was found
          searches,  \* _Search in the loader: [root, found, names, fd], newest first
          toggled,   \* observed: a released directory was filtered again
          searched, undos  \* counted for the bounds
treeVars == <<cwd, layers, searches, toggled, searched, undos>>

\* A path and those above it, and those of them below a root.
Chain[p \in Entry \cup {Top}] == {p} \cup IF p = Top THEN {} ELSE Chain[FolderOf[p]]
Within(p, root)  == root \in Chain[p]
Between(p, root) == Chain[p] \ Chain[root]

TreeInit ==
  /\ cwd \in Folders /\ layers = << >> /\ searches = << >> /\ toggled = FALSE
  /\ searched = 0 /\ undos = 0

\* _live, _applicable and _refilter.
Live(s, d)   == /\ Within(d, s.root) /\ d \notin s.released
                /\ \A p \in Between(d, s.root) : p \notin s.full
Visible(c)   == \A i \in DOMAIN layers : Live(layers[i], FolderOf[c]) => c \in layers[i].allowed

CdTree(d) == d # cwd /\ cwd' = d /\ UNCHANGED <<layers, searches, toggled, searched, undos>>

\* _plan: what the directory shows, all of it or what is marked, goes to the tool as its paths
\* (not when the tool limits the depth, or too much is chosen), or limits what it found later.
Underneath(names) == {p \in Entry : Between(p, cwd) \cap names # {}}
Everything(names) == \A c \in Entry : FolderOf[c] = cwd => c \in names
Planned(names, paths) == IF paths \/ Everything(names) THEN Entry ELSE names

\* _start: the search is added; fd or rg finds some of what it may.
StartSearch(names, paths, found, fd) ==
  /\ searched < MaxSearches /\ searched' = searched + 1
  /\ names # {} /\ \A c \in names : FolderOf[c] = cwd /\ Visible(c)
  /\ found # {} /\ \A p \in found : cwd \in Chain[p] \ {p} /\ (~fd => p \notin Folders)
  /\ paths => ~Everything(names) /\ found \subseteq Underneath(names)
  /\ searches' = <<[root |-> cwd, found |-> found, names |-> Planned(names, paths), fd |-> fd]>>
                 \o searches
  /\ UNCHANGED <<cwd, layers, toggled, undos>>

\* _ok: through the names and the layers there are when the search ends.
OkByName(p, s) == Between(p, s.root) \cap s.names # {}
Ok(p, s) == OkByName(p, s) /\ \A c \in Between(p, s.root) : Visible(c)

\* _run: the first search of the loader ends with a layer, or with nothing found or a failure.
EndSearch ==
  /\ searches # << >> /\ searches' = Tail(searches)
  /\ LET s == Head(searches)
         matches == {p \in s.found : Ok(p, s)} IN
     layers' = IF matches = {} THEN layers
               ELSE Append(layers, [root |-> s.root, released |-> {}, matches |-> matches,
                                    allowed |-> UNION {Between(p, s.root) : p \in matches},
                                    full |-> IF s.fd THEN matches \cap Folders ELSE {}])
  /\ UNCHANGED <<cwd, toggled, searched, undos>>
AbortSearch(i) == searches' = RemoveAt(searches, i) /\ UNCHANGED <<cwd, layers, toggled, searched, undos>>

\* tfilter_undo: the newest layer that was searched here; in a directory below, all layers are
\* released, or hold again; with -a all that cover it are dropped.
Covering == {i \in DOMAIN layers : Within(cwd, layers[i].root)}
Here     == {i \in Covering : layers[i].root = cwd}
Released == \A i \in Covering : cwd \in layers[i].released
Ascending(is) == CHOOSE q \in SetToSeqs(is) : \A i, j \in DOMAIN q : i < j => q[i] < q[j]
Dropped(is) == LET left == Ascending(DOMAIN layers \ is)
               IN  [j \in DOMAIN left |-> layers[left[j]]]
UndoFilter ==
  /\ Covering # {} /\ undos < MaxUndos /\ undos' = undos + 1
  /\ \/ layers' = Dropped(Covering) /\ UNCHANGED toggled
     \/ Here # {} /\ UNCHANGED toggled
        /\ layers' = Dropped({CHOOSE i \in Here : \A j \in Here : j <= i})
     \/ Here = {} /\ toggled' = (toggled \/ Released)
        /\ layers' = [i \in DOMAIN layers |->
             IF i \notin Covering THEN layers[i]
             ELSE [layers[i] EXCEPT !.released = IF Released THEN @ \ {cwd} ELSE @ \cup {cwd}]]
  /\ UNCHANGED <<cwd, searches, searched>>

TreeNext ==
  \/ \E d \in Folders : CdTree(d)
  \/ \E names, found \in SUBSET Entry, paths, fd \in BOOLEAN : StartSearch(names, paths, found, fd)
  \/ EndSearch \/ UndoFilter
  \/ \E i \in DOMAIN searches : AbortSearch(i)

TreeSpec == TreeInit /\ [][TreeNext]_treeVars

TreeTypeOK ==
  /\ cwd \in Folders /\ toggled \in BOOLEAN
  /\ \A i \in DOMAIN layers : /\ layers[i].root \in Folders
                              /\ layers[i].released \subseteq Folders
                              /\ layers[i].full \subseteq layers[i].matches
                              /\ layers[i].matches \subseteq layers[i].allowed

\* Whatever layers came and went while a search ran: every match of the newest layer can be
\* reached from where it was searched, through directories that all show the next one ("The
\* tree shows only matches and the dirs leading to them, at every depth"; "Treefilters nest").
\* It holds until a released directory is filtered again.
MatchesAreReached ==
  layers # << >> /\ ~toggled =>
    LET s == Last(layers) IN \A p \in s.matches : \A c \in Between(p, s.root) : Visible(c)
=============================================================================

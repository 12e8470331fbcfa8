------------------------------- MODULE DcView -------------------------------
(***************************************************************************)
(* src/ranger/plugins/vdsize_cumulative.py: what dcsize does to the view.  *)
(* A command counts the entries shown, sets the sorting of its directory   *)
(* and, when its task ends, a filter; "dcsize undo" goes back to how it  *)
(* was before the first command.  Directories are entered in between, and  *)
(* the user sorts and filters as well.                                     *)
(*                                                                         *)
(* A DcFilter is an object: it is changed in place, and the lists that     *)
(* snapshots keep are shallow copies.  (How the sizes are counted while    *)
(* the disk changes, and the line modes, is in DcSize: here a result is    *)
(* counted when it arrives, and which comes first makes no difference: so  *)
(* other codecs are asked for only when no task goes on.)                  *)
(* Left out: marked files, and the drawing of columns.                     *)
(***************************************************************************)
EXTENDS Integers, Sequences, FiniteSets, SequencesExt

CONSTANTS
  DcFolder, DcTop,     \* directories, and the one at the start
  DcItem,              \* what is in them; a directory is an item of that name
  Holder,              \* [DcItem -> DcFolder]
  Nature,              \* [DcItem -> "dir", "video", "note", "link", "broken"]
  CodecOf,             \* [DcItem -> a format, or "" if it is no video]
  DcCommands,          \* [mode, opts, codec]: the mappings
  MaxDcs, MaxHands     \* bounds: commands; steps of the user between them
\* Codecs that nobody asks for, by which counts for those of an earlier command are known
OtherSpec == [want |-> {"earlier"}, not |-> {}]
ViewMode  == {"file", "all", "video"}
DcOption  == {"sort", "filter", "hide_empty"}
ASSUME DcViewAssumption ==
  /\ DcTop \in DcFolder /\ Holder \in [DcItem -> DcFolder] /\ CodecOf \in [DcItem -> STRING]
  /\ Nature \in [DcItem -> {"dir", "video", "note", "link", "broken"}]
  /\ \A i \in DcItem : Nature[i] = "dir" => i \in DcFolder /\ Holder[i] # i
  /\ IsFiniteSet(DcItem)
  /\ \A c \in DcCommands : c.mode \in ViewMode /\ c.opts \subseteq DcOption /\ c.codec # OtherSpec

VARIABLES
  thisdir, loadedDirs, \* where the user is, and the directories loaded so far
  specNow,             \* SPEC: the codecs wanted and those not wanted
  sizeOf,              \* SIZES: [mode -> [DcItem -> count or Unknown]]
  stackOf,             \* filter_stack: [DcFolder -> sequence of filters]
  filterAt,            \* the DcFilters made so far: [mode, hide, dir]; dir is observed
  filesOf,             \* [DcFolder -> items shown]
  sortOf, globalSort,  \* local sort orders, "" where there is none, and the global one
  snapOf,              \* SNAP: [DcFolder -> none or one snapshot]
  dcTasks,             \* the loader's tasks, the first one works: [dir, mode, opts, todo]
  foundAt,             \* observed: what the first command found: [stack, sort, subs]
  filteredFor,         \* observed: [DcFolder -> SPEC when it was last filtered]
  outdated,            \* observed: directories whose videos may be counted for other codecs
  undone,              \* observed: the last undo: what was to be restored, and what was
  hands, dcs           \* counted for the bounds
viewVars == <<thisdir, loadedDirs, specNow, sizeOf, stackOf, filterAt, filesOf, sortOf, globalSort,
              snapOf, dcTasks, foundAt, filteredFor, outdated, undone, hands, dcs>>

Unknown  == -1
UserFilter == 0            \* a filter of the user's, which hides notes
NothingUndone == [was |-> << >>, is |-> << >>]

-----------------------------------------------------------------------------
(* _match, _tree, _scan *)

Match(codec, spec) ==
  /\ codec # "" /\ codec \notin spec.not
  /\ spec.want # {} => codec \in spec.want

\* What a file counts for, below a directory or by itself; directories one level deep.
Leaf(item, mode, spec) ==
  CASE Nature[item] = "video"             -> mode # "video" \/ Match(CodecOf[item], spec)
    [] Nature[item] = "note"              -> mode # "video"
    [] Nature[item] \in {"link", "broken"} -> mode = "all"
    [] OTHER                              -> FALSE
Tree(item, mode, spec) ==
  Cardinality({i \in DcItem : /\ Leaf(i, mode, spec)
                              /\ IF Nature[item] = "dir" THEN Holder[i] = item ELSE i = item})

-----------------------------------------------------------------------------
(* DcFilter *)

IsDcFilter(id) == id # UserFilter
LetsPass(id, item, sizes, filters, spec) ==
  IF ~IsDcFilter(id) THEN Nature[item] # "note"
  ELSE IF Nature[item] = "dir"
       THEN filters[id].hide => sizes[filters[id].mode][item] # 0
       ELSE filters[id].mode = "video" => \/ sizes["video"][item] > 0
                                          \/ sizes["video"][item] = Unknown /\ Tree(item, "video", spec) > 0
Held(d) == {i \in DcItem : Holder[i] = d}
\* Directory.refilter (ranger): what all filters of the stack let pass
Refiltered(d, stack, sizes, filters, spec) ==
  {i \in Held(d) : \A k \in DOMAIN stack : LetsPass(stack[k], i, sizes, filters, spec)}
\* _get: what a filter had to count is kept.
CountsVideos(stack, filters) ==
  \E k \in DOMAIN stack : IsDcFilter(stack[k]) /\ filters[stack[k]].mode = "video"
Counted(dirs, stacks, sizes, filters, spec) ==
  [sizes EXCEPT !["video"] = [i \in DcItem |->
     IF /\ Holder[i] \in dirs /\ CountsVideos(stacks[Holder[i]], filters)
        /\ Nature[i] # "dir" /\ @[i] = Unknown
     THEN Tree(i, "video", spec) ELSE @[i]]]

DcFilterOf(stack) == {k \in DOMAIN stack : IsDcFilter(stack[k])}
\* A new filter is appended, or the one that is there changed.
SetFilter(d, mode, hide) ==
  LET new == [mode |-> mode, hide |-> hide, dir |-> d]
  IN IF DcFilterOf(stackOf[d]) # {}
     THEN /\ filterAt' = [filterAt EXCEPT ![stackOf[d][CHOOSE k \in DcFilterOf(stackOf[d]) : TRUE]] = new]
          /\ UNCHANGED stackOf
     ELSE /\ filterAt' = Append(filterAt, new)
          /\ stackOf' = [stackOf EXCEPT ![d] = Append(@, Len(filterAt) + 1)]
\* The only one there is
RemoveFilter(d) ==
  /\ stackOf' = IF DcFilterOf(stackOf[d]) = {} THEN stackOf
                ELSE [stackOf EXCEPT ![d] = RemoveAt(@, CHOOSE k \in DcFilterOf(@) : TRUE)]
  /\ UNCHANGED filterAt

-----------------------------------------------------------------------------
(* _snapshot, and the undoing *)

\* what the settings say in a directory
SortSeen(d) == IF sortOf[d] # "" THEN sortOf[d] ELSE globalSort
Children(d) == {i \in DcItem : Holder[i] = d /\ Nature[i] = "dir"}

\* The sort is taken for global: the attribute that would tell is not there (_snap_sort).
Snapshot(d) ==
  [sort |-> SortSeen(d), local |-> [e \in {d} \cup Children(d) |-> sortOf[e]],
   filt |-> stackOf[d], spec |-> IF d \in outdated THEN OtherSpec ELSE specNow,
   sizes |-> [m \in ViewMode |-> [i \in Held(d) |-> sizeOf[m][i]]],
   subdirs |-> [e \in Children(d) \cap loadedDirs |-> stackOf[e]]]
\* A bug for the runs to find: every command takes a snapshot.
KeptEach(d) == [snapOf EXCEPT ![d] = <<Snapshot(d)>>]
Kept(d) == IF snapOf[d] # << >> THEN snapOf ELSE [snapOf EXCEPT ![d] = <<Snapshot(d)>>]

\* Observed: the state to go back to, and whether someone else changed part of it since.
Seen(d) == [sort |-> SortSeen(d), stack |-> stackOf[d],
            subs |-> [e \in Children(d) \cap loadedDirs |-> stackOf[e]]]

FilteredAs(dirs, old) == [e \in DcFolder |-> IF e \notin dirs THEN filteredFor[e]
                                           ELSE IF e \in old THEN OtherSpec ELSE specNow]
\* The codecs asked for are not restored, but the counts are.
UndoView ==
  LET d == thisdir
      sn == snapOf[d][1]
      dirs == {d} \cup DOMAIN sn.subdirs
      restored == [e \in DcFolder |-> IF e = d THEN sn.filt
                                      ELSE IF e \in DOMAIN sn.subdirs THEN sn.subdirs[e] ELSE stackOf[e]]
      sizes == [m \in ViewMode |-> [i \in DcItem |-> IF Holder[i] = d THEN sn.sizes[m][i] ELSE sizeOf[m][i]]]
  IN /\ snapOf[d] # << >> /\ snapOf' = [snapOf EXCEPT ![d] = << >>]
     /\ stackOf' = restored
     /\ filesOf' = [e \in DcFolder |-> IF e \in dirs
                                       THEN Refiltered(e, restored[e], sizes, filterAt, specNow) ELSE filesOf[e]]
     /\ outdated' = IF sn.spec = specNow THEN outdated \ {d} ELSE outdated \cup {d}
     /\ filteredFor' = FilteredAs(dirs, outdated')
     /\ sizeOf' = Counted(dirs, restored, sizes, filterAt, specNow)
     /\ sortOf' = [e \in DcFolder |-> IF e \in DOMAIN sn.local THEN sn.local[e] ELSE sortOf[e]]
     /\ globalSort' = sn.sort
     /\ undone' = [was |-> foundAt[d], is |-> <<[sort |-> IF sortOf'[d] # "" THEN sortOf'[d] ELSE globalSort',
                                                stack |-> stackOf'[d],
                                                subs |-> [e \in DOMAIN sn.subdirs |-> stackOf'[e]]]>>]
     /\ foundAt' = [foundAt EXCEPT ![d] = << >>]
     /\ UNCHANGED <<thisdir, loadedDirs, specNow, filterAt, dcTasks, hands, dcs>>

-----------------------------------------------------------------------------
(* dcsize *)

ClearedFor(c) ==
  IF c.mode = "video" /\ c.codec # specNow
  THEN [sizeOf EXCEPT !["video"] = [i \in DcItem |-> Unknown]] ELSE sizeOf
Wanted(d, c, cursor) ==
  LET items == IF c.cursor THEN cursor ELSE filesOf[d]
  IN {i \in items : Nature[i] = "dir"}
     \cup {i \in (IF {"sort", "filter"} \cap c.opts # {} THEN filesOf[d] ELSE items) : Nature[i] # "dir"}

DcCommand(c) ==
  LET d == thisdir
  IN /\ dcs < MaxDcs /\ dcs' = dcs + 1
     /\ c.mode = "video" /\ c.codec # specNow => dcTasks = << >>
     /\ snapOf' = Kept(d)
     /\ foundAt' = IF foundAt[d] # << >> THEN foundAt ELSE [foundAt EXCEPT ![d] = <<Seen(d)>>]
     /\ specNow' = IF c.mode = "video" THEN c.codec ELSE specNow
     /\ sizeOf' = ClearedFor(c) /\ outdated' = IF specNow' # specNow THEN {} ELSE outdated
     /\ sortOf' = IF "sort" \in c.opts THEN [sortOf EXCEPT ![d] = "dc" \o c.mode] ELSE sortOf
     /\ \E cursor \in {{i} : i \in filesOf[d]} \cup (IF filesOf[d] = {} THEN {{}} ELSE {}) :
          dcTasks' = <<[dir |-> d, mode |-> c.mode, opts |-> c.opts, todo |-> Wanted(d, c, cursor)]>> \o dcTasks
     /\ UNCHANGED <<thisdir, loadedDirs, stackOf, filterAt, filesOf, globalSort, filteredFor, undone, hands>>

\* on_result
DcResult ==
  /\ dcTasks # << >> /\ Head(dcTasks).todo # {}
  /\ LET item == CHOOSE i \in Head(dcTasks).todo : TRUE
         mode == Head(dcTasks).mode
     IN /\ sizeOf' = [sizeOf EXCEPT ![mode][item] = Tree(item, mode, specNow)]
        /\ dcTasks' = [dcTasks EXCEPT ![1].todo = @ \ {item}]
  /\ UNCHANGED <<thisdir, loadedDirs, specNow, stackOf, filterAt, filesOf, sortOf, globalSort, snapOf,
                 foundAt, filteredFor, outdated, undone, hands, dcs>>

\* on_finish, perhaps long after the user has left the directory
DcFinish ==
  LET task == Head(dcTasks)
      d    == task.dir
      hide == "hide_empty" \in task.opts
      set  == "filter" \in task.opts \/ (task.mode # "video" /\ hide)
      had  == DcFilterOf(stackOf[d]) # {}
  IN /\ dcTasks # << >> /\ task.todo = {} /\ dcTasks' = Tail(dcTasks)
     /\ IF set THEN SetFilter(d, task.mode, hide) ELSE RemoveFilter(d)
     /\ IF {"sort", "filter", "hide_empty"} \cap task.opts # {} \/ had
        THEN /\ filesOf' = [filesOf EXCEPT ![d] = Refiltered(d, stackOf'[d], sizeOf, filterAt', specNow)]
             /\ sizeOf' = Counted({d}, stackOf', sizeOf, filterAt', specNow)
             /\ filteredFor' = FilteredAs({d}, outdated)
        ELSE UNCHANGED <<filesOf, sizeOf, filteredFor>>
     /\ UNCHANGED <<thisdir, loadedDirs, specNow, sortOf, globalSort, snapOf, foundAt, outdated, undone,
                    hands, dcs>>

-----------------------------------------------------------------------------
(* The user; what he changes himself need not be restored *)

ByHand == hands < MaxHands /\ hands' = hands + 1
EnterFolder(d) ==
  /\ d # thisdir /\ thisdir' = d /\ ByHand
  /\ loadedDirs' = loadedDirs \cup {d}
  /\ IF d \in loadedDirs THEN UNCHANGED <<filesOf, filteredFor>>
     ELSE /\ filesOf' = [filesOf EXCEPT ![d] = Refiltered(d, stackOf[d], sizeOf, filterAt, specNow)]
          /\ filteredFor' = FilteredAs({d}, outdated)
  /\ UNCHANGED <<specNow, sizeOf, stackOf, filterAt, sortOf, globalSort, snapOf, dcTasks, foundAt,
                 outdated, undone, dcs>>
SetLocalSort ==
  /\ ByHand /\ sortOf[thisdir] = "" /\ sortOf' = [sortOf EXCEPT ![thisdir] = "natural"]
  /\ UNCHANGED <<thisdir, loadedDirs, specNow, sizeOf, stackOf, filterAt, filesOf, globalSort, snapOf,
                 dcTasks, foundAt, filteredFor, outdated, undone, dcs>>
PushFilter ==
  /\ ByHand /\ UserFilter \notin ToSet(stackOf[thisdir])
  /\ stackOf' = [stackOf EXCEPT ![thisdir] = Append(@, UserFilter)]
  /\ filesOf' = [filesOf EXCEPT ![thisdir] = Refiltered(thisdir, stackOf'[thisdir], sizeOf, filterAt, specNow)]
  /\ sizeOf' = Counted({thisdir}, stackOf', sizeOf, filterAt, specNow)
  /\ filteredFor' = FilteredAs({thisdir}, outdated)
  /\ UNCHANGED <<thisdir, loadedDirs, specNow, filterAt, sortOf, globalSort, snapOf, dcTasks, foundAt,
                 outdated, undone, dcs>>

DcViewInit ==
  /\ thisdir = DcTop /\ loadedDirs = {DcTop}
  /\ specNow = [want |-> {"av1"}, not |-> {}]
  /\ sizeOf = [m \in ViewMode |-> [i \in DcItem |-> Unknown]]
  /\ stackOf = [d \in DcFolder |-> << >>] /\ filterAt = << >>
  /\ filesOf = [d \in DcFolder |-> IF d = DcTop THEN Held(d) ELSE {}]
  /\ sortOf = [d \in DcFolder |-> ""] /\ globalSort = "natural_name"
  /\ snapOf = [d \in DcFolder |-> << >>] /\ foundAt = [d \in DcFolder |-> << >>]
  /\ filteredFor = [d \in DcFolder |-> specNow] /\ outdated = {}
  /\ dcTasks = << >> /\ undone = NothingUndone /\ hands = 0 /\ dcs = 0
DcViewNext ==
  \/ \E c \in DcCommands : DcCommand(c)
  \/ DcResult \/ DcFinish \/ UndoView \/ SetLocalSort \/ PushFilter
  \/ \E d \in DcFolder : EnterFolder(d)
DcViewSpec == DcViewInit /\ [][DcViewNext]_viewVars

-----------------------------------------------------------------------------
(* Properties *)

DcViewTypeOK ==
  /\ thisdir \in loadedDirs /\ loadedDirs \subseteq DcFolder
  /\ \A d \in DcFolder : filesOf[d] \subseteq Held(d) /\ Len(snapOf[d]) <= 1
  /\ \A m \in ViewMode, i \in DcItem : sizeOf[m][i] \in Unknown .. Cardinality(DcItem)

\* What a filter hides: notes, what is empty, and videos of other codecs
Hides(id, item, filters, spec) ==
  IF ~IsDcFilter(id) THEN Nature[item] = "note"
  ELSE IF Nature[item] = "dir" THEN filters[id].hide /\ Tree(item, filters[id].mode, spec) = 0
  ELSE filters[id].mode = "video" /\ ~(Nature[item] = "video" /\ Match(CodecOf[item], spec))

\* "single filter instance per pwd", whatever was undone here and above; an undo brings back
\* the filters and the sorting that the first command found ("so dcu always reverts to the
\* pre-dc* state"), those of subdirectories as well; and a directory that was filtered for the
\* codecs of now, and from counts for them, hides nothing as empty in which something counts, and
\* no video it wants.  (An undo brings counts back that may be for other codecs.)
DcViewIsTrue ==
  /\ \A d \in DcFolder : Cardinality(DcFilterOf(stackOf[d])) <= 1
  /\ undone.was = undone.is
  /\ \A i \in DcItem :
       LET d == Holder[i]
       IN d \in loadedDirs /\ i \notin filesOf[d] /\ filteredFor[d] = specNow =>
            \E k \in DOMAIN stackOf[d] : Hides(stackOf[d][k], i, filterAt, specNow)
=============================================================================

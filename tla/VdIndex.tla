------------------------------- MODULE VdIndex -------------------------------
(***************************************************************************)
(* src/ranger/plugins/vdsym.py: the index of the symlinks below a root.    *)
(* A record of every directory is validated by the directory's mtime; a    *)
(* walk reads it again when the mtime is another one, or when it was so    *)
(* recent at the last reading that a later change may have the same one.   *)
(* Walks hold a lock, but other programs change the tree under them.       *)
(* Names are abstract: a symlink is a member of Link, wherever it is.      *)
(***************************************************************************)
EXTENDS Integers, FiniteSets

CONSTANTS Dir, Root,
          Above,       \* [Dir \ {Root} -> Dir]: where a directory is, when it is
          Link,
          MaxClock, MaxChanges, MaxWalks, MaxUnlisted  \* bounds on time, changes and
               \* cds, walks, errors
ASSUME IndexAssumption ==
  /\ Root \in Dir /\ Above \in [Dir \ {Root} -> Dir] /\ Link \cap Dir = {}
  /\ MaxClock \in Nat /\ MaxChanges \in Nat /\ MaxWalks \in Nat /\ MaxUnlisted \in Nat

VARIABLES content, mtime,  \* the disk: [Dir -> SUBSET (Link \cup Dir)], [Dir -> Nat]
          clock,           \* in units of RACY_NS
          records,         \* self.dirs[root]
          version, view,   \* self.rootver, self.views of kind "links"
          visited, unreadable,
          walk,            \* what the holder of the lock does
          altered,         \* observed: the directories that changed since the walk began
          changes, walks, unlisted  \* counted for the bounds
diskVars  == <<content, mtime, clock, changes>>
cacheVars == <<records, version, view>>
indexVars == <<diskVars, cacheVars, visited, unreadable, walk, altered, walks, unlisted>>

\* A directory and those it is below: what is in every set that has it and, of each directory,
\* the one above.
Rising(set) == \A d \in set \ {Root} : Above[d] \in set
Upward == [d \in Dir |-> {e \in Dir : \A set \in SUBSET Dir : d \in set /\ Rising(set) => e \in set}]
ASSUME RootedAssumption == \A d \in Dir : Root \in Upward[d]

Beneath(d) == {e \in Dir : d \in Upward[e]}
There(d)   == \A e \in Upward[d] \ {Root} : e \in content[Above[e]]

NoRecords == [d \in {} |-> {}]
AtRest == [at |-> "idle", mode |-> "none", asked |-> {}, starts |-> {}, start |-> Root, todo |-> {},
           seen |-> NoRecords, cur |-> Root, cur_mtime |-> 0, since |-> 0, links |-> NoRecords,
           dirs |-> NoRecords, failed |-> {}]

IndexInit ==
  /\ content = [d \in Dir |-> {e \in Dir \ {Root} : Above[e] = d}]
  /\ mtime = [d \in Dir |-> 0] /\ clock = 0
  /\ records = NoRecords /\ version = 0 /\ view = [version |-> -1, links |-> {}]
  /\ visited = {} /\ unreadable = {} /\ walk = AtRest /\ altered = {}
  /\ changes = 0 /\ walks = 0 /\ unlisted = 0

(***************************************************************************)
(* Other programs, time, and cd                                            *)
(***************************************************************************)
\* A symlink or a directory is made or removed.
Change(d, x) ==
  /\ There(d) /\ changes < MaxChanges /\ changes' = changes + 1
  /\ LET made == x \notin content[d]
         new  == IF x \in Dir THEN Beneath(x) ELSE {}
     IN  /\ content' = [e \in Dir |-> CASE e = d -> IF made THEN content[d] \cup {x} ELSE content[d] \ {x}
                                       [] e \in new -> {}
                                       [] OTHER -> content[e]]
         /\ mtime' = [e \in Dir |-> IF e = d \/ e \in new THEN clock ELSE mtime[e]]
         /\ altered' = altered \cup {d} \cup new
  /\ UNCHANGED <<clock, cacheVars, visited, unreadable, walk, walks, unlisted>>

Pass == /\ clock < MaxClock /\ clock' = clock + 1 /\ walk.at # "list"
        /\ UNCHANGED <<content, mtime, changes, cacheVars, visited, unreadable, walk, altered, walks, unlisted>>

\* Only the thread that warms the cache walks meanwhile.
OnCd(d) ==
  /\ There(d) /\ d \notin visited /\ walk.mode # "visited"
  /\ changes < MaxChanges /\ changes' = changes + 1
  /\ visited' = visited \cup {d}
  /\ UNCHANGED <<content, mtime, clock, cacheVars, unreadable, walk, altered, walks, unlisted>>

(***************************************************************************)
(* ensure                                                                  *)
(***************************************************************************)
\* _mode: by a flag, or as configured
ScanModes == {"none", "visited", "validate", "rescan"}
\* The root has its table since the first lookup, if only an empty one.
Built == view.version # -1

Ensure(mode) ==
  LET build == mode = "rescan" \/ ~Built IN
  /\ walk.at = "idle" /\ walks < MaxWalks /\ walks' = walks + 1
  /\ walk' = [AtRest EXCEPT !.at = IF build THEN "fd" ELSE "start", !.mode = mode, !.since = clock,
                            !.asked = IF build \/ mode = "validate" THEN {Root} ELSE
                                      IF mode = "visited" THEN visited ELSE {},
                            !.starts = CASE mode = "visited" -> visited
                                         [] mode = "validate" /\ ~build -> {Root}
                                         [] OTHER -> {}]
  /\ visited' = IF mode = "none" THEN visited ELSE {}
  /\ unreadable' = IF build THEN {} ELSE unreadable
  /\ altered' = {}
  /\ UNCHANGED <<diskVars, cacheVars, unlisted>>

\* _make_rec: too recent to be told from the next change.
RacyNever(m, since) == FALSE
Racy(m, since) == m = clock \/ m >= since
Record(m, links, dirs, since) == [mtime |-> m, links |-> links, dirs |-> dirs, racy |-> Racy(m, since)]
Never == MaxClock + 1
ListedNow(d, m) == Record(m, content[d] \cap Link, content[d] \cap Dir, Never)

\* _fd: links and directories are listed by runs of their own.
FdLinks ==
  /\ walk.at = "fd" /\ walk.links = NoRecords
  /\ walk' = [walk EXCEPT !.links = [d \in Dir |-> IF There(d) THEN content[d] \cap Link ELSE {}]]
  /\ UNCHANGED <<diskVars, cacheVars, visited, unreadable, altered, walks, unlisted>>
FdDirs ==
  /\ walk.at = "fd" /\ walk.dirs = NoRecords
  /\ walk' = [walk EXCEPT !.dirs = [d \in Dir |-> IF There(d) THEN content[d] \cap Dir ELSE {}]]
  /\ UNCHANGED <<diskVars, cacheVars, visited, unreadable, altered, walks, unlisted>>

\* fd failed, or is not installed: the root is forgotten and walked, before what was visited.
FdFails ==
  /\ walk.at = "fd" /\ unlisted < MaxUnlisted /\ unlisted' = unlisted + 1
  /\ walk' = [walk EXCEPT !.at = "walk", !.start = Root, !.todo = {Root}]
  /\ records' = NoRecords
  /\ UNCHANGED <<diskVars, version, view, visited, unreadable, altered, walks>>

\* _from_listing: what was listed before gets the mtime of now.
FdDone ==
  /\ walk.at = "fd" /\ walk.links # NoRecords /\ walk.dirs # NoRecords
  /\ walk' = [walk EXCEPT !.at = "stat", !.todo = {Root}]
  /\ UNCHANGED <<diskVars, cacheVars, visited, unreadable, altered, walks, unlisted>>

With(seen, d, rec) == [e \in DOMAIN seen \cup {d} |-> IF e = d THEN rec ELSE seen[e]]
FdStat(d) ==
  /\ walk.at = "stat" /\ d \in walk.todo
  /\ LET rec == Record(mtime[d], walk.links[d], walk.dirs[d], walk.since) IN
     walk' = IF There(d) THEN [walk EXCEPT !.seen = With(@, d, rec), !.todo = (@ \ {d}) \cup rec.dirs]
             ELSE [walk EXCEPT !.todo = @ \ {d}]
  /\ UNCHANGED <<diskVars, cacheVars, visited, unreadable, altered, walks, unlisted>>
FdKeep ==
  /\ walk.at = "stat" /\ walk.todo = {}
  /\ records' = walk.seen /\ version' = version + 1
  /\ walk' = [walk EXCEPT !.at = "start"]
  /\ UNCHANGED <<diskVars, view, visited, unreadable, altered, walks, unlisted>>

(***************************************************************************)
(* _refresh                                                                *)
(***************************************************************************)
\* _flush_visited, _locate: from the nearest directory that has a record, if one has; "validate"
\* from the root.
Located(d) == Upward[d] \cap DOMAIN records
Nearest(d) == IF Located(d) = {} THEN Root
              ELSE CHOOSE e \in Located(d) : \A f \in Located(d) : f \in Upward[e]
Refresh(d) ==
  /\ walk.at = "start" /\ d \in walk.starts
  /\ walk' = IF Located(d) = {} /\ walk.mode = "visited" THEN [walk EXCEPT !.starts = @ \ {d}]
             ELSE [walk EXCEPT !.at = "walk", !.starts = @ \ {d}, !.start = Nearest(d),
                               !.todo = {Nearest(d)}, !.seen = NoRecords]
  /\ UNCHANGED <<diskVars, cacheVars, visited, unreadable, altered, walks, unlisted>>

StatDir(d) ==
  /\ walk.at = "walk" /\ d \in walk.todo
  /\ walk' =
       CASE ~There(d) -> [walk EXCEPT !.todo = @ \ {d}]
         [] There(d) /\ d \in DOMAIN records /\ records[d].mtime = mtime[d] /\ ~records[d].racy ->
              [walk EXCEPT !.seen = With(@, d, records[d]), !.todo = (@ \ {d}) \cup records[d].dirs]
         [] OTHER -> [walk EXCEPT !.at = "list", !.cur = d, !.cur_mtime = mtime[d], !.todo = @ \ {d}]
  /\ UNCHANGED <<diskVars, cacheVars, visited, unreadable, altered, walks, unlisted>>

\* _scan_dir: the directory is listed after its mtime was taken; it may have gone, or not be
\* readable.
ListDir ==
  LET d == walk.cur  rec == ListedNow(d, walk.cur_mtime) IN
  /\ walk.at = "list"
  /\ \/ /\ There(d)
        /\ walk' = [walk EXCEPT !.at = "walk", !.seen = With(@, d, rec), !.todo = @ \cup rec.dirs]
        /\ unreadable' = unreadable \ {d} /\ UNCHANGED unlisted
     \/ /\ ~There(d) /\ walk' = [walk EXCEPT !.at = "walk"] /\ UNCHANGED <<unreadable, unlisted>>
     \/ /\ There(d) /\ unlisted < MaxUnlisted /\ unlisted' = unlisted + 1
        /\ walk' = [walk EXCEPT !.at = "walk", !.failed = @ \cup {d}]
        /\ unreadable' = unreadable \cup {d}
  /\ UNCHANGED <<diskVars, cacheVars, visited, altered, walks>>

\* Directories that were not reached are forgotten; a view is good until the version changes.
Same(a, b) == a.links = b.links /\ a.dirs = b.dirs
Bumped(stale, changed) == version + IF changed \/ stale # {} THEN 1 ELSE 0
RefreshDone ==
  LET stale   == (DOMAIN records \cap Beneath(walk.start)) \ DOMAIN walk.seen
      changed == \E d \in DOMAIN walk.seen : d \in DOMAIN records => ~Same(records[d], walk.seen[d])
  IN
  /\ walk.at = "walk" /\ walk.todo = {}
  /\ records' = [d \in (DOMAIN records \ stale) \cup DOMAIN walk.seen |->
                   IF d \in DOMAIN walk.seen THEN walk.seen[d] ELSE records[d]]
  /\ version' = Bumped(stale, changed)
  /\ unreadable' = unreadable \ stale
  /\ walk' = [walk EXCEPT !.at = "start"]
  /\ UNCHANGED <<diskVars, view, visited, altered, walks, unlisted>>

\* _build, unless the view still has the version.
LinksOf(recs) == UNION {{<<d, l>> : l \in recs[d].links} : d \in DOMAIN recs}
View == IF view.version = version THEN view ELSE [version |-> version, links |-> LinksOf(records)]
EnsureDone ==
  /\ walk.at = "start" /\ walk.starts = {}
  /\ view' = View /\ walk' = AtRest
  /\ UNCHANGED <<diskVars, records, version, visited, unreadable, altered, walks, unlisted>>

\* touch, after links were changed here: just this directory is read again.
Touch(d) ==
  /\ walk.at = "idle" /\ d \in DOMAIN records /\ There(d) /\ walks < MaxWalks /\ walks' = walks + 1
  /\ walk' = [AtRest EXCEPT !.at = "touch", !.cur = d, !.cur_mtime = mtime[d]]
  /\ altered' = {}
  /\ UNCHANGED <<diskVars, cacheVars, visited, unreadable, unlisted>>
TouchDone ==
  LET d == walk.cur IN
  /\ walk.at = "touch" /\ walk' = AtRest
  /\ IF There(d)
     THEN records' = [records EXCEPT ![d] = ListedNow(d, walk.cur_mtime)] /\ version' = version + 1
     ELSE UNCHANGED <<records, version>>
  /\ UNCHANGED <<diskVars, view, visited, unreadable, altered, walks, unlisted>>

IndexNext ==
  \/ \E d \in Dir : \/ \E x \in Link \cup {e \in Dir \ {Root} : Above[e] = d} : Change(d, x)
                    \/ OnCd(d) \/ FdStat(d)
                    \/ Refresh(d) \/ StatDir(d) \/ Touch(d)
  \/ \E mode \in ScanModes : Ensure(mode)
  \/ Pass \/ FdLinks \/ FdDirs \/ FdFails \/ FdDone \/ FdKeep \/ ListDir \/ RefreshDone \/ EnsureDone \/ TouchDone

IndexSpec == IndexInit /\ [][IndexNext]_indexVars

IndexTypeOK ==
  /\ content \in [Dir -> SUBSET (Link \cup Dir)] /\ mtime \in [Dir -> 0 .. MaxClock]
  /\ clock \in 0 .. MaxClock /\ DOMAIN records \subseteq Dir /\ version \in Nat
  /\ \A d \in DOMAIN records : records[d].links \subseteq Link /\ records[d].dirs \subseteq Dir
  /\ view.links \subseteq Dir \X Link /\ visited \subseteq Dir /\ unreadable \subseteq Dir
  /\ walk.at \in {"idle", "fd", "stat", "start", "walk", "list", "touch"}

\* Whatever other programs do meanwhile and did before, within the resolution of an mtime or
\* not: when a lookup gets its view, the view has exactly the symlinks of every directory that
\* the walk had to cover and that did not change since it began.  Directories that the walk could
\* not list are excepted ("results may be incomplete").  For "visited" the walk covers what was
\* visited since the last one ("It catches changes made outside ranger"; "The next visited-mode
\* search rescans each remembered directory subtree"), as long as the root has a record: when
\* an earlier walk could not list it, _locate finds nowhere to begin, and nothing is walked.
Settled(d) == /\ Upward[d] \cap (altered \cup walk.failed) = {}
              /\ Upward[d] \cap walk.asked # {}
IndexFresh ==
  [][EnsureDone /\ Root \in DOMAIN records => \A d \in Dir : Settled(d) =>
       {l \in Link : <<d, l>> \in view'.links} = IF There(d) THEN content[d] \cap Link ELSE {}]_indexVars
=============================================================================

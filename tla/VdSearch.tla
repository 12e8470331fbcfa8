------------------------------ MODULE VdSearch ------------------------------
(***************************************************************************)
(* src/ranger/plugins/vdsym.py: what a search finds.  Records are kept per *)
(* root; a view of several roots files every path under its name, and a    *)
(* symlink under the name of its target too, and is made anew when one of  *)
(* the roots has another version.  Pictures are not recorded: where their  *)
(* directories are is, and a numeric needle has names tried in them.       *)
(* (How records are kept fresh is in VdIndex: here a validated root is     *)
(* recorded as it is.  What :vdsym does with matches is in VdSym.)         *)
(***************************************************************************)
EXTENDS Integers, Sequences, FiniteSets, SequencesExt

CONSTANTS
  SearchRoot, ViewRoot,  \* the roots, and the one of --modifiers=view
  Item,                  \* [root, name, leads]: leads is the target's name, "" for no symlink
  Shot,               \* [root, dnum, zeros, idx, link]: <dnum>-<zeros><idx> in a pics directory
  Word, FoldOf, PartOf,  \* names and needles; casefold; [needle -> the names it is part of]
  Numeric,               \* [needle -> <<dnum, idx>>], for those that look like it
  Queries,               \* [needle, icase, glob, links, view, mode]
  PicsZeroes,            \* PICS_ZEROES
  MaxSearched, MaxSeekChanges, MaxReloads  \* bounds
ASSUME SearchAssumption ==
  /\ ViewRoot \in SearchRoot /\ FoldOf \in [Word -> Word] /\ PartOf \in [Word -> SUBSET Word]
  /\ \A i \in Item : i.root \in SearchRoot /\ i.name \in Word /\ i.leads \in Word \cup {""}
  /\ \A n \in DOMAIN Numeric : Numeric[n] \in Nat \X Nat

VARIABLES
  stored, pictures,    \* the disk: subsets of Item and Shot
  recorded, picsDirs,  \* _Cache.dirs: [root -> <<>> or <<items>>], and the numbers of pics directories
  rootver,             \* [root -> Nat]
  views,               \* [set of roots -> <<>> or [versions, names, links, folded]] for each kind
  stamp, cacheStamp,   \* of the module's source, and of the cache that outlives a reload
  answer,              \* observed: the last search: [query, known, got]
  seeks, seekChanges, reloads \* counted for the bounds
searchVars == <<stored, pictures, recorded, picsDirs, rootver, views, stamp, cacheStamp, answer,
                seeks, seekChanges, reloads>>

KindOfView == {"all", "links"}
RootsOf(q)  == IF q.view THEN {ViewRoot} ELSE SearchRoot
NoAnswer    == << >>
NoViews     == [r \in SUBSET SearchRoot |-> [k \in KindOfView |-> << >>]]

-----------------------------------------------------------------------------
(* _Index *)

\* Pairs of a name and what is filed under it; links only for backlinks.
Names(items, kind) ==
  {<<i.name, i>> : i \in {j \in items : kind = "links" => j.leads # ""}}
  \cup {<<i.leads, i>> : i \in {j \in items : j.leads # ""}}
Merged(names) == {<<FoldOf[n[1]], n[2]>> : n \in names}
NewView(versions, items, kind) ==
  [versions |-> versions, names |-> Names(items, kind), links |-> {i \in items : i.leads # ""},
   folded |-> << >>]
\* table: the names as they are, or folded, once.
Tabled(view, icase) == IF icase /\ view.folded = << >> THEN [view EXCEPT !.folded = <<Merged(view.names)>>]
                       ELSE view
Find(view, needle, glob, icase) ==
  LET table == IF icase THEN Tabled(view, TRUE).folded[1] ELSE view.names
  IN {n[2] : n \in {m \in table : IF glob THEN m[1] \in PartOf[needle] ELSE m[1] = needle}}
Lookup(view, q) ==
  {i \in Find(view, IF q.icase THEN FoldOf[q.needle] ELSE q.needle, q.glob, q.icase) :
     q.links => i \in view.links}

-----------------------------------------------------------------------------
(* _Cache.ensure, _build, pics *)

ItemsOf(r)  == {i \in stored : i.root = r}
DnumsOf(r)  == {<<r, p.dnum>> : p \in {x \in pictures : x.root = r}}
Missing(rs) == {r \in rs : recorded[r] = << >>}
Recorded(r) == recorded[r] = <<ItemsOf(r)>> /\ DnumsOf(r) \subseteq picsDirs
\* The roots that are read, and those of them where something else was recorded.
ReadBy(rs, mode)    == CASE mode = "rescan" -> rs
                         [] mode = "validate" -> Missing(rs) \cup {r \in rs : ~Recorded(r)}
                         [] OTHER -> Missing(rs)
RecordedBy(rs, mode) == [r \in SearchRoot |-> IF r \in ReadBy(rs, mode) THEN <<ItemsOf(r)>> ELSE recorded[r]]
DirsBy(rs, mode)     == picsDirs \cup UNION {DnumsOf(r) : r \in ReadBy(rs, mode)}
VersionsBy(rs, mode) == [r \in SearchRoot |-> IF r \in ReadBy(rs, mode) THEN rootver[r] + 1 ELSE rootver[r]]
\* The view there is, if it is of these versions.
ViewIfAny(view, rs, versions, known, kind) ==
  IF view # << >> THEN view[1] ELSE NewView(versions, known, kind)
ViewOf(view, rs, versions, known, kind) ==
  IF view # << >> /\ \A r \in rs : view[1].versions[r] = versions[r] THEN view[1]
  ELSE NewView(versions, known, kind)

\* Pictures by their numbers, where there are pics directories; nothing of this is recorded.
Pics(rs, dirs, needle) ==
  {p \in pictures : /\ p.root \in rs /\ <<p.root, p.dnum>> \in dirs /\ needle \in DOMAIN Numeric
                    /\ Numeric[needle] = <<p.dnum, p.idx>> /\ p.zeros <= PicsZeroes}

-----------------------------------------------------------------------------
(* :vdsym looks for something; find_hits looks for links (by whole names) *)

Seek(q, kind) ==
  LET rs    == RootsOf(q)
      known == UNION {recorded'[r][1] : r \in rs}
      view  == ViewOf(views[rs][kind], rs, rootver', known, kind)
      found == Lookup(view, q) \cup (IF kind = "links" THEN {}
                                     ELSE {p \in Pics(rs, picsDirs', q.needle) : q.links => p.link})
  IN /\ kind = "links" => q.mode = "validate" /\ ~q.icase /\ ~q.glob
     /\ seeks < MaxSearched /\ seeks' = seeks + 1
     /\ recorded' = RecordedBy(rs, q.mode) /\ rootver' = VersionsBy(rs, q.mode)
     /\ picsDirs' = DirsBy(rs, q.mode)
     /\ views' = [views EXCEPT ![rs][kind] = <<Tabled(view, q.icase)>>]
     /\ answer' = <<[query |-> q, kind |-> kind, known |-> known, disk |-> stored \cup pictures,
                     got |-> IF q.mode = "none" THEN found \cap (stored \cup pictures) ELSE found]>>
     /\ UNCHANGED <<stored, pictures, stamp, cacheStamp, seekChanges, reloads>>

Store(x) ==
  /\ seekChanges < MaxSeekChanges /\ seekChanges' = seekChanges + 1
  /\ IF x \in Item THEN stored' = (IF x \in stored THEN stored \ {x} ELSE stored \cup {x}) /\ UNCHANGED pictures
     ELSE pictures' = (IF x \in pictures THEN pictures \ {x} ELSE pictures \cup {x}) /\ UNCHANGED stored
  /\ answer' = NoAnswer
  /\ UNCHANGED <<recorded, picsDirs, rootver, views, stamp, cacheStamp, seeks, reloads>>

\* The module is executed again: the cache is kept as long as the source is the same.
ReloadModule(edited) ==
  /\ reloads < MaxReloads /\ reloads' = reloads + 1 /\ answer' = NoAnswer
  /\ stamp' = IF edited THEN stamp + 1 ELSE stamp
  /\ cacheStamp' = stamp'
  /\ IF cacheStamp = stamp' THEN UNCHANGED <<recorded, picsDirs, rootver, views>>
     ELSE /\ recorded' = [r \in SearchRoot |-> << >>] /\ picsDirs' = {}
          /\ rootver' = [r \in SearchRoot |-> 0] /\ views' = NoViews
  /\ UNCHANGED <<stored, pictures, seeks, seekChanges>>

SearchInit ==
  /\ stored \in SUBSET Item /\ pictures \in {{}, Shot}
  /\ recorded = [r \in SearchRoot |-> << >>] /\ picsDirs = {} /\ rootver = [r \in SearchRoot |-> 0]
  /\ views = NoViews /\ stamp = 0 /\ cacheStamp = 0
  /\ answer = NoAnswer /\ seeks = 0 /\ seekChanges = 0 /\ reloads = 0
SearchNext ==
  \/ \E q \in Queries, kind \in KindOfView : Seek(q, kind)
  \/ \E x \in Item \cup Shot : Store(x)
  \/ \E edited \in BOOLEAN : ReloadModule(edited)
SearchSpec == SearchInit /\ [][SearchNext]_searchVars

-----------------------------------------------------------------------------
(* Properties *)

\* A search finds exactly what is called like the needle, or leads to something called so, among
\* the roots it was asked for: as they are if they were validated, and otherwise as they were
\* last read ("results ... of the given per-root versions"), never what is gone; and of pictures
\* those of the number, however many zeros it is written with.
Called(word, q) ==
  LET w == IF q.icase THEN FoldOf[word] ELSE word
      n == IF q.icase THEN FoldOf[q.needle] ELSE q.needle
  IN word # "" /\ IF q.glob THEN w \in PartOf[n] ELSE w = n
SearchFinds ==
  \A k \in DOMAIN answer :
    LET a == answer[k]
        q == a.query
    IN /\ a.got \cap Item =
            {i \in (IF q.mode = "none" THEN a.known \cap a.disk ELSE a.disk \cap Item) :
               /\ i.root \in RootsOf(q) /\ (Called(i.name, q) \/ Called(i.leads, q))
               /\ (q.links \/ a.kind = "links") => i.leads # ""}
       /\ \A p \in a.got \cap Shot : p.root \in RootsOf(q) /\ <<p.dnum, p.idx>> = Numeric[q.needle]
       /\ a.kind = "all" /\ q.mode # "none" => \A p \in a.disk \cap Shot :
            /\ p.root \in RootsOf(q) /\ q.needle \in DOMAIN Numeric /\ (q.links => p.link)
            /\ Numeric[q.needle] = <<p.dnum, p.idx>> /\ p.zeros <= PicsZeroes
            => p \in a.got
=============================================================================

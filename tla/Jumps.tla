-------------------------------- MODULE Jumps -------------------------------
(***************************************************************************)
(* src/ranger/plugins/cmd_cd.py and history_navi.py: the commands that     *)
(* jump to another directory, over a tree with symlinks, on top of the     *)
(* history of HistoryNavi.  A tab's directory is a path as it was spelled: *)
(* it may lead through links, and ranger takes ".." out of the spelling,   *)
(* while the kernel follows the links first.                               *)
(* Left out: "cda -m", ":line:" suffixes, ~, and .pyc files.               *)
(***************************************************************************)
EXTENDS Integers, Sequences, FiniteSets, SequencesExt

CONSTANTS
  TreeAt,     \* [path -> [kind, abs, to, age]]: directories, files and links
  StartDir,   \* where ranger starts
  Todays,     \* the names that begin with the date of today, in the order of the alphabet
  MaxJumps    \* bound on what the user and his shells do
ASSUME JumpsAssumption ==
  /\ \A p \in DOMAIN TreeAt : p # << >> => Front(p) \in DOMAIN TreeAt
  /\ StartDir \in DOMAIN TreeAt /\ MaxJumps \in Nat

VARIABLES
  dirNow,          \* fm.thistab.path
  hist, histAt,    \* its history and the index, from 1
  shellCwd,        \* what the last shell left in tmpfile("cwd"), <<path>> or none
  chain,           \* observed: the directories left by the last jumps in a row
  landed,          \* observed: the last link followed: [from, link, on]
  jumps            \* counted for the bound
jumpVars == <<dirNow, hist, histAt, shellCwd, chain, landed, jumps>>

H == INSTANCE HistoryNavi WITH
       Places <- DOMAIN TreeAt, FirstPlace <- StartDir, MaxHistory <- 0, MaxEnters <- MaxJumps,
       place <- dirNow, history <- hist, at <- histAt, enters <- jumps

-----------------------------------------------------------------------------
(* Paths *)

Nowhere == <<"?">>
Kind(p) == IF p \in DOMAIN TreeAt THEN TreeAt[p].kind ELSE "none"
Joined(d, link) == IF link.abs THEN link.to ELSE d \o link.to
Shorter(p) == IF p = << >> THEN << >> ELSE Front(p)
\* normpath: ".." takes away the name before it, whatever that is.
Norm(p) == FoldLeft(LAMBDA q, n : IF n = ".." THEN Shorter(q) ELSE Append(q, n), << >>, p)

\* What the kernel makes of the names from a real directory on, over at most `hops' links.
RECURSIVE RealFrom(_, _, _)
RealFrom(d, names, hops) ==
  IF names = << >> THEN d
  ELSE IF Head(names) = ".." THEN RealFrom(Shorter(d), Tail(names), hops)
  ELSE LET p == Append(d, Head(names))
       IN CASE Kind(p) = "link" /\ hops > 0 ->
                 RealFrom(IF TreeAt[p].abs THEN << >> ELSE d, TreeAt[p].to \o Tail(names), hops - 1)
            [] Kind(p) = "dir" \/ (Kind(p) = "file" /\ Len(names) = 1) -> RealFrom(p, Tail(names), hops)
            [] OTHER -> Nowhere
Real(p)    == RealFrom(<< >>, p, 5)
Exists(p)  == Real(p) # Nowhere
IsDir(p)   == Kind(Real(p)) = "dir"
Lexists(p) == IsDir(Shorter(p)) /\ Append(Real(Shorter(p)), Last(p)) \in DOMAIN TreeAt
IsLink(p)  == p # << >> /\ Lexists(p) /\ Kind(Append(Real(Front(p)), Last(p))) = "link"
LinkAt(p)  == TreeAt[Append(Real(Front(p)), Last(p))]
InDir(d)   == LET r == Real(d) IN {p \in DOMAIN TreeAt : Len(p) = Len(r) + 1 /\ Front(p) = r}
LongestPath(ps) == CHOOSE p \in ps : \A q \in ps : Len(q) <= Len(p)
Below(d)   == {p \in DOMAIN TreeAt : Len(p) > Len(d) /\ SubSeq(p, 1, Len(d)) = d}

-----------------------------------------------------------------------------
(* ranger: a place and the cursor in it, when the path is entered *)

Entered(p) ==
  LET q == Norm(p)
      at == [dir |-> IF IsDir(q) THEN q ELSE Shorter(q), on |-> q]
  IN IF IsDir(at.dir) THEN at ELSE [dir |-> dirNow, on |-> dirNow]

Acted == jumps < MaxJumps /\ jumps' = jumps + 1
\* enter_dir from anywhere but a step: a change of directory is recorded.
JumpTo(p) ==
  /\ dirNow' = Entered(p).dir
  /\ LET h == H!Visit(H!Visit(H!Hist(hist, histAt), dirNow), dirNow')
     IN IF dirNow' = dirNow THEN UNCHANGED <<hist, histAt, chain>>
        ELSE hist' = h.h /\ histAt' = h.i /\ chain' = Append(chain, dirNow)
Stepped(p) == dirNow' = Entered(p).dir /\ chain' = << >> /\ UNCHANGED <<hist, histAt>>

StepIn == \E p \in InDir(dirNow) : /\ Acted /\ IsDir(p) /\ Stepped(Append(dirNow, Last(p)))
                                   /\ UNCHANGED <<shellCwd, landed>>
StepOut == Acted /\ dirNow # << >> /\ Stepped(Front(dirNow)) /\ UNCHANGED <<shellCwd, landed>>
\* history_go, and the cursors of the directories above after it
HistoryGo(n) ==
  /\ Acted /\ histAt + n \in DOMAIN hist /\ histAt' = histAt + n
  /\ dirNow' = hist[histAt'] /\ chain' = << >> /\ UNCHANGED <<hist, shellCwd, landed>>

-----------------------------------------------------------------------------
(* cd_symlink1 *)

\* The nearest ancestor that exists, by the spelling.
Closest(p) == LongestPath({q \in {SubSeq(p, 1, k) : k \in 0 .. Len(p)} : Exists(q)})
FollowTo(p) ==
  LET target == Norm(Joined(dirNow, LinkAt(p)))
  IN IF IsDir(target) \/ Exists(target) \/ IsLink(target) THEN target ELSE Closest(Shorter(target))
Follow ==
  \E e \in InDir(dirNow) :
    LET p == Append(dirNow, Last(e))
    IN /\ Kind(e) = "link" /\ Acted /\ JumpTo(FollowTo(p)) /\ UNCHANGED shellCwd
       /\ landed' = <<[from |-> dirNow, link |-> p, on |-> Entered(FollowTo(p)).on]>>

-----------------------------------------------------------------------------
(* cda, cd_gitroot, cd_shelldir *)

\* relpath: up from one real directory, and down to another
Relative(p, d) ==
  LET common == CHOOSE k \in 0 .. Len(d) :
        /\ k <= Len(p) /\ SubSeq(p, 1, k) = SubSeq(d, 1, k)
        /\ k < Len(d) /\ k < Len(p) => p[k + 1] # d[k + 1]
  IN [k \in 1 .. Len(d) - common |-> ".."] \o SubSeq(p, common + 1, Len(p))
\* -l resolves the last name only, an absolute link by the way to what it leads to.
Resolved(p, flag) ==
  CASE flag = "l" -> Front(p) \o (IF LinkAt(p).abs THEN Relative(Real(p), Real(Front(p))) ELSE LinkAt(p).to)
    [] flag = "L" -> Real(p)
    [] OTHER      -> p
\* -M: the newest file, or empty directory, below what is called by today's date; if there is
\* nothing below, what is called so itself, the last by name
Leaves(d) == {p \in Below(d) : Kind(p) # "dir" \/ Below(p) = {}}
NewestOf(ps) == CHOOSE p \in ps : \A q \in ps : TreeAt[q].age <= TreeAt[p].age
LastNamed(ps) == LET rank(q) == SelectInSeq(Todays, LAMBDA n : n = Last(q))
                 IN CHOOSE p \in ps : \A q \in ps : rank(q) <= rank(p)
OfToday(p) ==
  LET today  == {q \in InDir(p) : Last(q) \in ToSet(Todays)}
      leaves == UNION {Leaves(q) : q \in {r \in today : Kind(r) = "dir"}}
  IN CASE leaves # {} -> NewestOf(leaves)
       [] leaves = {} /\ today # {} -> LastNamed(today)
       [] OTHER -> p
Cda ==
  \E e \in InDir(dirNow), flag \in {"", "l", "L", "M"} :
    LET p == Append(dirNow, Last(e))
    IN /\ flag = "M" => Kind(e) = "dir"
       /\ flag \in {"l", "L"} => Kind(e) = "link" /\ Exists(p)
       /\ Acted /\ UNCHANGED <<shellCwd, landed>>
       /\ JumpTo(IF flag = "M" THEN OfToday(p) ELSE Resolved(p, flag))
GitRoot ==
  LET here  == Real(dirNow)
      roots == {q \in {SubSeq(here, 1, k) : k \in 0 .. Len(here)} : Append(q, ".git") \in DOMAIN TreeAt}
  IN /\ roots # {} /\ LongestPath(roots) # here
     /\ Acted /\ JumpTo(LongestPath(roots)) /\ UNCHANGED <<shellCwd, landed>>
\* The directory that a shell ended in is taken once.
ShellDir ==
  /\ shellCwd # << >> /\ shellCwd' = << >> /\ Acted /\ UNCHANGED landed
  /\ IF shellCwd[1] # Real(dirNow) /\ Exists(shellCwd[1]) THEN JumpTo(shellCwd[1])
     ELSE UNCHANGED <<dirNow, hist, histAt, chain>>
\* A shell started here, or in a directory of it, ends.
ShellEnds ==
  /\ Acted /\ shellCwd' \in {<<dirNow>>} \cup {<<p>> : p \in InDir(dirNow)}
  /\ UNCHANGED <<dirNow, hist, histAt, chain, landed>>

JumpsInit ==
  /\ dirNow = StartDir /\ hist = << >> /\ histAt = 0 /\ shellCwd = << >>
  /\ chain = << >> /\ landed = << >> /\ jumps = 0
JumpsNext ==
  \/ StepIn \/ StepOut \/ Follow \/ Cda \/ GitRoot \/ ShellDir \/ ShellEnds
  \/ \E n \in {-1, 1} : HistoryGo(n)
JumpsSpec == JumpsInit /\ [][JumpsNext]_jumpVars

-----------------------------------------------------------------------------
(* Properties *)

\* A link in a directory that is not itself spelled through links leads to what it names, or as
\* near as there is a directory ("navigating to the closest parent directory"); and from any
\* number of jumps H leads back the way one came, link by link ("maintaining a strict history
\* chain"), although chained links may lead to where one has been before.
JumpsLand ==
  /\ IsDir(dirNow)
  /\ \A k \in DOMAIN landed :
       LET l == landed[k]
       IN Real(l.from) = l.from =>
            IF Exists(l.link) THEN Real(l.on) = Real(l.link)
            ELSE \/ IsLink(l.on)
                 \/ LET missing == Norm(Joined(l.from, LinkAt(l.link)))
                    IN /\ IsDir(l.on) /\ IsPrefix(l.on, missing)
                       /\ ~Exists(SubSeq(missing, 1, Len(l.on) + 1))
  /\ chain # << >> =>
       /\ Len(chain) < histAt
       /\ SubSeq(hist, histAt - Len(chain), histAt) = Append(chain, dirNow)
=============================================================================

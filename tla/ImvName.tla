------------------------------ MODULE ImvName -------------------------------
(***************************************************************************)
(* src/ranger/plugins/image_preview_imv2.py with IMV_SYNC_MODE = "name":   *)
(* imv silently drops files that it cannot load, so that its positions     *)
(* are not those of ranger's playlist.  The list is sent in commands of    *)
(* bounded length; then imv is sent to a guessed position, asked where it  *)
(* landed, and the guess is corrected, a few times.  (The default mode,    *)
(* and the handling of inputs, are in ImvSync.)                            *)
(* imv is external: it drops a file when it comes to it.                   *)
(***************************************************************************)
EXTENDS Integers, Sequences, FiniteSets, SequencesExt, FiniteSetsExt

CONSTANTS
  Picture,                       \* files of the directory, 1, 2, ...: in ranger's order
  Natures,                       \* what they may be, functions on Picture
  ArgOf, MaxBytes,               \* length of each as an argument, and IPC_MAX_BYTES
  Steps,                         \* IMV_NAME_SYNC_STEPS
  MaxPicks, MaxLooks, MaxBreaks  \* bounds: moves in ranger, moves in imv, commands lost
ASSUME NameAssumption ==
  /\ Steps \in Nat \ {0} /\ MaxBytes \in Nat /\ ArgOf \in [Picture -> Nat]
  /\ \A n \in Natures : n \in [Picture -> {"still", "small anim", "big anim", "corrupt", "text", "long"}]

VARIABLES
  natureOf,                      \* drawn from Natures
  chosen,                        \* ranger's cursor
  imvList, imvPos,               \* imv: the files it has, and its position
  sent, imvIndex,                \* playlist; imv_index: the positions files were seen at, 0 if not
  toDo,                          \* what sync_to_imv still does: [at, guess, seen, left]
  seenAt,                        \* observed_selection
  looked,                        \* observed: the user moved in imv since it was last synchronised
  picks, looks, breaks           \* counted for the bounds
nameVars == <<natureOf, chosen, imvList, imvPos, sent, imvIndex, toDo, seenAt, looked, picks, looks,
              breaks>>

NoPicture == 0
NothingToDo      == [at |-> "idle", guess |-> 0, seen |-> {}, left |-> << >>]
InOrder   == SetToSortSeq(Picture, <)

-----------------------------------------------------------------------------
(* _imv_can_show, _is_animated_webp, _open_commands *)

\* Only large files are looked into; unreadable ones count as images.
CanShow(p) == natureOf[p] \notin {"big anim", "text"}
Loads(p)   == natureOf[p] \in {"still", "long"}
Playlist   == SelectSeq(InOrder, CanShow)
Bytes(ps)  == FoldLeft(LAMBDA n, p : n + 1 + IF natureOf[p] = "long" THEN MaxBytes ELSE ArgOf[p], 5, ps)
FitsIpc(ps)   == Bytes(ps) <= MaxBytes
\* Whole paths, as many per command as fit.
OpenCommands(ps) ==
  LET step(cs, p) == IF cs # << >> /\ FitsIpc(Append(Last(cs), p))
                     THEN Append(Front(cs), Append(Last(cs), p)) ELSE Append(cs, <<p>>)
  IN FoldLeft(step, << >>, ps)

-----------------------------------------------------------------------------
(* imv *)

\* Where imv is when it goes to a position: what does not load is dropped on the way.
RECURSIVE Landing(_, _)
Landing(list, i) ==
  CASE list = << >> -> [list |-> << >>, pos |-> 0]
    [] list # << >> /\ i > Len(list) -> Landing(list, Len(list))
    [] OTHER -> IF Loads(list[i]) THEN [list |-> list, pos |-> i] ELSE Landing(RemoveAt(list, i), i)
Lands(land) == imvList' = land.list /\ imvPos' = land.pos
ShownNow == IF imvPos = 0 THEN NoPicture ELSE imvList[imvPos]

Looks(i) ==
  /\ looks < MaxLooks /\ looks' = looks + 1 /\ i \in DOMAIN imvList /\ i # imvPos
  /\ Lands(Landing(imvList, i)) /\ looked' = TRUE
  /\ UNCHANGED <<natureOf, chosen, sent, imvIndex, toDo, seenAt, picks, breaks>>

-----------------------------------------------------------------------------
(* ranger: the cursor, sync_to_imv, _goto_by_name *)

IndexOf(p, ps) == SelectInSeq(ps, LAMBDA q : q = p)
FirstGuess(p, list, index) == IF index[p] # 0 THEN index[p] ELSE IndexOf(p, list)
GoesTo(list, index) == [at |-> "goto", guess |-> FirstGuess(chosen, list, index), seen |-> {}, left |-> << >>]

Pick(p) ==
  /\ picks < MaxPicks /\ picks' = picks + 1 /\ toDo.at \in {"idle", "pending"} /\ p # chosen
  /\ chosen' = p /\ toDo' = IF p = seenAt THEN NothingToDo ELSE [NothingToDo EXCEPT !.at = "pending"]
  /\ UNCHANGED <<natureOf, imvList, imvPos, sent, imvIndex, seenAt, looked, looks, breaks>>

\* Nothing to show there; the list as commands, all of them made before the first is sent; or
\* imv has the list.
SyncTo ==
  LET rebuild == sent = << >> IN
  /\ toDo.at = "pending"
  /\ sent' = IF rebuild THEN Playlist ELSE sent
  /\ imvIndex' = IF rebuild THEN [p \in Picture |-> 0] ELSE imvIndex
  /\ toDo' = CASE chosen \notin ToSet(sent') -> NothingToDo
               [] chosen \in ToSet(sent') /\ rebuild ->
                    IF \E k \in DOMAIN sent' : ~FitsIpc(<<sent'[k]>>) THEN NothingToDo
                    ELSE [NothingToDo EXCEPT !.at = "open", !.left = <<<< >>>> \o OpenCommands(sent')]
               [] OTHER -> GoesTo(sent', imvIndex')
  /\ UNCHANGED <<natureOf, chosen, imvList, imvPos, seenAt, looked, picks, looks, breaks>>
\* "close all" stands for the empty command.
Open ==
  LET files == Head(toDo.left) IN
  /\ toDo.at = "open" /\ toDo.left # << >>
  /\ LET list == IF files = << >> THEN << >> ELSE imvList \o files
     IN Lands(Landing(list, IF imvPos = 0 \/ files = << >> THEN 1 ELSE imvPos))
  /\ toDo' = [toDo EXCEPT !.left = Tail(@), !.at = IF Len(toDo.left) > 1 THEN "open" ELSE "count"]
  /\ looked' = FALSE
  /\ UNCHANGED <<natureOf, chosen, sent, imvIndex, seenAt, picks, looks, breaks>>
\* Whatever imv answers, as long as it does, is good enough.
AskCount ==
  /\ toDo.at = "count"
  /\ \/ imvList # << >> /\ toDo' = GoesTo(sent, imvIndex) /\ UNCHANGED breaks
     \/ imvList = << >> /\ toDo' = NothingToDo /\ UNCHANGED breaks
     \/ breaks < MaxBreaks /\ breaks' = breaks + 1 /\ toDo' = NothingToDo
  /\ UNCHANGED <<natureOf, chosen, imvList, imvPos, sent, imvIndex, seenAt, looked, picks, looks>>
\* A command, or the answer to "goto", is lost: all of it is sent again, at the next input.
Break ==
  /\ toDo.at \in {"open", "goto"} /\ breaks < MaxBreaks /\ breaks' = breaks + 1
  /\ sent' = << >> /\ toDo' = [NothingToDo EXCEPT !.at = "pending"]
  /\ UNCHANGED <<natureOf, chosen, imvList, imvPos, imvIndex, seenAt, looked, picks, looks>>

\* One pass: go there, see where that was, and guess again by how far off it was.
GuessAgain(land, guess) == guess
Corrected(land, guess) ==
  LET off == IndexOf(chosen, sent) - IndexOf(land.list[land.pos], sent)
  IN Max({1, Min({land.pos + off, Len(land.list)})})
GotoPass ==
  LET land   == Landing(imvList, toDo.guess)
      landed == land.list[land.pos]
      next   == Corrected(land, toDo.guess)
      seen   == toDo.seen \cup {toDo.guess}
      ended  == landed = chosen \/ landed \notin ToSet(sent) \/ next \in seen \/ Cardinality(seen) = Steps
  IN /\ toDo.at = "goto" /\ land.list # << >> /\ Lands(land)
     /\ imvIndex' = [imvIndex EXCEPT ![landed] = land.pos]
     /\ toDo' = IF ended THEN NothingToDo ELSE [toDo EXCEPT !.guess = next, !.seen = seen]
     /\ seenAt' = IF ended THEN landed ELSE seenAt
     /\ looked' = FALSE
     /\ UNCHANGED <<natureOf, chosen, sent, picks, looks, breaks>>
\* imv has nothing left to show, and does not answer.
PassFails ==
  /\ toDo.at = "goto" /\ Landing(imvList, toDo.guess).list = << >>
  /\ Lands(Landing(imvList, toDo.guess)) /\ sent' = << >> /\ toDo' = [NothingToDo EXCEPT !.at = "pending"]
  /\ UNCHANGED <<natureOf, chosen, imvIndex, seenAt, looked, picks, looks, breaks>>

\* sync_from_imv, at rest
SyncFrom ==
  /\ toDo.at = "idle" /\ ShownNow # NoPicture /\ ShownNow # seenAt
  /\ chosen' = ShownNow /\ seenAt' = ShownNow /\ imvIndex' = [imvIndex EXCEPT ![ShownNow] = imvPos]
  /\ sent' = IF ShownNow \in ToSet(sent) THEN sent ELSE << >>
  /\ looked' = FALSE
  /\ UNCHANGED <<natureOf, imvList, imvPos, toDo, picks, looks, breaks>>

NameInit ==
  /\ natureOf \in Natures /\ chosen \in Picture /\ imvList = << >> /\ imvPos = 0
  /\ sent = << >> /\ imvIndex = [p \in Picture |-> 0] /\ toDo = [NothingToDo EXCEPT !.at = "pending"]
  /\ seenAt = NoPicture /\ looked = FALSE /\ picks = 0 /\ looks = 0 /\ breaks = 0
NameNext ==
  \/ \E p \in Picture : Pick(p)
  \/ \E i \in DOMAIN imvList : Looks(i)
  \/ SyncTo \/ Open \/ AskCount \/ Break \/ GotoPass \/ PassFails \/ SyncFrom
NameSpec == NameInit /\ [][NameNext]_nameVars

-----------------------------------------------------------------------------
(* Properties *)

\* Where all that was sent arrived and only ranger moves, imv comes to the file under the cursor
\* although it has dropped others ("converges"), and to a neighbour if it dropped that one; and
\* the cursor never moves by itself: it follows imv only where imv's user has moved.  Commands are
\* never too long, and all that imv can show is in them.  (If one path alone is too long, nothing
\* is sent, but the list counts as sent.)
AllSent == toDo.at = "idle" /\ sent # << >> /\ \A p \in ToSet(sent) : FitsIpc(<<p>>)
ViewerIsLed ==
  /\ AllSent /\ breaks = 0 =>
       /\ looks = 0 /\ Loads(chosen) => ShownNow = chosen
       /\ ~looked /\ chosen \in ToSet(sent) => ShownNow \in {seenAt, NoPicture}
       /\ chosen \in ToSet(sent) => \A p \in ToSet(sent) : Loads(p) => p \in ToSet(imvList)
  /\ \A k \in DOMAIN toDo.left : toDo.left[k] = << >> \/ FitsIpc(toDo.left[k])
=============================================================================

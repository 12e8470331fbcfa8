----------------------------- MODULE HistoryNavi ----------------------------
(***************************************************************************)
(* src/ranger/plugins/history_navi.py: the directories of a ranger tab     *)
(* that H goes back through.  ranger enters directories in three ways: a   *)
(* plain step (h, l, j, k) is not recorded, a jump is, and going back or   *)
(* forward moves in the history.  A directory may have gone.               *)
(***************************************************************************)
EXTENDS Integers, Sequences

CONSTANTS Places, FirstPlace,  \* directories
          MaxHistory,          \* h.maxlen: ranger's max_history_size, 0 for no bound
          MaxEnters            \* bound on the directories entered
ASSUME HistoryAssumption ==
  FirstPlace \in Places /\ MaxHistory \in Nat \ {1} /\ MaxEnters \in Nat

VARIABLES place,    \* tab.thisdir
          history,  \* h.history
          at,       \* h.index + 1; 0 as long as there is no history
          enters    \* counted for the bound
histVars == <<place, history, at, enters>>

HistInit == place = FirstPlace /\ history = << >> /\ at = 0 /\ enters = 0

\* A history with its current position; the oldest entry is dropped when it is too long.
Hist(h, i)   == [h |-> h, i |-> i]
TrimOnly(h)  == IF MaxHistory > 0 /\ Len(h.h) > MaxHistory THEN Hist(Tail(h.h), h.i) ELSE h
Trim(h)      == IF MaxHistory > 0 /\ Len(h.h) > MaxHistory THEN Hist(Tail(h.h), h.i - 1) ELSE h
Fork(h, d)   == Trim(Hist(Append(SubSeq(h.h, 1, h.i), d), h.i + 1))
\* _visit with FORK = "truncate": stay, retrace forward, or drop what is ahead and append.
Visit(h, d) ==
  CASE h.i > 0 /\ h.h[h.i] = d -> h
    [] h.i > 0 /\ h.h[h.i] # d /\ h.i < Len(h.h) /\ h.h[h.i + 1] = d -> [h EXCEPT !.i = @ + 1]
    [] OTHER -> Fork(h, d)

Entering(d) == enters < MaxEnters /\ enters' = enters + 1 /\ place' \in {place, d}

\* enter_dir from move or move_parent by one level, or with history=False: not recorded.
Step(d) == Entering(d) /\ UNCHANGED <<history, at>>

\* enter_dir from anywhere else (cd, a followed link, a bookmark): where one was and where one
\* is now are recorded, unless it failed.
Jump(d) ==
  /\ Entering(d)
  /\ LET h == IF place' = place THEN Hist(history, at)
              ELSE Visit(Visit(Hist(history, at), place), place')
     IN  history' = h.h /\ at' = h.i

\* history_go: ranger moves the position within the history and enters that directory.
Go(n) ==
  /\ history # << >>
  /\ LET i == at + n
         to == IF i < 1 THEN 1 ELSE IF i > Len(history) THEN Len(history) ELSE i
     IN  at' = to /\ Entering(history[to])
  /\ UNCHANGED history

\* :history_clear
Clear ==
  /\ history # << >>
  /\ history' = <<history[at]>> /\ at' = 1
  /\ UNCHANGED <<place, enters>>

HistNext == Clear \/ (\E d \in Places : Step(d) \/ Jump(d)) \/ (\E n \in {-1, 1} : Go(n))

HistSpec == HistInit /\ [][HistNext]_histVars

HistTypeOK ==
  /\ place \in Places /\ history \in Seq(Places) /\ enters \in 0 .. MaxEnters
  /\ at \in 0 .. Len(history) /\ (at = 0 <=> history = << >>)
  /\ MaxHistory > 0 => Len(history) <= MaxHistory

\* One H after a jump goes back to where one was, wherever in the history one was and however
\* long it is, and jumping there again leaves the history as it was ("Retracing the same jump
\* never grows history").
JumpGoesBack ==
  [][\A d \in Places : Jump(d) /\ place' # place
       => /\ at' > 1 /\ history'[at'] = d /\ history'[at' - 1] = place
          /\ at \in 1 .. Len(history) - 1 /\ history[at] = place /\ history[at + 1] = d
               => history' = history]_histVars

\* Going back or forward always leads elsewhere: no two entries in a row are the same.
NoStandstill == \A i \in 1 .. Len(history) - 1 : history[i] # history[i + 1]
=============================================================================

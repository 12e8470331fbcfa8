---------------------------- MODULE MCJobsSafety ----------------------------
(***************************************************************************)
(* Two questions in one run, and which one is asked is chosen at the       *)
(* start: two invocations, two workers and four attempts while things      *)
(* fail, or three of each, with every command there is, while nothing      *)
(* does.                                                                   *)
(***************************************************************************)
EXTENDS MCTmuxJobs

VARIABLE faulty
SafetyVars == <<vars, faulty>>

Begun(f, rest) == Cardinality({x \in DOMAIN f : f[x] # rest})

SafetyInit == Init /\ faulty \in BOOLEAN
SafetyNext ==
  /\ Next /\ UNCHANGED faulty
  /\ faulty => /\ Begun(wk', "none") <= 2 /\ Begun(cl', "idle") <= 2
               /\ \A c \in Client : req'[c] \in {None} \cup CrashRequests
  /\ ~faulty => faults' = 0 /\ Begun(wrap', "none") <= 3

SafetySpec == SafetyInit /\ [][SafetyNext]_SafetyVars
=============================================================================

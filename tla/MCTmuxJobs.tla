----------------------------- MODULE MCTmuxJobs -----------------------------
(***************************************************************************)
(* Instances of TmuxJobs for TLC: which invocations the clients may make.  *)
(***************************************************************************)
EXTENDS TmuxJobsProps, TLC

CONSTANTS c1, c2

Ask == [cmds |-> << >>, unique |-> FALSE, mode |-> "keep", limit |-> 0, stop |-> "no"]

Submit(records)       == [Ask EXCEPT !.cmds = records]
SubmitUnique(records) == [Ask EXCEPT !.cmds = records, !.unique = TRUE]
Resume          == Ask
Continue        == [Ask EXCEPT !.mode = "continue"]
Blocking        == [Ask EXCEPT !.mode = "blocking"]
Slots(n)        == [Ask EXCEPT !.limit = n]
Drain           == [Ask EXCEPT !.stop = "drain"]
Kill            == [Ask EXCEPT !.stop = "kill"]

CrashRequests   == {Submit(<<c1>>), Resume}
ControlRequests == {Submit(<<c1>>), Resume, Continue, Blocking, Drain, Kill}
BatchRequests   == {SubmitUnique(<<c1>>), SubmitUnique(<<c2, c1>>), SubmitUnique(<<c1, c1>>),
                    Resume, Continue, Slots(1), Drain, Kill}
LiveRequests    == {Submit(<<c1>>), Resume, Drain, Kill}

Symmetry == Permutations(Token) \cup Permutations(Worker) \cup Permutations(Client)
=============================================================================

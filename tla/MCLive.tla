------------------------------- MODULE MCLive --------------------------------
(***************************************************************************)
(* What must eventually happen, in one run: the watcher of vcvt, the       *)
(* monitor of dangling links, the viewer beside ranger.  They share no     *)
(* state: a behaviour is one of one part, chosen at the start.             *)
(***************************************************************************)
EXTENDS Vcvt, VdMonitor, ImvSync, TLC

CONSTANTS mp4, other, out, otherOut, v1, v2,  \* Vcvt
          pics, more, img1, img2, img3        \* ImvSync
OwnStems  == [n \in Name |-> IF n = other THEN otherOut ELSE out]
OneAv1    == [v \in Video |-> IF v = v2 THEN "av1" ELSE "other"]
MCFilesOf == pics :> <<img1, img2>> @@ more :> <<img3>>

VARIABLE part
liveVars == <<part, vars, monVars, imvVars>>

LiveInit ==
  /\ part \in {"vcvt", "monitor", "imv"}
  /\ Init
  /\ MonInit /\ (part # "monitor" => broken = {})
  /\ ImvInit /\ (part # "imv" => folder = pics)

Only(p) ==
  /\ part = p /\ UNCHANGED part
  /\ p # "vcvt"    => UNCHANGED vars
  /\ p # "monitor" => UNCHANGED monVars
  /\ p # "imv"     => UNCHANGED imvVars

LiveNext ==
  \/ Only("vcvt")    /\ Next
  \/ Only("monitor") /\ MonNext
  \/ Only("imv")     /\ ImvNext

\* Fairness, MonFairness and ImvFairness, each while its part runs.
LiveSpec ==
  /\ LiveInit /\ [][LiveNext]_liveVars
  /\ WF_liveVars(Only("vcvt") /\ Watch)
  /\ \A n \in Name : WF_liveVars(Only("vcvt") /\ WatcherTake(n))
  /\ \A a \in Attempt :
       /\ WF_liveVars(Only("vcvt") /\ Convert(a))
       /\ WF_liveVars(Only("vcvt") /\ Encoder(a))
  /\ \A j \in Job :
       /\ WF_liveVars(Only("vcvt") /\ \E a \in Attempt : Start(j, a))
       /\ WF_liveVars(Only("vcvt") /\ Record(j))
       /\ WF_liveVars(Only("vcvt") /\ Release(j))
       /\ WF_liveVars(Only("vcvt") /\ Abandoned(j) /\ (Requeue(j) \/ Lose(j) \/ Reap(attempt[j])))
  /\ WF_liveVars(Only("monitor") /\ \E l \in Symlink : CheckLink(l))
  /\ WF_liveVars(Only("monitor") /\ CheckDone)
  /\ WF_liveVars(Only("monitor") /\ Tick)
  /\ WF_liveVars(Only("monitor") /\ Warmed)
  /\ WF_liveVars(Only("monitor") /\ Baseline)
  /\ WF_liveVars(Only("monitor") /\ StartTask)
  /\ WF_liveVars(Only("monitor") /\ EndTask)
  /\ WF_liveVars(Only("imv") /\ NoInput)
  /\ WF_liveVars(Only("imv") /\ Push)
  /\ WF_liveVars(Only("imv") /\ Poll)
  /\ WF_liveVars(Only("imv") /\ Snapshot)
=============================================================================

------------------------------- MODULE MCVcvt -------------------------------
(***************************************************************************)
(* Instances of Vcvt for TLC: names, outputs and codecs.                   *)
(***************************************************************************)
EXTENDS Vcvt, TLC

CONSTANTS mp4, webp, other,  \* source names
          out, otherOut,     \* output names
          v1, v2             \* videos

\* One stem with two suffixes: clip.mp4 and clip.webp are both encoded as clip_v32.mp4.
SharedStem   == [n \in Name |-> out]
OwnStems     == [n \in Name |-> IF n = other THEN otherOut ELSE out]

AllGood      == [v \in Video |-> "other"]
OneAv1       == [v \in Video |-> IF v = v2 THEN "av1" ELSE "other"]

Symmetry == Permutations(Attempt) \cup Permutations(Name) \cup Permutations(Video)
=============================================================================

----------------------------- MODULE MCVdPaste ------------------------------
(***************************************************************************)
(* Trees for TLC.  s and t hold files, v links to them; d is a plain       *)
(* directory; z and y are the dashboards of the bases a and b.             *)
(***************************************************************************)
EXTENDS VdPaste

CONSTANTS f1, f2, f3, copied

MCDashOf == "a" :> "z" @@ "b" :> "y"
A(dir)   == <<dir, "a", 0>>
B(dir)   == <<dir, "b", 0>>

\* v/a and the dashboard link z/a lead to s/a, the latter by way of v/a; v/b leads to s/b;
\* d/a is free, or taken by a file or by a dangling link.
One == A("s") :> File(f1) @@ A("v") :> Link(A("s")) @@ A("z") :> Link(A("v"))
Two == One @@ B("s") :> File(f2) @@ B("v") :> Link(B("s"))
InTheWay == A("d") :> File(f3)
Dangles  == A("d") :> Link(A("t"))
\* Two files of one name: the names they get depend on each other.
Clash    == A("s") :> File(f1) @@ A("t") :> File(f2) @@ B("v") :> Link(A("s"))
\* Each link has the name of the other's file.
Swapped  == A("s") :> File(f1) @@ B("s") :> File(f2) @@ A("v") :> Link(B("s")) @@ B("v") :> Link(A("s"))
\* A file owns the name that the link to s/a would be replaced by.
Foreign  == A("s") :> File(f1) @@ B("v") :> Link(A("s")) @@ A("v") :> File(f3)

Session(cmds, n, bad, t, k) ==
  [ops |-> cmds, turns |-> k, pastes |-> n, faults |-> bad, jump |-> "rename" \in cmds, tree |-> t]

MCSessions ==
  {Session({"cut", "paste"}, 2, 0, t, 2) : t \in {One, Clash}}
    \cup {Session({"cut", "paste", "over", "more"}, 1, 1, t, 1) :
              t \in {Two, Two @@ InTheWay, Clash, Foreign}}
    \cup {Session({"cut", "paste"}, 1, 1, Swapped, 2)}
    \cup {Session({"cut", "copy", "paste", "over", "more"}, 2, 0, One @@ Dangles, 2),
          Session({"cut", "copy", "paste", "links", "delete", "rename"}, 1, 0, One @@ InTheWay, 2)}
\* Into the directory of the link itself.
LossSession == {Session({"cut", "paste"}, 1, 0, One, 1)}
\* Cut one by one, with different answers.
SwapSession == {Session({"cut", "paste"}, 1, 0, Swapped, 2)}
=============================================================================

------------------------------- MODULE Hooks --------------------------------
(***************************************************************************)
(* src/ranger/plugins/rhooks.py, and the registry of pasteflow.py: how the *)
(* plugins wrap methods of ranger and have their callbacks called.  Files  *)
(* of plugins are executed again when they are reloaded, and under two     *)
(* import names; other plugins wrap the same methods on their own.  State  *)
(* that has to survive is kept in a module of its own (shared).            *)
(* A method is the sequence of its wrappers, the outermost first.          *)
(***************************************************************************)
EXTENDS Integers, Sequences, SequencesExt, FiniteSets

CONSTANTS Plugin,
          KindOf,      \* [Plugin -> {"tick", "cd", "guard", "paste"}]: what its file calls
          MaxLoads, MaxWrappers  \* bounds on executed files, and on wrappers of other plugins
ASSUME HooksAssumption ==
  /\ KindOf \in [Plugin -> {"tick", "cd", "guard", "paste"}]
  /\ MaxLoads \in Nat /\ MaxWrappers \in Nat

Methods == {"work", "paste", "hook_init"}  \* Loader.work, Actions.paste*, ranger.api.hook_init

VARIABLES methods,    \* [Methods -> wrappers]
          originals,  \* shared "orig": [Methods -> what was found there first, or Unpatched]
          callbacks,  \* the registries: [kind -> <<[key, fn], ...>> as the dict is ordered]
          hooked,     \* _S.init
          fmKnown,    \* ranger.fm is there when plugins are loaded
          bindings,   \* signals bound to "cd" of fm
          booted,     \* ranger has called hook_init
          latest,     \* [Plugin -> the last load, or 0], and whether it was before booting
          loadings, wrappers  \* counted for the bounds
hookVars == <<methods, originals, callbacks, hooked, fmKnown, bindings, booted, latest, loadings, wrappers>>

Unpatched == << >>
Native == 0   \* the method as ranger has it; the wrappers of others are 1, 2, ...
Ours      == -1

HooksInit ==
  /\ methods = [m \in Methods |-> <<Native>>] /\ originals = [m \in Methods |-> Unpatched]
  /\ callbacks = [k \in {"tick", "cd", "guard"} |-> << >>]
  /\ hooked = FALSE /\ fmKnown \in BOOLEAN /\ bindings = 0 /\ booted = FALSE
  /\ latest = [p \in Plugin |-> [load |-> 0, early |-> FALSE]]
  /\ loadings = 0 /\ wrappers = 0

\* dict[key] = fn: the key keeps its place.
Registered(cs, key, fn) ==
  IF \E i \in DOMAIN cs : cs[i].key = key
  THEN [i \in DOMAIN cs |-> IF cs[i].key = key THEN [cs[i] EXCEPT !.fn = fn] ELSE cs[i]]
  ELSE Append(cs, [key |-> key, fn |-> fn])

OriginalNow(m) == methods[m]
\* patch: wraps what was there the first time, whatever is there now.
Original(m) == IF originals[m] = Unpatched THEN methods[m] ELSE originals[m]
Patch(m) == /\ originals' = [originals EXCEPT ![m] = Original(m)]
            /\ methods' = [methods EXCEPT ![m] = <<Ours>> \o Original(m)]

\* _bind: once for an fm, which carries a mark.
BoundOnce(known) == IF known /\ bindings = 0 THEN 1 ELSE bindings

\* The file of p is executed.
OnTick == Patch("work") /\ UNCHANGED <<bindings, hooked>>
HookCd ==
  /\ bindings' = BoundOnce(fmKnown)
  /\ hooked' = TRUE
  /\ methods' = IF hooked THEN methods ELSE [methods EXCEPT !["hook_init"] = <<Ours>> \o @]
  /\ UNCHANGED originals
Guard   == UNCHANGED <<methods, originals, bindings, hooked>>
Install == Patch("paste") /\ UNCHANGED <<bindings, hooked>>
Load(p) ==
  /\ loadings < MaxLoads /\ loadings' = loadings + 1
  /\ latest' = [latest EXCEPT ![p] = [load |-> loadings', early |-> @.early \/ ~booted]]
  /\ CASE KindOf[p] = "tick" -> OnTick [] KindOf[p] = "cd" -> HookCd
       [] KindOf[p] = "guard" -> Guard [] KindOf[p] = "paste" -> Install
  /\ IF KindOf[p] = "paste" THEN UNCHANGED callbacks
     ELSE callbacks' = [callbacks EXCEPT ![KindOf[p]] = Registered(@, p, loadings')]
  /\ UNCHANGED <<fmKnown, booted, wrappers>>

\* A plugin of somebody else wraps what it finds.
Foreign(m) ==
  /\ wrappers < MaxWrappers /\ wrappers' = wrappers + 1
  /\ methods' = [methods EXCEPT ![m] = <<wrappers'>> \o @]
  /\ UNCHANGED <<originals, callbacks, hooked, fmKnown, bindings, booted, latest, loadings>>

\* ranger is up, and calls hook_init.
Boot ==
  /\ ~booted /\ booted' = TRUE
  /\ bindings' = IF Ours \in ToSet(methods["hook_init"]) THEN BoundOnce(TRUE) ELSE bindings
  /\ UNCHANGED <<methods, originals, callbacks, hooked, fmKnown, latest, loadings, wrappers>>

HooksNext == (\E p \in Plugin : Load(p)) \/ (\E m \in Methods : Foreign(m)) \/ Boot

HooksSpec == HooksInit /\ [][HooksNext]_hookVars

HooksTypeOK ==
  /\ bindings \in Nat /\ {hooked, fmKnown, booted} \subseteq BOOLEAN
  /\ \A k \in DOMAIN callbacks : \A i \in DOMAIN callbacks[k] : callbacks[k][i].key \in Plugin

\* How often the method itself, and the callbacks of a kind, run when ranger calls.
Times(m, w)   == Cardinality({i \in DOMAIN methods[m] : methods[m][i] = w})
Rounds(kind)  == CASE kind = "tick" -> Times("work", Ours) [] kind = "cd" -> bindings
                   [] kind = "guard" -> 1
Entries(p)    == {c \in ToSet(callbacks[KindOf[p]]) : c.key = p}

\* However often and in whatever order the files are executed, ranger's own method and every
\* other wrapper runs at most once, the newest callback of every plugin exactly once, and
\* wrappers that were there before ours stay ("wrappers never stack on themselves",
\* "Registering again under the same key REPLACES the callback (re-exec safe, no duplicates)").
HooksRunOnce ==
  /\ \A m \in Methods : /\ IsInjective(methods[m]) /\ Last(methods[m]) = Native
                        /\ originals[m] # Unpatched => IsSuffix(<<Ours>> \o originals[m], methods[m])
  /\ \A k \in DOMAIN callbacks : IsInjective(callbacks[k])
  /\ \A p \in Plugin :
       /\ KindOf[p] # "paste" /\ latest[p].load > 0
       /\ KindOf[p] = "cd" => fmKnown \/ (booted /\ latest[p].early)
       => /\ Rounds(KindOf[p]) = 1
          /\ Entries(p) = {[key |-> p, fn |-> latest[p].load]}
=============================================================================

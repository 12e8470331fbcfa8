--------------------------- MODULE VdPasteProofs ----------------------------
(***************************************************************************)
(* That the guards of VdPaste lose no file, as long as nothing is pasted   *)
(* into a directory whose links are guarded; that the links to files that  *)
(* were not moved come back, wherever they are; and that the links to      *)
(* files that did move lead to them: for any tree, any directories and any *)
(* number of pastes.                                                       *)
(***************************************************************************)
EXTENDS VdPaste, FiniteSetTheorems, WellFoundedInduction, TLAPS

\* Nothing is pasted into a directory whose links are indexed, nor into a dashboard.
LinksElsewhere == Dests \cap (Roots \cup Dashboards) = {}

\* The places of the files the session began with.
Guarded(f) == {p \in DOMAIN f : f[p].kind = "file" /\ f[p].ino \in Files}

\* Every such file of f is where it was in g, and g has no other.
SameFiles(f, g) == Guarded(g) = Guarded(f) /\ \A p \in Guarded(f) : g[p] = f[p]

\* A new place of such a file is in a directory that is pasted into.
Adds(f, g) == \A p \in Guarded(g) : p \in Guarded(f) \/ (p \in Path /\ p[1] \in Dests)

\* The replacements of the stages are in other directories and replace none of the files.
Off(f, stages) ==
  /\ stages \in Seq(Range(stages))
  /\ \A i \in DOMAIN stages :
       \/ stages[i].dest = None
       \/ stages[i].dest[1] \notin Dests /\ stages[i].dest \notin Guarded(f)

\* A loader that has not ended knows where its files go, and its stages are harmless.
LoaderOK(f, me) ==
  me.st \in {"queued", "running"} =>
    /\ DOMAIN me = DOMAIN NoJob
    /\ me.kind \in {"move", "copy"} /\ me.todo \in Seq(Path) /\ me.dest \in Dests
    /\ Off(f, me.stages)
    /\ \A p \in DOMAIN me.held : me.held[p].kind # "file"

PromptOK(q) ==
  \/ q = NoPrompt
  \/ q.op \in {"cut", "delete"}
  \/ q.op = "move" /\ q.olds \subseteq Path /\ q.dest \in Dests
  \/ q.op = "rename" /\ q.new \in Path /\ q.new[1] \in Dests

PasteInv ==
  /\ Guarded(fs) \subseteq Path
  /\ buffer \subseteq Path
  /\ cursor # None => cursor[1] \in Dests
  /\ PromptOK(prompt)
  /\ \A l \in Loader : LoaderOK(fs, loader[l])

-----------------------------------------------------------------------------
(* Trees. *)

\* A non-empty set of numbers has a least one.
LEMMA LeastNat ==
  ASSUME NEW S \in SUBSET Nat, S # {}
  PROVE  \E n \in S : \A m \in S : n <= m
<1>1. IsWellFoundedOn(OpToRel(<, Nat), Nat)
  BY NatLessThanWellFounded
<1>2. PICK n \in S : \A m \in S : ~(<<m, n>> \in OpToRel(<, Nat))
  BY <1>1, WFMin
<1>3. ASSUME NEW m \in S PROVE n <= m
  <2>1. <<m, n>> \in Nat \X Nat
    OBVIOUS
  <2>2. ~ (m < n)
    BY <1>2, <2>1 DEF OpToRel
  <2> QED BY <2>2
<1> QED BY <1>3

\* The images of finitely many things are finitely many.
LEMMA FiniteImage ==
  ASSUME NEW S, IsFiniteSet(S), NEW F
  PROVE  IsFiniteSet({F[x] : x \in S})
<1> DEFINE T == {F[x] : x \in S}
           g == [x \in S |-> F[x]]
<1>1. g \in [S -> T]
  OBVIOUS
<1>2. \A t \in T : \E x \in S : g[x] = t
  OBVIOUS
<1>3. g \in Surjection(S, T)
  <2> HIDE DEF g, T
  <2> QED BY <1>1, <1>2 DEF Surjection
<1> HIDE DEF g
<1> QED BY <1>3, FS_Surjection

\* There are finitely many paths.
LEMMA PathFinite == IsFiniteSet(Path)
<1> DEFINE Pairs == (Dir \X Base) \X (0 .. MaxSafe)
           F == [q \in Pairs |-> <<q[1][1], q[1][2], q[2]>>]
<1>1. IsFiniteSet(0 .. MaxSafe)
  BY PasteAssumption, FS_Interval
<1>2. IsFiniteSet(Dir \X Base)
  BY PasteAssumption, FS_Product
<1>3. IsFiniteSet(Pairs)
  BY <1>1, <1>2, FS_Product
<1>4. IsFiniteSet({F[q] : q \in Pairs})
  <2> HIDE DEF F, Pairs
  <2> QED BY <1>3, FiniteImage
<1>5. ASSUME NEW p \in Path PROVE p \in {F[q] : q \in Pairs}
  <2>1. p[1] \in Dir /\ p[2] \in Base /\ p[3] \in 0 .. MaxSafe /\ p = <<p[1], p[2], p[3]>>
    BY DEF Path
  <2>2. PICK q \in Pairs : q = <<<<p[1], p[2]>>, p[3]>>
    BY <2>1
  <2>3. F[q] = <<p[1], p[2], p[3]>>
    BY <2>2
  <2> QED BY <2>1, <2>3
<1> HIDE DEF F, Pairs
<1> QED BY <1>4, <1>5, FS_Subset

\* The orders of a finite set are sequences of its elements.
LEMMA OrderIsSeq ==
  ASSUME NEW S, IsFiniteSet(S), NEW order \in SetToSeqs(S)
  PROVE  order \in Seq(S)
<1>1. Cardinality(S) \in Nat
  BY FS_CardinalityType
<1>2. order \in [1 .. Cardinality(S) -> S]
  BY DEF SetToSeqs
<1> QED BY <1>1, <1>2

\* It has all of them.
LEMMA OrderIsAll ==
  ASSUME NEW S, IsFiniteSet(S), NEW order \in SetToSeqs(S)
  PROVE  /\ \A i \in DOMAIN order : order[i] \in S
         /\ \A x \in S : \E i \in DOMAIN order : order[i] = x
<1> DEFINE n == Cardinality(S)
<1>1. n \in Nat
  BY FS_CardinalityType
<1>2. order \in [1 .. n -> S] /\ \A i, j \in 1 .. n : i # j => order[i] # order[j]
  BY DEF SetToSeqs
<1>3. IsFiniteSet(1 .. n) /\ Cardinality(1 .. n) = n
  <2> HIDE DEF n
  <2> QED BY <1>1, FS_Interval
<1>4. order \in Injection(1 .. n, S)
  BY <1>2 DEF Injection, IsInjective
<1>5. order \in Surjection(1 .. n, S)
  BY <1>3, <1>4, FS_Injection
<1> QED BY <1>2, <1>5 DEF Surjection

\* A sequence over a set is one over any larger set.
LEMMA SeqOfMore ==
  ASSUME NEW S, NEW T, S \subseteq T, NEW order \in Seq(S)
  PROVE  order \in Seq(T)
<1>1. Len(order) \in Nat /\ order \in [1 .. Len(order) -> S]
  OBVIOUS
<1>2. order \in [1 .. Len(order) -> T]
  BY <1>1
<1> QED BY <1>1, <1>2

\* A chain of links that begins at something else than a link ends there.
LEMMA LeadsToItself ==
  ASSUME NEW f, NEW p, ~IsLink(f, p)
  PROVE  LeadsTo(f, p) = p
<1> DEFINE Step(h, n) == IF n = 0 THEN p ELSE IF IsLink(f, h[n - 1]) THEN f[h[n - 1]].to ELSE h[n - 1]
           hop == CHOOSE h : h = [n \in 0 .. MaxHops |-> Step(h, n)]
           still == [n \in 0 .. MaxHops |-> p]
<1>1. still = [n \in 0 .. MaxHops |-> Step(still, n)]
  <2>1. ASSUME NEW n \in 0 .. MaxHops PROVE Step(still, n) = p
    <3>1. n = 0 \/ n - 1 \in 0 .. MaxHops
      BY DEF MaxHops
    <3>2. CASE n = 0
      BY <3>2
    <3>3. CASE n # 0
      <4>1. still[n - 1] = p
        BY <3>1, <3>3
      <4> QED BY <4>1
    <3> QED BY <3>2, <3>3
  <2> QED BY <2>1, Zenon
<1>2. hop = [n \in 0 .. MaxHops |-> Step(hop, n)]
  <2> HIDE DEF Step, still
  <2> QED BY <1>1, Zenon
<1>3. \A n \in 0 .. MaxHops : hop[n] = Step(hop, n)
  <2> HIDE DEF Step, hop
  <2> QED BY <1>2, Zenon
<1> HIDE DEF hop
<1>4. hop[0] = p
  BY <1>3 DEF MaxHops
<1>5. hop[1] = p
  BY <1>3, <1>4 DEF MaxHops
<1>6. hop[2] = p
  BY <1>3, <1>5 DEF MaxHops
<1>7. hop[3] = p
  BY <1>3, <1>6 DEF MaxHops
<1>8. Hops(f, p) = [n \in 1 .. MaxHops |-> hop[n]]
  BY Zenon DEF Hops, hop
<1> QED BY <1>7, <1>8 DEF LeadsTo, MaxHops

\* A file is in the way of any name that has it.
LEMMA FileExists ==
  ASSUME NEW f, NEW p \in Guarded(f)
  PROVE  Exists(f, p)
<1>1. IsFile(f, p) /\ ~IsLink(f, p)
  BY DEF Guarded, IsFile, IsLink
<1> QED BY <1>1, LeadsToItself DEF Exists

\* A safe name is free of the files.
LEMMA SafeIsFree ==
  ASSUME NEW f, NEW p \in Path, SafeLeft(f, p)
  PROVE  /\ SafePath(f, p, {}) \in Path
         /\ SafePath(f, p, {})[1] = p[1]
         /\ SafePath(f, p, {}) \notin Guarded(f)
<1> DEFINE free == {n \in p[3] .. MaxSafe : ~Exists(f, <<p[1], p[2], n>>) /\ <<p[1], p[2], n>> \notin {}}
<1>1. p[1] \in Dir /\ p[2] \in Base /\ p[3] \in 0 .. MaxSafe
  BY DEF Path
<1>2. free \subseteq 0 .. MaxSafe /\ free \in SUBSET Nat
  BY <1>1, PasteAssumption
<1>3. free # {}
  BY DEF SafeLeft
<1>4. SafePath(f, p, {}) = <<p[1], p[2], Min(free)>>
  BY DEF SafePath
<1>5. Min(free) \in free
  <2> HIDE DEF free
  <2>1. \E n \in free : \A m \in free : n <= m
    BY <1>2, <1>3, LeastNat
  <2> QED BY <2>1 DEF Min
<1>6. ~Exists(f, <<p[1], p[2], Min(free)>>)
  BY <1>5
<1>7. Min(free) \in 0 .. MaxSafe
  BY <1>2, <1>5
<1> HIDE DEF free
<1> QED BY <1>1, <1>4, <1>6, <1>7, FileExists DEF Path

-----------------------------------------------------------------------------
(* What keeps the files. *)

\* Files that stay over two changes stay over both.
LEMMA SameFilesTransitive ==
  ASSUME NEW f, NEW g, NEW h, SameFiles(f, g), SameFiles(g, h)
  PROVE  SameFiles(f, h)
BY DEF SameFiles

\* They stay when nothing changes.
LEMMA SameFilesReflexive ==
  ASSUME NEW f
  PROVE  SameFiles(f, f)
BY DEF SameFiles

\* A link is no file.
LEMMA LinkKinds ==
  ASSUME NEW p
  PROVE  Link(p).kind = "link" /\ Link(p).kind # "file"
BY DEF Link

\* Entries that are none of the files may go.
LEMMA WithoutKeeps ==
  ASSUME NEW f, NEW S, S \cap Guarded(f) = {}
  PROVE  SameFiles(f, Without(f, S))
<1>1. DOMAIN Without(f, S) = DOMAIN f \ S
      /\ \A p \in DOMAIN f \ S : Without(f, S)[p] = f[p]
  BY DEF Without, Restrict
<1> QED BY <1>1 DEF SameFiles, Guarded

\* Links may come where there is none of the files.
LEMMA OverKeeps ==
  ASSUME NEW f, NEW g,
         \A p \in DOMAIN g : p \notin Guarded(f) /\ g[p].kind # "file"
  PROVE  SameFiles(f, Over(g, f))
<1>1. DOMAIN Over(g, f) = DOMAIN g \cup DOMAIN f
      /\ \A p \in DOMAIN g \cup DOMAIN f :
           Over(g, f)[p] = IF p \in DOMAIN g THEN g[p] ELSE f[p]
  BY DEF Over
<1>2. Guarded(Over(g, f)) = Guarded(f)
  BY <1>1 DEF Guarded
<1>3. \A p \in Guarded(f) : Over(g, f)[p] = f[p]
  BY <1>1 DEF Guarded
<1> QED BY <1>2, <1>3 DEF SameFiles

\* What Put puts, and what it leaves.
LEMMA PutDef ==
  ASSUME NEW f, NEW p, NEW entry
  PROVE  /\ DOMAIN Put(f, p, entry) = DOMAIN f \cup {p}
         /\ \A q \in DOMAIN f \cup {p} : Put(f, p, entry)[q] = IF q = p THEN entry ELSE f[q]
BY DEF Put

\* A link may come where there is none of the files.
LEMMA PutKeeps ==
  ASSUME NEW f, NEW p, NEW entry, p \notin Guarded(f), entry.kind # "file"
  PROVE  SameFiles(f, Put(f, p, entry))
<1> DEFINE g == Put(f, p, entry)
<1>1. /\ DOMAIN g = DOMAIN f \cup {p}
      /\ \A q \in DOMAIN f \cup {p} : g[q] = IF q = p THEN entry ELSE f[q]
  BY DEF Put
<1> HIDE DEF g
<1>2. Guarded(g) = Guarded(f)
  BY <1>1 DEF Guarded
<1>3. \A q \in Guarded(f) : g[q] = f[q]
  BY <1>1 DEF Guarded
<1> QED BY <1>2, <1>3 DEF SameFiles, g

\* Adding an entry that is none of the files keeps them.
LEMMA AddKeeps ==
  ASSUME NEW f, NEW p, NEW to
  PROVE  SameFiles(f, Add(f, p, Link(to)))
<1>1. CASE Lexists(f, p)
  BY <1>1, SameFilesReflexive DEF Add
<1>2. CASE ~Lexists(f, p)
  <2>1. p \notin Guarded(f)
    BY <1>2 DEF Lexists, Guarded
  <2> QED BY <1>2, <2>1, LinkKinds, PutKeeps DEF Add
<1> QED BY <1>1, <1>2

\* What was not a file and comes back where nothing is.
LEMMA UnderKeeps ==
  ASSUME NEW f, NEW g, \A p \in DOMAIN g : g[p].kind # "file"
  PROVE  SameFiles(f, Over(f, g))
<1>1. DOMAIN Over(f, g) = DOMAIN f \cup DOMAIN g
      /\ \A p \in DOMAIN f \cup DOMAIN g :
           Over(f, g)[p] = IF p \in DOMAIN f THEN f[p] ELSE g[p]
  BY DEF Over
<1>2. Guarded(Over(f, g)) = Guarded(f)
  BY <1>1 DEF Guarded
<1>3. \A p \in Guarded(f) : Over(f, g)[p] = f[p]
  BY <1>1 DEF Guarded
<1> QED BY <1>2, <1>3 DEF SameFiles

\* Links come only where the stages say: none of the files is there.
LEMMA LinkedKeeps ==
  ASSUME NEW f, NEW stages, NEW some, NEW text,
         \A i \in some : stages[i].dest = None \/ stages[i].dest \notin Guarded(f)
  PROVE  SameFiles(f, Linked(f, stages, some, text))
<1> DEFINE at == {stages[i].dest : i \in some} \ {None}
           last(p) == Max({i \in some : stages[i].dest = p})
           g == [p \in at |-> Link(text[last(p)])]
<1>1. Linked(f, stages, some, text) = Over(g, f)
  BY DEF Linked
<1>2. DOMAIN g = at /\ \A p \in at : g[p].kind # "file"
  <2> HIDE DEF last
  <2> QED BY LinkKinds
<1>3. \A p \in at : p \notin Guarded(f)
  OBVIOUS
<1> HIDE DEF g, at
<1> QED BY <1>1, <1>2, <1>3, OverKeeps

\* Undoing a stage clears and puts back links only (_MoveJob.undo).
LEMMA UndoneKeeps ==
  ASSUME NEW state, NEW s
  PROVE  SameFiles(state.fs, Undone(state, s).fs)
<1> DEFINE f == state.fs
           cleared == IF IsLink(state.fs, s.dest) /\ state.fs[s.dest] = Link(s.text)
                      THEN Without(state.fs, {s.dest}) ELSE state.fs
<1>1. SameFiles(f, cleared)
  <2>1. CASE IsLink(f, s.dest)
    <3>1. s.dest \notin Guarded(f)
      BY <2>1 DEF IsLink, Guarded
    <3> QED BY <3>1, WithoutKeeps, SameFilesReflexive
  <2>2. CASE ~IsLink(f, s.dest)
    BY <2>2, SameFilesReflexive
  <2> QED BY <2>1, <2>2
<1>2. Undone(state, s).fs = IF Lexists(cleared, s.link) THEN cleared
                                                       ELSE Put(cleared, s.link, Link(s.to))
  <2> HIDE DEF cleared
  <2>1. Undone(state, s) =
          IF Lexists(cleared, s.link)
          THEN [fs |-> cleared, aside |-> state.aside \cup {[link |-> s.link, to |-> s.to]}]
          ELSE [fs |-> Put(cleared, s.link, Link(s.to)), aside |-> state.aside]
    BY Zenon DEF Undone, cleared
  <2> QED BY <2>1
<1> HIDE DEF cleared, f
<1>3. ~Lexists(cleared, s.link) => s.link \notin Guarded(cleared)
  BY DEF Lexists, Guarded
<1>4. SameFiles(cleared, Undone(state, s).fs)
  BY <1>2, <1>3, PutKeeps, LinkKinds, SameFilesReflexive
<1> QED BY <1>1, <1>4, SameFilesTransitive DEF f

\* The states of a rollback: one per stage, from the last to the first.
RollsBack(u, state, stages, some) ==
  /\ u[0] = state
  /\ \A k \in 1 .. Len(stages) :
       u[k] = IF Len(stages) + 1 - k \in some
              THEN Undone(u[k - 1], stages[Len(stages) + 1 - k]) ELSE u[k - 1]

\* A rollback goes through such states, to the last.
LEMMA RollbackStates ==
  ASSUME NEW state, NEW stages, stages \in Seq(Range(stages)), NEW some
  PROVE  \E u : RollsBack(u, state, stages, some) /\ Rollback(state, stages, some) = u[Len(stages)]
<1> DEFINE n == Len(stages)
           Body(h, k) == IF k = 0 THEN state
                         ELSE IF n + 1 - k \in some THEN Undone(h[k - 1], stages[n + 1 - k])
                                                    ELSE h[k - 1]
           E(m) == \E h : h = [k \in 0 .. m |-> Body(h, k)]
           undo == CHOOSE h : h = [k \in 0 .. n |-> Body(h, k)]
<1>1. n \in Nat
  OBVIOUS
<1>2. \A h1, h2, k : k = 0 \/ h1[k - 1] = h2[k - 1] => Body(h1, k) = Body(h2, k)
  OBVIOUS
<1>3. \A h : Body(h, 0) = state
  OBVIOUS
<1>4. \A h : \A k \in 1 .. n :
        Body(h, k) = IF n + 1 - k \in some THEN Undone(h[k - 1], stages[n + 1 - k]) ELSE h[k - 1]
  OBVIOUS
<1>5. Rollback(state, stages, some) = undo[n]
  BY Zenon DEF Rollback
<1> HIDE DEF n, Body
<1>6. \A m \in 0 .. n : E(m)
  <2> DEFINE bad == {m \in 0 .. n : ~E(m)}
  <2>1. ASSUME NEW m \in 0 .. n, m = 0 \/ E(m - 1) PROVE E(m)
    <3>1. CASE m = 0
      <4> DEFINE g == [k \in 0 .. 0 |-> Body(<< >>, k)]
      <4>1. \A k \in 0 .. 0 : Body(<< >>, k) = Body(g, k)
        <5> HIDE DEF g
        <5> QED BY <1>2
      <4>2. g = [k \in 0 .. 0 |-> Body(g, k)]
        BY <4>1, Zenon
      <4> HIDE DEF g
      <4> QED BY <3>1, <4>2
    <3>2. CASE m # 0
      <4>1. PICK h : h = [k \in 0 .. m - 1 |-> Body(h, k)]
        BY <2>1, <3>2
      <4> DEFINE g == [k \in 0 .. m |-> IF k = m THEN Body(h, m) ELSE h[k]]
      <4>2. \A k \in 0 .. m - 1 : g[k] = h[k]
        BY <1>1
      <4>3. \A k \in 0 .. m - 1 : h[k] = Body(h, k)
        BY <4>1, Zenon
      <4>4. ASSUME NEW k \in 0 .. m
            PROVE  g[k] = Body(g, k)
        <5>1. k = 0 \/ k - 1 \in 0 .. m - 1
          BY <1>1
        <5>2. Body(g, k) = Body(h, k)
          <6> HIDE DEF g
          <6> QED BY <1>2, <4>2, <5>1
        <5>3. CASE k = m
          BY <5>2, <5>3
        <5>4. CASE k # m
          <6>1. k \in 0 .. m - 1
            BY <1>1, <5>4
          <6> HIDE DEF g
          <6> QED BY <4>2, <4>3, <5>2, <6>1
        <5> QED BY <5>3, <5>4
      <4>5. g = [k \in 0 .. m |-> g[k]]
        OBVIOUS
      <4>6. g = [k \in 0 .. m |-> Body(g, k)]
        <5> HIDE DEF g
        <5> QED BY <4>4, <4>5
      <4> HIDE DEF g
      <4> QED BY <4>6
    <3> QED BY <3>1, <3>2
  <2>2. bad \in SUBSET Nat
    BY <1>1
  <2>3. ASSUME bad # {} PROVE FALSE
    <3>1. PICK m \in bad : \A k \in bad : m <= k
      <4> HIDE DEF bad
      <4> QED BY <2>2, <2>3, LeastNat
    <3>2. m \in 0 .. n /\ ~E(m)
      OBVIOUS
    <3> HIDE DEF E
    <3>3. m = 0 \/ E(m - 1)
      <4>1. m = 0 \/ m - 1 \in 0 .. n
        BY <1>1, <3>2
      <4>2. m = 0 \/ m - 1 \notin bad
        BY <1>1, <3>1, <3>2
      <4> QED BY <4>1, <4>2
    <3> QED BY <2>1, <3>2, <3>3
  <2> QED BY <2>3
<1>7. undo = [k \in 0 .. n |-> Body(undo, k)]
  <2>1. E(n)
    BY <1>1, <1>6
  <2> QED BY <2>1, Zenon
<1>8. \A k \in 0 .. n : undo[k] = Body(undo, k)
  <2> HIDE DEF undo
  <2> QED BY <1>7, Zenon
<1> HIDE DEF undo
<1>9. undo[0] = state /\ \A k \in 1 .. n :
        undo[k] = IF n + 1 - k \in some THEN Undone(undo[k - 1], stages[n + 1 - k]) ELSE undo[k - 1]
  <2>1. 0 \in 0 .. n /\ \A k \in 1 .. n : k \in 0 .. n
    BY <1>1
  <2> QED BY <1>3, <1>4, <1>8, <2>1, Zenon
<1>10. RollsBack(undo, state, stages, some)
  BY <1>9 DEF n, RollsBack
<1> QED BY <1>5, <1>10 DEF n

\* A rollback, however many stages it undoes, only moves links.
LEMMA RollbackKeeps ==
  ASSUME NEW state, NEW stages, stages \in Seq(Range(stages)), NEW some
  PROVE  SameFiles(state.fs, Rollback(state, stages, some).fs)
<1>1. PICK undo : RollsBack(undo, state, stages, some) /\ Rollback(state, stages, some) = undo[Len(stages)]
  BY RollbackStates
<1> DEFINE n == Len(stages)
<1>2. /\ n \in Nat /\ undo[0] = state /\ Rollback(state, stages, some) = undo[n]
      /\ \A k \in 1 .. n : undo[k] = IF n + 1 - k \in some
                                    THEN Undone(undo[k - 1], stages[n + 1 - k]) ELSE undo[k - 1]
  BY <1>1 DEF RollsBack
<1> HIDE DEF n
<1>3. ASSUME NEW k \in 1 .. n PROVE SameFiles(undo[k - 1].fs, undo[k].fs)
  BY <1>2, UndoneKeeps, SameFilesReflexive
<1>4. \A k \in 0 .. n : SameFiles(state.fs, undo[k].fs)
  <2> DEFINE bad == {k \in 0 .. n : ~SameFiles(state.fs, undo[k].fs)}
  <2>1. bad \in SUBSET Nat
    BY <1>2
  <2>2. ASSUME bad # {} PROVE FALSE
    <3>1. PICK m \in bad : \A k \in bad : m <= k
      <4> HIDE DEF bad
      <4> QED BY <2>1, <2>2, LeastNat
    <3>2. m \in 0 .. n /\ ~SameFiles(state.fs, undo[m].fs)
      OBVIOUS
    <3>3. m # 0
      BY <1>2, <3>2, SameFilesReflexive
    <3>4. m \in 1 .. n /\ m - 1 \in 0 .. n /\ ~(m <= m - 1)
      BY <1>2, <3>2, <3>3
    <3>5. SameFiles(state.fs, undo[m - 1].fs)
      BY <3>1, <3>4
    <3>6. SameFiles(undo[m - 1].fs, undo[m].fs)
      BY <1>3, <3>4
    <3> QED BY <3>2, <3>5, <3>6, SameFilesTransitive
  <2> QED BY <2>2
<1> QED BY <1>1, <1>2, <1>4

\* Links are staged among the directories they are in, and only where no file is.
LEMMA StagesOff ==
  ASSUME NEW f, NEW S, NEW hits \in Seq(S), NEW moves, NEW pol, NEW boards,
         \A h \in S : IsLink(f, h.link) /\ h.link[1] \notin Dests
  PROVE  LET stages == Stages(f, hits, moves, pol, boards)
         IN  Off(f, stages) /\ \A i \in DOMAIN stages : IsLink(f, stages[i].link)
<1> DEFINE stages  == Stages(f, hits, moves, pol, boards)
           sources == {h.link : h \in Range(hits)}
           want(h) == IF Mode(h, pol, boards) = "R" THEN Into(h.link[1], moves[h.subject])
                                                    ELSE h.link
           taken(h) == Taken(f, want(h), sources)
           there(h) == /\ taken(h) /\ IsLink(f, want(h))
                       /\ LeadsTo(f, want(h)) = LeadsTo(f, moves[h.subject])
           claim(h) == IF taken(h) THEN h.link ELSE want(h)
           owned(i) == \E j \in 1 .. i - 1 : ~there(hits[j]) /\ claim(hits[j]) = want(hits[i])
           dest(i)  == IF owned(i) \/ there(hits[i]) THEN None ELSE claim(hits[i])
<1>1. stages = [i \in DOMAIN hits |->
        [link |-> hits[i].link, to |-> f[hits[i].link].to,
         old  |-> hits[i].subject, text |-> moves[hits[i].subject], dest |-> dest(i)]]
  BY Zenon DEF Stages
<1>2. \A h \in Range(hits) : IsLink(f, h.link) /\ h.link[1] \notin Dests
  BY DEF Range
<1>3. ASSUME NEW h \in Range(hits) PROVE claim(h)[1] \notin Dests /\ claim(h) \notin Guarded(f)
  <2>1. h.link[1] \notin Dests /\ h.link \notin Guarded(f)
    BY <1>2 DEF IsLink, Guarded
  <2>2. want(h)[1] \notin Dests
    <3>1. Into(h.link[1], moves[h.subject])[1] = h.link[1]
      BY DEF Into
    <3> QED BY <2>1, <3>1
  <2> HIDE DEF want
  <2>3. CASE taken(h)
    BY <2>1, <2>3
  <2>4. CASE ~taken(h)
    <3>1. want(h) \in sources \/ ~Lexists(f, want(h))
      BY <2>4 DEF Taken
    <3>2. want(h) \notin Guarded(f)
      <4>1. CASE ~Lexists(f, want(h))
        BY <4>1 DEF Lexists, Guarded
      <4>2. CASE want(h) \in sources
        <5>1. PICK g \in Range(hits) : g.link = want(h)
          BY <4>2
        <5>2. IsLink(f, want(h))
          BY <1>2, <5>1
        <5> QED BY <5>2 DEF IsLink, Guarded
      <4> QED BY <3>1, <4>1, <4>2
    <3> QED BY <2>2, <2>4, <3>2
  <2> QED BY <2>3, <2>4
<1> HIDE DEF claim, owned, there
<1>4. \A i \in DOMAIN hits : dest(i) = None
         \/ (dest(i)[1] \notin Dests /\ dest(i) \notin Guarded(f))
  BY <1>3 DEF Range
<1> HIDE DEF dest, stages
<1>5. DOMAIN stages = DOMAIN hits
      /\ \A i \in DOMAIN hits : stages[i].link = hits[i].link /\ stages[i].dest = dest(i)
  BY <1>1
<1>6. stages \in Seq(Range(stages))
  <2>1. DOMAIN hits = 1 .. Len(hits) /\ Len(hits) \in Nat
    OBVIOUS
  <2>2. stages = [i \in 1 .. Len(hits) |-> stages[i]]
    BY <1>1, <2>1
  <2>3. \A i \in 1 .. Len(hits) : stages[i] \in Range(stages)
    BY <1>5, <2>1 DEF Range
  <2> QED BY <2>1, <2>2, <2>3
<1>7. \A i \in DOMAIN stages : IsLink(f, stages[i].link)
  BY <1>2, <1>5 DEF Range
<1>8. Off(f, stages)
  BY <1>4, <1>5, <1>6 DEF Off
<1> QED BY <1>7, <1>8 DEF stages

\* Staging removes and places links only (_MoveJob.stage).
LEMMA StagedKeeps ==
  ASSUME NEW f, NEW stages, Off(f, stages),
         \A i \in DOMAIN stages : IsLink(f, stages[i].link)
  PROVE  SameFiles(f, Staged(f, stages))
<1> DEFINE S == {s.link : s \in Range(stages)}
           g == Without(f, S)
<1>1. S \cap Guarded(f) = {}
  BY DEF Range, IsLink, Guarded
<1>2. SameFiles(f, g)
  <2> HIDE DEF S
  <2> QED BY <1>1, WithoutKeeps
<1>3. Staged(f, stages) = Linked(g, stages, DOMAIN stages, [i \in DOMAIN stages |-> stages[i].text])
  BY DEF Staged
<1> HIDE DEF g
<1>4. \A i \in DOMAIN stages : stages[i].dest = None \/ stages[i].dest \notin Guarded(g)
  BY <1>2 DEF Off, SameFiles
<1>5. SameFiles(g, Staged(f, stages))
  BY <1>3, <1>4, LinkedKeeps
<1> QED BY <1>2, <1>5, SameFilesTransitive

\* So does settling (_finish_staged).
LEMMA SettleKeeps ==
  ASSUME NEW f, NEW stages, Off(f, stages), NEW located
  PROVE  SameFiles(f, Settle(f, stages, located).fs)
<1> DEFINE found == {i \in DOMAIN stages : located[stages[i].old] # None}
           g == Linked(f, stages, found, [i \in found |-> located[stages[i].old]])
           state == [fs |-> g, aside |-> {}]
<1>1. Settle(f, stages, located) = Rollback(state, stages, DOMAIN stages \ found)
  BY DEF Settle
<1>2. SameFiles(f, g)
  <2>1. \A i \in found : stages[i].dest = None \/ stages[i].dest \notin Guarded(f)
    BY DEF Off
  <2> HIDE DEF found
  <2> QED BY <2>1, LinkedKeeps
<1>3. state.fs = g
  OBVIOUS
<1> HIDE DEF state, g, found
<1>4. SameFiles(g, Rollback(state, stages, DOMAIN stages \ found).fs)
  BY <1>3, RollbackKeeps DEF Off
<1> QED BY <1>1, <1>2, <1>4, SameFilesTransitive

\* The links left at the old places replace nothing.
LEMMA LeaveLinksKeeps ==
  ASSUME NEW f, NEW moves, NEW inos
  PROVE  SameFiles(f, LeaveLinks(f, moves, inos))
<1> DEFINE at  == [old \in DOMAIN moves |-> Locate(f, old, moves[old], inos[old])]
           top == [p \in {q \in DOMAIN moves : at[q] # None} |-> Link(at[p])]
<1>1. LeaveLinks(f, moves, inos) = Over(top, f)
  BY DEF LeaveLinks
<1>2. ASSUME NEW p \in DOMAIN top PROVE p \notin Guarded(f) /\ top[p].kind # "file"
  <2>1. p \in DOMAIN moves /\ at[p] # None
    OBVIOUS
  <2>2. Locate(f, p, moves[p], inos[p]) # None
    BY <2>1
  <2>3. ~Lexists(f, p)
    BY <2>2 DEF Locate
  <2>4. top[p] = Link(at[p])
    OBVIOUS
  <2> HIDE DEF top, at
  <2> QED BY <2>3, <2>4, LinkKinds DEF Lexists, Guarded
<1> HIDE DEF top
<1> QED BY <1>1, <1>2, OverKeeps

\* Files only go.
Fewer(f, g) == \A p \in Guarded(g) : p \in Guarded(f) /\ g[p] = f[p]

\* A file has one name.
OneName(f) == \A p, q \in Guarded(f) : f[p].ino = f[q].ino => p = q

LEMMA FewerOne ==
  ASSUME NEW f, NEW g, OneName(f), Fewer(f, g)
  PROVE  OneName(g)
BY DEF OneName, Fewer

LEMMA FewerTransitive ==
  ASSUME NEW f, NEW g, NEW h, Fewer(f, g), Fewer(g, h)
  PROVE  Fewer(f, h)
BY DEF Fewer

LEMMA SameFewer ==
  ASSUME NEW f, NEW g, SameFiles(f, g)
  PROVE  Fewer(f, g)
BY DEF SameFiles, Fewer

\* Links may replace files, but add none.
LEMMA LinkedFewer ==
  ASSUME NEW f, NEW stages, NEW some, NEW text
  PROVE  Fewer(f, Linked(f, stages, some, text))
<1> DEFINE at == {stages[i].dest : i \in some} \ {None}
           last(p) == Max({i \in some : stages[i].dest = p})
           top == [p \in at |-> Link(text[last(p)])]
<1>1. Linked(f, stages, some, text) = Over(top, f)
  BY DEF Linked
<1>2. \A p \in DOMAIN top : top[p].kind # "file"
  <2> HIDE DEF last, at
  <2> QED BY LinkKinds
<1> HIDE DEF top
<1> QED BY <1>1, <1>2 DEF Over, Fewer, Guarded

LEMMA WithoutFewer ==
  ASSUME NEW f, NEW S
  PROVE  Fewer(f, Without(f, S))
BY DEF Without, Restrict, Fewer, Guarded

LEMMA StagedFewer ==
  ASSUME NEW f, NEW stages
  PROVE  Fewer(f, Staged(f, stages))
<1> DEFINE g == Without(f, {s.link : s \in Range(stages)})
           text == [i \in DOMAIN stages |-> stages[i].text]
<1>1. Staged(f, stages) = Linked(g, stages, DOMAIN stages, text)
  BY DEF Staged
<1>2. Fewer(f, g)
  BY WithoutFewer
<1> HIDE DEF g, text
<1> QED BY <1>1, <1>2, LinkedFewer, FewerTransitive

LEMMA SettleFewer ==
  ASSUME NEW f, NEW stages, stages \in Seq(Range(stages)), NEW located
  PROVE  Fewer(f, Settle(f, stages, located).fs)
<1> DEFINE found == {i \in DOMAIN stages : located[stages[i].old] # None}
           g == Linked(f, stages, found, [i \in found |-> located[stages[i].old]])
           state == [fs |-> g, aside |-> {}]
<1>1. Settle(f, stages, located) = Rollback(state, stages, DOMAIN stages \ found)
  BY DEF Settle
<1>2. Fewer(f, g)
  <2> HIDE DEF found
  <2> QED BY LinkedFewer
<1>3. state.fs = g
  OBVIOUS
<1> HIDE DEF state, g, found
<1>4. Fewer(g, Rollback(state, stages, DOMAIN stages \ found).fs)
  BY <1>3, RollbackKeeps, SameFewer
<1> QED BY <1>1, <1>2, <1>4, FewerTransitive

\* A move gives a file another name, perhaps that of one that goes.
LEMMA MoveOne ==
  ASSUME NEW f, OneName(f), NEW p \in DOMAIN f, NEW to
  PROVE  OneName(Put(Without(f, {p}), to, f[p]))
<1> DEFINE w == Without(f, {p})
           g == Put(w, to, f[p])
<1>1. DOMAIN w = DOMAIN f \ {p} /\ \A q \in DOMAIN f \ {p} : w[q] = f[q]
  BY DEF Without, Restrict
<1> HIDE DEF w
<1>2. DOMAIN g = DOMAIN w \cup {to}
      /\ \A q \in DOMAIN w \cup {to} : g[q] = IF q = to THEN f[p] ELSE w[q]
  BY DEF Put
<1> HIDE DEF g
<1>3. ASSUME NEW q \in Guarded(g), NEW r \in Guarded(g), g[q].ino = g[r].ino PROVE q = r
  <2> DEFINE was(x) == IF x = to THEN p ELSE x
  <2>1. \A x \in Guarded(g) : was(x) \in Guarded(f) /\ f[was(x)] = g[x]
    BY <1>1, <1>2 DEF Guarded
  <2>2. was(q) = was(r)
    <3> HIDE DEF was
    <3> QED BY <1>3, <2>1 DEF OneName
  <2>3. \A x \in Guarded(g) : x # to => x # p
    BY <1>1, <1>2 DEF Guarded
  <2> QED BY <2>2, <2>3
<1> QED BY <1>3 DEF OneName, g, w

\* An entry that is none of the files adds none.
LEMMA PutFewer ==
  ASSUME NEW f, NEW p, NEW entry, ~(entry.kind = "file" /\ entry.ino \in Files)
  PROVE  Fewer(f, Put(f, p, entry))
BY DEF Put, Fewer, Guarded

\* The stages of some that have the destination of stage i all say the same.
Agree(stages, some, text, i, to) ==
  \A j \in some : stages[j].dest = stages[i].dest => text[j] = to

\* A link that is at p and leads to some place.
LeadsAt(f, p, to) == p \in DOMAIN f /\ f[p] = Link(to)

\* The last of the stages with one destination counts; where they agree, all do.
LEMMA LinkedWrites ==
  ASSUME NEW f, NEW stages, stages \in Seq(Range(stages)), NEW some \in SUBSET DOMAIN stages,
         NEW text, NEW i \in some, stages[i].dest # None, NEW to,
         Agree(stages, some, text, i, to)
  PROVE  LeadsAt(Linked(f, stages, some, text), stages[i].dest, to)
<1> DEFINE at == {stages[j].dest : j \in some} \ {None}
           last(p) == Max({j \in some : stages[j].dest = p})
           top == [p \in at |-> Link(text[last(p)])]
           q == stages[i].dest
           S == {j \in some : stages[j].dest = q}
<1>1. Linked(f, stages, some, text) = Over(top, f)
  BY DEF Linked
<1>2. q \in at /\ top[q] = Link(text[Max(S)])
  OBVIOUS
<1>3. Max(S) \in S
  <2> DEFINE n == Len(stages)
             R == {n - j : j \in S}
  <2>1. n \in Nat /\ DOMAIN stages = 1 .. n
    OBVIOUS
  <2>2. S \subseteq 1 .. n /\ i \in S
    BY <2>1
  <2> HIDE DEF S, n
  <2>3. R \in SUBSET Nat /\ R # {}
    BY <2>1, <2>2
  <2>4. PICK r \in R : \A m \in R : r <= m
    <3> HIDE DEF R
    <3> QED BY <2>3, LeastNat
  <2>5. PICK j \in S : r = n - j
    OBVIOUS
  <2>6. \A k \in S : j >= k
    <3>1. ASSUME NEW k \in S PROVE j >= k
      <4>1. n - k \in R
        OBVIOUS
      <4>2. n - j <= n - k
        BY <2>4, <2>5, <4>1
      <4>3. j \in Nat /\ k \in Nat
        BY <2>1, <2>2
      <4> QED BY <2>1, <4>2, <4>3
    <3> QED BY <3>1
  <2> QED BY <2>5, <2>6 DEF Max
<1>4. text[Max(S)] = to
  BY <1>3 DEF Agree
<1>5. DOMAIN top = at
  OBVIOUS
<1> HIDE DEF top, at, S
<1> QED BY <1>1, <1>2, <1>4, <1>5 DEF Over, LeadsAt

\* Every link is staged once.
OneEach(stages) ==
  /\ stages \in Seq(Range(stages))
  /\ \A i, j \in DOMAIN stages : stages[i].link = stages[j].link => i = j

\* What LinksAreBack says of a link, of a tree and the backups that stay aside.
Back(f, kept, stages, s) ==
  \/ IsLink(f, s.link) /\ f[s.link] = Link(s.to)
  \/ /\ \E b \in kept : b.link = s.link /\ b.to = s.to
     /\ \/ \E t \in Range(stages) : t # s /\ t.dest = s.link
        \/ Lexists(f, s.link) /\ (s.dest = s.link => f[s.link] # Link(s.text))
  \/ \E t \in Range(stages) : t # s /\ t.dest = s.link /\ t.text = s.to

\* What undoing a stage makes of its own link and of the others.
LEMMA UndoneDef ==
  ASSUME NEW state, NEW s
  PROVE  LET gone == IsLink(state.fs, s.dest) /\ state.fs[s.dest] = Link(s.text)
             next == Undone(state, s)
         IN  /\ state.aside \subseteq next.aside
             /\ \A p \in DOMAIN state.fs :
                  ~(gone /\ p = s.dest) => p \in DOMAIN next.fs /\ next.fs[p] = state.fs[p]
             /\ \/ IsLink(next.fs, s.link) /\ next.fs[s.link] = Link(s.to)
                \/ /\ [link |-> s.link, to |-> s.to] \in next.aside
                   /\ s.link \in DOMAIN next.fs /\ next.fs[s.link] = state.fs[s.link]
                   /\ s.link \in DOMAIN state.fs /\ ~(gone /\ s.link = s.dest)
<1> DEFINE gone == IsLink(state.fs, s.dest) /\ state.fs[s.dest] = Link(s.text)
           cleared == IF gone THEN Without(state.fs, {s.dest}) ELSE state.fs
           rec == [link |-> s.link, to |-> s.to]
<1>1. Undone(state, s) =
        IF Lexists(cleared, s.link)
        THEN [fs |-> cleared, aside |-> state.aside \cup {rec}]
        ELSE [fs |-> Put(cleared, s.link, Link(s.to)), aside |-> state.aside]
  BY Zenon DEF Undone
<1>2. /\ DOMAIN cleared = IF gone THEN DOMAIN state.fs \ {s.dest} ELSE DOMAIN state.fs
      /\ \A p \in DOMAIN cleared : cleared[p] = state.fs[p]
  <2>1. /\ DOMAIN Without(state.fs, {s.dest}) = DOMAIN state.fs \ {s.dest}
        /\ \A p \in DOMAIN state.fs \ {s.dest} : Without(state.fs, {s.dest})[p] = state.fs[p]
    BY DEF Without, Restrict
  <2> HIDE DEF gone
  <2> QED BY <2>1
<1> HIDE DEF gone, cleared, rec
<1>3. CASE Lexists(cleared, s.link)
  <2>1. Undone(state, s).fs = cleared /\ Undone(state, s).aside = state.aside \cup {rec}
    BY <1>1, <1>3
  <2> QED BY <1>2, <1>3, <2>1 DEF Lexists, gone, rec
<1>4. CASE ~Lexists(cleared, s.link)
  <2> DEFINE g == Put(cleared, s.link, Link(s.to))
  <2>1. Undone(state, s).fs = g /\ Undone(state, s).aside = state.aside
    BY <1>1, <1>4
  <2>2. /\ DOMAIN g = DOMAIN cleared \cup {s.link}
        /\ \A p \in DOMAIN cleared \cup {s.link} :
             g[p] = IF p = s.link THEN Link(s.to) ELSE cleared[p]
    BY DEF Put
  <2> HIDE DEF g
  <2>3. IsLink(g, s.link)
    BY <2>2, LinkKinds DEF IsLink
  <2>4. ASSUME NEW p \in DOMAIN state.fs
        PROVE  ~(gone /\ p = s.dest) => p \in DOMAIN g /\ g[p] = state.fs[p]
    BY <1>2, <1>4, <2>2 DEF Lexists
  <2> QED BY <2>1, <2>2, <2>3, <2>4 DEF gone
<1> QED BY <1>3, <1>4

\* A rollback leaves the links alone that are no replacements of what it undoes.
LEMMA UndoneLeaves ==
  ASSUME NEW state, NEW s, NEW p \in DOMAIN state.fs, s.dest # p
  PROVE  p \in DOMAIN Undone(state, s).fs /\ Undone(state, s).fs[p] = state.fs[p]
BY UndoneDef

LEMMA RollbackLeaves ==
  ASSUME NEW state, NEW stages, stages \in Seq(Range(stages)), NEW some, NEW p \in DOMAIN state.fs,
         \A i \in DOMAIN stages : i \in some => stages[i].dest # p
  PROVE  LET done == Rollback(state, stages, some)
         IN  p \in DOMAIN done.fs /\ done.fs[p] = state.fs[p]
<1>1. PICK undo : RollsBack(undo, state, stages, some) /\ Rollback(state, stages, some) = undo[Len(stages)]
  BY RollbackStates
<1> DEFINE n == Len(stages)
           there(k) == p \in DOMAIN undo[k].fs /\ undo[k].fs[p] = state.fs[p]
<1>2. /\ n \in Nat /\ DOMAIN stages = 1 .. n
      /\ undo[0] = state /\ Rollback(state, stages, some) = undo[n]
      /\ \A k \in 1 .. n : undo[k] = IF n + 1 - k \in some
                                    THEN Undone(undo[k - 1], stages[n + 1 - k]) ELSE undo[k - 1]
  BY <1>1 DEF RollsBack
<1> HIDE DEF n
<1>3. ASSUME NEW k \in 1 .. n, there(k - 1) PROVE there(k)
  <2>1. n + 1 - k \in DOMAIN stages
    BY <1>2
  <2>2. CASE n + 1 - k \in some
    <3>1. stages[n + 1 - k].dest # p
      BY <2>1, <2>2
    <3>2. undo[k] = Undone(undo[k - 1], stages[n + 1 - k])
      BY <1>2, <2>2
    <3> QED BY <1>3, <3>1, <3>2, UndoneLeaves
  <2>3. CASE n + 1 - k \notin some
    BY <1>2, <1>3, <2>3
  <2> QED BY <2>2, <2>3
<1>4. \A k \in 0 .. n : there(k)
  <2> DEFINE bad == {k \in 0 .. n : ~there(k)}
  <2>1. bad \in SUBSET Nat
    BY <1>2
  <2>2. ASSUME bad # {} PROVE FALSE
    <3>1. PICK m \in bad : \A k \in bad : m <= k
      <4> HIDE DEF bad
      <4> QED BY <2>1, <2>2, LeastNat
    <3>2. m \in 0 .. n /\ ~there(m)
      OBVIOUS
    <3>3. there(0)
      BY <1>2
    <3> HIDE DEF there
    <3>4. m \in 1 .. n /\ m - 1 \in 0 .. n /\ ~(m <= m - 1)
      BY <1>2, <3>2, <3>3
    <3>5. there(m - 1)
      BY <3>1, <3>4
    <3> QED BY <1>3, <3>2, <3>4, <3>5
  <2> QED BY <2>2
<1> QED BY <1>2, <1>4

\* A stage that is undone gives its link back (_MoveJob.undo).
LEMMA UndoneBack ==
  ASSUME NEW state, NEW stages, NEW s
  PROVE  Back(Undone(state, s).fs, Undone(state, s).aside, stages, s)
<1> DEFINE gone == IsLink(state.fs, s.dest) /\ state.fs[s.dest] = Link(s.text)
           rec == [link |-> s.link, to |-> s.to]
           next == Undone(state, s)
<1>1. \/ IsLink(next.fs, s.link) /\ next.fs[s.link] = Link(s.to)
      \/ /\ rec \in next.aside
         /\ s.link \in DOMAIN next.fs /\ next.fs[s.link] = state.fs[s.link]
         /\ s.link \in DOMAIN state.fs /\ ~(gone /\ s.link = s.dest)
  BY UndoneDef
<1>2. rec.link = s.link /\ rec.to = s.to
  OBVIOUS
<1> HIDE DEF next, rec
<1>3. s.link \in DOMAIN state.fs /\ s.dest = s.link /\ ~gone => state.fs[s.link] # Link(s.text)
  BY LinkKinds DEF IsLink
<1> HIDE DEF gone
<1> QED BY <1>1, <1>2, <1>3 DEF Back, Lexists, next

\* Undoing another stage takes nothing back, unless that one is confused with it.
LEMMA OthersStayBack ==
  ASSUME NEW state, NEW stages, NEW s \in Range(stages), NEW t \in Range(stages),
         t.link # s.link, Back(state.fs, state.aside, stages, s)
  PROVE  Back(Undone(state, t).fs, Undone(state, t).aside, stages, s)
<1> DEFINE gone == IsLink(state.fs, t.dest) /\ state.fs[t.dest] = Link(t.text)
           next == Undone(state, t)
<1>1. /\ state.aside \subseteq next.aside
      /\ \A p \in DOMAIN state.fs :
           ~(gone /\ p = t.dest) => p \in DOMAIN next.fs /\ next.fs[p] = state.fs[p]
  BY UndoneDef
<1>2. gone => state.fs[t.dest] = Link(t.text)
  OBVIOUS
<1> HIDE DEF next, gone
<1>3. t # s
  OBVIOUS
<1>4. CASE IsLink(state.fs, s.link) /\ state.fs[s.link] = Link(s.to)
  <2>1. CASE gone /\ s.link = t.dest
    <3>1. Link(s.to) = Link(t.text)
      BY <1>2, <1>4, <2>1
    <3>2. t.text = s.to
      BY <3>1 DEF Link
    <3> QED BY <1>3, <2>1, <3>2 DEF Back
  <2>2. CASE ~(gone /\ s.link = t.dest)
    <3>1. s.link \in DOMAIN next.fs /\ next.fs[s.link] = state.fs[s.link]
      BY <1>1, <1>4, <2>2 DEF IsLink
    <3>2. IsLink(next.fs, s.link)
      BY <1>4, <3>1 DEF IsLink
    <3> QED BY <1>4, <3>1, <3>2 DEF Back, next
  <2> QED BY <2>1, <2>2
<1>5. CASE /\ \E b \in state.aside : b.link = s.link /\ b.to = s.to
           /\ Lexists(state.fs, s.link) /\ (s.dest = s.link => state.fs[s.link] # Link(s.text))
  <2>1. \E b \in next.aside : b.link = s.link /\ b.to = s.to
    BY <1>1, <1>5
  <2>2. CASE s.link = t.dest
    BY <1>3, <2>1, <2>2 DEF Back, next
  <2>3. CASE s.link # t.dest
    <3>1. s.link \in DOMAIN next.fs /\ next.fs[s.link] = state.fs[s.link]
      BY <1>1, <1>5, <2>3 DEF Lexists
    <3> QED BY <1>5, <2>1, <3>1 DEF Back, Lexists, next
  <2> QED BY <2>2, <2>3
<1>6. CASE /\ \E b \in state.aside : b.link = s.link /\ b.to = s.to
           /\ \E r \in Range(stages) : r # s /\ r.dest = s.link
  <2>1. \E b \in next.aside : b.link = s.link /\ b.to = s.to
    BY <1>1, <1>6
  <2> QED BY <1>6, <2>1 DEF Back, next
<1>7. CASE \E r \in Range(stages) : r # s /\ r.dest = s.link /\ r.text = s.to
  BY <1>7 DEF Back
<1> QED BY <1>4, <1>5, <1>6, <1>7 DEF Back

\* A rollback gives every link back that it undoes, however the others get in the way.
LEMMA RollbackBack ==
  ASSUME NEW state, NEW stages, OneEach(stages), NEW some, NEW i \in DOMAIN stages, i \in some
  PROVE  LET done == Rollback(state, stages, some)
         IN  Back(done.fs, done.aside, stages, stages[i])
<1>0. PICK undo : RollsBack(undo, state, stages, some) /\ Rollback(state, stages, some) = undo[Len(stages)]
  BY RollbackStates DEF OneEach
<1> DEFINE n == Len(stages)
           s == stages[i]
<1>1. n \in Nat /\ DOMAIN stages = 1 .. n
  BY DEF OneEach
<1>2. /\ undo[0] = state /\ Rollback(state, stages, some) = undo[n]
      /\ \A k \in 1 .. n : undo[k] = IF n + 1 - k \in some
                                    THEN Undone(undo[k - 1], stages[n + 1 - k]) ELSE undo[k - 1]
  BY <1>0 DEF RollsBack
<1> HIDE DEF n
<1> DEFINE B(k) == Back(undo[k].fs, undo[k].aside, stages, s)
           bad  == {k \in 0 .. n : n + 1 - i <= k /\ ~B(k)}
<1>3. i \in 1 .. n /\ n + 1 - i \in 1 .. n /\ n + 1 - (n + 1 - i) = i
  BY <1>1
<1>4. B(n + 1 - i)
  <2> DEFINE m == n + 1 - i
  <2>1. m \in 1 .. n /\ n + 1 - m = i
    BY <1>3
  <2> HIDE DEF m
  <2>2. undo[m] = Undone(undo[m - 1], stages[i])
    BY <1>2, <2>1
  <2>3. B(m)
    BY <2>2, UndoneBack
  <2> HIDE DEF B
  <2> QED BY <2>3 DEF m
<1>5. ASSUME NEW k \in 1 .. n, n + 1 - i < k, B(k - 1) PROVE B(k)
  <2>1. n + 1 - k \in 1 .. n /\ n + 1 - k # i
    BY <1>1, <1>3, <1>5
  <2>2. stages[n + 1 - k] \in Range(stages) /\ s \in Range(stages)
    BY <1>1, <2>1 DEF Range
  <2>3. stages[n + 1 - k].link # s.link
    BY <1>1, <2>1 DEF OneEach
  <2> HIDE DEF s
  <2>4. Back(Undone(undo[k - 1], stages[n + 1 - k]).fs, Undone(undo[k - 1], stages[n + 1 - k]).aside,
             stages, s)
    BY <1>5, <2>2, <2>3, OthersStayBack
  <2> QED BY <1>2, <1>5, <2>4
<1>6. bad = {}
  <2>1. bad \in SUBSET Nat
    BY <1>1
  <2>2. ASSUME bad # {} PROVE FALSE
    <3>1. PICK m \in bad : \A k \in bad : m <= k
      <4> HIDE DEF bad
      <4> QED BY <2>1, <2>2, LeastNat
    <3>2. m \in 0 .. n /\ n + 1 - i <= m /\ ~B(m)
      OBVIOUS
    <3> HIDE DEF B
    <3>3. m # n + 1 - i
      BY <1>4, <3>2
    <3>4. m \in 1 .. n /\ m - 1 \in 0 .. n /\ ~(m <= m - 1) /\ n + 1 - i <= m - 1 /\ n + 1 - i < m
      BY <1>1, <1>3, <3>2, <3>3
    <3>5. m - 1 \notin bad
      BY <3>1, <3>4
    <3>6. B(m - 1)
      BY <3>4, <3>5
    <3> QED BY <1>5, <3>2, <3>4, <3>6
  <2> QED BY <2>2
<1>7. B(n)
  <2>1. n \in 0 .. n /\ n + 1 - i <= n
    BY <1>1, <1>3
  <2> HIDE DEF B
  <2> QED BY <1>6, <2>1
<1> QED BY <1>2, <1>7

\* A link is left at an old place only where nothing is.
LEMMA LeaveLinksOnly ==
  ASSUME NEW f, NEW moves, NEW inos, NEW p \in DOMAIN f
  PROVE  p \in DOMAIN LeaveLinks(f, moves, inos) /\ LeaveLinks(f, moves, inos)[p] = f[p]
<1> DEFINE at  == [old \in DOMAIN moves |-> Locate(f, old, moves[old], inos[old])]
           top == [q \in {r \in DOMAIN moves : at[r] # None} |-> Link(at[q])]
<1>1. LeaveLinks(f, moves, inos) = Over(top, f)
  BY DEF LeaveLinks
<1>2. p \notin DOMAIN top
  <2>1. p \in DOMAIN moves => at[p] = None
    <3>1. Locate(f, p, moves[p], inos[p]) = None
      BY DEF Locate, Lexists
    <3> QED BY <3>1
  <2> HIDE DEF at
  <2> QED BY <2>1
<1> HIDE DEF top
<1> QED BY <1>1, <1>2 DEF Over

\* The settled tree, and the links left at old places, give back what did not move.
LEMMA SettleBack ==
  ASSUME NEW f, NEW stages, OneEach(stages), NEW located, NEW moves, NEW inos,
         NEW i \in DOMAIN stages, located[stages[i].old] = None
  PROVE  LET done == Settle(f, stages, located)
         IN  Back(LeaveLinks(done.fs, moves, inos), done.aside, stages, stages[i])
<1> DEFINE found == {j \in DOMAIN stages : located[stages[j].old] # None}
           state == [fs |-> Linked(f, stages, found, [j \in found |-> located[stages[j].old]]),
                     aside |-> {}]
           done == Settle(f, stages, located)
           s == stages[i]
<1>1. done = Rollback(state, stages, DOMAIN stages \ found)
  BY DEF Settle
<1>2. i \in DOMAIN stages \ found
  OBVIOUS
<1> HIDE DEF done, state, found
<1>3. Back(done.fs, done.aside, stages, s)
  BY <1>1, <1>2, RollbackBack
<1> DEFINE g == LeaveLinks(done.fs, moves, inos)
<1>4. \A p \in DOMAIN done.fs : p \in DOMAIN g /\ g[p] = done.fs[p]
  BY LeaveLinksOnly
<1> HIDE DEF g, s
<1> QED BY <1>3, <1>4 DEF Back, IsLink, Lexists, g, s, done

\* A dashboard has links only, and only its stale links go.
LEMMA DashboardKeeps ==
  ASSUME NEW hits, NEW dir
  PROVE  SameFiles(fs, Dashboard(hits, dir))
<1> DEFINE wanted == {Into(dir, h.link) : h \in hits}
           stale  == {p \in DOMAIN fs \ wanted : p[1] = dir /\ IsLink(fs, p)}
           board  == [p \in wanted |-> Link((CHOOSE h \in hits : Into(dir, h.link) = p).link)]
           g      == Without(fs, stale)
<1>1. Dashboard(hits, dir) = Over(g, board)
  BY DEF Dashboard
<1>2. stale \cap Guarded(fs) = {}
  BY DEF IsLink, Guarded
<1>3. SameFiles(fs, g)
  <2> HIDE DEF stale
  <2> QED BY <1>2, WithoutKeeps
<1>4. \A p \in DOMAIN board : board[p].kind # "file"
  BY LinkKinds
<1> HIDE DEF board, g
<1>5. SameFiles(g, Over(g, board))
  BY <1>4, UnderKeeps
<1> QED BY <1>1, <1>3, <1>5, SameFilesTransitive

\* Pasted links, however many, come where nothing is.
LEMMA SymlinkedKeeps ==
  ASSUME NEW tree, NEW S, NEW order \in Seq(S), NEW dest
  PROVE  SameFiles(tree, Symlinked(tree, order, dest))
<1> DEFINE n == Len(order)
           Body(h, k) == IF k = 0 THEN tree
                         ELSE Add(h[k - 1], SafePath(h[k - 1], Into(dest, order[k]), {}), Link(order[k]))
           E(m) == \E h : h = [k \in 0 .. m |-> Body(h, k)]
           made == CHOOSE h : h = [k \in 0 .. n |-> Body(h, k)]
<1>1. n \in Nat
  OBVIOUS
<1>2. \A h1, h2, k : k = 0 \/ h1[k - 1] = h2[k - 1] => Body(h1, k) = Body(h2, k)
  OBVIOUS
<1>3. \A h : SameFiles(tree, Body(h, 0))
  BY SameFilesReflexive
<1>4. ASSUME NEW h, NEW k \in 1 .. n
      PROVE  SameFiles(h[k - 1], Body(h, k))
  BY AddKeeps
<1>5. Symlinked(tree, order, dest) = made[n]
  BY Zenon DEF Symlinked
<1> HIDE DEF n, Body
<1>6. \A m \in 0 .. n : E(m)
  <2> DEFINE bad == {m \in 0 .. n : ~E(m)}
  <2>1. ASSUME NEW m \in 0 .. n, m = 0 \/ E(m - 1) PROVE E(m)
    <3>1. CASE m = 0
      <4> DEFINE g == [k \in 0 .. 0 |-> Body(<< >>, k)]
      <4>1. \A k \in 0 .. 0 : Body(<< >>, k) = Body(g, k)
        <5> HIDE DEF g
        <5> QED BY <1>2
      <4>2. g = [k \in 0 .. 0 |-> Body(g, k)]
        BY <4>1, Zenon
      <4> HIDE DEF g
      <4> QED BY <3>1, <4>2
    <3>2. CASE m # 0
      <4>1. PICK h : h = [k \in 0 .. m - 1 |-> Body(h, k)]
        BY <2>1, <3>2
      <4> DEFINE g == [k \in 0 .. m |-> IF k = m THEN Body(h, m) ELSE h[k]]
      <4>2. \A k \in 0 .. m - 1 : g[k] = h[k]
        BY <1>1
      <4>3. \A k \in 0 .. m - 1 : h[k] = Body(h, k)
        BY <4>1, Zenon
      <4>4. ASSUME NEW k \in 0 .. m
            PROVE  g[k] = Body(g, k)
        <5>1. k = 0 \/ k - 1 \in 0 .. m - 1
          BY <1>1
        <5>2. Body(g, k) = Body(h, k)
          <6> HIDE DEF g
          <6> QED BY <1>2, <4>2, <5>1
        <5>3. CASE k = m
          BY <5>2, <5>3
        <5>4. CASE k # m
          <6>1. k \in 0 .. m - 1
            BY <1>1, <5>4
          <6> HIDE DEF g
          <6> QED BY <4>2, <4>3, <5>2, <6>1
        <5> QED BY <5>3, <5>4
      <4>5. g = [k \in 0 .. m |-> g[k]]
        OBVIOUS
      <4>6. g = [k \in 0 .. m |-> Body(g, k)]
        <5> HIDE DEF g
        <5> QED BY <4>4, <4>5
      <4> HIDE DEF g
      <4> QED BY <4>6
    <3> QED BY <3>1, <3>2
  <2>2. bad \in SUBSET Nat
    BY <1>1
  <2>3. ASSUME bad # {} PROVE FALSE
    <3>1. PICK m \in bad : \A k \in bad : m <= k
      <4> HIDE DEF bad
      <4> QED BY <2>2, <2>3, LeastNat
    <3>2. m \in 0 .. n /\ ~E(m)
      OBVIOUS
    <3> HIDE DEF E
    <3>3. m = 0 \/ E(m - 1)
      <4>1. m = 0 \/ m - 1 \in 0 .. n
        BY <1>1, <3>2
      <4>2. m = 0 \/ m - 1 \notin bad
        BY <1>1, <3>1, <3>2
      <4> QED BY <4>1, <4>2
    <3> QED BY <2>1, <3>2, <3>3
  <2> QED BY <2>3
<1>7. made = [k \in 0 .. n |-> Body(made, k)]
  <2>1. E(n)
    BY <1>1, <1>6
  <2> QED BY <2>1, Zenon
<1>8. \A k \in 0 .. n : made[k] = Body(made, k)
  <2> HIDE DEF made
  <2> QED BY <1>7, Zenon
<1> HIDE DEF made
<1>9. \A k \in 0 .. n : SameFiles(tree, made[k])
  <2> DEFINE bad == {k \in 0 .. n : ~SameFiles(tree, made[k])}
  <2>1. bad \in SUBSET Nat
    BY <1>1
  <2>2. ASSUME bad # {} PROVE FALSE
    <3>1. PICK m \in bad : \A k \in bad : m <= k
      <4> HIDE DEF bad
      <4> QED BY <2>1, <2>2, LeastNat
    <3>2. m \in 0 .. n /\ ~SameFiles(tree, made[m])
      OBVIOUS
    <3>3. m # 0
      BY <1>3, <1>8, <3>2
    <3>4. m \in 1 .. n /\ m - 1 \in 0 .. n /\ ~(m <= m - 1)
      BY <1>1, <3>2, <3>3
    <3>5. SameFiles(tree, made[m - 1])
      BY <3>1, <3>4
    <3>6. SameFiles(made[m - 1], made[m])
      BY <1>4, <1>8, <3>2, <3>4
    <3> QED BY <3>2, <3>5, <3>6, SameFilesTransitive
  <2> QED BY <2>2
<1> QED BY <1>1, <1>5, <1>9

-----------------------------------------------------------------------------
(* Steps that move files. *)

\* Every file is still somewhere.
KeepsAll(f, g) == \A p \in Guarded(f) : \E q \in Guarded(g) : g[q] = f[p]

\* Files that are where they were are kept, and none is new.
LEMMA SameFilesSteps ==
  ASSUME NEW f, NEW g, SameFiles(f, g)
  PROVE  Adds(f, g) /\ KeepsAll(f, g)
BY DEF SameFiles, Adds, KeepsAll

\* New places of files over two changes are in the destinations.
LEMMA AddsTransitive ==
  ASSUME NEW f, NEW g, NEW h, Adds(f, g), Adds(g, h)
  PROVE  Adds(f, h)
BY DEF Adds

\* What is kept over two changes is kept over both.
LEMMA KeepsAllTransitive ==
  ASSUME NEW f, NEW g, NEW h, KeepsAll(f, g), KeepsAll(g, h)
  PROVE  KeepsAll(f, h)
<1>1. ASSUME NEW p \in Guarded(f) PROVE \E r \in Guarded(h) : h[r] = f[p]
  <2>1. PICK q \in Guarded(g) : g[q] = f[p]
    BY DEF KeepsAll
  <2>2. PICK r \in Guarded(h) : h[r] = g[q]
    BY DEF KeepsAll
  <2> QED BY <2>1, <2>2
<1> QED BY <1>1 DEF KeepsAll

\* What is true of a loader stays true when files come only where it will not put links.
LEMMA LoaderOKKept ==
  ASSUME NEW f, NEW g, Adds(f, g), NEW me, LoaderOK(f, me)
  PROVE  LoaderOK(g, me)
BY DEF LoaderOK, Off, Adds

\* The same of the stages alone.
LEMMA OffKept ==
  ASSUME NEW f, NEW g, Adds(f, g), NEW stages, Off(f, stages)
  PROVE  Off(g, stages)
BY DEF Off, Adds

\* A move of what is at p onto to, where none of the files is.
LEMMA MoveKeeps ==
  ASSUME NEW f, NEW p \in DOMAIN f, NEW to \in Path, to[1] \in Dests
  PROVE  LET g == Put(Without(f, {p}), to, f[p])
         IN  /\ Adds(f, g)
             /\ \A q \in Guarded(f) \ ({to} \ {p}) : \E r \in Guarded(g) : g[r] = f[q]
<1> DEFINE w == Without(f, {p})
           g == Put(w, to, f[p])
<1>1. DOMAIN w = DOMAIN f \ {p} /\ \A q \in DOMAIN f \ {p} : w[q] = f[q]
  BY DEF Without, Restrict
<1> HIDE DEF w
<1>2. DOMAIN g = DOMAIN w \cup {to}
      /\ \A q \in DOMAIN w \cup {to} : g[q] = IF q = to THEN f[p] ELSE w[q]
  BY DEF Put
<1> HIDE DEF g
<1>3. Adds(f, g)
  BY <1>1, <1>2 DEF Adds, Guarded
<1>4. ASSUME NEW q \in Guarded(f) \ ({to} \ {p}) PROVE \E r \in Guarded(g) : g[r] = f[q]
  <2>1. CASE q = p
    <3>1. to \in DOMAIN g /\ g[to] = f[q]
      BY <1>2, <2>1
    <3>2. to \in Guarded(g)
      BY <3>1 DEF Guarded
    <3> QED BY <3>1, <3>2
  <2>2. CASE q # p
    <3>1. q \in DOMAIN g /\ g[q] = f[q]
      BY <1>1, <1>2, <2>2 DEF Guarded
    <3>2. q \in Guarded(g)
      BY <3>1 DEF Guarded
    <3> QED BY <3>1, <3>2
  <2> QED BY <2>1, <2>2
<1> QED BY <1>3, <1>4 DEF g, w

\* A path into a destination is a path.
LEMMA IntoPath ==
  ASSUME NEW p \in Path, NEW dest \in Dests
  PROVE  Into(dest, p) \in Path /\ Into(dest, p)[1] = dest
<1>1. p[2] \in Base /\ p[3] \in 0 .. MaxSafe
  BY DEF Path
<1>2. dest \in Dir
  BY PasteAssumption
<1> QED BY <1>1, <1>2 DEF Into, Path

\* A loader's step loses a file only by overwriting.
LEMMA MovedKeeps ==
  ASSUME NEW me, NEW p \in Path, p \in DOMAIN fs, me.dest \in Dests,
         me.kind \in {"move", "copy"}, ~me.over => SafeLeft(fs, Into(me.dest, p))
  PROVE  /\ Adds(fs, Moved(me, p))
         /\ \A q \in Guarded(fs) : \/ me.over /\ q = Into(me.dest, p)
                                   \/ \E r \in Guarded(Moved(me, p)) : Moved(me, p)[r] = fs[q]
<1> DEFINE to == IF me.over THEN Into(me.dest, p) ELSE SafePath(fs, Into(me.dest, p), {})
           g  == Moved(me, p)
<1>1. to \in Path /\ to[1] \in Dests /\ (~me.over => to \notin Guarded(fs))
  BY IntoPath, SafeIsFree
<1>2. me.over => to = Into(me.dest, p)
  OBVIOUS
<1>3. /\ me.kind = "move" => g = Put(Without(fs, {p}), to, fs[p])
      /\ me.kind = "copy" /\ IsLink(fs, p) => g = Put(fs, to, fs[p])
      /\ me.kind = "copy" /\ ~IsLink(fs, p) => g = Add(fs, LeadsTo(fs, to), File(CopyIno))
  <2>1. g = LET at == LeadsTo(fs, to)
            IN  CASE me.kind = "move"                  -> Put(Without(fs, {p}), to, fs[p])
                  [] me.kind = "copy" /\ IsLink(fs, p)  -> Put(fs, to, fs[p])
                  [] me.kind = "copy" /\ ~IsLink(fs, p) -> Add(fs, at, File(CopyIno))
    BY Zenon DEF Moved
  <2> HIDE DEF g, to
  <2> QED BY <2>1
<1> HIDE DEF g, to
<1>4. CASE me.kind = "move"
  <2>1. /\ Adds(fs, g)
        /\ \A q \in Guarded(fs) \ ({to} \ {p}) : \E r \in Guarded(g) : g[r] = fs[q]
    BY <1>1, <1>3, <1>4, MoveKeeps
  <2> QED BY <1>1, <1>2, <2>1 DEF g
<1>5. CASE me.kind = "copy" /\ IsLink(fs, p)
  <2>1. fs[p].kind # "file"
    BY <1>5 DEF IsLink
  <2>2. /\ DOMAIN g = DOMAIN fs \cup {to}
        /\ \A q \in DOMAIN fs \cup {to} : g[q] = IF q = to THEN fs[p] ELSE fs[q]
    BY <1>3, <1>5 DEF Put
  <2>3. Adds(fs, g)
    BY <2>1, <2>2 DEF Adds, Guarded
  <2>4. \A q \in Guarded(fs) : q # to => q \in Guarded(g) /\ g[q] = fs[q]
    BY <2>2 DEF Guarded
  <2> QED BY <1>1, <1>2, <2>3, <2>4 DEF g
<1>6. CASE me.kind = "copy" /\ ~IsLink(fs, p)
  <2> DEFINE at == LeadsTo(fs, to)
  <2>1. g = IF Lexists(fs, at) THEN fs ELSE Put(fs, at, File(CopyIno))
    BY <1>3, <1>6 DEF Add
  <2> HIDE DEF at
  <2>2. CASE Lexists(fs, at)
    BY <2>1, <2>2 DEF Adds, g
  <2>3. CASE ~Lexists(fs, at)
    <3>1. /\ DOMAIN g = DOMAIN fs \cup {at}
          /\ \A q \in DOMAIN fs \cup {at} : g[q] = IF q = at THEN File(CopyIno) ELSE fs[q]
      BY <2>1, <2>3 DEF Put
    <3>2. File(CopyIno).ino \notin Files /\ at \notin DOMAIN fs
      BY <2>3, PasteAssumption DEF File, Lexists
    <3>3. Adds(fs, g)
      BY <3>1, <3>2 DEF Adds, Guarded
    <3>4. \A q \in Guarded(fs) : q \in Guarded(g) /\ g[q] = fs[q]
      BY <3>1, <3>2 DEF Guarded
    <3> QED BY <3>3, <3>4 DEF g
  <2> QED BY <2>2, <2>3
<1> QED BY <1>4, <1>5, <1>6

-----------------------------------------------------------------------------
(* Staging and settling, as the actions do them. *)

\* There are finitely many hits, all links in the directories searched.
LEMMA HitsLinks ==
  ASSUME NEW f, NEW subjects, NEW dirs
  PROVE  /\ IsFiniteSet(Hits(f, subjects, dirs))
         /\ \A h \in Hits(f, subjects, dirs) : IsLink(f, h.link) /\ h.link[1] \in dirs
<1> DEFINE at(p) == {n \in 1 .. MaxHops : Hops(f, p)[n] \in subjects}
           S == {q \in DOMAIN f \cap Path : q[1] \in dirs /\ IsLink(f, q) /\ at(q) # {}}
           hit(p) == [link |-> p, subject |-> Hops(f, p)[Min(at(p))], direct |-> Min(at(p)) = 1]
           F == [p \in S |-> hit(p)]
<1>1. Hits(f, subjects, dirs) = {hit(p) : p \in S}
  BY Zenon DEF Hits
<1>2. IsFiniteSet(S)
  BY PathFinite, FS_Subset
<1>3. \A p \in S : p[1] \in dirs /\ IsLink(f, p)
  OBVIOUS
<1>4. \A p : hit(p).link = p
  OBVIOUS
<1> HIDE DEF hit, S
<1>5. {hit(p) : p \in S} = {F[p] : p \in S}
  OBVIOUS
<1>6. IsFiniteSet({F[p] : p \in S})
  <2> HIDE DEF F
  <2> QED BY <1>2, FiniteImage
<1> HIDE DEF F
<1>7. IsFiniteSet(Hits(f, subjects, dirs))
  BY <1>1, <1>5, <1>6
<1>8. \A h \in Hits(f, subjects, dirs) : IsLink(f, h.link) /\ h.link[1] \in dirs
  BY <1>1, <1>3, <1>4
<1> QED BY <1>7, <1>8

\* Whatever the links and the answers, staging loses nothing.
LEMMA StagingKeeps ==
  ASSUME LinksElsewhere, NEW f, NEW subjects,
         NEW S \in SUBSET Hits(f, subjects, Roots \cup Dashboards), NEW moves,
         NEW hits \in Orders(S, moves), NEW to, NEW pol, NEW boards
  PROVE  LET stages == Stages(f, hits, to, pol, boards)
         IN  Off(f, stages) /\ SameFiles(f, Staged(f, stages))
<1>1. IsFiniteSet(S) /\ \A h \in S : IsLink(f, h.link) /\ h.link[1] \in Roots \cup Dashboards
  BY HitsLinks, FS_Subset
<1>2. \A h \in S : IsLink(f, h.link) /\ h.link[1] \notin Dests
  BY <1>1 DEF LinksElsewhere
<1>3. hits \in Seq(S)
  BY <1>1, OrderIsSeq DEF Orders
<1> DEFINE stages == Stages(f, hits, to, pol, boards)
<1>4. Off(f, stages) /\ \A i \in DOMAIN stages : IsLink(f, stages[i].link)
  BY <1>2, <1>3, StagesOff
<1> HIDE DEF stages
<1>5. SameFiles(f, Staged(f, stages))
  BY <1>4, StagedKeeps
<1> QED BY <1>4, <1>5 DEF stages

\* Only hits are worked off.
LEMMA WorkOfHits ==
  ASSUME NEW hits, NEW pol, NEW boards
  PROVE  Work(hits, pol, boards) \in SUBSET hits
BY DEF Work

\* A launched loader is in order.
LEMMA LaunchedOK ==
  ASSUME NEW kind, NEW order, NEW q, NEW job, Launch(kind, order, q, job), NEW f,
         \A l \in Loader : LoaderOK(f, loader[l]),
         LoaderOK(f, [job EXCEPT !.kind = kind, !.dest = q.dest, !.over = q.over, !.todo = order,
                                 !.olds = q.olds, !.shares = (kind = "move"), !.before = At(q.dest)])
  PROVE  \A l \in Loader' : LoaderOK(f, loader'[l])
<1> DEFINE m == Min(Unused)
           J == [job EXCEPT !.kind = kind, !.dest = q.dest, !.over = q.over, !.todo = order,
                            !.olds = q.olds, !.shares = (kind = "move"), !.before = At(q.dest)]
<1>1. loader' = [loader EXCEPT ![m] = J]
  BY Zenon DEF Launch
<1> HIDE DEF J, m
<1>2. \A l \in DOMAIN loader' : l \in Loader /\ (loader'[l] = J \/ loader'[l] = loader[l])
  BY <1>1 DEF Loader
<1> QED BY <1>2 DEF J, Loader

\* A paste that moves: staging keeps the files, and the loader it makes is sound.
LEMMA GoMoveKeeps ==
  ASSUME PasteInv, LinksElsewhere, NEW q, NEW pol, q.olds \subseteq Path, q.dest \in Dests,
         GoMove(q, pol)
  PROVE  /\ SameFiles(fs, fs') /\ buffer' = buffer /\ cursor' = cursor
         /\ \A l \in Loader' : LoaderOK(fs', loader'[l])
<1> DEFINE active(order) == SelectSeq(order, LAMBDA p : pol[p] \in {"U", "R"})
           moves(order)  == Predict(fs, active(order), q.dest, q.over)
           asked(order)  == Work(Hits(fs, Range(active(order)), Roots \cup Dashboards), pol, Dashboards)
           stages(order, hits) == Stages(fs, hits, moves(order), pol, Dashboards)
           job(order, hits) ==
             [NoJob EXCEPT !.moves = moves(order), !.inos = Inos(Range(active(order))),
                !.stages = stages(order, hits), !.links = asked(order),
                !.leave = IF q.leave THEN Predict(fs, order, q.dest, q.over) ELSE << >>,
                !.leaveInos = IF q.leave THEN Inos(q.olds) ELSE << >>]
<1>1. PICK order, busy, hits :
        /\ order \in SetToSeqs(q.olds)
        /\ hits \in Orders(IF busy THEN {} ELSE asked(order), moves(order))
        /\ fs' = Staged(fs, stages(order, hits))
        /\ Launch("move", IF q.olds \subseteq buffer THEN order ELSE << >>, q, job(order, hits))
        /\ UNCHANGED <<buffer, aside, jump, cursor, faults>>
  BY Zenon DEF GoMove
<1> DEFINE S == IF busy THEN {} ELSE asked(order)
<1>2. S \in SUBSET Hits(fs, Range(active(order)), Roots \cup Dashboards)
  <2> HIDE DEF active
  <2> QED BY WorkOfHits
<1>3. Off(fs, stages(order, hits)) /\ SameFiles(fs, fs')
  <2> HIDE DEF S, active, moves
  <2> QED BY <1>1, <1>2, StagingKeeps DEF S
<1>4. order \in Seq(Path)
  <2>1. IsFiniteSet(q.olds)
    BY PathFinite, FS_Subset
  <2>2. order \in Seq(q.olds)
    BY <1>1, <2>1, OrderIsSeq
  <2> QED BY <2>2, SeqOfMore
<1> DEFINE todo == IF q.olds \subseteq buffer THEN order ELSE << >>
           J == [job(order, hits) EXCEPT !.kind = "move", !.dest = q.dest, !.over = q.over,
                   !.todo = todo, !.olds = q.olds, !.shares = ("move" = "move"), !.before = At(q.dest)]
<1>5. Off(fs', stages(order, hits))
  BY <1>3, OffKept, SameFilesSteps
<1>6. J.st = "queued" /\ J.kind = "move" /\ J.dest = q.dest /\ J.todo = todo
      /\ J.stages = stages(order, hits) /\ J.held = << >> /\ DOMAIN J = DOMAIN NoJob
  <2> HIDE DEF stages, moves, asked, active, todo
  <2> QED BY DEF NoJob
<1>7. todo \in Seq(Path)
  BY <1>4
<1>8. LoaderOK(fs', J)
  <2> HIDE DEF J, stages, todo
  <2> QED BY <1>5, <1>6, <1>7 DEF LoaderOK
<1>9. \A l \in Loader : LoaderOK(fs', loader[l])
  BY <1>3, LoaderOKKept, SameFilesSteps DEF PasteInv
<1>10. \A l \in Loader' : LoaderOK(fs', loader'[l])
  <2> HIDE DEF job, todo
  <2> QED BY <1>1, <1>8, <1>9, LaunchedOK DEF todo
<1> QED BY <1>1, <1>3, <1>10

\* The jobs of the guards at the end of a paste keep the files.
LEMMA FinishKeeps ==
  ASSUME PasteInv, NEW l \in Loader, loader[l].st \in {"queued", "running"}, Finish(l)
  PROVE  /\ SameFiles(fs, fs')
         /\ \A k \in Loader' : LoaderOK(fs', loader'[k])
<1> DEFINE me == loader[l]
           located(back) == [o \in {s.old : s \in Range(me.stages)} |->
                               Locate(back, o, me.moves[o], me.inos[o])]
<1>1. PICK back, done :
        /\ back = PutBack(fs, me.held) /\ done = Settle(back, me.stages, located(back))
        /\ fs' = LeaveLinks(done.fs, me.leave, me.leaveInos)
        /\ Leave(l)
  BY Zenon DEF Finish
<1>2. LoaderOK(fs, me)
  BY DEF PasteInv
<1>3. SameFiles(fs, back)
  BY <1>1, <1>2, UnderKeeps DEF LoaderOK, PutBack
<1>4. Off(back, me.stages)
  <2>1. Off(fs, me.stages)
    BY <1>2 DEF LoaderOK
  <2> QED BY <1>3, <2>1, OffKept, SameFilesSteps
<1>5. SameFiles(back, done.fs)
  <2> HIDE DEF located, me
  <2> QED BY <1>1, <1>4, SettleKeeps
<1>6. SameFiles(done.fs, fs')
  BY <1>1, LeaveLinksKeeps
<1>7. SameFiles(fs, fs')
  BY <1>3, <1>5, <1>6, SameFilesTransitive
<1>8. \A k \in Loader' : k \in Loader /\ (loader'[k].st = "done" \/ loader'[k] = loader[k])
  <2>1. loader' = [loader EXCEPT ![l] = [NoLoader EXCEPT !.st = "done"]]
    BY <1>1 DEF Leave
  <2>2. [NoLoader EXCEPT !.st = "done"].st = "done"
    BY DEF NoLoader
  <2> QED BY <2>1, <2>2 DEF Loader
<1>9. \A k \in Loader' : LoaderOK(fs', loader'[k])
  <2>1. \A k \in Loader : LoaderOK(fs', loader[k])
    BY <1>7, LoaderOKKept, SameFilesSteps DEF PasteInv
  <2>2. ASSUME NEW k \in Loader', loader'[k].st = "done" PROVE LoaderOK(fs', loader'[k])
    BY <2>2 DEF LoaderOK
  <2> QED BY <1>8, <2>1, <2>2
<1> QED BY <1>7, <1>9

\* Staging, renaming and settling in one go: the renamed file goes on under its new name.
LEMMA GoRenameKeeps ==
  ASSUME PasteInv, LinksElsewhere, NEW q, NEW answer, q.new \in Path, q.new[1] \in Dests,
         GoRename(q, answer)
  PROVE  /\ Adds(fs, fs') /\ KeepsAll(fs, fs')
         /\ buffer' = buffer /\ loader' = loader /\ cursor' \in {cursor, q.new}
<1> DEFINE old    == CHOOSE p \in q.olds : TRUE
           pol    == (old :> answer)
           asked  == IF answer \in {"U", "R"}
                     THEN Work(Hits(fs, {old}, Roots \cup Dashboards), pol, Dashboards) ELSE {}
           stages(hits) == Stages(fs, hits, old :> q.new, pol, Dashboards)
           staged(hits) == Staged(fs, stages(hits))
           may(hits)    == cursor # None /\ cursor # q.new /\ Lexists(staged(hits), cursor)
                             /\ ~Exists(staged(hits), q.new)
           moved(hits)  == IF may(hits)
                           THEN Put(Without(staged(hits), {cursor}), q.new, staged(hits)[cursor])
                           ELSE staged(hits)
           settled(hits) == Settle(moved(hits), stages(hits),
                                   old :> Locate(moved(hits), old, q.new, InoAt(fs, old)))
<1>1. PICK hits \in Orders(asked, old :> q.new) :
        /\ fs' = settled(hits).fs
        /\ cursor' = IF may(hits) THEN q.new ELSE cursor
        /\ UNCHANGED <<buffer, cut, policy, loader, jump, faults>>
  BY Zenon DEF GoRename
<1> DEFINE st == stages(hits)
           f  == staged(hits)
           g  == moved(hits)
<1>2. asked \in SUBSET Hits(fs, {old}, Roots \cup Dashboards)
  <2> HIDE DEF old, pol
  <2> QED BY WorkOfHits
<1>3. Off(fs, st) /\ SameFiles(fs, f)
  <2> HIDE DEF asked, old, pol
  <2> QED BY <1>1, <1>2, StagingKeeps
<1>4. g = IF may(hits) THEN Put(Without(f, {cursor}), q.new, f[cursor]) ELSE f
  BY Zenon
<1>5. may(hits) => cursor \in DOMAIN f /\ ~Exists(f, q.new)
  BY DEF Lexists
<1>6. fs' = Settle(g, st, old :> Locate(g, old, q.new, InoAt(fs, old))).fs
  BY <1>1, Zenon
<1> HIDE DEF f, g, st, may, old
<1>7. Adds(f, g) /\ KeepsAll(f, g)
  <2>1. CASE may(hits)
    <3>1. q.new \notin Guarded(f)
      BY <1>5, <2>1, FileExists
    <3>2. /\ Adds(f, g)
          /\ \A r \in Guarded(f) \ ({q.new} \ {cursor}) : \E s \in Guarded(g) : g[s] = f[r]
      BY <1>4, <1>5, <2>1, MoveKeeps
    <3> QED BY <3>1, <3>2 DEF KeepsAll
  <2>2. CASE ~may(hits)
    BY <1>4, <2>2 DEF Adds, KeepsAll
  <2> QED BY <2>1, <2>2
<1>8. Adds(fs, g) /\ KeepsAll(fs, g)
  BY <1>3, <1>7, SameFilesSteps, AddsTransitive, KeepsAllTransitive
<1>9. Off(g, st)
  BY <1>3, <1>8, OffKept
<1>10. SameFiles(g, fs')
  BY <1>6, <1>9, SettleKeeps
<1>11. Adds(fs, fs') /\ KeepsAll(fs, fs')
  BY <1>8, <1>10, SameFilesSteps, AddsTransitive, KeepsAllTransitive
<1>12. cursor' \in {cursor, q.new} /\ buffer' = buffer /\ loader' = loader
  BY <1>1
<1> QED BY <1>11, <1>12

-----------------------------------------------------------------------------
(* The invariant, step by step, with what becomes of the files. *)

\* NoFileLost of one step.
Survives ==
  \A p \in DOMAIN fs :
     InoAt(fs, p) \in Files /\ fs[p] \notin Range(fs')
       => \/ Deletes
          \/ \E l \in Loader : Transfers(l) /\ loader[l].over
                                 /\ p = Into(loader[l].dest, Head(loader[l].todo))

\* The inode of a place tells whether one of the files is there.
LEMMA InoGuarded ==
  ASSUME NEW f, NEW p \in DOMAIN f
  PROVE  InoAt(f, p) \in Files <=> p \in Guarded(f)
BY PasteAssumption DEF InoAt, IsFile, Guarded

\* A step that keeps every file is within NoFileLost.
LEMMA KeepsSurvive ==
  ASSUME KeepsAll(fs, fs')
  PROVE  Survives
<1>1. ASSUME NEW p \in DOMAIN fs, InoAt(fs, p) \in Files PROVE fs[p] \in Range(fs')
  <2>1. PICK q \in Guarded(fs') : fs'[q] = fs[p]
    BY <1>1, InoGuarded DEF KeepsAll
  <2>2. q \in DOMAIN fs'
    BY DEF Guarded
  <2> QED BY <2>1, <2>2 DEF Range
<1> QED BY <1>1 DEF Survives

\* The parts of the invariant after a step, from the new places of files.
LEMMA InvNext ==
  ASSUME PasteInv, Adds(fs, fs'), buffer' \subseteq Path,
         cursor' # None => cursor'[1] \in Dests, PromptOK(prompt'),
         \A l \in Loader' : LoaderOK(fs', loader'[l])
  PROVE  PasteInv'
BY DEF PasteInv, Adds

\* Loaders that a step leaves alone stay sound.
LEMMA SameLoaders ==
  ASSUME PasteInv, Adds(fs, fs'), loader' = loader
  PROVE  \A l \in Loader' : LoaderOK(fs', loader'[l])
BY LoaderOKKept DEF PasteInv, Loader

\* A new buffer changes nothing of what a loader does.
LEMMA NewSetOK ==
  ASSUME PasteInv, Adds(fs, fs'), loader' = NewSet
  PROVE  \A l \in Loader' : LoaderOK(fs', loader'[l])
<1>1. ASSUME NEW l \in Loader PROVE LoaderOK(fs, NewSet[l])
  <2>1. LoaderOK(fs, loader[l])
    BY DEF PasteInv
  <2>2. NewSet[l] = IF loader[l].st = "queued" THEN [loader[l] EXCEPT !.shares = FALSE]
                                               ELSE loader[l]
    BY DEF NewSet
  <2>3. CASE loader[l].st = "queued"
    <3> DEFINE r == loader[l]
               n == [r EXCEPT !.shares = FALSE]
    <3>1. DOMAIN r = DOMAIN NoJob
      BY <2>1, <2>3 DEF LoaderOK
    <3>2. {"st", "kind", "todo", "dest", "stages", "held"} \subseteq DOMAIN r
      BY <3>1 DEF NoJob
    <3> HIDE DEF r
    <3>3. /\ DOMAIN n = DOMAIN r /\ n.st = r.st /\ n.kind = r.kind /\ n.todo = r.todo
          /\ n.dest = r.dest /\ n.stages = r.stages /\ n.held = r.held
      BY <3>2
    <3>4. NewSet[l] = n
      BY <2>2, <2>3 DEF r
    <3> HIDE DEF n
    <3> QED BY <2>1, <3>3, <3>4 DEF LoaderOK, r
  <2>4. CASE loader[l].st # "queued"
    BY <2>1, <2>2, <2>4
  <2> QED BY <2>3, <2>4
<1>2. DOMAIN NewSet = Loader
  BY DEF NewSet
<1> QED BY <1>1, <1>2, LoaderOKKept DEF Loader

\* What a question says of its command.
LEMMA QuestionFields ==
  ASSUME NEW op, NEW olds, NEW fresh, NEW busy, NEW hits
  PROVE  LET q == [Question(op, olds, fresh) EXCEPT !.busy = busy, !.hits = hits]
         IN  q.op = op
BY DEF Question

\* That no question is open says nothing wrong.
LEMMA NoPromptOK == PromptOK(NoPrompt) /\ NoPrompt.op = "none"
BY DEF PromptOK, NoPrompt

\* A cancelled question.
LEMMA CancelStep ==
  ASSUME PasteInv, SameFiles(fs, fs'), prompt' = NoPrompt, NEW q, Cancel(q)
  PROVE  PasteInv' /\ Survives
<1>1. Adds(fs, fs') /\ KeepsAll(fs, fs')
  BY SameFilesSteps
<1>2. cursor' = cursor
  BY DEF Cancel
<1>3. buffer' \subseteq Path /\ (loader' = NewSet \/ loader' = loader)
  BY DEF Cancel, PasteInv
<1>4. \A l \in Loader' : LoaderOK(fs', loader'[l])
  BY <1>1, <1>3, NewSetOK, SameLoaders
<1>5. cursor' # None => cursor'[1] \in Dests
  BY <1>2 DEF PasteInv
<1>6. PromptOK(prompt')
  BY NoPromptOK
<1> QED BY <1>1, <1>3, <1>4, <1>5, <1>6, InvNext, KeepsSurvive

\* What goes without a question, or after its answer: the files go with it, or stay.
LEMMA GoMoveStep ==
  ASSUME PasteInv, LinksElsewhere, NEW q, NEW pol, q.olds \subseteq Path, q.dest \in Dests,
         GoMove(q, pol), PromptOK(prompt')
  PROVE  PasteInv' /\ Survives
<1>1. /\ SameFiles(fs, fs') /\ buffer' = buffer /\ cursor' = cursor
      /\ \A l \in Loader' : LoaderOK(fs', loader'[l])
  BY GoMoveKeeps
<1>2. Adds(fs, fs') /\ KeepsAll(fs, fs')
  BY <1>1, SameFilesSteps
<1>3. buffer' \subseteq Path /\ (cursor' # None => cursor'[1] \in Dests)
  BY <1>1 DEF PasteInv
<1> QED BY <1>1, <1>2, <1>3, InvNext, KeepsSurvive

\* A rename that goes ahead.
LEMMA GoRenameStep ==
  ASSUME PasteInv, LinksElsewhere, NEW q, NEW answer, q.new \in Path, q.new[1] \in Dests,
         GoRename(q, answer), PromptOK(prompt')
  PROVE  PasteInv' /\ Survives
<1>1. /\ Adds(fs, fs') /\ KeepsAll(fs, fs')
      /\ buffer' = buffer /\ loader' = loader /\ cursor' \in {cursor, q.new}
  BY GoRenameKeeps
<1>2. buffer' \subseteq Path /\ (cursor' # None => cursor'[1] \in Dests)
  BY <1>1 DEF PasteInv
<1>3. \A l \in Loader' : LoaderOK(fs', loader'[l])
  BY <1>1, SameLoaders
<1> QED BY <1>1, <1>2, <1>3, InvNext, KeepsSurvive

\* A deletion that goes ahead.
LEMMA GoDeleteStep ==
  ASSUME PasteInv, NEW q, GoDelete(q), prompt' = NoPrompt, prompt.op \in {"none", "delete"}
  PROVE  PasteInv' /\ Survives
<1>1. loader' = loader /\ buffer' = buffer /\ cursor' = cursor
  BY DEF GoDelete
<1>2. fs' = fs \/ fs' = Restrict(fs, DOMAIN fs \ q.olds)
  BY DEF GoDelete, Without
<1>3. Adds(fs, fs')
  BY <1>2 DEF Adds, Guarded, Restrict
<1>4. Survives
  <2>1. CASE fs' = fs
    BY <2>1, KeepsSurvive DEF KeepsAll
  <2>2. CASE fs' = Restrict(fs, DOMAIN fs \ q.olds)
    <3>1. DOMAIN fs' = DOMAIN fs \ q.olds
      BY <2>2 DEF Restrict
    <3>2. Deletes
      BY <1>1, <2>2, <3>1 DEF Deletes
    <3> QED BY <3>2 DEF Survives
  <2> QED BY <1>2, <2>1, <2>2
<1>5. buffer' \subseteq Path /\ (cursor' # None => cursor'[1] \in Dests)
  BY <1>1 DEF PasteInv
<1>6. \A l \in Loader' : LoaderOK(fs', loader'[l])
  BY <1>1, <1>3, SameLoaders
<1>7. PromptOK(prompt')
  BY NoPromptOK
<1> QED BY <1>3, <1>4, <1>5, <1>6, <1>7, InvNext

\* A step that leaves the tree, the loaders and the cursor alone.
LEMMA QuietStep ==
  ASSUME PasteInv, fs' = fs, loader' = loader, cursor' = cursor,
         buffer' \subseteq Path, PromptOK(prompt')
  PROVE  PasteInv' /\ Survives
<1>1. Adds(fs, fs') /\ KeepsAll(fs, fs')
  BY DEF Adds, KeepsAll
<1>2. \A l \in Loader' : LoaderOK(fs', loader'[l])
  BY <1>1, SameLoaders
<1>3. cursor' # None => cursor'[1] \in Dests
  BY DEF PasteInv
<1> QED BY <1>1, <1>2, <1>3, InvNext, KeepsSurvive

\* The answer to a question.
LEMMA AnswerStep ==
  ASSUME PasteInv, LinksElsewhere, Answer
  PROVE  PasteInv' /\ Survives
<1>1. prompt # NoPrompt /\ prompt' = NoPrompt
  BY DEF Answer
<1>2. PromptOK(prompt) /\ PromptOK(prompt')
  BY <1>1, NoPromptOK DEF PasteInv
<1> DEFINE Say(answer) ==
          CASE prompt.op = "cut" ->
                 /\ policy' = [p \in prompt.fresh |-> answer] @@ policy
                 /\ UNCHANGED <<fs, buffer, cut, loader, aside, jump, cursor, faults>>
            [] prompt.op = "move"   -> GoMove(prompt, [p \in prompt.fresh |-> answer] @@ policy)
            [] prompt.op = "delete" -> GoDelete(prompt)
            [] prompt.op = "rename" -> GoRename(prompt, answer)
<1>3. \/ Cancel(prompt) /\ UNCHANGED fs
      \/ /\ \E p \in prompt.fresh : fs' = Dashboard(prompt.hits, DashOf[p[2]])
         /\ Cancel(prompt)
      \/ \E answer : Say(answer)
  BY Zenon DEF Answer
<1>4. CASE Cancel(prompt) /\ UNCHANGED fs
  BY <1>1, <1>4, CancelStep, SameFilesReflexive
<1>5. CASE /\ \E p \in prompt.fresh : fs' = Dashboard(prompt.hits, DashOf[p[2]])
           /\ Cancel(prompt)
  BY <1>1, <1>5, CancelStep, DashboardKeeps
<1>6. ASSUME NEW answer, Say(answer) PROVE PasteInv' /\ Survives
  <2>1. \/ prompt.op = "cut"
        \/ prompt.op = "move" /\ prompt.olds \subseteq Path /\ prompt.dest \in Dests
        \/ prompt.op = "delete"
        \/ prompt.op = "rename" /\ prompt.new \in Path /\ prompt.new[1] \in Dests
    BY <1>1, <1>2 DEF PromptOK
  <2>2. CASE prompt.op = "cut"
    <3>1. UNCHANGED <<fs, buffer, cut, loader, aside, jump, cursor, faults>>
      BY <1>6, <2>2
    <3>2. buffer' \subseteq Path
      BY <3>1 DEF PasteInv
    <3> QED BY <1>2, <3>1, <3>2, QuietStep
  <2>3. CASE prompt.op = "move" /\ prompt.olds \subseteq Path /\ prompt.dest \in Dests
    <3>1. GoMove(prompt, [p \in prompt.fresh |-> answer] @@ policy)
      BY <1>6, <2>3
    <3> QED BY <1>2, <2>3, <3>1, GoMoveStep
  <2>4. CASE prompt.op = "delete"
    <3>1. GoDelete(prompt)
      BY <1>6, <2>4
    <3> QED BY <1>1, <2>4, <3>1, GoDeleteStep
  <2>5. CASE prompt.op = "rename" /\ prompt.new \in Path /\ prompt.new[1] \in Dests
    <3>1. GoRename(prompt, answer)
      BY <1>6, <2>5
    <3> QED BY <1>2, <2>5, <3>1, GoRenameStep
  <2> QED BY <2>1, <2>2, <2>3, <2>4, <2>5
<1> QED BY <1>3, <1>4, <1>5, <1>6

\* The selected files are at paths of the model.
LEMMA SelectionPaths ==
  ASSUME PasteInv, NEW olds \in Selection
  PROVE  olds \subseteq Path
<1>1. ASSUME NEW p \in olds PROVE p \in Path
  <2>1. p \in DOMAIN fs /\ InoAt(fs, p) \in Files
    BY DEF Selection
  <2> QED BY <2>1, InoGuarded DEF PasteInv
<1> QED BY <1>1

\* The commands, one by one: a cut.
LEMMA CutStep ==
  ASSUME PasteInv, NEW olds \in Selection, NEW add, Cut(olds, add)
  PROVE  PasteInv' /\ Survives
<1>1. fs' = fs /\ cursor' = cursor
  BY DEF Cut
<1>2. buffer' \subseteq Path
  <2>1. buffer' = buffer \cup olds \/ buffer' = olds
    BY DEF Cut
  <2> QED BY <2>1, SelectionPaths DEF PasteInv
<1>3. loader' = loader \/ loader' = NewSet
  BY DEF Cut
<1>4. PromptOK(prompt')
  <2> DEFINE kept  == IF add THEN policy ELSE << >>
             fresh == buffer' \ DOMAIN kept
             q     == Question("cut", fresh, fresh)
  <2>1. \/ prompt' = prompt
        \/ Ask(q, policy' = kept, policy' = [p \in fresh |-> ""] @@ kept)
    BY Zenon DEF Cut
  <2>2. CASE prompt' = prompt
    BY <2>2 DEF PasteInv
  <2>3. CASE Ask(q, policy' = kept, policy' = [p \in fresh |-> ""] @@ kept)
    <3>1. PICK busy, hits : prompt' \in {NoPrompt, [q EXCEPT !.busy = busy, !.hits = hits]}
      <4> HIDE DEF q
      <4>1. prompt' = NoPrompt \/ \E busy, hits : prompt' = [q EXCEPT !.busy = busy, !.hits = hits]
        BY <2>3, Zenon DEF Ask
      <4> QED BY <4>1
    <3>2. [q EXCEPT !.busy = busy, !.hits = hits].op = "cut"
      BY QuestionFields
    <3> HIDE DEF q
    <3> QED BY <3>1, <3>2, NoPromptOK DEF PromptOK
  <2> QED BY <2>1, <2>2, <2>3
<1>5. Adds(fs, fs') /\ KeepsAll(fs, fs')
  BY <1>1 DEF Adds, KeepsAll
<1>6. \A l \in Loader' : LoaderOK(fs', loader'[l])
  BY <1>3, <1>5, NewSetOK, SameLoaders
<1>7. cursor' # None => cursor'[1] \in Dests
  BY <1>1 DEF PasteInv
<1> QED BY <1>2, <1>4, <1>5, <1>6, <1>7, InvNext, KeepsSurvive

\* A copy, which only changes the buffer.
LEMMA CopyStep ==
  ASSUME PasteInv, NEW olds \in Selection, Copy(olds)
  PROVE  PasteInv' /\ Survives
<1>1. fs' = fs /\ cursor' = cursor /\ prompt' = prompt /\ loader' = NewSet /\ buffer' \subseteq Path
  BY SelectionPaths DEF Copy
<1>2. Adds(fs, fs') /\ KeepsAll(fs, fs')
  BY <1>1 DEF Adds, KeepsAll
<1>3. \A l \in Loader' : LoaderOK(fs', loader'[l])
  BY <1>1, <1>2, NewSetOK
<1>4. PromptOK(prompt') /\ (cursor' # None => cursor'[1] \in Dests)
  BY <1>1 DEF PasteInv
<1> QED BY <1>1, <1>2, <1>3, <1>4, InvNext, KeepsSurvive

\* A deletion, which may have to ask.
LEMMA DeleteStep ==
  ASSUME PasteInv, NEW olds \in Selection, Delete(olds)
  PROVE  PasteInv' /\ Survives
<1> DEFINE q == Question("delete", olds, olds)
<1>1. prompt = NoPrompt
  BY DEF Delete, Command
<1>2. \/ /\ \E busy, hits : prompt' = [q EXCEPT !.busy = busy, !.hits = hits]
         /\ UNCHANGED <<fs, buffer, cut, policy, loader, aside, jump, cursor, faults>>
      \/ prompt' = NoPrompt /\ GoDelete(q)
  BY Zenon DEF Delete, Ask
<1>3. CASE /\ \E busy, hits : prompt' = [q EXCEPT !.busy = busy, !.hits = hits]
           /\ UNCHANGED <<fs, buffer, cut, policy, loader, aside, jump, cursor, faults>>
  <2>1. PromptOK(prompt')
    BY <1>3, QuestionFields DEF PromptOK
  <2>2. buffer' \subseteq Path
    BY <1>3 DEF PasteInv
  <2> QED BY <1>3, <2>1, <2>2, QuietStep
<1>4. CASE prompt' = NoPrompt /\ GoDelete(q)
  BY <1>1, <1>4, GoDeleteStep, NoPromptOK
<1> QED BY <1>2, <1>3, <1>4

\* A paste of a cut buffer.
LEMMA PasteMoveStep ==
  ASSUME PasteInv, LinksElsewhere, NEW dest \in Dests, NEW over, NEW leave,
         PasteMove(dest, over, leave)
  PROVE  PasteInv' /\ Survives
<1> DEFINE q == [Question("move", buffer, buffer \ DOMAIN policy)
                   EXCEPT !.dest = dest, !.over = over, !.leave = leave]
<1>1. prompt = NoPrompt /\ buffer \subseteq Path
  BY DEF PasteMove, Command, PasteInv
<1>2. q.op = "move" /\ q.olds = buffer /\ q.dest = dest
  BY DEF Question
<1>3. \A busy, hits : LET r == [q EXCEPT !.busy = busy, !.hits = hits]
                      IN  r.op = "move" /\ r.olds = buffer /\ r.dest = dest
  BY DEF Question
<1>4. \/ GoMove(q, policy) /\ UNCHANGED prompt
      \/ Ask(q, UNCHANGED <<fs, buffer, cut, policy, loader, aside, jump, cursor, faults>>,
             GoMove(q, [p \in q.fresh |-> ""] @@ policy))
  BY Zenon DEF PasteMove
<1> HIDE DEF q
<1>5. CASE GoMove(q, policy) /\ UNCHANGED prompt
  BY <1>1, <1>2, <1>5, GoMoveStep, NoPromptOK
<1>6. CASE Ask(q, UNCHANGED <<fs, buffer, cut, policy, loader, aside, jump, cursor, faults>>,
               GoMove(q, [p \in q.fresh |-> ""] @@ policy))
  <2>1. \/ /\ \E busy, hits : prompt' = [q EXCEPT !.busy = busy, !.hits = hits]
           /\ UNCHANGED <<fs, buffer, cut, policy, loader, aside, jump, cursor, faults>>
        \/ prompt' = NoPrompt /\ GoMove(q, [p \in q.fresh |-> ""] @@ policy)
    BY <1>6, Zenon DEF Ask
  <2>2. CASE /\ \E busy, hits : prompt' = [q EXCEPT !.busy = busy, !.hits = hits]
             /\ UNCHANGED <<fs, buffer, cut, policy, loader, aside, jump, cursor, faults>>
    <3>1. PromptOK(prompt')
      BY <1>1, <1>3, <2>2 DEF PromptOK
    <3>2. buffer' \subseteq Path
      BY <1>1, <2>2
    <3> QED BY <2>2, <3>1, <3>2, QuietStep
  <2>3. CASE prompt' = NoPrompt /\ GoMove(q, [p \in q.fresh |-> ""] @@ policy)
    BY <1>1, <1>2, <2>3, GoMoveStep, NoPromptOK
  <2> QED BY <2>1, <2>2, <2>3
<1> QED BY <1>4, <1>5, <1>6

\* A rename of the file under the cursor.
LEMMA RenameStep ==
  ASSUME PasteInv, LinksElsewhere, NEW new \in Path, Rename(new)
  PROVE  PasteInv' /\ Survives
<1> DEFINE q == [Question("rename", {cursor}, {cursor}) EXCEPT !.new = new]
<1>1. new[1] \in Dests
  BY DEF Rename, PasteInv
<1>2. q.op = "rename" /\ q.new = new
  BY DEF Question
<1>3. \A busy, hits : LET r == [q EXCEPT !.busy = busy, !.hits = hits]
                      IN  r.op = "rename" /\ r.new = new
  BY DEF Question
<1>4. Ask(q, UNCHANGED <<fs, buffer, cut, policy, loader, aside, jump, cursor, faults>>,
          GoRename(q, ""))
  BY Zenon DEF Rename
<1> HIDE DEF q
<1>5. \/ /\ \E busy, hits : prompt' = [q EXCEPT !.busy = busy, !.hits = hits]
         /\ UNCHANGED <<fs, buffer, cut, policy, loader, aside, jump, cursor, faults>>
      \/ prompt' = NoPrompt /\ GoRename(q, "")
  BY <1>4, Zenon DEF Ask
<1>6. CASE /\ \E busy, hits : prompt' = [q EXCEPT !.busy = busy, !.hits = hits]
           /\ UNCHANGED <<fs, buffer, cut, policy, loader, aside, jump, cursor, faults>>
  <2>1. PromptOK(prompt')
    BY <1>1, <1>3, <1>6 DEF PromptOK
  <2>2. buffer' \subseteq Path
    BY <1>6 DEF PasteInv
  <2> QED BY <1>6, <2>1, <2>2, QuietStep
<1>7. CASE prompt' = NoPrompt /\ GoRename(q, "")
  BY <1>1, <1>2, <1>7, GoRenameStep, NoPromptOK
<1> QED BY <1>5, <1>6, <1>7

\* A paste of copies: only dangling links are held aside.
LEMMA PasteCopyStep ==
  ASSUME PasteInv, NEW dest \in Dests, NEW over, NEW append, PasteCopy(dest, over, append)
  PROVE  PasteInv' /\ Survives
<1> DEFINE there(p) == IsLink(fs, p) /\ IsLink(fs, Into(dest, p))
                         /\ LeadsTo(fs, p) = LeadsTo(fs, Into(dest, p))
           olds == {p \in buffer : ~there(p)}
           held == IF over /\ ~append THEN {p \in {Into(dest, o) : o \in olds} : Dangling(fs, p)}
                                      ELSE {}
           q    == [olds |-> olds, dest |-> dest, over |-> over]
           job  == [NoJob EXCEPT !.held = [p \in held |-> fs[p]], !.append = append]
<1>1. PICK order \in SetToSeqs(olds) : Launch("copy", order, q, job)
  BY Zenon DEF PasteCopy
<1>2. fs' = Without(fs, held) /\ UNCHANGED <<buffer, cut, policy, prompt, aside, jump, cursor, faults>>
  BY Zenon DEF PasteCopy
<1>3. \A p \in held : IsLink(fs, p)
  BY DEF Dangling
<1>4. order \in Seq(Path)
  <2>1. olds \subseteq Path
    BY DEF PasteInv
  <2> HIDE DEF olds
  <2>2. IsFiniteSet(olds)
    BY <2>1, PathFinite, FS_Subset
  <2>3. order \in Seq(olds)
    BY <1>1, <2>2, OrderIsSeq
  <2> QED BY <2>1, <2>3, SeqOfMore
<1> HIDE DEF held, olds
<1>5. SameFiles(fs, fs')
  <2>1. held \cap Guarded(fs) = {}
    BY <1>3 DEF IsLink, Guarded
  <2> QED BY <1>2, <2>1, WithoutKeeps
<1>6. Adds(fs, fs') /\ KeepsAll(fs, fs')
  BY <1>5, SameFilesSteps
<1> DEFINE J == [job EXCEPT !.kind = "copy", !.dest = q.dest, !.over = q.over, !.todo = order,
                   !.olds = q.olds, !.shares = ("copy" = "move"), !.before = At(q.dest)]
<1>7. J.st = "queued" /\ J.kind = "copy" /\ J.dest = dest /\ J.todo = order
      /\ J.stages = << >> /\ J.held = [p \in held |-> fs[p]] /\ DOMAIN J = DOMAIN NoJob
  BY DEF NoJob
<1>8. \A p \in held : fs[p].kind # "file"
  BY <1>3 DEF IsLink
<1>9. Off(fs', << >>)
  BY DEF Off, Range
<1>10. LoaderOK(fs', J)
  <2> HIDE DEF J
  <2> QED BY <1>4, <1>7, <1>8, <1>9 DEF LoaderOK
<1>11. \A l \in Loader : LoaderOK(fs', loader[l])
  BY <1>6, LoaderOKKept DEF PasteInv
<1>12. \A l \in Loader' : LoaderOK(fs', loader'[l])
  <2> HIDE DEF job, q
  <2> QED BY <1>1, <1>10, <1>11, LaunchedOK
<1>13. /\ buffer' \subseteq Path /\ PromptOK(prompt')
       /\ cursor' # None => cursor'[1] \in Dests
  BY <1>2 DEF PasteInv
<1> QED BY <1>6, <1>12, <1>13, InvNext, KeepsSurvive

\* A paste of links.
LEMMA PasteLinksStep ==
  ASSUME PasteInv, NEW dest \in Dests, PasteLinks(dest)
  PROVE  PasteInv' /\ Survives
<1> DEFINE olds == {p \in buffer : ~(IsLink(fs, Into(dest, p))
                                      /\ LeadsTo(fs, Into(dest, p)) = LeadsTo(fs, p))}
<1>1. PICK order \in SetToSeqs(olds) : fs' = Symlinked(fs, order, dest)
  BY Zenon DEF PasteLinks
<1>2. UNCHANGED <<buffer, cut, policy, prompt, loader, aside, cursor, faults>>
  BY Zenon DEF PasteLinks
<1>3. order \in Seq(olds)
  <2>1. olds \subseteq Path
    BY DEF PasteInv
  <2> HIDE DEF olds
  <2>2. IsFiniteSet(olds)
    BY <2>1, PathFinite, FS_Subset
  <2> QED BY <1>1, <2>2, OrderIsSeq
<1> HIDE DEF olds
<1>4. SameFiles(fs, fs')
  BY <1>1, <1>3, SymlinkedKeeps
<1>5. Adds(fs, fs') /\ KeepsAll(fs, fs')
  BY <1>4, SameFilesSteps
<1>6. \A l \in Loader' : LoaderOK(fs', loader'[l])
  BY <1>2, <1>5, SameLoaders
<1>7. /\ buffer' \subseteq Path /\ PromptOK(prompt')
      /\ cursor' # None => cursor'[1] \in Dests
  BY <1>2 DEF PasteInv
<1> QED BY <1>5, <1>6, <1>7, InvNext, KeepsSurvive

-----------------------------------------------------------------------------
(* The steps of the loaders, and of others. *)

\* A loader starts.
LEMMA StartStep ==
  ASSUME PasteInv, NEW l \in Loader, Start(l)
  PROVE  PasteInv' /\ Survives
<1>1. fs' = fs /\ UNCHANGED <<prompt, cursor>> /\ loader[l].st = "queued"
  BY DEF Start, St
<1>2. Adds(fs, fs') /\ KeepsAll(fs, fs')
  BY <1>1 DEF Adds, KeepsAll
<1>3. buffer' \subseteq Path
  BY DEF Start, PasteInv
<1> DEFINE r == loader[l]
           n == [r EXCEPT !.st = "running", !.shares = FALSE]
<1>4. LoaderOK(fs, r)
  BY DEF PasteInv
<1>5. DOMAIN r = DOMAIN NoJob
  BY <1>1, <1>4 DEF LoaderOK
<1>6. loader' = [k \in Loader |-> IF k = l THEN n ELSE loader[k]]
  BY DEF Start
<1>7. LoaderOK(fs, n)
  <2>1. {"st", "kind", "todo", "dest", "stages", "held"} \subseteq DOMAIN r
    BY <1>5 DEF NoJob
  <2>2. r.st = "queued"
    BY <1>1
  <2> HIDE DEF r
  <2>3. /\ DOMAIN n = DOMAIN r /\ n.st = "running" /\ n.kind = r.kind /\ n.todo = r.todo
        /\ n.dest = r.dest /\ n.stages = r.stages /\ n.held = r.held
    BY <2>1
  <2> HIDE DEF n
  <2> QED BY <1>4, <2>2, <2>3 DEF LoaderOK
<1> HIDE DEF n, r
<1>8. \A k \in Loader' : LoaderOK(fs', loader'[k])
  BY <1>1, <1>6, <1>7 DEF PasteInv, Loader
<1>9. PromptOK(prompt') /\ (cursor' # None => cursor'[1] \in Dests)
  BY <1>1 DEF PasteInv
<1> QED BY <1>2, <1>3, <1>8, <1>9, InvNext, KeepsSurvive

\* What is left of a sequence is another one.
LEMMA TailDiffers ==
  ASSUME NEW S, NEW s \in Seq(S), s # << >>
  PROVE  Tail(s) \in Seq(S) /\ Tail(s) # s
<1>1. Tail(s) \in Seq(S) /\ Len(Tail(s)) = Len(s) - 1 /\ Len(s) \in Nat
  OBVIOUS
<1>2. Tail(s) = s => Len(s) = Len(s) - 1
  BY <1>1
<1>3. ASSUME NEW n \in Nat PROVE n # n - 1
  OBVIOUS
<1>4. Tail(s) \in Seq(S) /\ Len(s) \in Nat
  BY <1>1
<1> QED BY <1>2, <1>3, <1>4

\* A loader moves or copies an entry; only a move that overwrites replaces a file.
LEMMA TransferStep ==
  ASSUME PasteInv, NEW l \in Loader, Transfer(l)
  PROVE  PasteInv' /\ Survives
<1> DEFINE r == loader[l]
           p == Head(r.todo)
           n == [r EXCEPT !.todo = Tail(r.todo)]
<1>1. /\ r.st = "running" /\ r.todo # << >> /\ p \in DOMAIN fs
      /\ ~r.over => SafeLeft(fs, Into(r.dest, p))
      /\ loader' = [loader EXCEPT ![l].todo = Tail(@)]
      /\ fs' = Moved(r, p) /\ UNCHANGED <<buffer, prompt, cursor>>
  BY DEF Transfer, Moving, St, Lexists
<1>2. LoaderOK(fs, r)
  BY DEF PasteInv
<1>3. /\ r.kind \in {"move", "copy"} /\ r.todo \in Seq(Path) /\ r.dest \in Dests
      /\ DOMAIN r = DOMAIN NoJob
  BY <1>1, <1>2 DEF LoaderOK
<1>4. p \in Path
  BY <1>1, <1>3
<1>5. Tail(r.todo) \in Seq(Path) /\ Tail(r.todo) # r.todo
  <2> HIDE DEF r
  <2> QED BY <1>1, <1>3, TailDiffers
<1>6. loader' = [loader EXCEPT ![l] = n]
  BY <1>1
<1>7. /\ Adds(fs, fs')
      /\ \A q \in Guarded(fs) : \/ r.over /\ q = Into(r.dest, p)
                                \/ \E s \in Guarded(fs') : fs'[s] = fs[q]
  <2> HIDE DEF r, p
  <2> QED BY <1>1, <1>3, <1>4, MovedKeeps
<1>8. /\ DOMAIN n = DOMAIN r /\ n.st = "running" /\ n.kind = r.kind /\ n.todo = Tail(r.todo)
      /\ n.dest = r.dest /\ n.stages = r.stages /\ n.held = r.held
  <2>1. {"st", "kind", "todo", "dest", "stages", "held"} \subseteq DOMAIN r
    BY <1>3 DEF NoJob
  <2>2. r.st = "running"
    BY <1>1
  <2> HIDE DEF r
  <2> QED BY <2>1, <2>2
<1>9. LoaderOK(fs', n)
  <2>1. LoaderOK(fs', r)
    BY <1>2, <1>7, LoaderOKKept
  <2>2. r.st = "running"
    BY <1>1
  <2> HIDE DEF n, r
  <2> QED BY <1>5, <1>8, <2>1, <2>2 DEF LoaderOK
<1>10. \A k \in Loader' : LoaderOK(fs', loader'[k])
  <2>1. \A k \in Loader : LoaderOK(fs', loader[k])
    BY <1>7, LoaderOKKept DEF PasteInv
  <2> HIDE DEF n
  <2>2. \A k \in DOMAIN loader' : k \in Loader /\ (loader'[k] = n \/ loader'[k] = loader[k])
    BY <1>6 DEF Loader
  <2> QED BY <1>9, <2>1, <2>2 DEF Loader
<1>11. /\ buffer' \subseteq Path /\ PromptOK(prompt')
       /\ cursor' # None => cursor'[1] \in Dests
  BY <1>1 DEF PasteInv
<1>12. Transfers(l)
  <2>1. loader'[l] = n
    BY <1>6 DEF Loader
  <2> HIDE DEF n
  <2> QED BY <1>1, <1>5, <1>8, <2>1 DEF Transfers
<1>13. Survives
  <2>1. ASSUME NEW q \in DOMAIN fs, InoAt(fs, q) \in Files, fs[q] \notin Range(fs')
        PROVE  r.over /\ q = Into(r.dest, p)
    <3>1. q \in Guarded(fs)
      BY <2>1, InoGuarded
    <3>2. ~\E s \in Guarded(fs') : fs'[s] = fs[q]
      BY <2>1 DEF Guarded, Range
    <3> HIDE DEF r, p
    <3> QED BY <1>7, <3>1, <3>2
  <2> QED BY <1>12, <2>1 DEF Survives
<1> QED BY <1>7, <1>10, <1>11, <1>13, InvNext

\* The end of a loader touches none of the files, however it ends.
LEMMA FinishStep ==
  ASSUME PasteInv, NEW l \in Loader, loader[l].st \in {"queued", "running"}, Finish(l),
         UNCHANGED <<buffer, prompt, cursor>>
  PROVE  PasteInv' /\ Survives
<1>1. SameFiles(fs, fs') /\ \A k \in Loader' : LoaderOK(fs', loader'[k])
  BY FinishKeeps
<1>2. Adds(fs, fs') /\ KeepsAll(fs, fs')
  BY <1>1, SameFilesSteps
<1>3. /\ buffer' \subseteq Path /\ PromptOK(prompt')
      /\ cursor' # None => cursor'[1] \in Dests
  BY DEF PasteInv
<1> QED BY <1>1, <1>2, <1>3, InvNext, KeepsSurvive

\* A loader comes to its end.
LEMMA EndStep ==
  ASSUME PasteInv, NEW l \in Loader, End(l)
  PROVE  PasteInv' /\ Survives
<1>1. /\ loader[l].st = "running" /\ Finish(l)
      /\ UNCHANGED <<buffer, prompt, cursor>>
  BY DEF End, Ending, St
<1> QED BY <1>1, FinishStep

\* A loader is removed.
LEMMA DropStep ==
  ASSUME PasteInv, NEW l \in Loader, Drop(l)
  PROVE  PasteInv' /\ Survives
<1>1. UNCHANGED <<buffer, prompt, cursor>>
  BY DEF Drop
<1>2. CASE loader[l].st = "running" /\ Finish(l)
  BY <1>1, <1>2, FinishStep
<1>3. CASE /\ loader[l].st = "queued"
           /\ loader' = [loader EXCEPT ![l].st = "removed"]
           /\ fs' = fs
  <2> DEFINE r == loader[l]
             n == [r EXCEPT !.st = "removed"]
  <2>1. Adds(fs, fs') /\ KeepsAll(fs, fs')
    BY <1>3 DEF Adds, KeepsAll
  <2>2. LoaderOK(fs, r)
    BY DEF PasteInv
  <2>3. "st" \in DOMAIN r
    <3>1. DOMAIN r = DOMAIN NoJob
      BY <1>3, <2>2 DEF LoaderOK
    <3> QED BY <3>1 DEF NoJob
  <2>4. n.st = "removed"
    <3> HIDE DEF r
    <3> QED BY <2>3
  <2>5. loader' = [loader EXCEPT ![l] = n]
    BY <1>3
  <2> HIDE DEF n
  <2>6. LoaderOK(fs', n)
    BY <2>4 DEF LoaderOK
  <2>7. \A k \in Loader' : k \in Loader /\ (loader'[k] = n \/ loader'[k] = loader[k])
    BY <2>5 DEF Loader
  <2>8. \A k \in Loader' : LoaderOK(fs', loader'[k])
    BY <2>1, <2>6, <2>7, LoaderOKKept DEF PasteInv
  <2>9. /\ buffer' \subseteq Path /\ PromptOK(prompt')
        /\ cursor' # None => cursor'[1] \in Dests
    BY <1>1 DEF PasteInv
  <2> QED BY <2>1, <2>8, <2>9, InvNext, KeepsSurvive
<1> QED BY <1>2, <1>3 DEF Drop, St

\* A jump stays in the directory of the cursor.
LEMMA JumpStep ==
  ASSUME PasteInv, JumpReady
  PROVE  PasteInv' /\ Survives
<1>1. UNCHANGED <<fs, buffer, prompt, loader>>
  BY DEF JumpReady
<1>2. cursor' = cursor \/ (cursor # None /\ cursor'[1] = cursor[1])
  BY DEF JumpReady
<1>3. Adds(fs, fs') /\ KeepsAll(fs, fs')
  BY <1>1 DEF Adds, KeepsAll
<1>4. \A l \in Loader' : LoaderOK(fs', loader'[l])
  BY <1>1, <1>3, SameLoaders
<1>5. /\ buffer' \subseteq Path /\ PromptOK(prompt')
      /\ cursor' # None => cursor'[1] \in Dests
  BY <1>1, <1>2 DEF PasteInv
<1> QED BY <1>3, <1>4, <1>5, InvNext, KeepsSurvive

\* The file of another process has an inode of its own, and a name that was free.
LEMMA CreateStep ==
  ASSUME PasteInv, NEW p \in Path, p[1] \in Dests, Create(p)
  PROVE  PasteInv' /\ Survives
<1>1. p \notin DOMAIN fs /\ fs' = Put(fs, p, File(CopyIno))
      /\ UNCHANGED <<buffer, prompt, loader, cursor>>
  BY DEF Create, Lexists
<1>2. /\ DOMAIN fs' = DOMAIN fs \cup {p}
      /\ \A q \in DOMAIN fs : fs'[q] = fs[q]
  <2>1. /\ DOMAIN Put(fs, p, File(CopyIno)) = DOMAIN fs \cup {p}
        /\ \A q \in DOMAIN fs : q # p => Put(fs, p, File(CopyIno))[q] = fs[q]
    BY DEF Put
  <2> QED BY <1>1, <2>1
<1>3. Adds(fs, fs') /\ KeepsAll(fs, fs')
  BY <1>2 DEF Adds, KeepsAll, Guarded
<1>4. \A l \in Loader' : LoaderOK(fs', loader'[l])
  BY <1>1, <1>3, SameLoaders
<1>5. /\ buffer' \subseteq Path /\ PromptOK(prompt')
      /\ cursor' # None => cursor'[1] \in Dests
  BY <1>1 DEF PasteInv
<1> QED BY <1>3, <1>4, <1>5, InvNext, KeepsSurvive

-----------------------------------------------------------------------------
(* The links that are given back, wherever they are. *)

\* The replacement of a link is in its directory, and its file is expected in dest.
Fits(s, moves, dest) == moves[s.old][1] = dest /\ (s.dest # None => s.dest[1] = s.link[1])

\* A loader knows where its files go and holds no file aside, and if it was asked for links,
\* only those; each of them is staged unless the index was busy.
Fitted(kind, dest, moves, stages, held, links) ==
  /\ kind \in {"move", "copy"}
  /\ \A p \in DOMAIN held : held[p].kind # "file"
  /\ links # {} => DOMAIN held = {}
  /\ \A i \in DOMAIN stages : Fits(stages[i], moves, dest)
  /\ "go" \notin Busy =>
       \A h \in links : \E i \in DOMAIN stages : stages[i].link = h.link /\ stages[i].old = h.subject

\* A loader that has not ended has staged every link once, and what it was asked for.
LinksOK(me) ==
  me.st \in {"queued", "running"} =>
    /\ DOMAIN me = DOMAIN NoJob
    /\ OneEach(me.stages)
    /\ Fitted(me.kind, me.dest, me.moves, me.stages, me.held, me.links)

\* An open question is one of the four.
Asks(q) == q = NoPrompt \/ q.op \in {"cut", "move", "delete", "rename"}

LinksInv == Asks(prompt) /\ \A l \in Loader : LinksOK(loader[l])

\* What a step may do to a loader: it is as it was, it comes to its end, it is removed, or it
\* has not ended.
LoaderNext(l) ==
  \/ loader'[l] = loader[l]
  \/ loader[l].st = "running" /\ Finish(l) /\ loader'[l].st = "done"
  \/ loader'[l].st = "removed"
  \/ loader'[l].st \in {"queued", "running"} /\ LinksOK(loader'[l])

LoadersNext == Loader' = Loader /\ \A l \in Loader : LoaderNext(l)

\* There is one hit per link.
LEMMA HitsByLink ==
  ASSUME NEW f, NEW subjects, NEW dirs,
         NEW h \in Hits(f, subjects, dirs), NEW g \in Hits(f, subjects, dirs), h.link = g.link
  PROVE  h = g
<1> DEFINE at(p) == {n \in 1 .. MaxHops : Hops(f, p)[n] \in subjects}
           S == {q \in DOMAIN f \cap Path : q[1] \in dirs /\ IsLink(f, q) /\ at(q) # {}}
           hit(p) == [link |-> p, subject |-> Hops(f, p)[Min(at(p))], direct |-> Min(at(p)) = 1]
<1>1. Hits(f, subjects, dirs) = {hit(p) : p \in S}
  BY Zenon DEF Hits
<1>2. \A p : hit(p).link = p
  OBVIOUS
<1> HIDE DEF hit, S
<1> QED BY <1>1, <1>2

\* Hits worked off in an order, each once, stage every link once.
LEMMA StagesOnce ==
  ASSUME NEW f, NEW subjects, NEW dirs, NEW S \in SUBSET Hits(f, subjects, dirs), NEW moves,
         NEW hits \in Orders(S, moves), NEW to, NEW pol, NEW boards
  PROVE  OneEach(Stages(f, hits, to, pol, boards))
<1> DEFINE stages  == Stages(f, hits, to, pol, boards)
           sources == {h.link : h \in Range(hits)}
           want(h) == IF Mode(h, pol, boards) = "R" THEN Into(h.link[1], to[h.subject])
                                                    ELSE h.link
           taken(h) == Taken(f, want(h), sources)
           there(h) == /\ taken(h) /\ IsLink(f, want(h))
                       /\ LeadsTo(f, want(h)) = LeadsTo(f, to[h.subject])
           claim(h) == IF taken(h) THEN h.link ELSE want(h)
           owned(i) == \E j \in 1 .. i - 1 : ~there(hits[j]) /\ claim(hits[j]) = want(hits[i])
           dest(i)  == IF owned(i) \/ there(hits[i]) THEN None ELSE claim(hits[i])
<1>1. stages = [i \in DOMAIN hits |->
        [link |-> hits[i].link, to |-> f[hits[i].link].to,
         old  |-> hits[i].subject, text |-> to[hits[i].subject], dest |-> dest(i)]]
  BY Zenon DEF Stages
<1> HIDE DEF dest, stages
<1>2. DOMAIN stages = DOMAIN hits /\ \A i \in DOMAIN hits : stages[i].link = hits[i].link
  BY <1>1
<1>3. IsFiniteSet(S)
  BY HitsLinks, FS_Subset
<1>4. /\ hits \in Seq(S)
      /\ \A i, j \in 1 .. Cardinality(S) : i # j => hits[i] # hits[j]
      /\ DOMAIN hits = 1 .. Cardinality(S) /\ \A i \in DOMAIN hits : hits[i] \in S
  <2>1. hits \in SetToSeqs(S)
    BY DEF Orders
  <2> QED BY <1>3, <2>1, OrderIsSeq DEF SetToSeqs
<1>5. ASSUME NEW i \in DOMAIN stages, NEW j \in DOMAIN stages, stages[i].link = stages[j].link
      PROVE  i = j
  <2>1. hits[i] \in S /\ hits[j] \in S
    BY <1>2, <1>4
  <2>2. hits[i].link = hits[j].link
    BY <1>2, <1>5
  <2>3. hits[i] = hits[j]
    BY <2>1, <2>2, HitsByLink
  <2> QED BY <1>2, <1>4, <2>3
<1>6. stages \in Seq(Range(stages))
  <2>1. DOMAIN stages = 1 .. Len(hits) /\ Len(hits) \in Nat
    BY <1>2, <1>4
  <2>2. stages = [i \in 1 .. Len(hits) |-> stages[i]]
    BY <1>1, <1>2, <2>1
  <2>3. \A i \in 1 .. Len(hits) : stages[i] \in Range(stages)
    BY <2>1 DEF Range
  <2> QED BY <2>1, <2>2, <2>3
<1> QED BY <1>5, <1>6 DEF OneEach, stages

\* A link leads to one of the subjects.
LEMMA HitSubject ==
  ASSUME NEW f, NEW subjects, NEW dirs, NEW h \in Hits(f, subjects, dirs)
  PROVE  h.subject \in subjects
<1> DEFINE at(p) == {n \in 1 .. MaxHops : Hops(f, p)[n] \in subjects}
           S == {q \in DOMAIN f \cap Path : q[1] \in dirs /\ IsLink(f, q) /\ at(q) # {}}
           hit(p) == [link |-> p, subject |-> Hops(f, p)[Min(at(p))], direct |-> Min(at(p)) = 1]
<1>1. Hits(f, subjects, dirs) = {hit(p) : p \in S}
  BY Zenon DEF Hits
<1>2. PICK p \in S : h = hit(p)
  <2> HIDE DEF hit, S
  <2> QED BY <1>1
<1>3. h.subject = Hops(f, p)[Min(at(p))]
  <2> HIDE DEF at
  <2> QED BY <1>2
<1> DEFINE A == at(p)
<1>4. A \in SUBSET Nat /\ A # {} /\ \A n \in A : Hops(f, p)[n] \in subjects
  BY DEF MaxHops
<1> HIDE DEF A
<1>5. Min(A) \in A
  <2>1. PICK n \in A : \A m \in A : n <= m
    BY <1>4, LeastNat
  <2> QED BY <2>1 DEF Min
<1> QED BY <1>3, <1>4, <1>5 DEF A

\* Every entry is expected in the destination.
LEMMA PredictDest ==
  ASSUME NEW f, NEW olds, NEW dest, NEW over, NEW old \in Range(olds)
  PROVE  Predict(f, olds, dest, over)[old][1] = dest
BY DEF Predict

\* The stages fit what is predicted, and every hit has one.
LEMMA StagesFit ==
  ASSUME NEW f, NEW olds, NEW dirs, NEW S \in SUBSET Hits(f, Range(olds), dirs),
         NEW dest, NEW over, NEW moves, moves = Predict(f, olds, dest, over),
         NEW hits \in Orders(S, moves), NEW pol, NEW boards
  PROVE  LET stages == Stages(f, hits, moves, pol, boards)
         IN  /\ \A i \in DOMAIN stages : Fits(stages[i], moves, dest)
             /\ \A h \in S : \E i \in DOMAIN stages :
                  stages[i].link = h.link /\ stages[i].old = h.subject
<1> DEFINE stages  == Stages(f, hits, moves, pol, boards)
           sources == {h.link : h \in Range(hits)}
           want(h) == IF Mode(h, pol, boards) = "R" THEN Into(h.link[1], moves[h.subject])
                                                    ELSE h.link
           taken(h) == Taken(f, want(h), sources)
           there(h) == /\ taken(h) /\ IsLink(f, want(h))
                       /\ LeadsTo(f, want(h)) = LeadsTo(f, moves[h.subject])
           claim(h) == IF taken(h) THEN h.link ELSE want(h)
           owned(i) == \E j \in 1 .. i - 1 : ~there(hits[j]) /\ claim(hits[j]) = want(hits[i])
           at(i)    == IF owned(i) \/ there(hits[i]) THEN None ELSE claim(hits[i])
<1>1. stages = [i \in DOMAIN hits |->
        [link |-> hits[i].link, to |-> f[hits[i].link].to,
         old  |-> hits[i].subject, text |-> moves[hits[i].subject], dest |-> at(i)]]
  BY Zenon DEF Stages
<1>2. \A i : at(i) = None \/ at(i)[1] = hits[i].link[1]
  <2>1. \A h : want(h)[1] = h.link[1]
    BY DEF Into
  <2> HIDE DEF want, taken, there, owned
  <2> QED BY <2>1
<1> HIDE DEF at, stages
<1>3. DOMAIN stages = DOMAIN hits
      /\ \A i \in DOMAIN hits : /\ stages[i].link = hits[i].link /\ stages[i].old = hits[i].subject
                                /\ stages[i].dest = at(i)
  BY <1>1
<1>4. IsFiniteSet(S)
  BY HitsLinks, FS_Subset
<1>5. /\ \A i \in DOMAIN hits : hits[i] \in S
      /\ \A h \in S : \E i \in DOMAIN hits : hits[i] = h
  <2>1. hits \in SetToSeqs(S)
    BY DEF Orders
  <2> QED BY <1>4, <2>1, OrderIsAll
<1>6. ASSUME NEW i \in DOMAIN stages PROVE Fits(stages[i], moves, dest)
  <2>1. hits[i].subject \in Range(olds)
    BY <1>3, <1>5, HitSubject
  <2>2. moves[hits[i].subject][1] = dest
    BY <2>1, PredictDest
  <2> QED BY <1>2, <1>3, <2>2 DEF Fits
<1>7. ASSUME NEW h \in S
      PROVE  \E i \in DOMAIN stages : stages[i].link = h.link /\ stages[i].old = h.subject
  BY <1>3, <1>5
<1> QED BY <1>6, <1>7 DEF stages

\* Loaders that a step leaves alone.
LEMMA LoadersSame ==
  ASSUME loader' = loader
  PROVE  LoadersNext
BY DEF LoadersNext, LoaderNext, Loader

\* A loader that goes on with the same links.
LEMMA GoesOn ==
  ASSUME NEW r, LinksOK(r), r.st \in {"queued", "running"},
         NEW n, n.st \in {"queued", "running"}, DOMAIN n = DOMAIN r,
         \A x \in {"kind", "dest", "moves", "stages", "held", "links"} : n[x] = r[x]
  PROVE  LinksOK(n)
<1>1. /\ n.kind = r.kind /\ n.dest = r.dest /\ n.moves = r.moves
      /\ n.stages = r.stages /\ n.held = r.held /\ n.links = r.links
  OBVIOUS
<1> QED BY <1>1 DEF LinksOK

\* Loaders that no longer share the buffer are otherwise as they were.
LEMMA NewSetNext ==
  ASSUME LinksInv, loader' = NewSet
  PROVE  LoadersNext
<1>1. ASSUME NEW l \in Loader PROVE LoaderNext(l)
  <2> DEFINE r == loader[l]
             n == [r EXCEPT !.shares = FALSE]
  <2>1. LinksOK(r)
    BY DEF LinksInv
  <2>2. loader'[l] = IF r.st = "queued" THEN n ELSE r
    BY DEF NewSet
  <2>3. CASE r.st = "queued"
    <3>1. DOMAIN r = DOMAIN NoJob
      BY <2>1, <2>3 DEF LinksOK
    <3>2. {"st", "kind", "dest", "moves", "stages", "held", "links"} \subseteq DOMAIN r
      BY <3>1 DEF NoJob
    <3>3. loader'[l] = n
      BY <2>2, <2>3
    <3> HIDE DEF r
    <3>4. /\ DOMAIN n = DOMAIN r /\ n.st = r.st
          /\ \A x \in {"kind", "dest", "moves", "stages", "held", "links"} : n[x] = r[x]
      BY <3>2
    <3> HIDE DEF n
    <3>5. LinksOK(n)
      BY <2>1, <2>3, <3>4, GoesOn
    <3> QED BY <2>3, <3>3, <3>4, <3>5 DEF LoaderNext
  <2>4. CASE r.st # "queued"
    BY <2>2, <2>4 DEF LoaderNext
  <2> QED BY <2>3, <2>4
<1>2. Loader' = Loader
  BY DEF NewSet, Loader
<1> QED BY <1>1, <1>2 DEF LoadersNext

\* A loader that is launched.
LEMMA LaunchNext ==
  ASSUME NEW kind, NEW order, NEW q, NEW job, Launch(kind, order, q, job),
         job.st = "queued", DOMAIN job = DOMAIN NoJob, OneEach(job.stages),
         Fitted(kind, q.dest, job.moves, job.stages, job.held, job.links)
  PROVE  LoadersNext
<1> DEFINE m == Min(Unused)
           J == [job EXCEPT !.kind = kind, !.dest = q.dest, !.over = q.over, !.todo = order,
                            !.olds = q.olds, !.shares = (kind = "move"), !.before = At(q.dest)]
<1>1. loader' = [loader EXCEPT ![m] = J]
  BY Zenon DEF Launch
<1>2. {"st", "kind", "dest", "moves", "stages", "held", "links"} \subseteq DOMAIN job
  BY DEF NoJob
<1>3. /\ J.st = "queued" /\ J.stages = job.stages /\ DOMAIN J = DOMAIN NoJob
      /\ J.kind = kind /\ J.dest = q.dest
      /\ J.moves = job.moves /\ J.held = job.held /\ J.links = job.links
  BY <1>2
<1> HIDE DEF J, m
<1>4. Loader' = Loader /\ \A l \in Loader : loader'[l] = J \/ loader'[l] = loader[l]
  BY <1>1 DEF Loader
<1> QED BY <1>3, <1>4 DEF LoadersNext, LoaderNext, LinksOK

\* A paste of a cut buffer that goes ahead.
LEMMA GoMoveNext ==
  ASSUME NEW q, NEW pol, GoMove(q, pol)
  PROVE  LoadersNext
<1> DEFINE active(order) == SelectSeq(order, LAMBDA p : pol[p] \in {"U", "R"})
           moves(order)  == Predict(fs, active(order), q.dest, q.over)
           asked(order)  == Work(Hits(fs, Range(active(order)), Roots \cup Dashboards), pol, Dashboards)
           stages(order, hits) == Stages(fs, hits, moves(order), pol, Dashboards)
           job(order, hits) ==
             [NoJob EXCEPT !.moves = moves(order), !.inos = Inos(Range(active(order))),
                !.stages = stages(order, hits), !.links = asked(order),
                !.leave = IF q.leave THEN Predict(fs, order, q.dest, q.over) ELSE << >>,
                !.leaveInos = IF q.leave THEN Inos(q.olds) ELSE << >>]
<1>1. PICK order, busy, hits :
        /\ busy \in Locked("go")
        /\ hits \in Orders(IF busy THEN {} ELSE asked(order), moves(order))
        /\ Launch("move", IF q.olds \subseteq buffer THEN order ELSE << >>, q, job(order, hits))
  BY Zenon DEF GoMove
<1> DEFINE S == IF busy THEN {} ELSE asked(order)
<1>2. S \in SUBSET Hits(fs, Range(active(order)), Roots \cup Dashboards)
  <2> HIDE DEF active
  <2> QED BY WorkOfHits
<1>3. OneEach(stages(order, hits))
  <2> HIDE DEF S, active, moves
  <2> QED BY <1>1, <1>2, StagesOnce DEF S
<1> DEFINE J == job(order, hits)
<1>4. /\ J.st = "queued" /\ J.stages = stages(order, hits) /\ DOMAIN J = DOMAIN NoJob
      /\ J.moves = moves(order) /\ J.held = << >> /\ J.links = asked(order)
  <2> HIDE DEF stages, moves, asked, active
  <2> QED BY DEF NoJob
<1>5. /\ \A i \in DOMAIN stages(order, hits) : Fits(stages(order, hits)[i], moves(order), q.dest)
      /\ \A h \in S : \E i \in DOMAIN stages(order, hits) :
           stages(order, hits)[i].link = h.link /\ stages(order, hits)[i].old = h.subject
  <2> DEFINE A == active(order)
             M == moves(order)
  <2>1. M = Predict(fs, A, q.dest, q.over) /\ S \in SUBSET Hits(fs, Range(A), Roots \cup Dashboards)
    BY <1>2
  <2>2. hits \in Orders(S, M)
    BY <1>1
  <2> HIDE DEF A, M, S
  <2>3. LET st == Stages(fs, hits, M, pol, Dashboards)
        IN  /\ \A i \in DOMAIN st : Fits(st[i], M, q.dest)
            /\ \A h \in S : \E i \in DOMAIN st : st[i].link = h.link /\ st[i].old = h.subject
    BY <2>1, <2>2, StagesFit
  <2> QED BY <2>3 DEF M
<1>6. "go" \notin Busy => S = asked(order)
  BY <1>1 DEF Locked
<1>7. Fitted("move", q.dest, J.moves, J.stages, J.held, J.links)
  <2> HIDE DEF stages, moves, asked, active, S, job
  <2> QED BY <1>4, <1>5, <1>6 DEF Fitted
<1> HIDE DEF job, stages
<1> QED BY <1>1, <1>3, <1>4, <1>7, LaunchNext

\* What asks goes ahead, or leaves the loaders alone.
LEMMA AskedNext ==
  ASSUME NEW q, NEW pol,
         Ask(q, UNCHANGED <<fs, buffer, cut, policy, loader, aside, jump, cursor, faults>>,
             GoMove(q, pol))
  PROVE  LoadersNext
<1>1. loader' = loader \/ GoMove(q, pol)
  BY Zenon DEF Ask
<1> QED BY <1>1, LoadersSame, GoMoveNext

\* A loader comes to its end.
LEMMA FinishNext ==
  ASSUME NEW l \in Loader, loader[l].st = "running", Finish(l)
  PROVE  LoadersNext
<1>1. loader' = [loader EXCEPT ![l] = [NoLoader EXCEPT !.st = "done"]]
  BY Zenon DEF Finish, Leave
<1>2. [NoLoader EXCEPT !.st = "done"].st = "done"
  BY DEF NoLoader
<1>3. ASSUME NEW k \in Loader PROVE LoaderNext(k)
  <2>1. (k # l => loader'[k] = loader[k]) /\ (k = l => loader'[k].st = "done")
    BY <1>1, <1>2 DEF Loader
  <2> QED BY <2>1 DEF LoaderNext
<1>4. Loader' = Loader
  BY <1>1 DEF Loader
<1> QED BY <1>3, <1>4 DEF LoadersNext

\* The answer to a question may be a paste.
LEMMA AnswerNext ==
  ASSUME LinksInv, Answer
  PROVE  LoadersNext
<1> DEFINE Say(answer) ==
          CASE prompt.op = "cut" ->
                 /\ policy' = [p \in prompt.fresh |-> answer] @@ policy
                 /\ UNCHANGED <<fs, buffer, cut, loader, aside, jump, cursor, faults>>
            [] prompt.op = "move"   -> GoMove(prompt, [p \in prompt.fresh |-> answer] @@ policy)
            [] prompt.op = "delete" -> GoDelete(prompt)
            [] prompt.op = "rename" -> GoRename(prompt, answer)
<1>1. \/ Cancel(prompt)
      \/ \E answer \in {"y", "U", "R"} : Say(answer)
  <2>1. \/ Cancel(prompt)
        \/ \E answer \in IF prompt.busy \/ prompt.op = "delete" THEN {"y"} ELSE {"y", "U", "R"} :
             Say(answer)
    BY Zenon DEF Answer
  <2> HIDE DEF Say
  <2> QED BY <2>1
<1>2. CASE Cancel(prompt)
  <2>1. loader' = NewSet \/ loader' = loader
    BY <1>2 DEF Cancel
  <2> QED BY <2>1, NewSetNext, LoadersSame
<1>3. ASSUME NEW answer, Say(answer) PROVE LoadersNext
  <2>1. prompt.op \in {"cut", "move", "delete", "rename"}
    BY DEF LinksInv, Asks, Answer
  <2>2. CASE prompt.op = "cut"
    BY <1>3, <2>2, LoadersSame
  <2>3. CASE prompt.op = "move"
    BY <1>3, <2>3, GoMoveNext
  <2>4. CASE prompt.op = "delete"
    BY <1>3, <2>4, LoadersSame DEF GoDelete
  <2>5. CASE prompt.op = "rename"
    <3>1. GoRename(prompt, answer)
      BY <1>3, <2>5
    <3>2. loader' = loader
      BY <3>1, Zenon DEF GoRename
    <3> QED BY <3>2, LoadersSame
  <2> QED BY <2>1, <2>2, <2>3, <2>4, <2>5
<1> QED BY <1>1, <1>2, <1>3

\* The commands.
LEMMA CommandNext ==
  ASSUME LinksInv
  PROVE  /\ \A olds, add : Cut(olds, add) => LoadersNext
         /\ \A olds : Copy(olds) \/ Delete(olds) => LoadersNext
         /\ \A dest : PasteLinks(dest) => LoadersNext
         /\ \A new : Rename(new) => LoadersNext
<1>1. ASSUME NEW olds, NEW add, Cut(olds, add) PROVE LoadersNext
  <2>1. loader' = loader \/ loader' = NewSet
    BY <1>1, Zenon DEF Cut
  <2> QED BY <2>1, LoadersSame, NewSetNext
<1>2. ASSUME NEW olds, Copy(olds) PROVE LoadersNext
  BY <1>2, NewSetNext DEF Copy
<1>3. ASSUME NEW olds, Delete(olds) PROVE LoadersNext
  <2>1. loader' = loader
    BY <1>3, Zenon DEF Delete, Ask, GoDelete
  <2> QED BY <2>1, LoadersSame
<1>4. ASSUME NEW dest, PasteLinks(dest) PROVE LoadersNext
  <2>1. loader' = loader
    BY <1>4, Zenon DEF PasteLinks
  <2> QED BY <2>1, LoadersSame
<1>5. ASSUME NEW new, Rename(new) PROVE LoadersNext
  <2>1. loader' = loader
    BY <1>5, Zenon DEF Rename, Ask, GoRename
  <2> QED BY <2>1, LoadersSame
<1> QED BY <1>1, <1>2, <1>3, <1>4, <1>5

\* The pastes with a loader.
LEMMA PasteNext ==
  ASSUME NEW dest, NEW over, NEW flag, PasteMove(dest, over, flag) \/ PasteCopy(dest, over, flag)
  PROVE  LoadersNext
<1>1. CASE PasteMove(dest, over, flag)
  <2> DEFINE q == [Question("move", buffer, buffer \ DOMAIN policy)
                     EXCEPT !.dest = dest, !.over = over, !.leave = flag]
  <2>1. \/ GoMove(q, policy)
        \/ Ask(q, UNCHANGED <<fs, buffer, cut, policy, loader, aside, jump, cursor, faults>>,
               GoMove(q, [p \in q.fresh |-> ""] @@ policy))
    BY <1>1, Zenon DEF PasteMove
  <2> HIDE DEF q
  <2> QED BY <2>1, AskedNext, GoMoveNext
<1>2. CASE PasteCopy(dest, over, flag)
  <2> DEFINE there(p) == IsLink(fs, p) /\ IsLink(fs, Into(dest, p))
                           /\ LeadsTo(fs, p) = LeadsTo(fs, Into(dest, p))
             olds == {p \in buffer : ~there(p)}
             held == IF over /\ ~flag THEN {p \in {Into(dest, o) : o \in olds} : Dangling(fs, p)}
                                      ELSE {}
             q    == [olds |-> olds, dest |-> dest, over |-> over]
             job  == [NoJob EXCEPT !.held = [p \in held |-> fs[p]], !.append = flag]
  <2>1. PICK order : Launch("copy", order, q, job)
    BY <1>2, Zenon DEF PasteCopy
  <2>2. /\ job.st = "queued" /\ DOMAIN job = DOMAIN NoJob /\ job.stages = << >>
        /\ job.held = [p \in held |-> fs[p]] /\ job.links = {}
    <3> HIDE DEF held
    <3> QED BY DEF NoJob
  <2>3. OneEach(<< >>)
    BY DEF OneEach, Range
  <2>4. \A p \in DOMAIN job.held : job.held[p].kind # "file"
    <3>1. \A p \in held : Dangling(fs, p)
      OBVIOUS
    <3> HIDE DEF held, job
    <3> QED BY <2>2, <3>1 DEF Dangling, IsLink
  <2>5. q.dest = dest
    OBVIOUS
  <2>6. Fitted("copy", q.dest, job.moves, job.stages, job.held, job.links)
    <3>1. \A i \in DOMAIN job.stages : FALSE
      BY <2>2
    <3>2. \A h \in job.links : FALSE
      BY <2>2
    <3> HIDE DEF job, q
    <3> QED BY <2>4, <3>1, <3>2 DEF Fitted
  <2> HIDE DEF job, q
  <2> QED BY <2>1, <2>2, <2>3, <2>6, LaunchNext
<1> QED BY <1>1, <1>2

\* The steps of the loaders.
LEMMA LoaderStepNext ==
  ASSUME LinksInv, NEW l \in Loader, LoaderStep(l) \/ Drop(l)
  PROVE  LoadersNext
<1> DEFINE r == loader[l]
<1>1. LinksOK(r)
  BY DEF LinksInv
<1>2. ASSUME NEW n, loader' = [loader EXCEPT ![l] = n],
             n.st = "removed" \/ (n.st \in {"queued", "running"} /\ LinksOK(n))
      PROVE  LoadersNext
  <2>1. Loader' = Loader /\ \A k \in Loader : loader'[k] = n \/ loader'[k] = loader[k]
    BY <1>2 DEF Loader
  <2> QED BY <1>2, <2>1 DEF LoadersNext, LoaderNext
<1>3. r.st \in {"queued", "running"}
        => {"st", "kind", "dest", "moves", "stages", "held", "links", "todo", "shares"} \subseteq DOMAIN r
  BY <1>1 DEF LinksOK, NoJob
<1>4. CASE Start(l)
  <2> DEFINE n == [r EXCEPT !.st = "running", !.shares = FALSE]
  <2>1. r.st = "queued" /\ loader' = [k \in Loader |-> IF k = l THEN n ELSE loader[k]]
    BY <1>4 DEF Start, St
  <2>2. loader' = [loader EXCEPT ![l] = n]
    BY <2>1 DEF Loader
  <2> HIDE DEF r
  <2>3. /\ DOMAIN n = DOMAIN r /\ n.st = "running"
        /\ \A x \in {"kind", "dest", "moves", "stages", "held", "links"} : n[x] = r[x]
    BY <1>3, <2>1
  <2> HIDE DEF n
  <2>4. LinksOK(n)
    BY <1>1, <2>1, <2>3, GoesOn
  <2> QED BY <1>2, <2>2, <2>3, <2>4
<1>5. CASE Transfer(l)
  <2> DEFINE n == [r EXCEPT !.todo = Tail(r.todo)]
  <2>1. r.st = "running" /\ loader' = [loader EXCEPT ![l] = n]
    BY <1>5 DEF Transfer, Moving, St
  <2> HIDE DEF r
  <2>2. /\ DOMAIN n = DOMAIN r /\ n.st = "running"
        /\ \A x \in {"kind", "dest", "moves", "stages", "held", "links"} : n[x] = r[x]
    BY <1>3, <2>1
  <2> HIDE DEF n
  <2>3. LinksOK(n)
    BY <1>1, <2>1, <2>2, GoesOn
  <2> QED BY <1>2, <2>1, <2>2, <2>3
<1>6. CASE End(l)
  BY <1>6, FinishNext DEF End, Ending, St
<1>7. CASE Drop(l)
  <2>1. CASE r.st = "running" /\ Finish(l)
    BY <2>1, FinishNext
  <2>2. CASE r.st = "queued" /\ loader' = [loader EXCEPT ![l].st = "removed"]
    <3> DEFINE n == [r EXCEPT !.st = "removed"]
    <3>1. loader' = [loader EXCEPT ![l] = n]
      BY <2>2
    <3> HIDE DEF r
    <3>2. n.st = "removed"
      BY <1>3, <2>2
    <3> HIDE DEF n
    <3> QED BY <1>2, <3>1, <3>2
  <2> QED BY <1>7, <2>1, <2>2 DEF Drop, St
<1> QED BY <1>4, <1>5, <1>6, <1>7 DEF LoaderStep

\* What becomes of the loaders in any step.
LEMMA AnyNext ==
  ASSUME LinksInv, [Next]_vars
  PROVE  LoadersNext
<1>1. CASE Answer
  BY <1>1, AnswerNext
<1>2. ASSUME NEW l \in Loader, LoaderStep(l) \/ Drop(l) PROVE LoadersNext
  BY <1>2, LoaderStepNext
<1>3. CASE JumpReady
  BY <1>3, LoadersSame DEF JumpReady
<1>4. ASSUME NEW p, Create(p) PROVE LoadersNext
  BY <1>4, LoadersSame DEF Create
<1>5. CASE UNCHANGED vars
  BY <1>5, LoadersSame DEF vars
<1> QED
  BY <1>1, <1>2, <1>3, <1>4, <1>5, CommandNext, PasteNext DEF Next

\* A question keeps its kind when it is told what there is.
LEMMA AskedOf ==
  ASSUME NEW q, NEW op \in {"cut", "move", "delete", "rename"}, {"busy", "hits", "op"} \subseteq DOMAIN q,
         q.op = op, NEW r, r = NoPrompt \/ \E busy, hits : r = [q EXCEPT !.busy = busy, !.hits = hits]
  PROVE  Asks(r)
<1>1. ASSUME NEW busy, NEW hits, r = [q EXCEPT !.busy = busy, !.hits = hits] PROVE r.op = op
  BY <1>1
<1> QED BY <1>1 DEF Asks

\* Only answers and commands change the question.
LEMMA PromptNext ==
  ASSUME LinksInv, [Next]_vars
  PROVE  Asks(prompt')
<1>1. CASE prompt' = prompt
  BY <1>1 DEF LinksInv, Asks
<1>2. CASE Answer
  BY <1>2 DEF Answer, Asks
<1>3. ASSUME NEW olds, NEW add, Cut(olds, add) PROVE Asks(prompt')
  <2> DEFINE kept  == IF add THEN policy ELSE << >>
             fresh == buffer' \ DOMAIN kept
             q     == Question("cut", fresh, fresh)
  <2>1. \/ prompt' = prompt
        \/ prompt' = NoPrompt
        \/ \E busy, hits : prompt' = [q EXCEPT !.busy = busy, !.hits = hits]
    <3>1. \/ prompt' = prompt
          \/ Ask(q, policy' = kept, policy' = [p \in fresh |-> ""] @@ kept)
      BY <1>3, Zenon DEF Cut
    <3> HIDE DEF q, fresh, kept
    <3> QED BY <3>1, Zenon DEF Ask
  <2>2. {"busy", "hits", "op"} \subseteq DOMAIN q /\ q.op = "cut"
    BY DEF Question
  <2> HIDE DEF q
  <2>3. prompt' = prompt \/ Asks(prompt')
    BY <2>1, <2>2, AskedOf
  <2> QED BY <1>1, <2>3
<1>4. ASSUME NEW olds, Delete(olds) PROVE Asks(prompt')
  <2> DEFINE q == Question("delete", olds, olds)
  <2>1. \/ prompt' = NoPrompt
        \/ \E busy, hits : prompt' = [q EXCEPT !.busy = busy, !.hits = hits]
    BY <1>4, Zenon DEF Delete, Ask
  <2>2. {"busy", "hits", "op"} \subseteq DOMAIN q /\ q.op = "delete"
    BY DEF Question
  <2> HIDE DEF q
  <2> QED BY <2>1, <2>2, AskedOf
<1>5. ASSUME NEW dest, NEW over, NEW leave, PasteMove(dest, over, leave) PROVE Asks(prompt')
  <2> DEFINE q == [Question("move", buffer, buffer \ DOMAIN policy)
                     EXCEPT !.dest = dest, !.over = over, !.leave = leave]
  <2>1. \/ prompt' = prompt
        \/ prompt' = NoPrompt
        \/ \E busy, hits : prompt' = [q EXCEPT !.busy = busy, !.hits = hits]
    BY <1>5, Zenon DEF PasteMove, Ask
  <2>2. {"busy", "hits", "op"} \subseteq DOMAIN q /\ q.op = "move"
    BY DEF Question
  <2> HIDE DEF q
  <2>3. prompt' = prompt \/ Asks(prompt')
    BY <2>1, <2>2, AskedOf
  <2> QED BY <1>1, <2>3
<1>6. ASSUME NEW new, Rename(new) PROVE Asks(prompt')
  <2> DEFINE q == [Question("rename", {cursor}, {cursor}) EXCEPT !.new = new]
  <2>1. \/ prompt' = NoPrompt
        \/ \E busy, hits : prompt' = [q EXCEPT !.busy = busy, !.hits = hits]
    BY <1>6, Zenon DEF Rename, Ask
  <2>2. {"busy", "hits", "op"} \subseteq DOMAIN q /\ q.op = "rename"
    BY DEF Question
  <2> HIDE DEF q
  <2> QED BY <2>1, <2>2, AskedOf
<1>7. ASSUME NEW olds, Copy(olds) PROVE prompt' = prompt
  BY <1>7 DEF Copy
<1>8. ASSUME NEW dest, NEW over, NEW flag, PasteCopy(dest, over, flag) \/ PasteLinks(dest)
      PROVE  prompt' = prompt
  BY <1>8, Zenon DEF PasteCopy, PasteLinks
<1>9. ASSUME NEW l, LoaderStep(l) \/ Drop(l) PROVE prompt' = prompt
  BY <1>9 DEF LoaderStep, Start, Transfer, End, Drop
<1>10. ASSUME NEW p, JumpReady \/ Create(p) PROVE prompt' = prompt
  BY <1>10 DEF JumpReady, Create
<1>11. CASE UNCHANGED vars
  BY <1>1, <1>11 DEF vars
<1> QED
  BY <1>1, <1>2, <1>3, <1>4, <1>5, <1>6, <1>7, <1>8, <1>9, <1>10, <1>11 DEF Next

\* LinksAreBack of one step.
GivesBack ==
  \A l \in Loader : Ends(l) =>
    \A s \in Range(loader[l].stages) :
      Lexists(fs, s.old) => Back(fs', aside', loader[l].stages, s)

\* A loader that ends gives its links back.
LEMMA FinishBack ==
  ASSUME LinksInv, NEW l \in Loader, loader[l].st = "running", Finish(l),
         NEW i \in DOMAIN loader[l].stages, Lexists(fs, loader[l].stages[i].old)
  PROVE  Back(fs', aside', loader[l].stages, loader[l].stages[i])
<1> DEFINE me == loader[l]
           s  == me.stages[i]
           located(back) == [o \in {t.old : t \in Range(me.stages)} |->
                               Locate(back, o, me.moves[o], me.inos[o])]
<1>1. PICK back, done :
        /\ back = PutBack(fs, me.held) /\ done = Settle(back, me.stages, located(back))
        /\ fs' = LeaveLinks(done.fs, me.leave, me.leaveInos)
        /\ aside' = aside \cup done.aside
  BY Zenon DEF Finish
<1>2. OneEach(me.stages)
  BY DEF LinksInv, LinksOK
<1>3. Lexists(back, s.old)
  BY <1>1 DEF Lexists, PutBack, Over
<1>4. located(back)[s.old] = None
  <2>1. s.old \in {t.old : t \in Range(me.stages)}
    BY DEF Range
  <2>2. Locate(back, s.old, me.moves[s.old], me.inos[s.old]) = None
    <3> HIDE DEF s, me
    <3> QED BY <1>3, Zenon DEF Locate
  <2> HIDE DEF s, me
  <2> QED BY <2>1, <2>2
<1>5. Back(fs', done.aside, me.stages, s)
  <2>1. i \in DOMAIN me.stages
    OBVIOUS
  <2> HIDE DEF located, me
  <2> QED BY <1>1, <1>2, <1>4, <2>1, SettleBack
<1>6. done.aside \subseteq aside'
  BY <1>1
<1> HIDE DEF s, me
<1> QED BY <1>5, <1>6 DEF Back, s, me

\* Every step gives the links back that it has to.
LEMMA BackStep ==
  ASSUME LinksInv, [Next]_vars
  PROVE  LinksInv' /\ GivesBack
<1>1. LoadersNext
  BY AnyNext
<1>2. LinksInv'
  <2>1. ASSUME NEW l \in Loader' PROVE LinksOK(loader'[l])
    <3>1. l \in Loader /\ LoaderNext(l)
      BY <1>1 DEF LoadersNext
    <3> QED BY <3>1 DEF LoaderNext, LinksOK, LinksInv
  <2> QED BY <2>1, PromptNext DEF LinksInv, Loader
<1>3. ASSUME NEW l \in Loader, Ends(l), NEW s \in Range(loader[l].stages), Lexists(fs, s.old)
      PROVE  Back(fs', aside', loader[l].stages, s)
  <2>1. loader[l].st = "running" /\ loader'[l].st = "done"
    BY <1>3 DEF Ends
  <2>2. Finish(l)
    BY <1>1, <2>1 DEF LoadersNext, LoaderNext
  <2>3. PICK i \in DOMAIN loader[l].stages : s = loader[l].stages[i]
    BY DEF Range
  <2> QED BY <1>3, <2>1, <2>2, <2>3, FinishBack
<1> QED BY <1>2, <1>3 DEF GivesBack

-----------------------------------------------------------------------------
(* The links to files that moved. *)

\* A file of the destination is found there, by name or by inode (_MoveJob._locate).
LEMMA LocateLanded ==
  ASSUME NEW f, OneName(f), NEW old, ~Lexists(f, old), NEW predicted, NEW ino \in Files,
         NEW at \in DOMAIN f, at[1] = predicted[1], InoAt(f, at) = ino
  PROVE  Locate(f, old, predicted, ino) = at
<1> DEFINE same == {p \in DOMAIN f : p[1] = predicted[1] /\ InoAt(f, p) = ino}
<1>1. Locate(f, old, predicted, ino) =
        CASE Lexists(f, old)                                                     -> None
          [] ~Lexists(f, old) /\ (ino = None \/ InoAt(f, predicted) = ino)      ->
                IF Lexists(f, predicted) THEN predicted ELSE None
          [] OTHER -> IF same = {} THEN None ELSE CHOOSE p \in same : TRUE
  BY Zenon DEF Locate
<1>2. ino # None
  BY PasteAssumption
<1>3. \A p : InoAt(f, p) = ino => p \in DOMAIN f
  BY <1>2 DEF InoAt, IsFile
<1>4. \A p : InoAt(f, p) = ino => p = at
  <2>1. \A p \in DOMAIN f : InoAt(f, p) = ino => p \in Guarded(f) /\ f[p].ino = ino
    BY <1>2 DEF InoAt, IsFile, Guarded
  <2> QED BY <1>3, <2>1 DEF OneName
<1>5. same = {at}
  BY <1>4
<1> HIDE DEF same
<1>6. (CHOOSE p \in same : TRUE) = at
  BY <1>5
<1>7. CASE InoAt(f, predicted) = ino
  BY <1>1, <1>3, <1>4, <1>7 DEF Lexists
<1>8. CASE InoAt(f, predicted) # ino
  BY <1>1, <1>2, <1>5, <1>6, <1>8
<1> QED BY <1>7, <1>8

\* The stages with the destination of stage i are for its file.
OneOld(stages, i) ==
  \A j \in DOMAIN stages : stages[j].dest = stages[i].dest => stages[j].old = stages[i].old

\* A link settled to where its file was found stays there, whatever is undone and left.
LEMMA SettleFollows ==
  ASSUME NEW f, NEW stages, stages \in Seq(Range(stages)), NEW located, NEW moves, NEW inos,
         NEW i \in DOMAIN stages, stages[i].dest # None, located[stages[i].old] # None,
         OneOld(stages, i)
  PROVE  LeadsAt(LeaveLinks(Settle(f, stages, located).fs, moves, inos),
                 stages[i].dest, located[stages[i].old])
<1> DEFINE found == {j \in DOMAIN stages : located[stages[j].old] # None}
           text  == [j \in found |-> located[stages[j].old]]
           state == [fs |-> Linked(f, stages, found, text), aside |-> {}]
           p     == stages[i].dest
           to    == located[stages[i].old]
           done  == Rollback(state, stages, DOMAIN stages \ found)
           g     == LeaveLinks(done.fs, moves, inos)
<1>1. Settle(f, stages, located) = done
  BY DEF Settle
<1>2. state.fs = Linked(f, stages, found, text)
  OBVIOUS
<1>3. /\ i \in found /\ found \in SUBSET DOMAIN stages
      /\ \A j \in DOMAIN stages : j \in DOMAIN stages \ found => stages[j].dest # p
  BY DEF OneOld
<1>4. Agree(stages, found, text, i, to)
  BY DEF Agree, OneOld
<1> HIDE DEF state, found, text, to
<1>5. LeadsAt(state.fs, p, to)
  BY <1>2, <1>3, <1>4, LinkedWrites
<1> HIDE DEF p
<1>6. p \in DOMAIN done.fs /\ done.fs[p] = state.fs[p]
  BY <1>3, <1>5, RollbackLeaves DEF LeadsAt
<1> HIDE DEF done
<1>7. p \in DOMAIN g /\ g[p] = done.fs[p]
  BY <1>6, LeaveLinksOnly
<1> QED BY <1>1, <1>5, <1>6, <1>7 DEF LeadsAt, p, to

\* No other process holds the index when a paste goes ahead: the guards find every link.
IndexFree == "go" \notin Busy

\* A loader that ends leads its links to the files that moved.
LEMMA FinishFollows ==
  ASSUME IndexFree, LinksInv, OneName(fs), NEW l \in Loader, loader[l].st = "running", Finish(l),
         NEW h \in loader[l].links, ~Displaced(l, h)
  PROVE  Follows(l, h)
<1> DEFINE me == loader[l]
           located(back) == [o \in {t.old : t \in Range(me.stages)} |->
                               Locate(back, o, me.moves[o], me.inos[o])]
<1>1. PICK back, done :
        /\ back = PutBack(fs, me.held) /\ done = Settle(back, me.stages, located(back))
        /\ fs' = LeaveLinks(done.fs, me.leave, me.leaveInos)
  BY Zenon DEF Finish
<1>2. OneEach(me.stages) /\ Fitted(me.kind, me.dest, me.moves, me.stages, me.held, me.links)
  BY DEF LinksInv, LinksOK
<1> HIDE DEF me
<1>3. h \in me.links
  BY DEF me
<1>4. DOMAIN back = DOMAIN fs /\ \A p \in DOMAIN fs : back[p] = fs[p]
  <2>1. DOMAIN me.held = {}
    BY <1>2, <1>3 DEF Fitted
  <2> QED BY <1>1, <2>1 DEF PutBack, Over
<1>5. OneName(back)
  BY <1>4 DEF OneName, Guarded
<1>6. PICK i \in DOMAIN me.stages : me.stages[i].link = h.link /\ me.stages[i].old = h.subject
  BY <1>2, <1>3 DEF Fitted, IndexFree
<1> DEFINE s == me.stages[i]
           stages == {t \in Range(me.stages) : t.dest # None}
           name == IF s.dest = None THEN Into(s.link[1], s.text) ELSE s.dest
<1>7. {t.old : t \in {u \in stages : u.dest = name}} = {s.old}
  <2>1. s \in Range(me.stages) /\ s.link = h.link
    BY <1>6 DEF Range
  <2>2. ~\E u \in Range(me.stages) :
           u.link = h.link
             /\ {t.old : t \in {v \in stages :
                   v.dest = IF u.dest = None THEN Into(u.link[1], u.text) ELSE u.dest}} # {u.old}
    BY Zenon DEF Displaced, me
  <2> HIDE DEF s, stages
  <2> QED BY <2>1, <2>2
<1>8. PICK j \in DOMAIN me.stages :
        me.stages[j].dest = name /\ name # None /\ me.stages[j].old = s.old
  <2>1. PICK u \in stages : u.dest = name /\ u.old = s.old
    <3> HIDE DEF stages, name, s
    <3> QED BY <1>7
  <2>2. u \in Range(me.stages) /\ u.dest # None
    OBVIOUS
  <2> HIDE DEF stages, name, s
  <2> QED BY <2>1, <2>2 DEF Range
<1>9. \A k \in DOMAIN me.stages : me.stages[k].dest = name => me.stages[k].old = s.old
  <2>1. ASSUME NEW k \in DOMAIN me.stages, me.stages[k].dest = name PROVE me.stages[k].old = s.old
    <3>1. me.stages[k] \in stages
      BY <1>8, <2>1 DEF Range
    <3> HIDE DEF stages, name, s
    <3> QED BY <1>7, <2>1, <3>1
  <2> QED BY <2>1
<1>10. name[1] = h.link[1]
  <2>1. Fits(s, me.moves, me.dest)
    BY <1>2 DEF Fitted
  <2> QED BY <1>6, <2>1 DEF Fits, Into
<1> HIDE DEF name, stages
<1>11. ASSUME NEW at \in Path, Landed(l, h.subject, at)
       PROVE  \E p \in DOMAIN fs' : p[1] = h.link[1] /\ fs'[p] = Link(at)
  <2> DEFINE old == h.subject
  <2>1. /\ me.inos[old] \in Files /\ ~Lexists(fs, old)
        /\ at[1] = me.dest /\ InoAt(fs, at) = me.inos[old]
    BY <1>11 DEF Landed, me
  <2>2. at \in DOMAIN back /\ InoAt(back, at) = me.inos[old] /\ ~Lexists(back, old)
    BY <1>4, <2>1, PasteAssumption DEF InoAt, IsFile, Lexists
  <2>3. me.moves[old][1] = me.dest
    BY <1>2, <1>6 DEF Fitted, Fits
  <2>4. Locate(back, old, me.moves[old], me.inos[old]) = at
    <3> HIDE DEF old
    <3> QED BY <1>5, <2>1, <2>2, <2>3, LocateLanded
  <2>5. located(back)[old] = at
    <3>1. old \in {t.old : t \in Range(me.stages)}
      BY <1>6 DEF Range
    <3> HIDE DEF old
    <3> QED BY <2>4, <3>1
  <2>6. at # None
    BY PasteAssumption
  <2> DEFINE L == located(back)
             g == LeaveLinks(Settle(back, me.stages, L).fs, me.leave, me.leaveInos)
  <2>7. LeadsAt(g, me.stages[j].dest, L[me.stages[j].old])
    <3>1. me.stages[j].dest # None /\ L[me.stages[j].old] # None
      BY <1>6, <1>8, <2>5, <2>6
    <3>2. OneOld(me.stages, j)
      BY <1>8, <1>9 DEF OneOld
    <3>3. me.stages \in Seq(Range(me.stages))
      BY <1>2 DEF OneEach
    <3> HIDE DEF L
    <3> QED BY <3>1, <3>2, <3>3, SettleFollows
  <2>8. fs' = g
    BY <1>1
  <2> HIDE DEF g, located
  <2> QED BY <1>6, <1>8, <1>10, <2>5, <2>7, <2>8 DEF LeadsAt
<1> QED BY <1>11 DEF Follows

\* A file is found by its inode because it has one name; then a selection of them is finite.
NamesInv == LinksInv /\ OneName(fs) /\ IsFiniteSet(buffer)

\* A paste that goes ahead stages links; no file gets another name.
LEMMA MoveNames ==
  ASSUME NEW q, NEW pol, OneName(fs), GoMove(q, pol)
  PROVE  OneName(fs')
<1>1. \E stages : fs' = Staged(fs, stages)
  BY Zenon DEF GoMove
<1> QED BY <1>1, StagedFewer, FewerOne

\* A rename gives the file under the cursor its new name, and no other.
LEMMA RenameNames ==
  ASSUME NEW q, NEW answer, OneName(fs), GoRename(q, answer)
  PROVE  OneName(fs')
<1> DEFINE old    == CHOOSE p \in q.olds : TRUE
           pol    == (old :> answer)
           asked  == IF answer \in {"U", "R"}
                     THEN Work(Hits(fs, {old}, Roots \cup Dashboards), pol, Dashboards) ELSE {}
           stages(hits) == Stages(fs, hits, old :> q.new, pol, Dashboards)
           staged(hits) == Staged(fs, stages(hits))
           may(hits)    == cursor # None /\ cursor # q.new /\ Lexists(staged(hits), cursor)
                             /\ ~Exists(staged(hits), q.new)
           moved(hits)  == IF may(hits)
                           THEN Put(Without(staged(hits), {cursor}), q.new, staged(hits)[cursor])
                           ELSE staged(hits)
           settled(hits) == Settle(moved(hits), stages(hits),
                                   old :> Locate(moved(hits), old, q.new, InoAt(fs, old)))
<1>1. PICK hits \in Orders(asked, old :> q.new) : fs' = settled(hits).fs
  BY Zenon DEF GoRename
<1> DEFINE st == stages(hits)
           f  == staged(hits)
           g  == moved(hits)
<1>2. asked \in SUBSET Hits(fs, {old}, Roots \cup Dashboards)
  <2> HIDE DEF old, pol
  <2> QED BY WorkOfHits
<1>3. st \in Seq(Range(st))
  <2> HIDE DEF asked, old, pol
  <2> QED BY <1>1, <1>2, StagesOnce DEF OneEach
<1>4. g = IF may(hits) THEN Put(Without(f, {cursor}), q.new, f[cursor]) ELSE f
  BY Zenon
<1>5. may(hits) => cursor \in DOMAIN f
  BY DEF Lexists
<1>6. fs' = Settle(g, st, old :> Locate(g, old, q.new, InoAt(fs, old))).fs
  BY <1>1, Zenon
<1>7. OneName(f)
  <2> HIDE DEF stages
  <2> QED BY StagedFewer, FewerOne
<1> HIDE DEF f, g, st, may, old
<1>8. OneName(g)
  BY <1>4, <1>5, <1>7, MoveOne
<1> QED BY <1>3, <1>6, <1>8, SettleFewer, FewerOne

\* A question, or a paste that goes ahead.
LEMMA AskedNames ==
  ASSUME NEW q, NEW pol, OneName(fs),
         Ask(q, UNCHANGED <<fs, buffer, cut, policy, loader, aside, jump, cursor, faults>>,
             GoMove(q, pol))
  PROVE  OneName(fs')
<1>1. fs' = fs \/ GoMove(q, pol)
  BY Zenon DEF Ask
<1> QED BY <1>1, MoveNames

\* A deletion that goes ahead, or not.
LEMMA DeleteNames ==
  ASSUME NEW q, OneName(fs), GoDelete(q)
  PROVE  OneName(fs')
<1>1. fs' = fs \/ fs' = Without(fs, q.olds)
  BY DEF GoDelete
<1> QED BY <1>1, WithoutFewer, FewerOne

\* The answer to a question.
LEMMA AnswerNames ==
  ASSUME LinksInv, OneName(fs), Answer
  PROVE  OneName(fs')
<1> DEFINE Say(answer) ==
          CASE prompt.op = "cut" ->
                 /\ policy' = [p \in prompt.fresh |-> answer] @@ policy
                 /\ UNCHANGED <<fs, buffer, cut, loader, aside, jump, cursor, faults>>
            [] prompt.op = "move"   -> GoMove(prompt, [p \in prompt.fresh |-> answer] @@ policy)
            [] prompt.op = "delete" -> GoDelete(prompt)
            [] prompt.op = "rename" -> GoRename(prompt, answer)
<1>1. \/ UNCHANGED fs
      \/ \E p \in prompt.fresh : fs' = Dashboard(prompt.hits, DashOf[p[2]])
      \/ \E answer : Say(answer)
  BY Zenon DEF Answer
<1>2. ASSUME NEW answer, Say(answer) PROVE OneName(fs')
  <2>1. prompt.op \in {"cut", "move", "delete", "rename"}
    BY DEF LinksInv, Asks, Answer
  <2>2. CASE prompt.op = "cut"
    BY <1>2, <2>2
  <2>3. CASE prompt.op = "move"
    BY <1>2, <2>3, MoveNames
  <2>4. CASE prompt.op = "delete"
    BY <1>2, <2>4, DeleteNames
  <2>5. CASE prompt.op = "rename"
    <3>1. GoRename(prompt, answer)
      BY <1>2, <2>5
    <3> QED BY <3>1, RenameNames
  <2> QED BY <2>1, <2>2, <2>3, <2>4, <2>5
<1>3. ASSUME NEW p \in prompt.fresh, fs' = Dashboard(prompt.hits, DashOf[p[2]])
      PROVE  OneName(fs')
  BY <1>3, DashboardKeeps, SameFewer, FewerOne
<1> QED BY <1>1, <1>2, <1>3

\* The commands.
LEMMA CommandNames ==
  ASSUME NamesInv
  PROVE  /\ \A olds, add : Cut(olds, add) => OneName(fs')
         /\ \A olds : Copy(olds) \/ Delete(olds) => OneName(fs')
         /\ \A dest : PasteLinks(dest) => OneName(fs')
         /\ \A new : Rename(new) => OneName(fs')
<1>1. OneName(fs)
  BY DEF NamesInv
<1>2. ASSUME NEW olds, NEW add, Cut(olds, add) PROVE OneName(fs')
  <2>1. fs' = fs
    BY <1>2, Zenon DEF Cut
  <2> QED BY <1>1, <2>1
<1>3. ASSUME NEW olds, Copy(olds) PROVE OneName(fs')
  BY <1>1, <1>3 DEF Copy
<1>4. ASSUME NEW olds, Delete(olds) PROVE OneName(fs')
  <2>1. fs' = fs \/ GoDelete(Question("delete", olds, olds))
    BY <1>4, Zenon DEF Delete, Ask
  <2> QED BY <1>1, <2>1, DeleteNames
<1>5. ASSUME NEW dest, PasteLinks(dest) PROVE OneName(fs')
  <2> DEFINE olds == {p \in buffer : ~(IsLink(fs, Into(dest, p))
                                        /\ LeadsTo(fs, Into(dest, p)) = LeadsTo(fs, p))}
  <2>1. PICK order \in SetToSeqs(olds) : fs' = Symlinked(fs, order, dest)
    BY <1>5, Zenon DEF PasteLinks
  <2>2. olds \subseteq buffer
    OBVIOUS
  <2> HIDE DEF olds
  <2>3. order \in Seq(olds)
    BY <2>1, <2>2, FS_Subset, OrderIsSeq DEF NamesInv
  <2> QED BY <1>1, <2>1, <2>3, SymlinkedKeeps, SameFewer, FewerOne
<1>6. ASSUME NEW new, Rename(new) PROVE OneName(fs')
  <2>1. fs' = fs \/ \E q : GoRename(q, "")
    BY <1>6, Zenon DEF Rename, Ask
  <2> QED BY <1>1, <2>1, RenameNames
<1> QED BY <1>2, <1>3, <1>4, <1>5, <1>6

\* The pastes with a loader.
LEMMA PasteNames ==
  ASSUME OneName(fs), NEW dest, NEW over, NEW flag,
         PasteMove(dest, over, flag) \/ PasteCopy(dest, over, flag)
  PROVE  OneName(fs')
<1>1. CASE PasteMove(dest, over, flag)
  <2> DEFINE q == [Question("move", buffer, buffer \ DOMAIN policy)
                     EXCEPT !.dest = dest, !.over = over, !.leave = flag]
  <2>1. \/ GoMove(q, policy)
        \/ Ask(q, UNCHANGED <<fs, buffer, cut, policy, loader, aside, jump, cursor, faults>>,
               GoMove(q, [p \in q.fresh |-> ""] @@ policy))
    BY <1>1, Zenon DEF PasteMove
  <2> HIDE DEF q
  <2> QED BY <2>1, AskedNames, MoveNames
<1>2. CASE PasteCopy(dest, over, flag)
  <2>1. \E held : fs' = Without(fs, held)
    BY <1>2, Zenon DEF PasteCopy
  <2> QED BY <2>1, WithoutFewer, FewerOne
<1> QED BY <1>1, <1>2

\* A loader moves a file to another name, or copies it to a new file.
LEMMA TransferNames ==
  ASSUME NamesInv, NEW l \in Loader, Transfer(l)
  PROVE  OneName(fs')
<1> DEFINE me == loader[l]
           p  == Head(me.todo)
           to == IF me.over THEN Into(me.dest, p) ELSE SafePath(fs, Into(me.dest, p), {})
           at == LeadsTo(fs, to)
<1>1. me.st = "running" /\ p \in DOMAIN fs /\ fs' = Moved(me, p) /\ OneName(fs)
  BY DEF Transfer, Moving, St, Lexists, NamesInv
<1>2. me.kind \in {"move", "copy"}
  BY <1>1 DEF NamesInv, LinksInv, LinksOK, Fitted
<1>3. \/ fs' = Put(Without(fs, {p}), to, fs[p])
      \/ IsLink(fs, p) /\ fs' = Put(fs, to, fs[p])
      \/ fs' = Add(fs, at, File(CopyIno))
  <2>1. Moved(me, p) = CASE me.kind = "move"                   -> Put(Without(fs, {p}), to, fs[p])
                         [] me.kind = "copy" /\ IsLink(fs, p)  -> Put(fs, to, fs[p])
                         [] me.kind = "copy" /\ ~IsLink(fs, p) -> Add(fs, at, File(CopyIno))
    BY Zenon DEF Moved
  <2> HIDE DEF me, p, to, at
  <2> QED BY <1>1, <1>2, <2>1
<1> HIDE DEF me, p, to, at
<1>4. CASE fs' = Put(Without(fs, {p}), to, fs[p])
  BY <1>1, <1>4, MoveOne
<1>5. CASE IsLink(fs, p) /\ fs' = Put(fs, to, fs[p])
  <2>1. fs[p].kind # "file"
    BY <1>5 DEF IsLink
  <2> QED BY <1>1, <1>5, <2>1, PutFewer, FewerOne
<1>6. CASE fs' = Add(fs, at, File(CopyIno))
  <2>1. fs' = fs \/ fs' = Put(fs, at, File(CopyIno))
    BY <1>6 DEF Add
  <2>2. File(CopyIno).ino \notin Files
    BY PasteAssumption DEF File
  <2> QED BY <1>1, <2>1, <2>2, PutFewer, FewerOne
<1> QED BY <1>3, <1>4, <1>5, <1>6

\* What a loader does at its end adds links only.
LEMMA FinishNames ==
  ASSUME NamesInv, NEW l \in Loader, loader[l].st = "running", Finish(l)
  PROVE  OneName(fs')
<1> DEFINE me == loader[l]
           located(back) == [o \in {s.old : s \in Range(me.stages)} |->
                               Locate(back, o, me.moves[o], me.inos[o])]
<1>1. PICK back, done :
        /\ back = PutBack(fs, me.held) /\ done = Settle(back, me.stages, located(back))
        /\ fs' = LeaveLinks(done.fs, me.leave, me.leaveInos)
  BY Zenon DEF Finish
<1>2. /\ OneName(fs) /\ me.stages \in Seq(Range(me.stages))
      /\ \A p \in DOMAIN me.held : me.held[p].kind # "file"
  BY DEF NamesInv, LinksInv, LinksOK, OneEach, Fitted
<1> HIDE DEF me, located
<1>3. OneName(back)
  BY <1>1, <1>2, UnderKeeps, SameFewer, FewerOne DEF PutBack
<1>4. OneName(done.fs)
  BY <1>1, <1>2, <1>3, SettleFewer, FewerOne
<1> QED BY <1>1, <1>4, LeaveLinksKeeps, SameFewer, FewerOne

\* The steps of the loaders.
LEMMA LoaderNames ==
  ASSUME NamesInv, NEW l \in Loader, LoaderStep(l) \/ Drop(l)
  PROVE  OneName(fs')
<1>1. OneName(fs)
  BY DEF NamesInv
<1>2. CASE Start(l)
  BY <1>1, <1>2 DEF Start
<1>3. CASE Transfer(l)
  BY <1>3, TransferNames
<1>4. CASE End(l)
  BY <1>4, FinishNames DEF End, Ending, St
<1>5. CASE Drop(l)
  BY <1>1, <1>5, FinishNames DEF Drop, St
<1> QED BY <1>2, <1>3, <1>4, <1>5 DEF LoaderStep

\* Another process makes new files.
LEMMA CreateNames ==
  ASSUME OneName(fs), NEW p, Create(p)
  PROVE  OneName(fs')
<1>1. File(CopyIno).ino \notin Files
  BY PasteAssumption DEF File
<1> QED BY <1>1, PutFewer, FewerOne DEF Create

\* A selection is of finitely many files: each has one name.
LEMMA SelectionFinite ==
  ASSUME OneName(fs), NEW olds \in Selection
  PROVE  IsFiniteSet(olds)
<1> DEFINE I == {fs[p].ino : p \in Guarded(fs)}
           F == [i \in I |-> CHOOSE p \in Guarded(fs) : fs[p].ino = i]
<1>1. I \subseteq Files
  BY DEF Guarded
<1>2. IsFiniteSet(I)
  <2> HIDE DEF I
  <2> QED BY <1>1, FS_Subset, PasteAssumption
<1>3. \A p \in Guarded(fs) : fs[p].ino \in I /\ F[fs[p].ino] = p
  BY DEF OneName
<1>4. DOMAIN F = I
  OBVIOUS
<1>5. Guarded(fs) \subseteq {F[i] : i \in I}
  <2> HIDE DEF F, I
  <2> QED BY <1>3
<1>6. IsFiniteSet({F[i] : i \in I})
  <2> HIDE DEF F, I
  <2> QED BY <1>2, FiniteImage
<1>7. olds \subseteq Guarded(fs)
  BY InoGuarded DEF Selection
<1> HIDE DEF F, I
<1> QED BY <1>5, <1>6, <1>7, FS_Subset

\* An answer may take paths out of the buffer.
LEMMA AnswerBuffer ==
  ASSUME LinksInv, Answer
  PROVE  buffer' \subseteq buffer
<1> DEFINE Say(answer) ==
          CASE prompt.op = "cut" ->
                 /\ policy' = [p \in prompt.fresh |-> answer] @@ policy
                 /\ UNCHANGED <<fs, buffer, cut, loader, aside, jump, cursor, faults>>
            [] prompt.op = "move"   -> GoMove(prompt, [p \in prompt.fresh |-> answer] @@ policy)
            [] prompt.op = "delete" -> GoDelete(prompt)
            [] prompt.op = "rename" -> GoRename(prompt, answer)
<1>1. Cancel(prompt) \/ \E answer : Say(answer)
  BY Zenon DEF Answer
<1>2. ASSUME NEW answer, Say(answer) PROVE buffer' = buffer
  <2>1. prompt.op \in {"cut", "move", "delete", "rename"}
    BY DEF LinksInv, Asks, Answer
  <2>2. CASE prompt.op = "cut"
    BY <1>2, <2>2
  <2>3. CASE prompt.op = "move"
    <3>1. GoMove(prompt, [p \in prompt.fresh |-> answer] @@ policy)
      BY <1>2, <2>3
    <3> QED BY <3>1, Zenon DEF GoMove
  <2>4. CASE prompt.op = "delete"
    BY <1>2, <2>4 DEF GoDelete
  <2>5. CASE prompt.op = "rename"
    <3>1. GoRename(prompt, answer)
      BY <1>2, <2>5
    <3> QED BY <3>1, Zenon DEF GoRename
  <2> QED BY <2>1, <2>2, <2>3, <2>4, <2>5
<1>3. CASE Cancel(prompt)
  BY <1>3 DEF Cancel
<1> QED BY <1>1, <1>2, <1>3

\* The buffer holds selections only.
LEMMA BufferNext ==
  ASSUME NamesInv, [Next]_vars
  PROVE  IsFiniteSet(buffer')
<1>1. OneName(fs) /\ IsFiniteSet(buffer)
  BY DEF NamesInv
<1>2. ASSUME buffer' \subseteq buffer PROVE IsFiniteSet(buffer')
  BY <1>1, <1>2, FS_Subset
<1>3. CASE Answer
  BY <1>2, <1>3, AnswerBuffer DEF NamesInv
<1>4. ASSUME NEW olds \in Selection, (\E add \in BOOLEAN : Cut(olds, add)) \/ Copy(olds) \/ Delete(olds)
      PROVE  IsFiniteSet(buffer')
  <2>1. IsFiniteSet(olds)
    BY <1>1, SelectionFinite
  <2>2. buffer' \in {buffer \cup olds, olds, buffer}
    <3>1. CASE \E add \in BOOLEAN : Cut(olds, add)
      <4>1. PICK add \in BOOLEAN : buffer' = IF add THEN buffer \cup olds ELSE olds
        BY <3>1, Zenon DEF Cut
      <4> QED BY <4>1
    <3>2. CASE Copy(olds)
      BY <3>2 DEF Copy
    <3>3. CASE Delete(olds)
      BY <3>3, Zenon DEF Delete, Ask, GoDelete
    <3> QED BY <1>4, <3>1, <3>2, <3>3
  <2> QED BY <1>1, <2>1, <2>2, FS_Union
<1>5. ASSUME NEW dest, NEW over, NEW flag, PasteMove(dest, over, flag)
      PROVE  buffer' = buffer
  BY <1>5, Zenon DEF PasteMove, Ask, GoMove
<1>6. ASSUME NEW dest, NEW over, NEW flag, PasteCopy(dest, over, flag) \/ PasteLinks(dest)
      PROVE  buffer' = buffer
  BY <1>6, Zenon DEF PasteCopy, PasteLinks
<1>7. ASSUME NEW new, Rename(new) PROVE buffer' = buffer
  BY <1>7, Zenon DEF Rename, Ask, GoRename
<1>8. ASSUME NEW l, LoaderStep(l) \/ Drop(l) PROVE buffer' \subseteq buffer
  BY <1>8 DEF LoaderStep, Start, Transfer, End, Drop
<1>9. ASSUME NEW p, JumpReady \/ Create(p) PROVE buffer' = buffer
  BY <1>9 DEF JumpReady, Create
<1>10. CASE UNCHANGED vars
  BY <1>1, <1>10 DEF vars
<1> QED BY <1>2, <1>3, <1>4, <1>5, <1>6, <1>7, <1>8, <1>9, <1>10 DEF Next

\* Every step leaves each file one name.
LEMMA NamesStep ==
  ASSUME NamesInv, [Next]_vars
  PROVE  NamesInv'
<1>1. OneName(fs) /\ LinksInv
  BY DEF NamesInv
<1>2. ASSUME Answer PROVE OneName(fs')
  BY <1>1, <1>2, AnswerNames
<1>3. ASSUME NEW l \in Loader, LoaderStep(l) \/ Drop(l) PROVE OneName(fs')
  BY <1>3, LoaderNames
<1>4. ASSUME JumpReady PROVE OneName(fs')
  BY <1>1, <1>4 DEF JumpReady
<1>5. ASSUME NEW p, Create(p) PROVE OneName(fs')
  BY <1>1, <1>5, CreateNames
<1>6. ASSUME UNCHANGED vars PROVE OneName(fs')
  BY <1>1, <1>6 DEF vars
<1>7. OneName(fs')
  BY <1>1, <1>2, <1>3, <1>4, <1>5, <1>6, CommandNames, PasteNames DEF Next
<1> QED BY <1>1, <1>7, BackStep, BufferNext DEF NamesInv

\* MovedLinksFollow of one step.
LinksLead ==
  \A l \in Loader : Ends(l) =>
    \A h \in loader[l].links : ~Displaced(l, h) => Follows(l, h)

\* What ends, ends with its links leading to their files.
LEMMA FollowStep ==
  ASSUME IndexFree, NamesInv, [Next]_vars
  PROVE  LinksLead
<1>1. LoadersNext
  BY AnyNext DEF NamesInv
<1>2. ASSUME NEW l \in Loader, Ends(l), NEW h \in loader[l].links, ~Displaced(l, h)
      PROVE  Follows(l, h)
  <2>1. loader[l].st = "running" /\ loader'[l].st = "done"
    BY <1>2 DEF Ends
  <2>2. Finish(l)
    BY <1>1, <2>1 DEF LoadersNext, LoaderNext
  <2> QED BY <1>2, <2>1, <2>2, FinishFollows DEF NamesInv
<1> QED BY <1>2 DEF LinksLead

-----------------------------------------------------------------------------
(* The theorems. *)

\* The session starts so.
LEMMA InitInv ==
  ASSUME Init
  PROVE  PasteInv
<1>1. session \in Sessions /\ fs = session.tree
  BY DEF Init
<1>2. ASSUME NEW p \in Guarded(fs) PROVE p \in Path
  <2>1. p \in DOMAIN fs /\ InoAt(fs, p) \in Files
    BY InoGuarded DEF Guarded
  <2> QED BY <1>1, <2>1, PasteAssumption
<1>3. cursor # None => cursor[1] \in Dests
  BY DEF Init
<1>4. PromptOK(prompt)
  BY NoPromptOK DEF Init
<1>5. \A l \in Loader : LoaderOK(fs, loader[l])
  <2>1. \A l \in Loader : loader[l] = NoLoader
    BY DEF Init, Loader
  <2> QED BY <2>1 DEF NoLoader, LoaderOK
<1>6. buffer \subseteq Path
  BY DEF Init
<1> QED BY <1>2, <1>3, <1>4, <1>5, <1>6 DEF PasteInv

\* Every step keeps the invariant, and the files.
LEMMA NextStep ==
  ASSUME PasteInv, LinksElsewhere, [Next]_vars
  PROVE  PasteInv' /\ Survives
<1>1. CASE Answer
  BY <1>1, AnswerStep
<1>2. ASSUME NEW olds \in Selection, NEW add \in BOOLEAN, Cut(olds, add)
      PROVE  PasteInv' /\ Survives
  BY <1>2, CutStep
<1>3. ASSUME NEW olds \in Selection, Copy(olds) \/ Delete(olds)
      PROVE  PasteInv' /\ Survives
  BY <1>3, CopyStep, DeleteStep
<1>4. ASSUME NEW dest \in Dests, NEW over \in BOOLEAN, NEW flag \in BOOLEAN,
             PasteMove(dest, over, flag) \/ PasteCopy(dest, over, flag)
      PROVE  PasteInv' /\ Survives
  BY <1>4, PasteMoveStep, PasteCopyStep
<1>5. ASSUME NEW dest \in Dests, PasteLinks(dest)
      PROVE  PasteInv' /\ Survives
  BY <1>5, PasteLinksStep
<1>6. ASSUME NEW new \in Path, Rename(new)
      PROVE  PasteInv' /\ Survives
  BY <1>6, RenameStep
<1>7. ASSUME NEW l \in Loader, LoaderStep(l) \/ Drop(l)
      PROVE  PasteInv' /\ Survives
  BY <1>7, StartStep, TransferStep, EndStep, DropStep DEF LoaderStep
<1>8. CASE JumpReady
  BY <1>8, JumpStep
<1>9. ASSUME NEW p \in Path, p[1] \in Dests, Create(p)
      PROVE  PasteInv' /\ Survives
  BY <1>9, CreateStep
<1>10. CASE UNCHANGED vars
  BY <1>10, QuietStep DEF vars, PasteInv
<1> QED
  BY <1>1, <1>2, <1>3, <1>4, <1>5, <1>6, <1>7, <1>8, <1>9, <1>10 DEF Next

\* The places and the destinations of the files are always such that links are put elsewhere:
\* what the paste guards know of a paste stays true until its loader ends.
THEOREM PasteGuarded ==
  ASSUME LinksElsewhere
  PROVE  Spec => []PasteInv
<1>1. PasteInv /\ [Next]_vars => PasteInv'
  BY NextStep
<1> QED BY <1>1, InitInv, PTL DEF Spec

\* No file is lost by staging or settling links, nor by any command that does not delete or
\* overwrite it (_MoveJob.stage, _finish_staged).
THEOREM FilesSurvive ==
  ASSUME LinksElsewhere
  PROVE  Spec => NoFileLost
<1>1. PasteInv /\ [Next]_vars => PasteInv' /\ [Survives]_vars
  BY NextStep
<1> QED BY <1>1, InitInv, PTL DEF Spec, NoFileLost, Survives

\* The paste guards give back every link to a file that stayed, or say where its backup is
\* (_MoveJob._rollback), however many links a paste has staged and whatever the answers.
THEOREM LinksComeBack == Spec => LinksAreBack
<1>1. Init => LinksInv
  BY DEF Init, LinksInv, Asks, LinksOK, NoLoader, Loader
<1>2. LinksInv /\ [Next]_vars => LinksInv' /\ [GivesBack]_vars
  BY BackStep
<1>3. GivesBack <=> \A l \in Loader : Ends(l) =>
        \A s \in Range(loader[l].stages) :
          Lexists(fs, s.old) =>
            \/ IsLink(fs', s.link) /\ fs'[s.link] = Link(s.to)
            \/ /\ Kept(s)
               /\ \/ Crossed(l, s)
                  \/ Lexists(fs', s.link) /\ (s.dest = s.link => fs'[s.link] # Link(s.text))
            \/ Mistaken(l, s)
  BY DEF GivesBack, Back, Kept, Crossed, Mistaken
<1> QED BY <1>1, <1>2, <1>3, PTL DEF Spec, LinksAreBack

\* Every link that was to be updated or replaced leads to its moved file when the paste ends,
\* under whatever name the file got, unless the link's own name is another's (_MoveJob.finish).
THEOREM LinksFollowFiles ==
  ASSUME IndexFree
  PROVE  Spec => MovedLinksFollow
<1>1. Init => NamesInv
  <2> SUFFICES ASSUME Init PROVE NamesInv
    OBVIOUS
  <2>1. LinksInv
    BY DEF Init, LinksInv, Asks, LinksOK, NoLoader, Loader
  <2>2. session \in Sessions /\ fs = session.tree /\ buffer = {}
    BY DEF Init
  <2>3. OneName(fs)
    <3>1. ASSUME NEW p \in Guarded(fs), NEW q \in Guarded(fs), fs[p].ino = fs[q].ino PROVE p = q
      <4>1. p \in DOMAIN fs /\ q \in DOMAIN fs
            /\ InoAt(fs, p) \in Files /\ InoAt(fs, q) = InoAt(fs, p)
        BY <3>1 DEF Guarded, InoAt, IsFile
      <4> QED BY <2>2, <4>1, PasteAssumption
    <3> QED BY <3>1 DEF OneName
  <2>4. IsFiniteSet(buffer)
    BY <2>2, FS_EmptySet
  <2> QED BY <2>1, <2>3, <2>4 DEF NamesInv
<1>2. NamesInv /\ [Next]_vars => NamesInv' /\ [LinksLead]_vars
  BY NamesStep, FollowStep
<1> QED BY <1>1, <1>2, PTL DEF Spec, MovedLinksFollow, LinksLead
=============================================================================

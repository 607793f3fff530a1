---------------------------- MODULE Weave_proofs ----------------------------
(***************************************************************************)
(* Theorems about Weave, for any worlds, any number of files and goroutines  *)
(* in any order.                                                            *)
(***************************************************************************)
EXTENDS Weave, JoinPoints_proofs, FiniteSetTheorems

-----------------------------------------------------------------------------
(***************************************************************************)
(* The folds of Weave: what Through returns is the last of a chain of       *)
(* states, each of which is made from the one before.                       *)
(***************************************************************************)
LEMMA ValueOf ==
  ASSUME NEW x
  PROVE  Value({x}) = x
BY DEF Value

\* What an id of AdviceAt does to the state v of a file, at node n.
AdviceNext(v, n, id) ==
  IF v.state = "failed" THEN v
  ELSE [ApplyAdvice(v, n, AdviceOf(id)) EXCEPT !.applied = Append(@, <<n, id>>)]

\* The step of each fold, with the next element of its sequence.
FoldNext(fold, v, n, x) ==
  CASE fold = "imports" -> AddImport(v, n, x.path, x.name)
    [] fold = "links" -> AddLink(v, x)
    [] fold = "advice" -> AdviceNext(v, n, x)

Chain(f, fold, w, n, seq, k) ==
  f[0] = w /\ \A i \in 1..k : f[i] = FoldNext(fold, f[i - 1], n, seq[i])

LEMMA ChainExists ==
  ASSUME NEW fold, NEW w, NEW n, NEW seq, NEW m \in Nat
  PROVE  \E f : Chain(f, fold, w, n, seq, m)
<1> DEFINE Missing == {k \in Nat : ~ \E f : Chain(f, fold, w, n, seq, k)}
<1> SUFFICES ASSUME Missing # {}
             PROVE  FALSE
  OBVIOUS
<1>1. Missing \in SUBSET Nat
  OBVIOUS
<1>2. PICK k \in Missing : \A l \in Missing : ~ (l < k)
  <2> HIDE DEF Missing
  <2> QED BY <1>1, LeastExists
<1>3. k # 0
  <2>1. Chain([i \in {0} |-> w], fold, w, n, seq, 0)
    BY DEF Chain
  <2> QED BY <2>1
<1>4. k \in Nat /\ k - 1 \in Nat /\ k - 1 < k
  BY <1>3
<1>5. PICK f : Chain(f, fold, w, n, seq, k - 1)
  BY <1>2, <1>4
<1> DEFINE last == FoldNext(fold, f[k - 1], n, seq[k])
           g == [i \in 0..k |-> IF i < k THEN f[i] ELSE last]
<1>6. ASSUME NEW i \in 1..k
      PROVE  g[i] = FoldNext(fold, g[i - 1], n, seq[i])
  <2>1. g[i - 1] = f[i - 1]
    BY <1>4
  <2>2. CASE i = k
    <3>1. g[i] = last
      BY <2>2
    <3> HIDE DEF g
    <3> QED BY <2>1, <2>2, <3>1
  <2>3. CASE i # k
    <3>1. i \in 1..k - 1 /\ g[i] = f[i]
      BY <1>4, <2>3
    <3> HIDE DEF g
    <3> QED BY <1>5, <2>1, <3>1 DEF Chain
  <2> QED BY <2>2, <2>3
<1>7. g[0] = w
  BY <1>3, <1>5 DEF Chain
<1>8. Chain(g, fold, w, n, seq, k)
  <2> HIDE DEF g
  <2> QED BY <1>6, <1>7 DEF Chain
<1> QED BY <1>8

\* A function that obeys the equation of a fold exists, so that the one that Through
\* chooses obeys it too: any step will do that agrees with FoldNext.
StepOf(f, fold, w, n, seq, k) ==
  IF k = 0 THEN w ELSE Value({FoldNext(fold, v, n, seq[k]) : v \in {f[k - 1]}})

LEMMA StepIsNext ==
  ASSUME NEW f, NEW fold, NEW w, NEW n, NEW seq, NEW k, k # 0
  PROVE  StepOf(f, fold, w, n, seq, k) = FoldNext(fold, f[k - 1], n, seq[k])
<1>1. {FoldNext(fold, v, n, seq[k]) : v \in {f[k - 1]}} = {FoldNext(fold, f[k - 1], n, seq[k])}
  OBVIOUS
<1> QED BY <1>1, ValueOf DEF StepOf

IsFold(f, fold, w, n, seq, m) == f = [k \in 0..m |-> StepOf(f, fold, w, n, seq, k)]

LEMMA FoldExists ==
  ASSUME NEW fold, NEW w, NEW n, NEW seq, NEW m \in Nat
  PROVE  \E f : IsFold(f, fold, w, n, seq, m)
<1>1. PICK g : Chain(g, fold, w, n, seq, m)
  BY ChainExists
<1> DEFINE h == [k \in 0..m |-> g[k]]
<1>2. ASSUME NEW k \in 0..m
      PROVE  h[k] = StepOf(h, fold, w, n, seq, k)
  <2>1. CASE k = 0
    BY <1>1, <2>1 DEF Chain, StepOf
  <2>2. CASE k # 0
    <3>1. k \in 1..m /\ h[k] = g[k] /\ h[k - 1] = g[k - 1]
      BY <2>2
    <3> HIDE DEF h
    <3>2. StepOf(h, fold, w, n, seq, k) = FoldNext(fold, h[k - 1], n, seq[k])
      BY <2>2, StepIsNext
    <3> QED BY <1>1, <3>1, <3>2 DEF Chain
  <2> QED BY <2>1, <2>2
<1>3. h = [k \in 0..m |-> h[k]]
  OBVIOUS
<1>4. h = [k \in 0..m |-> StepOf(h, fold, w, n, seq, k)]
  <2> HIDE DEF h
  <2> QED BY <1>2, <1>3
<1> HIDE DEF h
<1> QED BY <1>4 DEF IsFold

LEMMA FoldIsChain ==
  ASSUME NEW fold, NEW w, NEW n, NEW seq, NEW m \in Nat,
         NEW f, IsFold(f, fold, w, n, seq, m)
  PROVE  Chain(f, fold, w, n, seq, m)
<1>1. \A k \in 0..m : f[k] = StepOf(f, fold, w, n, seq, k)
  BY DEF IsFold
<1>2. f[0] = w
  <2>1. f[0] = StepOf(f, fold, w, n, seq, 0)
    BY <1>1
  <2> QED BY <2>1 DEF StepOf
<1>3. ASSUME NEW k \in 1..m
      PROVE  f[k] = FoldNext(fold, f[k - 1], n, seq[k])
  <2>1. k \in 0..m /\ k # 0
    OBVIOUS
  <2>2. f[k] = StepOf(f, fold, w, n, seq, k)
    BY <1>1, <2>1
  <2>3. StepOf(f, fold, w, n, seq, k) = FoldNext(fold, f[k - 1], n, seq[k])
    BY <2>1, StepIsNext
  <2> QED BY <2>2, <2>3
<1> QED BY <1>2, <1>3 DEF Chain

AddImports(w, n, seq) ==
  Through(LAMBDA v, imp : AddImport(v, n, imp.path, imp.name), w, seq)

LEMMA ThroughImports ==
  ASSUME NEW w, NEW n, NEW seq, Len(seq) \in Nat
  PROVE  \E f : /\ Chain(f, "imports", w, n, seq, Len(seq))
                /\ AddImports(w, n, seq) = f[Len(seq)]
<1> DEFINE m == Len(seq)
           step(f, k) == IF k = 0 THEN w ELSE Value({AddImport(v, n, seq[k].path, seq[k].name) : v \in {f[k - 1]}})
           Obeys(f) == f = [k \in 0..m |-> step(f, k)]
           after == CHOOSE f : Obeys(f)
<1>1. ASSUME NEW f, NEW k
      PROVE  step(f, k) = StepOf(f, "imports", w, n, seq, k)
  <2>1. \A v : AddImport(v, n, seq[k].path, seq[k].name) = FoldNext("imports", v, n, seq[k])
    BY DEF FoldNext
  <2>2. {AddImport(v, n, seq[k].path, seq[k].name) : v \in {f[k - 1]}} = {FoldNext("imports", v, n, seq[k]) : v \in {f[k - 1]}}
    BY <2>1
  <2> QED BY <2>2 DEF StepOf
<1>2. ASSUME NEW f
      PROVE  Obeys(f) <=> IsFold(f, "imports", w, n, seq, m)
  <2> HIDE DEF step
  <2> QED BY <1>1 DEF IsFold
<1>3. \E f : Obeys(f)
  <2> HIDE DEF Obeys
  <2> QED BY <1>2, FoldExists
<1>4. Obeys(after)
  <2> HIDE DEF Obeys
  <2> QED BY <1>3
<1>5. Chain(after, "imports", w, n, seq, m)
  <2> HIDE DEF after, Obeys
  <2> QED BY <1>2, <1>4, FoldIsChain
<1>6. AddImports(w, n, seq) = after[m]
  BY DEF Through, AddImports
<1> HIDE DEF after
<1> QED BY <1>5, <1>6

LEMMA ThroughLinks ==
  ASSUME NEW w, NEW n, NEW seq, Len(seq) \in Nat
  PROVE  \E f : /\ Chain(f, "links", w, n, seq, Len(seq))
                /\ Through(AddLink, w, seq) = f[Len(seq)]
<1> DEFINE m == Len(seq)
           step(f, k) == IF k = 0 THEN w ELSE Value({AddLink(v, seq[k]) : v \in {f[k - 1]}})
           Obeys(f) == f = [k \in 0..m |-> step(f, k)]
           after == CHOOSE f : Obeys(f)
<1>1. ASSUME NEW f, NEW k
      PROVE  step(f, k) = StepOf(f, "links", w, n, seq, k)
  <2>1. \A v : AddLink(v, seq[k]) = FoldNext("links", v, n, seq[k])
    BY DEF FoldNext
  <2>2. {AddLink(v, seq[k]) : v \in {f[k - 1]}} = {FoldNext("links", v, n, seq[k]) : v \in {f[k - 1]}}
    BY <2>1
  <2> QED BY <2>2 DEF StepOf
<1>2. ASSUME NEW f
      PROVE  Obeys(f) <=> IsFold(f, "links", w, n, seq, m)
  <2> HIDE DEF step
  <2> QED BY <1>1 DEF IsFold
<1>3. \E f : Obeys(f)
  <2> HIDE DEF Obeys
  <2> QED BY <1>2, FoldExists
<1>4. Obeys(after)
  <2> HIDE DEF Obeys
  <2> QED BY <1>3
<1>5. Chain(after, "links", w, n, seq, m)
  <2> HIDE DEF after, Obeys
  <2> QED BY <1>2, <1>4, FoldIsChain
<1>6. Through(AddLink, w, seq) = after[m]
  BY DEF Through
<1> HIDE DEF after
<1> QED BY <1>5, <1>6

ApplyAll(w, n, ids) ==
  Through(LAMBDA v, id :
              IF v.state = "failed" THEN v
              ELSE [ApplyAdvice(v, n, AdviceOf(id)) EXCEPT
                       !.applied = Append(@, <<n, id>>)],
          w, ids)

LEMMA ThroughAdvice ==
  ASSUME NEW w, NEW n, NEW seq, Len(seq) \in Nat
  PROVE  \E f : /\ Chain(f, "advice", w, n, seq, Len(seq))
                /\ ApplyAll(w, n, seq) = f[Len(seq)]
<1> DEFINE m == Len(seq)
           step(f, k) == IF k = 0 THEN w ELSE Value({(IF v.state = "failed" THEN v
                     ELSE [ApplyAdvice(v, n, AdviceOf(seq[k])) EXCEPT
                              !.applied = Append(@, <<n, seq[k]>>)]) : v \in {f[k - 1]}})
           Obeys(f) == f = [k \in 0..m |-> step(f, k)]
           after == CHOOSE f : Obeys(f)
<1>1. ASSUME NEW f, NEW k
      PROVE  step(f, k) = StepOf(f, "advice", w, n, seq, k)
  <2>1. \A v : (IF v.state = "failed" THEN v
                     ELSE [ApplyAdvice(v, n, AdviceOf(seq[k])) EXCEPT
                              !.applied = Append(@, <<n, seq[k]>>)]) = FoldNext("advice", v, n, seq[k])
    BY DEF FoldNext, AdviceNext
  <2>2. {(IF v.state = "failed" THEN v
                     ELSE [ApplyAdvice(v, n, AdviceOf(seq[k])) EXCEPT
                              !.applied = Append(@, <<n, seq[k]>>)]) : v \in {f[k - 1]}} = {FoldNext("advice", v, n, seq[k]) : v \in {f[k - 1]}}
    BY <2>1
  <2> QED BY <2>2 DEF StepOf
<1>2. ASSUME NEW f
      PROVE  Obeys(f) <=> IsFold(f, "advice", w, n, seq, m)
  <2> HIDE DEF step
  <2> QED BY <1>1 DEF IsFold
<1>3. \E f : Obeys(f)
  <2> HIDE DEF Obeys
  <2> QED BY <1>2, FoldExists
<1>4. Obeys(after)
  <2> HIDE DEF Obeys
  <2> QED BY <1>3
<1>5. Chain(after, "advice", w, n, seq, m)
  <2> HIDE DEF after, Obeys
  <2> QED BY <1>2, <1>4, FoldIsChain
<1>6. ApplyAll(w, n, seq) = after[m]
  BY DEF Through, ApplyAll
<1> HIDE DEF after
<1> QED BY <1>5, <1>6

-----------------------------------------------------------------------------
(***************************************************************************)
(* What the state of a file keeps.  Imports and links are added to the       *)
(* references only.                                                         *)
(***************************************************************************)
Fields == {"state", "nodes", "packageName", "directives", "decls", "at", "todo", "root",
           "imports", "refs", "aliases", "uses", "synthetic", "lang", "modified", "applied"}
References == {"refs", "aliases", "uses"}

IsState(w) == w = [x \in Fields |-> w[x]]

OnlyRefers(w, v, paths) ==
  /\ IsState(v)
  /\ \A x \in Fields \ References : v[x] = w[x]
  /\ DOMAIN v.refs \subseteq DOMAIN w.refs \cup paths

LEMMA UseRefers ==
  ASSUME NEW w, IsState(w), NEW n, NEW path, NEW name
  PROVE  /\ IsState(Use(w, n, path, name))
         /\ \A x \in Fields \ {"uses"} : Use(w, n, path, name)[x] = w[x]
BY DEF Use, IsState, Fields

LEMMA AddImportRefers ==
  ASSUME NEW w, IsState(w), NEW n, NEW path, NEW name
  PROVE  OnlyRefers(w, AddImport(w, n, path, name), {path})
<1> DEFINE v == Use(w, n, path, name)
<1>1. IsState(v) /\ \A x \in Fields \ {"uses"} : v[x] = w[x]
  BY UseRefers
<1>2. "refs" \in Fields \ {"uses"} /\ "uses" \in References
  BY DEF Fields, References
<1>3. CASE ImportIsUsable(w, n, path, name)
  <2>1. AddImport(w, n, path, name) = v
    BY <1>3 DEF AddImport
  <2> HIDE DEF v
  <2> QED BY <1>1, <1>2, <2>1 DEF OnlyRefers
<1>4. CASE ~ImportIsUsable(w, n, path, name)
  <2> DEFINE refs == AddRef(w.refs, path, "ImportStatement")
  <2>1. PICK aliases : AddImport(w, n, path, name) = [v EXCEPT !.refs = refs, !.aliases = aliases]
    BY <1>4 DEF AddImport
  <2>2. DOMAIN refs = DOMAIN w.refs \cup {path}
    BY DEF AddRef
  <2> DEFINE u == [v EXCEPT !.refs = refs, !.aliases = aliases]
  <2>3. IsState(u) /\ u.refs = refs /\ \A x \in Fields \ References : u[x] = v[x]
    <3> HIDE DEF v, refs
    <3> QED BY <1>1 DEF IsState, Fields, References
  <2>4. \A x \in Fields \ References : u[x] = w[x]
    <3> HIDE DEF u, v
    <3> QED BY <1>1, <1>2, <2>3
  <2> HIDE DEF u, v, refs
  <2> QED BY <2>1, <2>2, <2>3, <2>4 DEF OnlyRefers, u
<1> QED BY <1>3, <1>4

LEMMA AddLinkRefers ==
  ASSUME NEW w, IsState(w), NEW path
  PROVE  OnlyRefers(w, AddLink(w, path), {path})
<1>1. CASE HasImport(w.imports, path)
  BY <1>1 DEF AddLink, OnlyRefers
<1>2. CASE ~HasImport(w.imports, path)
  <2> DEFINE refs == AddRef(w.refs, path, "RelocationTarget")
             v == [w EXCEPT !.refs = refs]
  <2>1. AddLink(w, path) = v
    BY <1>2 DEF AddLink
  <2>2. DOMAIN refs = DOMAIN w.refs \cup {path}
    BY DEF AddRef
  <2>3. IsState(v) /\ v.refs = refs /\ \A x \in Fields \ References : v[x] = w[x]
    <3> HIDE DEF refs
    <3> QED BY DEF IsState, Fields, References
  <2> HIDE DEF v, refs
  <2> QED BY <2>1, <2>2, <2>3 DEF OnlyRefers
<1> QED BY <1>1, <1>2

LEMMA RefersTwice ==
  ASSUME NEW w, NEW u, NEW v, NEW paths, OnlyRefers(w, u, paths), OnlyRefers(u, v, paths)
  PROVE  OnlyRefers(w, v, paths)
BY DEF OnlyRefers

LEMMA RefersToMore ==
  ASSUME NEW w, NEW v, NEW paths, NEW more, OnlyRefers(w, v, paths), paths \subseteq more
  PROVE  OnlyRefers(w, v, more)
BY DEF OnlyRefers

\* The paths that a fold of imports or links adds.
PathOf(fold, x) == IF fold = "imports" THEN x.path ELSE x

LEMMA ChainRefers ==
  ASSUME NEW f, NEW fold \in {"imports", "links"}, NEW w, IsState(w), NEW n, NEW seq,
         NEW m \in Nat, Chain(f, fold, w, n, seq, m),
         NEW paths, \A i \in 1..m : PathOf(fold, seq[i]) \in paths
  PROVE  OnlyRefers(w, f[m], paths)
<1> DEFINE Bad == {k \in 0..m : ~OnlyRefers(w, f[k], paths)}
<1> SUFFICES ASSUME Bad # {}
             PROVE  FALSE
  OBVIOUS
<1>1. Bad \in SUBSET Nat
  OBVIOUS
<1>2. PICK k \in Bad : \A l \in Bad : ~ (l < k)
  <2> HIDE DEF Bad
  <2> QED BY <1>1, LeastExists
<1>3. k # 0
  BY DEF Chain, OnlyRefers
<1>4. k \in 1..m /\ k - 1 \in 0..m /\ k - 1 < k
  BY <1>3
<1>5. OnlyRefers(w, f[k - 1], paths)
  BY <1>2, <1>4
<1>6. f[k] = FoldNext(fold, f[k - 1], n, seq[k])
  BY <1>4 DEF Chain
<1>7. IsState(f[k - 1])
  BY <1>5 DEF OnlyRefers
<1>8. OnlyRefers(f[k - 1], f[k], {PathOf(fold, seq[k])})
  BY <1>6, <1>7, AddImportRefers, AddLinkRefers DEF FoldNext, PathOf
<1>9. PathOf(fold, seq[k]) \in paths
  BY <1>4
<1>10. OnlyRefers(f[k - 1], f[k], paths)
  BY <1>8, <1>9, RefersToMore
<1>11. OnlyRefers(w, f[k], paths)
  BY <1>5, <1>10, RefersTwice
<1> QED BY <1>11

ImportPaths(template) == {imp.path : imp \in Range(template.imports)}

LEMMA SeqIndices ==
  ASSUME NEW s, IsSeq(s)
  PROVE  Len(s) \in Nat /\ DOMAIN s = 1..Len(s) /\ \A i \in 1..Len(s) : s[i] \in Range(s)
BY DEF IsSeq

LEMMA IndexedIsSeq ==
  ASSUME NEW s, NEW n \in Nat, s = [i \in 1..n |-> s[i]]
  PROVE  IsSeq(s) /\ Len(s) = n
<1>1. DOMAIN s = 1..n
  OBVIOUS
<1>2. \A i \in 1..n : s[i] \in Range(s)
  BY <1>1 DEF Range
<1>3. [i \in 1..n |-> s[i]] \in Seq(Range(s)) /\ Len([i \in 1..n |-> s[i]]) = n
  BY <1>2
<1> QED BY <1>3 DEF IsSeq

\* A template only adds to the references, unless it fails.
LEMMA CompileRefers ==
  ASSUME NEW w, IsState(w), NEW n, NEW template, IsSeq(template.imports)
  PROVE  \/ Compile(w, n, template) = Failed(w)
         \/ OnlyRefers(w, Compile(w, n, template), ImportPaths(template))
<1>1. CASE template.fails
  BY <1>1 DEF Compile
<1>2. CASE ~template.fails
  <2> DEFINE seq == template.imports
  <2>1. Len(seq) \in Nat /\ \A i \in 1..Len(seq) : seq[i] \in Range(seq)
    BY SeqIndices
  <2>2. PICK f : /\ Chain(f, "imports", w, n, seq, Len(seq))
                 /\ Compile(w, n, template) = f[Len(seq)]
    <3>1. Compile(w, n, template) = AddImports(w, n, seq)
      BY <1>2 DEF Compile, AddImports
    <3> HIDE DEF seq
    <3> QED BY <2>1, <3>1, ThroughImports
  <2>3. \A i \in 1..Len(seq) : PathOf("imports", seq[i]) \in ImportPaths(template)
    BY <2>1 DEF PathOf, ImportPaths
  <2> HIDE DEF seq
  <2>4. OnlyRefers(w, f[Len(seq)], ImportPaths(template))
    BY <2>1, <2>2, <2>3, ChainRefers
  <2> QED BY <2>2, <2>4
<1> QED BY <1>1, <1>2

LEMMA LinksRefer ==
  ASSUME NEW w, IsState(w), NEW links, IsSeq(links)
  PROVE  OnlyRefers(w, Through(AddLink, w, links), Range(links))
<1>1. Len(links) \in Nat /\ \A i \in 1..Len(links) : links[i] \in Range(links)
  BY SeqIndices
<1>2. PICK f : /\ Chain(f, "links", w, 0, links, Len(links))
               /\ Through(AddLink, w, links) = f[Len(links)]
  BY <1>1, ThroughLinks
<1>3. \A i \in 1..Len(links) : PathOf("links", links[i]) \in Range(links)
  BY <1>1 DEF PathOf
<1>4. OnlyRefers(w, f[Len(links)], Range(links))
  BY <1>1, <1>2, <1>3, ChainRefers
<1> QED BY <1>2, <1>4

-----------------------------------------------------------------------------
(***************************************************************************)
(* Advice.  Whatever it does, the references grow by what AddedImports tells *)
(* at most, and neither the language version nor `modified` is taken back.   *)
(***************************************************************************)
Cursor == {"at", "todo", "root", "imports", "synthetic", "packageName", "directives", "applied"}

Keeps(w, v, paths) ==
  /\ IsState(v)
  /\ \A x \in Cursor : v[x] = w[x]
  /\ DOMAIN v.refs \subseteq DOMAIN w.refs \cup paths
  /\ v.lang \in Nat /\ w.lang <= v.lang
  /\ w.modified => v.modified
  /\ v.state \in {w.state, "failed"}

IsGood(w) == IsState(w) /\ w.lang \in Nat

LEMMA KeepsIsGood ==
  ASSUME NEW w, NEW v, NEW paths, Keeps(w, v, paths)
  PROVE  IsGood(v)
BY DEF Keeps, IsGood

LEMMA KeepsTwice ==
  ASSUME NEW w, IsGood(w), NEW u, NEW v, NEW paths, Keeps(w, u, paths), Keeps(u, v, paths)
  PROVE  Keeps(w, v, paths)
<1>1. w.lang \in Nat /\ u.lang \in Nat /\ v.lang \in Nat
  BY DEF Keeps, IsGood
<1>2. w.lang <= v.lang
  BY <1>1 DEF Keeps
<1> QED BY <1>2 DEF Keeps

LEMMA KeepsMore ==
  ASSUME NEW w, NEW v, NEW paths, NEW more, Keeps(w, v, paths), paths \subseteq more
  PROVE  Keeps(w, v, more)
BY DEF Keeps

LEMMA RefersKeeps ==
  ASSUME NEW w, IsGood(w), NEW v, NEW paths, OnlyRefers(w, v, paths)
  PROVE  Keeps(w, v, paths)
<1>1. Cursor \cup {"lang", "modified", "state"} \subseteq Fields \ References
  BY DEF Cursor, Fields, References
<1> QED BY <1>1 DEF OnlyRefers, Keeps, IsGood

LEMMA FailedKeeps ==
  ASSUME NEW w, IsGood(w), NEW paths
  PROVE  Keeps(w, Failed(w), paths) /\ Failed(w).state = "failed"
<1> DEFINE v == Failed(w)
<1>1. /\ IsState(v) /\ v.state = "failed" /\ v.refs = w.refs /\ v.lang = w.lang
      /\ v.modified = w.modified /\ \A x \in Cursor : v[x] = w[x]
  BY DEF Failed, IsGood, IsState, Fields, Cursor
<1> HIDE DEF v
<1>2. Keeps(w, v, paths)
  BY <1>1 DEF Keeps, IsGood
<1> QED BY <1>1, <1>2 DEF v

LEMMA CompileKeeps ==
  ASSUME NEW w, IsGood(w), NEW n, NEW template, IsSeq(template.imports)
  PROVE  Keeps(w, Compile(w, n, template), ImportPaths(template))
BY CompileRefers, RefersKeeps, FailedKeeps DEF IsGood

LEMMA MaxOfTwo ==
  ASSUME NEW a \in Nat, NEW b \in Nat
  PROVE  Max({a, b}) \in Nat /\ a <= Max({a, b}) /\ b <= Max({a, b})
<1>1. \E x \in {a, b} : \A y \in {a, b} : x >= y
  OBVIOUS
<1>2. Max({a, b}) \in {a, b} /\ \A y \in {a, b} : Max({a, b}) >= y
  BY <1>1 DEF Max
<1> QED BY <1>2

\* What is woven with a template has its language version, and is written.
LEMMA EnsuredKeeps ==
  ASSUME NEW w, IsGood(w), NEW template, template.lang \in Nat, NEW paths
  PROVE  LET v == Mark(EnsureMinGoLang(w, template)) IN
         Keeps(w, v, paths) /\ v.modified /\ template.lang <= v.lang
<1> DEFINE lang == Max({w.lang, template.lang})
           v == Mark(EnsureMinGoLang(w, template))
<1>1. lang \in Nat /\ w.lang <= lang /\ template.lang <= lang
  BY MaxOfTwo DEF IsGood
<1>2. EnsureMinGoLang(w, template) = [w EXCEPT !.lang = lang]
  BY DEF EnsureMinGoLang
<1> HIDE DEF lang
<1>3. /\ IsState(v) /\ v.state = w.state /\ v.refs = w.refs /\ v.lang = lang
      /\ v.modified = TRUE /\ \A x \in Cursor : v[x] = w[x]
  BY <1>2 DEF Mark, IsGood, IsState, Fields, Cursor
<1> HIDE DEF v
<1>4. Keeps(w, v, paths) /\ v.modified /\ template.lang <= v.lang
  BY <1>1, <1>3 DEF Keeps
<1> QED BY <1>4 DEF v

LEMMA EnsureKeeps ==
  ASSUME NEW w, IsGood(w), NEW template, template.lang \in Nat, NEW paths
  PROVE  LET v == EnsureMinGoLang(w, template) IN
         Keeps(w, v, paths) /\ template.lang <= v.lang
<1> DEFINE lang == Max({w.lang, template.lang})
           v == EnsureMinGoLang(w, template)
<1>1. lang \in Nat /\ w.lang <= lang /\ template.lang <= lang
  BY MaxOfTwo DEF IsGood
<1>2. v = [w EXCEPT !.lang = lang]
  BY DEF EnsureMinGoLang
<1> HIDE DEF lang, v
<1>3. /\ IsState(v) /\ v.state = w.state /\ v.refs = w.refs /\ v.lang = lang
      /\ v.modified = w.modified /\ \A x \in Cursor : v[x] = w[x]
  BY <1>2 DEF IsGood, IsState, Fields, Cursor
<1>4. Keeps(w, v, paths) /\ template.lang <= v.lang
  BY <1>1, <1>3 DEF Keeps
<1> QED BY <1>4 DEF v

LEMMA MarkKeeps ==
  ASSUME NEW w, IsGood(w), NEW paths
  PROVE  Keeps(w, Mark(w), paths) /\ Mark(w).modified
<1> DEFINE v == Mark(w)
<1>1. /\ IsState(v) /\ v.state = w.state /\ v.refs = w.refs /\ v.lang = w.lang
      /\ v.modified = TRUE /\ \A x \in Cursor : v[x] = w[x]
  BY DEF Mark, IsGood, IsState, Fields, Cursor
<1> HIDE DEF v
<1>2. Keeps(w, v, paths)
  BY <1>1 DEF Keeps, IsGood
<1> QED BY <1>1, <1>2 DEF v

LEMMA NodesKept ==
  ASSUME NEW w, IsGood(w), NEW nodes, NEW paths
  PROVE  Keeps(w, [w EXCEPT !.nodes = nodes], paths)
<1> DEFINE v == [w EXCEPT !.nodes = nodes]
<1>1. /\ IsState(v) /\ v.state = w.state /\ v.refs = w.refs /\ v.lang = w.lang
      /\ v.modified = w.modified /\ \A x \in Cursor : v[x] = w[x]
  BY DEF IsGood, IsState, Fields, Cursor
<1> HIDE DEF v
<1>2. Keeps(w, v, paths)
  BY <1>1 DEF Keeps, IsGood
<1> QED BY <1>2 DEF v

LEMMA DeclsKept ==
  ASSUME NEW w, IsGood(w), NEW nodes, NEW decls, NEW paths
  PROVE  Keeps(w, [w EXCEPT !.nodes = nodes, !.decls = decls], paths)
<1> DEFINE v == [w EXCEPT !.nodes = nodes, !.decls = decls]
<1>1. /\ IsState(v) /\ v.state = w.state /\ v.refs = w.refs /\ v.lang = w.lang
      /\ v.modified = w.modified /\ \A x \in Cursor : v[x] = w[x]
  BY DEF IsGood, IsState, Fields, Cursor
<1> HIDE DEF v
<1>2. Keeps(w, v, paths)
  BY <1>1 DEF Keeps, IsGood
<1> QED BY <1>2 DEF v

LEMMA ImportTypeKeeps ==
  ASSUME NEW w, IsGood(w), NEW n, NEW path
  PROVE  Keeps(w, ImportType(w, n, path), {path} \ {""})
<1>1. CASE path = ""
  BY <1>1, RefersKeeps DEF ImportType, OnlyRefers, IsGood
<1>2. CASE path # ""
  <2>1. OnlyRefers(w, AddImport(w, n, path, path), {path})
    BY AddImportRefers DEF IsGood
  <2>2. {path} \ {""} = {path}
    BY <1>2
  <2> QED BY <1>2, <2>1, <2>2, RefersKeeps DEF ImportType
<1> QED BY <1>1, <1>2

\* What ApplyAdvice may do to w.
Advised(w, v, adv) ==
  /\ Keeps(w, v, AdviceImports(adv) \cup {"unsafe"})
  /\ v.state = "failed" \/ (UsesTemplate(adv) => v.modified /\ adv.template.lang <= v.lang)

LEMMA EnsuredAdvises ==
  ASSUME NEW w, IsGood(w), NEW u, NEW adv, adv.template.lang \in Nat,
         Keeps(w, u, AdviceImports(adv) \cup {"unsafe"})
  PROVE  Advised(w, Mark(EnsureMinGoLang(u, adv.template)), adv)
<1> DEFINE v == Mark(EnsureMinGoLang(u, adv.template))
           paths == AdviceImports(adv) \cup {"unsafe"}
<1>1. IsGood(u)
  BY KeepsIsGood
<1>2. Keeps(u, v, paths) /\ v.modified /\ adv.template.lang <= v.lang
  BY <1>1, EnsuredKeeps
<1> HIDE DEF v
<1>3. Keeps(w, v, paths)
  BY <1>2, KeepsTwice
<1>4. Advised(w, v, adv)
  BY <1>2, <1>3 DEF Advised
<1> QED BY <1>4 DEF v

LEMMA TemplateKeeps ==
  ASSUME NEW w, IsGood(w), NEW n, NEW adv, IsAdvice(adv),
         adv.kind \in {"prepend-statements", "wrap-expression", "assign-value",
                       "append-args", "inject-declarations"}
  PROVE  Keeps(w, Compile(w, n, adv.template), AdviceImports(adv) \cup {"unsafe"})
<1>1. IsSeq(adv.template.imports)
  BY DEF IsAdvice
<1>2. ImportPaths(adv.template) \subseteq AdviceImports(adv)
  BY DEF AdviceImports, ImportPaths
<1> QED BY <1>1, <1>2, CompileKeeps, KeepsMore

LEMMA AppliedAdvises ==
  ASSUME NEW w, IsGood(w), NEW n, NEW adv, IsAdvice(adv)
  PROVE  Advised(w, ApplyAdvice(w, n, adv), adv)
<1> DEFINE paths == AdviceImports(adv) \cup {"unsafe"}
           template == adv.template
<1>1. template.lang \in Nat /\ IsSeq(template.imports) /\ IsSeq(adv.links) /\ adv.kind \in AdviceKinds
  BY DEF IsAdvice
<1>2. CASE ~Applies(w, n, adv)
  <2>1. ApplyAdvice(w, n, adv) = Failed(w)
    BY <1>2 DEF ApplyAdvice
  <2> QED BY <2>1, FailedKeeps DEF Advised
<1>3. CASE Applies(w, n, adv) /\ adv.kind \in {"prepend-statements", "assign-value"}
  <2>1. ApplyAdvice(w, n, adv) = Mark(EnsureMinGoLang(Compile(w, n, template), template))
    BY <1>3 DEF ApplyAdvice, PrependStatements, AssignValue
  <2>2. Keeps(w, Compile(w, n, template), paths)
    BY <1>3, TemplateKeeps
  <2> QED BY <1>1, <2>1, <2>2, EnsuredAdvises
<1>4. CASE Applies(w, n, adv) /\ adv.kind = "wrap-expression"
  <2> DEFINE at == IF w.nodes[n].kind = "KeyValueExpr"
                   THEN CHOOSE c \in Child(w, n, "Value") : TRUE ELSE n
             v == Compile(w, at, template)
             u == [v EXCEPT !.nodes[at] = Replacement(w, at, template)]
  <2>1. ApplyAdvice(w, n, adv) = Mark(EnsureMinGoLang(u, template))
    BY <1>4 DEF ApplyAdvice, WrapExpression
  <2>2. Keeps(w, v, paths)
    BY <1>4, TemplateKeeps
  <2>3. \E nodes : u = [v EXCEPT !.nodes = nodes]
    <3> HIDE DEF v, at
    <3> QED OBVIOUS
  <2>4. Keeps(v, u, paths)
    <3> HIDE DEF v, u, paths
    <3> QED BY <2>2, <2>3, NodesKept, KeepsIsGood
  <2>5. Keeps(w, u, paths)
    <3> HIDE DEF v, u, paths
    <3> QED BY <2>2, <2>4, KeepsTwice
  <2> HIDE DEF u
  <2> QED BY <1>1, <2>1, <2>5, EnsuredAdvises
<1>5. CASE Applies(w, n, adv) /\ adv.kind = "inject-declarations"
  <2> DEFINE v == Compile(w, n, template)
             last == Len(w.nodes)
             new == [i \in DOMAIN adv.decls |->
                       [adv.decls[i] EXCEPT !.parent = IF @ = 0 THEN w.root ELSE last + @]]
             roots == Among([i \in DOMAIN new |-> last + i],
                            {last + i : i \in {j \in DOMAIN new : adv.decls[j].parent = 0}})
             grown == [v EXCEPT !.nodes = @ \o new, !.decls = @ \o roots]
             unsafe == AddImport(grown, n, "unsafe", "_")
             linked == IF adv.links = << >> THEN grown ELSE Through(AddLink, unsafe, adv.links)
  <2>1. ApplyAdvice(w, n, adv) = IF adv.decls = << >> THEN v
                                 ELSE Mark(EnsureMinGoLang(linked, template))
    BY <1>5 DEF ApplyAdvice, InjectDeclarations
  <2>2. Keeps(w, v, paths)
    BY <1>5, TemplateKeeps
  <2>3. CASE adv.decls = << >>
    <3> HIDE DEF v, paths
    <3>1. ~UsesTemplate(adv)
      BY <1>5, <2>3 DEF UsesTemplate
    <3> QED BY <2>1, <2>2, <2>3, <3>1 DEF Advised, paths
  <2>4. CASE adv.decls # << >>
    <3>1. Keeps(w, grown, paths)
      <4>1. PICK nodes, decls : grown = [v EXCEPT !.nodes = nodes, !.decls = decls]
        <5> HIDE DEF v, new, roots
        <5> QED OBVIOUS
      <4> HIDE DEF v, grown, paths
      <4>2. Keeps(v, grown, paths)
        BY <2>2, <4>1, DeclsKept, KeepsIsGood
      <4> QED BY <2>2, <4>2, KeepsTwice
    <3>2. Keeps(w, linked, paths)
      <4> HIDE DEF grown, v
      <4>1. IsGood(grown)
        BY <3>1, KeepsIsGood
      <4>2. OnlyRefers(grown, unsafe, {"unsafe"})
        BY <4>1, AddImportRefers DEF IsGood
      <4>3. IsState(unsafe)
        BY <4>2 DEF OnlyRefers
      <4>4. OnlyRefers(unsafe, Through(AddLink, unsafe, adv.links), Range(adv.links))
        <5> HIDE DEF unsafe
        <5> QED BY <1>1, <4>3, LinksRefer
      <4>5. Range(adv.links) \subseteq paths /\ {"unsafe"} \subseteq paths
        BY <1>5 DEF AdviceImports
      <4>6. OnlyRefers(grown, Through(AddLink, unsafe, adv.links), paths)
        <5> HIDE DEF unsafe, paths
        <5> QED BY <4>2, <4>4, <4>5, RefersTwice, RefersToMore
      <4>7. Keeps(grown, Through(AddLink, unsafe, adv.links), paths)
        <5> HIDE DEF unsafe, paths
        <5> QED BY <4>1, <4>6, RefersKeeps
      <4> HIDE DEF unsafe, paths
      <4> QED BY <3>1, <4>7, KeepsTwice
    <3> HIDE DEF linked
    <3> QED BY <1>1, <2>1, <2>4, <3>2, EnsuredAdvises
  <2> QED BY <2>3, <2>4
<1>6. CASE Applies(w, n, adv) /\ adv.kind = "add-struct-field"
  <2> DEFINE v == ImportType(w, n, adv.path)
  <2>1. ApplyAdvice(w, n, adv) = Mark(v)
    BY <1>6 DEF ApplyAdvice, AddStructField
  <2>2. {adv.path} \ {""} \subseteq paths /\ ~UsesTemplate(adv)
    BY <1>6 DEF AdviceImports, UsesTemplate
  <2>3. Keeps(w, v, paths)
    BY <2>2, ImportTypeKeeps, KeepsMore
  <2> HIDE DEF v, paths
  <2>4. Keeps(v, Mark(v), paths)
    BY <2>3, MarkKeeps, KeepsIsGood
  <2>5. Keeps(w, Mark(v), paths)
    BY <2>3, <2>4, KeepsTwice
  <2> QED BY <2>1, <2>2, <2>5 DEF Advised, paths
<1>7. CASE Applies(w, n, adv) /\ adv.kind = "append-args"
  <2> DEFINE c == Compile(w, n, template)
             v == EnsureMinGoLang(c, template)
             u == IF w.nodes[n].ellipsis THEN ImportType(v, n, adv.path) ELSE v
  <2>1. ApplyAdvice(w, n, adv) = Mark(u)
    BY <1>7 DEF ApplyAdvice, AppendArgs
  <2>2. {adv.path} \ {""} \subseteq paths
    BY <1>7 DEF AdviceImports
  <2>3. Keeps(w, c, paths)
    BY <1>7, TemplateKeeps
  <2>4. Keeps(c, v, paths) /\ template.lang <= v.lang
    <3> HIDE DEF c, paths
    <3> QED BY <1>1, <2>3, EnsureKeeps, KeepsIsGood
  <2>5. Keeps(w, v, paths) /\ v.lang \in Nat
    <3> HIDE DEF c, v, paths
    <3> QED BY <2>3, <2>4, KeepsTwice DEF Keeps
  <2>6. IsGood(v)
    <3> HIDE DEF v, paths
    <3> QED BY <2>5, KeepsIsGood
  <2>7. Keeps(v, u, paths)
    <3>1. Keeps(v, ImportType(v, n, adv.path), paths)
      <4> HIDE DEF v, paths
      <4> QED BY <2>2, <2>6, ImportTypeKeeps, KeepsMore
    <3>2. Keeps(v, v, paths)
      <4> HIDE DEF v
      <4> QED BY <2>6 DEF Keeps, IsGood
    <3> HIDE DEF v, paths
    <3> QED BY <3>1, <3>2
  <2>8. IsGood(u)
    <3> HIDE DEF u, v, paths
    <3> QED BY <2>7, KeepsIsGood
  <2>9. Keeps(u, Mark(u), paths) /\ Mark(u).modified
    <3> HIDE DEF u, paths
    <3> QED BY <2>8, MarkKeeps
  <2>10. Keeps(v, Mark(u), paths)
    <3> HIDE DEF u, v, paths
    <3> QED BY <2>6, <2>7, <2>9, KeepsTwice
  <2>11. Keeps(w, Mark(u), paths)
    <3> HIDE DEF u, v, paths
    <3> QED BY <2>5, <2>10, KeepsTwice
  <2>12. template.lang <= Mark(u).lang
    <3> HIDE DEF u, v
    <3> QED BY <1>1, <2>4, <2>5, <2>10 DEF Keeps
  <2> HIDE DEF u
  <2> QED BY <2>1, <2>9, <2>11, <2>12 DEF Advised
<1>8. CASE Applies(w, n, adv) /\ adv.kind = "replace-function"
  <2> DEFINE v == [w EXCEPT !.nodes[n].form = "Ident", !.nodes[n].path = adv.path,
                            !.nodes[n].name = adv.name]
             u == ImportType(v, n, adv.path)
             called == [w EXCEPT !.nodes[n].form = "Ident"]
             moved == [called EXCEPT !.nodes[n].path = adv.path]
  <2>1. ApplyAdvice(w, n, adv) = Mark(u)
    BY <1>8 DEF ApplyAdvice, ReplaceFunction
  <2>2. {adv.path} \ {""} \subseteq paths /\ ~UsesTemplate(adv)
    BY <1>8 DEF AdviceImports, UsesTemplate
  <2>3. v = [moved EXCEPT !.nodes[n].name = adv.name]
    OBVIOUS
  <2> HIDE DEF v
  <2>4. Keeps(w, v, paths)
    <3>1. PICK nodes : called = [w EXCEPT !.nodes = nodes]
      OBVIOUS
    <3> HIDE DEF called
    <3>2. PICK later : moved = [called EXCEPT !.nodes = later]
      OBVIOUS
    <3> HIDE DEF moved
    <3>3. PICK last : v = [moved EXCEPT !.nodes = last]
      BY <2>3
    <3> HIDE DEF paths
    <3>4. Keeps(w, called, paths)
      BY <3>1, NodesKept
    <3>5. Keeps(called, moved, paths)
      BY <3>2, <3>4, NodesKept, KeepsIsGood
    <3>6. Keeps(w, moved, paths)
      BY <3>4, <3>5, KeepsTwice
    <3>7. Keeps(moved, v, paths)
      BY <3>3, <3>6, NodesKept, KeepsIsGood
    <3> QED BY <3>6, <3>7, KeepsTwice
  <2>5. Keeps(v, u, paths)
    BY <2>2, <2>4, ImportTypeKeeps, KeepsMore, KeepsIsGood
  <2> HIDE DEF u, paths
  <2>6. Keeps(w, u, paths)
    BY <2>4, <2>5, KeepsTwice
  <2>7. Keeps(u, Mark(u), paths)
    BY <2>6, MarkKeeps, KeepsIsGood
  <2>8. Keeps(w, Mark(u), paths)
    BY <2>6, <2>7, KeepsTwice
  <2> QED BY <2>1, <2>2, <2>8 DEF Advised, paths
<1>9. CASE Applies(w, n, adv) /\ adv.kind = "add-blank-import"
  <2>1. ApplyAdvice(w, n, adv) = IF ImportIsUsable(w, n, adv.path, "_") THEN w
                                 ELSE Mark(AddImport(w, n, adv.path, "_"))
    BY <1>9 DEF ApplyAdvice, AddBlankImport
  <2>2. {adv.path} \subseteq paths /\ ~UsesTemplate(adv)
    BY <1>9 DEF AdviceImports, UsesTemplate, IsAdvice
  <2> DEFINE v == AddImport(w, n, adv.path, "_")
  <2>3. OnlyRefers(w, v, {adv.path})
    BY AddImportRefers DEF IsGood
  <2> HIDE DEF v, paths
  <2>4. Keeps(w, v, paths)
    BY <2>2, <2>3, RefersKeeps, KeepsMore
  <2>5. Keeps(v, Mark(v), paths)
    BY <2>4, MarkKeeps, KeepsIsGood
  <2>6. Keeps(w, Mark(v), paths)
    BY <2>4, <2>5, KeepsTwice
  <2>7. Keeps(w, w, paths)
    BY DEF Keeps, IsGood
  <2> QED BY <2>1, <2>2, <2>6, <2>7 DEF Advised, paths, v
<1> QED BY <1>1, <1>2, <1>3, <1>4, <1>5, <1>6, <1>7, <1>8, <1>9 DEF AdviceKinds

-----------------------------------------------------------------------------
(***************************************************************************)
(* The order of advice: IsBefore is a strict total order, so that there is  *)
(* one element of each rank, and Sorted is a permutation.                   *)
(***************************************************************************)
\* The advice of some aspects.
IdsOf(S) == UNION {{<<a, i>> : i \in DOMAIN world.aspects[a].advice} : a \in S}

LEMMA AdviceIsAdvice ==
  ASSUME world \in worlds, NEW S \in SUBSET Aspects, NEW id \in IdsOf(S)
  PROVE  /\ id = <<id[1], id[2]>> /\ id[1] \in S /\ id[1] \in Aspects
         /\ id[2] \in DOMAIN world.aspects[id[1]].advice
         /\ AdviceOf(id) \in Range(world.aspects[id[1]].advice)
         /\ IsAdvice(AdviceOf(id))
<1>1. PICK a \in S : id \in {<<a, i>> : i \in DOMAIN world.aspects[a].advice}
  BY DEF IdsOf
<1>2. PICK i \in DOMAIN world.aspects[a].advice : id = <<a, i>>
  BY <1>1
<1>3. a \in Aspects
  OBVIOUS
<1>4. id[1] = a /\ id[2] = i
  BY <1>2
<1>5. world.aspects[a] \in Range(world.aspects)
  BY <1>3 DEF Range, Aspects
<1>6. \A adv \in Range(world.aspects[a].advice) : IsAdvice(adv)
  BY <1>5, WorldsAssumption
<1>7. AdviceOf(id) \in Range(world.aspects[a].advice)
  BY <1>4 DEF AdviceOf, Range
<1> QED BY <1>2, <1>3, <1>4, <1>6, <1>7

LEMMA BeforeIsOrder ==
  ASSUME NEW n \in Nat, NEW ids,
         \A i \in 1..n : AdviceOf(ids[i]).namespace \in Int /\ AdviceOf(ids[i]).order \in Int
  PROVE  /\ \A i \in 1..n : ~IsBefore(ids, i, i)
         /\ \A i, j \in 1..n : i # j => IsBefore(ids, i, j) \/ IsBefore(ids, j, i)
         /\ \A i, j, k \in 1..n : IsBefore(ids, i, j) /\ IsBefore(ids, j, k) => IsBefore(ids, i, k)
<1> DEFINE ns(i) == AdviceOf(ids[i]).namespace
           ord(i) == AdviceOf(ids[i]).order
<1>1. \A i, j : IsBefore(ids, i, j) <=> \/ ns(i) < ns(j)
                                        \/ ns(i) = ns(j) /\ ord(i) < ord(j)
                                        \/ ns(i) = ns(j) /\ ord(i) = ord(j) /\ i < j
  BY DEF IsBefore
<1>2. \A i \in 1..n : ns(i) \in Int /\ ord(i) \in Int
  OBVIOUS
<1> HIDE DEF ns, ord
<1>3. \A i \in 1..n : ~IsBefore(ids, i, i)
  BY <1>1, <1>2
<1>4. \A i, j \in 1..n : i # j => IsBefore(ids, i, j) \/ IsBefore(ids, j, i)
  BY <1>1, <1>2
<1>5. \A i, j, k \in 1..n : IsBefore(ids, i, j) /\ IsBefore(ids, j, k) => IsBefore(ids, i, k)
  BY <1>1, <1>2
<1> QED BY <1>3, <1>4, <1>5

\* How many are before i.
Rank(ids, n, i) == Cardinality({j \in 1..n : IsBefore(ids, j, i)})

LEMMA RanksAreTaken ==
  ASSUME NEW n \in Nat, NEW ids,
         \A i \in 1..n : AdviceOf(ids[i]).namespace \in Int /\ AdviceOf(ids[i]).order \in Int,
         NEW k \in 1..n
  PROVE  \E i \in 1..n : Rank(ids, n, i) = k - 1
<1> DEFINE D == 1..n
           before(i) == {j \in D : IsBefore(ids, j, i)}
           rank == [i \in D |-> Rank(ids, n, i)]
<1>1. IsFiniteSet(D) /\ Cardinality(D) = n
  BY FS_Interval
<1>2. IsFiniteSet(0..n - 1) /\ Cardinality(0..n - 1) = n
  BY FS_Interval
<1>3. ASSUME NEW i \in D
      PROVE  IsFiniteSet(before(i)) /\ Rank(ids, n, i) \in 0..n - 1
  <2>1. before(i) \in SUBSET D /\ i \notin before(i)
    BY BeforeIsOrder
  <2>2. IsFiniteSet(before(i)) /\ Cardinality(before(i)) <= n /\ (n = Cardinality(before(i)) => D = before(i))
    BY <1>1, <2>1, FS_Subset
  <2>3. Cardinality(before(i)) \in Nat
    BY <2>2, FS_CardinalityType
  <2>4. Cardinality(before(i)) # n
    BY <2>1, <2>2
  <2> QED BY <2>2, <2>3, <2>4 DEF Rank
<1>4. ASSUME NEW i \in D, NEW j \in D, IsBefore(ids, i, j)
      PROVE  rank[i] # rank[j]
  <2>1. before(i) \subseteq before(j) /\ i \in before(j) /\ i \notin before(i)
    BY <1>4, BeforeIsOrder
  <2>2. before(i) \in SUBSET before(j) /\ before(i) # before(j)
    BY <2>1
  <2>3. Cardinality(before(j)) # Cardinality(before(i))
    <3> HIDE DEF before
    <3> QED BY <1>3, <2>2, FS_Subset
  <2> QED BY <2>3 DEF Rank
<1>5. rank \in [D -> 0..n - 1]
  BY <1>3
<1>6. \A i, j \in D : rank[i] = rank[j] => i = j
  <2> HIDE DEF rank
  <2> QED BY <1>4, BeforeIsOrder
<1>7. rank \in Injection(D, 0..n - 1)
  <2> HIDE DEF rank
  <2> QED BY <1>5, <1>6 DEF Injection, IsInjective
<1>8. rank \in Surjection(D, 0..n - 1)
  <2> HIDE DEF rank
  <2> QED BY <1>1, <1>2, <1>7, FS_Injection
<1>9. k - 1 \in 0..n - 1
  OBVIOUS
<1>10. \E i \in D : rank[i] = k - 1
  <2> HIDE DEF rank
  <2> QED BY <1>8, <1>9 DEF Surjection
<1> QED BY <1>10

LEMMA SortedIsPermutation ==
  ASSUME NEW T, NEW ids \in Seq(T),
         \A id \in T : AdviceOf(id).namespace \in Int /\ AdviceOf(id).order \in Int
  PROVE  /\ Sorted(ids) \in Seq(T) /\ Len(Sorted(ids)) = Len(ids)
         /\ \E at \in [1..Len(ids) -> 1..Len(ids)] :
               /\ \A k \in 1..Len(ids) : Sorted(ids)[k] = ids[at[k]]
               /\ \A k, l \in 1..Len(ids) : at[k] = at[l] => k = l
<1> DEFINE n == Len(ids)
           at == [k \in 1..n |-> CHOOSE i \in 1..n : Rank(ids, n, i) = k - 1]
<1>1. n \in Nat /\ DOMAIN ids = 1..n /\ \A i \in 1..n : ids[i] \in T
  OBVIOUS
<1>2. \A i \in 1..n : AdviceOf(ids[i]).namespace \in Int /\ AdviceOf(ids[i]).order \in Int
  BY <1>1
<1>3. \A k \in 1..n : at[k] \in 1..n /\ Rank(ids, n, at[k]) = k - 1
  <2> SUFFICES ASSUME NEW k \in 1..n
               PROVE  at[k] \in 1..n /\ Rank(ids, n, at[k]) = k - 1
    OBVIOUS
  <2>1. \E i \in 1..n : Rank(ids, n, i) = k - 1
    <3> HIDE DEF n
    <3> QED BY <1>1, <1>2, RanksAreTaken
  <2>2. at[k] = CHOOSE i \in 1..n : Rank(ids, n, i) = k - 1
    OBVIOUS
  <2> HIDE DEF at, n
  <2> QED BY <2>1, <2>2
<1>4. Sorted(ids) = [k \in 1..n |-> ids[at[k]]]
  <2>1. Sorted(ids) = [k \in DOMAIN ids |-> ids[CHOOSE i \in DOMAIN ids : Rank(ids, n, i) = k - 1]]
    BY <1>1 DEF Sorted, Rank
  <2> QED BY <1>1, <2>1
<1>5. at \in [1..n -> 1..n]
  <2>1. at = [k \in 1..n |-> at[k]]
    OBVIOUS
  <2> HIDE DEF at, n
  <2> QED BY <1>3, <2>1
<1>6. \A k, l \in 1..n : at[k] = at[l] => k = l
  <2> HIDE DEF at, n
  <2>1. \A k \in 1..n : k = Rank(ids, n, at[k]) + 1
    BY <1>1, <1>3
  <2> QED BY <2>1
<1>7. Sorted(ids) \in Seq(T) /\ Len(Sorted(ids)) = n
  <2> HIDE DEF at, n
  <2>1. \A k \in 1..n : ids[at[k]] \in T
    BY <1>1, <1>5
  <2> QED BY <1>1, <1>4, <2>1
<1>8. \A k \in 1..n : Sorted(ids)[k] = ids[at[k]]
  <2> HIDE DEF at, n
  <2> QED BY <1>4
<1> HIDE DEF at
<1> QED BY <1>5, <1>6, <1>7, <1>8

\* The advice that is applied at a node is that of the aspects that may match.
LEMMA AdviceAtIds ==
  ASSUME world \in worlds, NEW S \in SUBSET Aspects, NEW aspects \in Seq(S), NEW w, NEW n
  PROVE  AdviceAt(w, n, aspects) \in Seq(IdsOf(S))
<1> DEFINE matches == Matches(world, w)
           hit == {a \in Aspects : matches[Point(a), n, world.pkg.testMain]}
           matching == Among(aspects, hit)
           of(a) == [i \in DOMAIN world.aspects[a].advice |-> <<a, i>>]
           seqs == [k \in DOMAIN matching |-> of(matching[k])]
<1>1. matching \in Seq(S)
  <2> HIDE DEF hit
  <2> QED BY AmongRange
<1>2. ASSUME NEW a \in S
      PROVE  of(a) \in Seq(IdsOf(S))
  <2>1. world.aspects[a] \in Range(world.aspects)
    BY <1>2 DEF Range, Aspects
  <2>2. IsSeq(world.aspects[a].advice)
    BY <2>1, WorldsAssumption
  <2>3. Len(world.aspects[a].advice) \in Nat /\ DOMAIN world.aspects[a].advice = 1..Len(world.aspects[a].advice)
    BY <2>2, SeqIndices
  <2>4. \A i \in DOMAIN world.aspects[a].advice : <<a, i>> \in IdsOf(S)
    BY <1>2 DEF IdsOf
  <2> QED BY <2>3, <2>4
<1>3. AdviceAt(w, n, aspects) = FlattenSeq(seqs)
  BY DEF AdviceAt
<1>4. seqs \in Seq(Seq(IdsOf(S)))
  <2> HIDE DEF matching, of
  <2>1. \A k \in DOMAIN matching : matching[k] \in S
    BY <1>1
  <2>2. \A k \in DOMAIN matching : of(matching[k]) \in Seq(IdsOf(S))
    BY <1>2, <2>1
  <2>3. Len(matching) \in Nat /\ DOMAIN matching = 1..Len(matching)
    BY <1>1
  <2> QED BY <2>2, <2>3
<1> HIDE DEF seqs
<1> QED BY <1>3, <1>4, FlattenElements

LEMMA SortedAdvice ==
  ASSUME world \in worlds, NEW S \in SUBSET Aspects, NEW aspects \in Seq(S), NEW w, NEW n
  PROVE  Sorted(AdviceAt(w, n, aspects)) \in Seq(IdsOf(S))
<1>1. AdviceAt(w, n, aspects) \in Seq(IdsOf(S))
  BY AdviceAtIds
<1>2. \A id \in IdsOf(S) : AdviceOf(id).namespace \in Int /\ AdviceOf(id).order \in Int
  BY AdviceIsAdvice DEF IsAdvice
<1> QED BY <1>1, <1>2, SortedIsPermutation

-----------------------------------------------------------------------------
(***************************************************************************)
(* The traversal of a file keeps FileInv: the version covers what was        *)
(* applied, and the references are what advice may add.                      *)
(***************************************************************************)
RefsOf(S) == (UNION {AdviceImports(AdviceOf(id)) : id \in IdsOf(S)}) \cup {"unsafe"}

Covers(w) ==
  \A app \in Range(w.applied) :
      UsesTemplate(AdviceOf(app[2])) =>
          w.modified /\ AdviceOf(app[2]).template.lang <= w.lang

FileInv(w, S) ==
  /\ IsGood(w)
  /\ IsSeq(w.applied) /\ \A app \in Range(w.applied) : app[2] \in IdsOf(S)
  /\ w.state # "failed" => Covers(w)
  /\ DOMAIN w.refs \subseteq RefsOf(S)

LEMMA AppendIsSeq ==
  ASSUME NEW s, IsSeq(s), NEW x
  PROVE  IsSeq(Append(s, x)) /\ Range(Append(s, x)) = Range(s) \cup {x}
<1> DEFINE T == Range(s) \cup {x}
<1>1. s \in Seq(T)
  <2>1. Len(s) \in Nat /\ s = [i \in 1..Len(s) |-> s[i]] /\ \A i \in 1..Len(s) : s[i] \in Range(s)
    BY DEF IsSeq
  <2> QED BY <2>1
<1>2. Append(s, x) \in Seq(T) /\ ToSet(Append(s, x)) = ToSet(s) \cup {x}
  <2> HIDE DEF T
  <2>1. x \in T
    BY DEF T
  <2> QED BY <1>1, <2>1, AppendElements
<1>3. Range(Append(s, x)) = T
  BY <1>2 DEF ToSet, Range
<1> QED BY <1>2, <1>3 DEF IsSeq

LEMMA FileInvKept ==
  ASSUME NEW S, NEW w, FileInv(w, S), NEW v, IsState(v),
         v.lang = w.lang, v.applied = w.applied, v.refs = w.refs,
         w.modified => v.modified, v.state # "failed" => w.state # "failed"
  PROVE  FileInv(v, S)
BY DEF FileInv, IsGood, Covers

LEMMA NextKeepsFileInv ==
  ASSUME world \in worlds, NEW S \in SUBSET Aspects, NEW w, FileInv(w, S), NEW n,
         NEW id \in IdsOf(S)
  PROVE  /\ FileInv(AdviceNext(w, n, id), S)
         /\ AdviceNext(w, n, id).state \in {w.state, "failed"}
<1>1. CASE w.state = "failed"
  BY <1>1 DEF AdviceNext
<1>2. CASE w.state # "failed"
  <2> DEFINE adv == AdviceOf(id)
             v == ApplyAdvice(w, n, adv)
             u == [v EXCEPT !.applied = Append(@, <<n, id>>)]
  <2>1. AdviceNext(w, n, id) = u
    BY <1>2 DEF AdviceNext
  <2>2. IsAdvice(adv) /\ adv.template.lang \in Nat
    BY AdviceIsAdvice DEF IsAdvice
  <2>3. IsGood(w) /\ IsSeq(w.applied) /\ w.lang \in Nat
    BY DEF FileInv, IsGood
  <2>4. Advised(w, v, adv)
    BY <2>2, <2>3, AppliedAdvises
  <2> HIDE DEF v, adv
  <2>5. /\ IsState(v) /\ v.applied = w.applied /\ v.lang \in Nat /\ w.lang <= v.lang
        /\ w.modified => v.modified
        /\ v.state \in {w.state, "failed"}
        /\ DOMAIN v.refs \subseteq DOMAIN w.refs \cup AdviceImports(adv) \cup {"unsafe"}
        /\ v.state = "failed" \/ (UsesTemplate(adv) => v.modified /\ adv.template.lang <= v.lang)
    BY <2>4 DEF Advised, Keeps, Cursor
  <2>6. /\ IsState(u) /\ u.applied = Append(w.applied, <<n, id>>)
        /\ u.lang = v.lang /\ u.modified = v.modified /\ u.refs = v.refs /\ u.state = v.state
    BY <2>5 DEF IsState, Fields
  <2> HIDE DEF u
  <2>7. IsSeq(u.applied) /\ Range(u.applied) = Range(w.applied) \cup {<<n, id>>}
    BY <2>3, <2>6, AppendIsSeq
  <2>8. \A app \in Range(u.applied) : app[2] \in IdsOf(S)
    BY <2>7 DEF FileInv
  <2>9. u.state # "failed" => Covers(u)
    <3> SUFFICES ASSUME u.state # "failed", NEW app \in Range(u.applied),
                        UsesTemplate(AdviceOf(app[2]))
                 PROVE  u.modified /\ AdviceOf(app[2]).template.lang <= u.lang
      BY DEF Covers
    <3>1. CASE app = <<n, id>>
      <4>1. AdviceOf(app[2]) = adv
        BY <3>1 DEF adv
      <4> QED BY <2>5, <2>6, <4>1
    <3>2. CASE app \in Range(w.applied)
      <4>1. w.modified /\ AdviceOf(app[2]).template.lang <= w.lang
        BY <1>2, <3>2 DEF FileInv, Covers
      <4>2. app[2] \in IdsOf(S)
        BY <2>8
      <4>3. AdviceOf(app[2]).template.lang \in Nat
        BY <4>2, AdviceIsAdvice DEF IsAdvice
      <4> QED BY <2>3, <2>5, <2>6, <4>1, <4>3
    <3> QED BY <2>7, <3>1, <3>2
  <2>10. DOMAIN u.refs \subseteq RefsOf(S)
    <3>1. AdviceImports(adv) \subseteq RefsOf(S) /\ "unsafe" \in RefsOf(S)
      BY DEF RefsOf, adv
    <3> QED BY <2>5, <2>6, <3>1 DEF FileInv
  <2> QED BY <2>1, <2>5, <2>6, <2>7, <2>8, <2>9, <2>10 DEF FileInv, IsGood
<1> QED BY <1>1, <1>2

LEMMA ChainKeepsFileInv ==
  ASSUME world \in worlds, NEW S \in SUBSET Aspects, NEW w, FileInv(w, S), NEW n,
         NEW ids, NEW m \in Nat, \A i \in 1..m : ids[i] \in IdsOf(S),
         NEW f, Chain(f, "advice", w, n, ids, m)
  PROVE  FileInv(f[m], S) /\ f[m].state \in {w.state, "failed"}
<1> DEFINE Good(k) == FileInv(f[k], S) /\ f[k].state \in {w.state, "failed"}
           Bad == {k \in 0..m : ~Good(k)}
<1> SUFFICES ASSUME Bad # {}
             PROVE  FALSE
  OBVIOUS
<1>1. Bad \in SUBSET Nat
  OBVIOUS
<1>2. PICK k \in Bad : \A l \in Bad : ~ (l < k)
  <2> HIDE DEF Bad
  <2> QED BY <1>1, LeastExists
<1>3. k # 0
  BY DEF Chain
<1>4. k \in 1..m /\ k - 1 \in 0..m /\ k - 1 < k
  BY <1>3
<1>5. Good(k - 1)
  BY <1>2, <1>4
<1>6. f[k] = AdviceNext(f[k - 1], n, ids[k])
  BY <1>4 DEF Chain, FoldNext
<1>7. Good(k)
  BY <1>4, <1>5, <1>6, NextKeepsFileInv
<1> QED BY <1>7

LEMMA InjectIsChain ==
  ASSUME world \in worlds, NEW S \in SUBSET Aspects, NEW aspects \in Seq(S), NEW w, NEW n
  PROVE  LET ids == Sorted(AdviceAt(w, n, aspects)) IN
         /\ Len(ids) \in Nat /\ \A i \in 1..Len(ids) : ids[i] \in IdsOf(S)
         /\ \E f : Chain(f, "advice", w, n, ids, Len(ids)) /\ InjectNode(w, n, aspects) = f[Len(ids)]
<1> DEFINE ids == Sorted(AdviceAt(w, n, aspects))
<1>1. ids \in Seq(IdsOf(S))
  BY SortedAdvice
<1>2. InjectNode(w, n, aspects) = ApplyAll(w, n, ids)
  BY DEF InjectNode, ApplyAll
<1> HIDE DEF ids
<1>3. Len(ids) \in Nat /\ \A i \in 1..Len(ids) : ids[i] \in IdsOf(S)
  BY <1>1
<1>4. PICK f : Chain(f, "advice", w, n, ids, Len(ids)) /\ ApplyAll(w, n, ids) = f[Len(ids)]
  BY <1>3, ThroughAdvice
<1> QED BY <1>2, <1>3, <1>4 DEF ids

LEMMA InjectKeepsFileInv ==
  ASSUME world \in worlds, NEW S \in SUBSET Aspects, NEW aspects \in Seq(S),
         NEW w, FileInv(w, S), NEW n
  PROVE  /\ FileInv(InjectNode(w, n, aspects), S)
         /\ InjectNode(w, n, aspects).state \in {w.state, "failed"}
<1> DEFINE ids == Sorted(AdviceAt(w, n, aspects))
<1>1. /\ Len(ids) \in Nat /\ \A i \in 1..Len(ids) : ids[i] \in IdsOf(S)
      /\ \E f : Chain(f, "advice", w, n, ids, Len(ids)) /\ InjectNode(w, n, aspects) = f[Len(ids)]
  BY InjectIsChain
<1> HIDE DEF ids
<1>2. PICK f : Chain(f, "advice", w, n, ids, Len(ids)) /\ InjectNode(w, n, aspects) = f[Len(ids)]
  BY <1>1
<1>3. FileInv(f[Len(ids)], S) /\ f[Len(ids)].state \in {w.state, "failed"}
  BY <1>1, <1>2, ChainKeepsFileInv
<1>4. FileInv(InjectNode(w, n, aspects), S) /\ InjectNode(w, n, aspects).state \in {w.state, "failed"}
  BY <1>2, <1>3
<1> QED BY <1>4 DEF ids

\* Settle moves the cursor and no more.
LEMMA SettleKeepsFileInv ==
  ASSUME NEW S, NEW w, FileInv(w, S), w.state # "failed"
  PROVE  FileInv(Settle(w), S) /\ Settle(w).state \in {w.state, "file"}
<1> DEFINE next == {i \in w.at + 1..Len(w.decls) : Subtree(w, w.decls[i]) # << >>}
           file == [w EXCEPT !.state = "file", !.todo = <<w.root>>]
           on == [w EXCEPT !.at = Min(next), !.todo = Subtree(w, w.decls[Min(next)])]
<1>1. IsState(w)
  BY DEF FileInv, IsGood
<1>2. Settle(w) \in {w, file, on}
  BY DEF Settle
<1>3. FileInv(file, S) /\ file.state = "file"
  <2>1. /\ IsState(file) /\ file.lang = w.lang /\ file.applied = w.applied
        /\ file.refs = w.refs /\ file.modified = w.modified /\ file.state = "file"
    BY <1>1 DEF IsState, Fields
  <2> HIDE DEF file
  <2> QED BY <2>1, FileInvKept
<1>4. FileInv(on, S) /\ on.state = w.state
  <2> DEFINE at == Min(next)
             todo == Subtree(w, w.decls[Min(next)])
  <2>1. on = [w EXCEPT !.at = at, !.todo = todo]
    OBVIOUS
  <2> HIDE DEF on, at, todo, next
  <2>2. /\ IsState(on) /\ on.lang = w.lang /\ on.applied = w.applied
        /\ on.refs = w.refs /\ on.modified = w.modified /\ on.state = w.state
    BY <1>1, <2>1 DEF IsState, Fields
  <2> QED BY <2>2, FileInvKept
<1> HIDE DEF file, on
<1> QED BY <1>2, <1>3, <1>4

LEMMA VisitKeepsFileInv ==
  ASSUME world \in worlds, NEW S \in SUBSET Aspects, NEW aspects \in Seq(S),
         NEW w, FileInv(w, S)
  PROVE  /\ FileInv(VisitNode(w, aspects), S)
         /\ VisitNode(w, aspects).state \in {w.state, "failed", "file", "woven"}
<1> DEFINE u == InjectNode(w, Head(w.todo), aspects)
           v == [u EXCEPT !.todo = Tail(w.todo)]
           woven == [v EXCEPT !.state = "woven"]
           leave(x) == IF x.state = "failed" THEN x
                       ELSE IF x.state = "file" THEN [x EXCEPT !.state = "woven"]
                       ELSE Settle(x)
<1>1. VisitNode(w, aspects) = leave(v)
  <2>1. {leave(x) : x \in {v}} = {leave(v)}
    OBVIOUS
  <2>2. VisitNode(w, aspects) = Value({leave(x) : x \in {v}})
    BY DEF VisitNode
  <2> QED BY <2>1, <2>2, ValueOf
<1>2. FileInv(u, S) /\ u.state \in {w.state, "failed"}
  BY InjectKeepsFileInv
<1> HIDE DEF u
<1>3. FileInv(v, S) /\ v.state \in {w.state, "failed"}
  <2> DEFINE todo == Tail(w.todo)
  <2>1. IsState(u) /\ v = [u EXCEPT !.todo = todo]
    BY <1>2 DEF FileInv, IsGood
  <2> HIDE DEF v, todo
  <2>2. /\ IsState(v) /\ v.lang = u.lang /\ v.applied = u.applied
        /\ v.refs = u.refs /\ v.modified = u.modified /\ v.state = u.state
    BY <2>1 DEF IsState, Fields
  <2> QED BY <1>2, <2>2, FileInvKept
<1> HIDE DEF v
<1>4. CASE v.state = "failed"
  BY <1>1, <1>3, <1>4
<1>5. CASE v.state = "file"
  <2>1. VisitNode(w, aspects) = woven
    BY <1>1, <1>5
  <2>2. /\ IsState(woven) /\ woven.lang = v.lang /\ woven.applied = v.applied
        /\ woven.refs = v.refs /\ woven.modified = v.modified /\ woven.state = "woven"
    BY <1>3 DEF FileInv, IsGood, IsState, Fields
  <2> HIDE DEF woven
  <2> QED BY <1>3, <1>5, <2>1, <2>2, FileInvKept
<1>6. CASE v.state \notin {"failed", "file"}
  BY <1>1, <1>3, <1>6, SettleKeepsFileInv
<1> QED BY <1>4, <1>5, <1>6

LEMMA StartHasFileInv ==
  ASSUME NEW S, NEW f
  PROVE  FileInv(Start(f), S) /\ Start(f).state # "finished"
<1> DEFINE file == world.files[f]
           root == Len(file.nodes)
           w == [state |-> "decls", nodes |-> file.nodes, packageName |-> file.packageName,
                 directives |-> file.directives, decls |-> file.decls, at |-> 0,
                 todo |-> << >>, root |-> root, imports |-> file.imports,
                 refs |-> << >>, aliases |-> << >>, uses |-> {}, synthetic |-> {},
                 lang |-> 0, modified |-> FALSE, applied |-> << >>]
           woven == [w EXCEPT !.state = "woven"]
<1>1. Start(f) = IF file.nodes[root].ignored THEN woven ELSE Settle(w)
  BY DEF Start
<1>2. FileInv(w, S)
  <2>1. IsState(w)
    BY DEF IsState, Fields
  <2>2. w.lang = 0 /\ w.applied = << >> /\ w.refs = << >> /\ w.state = "decls"
    OBVIOUS
  <2> HIDE DEF w
  <2>3. Range(w.applied) = {} /\ IsSeq(w.applied)
    BY <2>2 DEF Range, IsSeq
  <2>4. DOMAIN w.refs = {}
    BY <2>2
  <2> QED BY <2>1, <2>2, <2>3, <2>4 DEF FileInv, IsGood, Covers
<1>3. FileInv(woven, S) /\ woven.state = "woven"
  <2>1. w.state = "decls" /\ IsState(w)
    BY DEF IsState, Fields
  <2> HIDE DEF w
  <2>2. /\ IsState(woven) /\ woven.lang = w.lang /\ woven.applied = w.applied
        /\ woven.refs = w.refs /\ woven.modified = w.modified /\ woven.state = "woven"
    BY <2>1 DEF IsState, Fields
  <2> HIDE DEF woven
  <2> QED BY <1>2, <2>1, <2>2, FileInvKept
<1>4. w.state = "decls"
  OBVIOUS
<1> HIDE DEF w, woven
<1> QED BY <1>1, <1>2, <1>3, <1>4, SettleKeepsFileInv

LEMMA FinishedKeepsFileInv ==
  ASSUME NEW S, NEW w, FileInv(w, S), w.state # "failed"
  PROVE  /\ FileInv(Finished(w), S) /\ FileInv(Failed(Finished(w)), S)
         /\ Finished(w).state = "finished"
         /\ Finished(w).refs = w.refs /\ Finished(w).lang = w.lang
<1> DEFINE u == AddSyntheticImports(w)
           v == [u EXCEPT !.state = "finished"]
           x == [v EXCEPT !.state = "failed"]
<1>1. IsState(w)
  BY DEF FileInv, IsGood
<1>2. /\ IsState(u) /\ u.lang = w.lang /\ u.applied = w.applied
      /\ u.refs = w.refs /\ (w.modified => u.modified)
  <2> DEFINE toAdd == ToAdd(w)
             decls == IF w.imports = << >> THEN <<0>> \o w.decls ELSE w.decls
             new == [w EXCEPT !.synthetic = toAdd, !.decls = decls, !.modified = TRUE]
  <2>1. u = IF toAdd = {} THEN w ELSE new
    BY <1>1 DEF AddSyntheticImports, IsState, Fields
  <2> HIDE DEF toAdd, decls, u
  <2>2. /\ IsState(new) /\ new.lang = w.lang /\ new.applied = w.applied
        /\ new.refs = w.refs /\ new.modified
    BY <1>1 DEF IsState, Fields
  <2> QED BY <1>1, <2>1, <2>2
<1> HIDE DEF u
<1>3. /\ IsState(v) /\ v.lang = u.lang /\ v.applied = u.applied
      /\ v.refs = u.refs /\ v.modified = u.modified /\ v.state = "finished"
  BY <1>2 DEF IsState, Fields
<1>4. Finished(w) = v
  BY DEF Finished, u
<1> HIDE DEF v
<1>5. /\ IsState(x) /\ x.lang = v.lang /\ x.applied = v.applied
      /\ x.refs = v.refs /\ x.modified = v.modified /\ x.state = "failed"
  BY <1>3 DEF IsState, Fields
<1>6. Failed(v) = x
  BY DEF Failed
<1> HIDE DEF x
<1>7. FileInv(v, S) /\ FileInv(x, S)
  BY <1>2, <1>3, <1>5, FileInvKept
<1> QED BY <1>2, <1>3, <1>4, <1>6, <1>7

-----------------------------------------------------------------------------
(***************************************************************************)
(* The invariant of the call: goroutines hold aspects that the package      *)
(* filter kept, and weave their files with FileInv for those.                *)
(***************************************************************************)
Kept == {a \in Aspects : Filters(world.pkg, world.files[1])[Point(a)].package # "NeverMatch"}

WeaversInv ==
  /\ weaver = [f \in Files |-> weaver[f]]
  /\ \A f \in Files : FileInv(weaver[f], Kept)
  /\ \A f \in Files : weaver[f].state = "finished" /\ weaver[f].modified =>
         weaver[f].lang <= result.lang

WInv ==
  /\ world \in worlds
  /\ aspectsOf = [f \in Files |-> aspectsOf[f]]
  /\ \A f \in Files : aspectsOf[f] \in Seq(Kept)
  /\ result.lang \in Nat
  /\ \A f \in DOMAIN result.files : DOMAIN result.files[f] \subseteq RefsOf(Kept)
  /\ stage \in {"weaving", "done"} => WeaversInv
  /\ stage = "done" => \A f \in Files : weaver[f].state = "finished"

LEMMA SameWorld ==
  ASSUME world' = world
  PROVE  /\ Files' = Files /\ Kept' = Kept /\ Aspects' = Aspects
         /\ RefsOf(Kept)' = RefsOf(Kept)
         /\ \A f : FileInv(weaver'[f], Kept) => FileInv(weaver[f], Kept)'
<1>1. Files' = Files /\ Aspects' = Aspects
  BY DEF Files, Aspects
<1>2. Kept' = Kept
  BY DEF Kept, Aspects, Point
<1>3. RefsOf(Kept)' = RefsOf(Kept) /\ IdsOf(Kept)' = IdsOf(Kept)
  BY <1>2 DEF RefsOf, IdsOf, AdviceOf
<1>4. ASSUME NEW f, FileInv(weaver'[f], Kept)
      PROVE  FileInv(weaver[f], Kept)'
  <2>1. /\ IsGood(weaver[f])' /\ IsSeq(weaver[f].applied)'
        /\ (\A app \in Range(weaver[f].applied) : app[2] \in IdsOf(Kept))'
        /\ (weaver[f].state # "failed")' => Covers(weaver'[f])
        /\ (DOMAIN weaver[f].refs \subseteq RefsOf(Kept))'
    BY <1>3, <1>4 DEF FileInv, IsGood, IsState
  <2>2. Covers(weaver'[f]) => Covers(weaver[f])'
    BY DEF Covers, AdviceOf
  <2> QED BY <2>1, <2>2 DEF FileInv
<1> QED BY <1>1, <1>2, <1>3, <1>4

LEMMA AspectsKept ==
  ASSUME world \in worlds
  PROVE  /\ Kept \in SUBSET Aspects
         /\ PackageFilterAspects \in Seq(Kept)
         /\ \A aspects \in Seq(Kept) : \A file : FileFilterAspects(aspects, file) \in Seq(Kept)
<1>1. Kept \in SUBSET Aspects
  BY DEF Kept
<1>2. PackageFilterAspects \in Seq(Kept)
  <2> DEFINE all == [a \in Aspects |-> a]
             kept == Among(all, Kept)
  <2>1. PackageFilterAspects = kept
    BY DEF PackageFilterAspects, Kept
  <2>2. IsSeq(world.aspects)
    BY WorldsAssumption
  <2>3. Aspects = 1..Len(world.aspects) /\ Len(world.aspects) \in Nat
    BY <2>2, SeqIndices DEF Aspects
  <2>4. all \in Seq(Aspects)
    BY <2>3
  <2> HIDE DEF all
  <2>5. kept \in Seq(Aspects) /\ Range(kept) \subseteq Kept
    BY <2>4, AmongRange
  <2> HIDE DEF kept
  <2>6. kept \in Seq(Kept)
    <3>1. \A i \in 1..Len(kept) : kept[i] \in Range(kept)
      BY <2>5 DEF Range
    <3> QED BY <2>5, <3>1
  <2> QED BY <2>1, <2>6
<1>3. ASSUME NEW aspects \in Seq(Kept), NEW file
      PROVE  FileFilterAspects(aspects, file) \in Seq(Kept)
  BY <1>3, AmongRange DEF FileFilterAspects
<1> QED BY <1>1, <1>2, <1>3

LEMMA InitHasWInv == WInit => WInv
<1> SUFFICES ASSUME WInit
             PROVE  WInv
  OBVIOUS
<1>1. world \in worlds /\ stage = "called" /\ result.lang = 0 /\ DOMAIN result.files = {}
  BY DEF WInit
<1>2. aspectsOf = [f \in Files |-> aspectsOf[f]] /\ \A f \in Files : aspectsOf[f] \in Seq(Kept)
  <2>1. << >> \in Seq(Kept)
    OBVIOUS
  <2> QED BY <2>1 DEF WInit
<1> QED BY <1>1, <1>2 DEF WInv

\* Steps that leave aspects, weavers and result alone, and end in no stage of weaving.
LEMMA IdleKeepsWInv ==
  ASSUME WInv, UNCHANGED <<world, aspectsOf, weaver, result>>,
         stage' \in {"weaving", "done"} => WeaversInv,
         stage' = "done" => \A f \in Files : weaver[f].state = "finished"
  PROVE  WInv'
<1>1. /\ Files' = Files /\ Kept' = Kept /\ RefsOf(Kept)' = RefsOf(Kept)
      /\ \A f : FileInv(weaver'[f], Kept) => FileInv(weaver[f], Kept)'
  BY SameWorld
<1>2. WeaversInv => WeaversInv'
  BY <1>1 DEF WeaversInv
<1> QED BY <1>1, <1>2 DEF WInv

LEMMA ParsingKeepsWInv ==
  ASSUME WInv, NEW f \in Files, ParseStep(f)
  PROVE  WInv'
<1>1. CASE ReadFile(f) \/ CheckApplicable(f) \/ ParseFile(f)
  <2>1. UNCHANGED <<world, aspectsOf, weaver, result>> /\ stage' = stage
    BY <1>1 DEF ReadFile, CheckApplicable, ParseFile
  <2> QED BY <2>1, IdleKeepsWInv DEF WInv
<1>2. CASE FilterFile(f)
  <2>1. UNCHANGED <<world, weaver, result, stage>>
    BY <1>2 DEF FilterFile
  <2>2. /\ Files' = Files /\ Kept' = Kept /\ RefsOf(Kept)' = RefsOf(Kept)
        /\ \A g : FileInv(weaver'[g], Kept) => FileInv(weaver[g], Kept)'
    BY <2>1, SameWorld
  <2>3. WeaversInv => WeaversInv'
    BY <2>1, <2>2 DEF WeaversInv
  <2>4. aspectsOf' = [g \in Files |-> aspectsOf'[g]] /\ \A g \in Files : aspectsOf'[g] \in Seq(Kept)
    <3> DEFINE left == FileFilterAspects(aspectsOf[f], world.files[f])
    <3>1. left \in Seq(Kept)
      BY AspectsKept DEF WInv
    <3>2. aspectsOf' = aspectsOf \/ aspectsOf' = [aspectsOf EXCEPT ![f] = left]
      BY <1>2 DEF FilterFile
    <3> HIDE DEF left
    <3> QED BY <3>1, <3>2 DEF WInv
  <2> QED BY <2>1, <2>2, <2>3, <2>4 DEF WInv
<1> QED BY <1>1, <1>2 DEF ParseStep

LEMMA VisitKeepsWInv ==
  ASSUME WInv, NEW f \in Files, Visit(f)
  PROVE  WInv'
<1> DEFINE v == VisitNode(weaver[f], aspectsOf[f])
<1>1. /\ UNCHANGED <<world, aspectsOf, result, stage>> /\ stage = "weaving"
      /\ weaver' = [weaver EXCEPT ![f] = v] /\ WeaversInv
  BY DEF Visit, WInv
<1>2. FileInv(v, Kept)
  BY <1>1, AspectsKept, VisitKeepsFileInv DEF WInv, WeaversInv
<1>3. v.state # "finished"
  <2>1. weaver[f].state \in {"decls", "file"} /\ FileInv(weaver[f], Kept)
    BY <1>1 DEF Visit, WeaversInv
  <2>2. v.state \in {weaver[f].state, "failed", "file", "woven"}
    BY <2>1, AspectsKept, VisitKeepsFileInv DEF WInv
  <2> HIDE DEF v
  <2> QED BY <2>1, <2>2
<1> HIDE DEF v
<1>4. /\ Files' = Files /\ Kept' = Kept /\ RefsOf(Kept)' = RefsOf(Kept)
      /\ \A g : FileInv(weaver'[g], Kept) => FileInv(weaver[g], Kept)'
  BY <1>1, SameWorld
<1>5. /\ weaver' = [g \in Files |-> weaver'[g]]
      /\ \A g \in Files : weaver'[g] = IF g = f THEN v ELSE weaver[g]
  BY <1>1 DEF WeaversInv
<1>6. WeaversInv'
  <2>1. \A g \in Files : FileInv(weaver'[g], Kept)
    BY <1>1, <1>2, <1>5 DEF WeaversInv
  <2>2. \A g \in Files : weaver'[g].state = "finished" /\ weaver'[g].modified =>
            weaver'[g].lang <= result.lang
    BY <1>1, <1>3, <1>5 DEF WeaversInv
  <2> QED BY <1>1, <1>4, <1>5, <2>1, <2>2 DEF WeaversInv
<1> QED BY <1>1, <1>4, <1>6 DEF WInv

LEMMA FinishKeepsWInv ==
  ASSUME WInv, NEW f \in Files, Finish(f)
  PROVE  WInv'
<1> DEFINE v == Finished(weaver[f])
           lang == SetAtLeast(result.lang, v.lang)
           files == [g \in DOMAIN result.files \cup {f} |->
                        IF g = f THEN v.refs ELSE result.files[g]]
<1>1. /\ UNCHANGED <<world, aspectsOf, stage>> /\ stage = "weaving"
      /\ weaver[f].state = "woven"
      /\ weaver' = [weaver EXCEPT ![f] = v] /\ WeaversInv
  BY DEF Finish, WInv
<1>2. /\ weaver' = [g \in Files |-> weaver'[g]]
      /\ \A g \in Files : weaver'[g] = IF g = f THEN v ELSE weaver[g]
  BY <1>1 DEF WeaversInv
<1>3. result' = IF ~v.modified THEN result ELSE [files |-> files, lang |-> lang]
  <2>1. weaver'[f] = v
    BY <1>2
  <2> HIDE DEF v
  <2> QED BY <2>1 DEF Finish
<1>4. FileInv(v, Kept) /\ v.state = "finished"
  <2>1. FileInv(weaver[f], Kept)
    BY <1>1 DEF WeaversInv
  <2> QED BY <1>1, <2>1, FinishedKeepsFileInv
<1> HIDE DEF v
<1>5. v.lang \in Nat /\ DOMAIN v.refs \subseteq RefsOf(Kept)
  BY <1>4 DEF FileInv, IsGood
<1>6. lang \in Nat /\ result.lang <= lang /\ v.lang <= lang
  BY <1>5, MaxOfTwo DEF WInv, SetAtLeast
<1> HIDE DEF lang
<1>7. /\ result'.lang \in Nat /\ result.lang <= result'.lang
      /\ v.modified => v.lang <= result'.lang
  BY <1>3, <1>6 DEF WInv
<1>8. \A g \in DOMAIN result'.files : DOMAIN result'.files[g] \subseteq RefsOf(Kept)
  <2>1. \A g \in DOMAIN files : DOMAIN files[g] \subseteq RefsOf(Kept)
    BY <1>5 DEF WInv
  <2>2. result'.files \in {result.files, files}
    BY <1>3
  <2> HIDE DEF files
  <2> QED BY <2>1, <2>2 DEF WInv
<1>9. /\ Files' = Files /\ Kept' = Kept /\ RefsOf(Kept)' = RefsOf(Kept)
      /\ \A g : FileInv(weaver'[g], Kept) => FileInv(weaver[g], Kept)'
  BY <1>1, SameWorld
<1>10. WeaversInv'
  <2>1. \A g \in Files : FileInv(weaver'[g], Kept)
    BY <1>1, <1>2, <1>4 DEF WeaversInv
  <2>2. ASSUME NEW g \in Files, weaver'[g].state = "finished", weaver'[g].modified
        PROVE  weaver'[g].lang <= result'.lang
    <3>1. CASE g = f
      BY <1>2, <1>7, <2>2, <3>1
    <3>2. CASE g # f
      <4>1. weaver'[g] = weaver[g]
        BY <1>2, <3>2
      <4>2. weaver[g].lang <= result.lang /\ weaver[g].lang \in Nat
        BY <1>1, <2>2, <4>1 DEF WeaversInv, FileInv, IsGood
      <4> QED BY <1>7, <4>1, <4>2 DEF WInv
    <3> QED BY <3>1, <3>2
  <2> QED BY <1>9, <1>2, <2>1, <2>2 DEF WeaversInv
<1> QED BY <1>1, <1>7, <1>8, <1>9, <1>10 DEF WInv

LEMMA WriteFailsKeepsWInv ==
  ASSUME WInv, NEW f \in Files, WriteFails(f)
  PROVE  WInv'
<1> DEFINE v == Failed(Finished(weaver[f]))
<1>1. /\ UNCHANGED <<world, aspectsOf, result, stage>> /\ stage = "weaving"
      /\ weaver[f].state = "woven"
      /\ weaver' = [weaver EXCEPT ![f] = v] /\ WeaversInv
  BY DEF WriteFails, WInv
<1>2. /\ weaver' = [g \in Files |-> weaver'[g]]
      /\ \A g \in Files : weaver'[g] = IF g = f THEN v ELSE weaver[g]
  BY <1>1 DEF WeaversInv
<1>3. FileInv(v, Kept) /\ v.state = "failed"
  <2>1. FileInv(weaver[f], Kept)
    BY <1>1 DEF WeaversInv
  <2>2. FileInv(v, Kept) /\ FileInv(Finished(weaver[f]), Kept)
    BY <1>1, <2>1, FinishedKeepsFileInv
  <2>3. v.state = "failed"
    BY <2>2, FailedKeeps DEF FileInv
  <2> QED BY <2>2, <2>3
<1> HIDE DEF v
<1>4. /\ Files' = Files /\ Kept' = Kept /\ RefsOf(Kept)' = RefsOf(Kept)
      /\ \A g : FileInv(weaver'[g], Kept) => FileInv(weaver[g], Kept)'
  BY <1>1, SameWorld
<1>5. WeaversInv'
  <2>1. \A g \in Files : FileInv(weaver'[g], Kept)
    BY <1>1, <1>2, <1>3 DEF WeaversInv
  <2>2. \A g \in Files : weaver'[g].state = "finished" /\ weaver'[g].modified =>
            weaver'[g].lang <= result.lang
    BY <1>1, <1>2, <1>3 DEF WeaversInv
  <2> QED BY <1>1, <1>2, <1>4, <2>1, <2>2 DEF WeaversInv
<1> QED BY <1>1, <1>4, <1>5 DEF WInv

LEMMA CheckIsKnown ==
  ASSUME world \in worlds
  PROVE  world.check \in {"ok", "error", "newer"}
BY WorldsAssumption

LEMMA CallKeepsWInv ==
  ASSUME WInv, CallStep
  PROVE  WInv'
<1>1. CASE InjectFiles
  <2>1. UNCHANGED <<world, weaver, result>> /\ stage' \in {"failed", "parsing"}
    BY <1>1 DEF InjectFiles
  <2>2. Files' = Files /\ Kept' = Kept /\ RefsOf(Kept)' = RefsOf(Kept)
    BY <2>1, SameWorld
  <2>3. aspectsOf' = [g \in Files |-> aspectsOf'[g]] /\ \A g \in Files : aspectsOf'[g] \in Seq(Kept)
    BY <1>1, AspectsKept DEF InjectFiles, WInv
  <2> QED BY <2>1, <2>2, <2>3 DEF WInv
<1>2. CASE EndParsing
  <2>1. UNCHANGED <<world, aspectsOf, weaver, result>> /\ stage' \notin {"weaving", "done"}
    BY <1>2 DEF EndParsing
  <2> QED BY <2>1, IdleKeepsWInv
<1>3. CASE TypeCheck
  <2>1. UNCHANGED <<world, aspectsOf, result>> /\ stage' # "done"
    BY <1>3, CheckIsKnown DEF TypeCheck, WInv
  <2>2. CASE stage' = "weaving"
    <3>1. weaver' = [f \in Files |-> Start(f)]
      BY <1>3, <2>2, CheckIsKnown DEF TypeCheck, WInv
    <3>2. /\ Files' = Files /\ Kept' = Kept /\ RefsOf(Kept)' = RefsOf(Kept)
          /\ \A g : FileInv(weaver'[g], Kept) => FileInv(weaver[g], Kept)'
      BY <2>1, SameWorld
    <3>3. \A g \in Files : FileInv(weaver'[g], Kept) /\ weaver'[g].state # "finished"
      BY <3>1, StartHasFileInv
    <3>4. WeaversInv'
      BY <3>1, <3>2, <3>3 DEF WeaversInv
    <3> QED BY <2>1, <2>2, <3>2, <3>4 DEF WInv
  <2>3. CASE stage' # "weaving"
    <3>1. /\ Files' = Files /\ Kept' = Kept /\ RefsOf(Kept)' = RefsOf(Kept)
      BY <2>1, SameWorld
    <3> QED BY <2>1, <2>3, <3>1 DEF WInv
  <2> QED BY <2>2, <2>3
<1>4. CASE Return
  <2>1. UNCHANGED <<world, aspectsOf, weaver, result>> /\ WeaversInv
    BY <1>4 DEF Return, WInv
  <2>2. stage' = "done" => \A f \in Files : weaver[f].state = "finished"
    BY <1>4 DEF Return
  <2> QED BY <2>1, <2>2, IdleKeepsWInv
<1> QED BY <1>1, <1>2, <1>3, <1>4 DEF CallStep

LEMMA NextKeepsWInv == WInv /\ [WNext]_vars => WInv'
<1> SUFFICES ASSUME WInv, [WNext]_vars
             PROVE  WInv'
  OBVIOUS
<1>1. CASE UNCHANGED vars
  <2>1. UNCHANGED <<world, aspectsOf, weaver, result>> /\ stage' = stage
    BY <1>1 DEF vars
  <2> QED BY <2>1, IdleKeepsWInv DEF WInv
<1>2. CASE Done
  BY <1>1, <1>2 DEF Done
<1>3. CASE \E f \in Files : ParseStep(f) \/ WeaveStep(f)
  <2> SUFFICES ASSUME NEW f \in Files, ParseStep(f) \/ WeaveStep(f)
               PROVE  WInv'
    BY <1>3
  <2> QED BY ParsingKeepsWInv, VisitKeepsWInv, FinishKeepsWInv, WriteFailsKeepsWInv DEF WeaveStep
<1> QED BY <1>1, <1>2, <1>3, CallKeepsWInv DEF WNext

\* The invariant of the call holds of every reachable state, of every configuration
\* and every package that InjectFiles may be given.
THEOREM CallIsInvariant == WSpec => []WInv
<1> QED BY InitHasWInv, NextKeepsWInv, PTL DEF WSpec

\* Whatever the order in which the files of a package were finished, the language
\* version that InjectFiles returns is enough for every template it has used
\* (EnsureMinGoLang of each file, then SetAtLeast under resultMu).
THEOREM LangIsEnough == WSpec => []LangCoversWoven
<1>1. WInv => LangCoversWoven
  <2> SUFFICES ASSUME WInv, stage = "done", NEW f \in Files,
                      NEW k \in DOMAIN weaver[f].applied
               PROVE  LET adv == AdviceOf(weaver[f].applied[k][2]) IN
                      UsesTemplate(adv) => adv.template.lang <= result.lang
    BY DEF LangCoversWoven
  <2> DEFINE w == weaver[f]
             app == w.applied[k]
             adv == AdviceOf(app[2])
  <2>1. FileInv(w, Kept) /\ w.state = "finished"
    BY DEF WInv, WeaversInv
  <2>2. app \in Range(w.applied)
    BY DEF Range
  <2>3. app[2] \in IdsOf(Kept) /\ (UsesTemplate(adv) => w.modified /\ adv.template.lang <= w.lang)
    BY <2>1, <2>2 DEF FileInv, Covers
  <2>4. adv.template.lang \in Nat /\ w.lang \in Nat /\ result.lang \in Nat
    BY <2>1, <2>3, AspectsKept, AdviceIsAdvice DEF WInv, FileInv, IsGood, IsAdvice
  <2>5. w.modified => w.lang <= result.lang
    BY <2>1 DEF WInv, WeaversInv
  <2> QED BY <2>3, <2>4, <2>5
<1> QED BY <1>1, CallIsInvariant, PTL

\* Every package that woven code comes to refer to is one that the build ID covers, or one
\* that the package was compiled with anyway: what a join point implies, AddedImports
\* leaves out, and packageFilterAspects has dropped the aspect where it is not imported.
THEOREM InjectedAreHashed ==
  ASSUME \A w \in worlds : Grants(w.pkg, Filters(w.pkg, w.files[1]))
  PROVE  WSpec => []InjectedIsHashed
<1>1. WInv => InjectedIsHashed
  <2> SUFFICES ASSUME WInv, NEW f \in DOMAIN result.files, NEW path \in DOMAIN result.files[f]
               PROVE  path \in InjectedPaths \cup world.pkg.importMap
                                   \cup {"unsafe", world.pkg.importPath}
    BY DEF InjectedIsHashed
  <2>1. path \in RefsOf(Kept) /\ world \in worlds
    BY DEF WInv
  <2>2. CASE path # "unsafe"
    <3>1. PICK id \in IdsOf(Kept) : path \in AdviceImports(AdviceOf(id))
      BY <2>1, <2>2 DEF RefsOf
    <3> DEFINE a == id[1]
               adv == AdviceOf(id)
               filter == Filters(world.pkg, world.files[1])[Point(a)]
               implied == filter.implied
    <3>2. /\ a \in Kept /\ a \in Aspects /\ IsAdvice(adv)
          /\ adv \in Range(world.aspects[a].advice)
      BY <2>1, <3>1, AspectsKept, AdviceIsAdvice
    <3>3. filter.package # "NeverMatch"
      BY <3>2 DEF Kept
    <3>4. Point(a) \in DOMAIN points
      <4>1. world.aspects[a] \in Range(world.aspects)
        BY <3>2 DEF Range, Aspects
      <4> QED BY <2>1, <4>1, WorldsAssumption DEF Point
    <3>5. path # ""
      BY <3>1, <3>2 DEF AdviceImports, IsAdvice
    <3>6. CASE path \in Range(implied)
      <4>1. Known(world.pkg, path)
        BY <2>1, <3>3, <3>4, <3>6, ImpliedIsImported
      <4> QED BY <3>5, <4>1 DEF Known
    <3>7. CASE path \notin Range(implied)
      <4>1. path \in AddedImports(a)
        <5> HIDE DEF a, adv
        <5>1. path \in UNION {AdviceImports(v) : v \in Range(world.aspects[a].advice)}
          BY <3>1, <3>2 DEF adv
        <5> QED BY <2>2, <3>7, <5>1 DEF AddedImports
      <4> QED BY <3>2, <4>1 DEF InjectedPaths
    <3> QED BY <3>6, <3>7
  <2> QED BY <2>2
<1> QED BY <1>1, CallIsInvariant, PTL

-----------------------------------------------------------------------------
(***************************************************************************)
(* No advice twice: the advice found at a node is found once.                *)
(***************************************************************************)
LEMMA AdviceAtIsInjective ==
  ASSUME world \in worlds, NEW S \in SUBSET Aspects, NEW aspects \in Seq(S),
         IsInjective(aspects), NEW w, NEW n
  PROVE  IsInjective(AdviceAt(w, n, aspects))
<1> DEFINE matches == Matches(world, w)
           hit == {a \in Aspects : matches[Point(a), n, world.pkg.testMain]}
           matching == Among(aspects, hit)
           of(a) == [i \in DOMAIN world.aspects[a].advice |-> <<a, i>>]
           seqs == [k \in DOMAIN matching |-> of(matching[k])]
<1>1. matching \in Seq(S) /\ IsInjective(matching)
  <2> HIDE DEF hit
  <2> QED BY AmongRange, AmongIsInjective
<1>2. ASSUME NEW a \in S
      PROVE  of(a) \in Seq(IdsOf(S)) /\ IsInjective(of(a)) /\ \A x \in Range(of(a)) : x[1] = a
  <2>1. world.aspects[a] \in Range(world.aspects)
    BY <1>2 DEF Range, Aspects
  <2>2. IsSeq(world.aspects[a].advice)
    BY <2>1, WorldsAssumption
  <2>3. Len(world.aspects[a].advice) \in Nat /\ DOMAIN world.aspects[a].advice = 1..Len(world.aspects[a].advice)
    BY <2>2, SeqIndices
  <2>4. \A i \in DOMAIN world.aspects[a].advice : <<a, i>> \in IdsOf(S)
    BY <1>2 DEF IdsOf
  <2>5. DOMAIN of(a) = DOMAIN world.aspects[a].advice /\ \A i \in DOMAIN of(a) : of(a)[i] = <<a, i>>
    OBVIOUS
  <2>6. of(a) \in Seq(IdsOf(S))
    BY <2>3, <2>4
  <2> HIDE DEF of
  <2>7. IsInjective(of(a))
    BY <2>5 DEF IsInjective
  <2>8. \A x \in Range(of(a)) : x[1] = a
    BY <2>5 DEF Range
  <2> QED BY <2>6, <2>7, <2>8
<1>3. AdviceAt(w, n, aspects) = FlattenSeq(seqs)
  BY DEF AdviceAt
<1> HIDE DEF matching, of
<1>4. Len(matching) \in Nat /\ DOMAIN matching = 1..Len(matching) /\ \A k \in DOMAIN matching : matching[k] \in S
  BY <1>1
<1>5. seqs \in Seq(Seq(IdsOf(S)))
  <2>1. \A k \in DOMAIN matching : of(matching[k]) \in Seq(IdsOf(S))
    BY <1>2, <1>4
  <2> QED BY <1>4, <2>1
<1>6. DOMAIN seqs = DOMAIN matching /\ \A k \in DOMAIN seqs : seqs[k] = of(matching[k])
  OBVIOUS
<1> HIDE DEF seqs
<1>7. \A k \in DOMAIN seqs : IsInjective(seqs[k])
  BY <1>2, <1>4, <1>6
<1>8. \A k, l \in DOMAIN seqs : k # l => Range(seqs[k]) \cap Range(seqs[l]) = {}
  <2> SUFFICES ASSUME NEW k \in DOMAIN seqs, NEW l \in DOMAIN seqs,
                      NEW x, x \in Range(seqs[k]), x \in Range(seqs[l])
               PROVE  k = l
    OBVIOUS
  <2>1. x[1] = matching[k] /\ x[1] = matching[l]
    BY <1>2, <1>4, <1>6
  <2> QED BY <1>1, <1>6, <2>1 DEF IsInjective
<1>9. IsInjective(FlattenSeq(seqs))
  BY <1>5, <1>7, <1>8, FlattenIsInjective
<1> QED BY <1>3, <1>9

LEMMA SortedIsInjective ==
  ASSUME world \in worlds, NEW S \in SUBSET Aspects, NEW aspects \in Seq(S),
         IsInjective(aspects), NEW w, NEW n
  PROVE  IsInjective(Sorted(AdviceAt(w, n, aspects)))
<1> DEFINE ids == AdviceAt(w, n, aspects)
<1>1. ids \in Seq(IdsOf(S)) /\ IsInjective(ids)
  BY AdviceAtIds, AdviceAtIsInjective
<1>2. \A id \in IdsOf(S) : AdviceOf(id).namespace \in Int /\ AdviceOf(id).order \in Int
  BY AdviceIsAdvice DEF IsAdvice
<1> HIDE DEF ids
<1>3. /\ Sorted(ids) \in Seq(IdsOf(S)) /\ Len(Sorted(ids)) = Len(ids)
      /\ \E at \in [1..Len(ids) -> 1..Len(ids)] :
             /\ \A k \in 1..Len(ids) : Sorted(ids)[k] = ids[at[k]]
             /\ \A k, l \in 1..Len(ids) : at[k] = at[l] => k = l
  BY <1>1, <1>2, SortedIsPermutation
<1>4. PICK at \in [1..Len(ids) -> 1..Len(ids)] :
             /\ \A k \in 1..Len(ids) : Sorted(ids)[k] = ids[at[k]]
             /\ \A k, l \in 1..Len(ids) : at[k] = at[l] => k = l
  BY <1>3
<1>5. DOMAIN ids = 1..Len(ids) /\ DOMAIN Sorted(ids) = 1..Len(ids)
  BY <1>1, <1>3
<1>6. IsInjective(Sorted(ids))
  BY <1>1, <1>4, <1>5 DEF IsInjective
<1> QED BY <1>6 DEF ids

-----------------------------------------------------------------------------
(***************************************************************************)
(* The declaration of a node: top says of each node in which declaration of  *)
(* the list it is.  Advice leaves it alone, and adds declarations at the     *)
(* end.                                                                      *)
(***************************************************************************)
Owners(w, top) ==
  /\ IsSeq(w.nodes) /\ w.root \in DOMAIN w.nodes
  /\ \A n \in DOMAIN w.nodes :
         /\ "parent" \in DOMAIN w.nodes[n]
         /\ w.nodes[n].parent \in {0, w.root} \cup n + 1..Len(w.nodes)
         /\ n # w.root /\ w.nodes[n].parent \notin {0, w.root} => top[n] = top[w.nodes[n].parent]
  /\ IsSeq(w.decls)
  /\ \A i \in DOMAIN w.decls :
         w.decls[i] \in DOMAIN w.nodes \ {w.root} /\ top[w.decls[i]] = i

\* What only adds to the references, say.
Shape(w, v) == IsState(v) /\ v.nodes = w.nodes /\ v.decls = w.decls /\ v.root = w.root

LEMMA ShapeOwns ==
  ASSUME NEW w, NEW v, NEW top, Owners(w, top), Shape(w, v)
  PROVE  Owners(v, top)
BY DEF Owners, Shape

LEMMA RefersShape ==
  ASSUME NEW w, NEW v, NEW paths, OnlyRefers(w, v, paths)
  PROVE  Shape(w, v)
BY DEF OnlyRefers, Shape, Fields, References

LEMMA ShapesOf ==
  ASSUME NEW w, IsState(w), NEW n, NEW template
  PROVE  /\ Shape(w, Failed(w)) /\ Shape(w, Mark(w)) /\ Shape(w, EnsureMinGoLang(w, template))
         /\ Shape(w, Mark(EnsureMinGoLang(w, template)))
         /\ IsSeq(template.imports) => Shape(w, Compile(w, n, template))
         /\ \A path : Shape(w, ImportType(w, n, path))
<1>1. Shape(w, Failed(w))
  BY DEF Shape, Failed, IsState, Fields
<1>2. Shape(w, Mark(w))
  BY DEF Shape, Mark, IsState, Fields
<1> DEFINE lang == Max({w.lang, template.lang})
<1>3. EnsureMinGoLang(w, template) = [w EXCEPT !.lang = lang]
  BY DEF EnsureMinGoLang, IsState, Fields
<1> HIDE DEF lang
<1>4. Shape(w, EnsureMinGoLang(w, template)) /\ Shape(w, Mark(EnsureMinGoLang(w, template)))
  BY <1>3 DEF Shape, Mark, IsState, Fields
<1>5. IsSeq(template.imports) => Shape(w, Compile(w, n, template))
  BY <1>1, CompileRefers, RefersShape
<1>6. ASSUME NEW path
      PROVE  Shape(w, ImportType(w, n, path))
  <2>1. Shape(w, w)
    BY DEF Shape
  <2>2. Shape(w, AddImport(w, n, path, path))
    BY AddImportRefers, RefersShape
  <2> QED BY <2>1, <2>2 DEF ImportType
<1> QED BY <1>1, <1>2, <1>4, <1>5, <1>6

-----------------------------------------------------------------------------
(***************************************************************************)
(* What is asked of a node's parent when the node itself does not tell: as  *)
(* parents come after their children, there is an answer for every node.    *)
(***************************************************************************)
Inherits(t, m, stop, base, up) ==
  \A n \in 1..m : t[n] = IF n \in stop THEN base[n] ELSE t[up[n]]

LEMMA InheritedExists ==
  ASSUME NEW T, NEW m \in Nat, NEW stop, NEW base, NEW up,
         \A n \in 1..m : n \in stop => base[n] \in T,
         \A n \in 1..m : n \notin stop => up[n] \in n + 1..m
  PROVE  \E t \in [1..m -> T] : Inherits(t, m, stop, base, up)
<1> DEFINE From(t, k) == \A n \in m - k + 1..m : t[n] = IF n \in stop THEN base[n] ELSE t[up[n]]
           Missing == {k \in 0..m : ~ \E t \in [m - k + 1..m -> T] : From(t, k)}
<1>1. Missing = {}
  <2> SUFFICES ASSUME Missing # {}
               PROVE  FALSE
    OBVIOUS
  <2>1. Missing \in SUBSET Nat
    OBVIOUS
  <2>2. PICK k \in Missing : \A l \in Missing : ~ (l < k)
    <3> HIDE DEF Missing
    <3> QED BY <2>1, LeastExists
  <2>3. k # 0
    <3>1. [n \in m + 1..m |-> base[n]] \in [m - 0 + 1..m -> T] /\ m - 0 + 1..m = {}
      OBVIOUS
    <3> QED BY <3>1
  <2>4. k \in 1..m /\ k - 1 \in 0..m /\ k - 1 < k
    BY <2>3
  <2>5. PICK t \in [m - (k - 1) + 1..m -> T] : From(t, k - 1)
    BY <2>2, <2>4
  <2> DEFINE first == m - k + 1
             g == [n \in first..m |-> IF n = first THEN IF n \in stop THEN base[n] ELSE t[up[n]]
                                      ELSE t[n]]
  <2>6. first \in 1..m /\ m - (k - 1) + 1 = first + 1
    BY <2>4
  <2> HIDE DEF first, From, Missing
  <2>7. t \in [first + 1..m -> T]
    BY <2>6
  <2>8. ASSUME NEW n \in first..m
        PROVE  /\ g[n] \in T
               /\ g[n] = IF n \in stop THEN base[n] ELSE g[up[n]]
    <3>1. CASE n \in stop
      <4>1. n # first => n \in first + 1..m /\ t[n] = base[n]
        BY <2>5, <2>6, <3>1 DEF From
      <4> QED BY <2>6, <3>1, <4>1
    <3>2. CASE n \notin stop
      <4>1. n \in 1..m /\ up[n] \in n + 1..m
        BY <2>6, <3>2
      <4>2. up[n] \in first + 1..m /\ g[up[n]] = t[up[n]] /\ t[up[n]] \in T
        BY <2>6, <2>7, <4>1
      <4>3. n # first => n \in first + 1..m /\ t[n] = t[up[n]]
        BY <2>5, <2>6, <3>2 DEF From
      <4>4. g[n] = t[up[n]]
        BY <3>2, <4>3
      <4> QED BY <3>2, <4>2, <4>4
    <3> QED BY <3>1, <3>2
  <2>9. g \in [first..m -> T]
    BY <2>8
  <2> HIDE DEF g
  <2>10. g \in [m - k + 1..m -> T] /\ From(g, k)
    BY <2>8, <2>9 DEF From, first
  <2> QED BY <2>10, <2>2 DEF Missing
<1>2. m \in 0..m /\ m - m + 1 = 1
  OBVIOUS
<1>3. PICK t \in [m - m + 1..m -> T] : From(t, m)
  <2> HIDE DEF From
  <2> QED BY <1>1, <1>2
<1>4. t \in [1..m -> T]
  BY <1>2, <1>3
<1> QED BY <1>2, <1>3, <1>4 DEF Inherits

-----------------------------------------------------------------------------
(***************************************************************************)
(* The traversal of a declaration: its nodes are those of no other.          *)
(***************************************************************************)
\* The recursive definition of Subtree.
Visits(t, w, d) ==
  \A n \in DOMAIN w.nodes :
      t[n] <=> ~w.nodes[n].ignored /\ (n = d \/ (w.nodes[n].parent # 0 /\ n # w.root
                                                  /\ t[w.nodes[n].parent]))

LEMMA VisitsExists ==
  ASSUME NEW w, NEW top, Owners(w, top), NEW d, d # w.root
  PROVE  \E t \in [DOMAIN w.nodes -> BOOLEAN] : Visits(t, w, d)
<1> DEFINE m == Len(w.nodes)
           ups == [n \in 1..m |-> w.nodes[n].parent]
           hidden == {n \in 1..m : w.nodes[n].ignored}
           stop == hidden \cup {d, w.root} \cup {n \in 1..m : ups[n] \in {0, w.root}}
           base == [n \in 1..m |-> n = d /\ n \notin hidden]
<1>1. m \in Nat /\ DOMAIN w.nodes = 1..m /\ w.root \in 1..m
  BY SeqIndices DEF Owners
<1>2. \A n \in 1..m : n \notin stop => ups[n] \in n + 1..m
  BY <1>1 DEF Owners
<1>3. \A n \in 1..m : n \in stop => base[n] \in BOOLEAN
  OBVIOUS
<1>4. \A n \in 1..m : base[n] <=> n = d /\ n \notin hidden
  OBVIOUS
<1>5. \A n \in 1..m : n \in stop <=> n \in hidden \/ n = d \/ n = w.root \/ w.nodes[n].parent \in {0, w.root}
  OBVIOUS
<1>6. \A n \in 1..m : n \in hidden <=> w.nodes[n].ignored
  OBVIOUS
<1>7. \A n \in 1..m : ups[n] = w.nodes[n].parent
  OBVIOUS
<1> HIDE DEF m, ups, hidden, stop, base
<1>8. PICK t \in [1..m -> BOOLEAN] : Inherits(t, m, stop, base, ups)
  BY <1>1, <1>2, <1>3, InheritedExists
<1>9. ~t[w.root]
  BY <1>1, <1>4, <1>5, <1>8 DEF Inherits
<1>10. ASSUME NEW n \in 1..m
       PROVE  t[n] <=> ~w.nodes[n].ignored /\ (n = d \/ (w.nodes[n].parent # 0 /\ n # w.root
                                                          /\ t[w.nodes[n].parent]))
  <2>1. CASE n \in stop
    <3>1. t[n] = base[n]
      BY <1>8, <2>1 DEF Inherits
    <3>2. n \in hidden \/ n = d \/ n = w.root \/ w.nodes[n].parent = 0 \/ w.nodes[n].parent = w.root
      BY <1>5, <2>1
    <3> QED BY <1>4, <1>6, <1>9, <3>1, <3>2
  <2>2. CASE n \notin stop
    <3>1. t[n] = t[w.nodes[n].parent]
      BY <1>7, <1>8, <2>2 DEF Inherits
    <3>2. ~w.nodes[n].ignored /\ n # w.root /\ w.nodes[n].parent # 0
      BY <1>5, <1>6, <2>2
    <3>3. n # d
      BY <1>5, <2>2
    <3> QED BY <3>1, <3>2, <3>3
  <2> QED BY <2>1, <2>2
<1> QED BY <1>1, <1>8, <1>10 DEF Visits

\* What is visited from a declaration belongs to it.
LEMMA VisitedAreOwned ==
  ASSUME NEW w, NEW top, Owners(w, top), NEW i \in DOMAIN w.decls,
         NEW t, Visits(t, w, w.decls[i])
  PROVE  \A n \in DOMAIN w.nodes : n # w.root /\ t[n] => top[n] = i
<1> DEFINE m == Len(w.nodes)
           d == w.decls[i]
           Bad == {k \in 0..m : m - k # 0 /\ m - k # w.root /\ t[m - k] /\ top[m - k] # i}
<1>1. m \in Nat /\ DOMAIN w.nodes = 1..m /\ w.root \in 1..m
  BY SeqIndices DEF Owners
<1>2. d \in 1..m /\ d # w.root /\ top[d] = i
  BY <1>1 DEF Owners
<1>3. ~t[w.root]
  BY <1>1, <1>2 DEF Visits
<1>4. Bad = {}
  <2> SUFFICES ASSUME Bad # {}
               PROVE  FALSE
    OBVIOUS
  <2>1. Bad \in SUBSET Nat
    OBVIOUS
  <2>2. PICK k \in Bad : \A l \in Bad : ~ (l < k)
    <3> HIDE DEF Bad
    <3> QED BY <2>1, LeastExists
  <2> DEFINE n == m - k
             p == w.nodes[n].parent
  <2>3. k \in 0..m /\ n \in 1..m /\ n # w.root /\ t[n] /\ top[n] # i
    BY <1>1
  <2>4. n # d
    BY <1>2, <2>3
  <2>5. p # 0 /\ t[p]
    BY <1>1, <2>3, <2>4 DEF Visits
  <2>6. p # w.root
    BY <1>3, <2>5
  <2>7. p \in n + 1..m /\ top[n] = top[p]
    BY <1>1, <2>3, <2>5, <2>6 DEF Owners
  <2> HIDE DEF p
  <2>8. m - p \in 0..m /\ m - (m - p) = p /\ m - p < k
    BY <1>1, <2>3, <2>7
  <2>9. m - p \in Bad
    BY <2>3, <2>5, <2>6, <2>7, <2>8
  <2> HIDE DEF Bad
  <2> QED BY <2>2, <2>8, <2>9
<1>5. ASSUME NEW n \in 1..m, n # w.root, t[n]
      PROVE  top[n] = i
  <2>1. m - n \in 0..m /\ m - (m - n) = n /\ n # 0
    BY <1>1
  <2>2. m - n \notin Bad
    BY <1>4
  <2> QED BY <1>5, <2>1, <2>2
<1> QED BY <1>1, <1>5

LEMMA SubtreeIsOwned ==
  ASSUME NEW w, NEW top, Owners(w, top), NEW i \in DOMAIN w.decls
  PROVE  LET s == Subtree(w, w.decls[i]) IN
         /\ s \in Seq(DOMAIN w.nodes) /\ IsInjective(s)
         /\ \A n \in Range(s) : n \in DOMAIN w.nodes \ {w.root} /\ top[n] = i
<1> DEFINE d == w.decls[i]
           step(t, n) == ~w.nodes[n].ignored /\ (n = d \/ (w.nodes[n].parent # 0 /\ n # w.root
                                                            /\ t[w.nodes[n].parent]))
           Obeys(t) == t = [n \in Nodes(w) |-> step(t, n)]
           visited == CHOOSE t : Obeys(t)
           all == [n \in Nodes(w) |-> n]
           seen == {n \in Nodes(w) : n # w.root /\ visited[n]}
           s == Subtree(w, d)
<1>1. s = Among(all, seen)
  BY DEF Subtree
<1>2. Obeys(visited)
  <2>1. d # w.root
    BY DEF Owners
  <2>2. PICK t \in [DOMAIN w.nodes -> BOOLEAN] : Visits(t, w, d)
    <3> HIDE DEF d
    <3> QED BY <2>1, VisitsExists
  <2>3. \A n \in DOMAIN w.nodes : t[n] = step(t, n)
    <3>1. ASSUME NEW n \in DOMAIN w.nodes
          PROVE  t[n] = step(t, n)
      <4>1. t[n] \in BOOLEAN /\ (t[n] <=> step(t, n))
        BY <2>2 DEF Visits
      <4>2. step(t, n) \in BOOLEAN
        OBVIOUS
      <4> HIDE DEF step
      <4> QED BY <4>1, <4>2
    <3> QED BY <3>1
  <2>4. Obeys(t)
    <3> HIDE DEF step
    <3> QED BY <2>2, <2>3 DEF Nodes
  <2> HIDE DEF Obeys
  <2> QED BY <2>4
<1>3. Visits(visited, w, d)
  <2>1. \A n \in DOMAIN w.nodes : visited[n] = step(visited, n)
    <3> HIDE DEF visited, step
    <3> QED BY <1>2 DEF Nodes
  <2> HIDE DEF visited
  <2> QED BY <2>1 DEF Visits
<1> HIDE DEF visited
<1>4. \A n \in DOMAIN w.nodes : n # w.root /\ visited[n] => top[n] = i
  BY <1>3, VisitedAreOwned
<1>5. Len(w.nodes) \in Nat /\ DOMAIN w.nodes = 1..Len(w.nodes)
  BY SeqIndices DEF Owners
<1>6. all \in Seq(DOMAIN w.nodes) /\ IsInjective(all)
  BY <1>5 DEF Nodes, IsInjective
<1> HIDE DEF all
<1>7. seen \subseteq DOMAIN w.nodes \ {w.root} /\ \A n \in seen : top[n] = i
  BY <1>4 DEF Nodes
<1> HIDE DEF seen
<1>8. s \in Seq(DOMAIN w.nodes) /\ Range(s) \subseteq seen /\ IsInjective(s)
  <2> HIDE DEF s
  <2> QED BY <1>1, <1>6, AmongRange, AmongIsInjective
<1> HIDE DEF s
<1>9. \A n \in Range(s) : n \in DOMAIN w.nodes \ {w.root} /\ top[n] = i
  BY <1>7, <1>8
<1> QED BY <1>8, <1>9 DEF s, d

-----------------------------------------------------------------------------
(***************************************************************************)
(* Advice keeps the owners of the nodes there are.                           *)
(***************************************************************************)
Extended(w, v, top, up) ==
  DOMAIN w.nodes \subseteq DOMAIN v.nodes /\ \A n \in DOMAIN w.nodes : up[n] = top[n]

\* Where the trees that an advice injects are in the list of nodes: last + i is the i-th.
Injected(decls, last, root) ==
  [i \in DOMAIN decls |->
      [decls[i] EXCEPT !.parent = IF @ = 0 THEN root ELSE last + @]]
Tops(decls) == {j \in DOMAIN decls : decls[j].parent = 0}
Roots(decls, last) ==
  Among([i \in DOMAIN decls |-> last + i], {last + i : i \in Tops(decls)})

LEMMA RootsAreTops ==
  ASSUME NEW decls, IsSeq(decls), NEW last \in Nat
  PROVE  LET roots == Roots(decls, last) IN
         /\ roots \in Seq(Nat) /\ IsInjective(roots)
         /\ Range(roots) = {last + i : i \in Tops(decls)}
<1> DEFINE all == [i \in DOMAIN decls |-> last + i]
           S == {last + i : i \in Tops(decls)}
<1>1. Len(decls) \in Nat /\ DOMAIN decls = 1..Len(decls)
  BY SeqIndices
<1>2. all \in Seq(Nat) /\ IsInjective(all)
  BY <1>1 DEF IsInjective
<1>3. S \subseteq Range(all)
  BY <1>1 DEF Tops, Range
<1>4. Roots(decls, last) = Among(all, S)
  BY DEF Roots
<1> HIDE DEF all, S
<1>5. /\ Roots(decls, last) \in Seq(Nat) /\ IsInjective(Roots(decls, last))
      /\ Range(Roots(decls, last)) = Range(all) \cap S
  BY <1>2, <1>4, AmongRange, AmongIsInjective
<1> QED BY <1>3, <1>5 DEF S

LEMMA InjectedNodes ==
  ASSUME NEW decls, IsSeq(decls), InPostOrder(decls),
         \A j \in DOMAIN decls : "parent" \in DOMAIN decls[j],
         NEW last \in Nat, NEW root \in 1..last
  PROVE  LET new == Injected(decls, last, root) IN
         /\ IsSeq(new) /\ Len(new) = Len(decls) /\ DOMAIN new = 1..Len(decls)
         /\ \A j \in 1..Len(decls) :
                /\ "parent" \in DOMAIN new[j]
                /\ j \in Tops(decls) => new[j].parent = root
                /\ j \notin Tops(decls) => /\ decls[j].parent \in j + 1..Len(decls)
                                           /\ new[j].parent = last + decls[j].parent
<1> DEFINE new == Injected(decls, last, root)
<1>1. Len(decls) \in Nat /\ DOMAIN decls = 1..Len(decls)
  BY SeqIndices
<1>2. DOMAIN new = 1..Len(decls)
  BY <1>1 DEF Injected
<1>3. ASSUME NEW j \in 1..Len(decls)
      PROVE  /\ new[j] = [decls[j] EXCEPT !.parent = IF @ = 0 THEN root ELSE last + @]
             /\ DOMAIN new[j] = DOMAIN decls[j]
             /\ new[j].parent = IF decls[j].parent = 0 THEN root ELSE last + decls[j].parent
  BY <1>1 DEF Injected
<1>4. new = [j \in 1..Len(decls) |-> new[j]]
  BY <1>1 DEF Injected
<1> HIDE DEF new
<1>5. IsSeq(new) /\ Len(new) = Len(decls)
  <2>1. \A j \in 1..Len(decls) : new[j] \in Range(new)
    BY <1>2 DEF Range
  <2>2. new \in Seq(Range(new)) /\ Len(new) = Len(decls)
    BY <1>1, <1>4, <2>1
  <2> QED BY <2>2 DEF IsSeq
<1>6. ASSUME NEW j \in 1..Len(decls)
      PROVE  /\ "parent" \in DOMAIN new[j]
             /\ j \in Tops(decls) => new[j].parent = root
             /\ j \notin Tops(decls) => /\ decls[j].parent \in j + 1..Len(decls)
                                        /\ new[j].parent = last + decls[j].parent
  BY <1>1, <1>3 DEF Tops, InPostOrder
<1> QED BY <1>2, <1>5, <1>6 DEF new

LEMMA ConcatIsSeq ==
  ASSUME NEW s, NEW t, IsSeq(s), IsSeq(t)
  PROVE  LET c == s \o t IN
         /\ IsSeq(c) /\ Len(c) = Len(s) + Len(t) /\ DOMAIN c = 1..Len(s) + Len(t)
         /\ \A i \in 1..Len(s) : c[i] = s[i]
         /\ \A j \in 1..Len(t) : c[Len(s) + j] = t[j]
<1> DEFINE T == Range(s) \cup Range(t)
<1>1. s \in Seq(T) /\ t \in Seq(T)
  <2>1. /\ s = [i \in 1..Len(s) |-> s[i]] /\ Len(s) \in Nat
        /\ t = [i \in 1..Len(t) |-> t[i]] /\ Len(t) \in Nat
    BY DEF IsSeq
  <2>2. (\A i \in 1..Len(s) : s[i] \in T) /\ \A i \in 1..Len(t) : t[i] \in T
    BY SeqIndices
  <2> HIDE DEF T
  <2>3. [i \in 1..Len(s) |-> s[i]] \in Seq(T) /\ [i \in 1..Len(t) |-> t[i]] \in Seq(T)
    BY <2>1, <2>2
  <2> QED BY <2>1, <2>3
<1> HIDE DEF T
<1>2. s \o t \in Seq(T)
  BY <1>1
<1>3. IsSeq(s \o t)
  BY <1>2, SeqIsSeq
<1> QED BY <1>1, <1>3

LEMMA GrownOwns ==
  ASSUME NEW w, NEW top, Owners(w, top), NEW decls, IsSeq(decls), InPostOrder(decls),
         \A j \in DOMAIN decls : "parent" \in DOMAIN decls[j],
         NEW v, v.root = w.root,
         v.nodes = w.nodes \o Injected(decls, Len(w.nodes), w.root),
         v.decls = w.decls \o Roots(decls, Len(w.nodes))
  PROVE  \E up : Owners(v, up) /\ Extended(w, v, top, up)
<1> DEFINE last == Len(w.nodes)
           size == Len(decls)
           new == Injected(decls, last, w.root)
           roots == Roots(decls, last)
           count == Len(w.decls)
           base == [j \in 1..size |-> count + CHOOSE r \in DOMAIN roots : roots[r] = last + j]
           ups == [j \in 1..size |-> decls[j].parent]
           T == {base[j] : j \in 1..size}
<1>1. last \in Nat /\ DOMAIN w.nodes = 1..last /\ w.root \in 1..last /\ count \in Nat
      /\ DOMAIN w.decls = 1..count
  BY SeqIndices DEF Owners
<1>2. size \in Nat /\ DOMAIN decls = 1..size
  BY SeqIndices
<1>3. /\ IsSeq(new) /\ Len(new) = size /\ DOMAIN new = 1..size
      /\ \A j \in 1..size :
             /\ "parent" \in DOMAIN new[j]
             /\ j \in Tops(decls) => new[j].parent = w.root
             /\ j \notin Tops(decls) => /\ decls[j].parent \in j + 1..size
                                        /\ new[j].parent = last + decls[j].parent
  BY <1>1, InjectedNodes
<1>4. roots \in Seq(Nat) /\ IsInjective(roots) /\ Range(roots) = {last + i : i \in Tops(decls)}
  BY <1>1, RootsAreTops
<1>5. \A j \in 1..size : ups[j] = decls[j].parent
  OBVIOUS
<1>6. \A j \in 1..size : base[j] \in T
  OBVIOUS
<1>7. ASSUME NEW r \in DOMAIN roots
      PROVE  \E j \in Tops(decls) : j \in 1..size /\ roots[r] = last + j /\ base[j] = count + r
  <2> HIDE DEF roots
  <2>1. PICK j \in Tops(decls) : roots[r] = last + j
    BY <1>4 DEF Range
  <2>2. j \in 1..size
    BY <1>2 DEF Tops
  <2>3. (CHOOSE q \in DOMAIN roots : roots[q] = last + j) = r
    BY <1>4, <2>1 DEF IsInjective
  <2> QED BY <2>1, <2>2, <2>3
<1> HIDE DEF base, ups, T, new, roots
<1>8. \A j \in 1..size : j \notin Tops(decls) => ups[j] \in j + 1..size
  BY <1>3, <1>5
<1>9. PICK t \in [1..size -> T] : Inherits(t, size, Tops(decls), base, ups)
  <2> HIDE DEF size
  <2> QED BY <1>2, <1>6, <1>8, InheritedExists
<1> DEFINE up == [n \in 1..last + size |-> IF n <= last THEN top[n] ELSE t[n - last]]
<1>10. (\A n \in 1..last : up[n] = top[n]) /\ \A j \in 1..size : up[last + j] = t[j]
  <2>1. ASSUME NEW n \in 1..last PROVE up[n] = top[n]
    BY <1>1, <1>2
  <2>2. ASSUME NEW j \in 1..size PROVE up[last + j] = t[j]
    <3>1. last + j \in 1..last + size /\ ~(last + j <= last) /\ last + j - last = j
      BY <1>1, <1>2
    <3> QED BY <3>1
  <2> QED BY <2>1, <2>2
<1>11. /\ IsSeq(v.nodes) /\ Len(v.nodes) = last + size /\ DOMAIN v.nodes = 1..last + size
       /\ \A n \in 1..last : v.nodes[n] = w.nodes[n]
       /\ \A j \in 1..size : v.nodes[last + j] = new[j]
  <2>1. v.nodes = w.nodes \o new /\ IsSeq(w.nodes)
    BY DEF Owners, new
  <2>2. IsSeq(new) /\ Len(new) = size
    BY <1>3
  <2> DEFINE c == v.nodes
             s == w.nodes
  <2>3. c = s \o new /\ IsSeq(s) /\ Len(s) = last
    BY <2>1
  <2> HIDE DEF c, s, last, size
  <2>4. /\ IsSeq(c) /\ Len(c) = Len(s) + Len(new) /\ DOMAIN c = 1..Len(s) + Len(new)
        /\ \A n \in 1..Len(s) : c[n] = s[n]
        /\ \A j \in 1..Len(new) : c[Len(s) + j] = new[j]
    <3>1. /\ IsSeq(s \o new) /\ Len(s \o new) = Len(s) + Len(new)
          /\ DOMAIN (s \o new) = 1..Len(s) + Len(new)
          /\ \A n \in 1..Len(s) : (s \o new)[n] = s[n]
          /\ \A j \in 1..Len(new) : (s \o new)[Len(s) + j] = new[j]
      <4>1. IsSeq(s) /\ IsSeq(new)
        BY <2>2, <2>3
      <4> QED BY <4>1, ConcatIsSeq
    <3> QED BY <2>3, <3>1
  <2>5. /\ IsSeq(c) /\ Len(c) = last + size /\ DOMAIN c = 1..last + size
        /\ \A n \in 1..last : c[n] = s[n]
        /\ \A j \in 1..size : c[last + j] = new[j]
    BY <2>2, <2>3, <2>4
  <2> QED BY <2>5 DEF c, s
<1>12. /\ IsSeq(v.decls) /\ Len(roots) \in Nat /\ DOMAIN roots = 1..Len(roots)
       /\ DOMAIN v.decls = 1..count + Len(roots)
       /\ \A i \in 1..count : v.decls[i] = w.decls[i]
       /\ \A r \in 1..Len(roots) : v.decls[count + r] = roots[r]
  <2>1. IsSeq(roots)
    BY <1>4, SeqIsSeq
  <2>2. Len(roots) \in Nat /\ DOMAIN roots = 1..Len(roots)
    BY <2>1, SeqIndices
  <2>3. v.decls = w.decls \o roots /\ IsSeq(w.decls)
    BY DEF Owners, roots
  <2> QED BY <1>1, <2>1, <2>2, <2>3, ConcatIsSeq
<1> HIDE DEF up, last, size, count
<1>13. ASSUME NEW n \in 1..last + size
       PROVE  /\ "parent" \in DOMAIN v.nodes[n]
              /\ v.nodes[n].parent \in {0, w.root} \cup n + 1..last + size
              /\ n # w.root /\ v.nodes[n].parent \notin {0, w.root} => up[n] = up[v.nodes[n].parent]
  <2>1. CASE n \in 1..last
    <3>1. /\ "parent" \in DOMAIN w.nodes[n]
          /\ w.nodes[n].parent \in {0, w.root} \cup n + 1..last
          /\ n # w.root /\ w.nodes[n].parent \notin {0, w.root} => top[n] = top[w.nodes[n].parent]
      BY <1>1, <2>1 DEF Owners, last
    <3>2. v.nodes[n] = w.nodes[n] /\ up[n] = top[n]
      BY <1>10, <1>11, <2>1
    <3> DEFINE p == w.nodes[n].parent
    <3>3. v.nodes[n].parent = p /\ "parent" \in DOMAIN v.nodes[n]
      BY <3>1, <3>2
    <3>4. p \in {0, w.root} \cup n + 1..last /\ (n # w.root /\ p \notin {0, w.root} => up[n] = top[p])
      BY <3>1, <3>2
    <3> HIDE DEF p
    <3>5. p \in {0, w.root} \cup n + 1..last + size
      BY <1>1, <1>2, <3>4
    <3>6. p \notin {0, w.root} => up[p] = top[p]
      <4>1. n \in Nat /\ 0 < n
        BY <2>1
      <4>2. p \notin {0, w.root} => p \in 1..last
        BY <1>1, <3>4, <4>1
      <4> QED BY <1>10, <4>2
    <3>7. n # w.root /\ p \notin {0, w.root} => up[n] = up[p]
      BY <3>4, <3>6
    <3> QED BY <3>3, <3>5, <3>7
  <2>2. CASE n \notin 1..last
    <3>1. PICK j \in 1..size : n = last + j
      <4>1. n - last \in 1..size /\ n = last + (n - last)
        BY <1>1, <1>2, <2>2
      <4> QED BY <4>1
    <3>2. v.nodes[n] = new[j] /\ up[n] = t[j]
      BY <1>10, <1>11, <3>1
    <3>3. CASE j \in Tops(decls)
      BY <1>3, <3>2, <3>3
    <3>4. CASE j \notin Tops(decls)
      <4> DEFINE p == decls[j].parent
      <4>1. p \in j + 1..size /\ v.nodes[n].parent = last + p
        BY <1>3, <3>2, <3>4
      <4>2. t[j] = t[p]
        BY <1>5, <1>9, <3>4 DEF Inherits
      <4> HIDE DEF p
      <4>3. p \in 1..size /\ last + p \in n + 1..last + size
        BY <1>1, <1>2, <3>1, <4>1
      <4> QED BY <1>3, <1>10, <3>2, <4>1, <4>2, <4>3
    <3> QED BY <3>3, <3>4
  <2> QED BY <2>1, <2>2
<1>14. ASSUME NEW i \in DOMAIN v.decls
       PROVE  v.decls[i] \in 1..last + size /\ v.decls[i] # w.root /\ up[v.decls[i]] = i
  <2>1. CASE i \in 1..count
    <3>1. w.decls[i] \in 1..last /\ w.decls[i] # w.root /\ top[w.decls[i]] = i
      BY <1>1, <2>1 DEF Owners
    <3>2. v.decls[i] = w.decls[i]
      BY <1>12, <2>1
    <3> DEFINE d == w.decls[i]
    <3>3. d \in 1..last /\ d # w.root /\ top[d] = i /\ v.decls[i] = d
      BY <3>1, <3>2
    <3> HIDE DEF d
    <3>4. d \in 1..last + size /\ up[d] = top[d]
      BY <1>1, <1>2, <1>10, <3>3
    <3> QED BY <3>3, <3>4
  <2>2. CASE i \notin 1..count
    <3>1. PICK r \in 1..Len(roots) : i = count + r
      <4>1. i - count \in 1..Len(roots) /\ i = count + (i - count)
        BY <1>1, <1>12, <2>2
      <4> QED BY <4>1
    <3>2. PICK j \in Tops(decls) : j \in 1..size /\ roots[r] = last + j /\ base[j] = count + r
      BY <1>7, <1>12
    <3>3. v.decls[i] = last + j
      BY <1>12, <3>1, <3>2
    <3>4. t[j] = base[j]
      BY <1>9, <3>2 DEF Inherits
    <3> QED BY <1>1, <1>2, <1>10, <3>1, <3>2, <3>3, <3>4
  <2> QED BY <2>1, <2>2
<1>15. w.root \in 1..last + size
  BY <1>1, <1>2
<1>16. Owners(v, up)
  BY <1>11, <1>12, <1>13, <1>14, <1>15 DEF Owners
<1>17. Extended(w, v, top, up)
  BY <1>1, <1>2, <1>10, <1>11 DEF Extended
<1> QED BY <1>16, <1>17

LEMMA ShapeTwice ==
  ASSUME NEW w, NEW u, NEW v, Shape(w, u), Shape(u, v)
  PROVE  Shape(w, v)
BY DEF Shape

LEMMA ShapeExtends ==
  ASSUME NEW w, NEW v, NEW top, Owners(w, top), Shape(w, v)
  PROVE  \E up : Owners(v, up) /\ Extended(w, v, top, up)
BY ShapeOwns DEF Extended, Shape

\* A node is replaced by one that has its parent.
LEMMA ReplacedOwns ==
  ASSUME NEW w, IsState(w), NEW top, Owners(w, top), NEW v, Shape(w, v),
         NEW at, NEW node, at \in DOMAIN w.nodes => "parent" \in DOMAIN node /\ node.parent = w.nodes[at].parent,
         NEW u, u = [v EXCEPT !.nodes[at] = node]
  PROVE  IsState(u) /\ Owners(u, top) /\ Extended(w, u, top, top)
<1>1. IsState(u) /\ u.decls = w.decls /\ u.root = w.root
  BY DEF Shape, IsState, Fields
<1>2. u.nodes = [w.nodes EXCEPT ![at] = node]
  BY DEF Shape, IsState, Fields
<1>3. DOMAIN w.nodes = 1..Len(w.nodes) /\ Len(w.nodes) \in Nat
  BY SeqIndices DEF Owners
<1>4. DOMAIN u.nodes = DOMAIN w.nodes /\ u.nodes = [m \in DOMAIN w.nodes |-> u.nodes[m]]
  BY <1>2
<1>5. ASSUME NEW m \in DOMAIN w.nodes
      PROVE  "parent" \in DOMAIN u.nodes[m] /\ u.nodes[m].parent = w.nodes[m].parent
  <2>1. CASE m = at
    BY <1>2, <2>1
  <2>2. CASE m # at
    <3>1. u.nodes[m] = w.nodes[m]
      BY <1>2, <2>2
    <3> QED BY <3>1 DEF Owners
  <2> QED BY <2>1, <2>2
<1>6. IsSeq(u.nodes) /\ Len(u.nodes) = Len(w.nodes)
  <2> DEFINE s == u.nodes
             m == Len(w.nodes)
  <2>1. m \in Nat /\ s = [i \in 1..m |-> s[i]]
    BY <1>3, <1>4
  <2> HIDE DEF s, m
  <2>2. IsSeq(s) /\ Len(s) = m
    BY <2>1, IndexedIsSeq
  <2> QED BY <2>2 DEF s, m
<1>7. Owners(u, top)
  <2>1. \A m \in DOMAIN u.nodes : /\ "parent" \in DOMAIN u.nodes[m]
                                 /\ u.nodes[m].parent = w.nodes[m].parent
    BY <1>4, <1>5
  <2> QED BY <1>1, <1>4, <1>6, <2>1 DEF Owners
<1> QED BY <1>1, <1>4, <1>7 DEF Extended

LEMMA AdviceOwns ==
  ASSUME NEW w, IsState(w), NEW top, Owners(w, top), NEW n, NEW adv, IsAdvice(adv)
  PROVE  \E up : Owners(ApplyAdvice(w, n, adv), up) /\ Extended(w, ApplyAdvice(w, n, adv), top, up)
<1> DEFINE template == adv.template
           v == ApplyAdvice(w, n, adv)
           Owned(u) == \E up : Owners(u, up) /\ Extended(w, u, top, up)
<1>1. IsSeq(template.imports) /\ IsSeq(adv.links) /\ adv.kind \in AdviceKinds
  BY DEF IsAdvice
<1>2. ASSUME NEW u, Shape(w, u)
      PROVE  Shape(w, Mark(EnsureMinGoLang(u, template))) /\ Shape(w, EnsureMinGoLang(u, template)) /\ Shape(w, Mark(u))
  <2>1. IsState(u)
    BY <1>2 DEF Shape
  <2> QED BY <1>2, <2>1, ShapesOf, ShapeTwice
<1>3. ASSUME NEW m
      PROVE  Shape(w, Compile(w, m, template)) /\ Shape(w, Failed(w))
  BY <1>1, ShapesOf
<1>4. ASSUME NEW u, Shape(w, u)
      PROVE  Shape(w, ImportType(u, n, adv.path))
  <2>1. IsState(u)
    BY <1>4 DEF Shape
  <2> QED BY <1>4, <2>1, ShapesOf, ShapeTwice
<1>5. ASSUME NEW u, Shape(w, u)
      PROVE  Owned(u)
  BY <1>5, ShapeExtends
<1>6. Shape(w, w)
  BY DEF Shape
<1> HIDE DEF Owned, template
<1>7. CASE ~Applies(w, n, adv)
  <2>1. v = Failed(w)
    BY <1>7 DEF ApplyAdvice
  <2> QED BY <1>3, <1>5, <2>1 DEF Owned
<1>8. CASE Applies(w, n, adv) /\ adv.kind \in {"prepend-statements", "assign-value"}
  <2>1. v = Mark(EnsureMinGoLang(Compile(w, n, template), template))
    BY <1>8 DEF ApplyAdvice, PrependStatements, AssignValue, template
  <2>2. Shape(w, v)
    BY <1>2, <1>3, <2>1
  <2> QED BY <1>5, <2>2 DEF Owned
<1>9. CASE Applies(w, n, adv) /\ adv.kind = "add-struct-field"
  <2>1. v = Mark(ImportType(w, n, adv.path))
    BY <1>9 DEF ApplyAdvice, AddStructField
  <2>2. Shape(w, v)
    BY <1>2, <1>4, <1>6, <2>1
  <2> QED BY <1>5, <2>2 DEF Owned
<1>10. CASE Applies(w, n, adv) /\ adv.kind = "append-args"
  <2> DEFINE u == EnsureMinGoLang(Compile(w, n, template), template)
  <2>1. v = Mark(IF w.nodes[n].ellipsis THEN ImportType(u, n, adv.path) ELSE u)
    BY <1>10 DEF ApplyAdvice, AppendArgs, template
  <2>2. Shape(w, u)
    BY <1>2, <1>3
  <2> HIDE DEF u
  <2>3. Shape(w, v)
    BY <1>2, <1>4, <2>1, <2>2
  <2> QED BY <1>5, <2>3 DEF Owned
<1>11. CASE Applies(w, n, adv) /\ adv.kind = "add-blank-import"
  <2>1. v = IF ImportIsUsable(w, n, adv.path, "_") THEN w ELSE Mark(AddImport(w, n, adv.path, "_"))
    BY <1>11 DEF ApplyAdvice, AddBlankImport
  <2>2. Shape(w, AddImport(w, n, adv.path, "_"))
    BY AddImportRefers, RefersShape
  <2>3. Shape(w, v)
    BY <1>2, <1>6, <2>1, <2>2
  <2> QED BY <1>5, <2>3 DEF Owned
<1>12. CASE Applies(w, n, adv) /\ adv.kind = "wrap-expression"
  <2> DEFINE at == IF w.nodes[n].kind = "KeyValueExpr"
                   THEN CHOOSE c \in Child(w, n, "Value") : TRUE ELSE n
             c == Compile(w, at, template)
             node == Replacement(w, at, template)
             u == [c EXCEPT !.nodes[at] = node]
  <2>1. v = Mark(EnsureMinGoLang(u, template))
    BY <1>12 DEF ApplyAdvice, WrapExpression, template
  <2>2. Shape(w, c)
    BY <1>3
  <2>3. "parent" \in DOMAIN node /\ node.parent = w.nodes[at].parent
    <3> HIDE DEF at
    <3> QED BY BlankNodeAssumption DEF Replacement
  <2> HIDE DEF at, c, node
  <2>4. IsState(u) /\ Owners(u, top) /\ Extended(w, u, top, top)
    BY <2>2, <2>3, ReplacedOwns
  <2> HIDE DEF u
  <2>5. Shape(u, v)
    BY <2>1, <2>4, ShapesOf
  <2>6. Owners(v, top) /\ Extended(w, v, top, top)
    BY <2>4, <2>5, ShapeOwns DEF Extended, Shape
  <2> QED BY <2>6
<1>13. CASE Applies(w, n, adv) /\ adv.kind = "replace-function"
  <2> DEFINE u == [w EXCEPT !.nodes[n].form = "Ident", !.nodes[n].path = adv.path,
                            !.nodes[n].name = adv.name]
             node == [[[w.nodes[n] EXCEPT !.form = "Ident"] EXCEPT !.path = adv.path]
                          EXCEPT !.name = adv.name]
  <2>1. v = Mark(ImportType(u, n, adv.path))
    BY <1>13 DEF ApplyAdvice, ReplaceFunction
  <2>2. n \in DOMAIN w.nodes => "parent" \in DOMAIN node /\ node.parent = w.nodes[n].parent
    BY DEF Owners
  <2>3. u = [w EXCEPT !.nodes[n] = node]
    BY DEF IsState, Fields
  <2> HIDE DEF node, u
  <2>4. IsState(u) /\ Owners(u, top) /\ Extended(w, u, top, top)
    BY <1>6, <2>2, <2>3, ReplacedOwns
  <2> DEFINE i == ImportType(u, n, adv.path)
  <2>5. Shape(u, i)
    BY <2>4, ShapesOf
  <2> HIDE DEF i
  <2>6. Shape(i, Mark(i))
    BY <2>5, ShapesOf DEF Shape
  <2>7. Shape(u, v)
    BY <2>1, <2>5, <2>6, ShapeTwice DEF i
  <2>8. Owners(v, top) /\ Extended(w, v, top, top)
    BY <2>4, <2>7, ShapeOwns DEF Extended, Shape
  <2> QED BY <2>8
<1>14. CASE Applies(w, n, adv) /\ adv.kind = "inject-declarations"
  <2> DEFINE c == Compile(w, n, template)
             last == Len(w.nodes)
             new == [i \in DOMAIN adv.decls |->
                       [adv.decls[i] EXCEPT !.parent = IF @ = 0 THEN w.root ELSE last + @]]
             roots == Among([i \in DOMAIN new |-> last + i],
                            {last + i : i \in {j \in DOMAIN new : adv.decls[j].parent = 0}})
             grown == [c EXCEPT !.nodes = @ \o new, !.decls = @ \o roots]
             unsafe == AddImport(grown, n, "unsafe", "_")
             linked == IF adv.links = << >> THEN grown ELSE Through(AddLink, unsafe, adv.links)
  <2>1. v = IF adv.decls = << >> THEN c ELSE Mark(EnsureMinGoLang(linked, template))
    BY <1>14 DEF ApplyAdvice, InjectDeclarations, template
  <2>2. Shape(w, c)
    BY <1>3
  <2>3. new = Injected(adv.decls, last, w.root)
    BY DEF Injected
  <2>4. roots = Roots(adv.decls, last)
    <3>1. DOMAIN new = DOMAIN adv.decls
      OBVIOUS
    <3> HIDE DEF new, last
    <3> QED BY <3>1 DEF Roots, Tops
  <2> HIDE DEF new, roots, c
  <2>5. IsState(grown) /\ grown.nodes = w.nodes \o new /\ grown.decls = w.decls \o roots /\ grown.root = w.root
    BY <2>2 DEF Shape, IsState, Fields
  <2>6. IsSeq(adv.decls) /\ InPostOrder(adv.decls) /\ \A j \in DOMAIN adv.decls : "parent" \in DOMAIN adv.decls[j]
    BY BlankNodeAssumption DEF IsAdvice, Range
  <2> HIDE DEF grown
  <2>7. PICK up : Owners(grown, up) /\ Extended(w, grown, top, up)
    BY <2>3, <2>4, <2>5, <2>6, GrownOwns
  <2>8. Shape(grown, linked)
    <3>1. OnlyRefers(grown, unsafe, {"unsafe"})
      BY <2>5, AddImportRefers
    <3> HIDE DEF unsafe
    <3>2. IsState(unsafe)
      BY <3>1 DEF OnlyRefers
    <3>3. OnlyRefers(unsafe, Through(AddLink, unsafe, adv.links), Range(adv.links))
      BY <1>1, <3>2, LinksRefer
    <3>4. Shape(grown, unsafe) /\ Shape(unsafe, Through(AddLink, unsafe, adv.links))
      BY <3>1, <3>3, RefersShape
    <3>5. Shape(grown, grown)
      BY <2>5 DEF Shape
    <3> QED BY <3>4, <3>5, ShapeTwice
  <2> HIDE DEF linked
  <2>9. CASE adv.decls = << >>
    BY <1>5, <2>1, <2>2, <2>9 DEF Owned
  <2>10. CASE adv.decls # << >>
    <3>1. Shape(linked, v)
      <4>1. IsState(linked)
        BY <2>8 DEF Shape
      <4> QED BY <2>1, <2>10, <4>1, ShapesOf
    <3>2. Shape(grown, v)
      BY <2>8, <3>1, ShapeTwice
    <3>3. Owners(v, up) /\ Extended(w, v, top, up)
      BY <2>7, <3>2, ShapeOwns DEF Extended, Shape
    <3> QED BY <3>3
  <2> QED BY <2>9, <2>10
<1> QED BY <1>1, <1>7, <1>8, <1>9, <1>10, <1>11, <1>12, <1>13, <1>14 DEF AdviceKinds

-----------------------------------------------------------------------------
(***************************************************************************)
(* The cursor of a file: what has been applied was applied behind it.        *)
(***************************************************************************)
IsInjectiveSeq(s) == IsSeq(s) /\ IsInjective(s)

\* The nodes that advice was applied to are of declarations up to the cursor's, and
\* those that are left of this one are not among them.
Behind(w, top) ==
  /\ Owners(w, top)
  /\ w.at \in Nat
  /\ w.todo \in Seq(DOMAIN w.nodes) /\ IsInjective(w.todo)
  /\ \A n \in Range(w.todo) : n # w.root /\ top[n] = w.at
  /\ \A app \in Range(w.applied) :
         /\ app[1] \in DOMAIN w.nodes /\ app[1] # w.root /\ app[1] \notin Range(w.todo)
         /\ top[app[1]] \in 0..w.at

\* After the declarations there is the file.
AtRoot(w, top) ==
  /\ Owners(w, top)
  /\ w.todo = <<w.root>>
  /\ \A app \in Range(w.applied) : app[1] # w.root

OnceInv(w) ==
  /\ IsInjectiveSeq(w.applied)
  /\ w.state = "decls" => w.todo # << >> /\ \E top : Behind(w, top)
  /\ w.state = "file" => \E top : AtRoot(w, top)

LEMMA MinOf ==
  ASSUME NEW S \in SUBSET Nat, S # {}
  PROVE  Min(S) \in S
<1>1. PICK k \in S : \A l \in S : ~ (l < k)
  BY LeastExists
<1>2. \E i \in S : \A l \in S : i <= l
  BY <1>1
<1> QED BY <1>2 DEF Min

LEMMA SettleHasOnceInv ==
  ASSUME NEW w, IsState(w), w.state = "decls", IsInjectiveSeq(w.applied),
         NEW top, Behind(w, top)
  PROVE  OnceInv(Settle(w))
<1> DEFINE next == {i \in w.at + 1..Len(w.decls) : Subtree(w, w.decls[i]) # << >>}
           i == Min(next)
           s == Subtree(w, w.decls[i])
           file == [w EXCEPT !.state = "file", !.todo = <<w.root>>]
           moved == [w EXCEPT !.at = i, !.todo = s]
<1>1. Owners(w, top) /\ w.at \in Nat /\ Len(w.decls) \in Nat /\ DOMAIN w.decls = 1..Len(w.decls)
  BY SeqIndices DEF Behind, Owners
<1>2. CASE w.todo # << >>
  <2>1. Settle(w) = w
    BY <1>2 DEF Settle
  <2> QED BY <1>2, <2>1 DEF OnceInv
<1>3. CASE w.todo = << >> /\ next = {}
  <2>1. Settle(w) = file
    BY <1>3 DEF Settle
  <2>2. /\ file.state = "file" /\ file.todo = <<file.root>> /\ file.applied = w.applied
        /\ Shape(w, file)
    BY DEF IsState, Fields, Shape
  <2> HIDE DEF file
  <2>3. AtRoot(file, top)
    BY <1>1, <2>2, ShapeOwns DEF AtRoot, Behind, Shape
  <2> QED BY <2>1, <2>2, <2>3 DEF OnceInv
<1>4. CASE w.todo = << >> /\ next # {}
  <2>1. Settle(w) = moved
    BY <1>4 DEF Settle
  <2>2. i \in next
    <3>1. next \in SUBSET Nat
      BY <1>1
    <3> HIDE DEF next
    <3> QED BY <1>4, <3>1, MinOf
  <2>3. i \in w.at + 1..Len(w.decls) /\ s # << >>
    <3> HIDE DEF i
    <3> QED BY <2>2
  <2> HIDE DEF i, next
  <2>4. i \in DOMAIN w.decls /\ i \in Nat /\ w.at < i
    BY <1>1, <2>3
  <2>5. /\ s \in Seq(DOMAIN w.nodes) /\ IsInjective(s)
        /\ \A n \in Range(s) : n \in DOMAIN w.nodes \ {w.root} /\ top[n] = i
    BY <1>1, <2>4, SubtreeIsOwned
  <2> HIDE DEF s
  <2>6. /\ moved.state = "decls" /\ moved.todo = s /\ moved.at = i /\ moved.applied = w.applied
        /\ Shape(w, moved)
    BY DEF IsState, Fields, Shape
  <2> HIDE DEF moved
  <2>7. ASSUME NEW app \in Range(w.applied)
        PROVE  /\ app[1] \in DOMAIN w.nodes /\ app[1] # w.root /\ app[1] \notin Range(s)
               /\ top[app[1]] \in 0..i
    <3>1. app[1] \in DOMAIN w.nodes /\ app[1] # w.root /\ top[app[1]] \in 0..w.at
      BY DEF Behind
    <3> QED BY <1>1, <2>4, <2>5, <3>1
  <2>8. Behind(moved, top)
    <3>1. Owners(moved, top) /\ moved.nodes = w.nodes /\ moved.decls = w.decls /\ moved.root = w.root
      BY <1>1, <2>6, ShapeOwns DEF Shape
    <3> QED BY <2>4, <2>5, <2>6, <2>7, <3>1 DEF Behind
  <2> QED BY <2>1, <2>3, <2>6, <2>8 DEF OnceInv
<1> QED BY <1>2, <1>3, <1>4

-----------------------------------------------------------------------------
(***************************************************************************)
(* The advice of a node, applied in turn.                                    *)
(***************************************************************************)
\* What has become of w after some advice of ids was applied to n.
Advanced(w, top, n, ids, k, v) ==
  /\ IsGood(v) /\ v.at = w.at /\ v.todo = w.todo /\ v.root = w.root
  /\ v.state \in {w.state, "failed"}
  /\ \E up : Owners(v, up) /\ Extended(w, v, top, up)
  /\ IsInjectiveSeq(v.applied)
  /\ \A app \in Range(v.applied) :
         app \in Range(w.applied) \/ \E i \in 1..k : app = <<n, ids[i]>>

LEMMA NextAdvances ==
  ASSUME world \in worlds, NEW S \in SUBSET Aspects, NEW w, NEW top, NEW n,
         \A app \in Range(w.applied) : app[1] # n,
         NEW ids, NEW k \in Nat, ids[k + 1] \in IdsOf(S),
         \A i \in 1..k : ids[i] # ids[k + 1],
         NEW v, Advanced(w, top, n, ids, k, v)
  PROVE  Advanced(w, top, n, ids, k + 1, AdviceNext(v, n, ids[k + 1]))
<1> DEFINE id == ids[k + 1]
           adv == AdviceOf(id)
           u == ApplyAdvice(v, n, adv)
           x == [u EXCEPT !.applied = Append(@, <<n, id>>)]
<1>1. CASE v.state = "failed"
  <2>1. AdviceNext(v, n, id) = v
    BY <1>1 DEF AdviceNext
  <2>2. \A i \in 1..k : i \in 1..k + 1
    OBVIOUS
  <2> QED BY <2>1, <2>2 DEF Advanced
<1>2. CASE v.state # "failed"
  <2>1. AdviceNext(v, n, id) = x
    BY <1>2 DEF AdviceNext
  <2>2. IsAdvice(adv)
    BY AdviceIsAdvice
  <2>3. IsGood(v) /\ IsState(v)
    BY DEF Advanced, IsGood
  <2>4. PICK up : Owners(v, up) /\ Extended(w, v, top, up)
    BY DEF Advanced
  <2>5. Advised(v, u, adv)
    BY <2>2, <2>3, AppliedAdvises
  <2>6. PICK over : Owners(u, over) /\ Extended(v, u, up, over)
    BY <2>2, <2>3, <2>4, AdviceOwns
  <2> HIDE DEF u, adv
  <2>7. /\ IsState(u) /\ u.lang \in Nat /\ u.state \in {v.state, "failed"}
        /\ u.at = v.at /\ u.todo = v.todo /\ u.root = v.root /\ u.applied = v.applied
    BY <2>5 DEF Advised, Keeps, Cursor
  <2>8. /\ IsState(x) /\ x.applied = Append(v.applied, <<n, id>>) /\ Shape(u, x)
        /\ x.lang = u.lang /\ x.state = u.state /\ x.at = u.at /\ x.todo = u.todo /\ x.root = u.root
    BY <2>7 DEF IsState, Fields, Shape
  <2> HIDE DEF x
  <2>9. Owners(x, over) /\ Extended(w, x, top, over)
    BY <2>4, <2>6, <2>8, ShapeOwns DEF Extended, Shape
  <2>10. IsInjectiveSeq(v.applied) /\ <<n, id>> \notin Range(v.applied)
    BY DEF Advanced, IsInjectiveSeq
  <2>11. IsInjectiveSeq(x.applied) /\ Range(x.applied) = Range(v.applied) \cup {<<n, id>>}
    <3> DEFINE s == v.applied
               pair == <<n, id>>
    <3>1. s \in Seq(Range(s)) /\ IsSeq(s) /\ IsInjective(s) /\ pair \notin Range(s) /\ x.applied = Append(s, pair)
      BY <2>8, <2>10 DEF IsInjectiveSeq, IsSeq
    <3> HIDE DEF s, pair
    <3>2. IsInjective(Append(s, pair)) /\ IsSeq(Append(s, pair)) /\ Range(Append(s, pair)) = Range(s) \cup {pair}
      BY <3>1, AppendIsInjective, AppendIsSeq
    <3> QED BY <3>1, <3>2 DEF IsInjectiveSeq, s, pair
  <2>12. ASSUME NEW app \in Range(x.applied)
         PROVE  app \in Range(w.applied) \/ \E i \in 1..k + 1 : app = <<n, ids[i]>>
    <3>1. CASE app = <<n, id>>
      BY <3>1
    <3>2. CASE app \in Range(v.applied)
      <4>1. app \in Range(w.applied) \/ \E i \in 1..k : app = <<n, ids[i]>>
        BY <3>2 DEF Advanced
      <4>2. \A i \in 1..k : i \in 1..k + 1
        OBVIOUS
      <4> QED BY <4>1, <4>2
    <3> QED BY <2>11, <3>1, <3>2
  <2>13. /\ v.at = w.at /\ v.todo = w.todo /\ v.root = w.root /\ v.state \in {w.state, "failed"}
    BY DEF Advanced
  <2> HIDE DEF id
  <2>14. Advanced(w, top, n, ids, k + 1, x)
    BY <2>7, <2>8, <2>9, <2>11, <2>12, <2>13 DEF Advanced, IsGood
  <2> QED BY <2>1, <2>14 DEF id
<1> QED BY <1>1, <1>2

LEMMA ChainAdvances ==
  ASSUME world \in worlds, NEW S \in SUBSET Aspects, NEW w, IsGood(w), NEW top, Owners(w, top),
         IsInjectiveSeq(w.applied), NEW n, \A app \in Range(w.applied) : app[1] # n,
         NEW ids, IsInjective(ids), NEW m \in Nat, DOMAIN ids = 1..m,
         \A i \in 1..m : ids[i] \in IdsOf(S),
         NEW f, Chain(f, "advice", w, n, ids, m)
  PROVE  Advanced(w, top, n, ids, m, f[m])
<1> DEFINE Bad == {k \in 0..m : ~Advanced(w, top, n, ids, k, f[k])}
<1> SUFFICES ASSUME Bad # {}
             PROVE  FALSE
  OBVIOUS
<1>1. Bad \in SUBSET Nat
  OBVIOUS
<1>2. PICK k \in Bad : \A l \in Bad : ~ (l < k)
  <2> HIDE DEF Bad
  <2> QED BY <1>1, LeastExists
<1>3. k # 0
  <2>1. f[0] = w
    BY DEF Chain
  <2>2. Extended(w, w, top, top)
    BY DEF Extended
  <2>3. Advanced(w, top, n, ids, 0, w)
    BY <2>2 DEF Advanced
  <2> QED BY <2>1, <2>3
<1> DEFINE j == k - 1
<1>4. k \in 1..m /\ j \in 0..m /\ j < k /\ j \in Nat /\ j + 1 = k
  BY <1>3
<1>5. Advanced(w, top, n, ids, j, f[j])
  BY <1>2, <1>4
<1>6. f[k] = AdviceNext(f[j], n, ids[k])
  BY <1>4 DEF Chain, FoldNext
<1>7. \A i \in 1..j : ids[i] # ids[k]
  BY <1>4 DEF IsInjective
<1>8. ids[k] \in IdsOf(S)
  BY <1>4
<1> HIDE DEF j
<1>9. Advanced(w, top, n, ids, j + 1, AdviceNext(f[j], n, ids[j + 1]))
  BY <1>4, <1>5, <1>7, <1>8, NextAdvances
<1> QED BY <1>4, <1>6, <1>9

LEMMA InjectAdvances ==
  ASSUME world \in worlds, NEW S \in SUBSET Aspects, NEW aspects \in Seq(S), IsInjective(aspects),
         NEW w, IsGood(w), NEW top, Owners(w, top), IsInjectiveSeq(w.applied),
         NEW n, \A app \in Range(w.applied) : app[1] # n
  PROVE  \E ids, m : Advanced(w, top, n, ids, m, InjectNode(w, n, aspects))
<1> DEFINE ids == Sorted(AdviceAt(w, n, aspects))
           m == Len(ids)
<1>1. /\ m \in Nat /\ \A i \in 1..m : ids[i] \in IdsOf(S)
      /\ \E f : Chain(f, "advice", w, n, ids, m) /\ InjectNode(w, n, aspects) = f[m]
  BY InjectIsChain
<1>2. IsInjective(ids)
  BY SortedIsInjective
<1>3. DOMAIN ids = 1..m
  <2>1. ids \in Seq(IdsOf(S))
    BY SortedAdvice
  <2> HIDE DEF ids
  <2> QED BY <2>1
<1> HIDE DEF ids, m
<1>4. PICK f : Chain(f, "advice", w, n, ids, m) /\ InjectNode(w, n, aspects) = f[m]
  BY <1>1
<1>5. Advanced(w, top, n, ids, m, f[m])
  BY <1>1, <1>2, <1>3, <1>4, ChainAdvances
<1> QED BY <1>4, <1>5

-----------------------------------------------------------------------------
(***************************************************************************)
(* The traversal keeps OnceInv.                                              *)
(***************************************************************************)
LEMMA HeadAndTail ==
  ASSUME NEW T, NEW s \in Seq(T), s # << >>, IsInjective(s)
  PROVE  /\ Head(s) \in Range(s) /\ Head(s) \in T
         /\ Tail(s) \in Seq(T) /\ IsInjective(Tail(s))
         /\ Head(s) \notin Range(Tail(s)) /\ Range(Tail(s)) \subseteq Range(s)
<1> DEFINE t == Tail(s)
<1>1. /\ Len(s) \in Nat /\ Len(s) > 0 /\ DOMAIN s = 1..Len(s) /\ Head(s) = s[1] /\ s[1] \in T
      /\ t \in Seq(T) /\ DOMAIN t = 1..Len(s) - 1
      /\ \A i \in 1..Len(s) - 1 : t[i] = s[i + 1]
  OBVIOUS
<1> HIDE DEF t
<1>2. Head(s) \in Range(s)
  BY <1>1 DEF Range
<1>3. IsInjective(t)
  BY <1>1 DEF IsInjective
<1>4. ASSUME NEW x \in Range(t)
      PROVE  x \in Range(s) /\ x # Head(s)
  <2>1. PICK i \in 1..Len(s) - 1 : x = s[i + 1]
    BY <1>1 DEF Range
  <2>2. i + 1 \in DOMAIN s /\ i + 1 # 1 /\ 1 \in DOMAIN s
    BY <1>1
  <2> QED BY <1>1, <2>1, <2>2 DEF Range, IsInjective
<1> QED BY <1>1, <1>2, <1>3, <1>4 DEF t

LEMMA VisitKeepsOnceInv ==
  ASSUME world \in worlds, NEW S \in SUBSET Aspects, NEW aspects \in Seq(S), IsInjective(aspects),
         NEW w, IsGood(w), OnceInv(w), w.state \in {"decls", "file"}
  PROVE  OnceInv(VisitNode(w, aspects))
<1> DEFINE n == Head(w.todo)
           u == InjectNode(w, n, aspects)
           v == [u EXCEPT !.todo = Tail(w.todo)]
           woven == [v EXCEPT !.state = "woven"]
           leave(x) == IF x.state = "failed" THEN x
                       ELSE IF x.state = "file" THEN [x EXCEPT !.state = "woven"]
                       ELSE Settle(x)
<1>1. VisitNode(w, aspects) = leave(v)
  <2>1. {leave(x) : x \in {v}} = {leave(v)}
    OBVIOUS
  <2>2. VisitNode(w, aspects) = Value({leave(x) : x \in {v}})
    BY DEF VisitNode
  <2> QED BY <2>1, <2>2, ValueOf
<1>2. PICK top : IF w.state = "decls" THEN w.todo # << >> /\ Behind(w, top) ELSE AtRoot(w, top)
  BY DEF OnceInv
<1>3. Owners(w, top) /\ IsInjectiveSeq(w.applied)
  BY <1>2 DEF Behind, AtRoot, OnceInv
<1>4. \A app \in Range(w.applied) : app[1] # n
  <2>1. CASE w.state = "decls"
    <3>1. n \in Range(w.todo)
      BY <1>2, <2>1, HeadAndTail DEF Behind
    <3> QED BY <1>2, <2>1, <3>1 DEF Behind
  <2>2. CASE w.state = "file"
    <3>1. n = w.root
      BY <1>2, <2>2 DEF AtRoot
    <3> QED BY <1>2, <2>2, <3>1 DEF AtRoot
  <2> QED BY <2>1, <2>2
<1> HIDE DEF n
<1>5. PICK ids, m : Advanced(w, top, n, ids, m, u)
  BY <1>3, <1>4, InjectAdvances
<1> HIDE DEF u
<1>6. IsState(u) /\ u.at = w.at /\ u.root = w.root /\ u.state \in {w.state, "failed"} /\ IsInjectiveSeq(u.applied)
  BY <1>5 DEF Advanced, IsGood
<1>7. /\ IsState(v) /\ Shape(u, v) /\ v.todo = Tail(w.todo) /\ v.at = u.at /\ v.state = u.state
      /\ v.applied = u.applied
  BY <1>6 DEF IsState, Fields, Shape
<1> HIDE DEF v
<1>8. CASE v.state = "failed"
  <2>1. VisitNode(w, aspects) = v
    BY <1>1, <1>8
  <2> QED BY <1>6, <1>7, <1>8, <2>1 DEF OnceInv
<1>9. CASE v.state = "file"
  <2>1. VisitNode(w, aspects) = woven
    BY <1>1, <1>9
  <2>2. woven.state = "woven" /\ woven.applied = v.applied
    BY <1>7 DEF IsState, Fields
  <2> QED BY <1>6, <1>7, <2>1, <2>2 DEF OnceInv
<1>10. CASE v.state = "decls"
  <2>1. VisitNode(w, aspects) = Settle(v)
    BY <1>1, <1>10
  <2>2. w.state = "decls" /\ w.todo # << >> /\ Behind(w, top)
    BY <1>2, <1>6, <1>7, <1>10
  <2>3. /\ n \in Range(w.todo) /\ n \in DOMAIN w.nodes
        /\ v.todo \in Seq(DOMAIN w.nodes) /\ IsInjective(v.todo)
        /\ n \notin Range(v.todo) /\ Range(v.todo) \subseteq Range(w.todo)
    <3> DEFINE todo == w.todo
               T == DOMAIN w.nodes
    <3>1. todo \in Seq(T) /\ todo # << >> /\ IsInjective(todo)
      BY <2>2 DEF Behind
    <3>2. n = Head(todo) /\ v.todo = Tail(todo)
      BY <1>7 DEF n
    <3> HIDE DEF todo, T
    <3>3. /\ Head(todo) \in Range(todo) /\ Head(todo) \in T
          /\ Tail(todo) \in Seq(T) /\ IsInjective(Tail(todo))
          /\ Head(todo) \notin Range(Tail(todo)) /\ Range(Tail(todo)) \subseteq Range(todo)
      BY <3>1, HeadAndTail
    <3> QED BY <3>2, <3>3 DEF todo, T
  <2>4. PICK up : Owners(u, up) /\ Extended(w, u, top, up)
    BY <1>5 DEF Advanced
  <2>5. Owners(v, up) /\ DOMAIN w.nodes \subseteq DOMAIN v.nodes /\ \A k \in DOMAIN w.nodes : up[k] = top[k]
    BY <1>7, <2>4, ShapeOwns DEF Extended, Shape
  <2>6. v.at \in Nat
    BY <1>6, <1>7, <2>2 DEF Behind
  <2>7. \A k \in Range(v.todo) : k \in DOMAIN w.nodes /\ k # v.root /\ up[k] = v.at
    <3>1. \A k \in Range(w.todo) : k \in DOMAIN w.nodes /\ k # w.root /\ top[k] = w.at
      <4>1. Range(w.todo) \subseteq DOMAIN w.nodes
        BY <2>2, SeqIsSeq DEF Behind
      <4> QED BY <2>2, <4>1 DEF Behind
    <3>2. v.root = w.root /\ v.at = w.at
      BY <1>6, <1>7 DEF Shape
    <3> QED BY <2>3, <2>5, <3>1, <3>2
  <2>8. ASSUME NEW app \in Range(v.applied)
        PROVE  /\ app[1] \in DOMAIN v.nodes /\ app[1] # v.root /\ app[1] \notin Range(v.todo)
               /\ up[app[1]] \in 0..v.at
    <3>1. v.root = w.root /\ v.at = w.at /\ v.at \in 0..w.at
      BY <1>6, <1>7, <2>2 DEF Shape, Behind
    <3>2. CASE app \in Range(w.applied)
      <4>1. /\ app[1] \in DOMAIN w.nodes /\ app[1] # w.root /\ app[1] \notin Range(w.todo)
            /\ top[app[1]] \in 0..w.at
        BY <2>2, <3>2 DEF Behind
      <4> QED BY <2>3, <2>5, <3>1, <4>1
    <3>3. CASE app[1] = n
      <4>1. n # w.root /\ top[n] = w.at
        BY <2>2, <2>3 DEF Behind
      <4> QED BY <2>3, <2>5, <3>1, <3>3, <4>1
    <3>4. app \in Range(w.applied) \/ app[1] = n
      BY <1>5, <1>7 DEF Advanced
    <3> QED BY <3>2, <3>3, <3>4
  <2>9. v.todo \in Seq(DOMAIN v.nodes)
    <3>1. \A k \in 1..Len(v.todo) : v.todo[k] \in DOMAIN v.nodes
      BY <2>3, <2>5
    <3> QED BY <2>3, <3>1
  <2>10. Behind(v, up)
    BY <2>3, <2>5, <2>6, <2>7, <2>8, <2>9 DEF Behind
  <2> QED BY <1>6, <1>7, <1>10, <2>1, <2>10, SettleHasOnceInv
<1> QED BY <1>6, <1>7, <1>8, <1>9, <1>10

LEMMA StartHasOnceInv ==
  ASSUME world \in worlds, NEW f \in Files
  PROVE  OnceInv(Start(f))
<1> DEFINE file == world.files[f]
           root == Len(file.nodes)
           w == [state |-> "decls", nodes |-> file.nodes, packageName |-> file.packageName,
                 directives |-> file.directives, decls |-> file.decls, at |-> 0,
                 todo |-> << >>, root |-> root, imports |-> file.imports,
                 refs |-> << >>, aliases |-> << >>, uses |-> {}, synthetic |-> {},
                 lang |-> 0, modified |-> FALSE, applied |-> << >>]
           woven == [w EXCEPT !.state = "woven"]
           base == [n \in 1..root |-> CHOOSE i \in DOMAIN file.decls : file.decls[i] = n]
           ups == [n \in 1..root |-> file.nodes[n].parent]
           stop == {n \in 1..root : ups[n] \in {0, root}}
           T == {base[n] : n \in 1..root}
<1>1. Start(f) = IF file.nodes[root].ignored THEN woven ELSE Settle(w)
  BY DEF Start
<1>2. IsFile(world.pkg, file)
  BY WorldsAssumption DEF Files, Range
<1> HIDE DEF file
<1>3. /\ root \in Nat /\ root # 0 /\ DOMAIN file.nodes = 1..root /\ IsSeq(file.nodes)
  BY <1>2, SeqIndices DEF IsFile
<1>4. \A n \in 1..root : /\ "parent" \in DOMAIN file.nodes[n]
                         /\ file.nodes[n].parent \in {0} \cup n + 1..root
  <2>1. \A n \in 1..root : file.nodes[n] \in Range(file.nodes)
    BY <1>3 DEF Range
  <2>2. \A n \in 1..root : "parent" \in DOMAIN file.nodes[n]
    BY <1>2, <2>1, BlankNodeAssumption DEF IsFile
  <2> QED BY <1>2, <1>3, <2>2 DEF IsFile, InPostOrder
<1>5. /\ IsSeq(file.decls) /\ IsInjective(file.decls)
      /\ \A i \in DOMAIN file.decls : file.decls[i] \in 1..root /\ file.nodes[file.decls[i]].parent = root
  BY <1>2, <1>3 DEF IsFile, Range
<1>6. \A i \in DOMAIN file.decls : base[file.decls[i]] = i /\ file.decls[i] \in stop /\ file.decls[i] # root
  <2> SUFFICES ASSUME NEW i \in DOMAIN file.decls
               PROVE  base[file.decls[i]] = i /\ file.decls[i] \in stop /\ file.decls[i] # root
    OBVIOUS
  <2>1. file.decls[i] \in 1..root /\ file.nodes[file.decls[i]].parent = root
    BY <1>5
  <2>2. (CHOOSE k \in DOMAIN file.decls : file.decls[k] = file.decls[i]) = i
    BY <1>5 DEF IsInjective
  <2>3. file.nodes[root].parent # root
    BY <1>3, <1>4
  <2> QED BY <2>1, <2>2, <2>3
<1>7. \A n \in 1..root : base[n] \in T /\ ups[n] = file.nodes[n].parent
  OBVIOUS
<1>8. \A n \in 1..root : n \notin stop => ups[n] \in n + 1..root
  BY <1>4
<1>9. \A n \in 1..root : n \in stop <=> file.nodes[n].parent \in {0, root}
  OBVIOUS
<1> HIDE DEF root, base, ups, stop, T
<1>10. PICK top \in [1..root -> T] : Inherits(top, root, stop, base, ups)
  BY <1>3, <1>7, <1>8, InheritedExists
<1>11. w.nodes = file.nodes /\ w.decls = file.decls /\ w.root = root /\ w.at = 0 /\ w.todo = << >>
       /\ w.applied = << >> /\ w.state = "decls" /\ IsState(w)
  BY DEF IsState, Fields
<1>12. woven.applied = << >> /\ woven.state = "woven"
  OBVIOUS
<1> HIDE DEF w, woven
<1>13. Owners(w, top)
  <2>1. \A n \in 1..root : n # root /\ file.nodes[n].parent \notin {0, root} =>
            top[n] = top[file.nodes[n].parent]
    BY <1>7, <1>9, <1>10 DEF Inherits
  <2>2. \A n \in 1..root : file.nodes[n].parent \in {0, root} \cup n + 1..root
    BY <1>4
  <2>3. \A i \in DOMAIN file.decls : top[file.decls[i]] = i
    BY <1>5, <1>6, <1>10 DEF Inherits
  <2>4. root \in 1..root /\ Len(file.nodes) = root
    BY <1>3 DEF root
  <2> QED BY <1>3, <1>4, <1>5, <1>6, <1>11, <2>1, <2>2, <2>3, <2>4 DEF Owners
<1>14. IsInjectiveSeq(<< >>) /\ Range(<< >>) = {}
  BY DEF IsInjectiveSeq, IsInjective, IsSeq, Range
<1>15. Behind(w, top)
  <2>1. w.todo \in Seq(DOMAIN w.nodes) /\ IsInjective(w.todo)
    BY <1>11, <1>14 DEF IsInjectiveSeq
  <2>2. Range(w.todo) = {} /\ Range(w.applied) = {}
    BY <1>11, <1>14
  <2> QED BY <1>11, <1>13, <2>1, <2>2 DEF Behind
<1>16. OnceInv(woven)
  BY <1>12, <1>14 DEF OnceInv
<1>17. OnceInv(Settle(w))
  BY <1>11, <1>14, <1>15, SettleHasOnceInv
<1> QED BY <1>1, <1>16, <1>17

-----------------------------------------------------------------------------
(***************************************************************************)
(* No advice twice, of any file and after any steps.                        *)
(***************************************************************************)
CursorsInv ==
  /\ \A f \in Files : IsInjective(aspectsOf[f])
  /\ \A f \in DOMAIN weaver : OnceInv(weaver[f])

LEMMA FiltersAreInjective ==
  ASSUME world \in worlds
  PROVE  /\ IsInjective(PackageFilterAspects)
         /\ \A aspects \in Seq(Kept) : \A file :
                IsInjective(aspects) => IsInjective(FileFilterAspects(aspects, file))
<1>1. IsInjective(PackageFilterAspects)
  <2> DEFINE all == [a \in Aspects |-> a]
  <2>1. PackageFilterAspects = Among(all, Kept)
    BY DEF PackageFilterAspects, Kept
  <2>2. IsSeq(world.aspects)
    BY WorldsAssumption
  <2>3. Aspects = 1..Len(world.aspects) /\ Len(world.aspects) \in Nat
    BY <2>2, SeqIndices DEF Aspects
  <2>4. all \in Seq(Aspects) /\ IsInjective(all)
    BY <2>3 DEF IsInjective
  <2> HIDE DEF all
  <2> QED BY <2>1, <2>4, AmongIsInjective
<1>2. ASSUME NEW aspects \in Seq(Kept), NEW file, IsInjective(aspects)
      PROVE  IsInjective(FileFilterAspects(aspects, file))
  BY <1>2, AmongIsInjective DEF FileFilterAspects
<1> QED BY <1>1, <1>2

LEMMA InitHasCursorsInv == WInit => CursorsInv
<1>1. IsInjective(<< >>) /\ DOMAIN << >> = {}
  BY DEF IsInjective
<1> QED BY <1>1 DEF WInit, CursorsInv

LEMMA NextKeepsCursorsInv ==
  ASSUME WInv, CursorsInv, [WNext]_vars
  PROVE  CursorsInv'
<1> DEFINE Aspected == \A f \in Files : IsInjective(aspectsOf'[f])
           Cursored == \A f \in DOMAIN weaver' : OnceInv(weaver'[f])
<1>1. world' = world /\ world \in worlds
  BY DEF WInv, WNext, vars, CallStep, InjectFiles, EndParsing, TypeCheck, Return, Done,
         ParseStep, ReadFile, CheckApplicable, FilterFile, ParseFile,
         WeaveStep, Visit, Finish, WriteFails
<1>2. SUFFICES Aspected /\ Cursored
  BY <1>1 DEF CursorsInv, Files
<1>3. CASE UNCHANGED <<aspectsOf, weaver>>
  BY <1>3 DEF CursorsInv
<1>4. CASE InjectFiles
  <2>1. weaver' = weaver /\ (aspectsOf' = aspectsOf \/ aspectsOf' = [f \in Files |-> PackageFilterAspects])
    BY <1>4 DEF InjectFiles
  <2> QED BY <1>1, <2>1, FiltersAreInjective DEF CursorsInv
<1>5. ASSUME NEW f \in Files, FilterFile(f)
      PROVE  Aspected /\ Cursored
  <2> DEFINE left == FileFilterAspects(aspectsOf[f], world.files[f])
  <2>1. weaver' = weaver /\ (aspectsOf' = aspectsOf \/ aspectsOf' = [aspectsOf EXCEPT ![f] = left])
    BY <1>5 DEF FilterFile
  <2>2. IsInjective(left)
    BY <1>1, FiltersAreInjective DEF CursorsInv, WInv
  <2> HIDE DEF left
  <2>3. Aspected
    <3> SUFFICES ASSUME NEW g \in Files
                 PROVE  IsInjective(aspectsOf'[g])
      OBVIOUS
    <3>1. aspectsOf'[g] \in {aspectsOf[g], left}
      BY <2>1 DEF WInv
    <3> QED BY <2>2, <3>1 DEF CursorsInv
  <2> QED BY <2>1, <2>3 DEF CursorsInv
<1>6. CASE TypeCheck
  <2>1. aspectsOf' = aspectsOf /\ (weaver' = weaver \/ weaver' = [f \in Files |-> Start(f)])
    BY <1>6 DEF TypeCheck
  <2>2. \A f \in Files : OnceInv(Start(f))
    BY <1>1, StartHasOnceInv
  <2> QED BY <2>1, <2>2 DEF CursorsInv
<1>7. ASSUME NEW f \in Files, NEW v, stage = "weaving", OnceInv(v),
             aspectsOf' = aspectsOf, weaver' = [weaver EXCEPT ![f] = v]
      PROVE  Aspected /\ Cursored
  BY <1>7 DEF CursorsInv
<1>8. ASSUME NEW f \in Files, WeaveStep(f)
      PROVE  Aspected /\ Cursored
  <2>1. stage = "weaving" /\ aspectsOf' = aspectsOf
    BY <1>8 DEF WeaveStep, Visit, Finish, WriteFails
  <2>2. WeaversInv
    BY <2>1 DEF WInv
  <2>3. FileInv(weaver[f], Kept) /\ f \in DOMAIN weaver
    BY <2>2 DEF WeaversInv
  <2>4. OnceInv(weaver[f]) /\ IsGood(weaver[f]) /\ IsInjectiveSeq(weaver[f].applied)
    BY <2>3 DEF CursorsInv, FileInv, OnceInv
  <2>5. CASE Visit(f)
    <3> DEFINE v == VisitNode(weaver[f], aspectsOf[f])
    <3>1. weaver' = [weaver EXCEPT ![f] = v] /\ weaver[f].state \in {"decls", "file"}
      BY <2>5 DEF Visit
    <3>2. Kept \in SUBSET Aspects /\ aspectsOf[f] \in Seq(Kept) /\ IsInjective(aspectsOf[f])
      BY <1>1, AspectsKept DEF WInv, CursorsInv
    <3>3. OnceInv(v)
      BY <1>1, <2>4, <3>1, <3>2, VisitKeepsOnceInv
    <3> HIDE DEF v
    <3> QED BY <1>7, <2>1, <3>1, <3>3
  <2>6. CASE Finish(f) \/ WriteFails(f)
    <3> DEFINE v == Finished(weaver[f])
               x == Failed(v)
    <3>1. weaver' = [weaver EXCEPT ![f] = v] \/ weaver' = [weaver EXCEPT ![f] = x]
      BY <2>6 DEF Finish, WriteFails
    <3>2. v.state = "finished" /\ v.applied = weaver[f].applied
      BY <2>4 DEF Finished, AddSyntheticImports, IsGood, IsState, Fields
    <3>3. IsState(v)
      BY <2>4 DEF Finished, AddSyntheticImports, IsGood, IsState, Fields
    <3> HIDE DEF v
    <3>4. x.state = "failed" /\ x.applied = v.applied
      BY <3>3 DEF Failed, IsState, Fields
    <3> HIDE DEF x
    <3>5. OnceInv(v) /\ OnceInv(x)
      BY <2>4, <3>2, <3>4 DEF OnceInv
    <3> QED BY <1>7, <2>1, <3>1, <3>5
  <2> QED BY <1>8, <2>5, <2>6 DEF WeaveStep
<1>9. CASE EndParsing \/ Return \/ Done \/ UNCHANGED vars
  <2>1. UNCHANGED <<aspectsOf, weaver>>
    BY <1>9 DEF EndParsing, Return, Done, vars
  <2> QED BY <1>3, <2>1
<1>10. ASSUME NEW f \in Files, ReadFile(f) \/ CheckApplicable(f) \/ ParseFile(f)
       PROVE  Aspected /\ Cursored
  <2>1. UNCHANGED <<aspectsOf, weaver>>
    BY <1>10 DEF ReadFile, CheckApplicable, ParseFile
  <2> QED BY <1>3, <2>1
<1> HIDE DEF Aspected, Cursored
<1> QED BY <1>4, <1>5, <1>6, <1>8, <1>9, <1>10 DEF WNext, CallStep, ParseStep

LEMMA CursorsAreEnough == CursorsInv => EachNodeOnce
BY DEF CursorsInv, EachNodeOnce, OnceInv, IsInjectiveSeq

\* No advice is applied twice to a node of a file, though advice adds declarations to the
\* list that the traversal is in, adds nodes and replaces them (injectNode, applyAspects):
\* a node belongs to one declaration, and the cursor comes to each once.
THEOREM NodesOnce == WSpec => []EachNodeOnce
<1>1. WSpec => []CursorsInv
  <2>1. WInv /\ CursorsInv /\ [WNext]_vars => CursorsInv'
    BY NextKeepsCursorsInv
  <2> QED BY <2>1, InitHasCursorsInv, CallIsInvariant, PTL DEF WSpec
<1> QED BY <1>1, CursorsAreEnough, PTL

=============================================================================

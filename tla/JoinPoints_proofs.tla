------------------------- MODULE JoinPoints_proofs -------------------------
(***************************************************************************)
(* Theorems about JoinPoints, for every configuration: what the filters of  *)
(* packages and files rule out does not match; and lemmas on sequences.     *)
(***************************************************************************)
EXTENDS JoinPoints, WellFoundedInduction, FiniteSetTheorems, TLAPS

LEMMA LeastExists ==
  ASSUME NEW M \in SUBSET Nat, M # {}
  PROVE  \E k \in M : \A l \in M : ~ (l < k)
<1>1. \E k \in M : \A l \in M : ~ (<<l, k>> \in OpToRel(<, Nat))
  BY NatLessThanWellFounded, WFMin
<1> QED BY <1>1 DEF OpToRel

RulesOut(f) == f.package = "NeverMatch" \/ f.file = "NeverMatch"

-----------------------------------------------------------------------------
(***************************************************************************)
(* Compositions: what a composed join point rules out, its parts do.        *)
(***************************************************************************)
LEMMA NotRulesOutNothing ==
  ASSUME NEW f
  PROVE  ~ RulesOut(NotFilter(f))
BY DEF RulesOut, NotFilter, Filter, Not

LEMMA OneOfIsSound ==
  ASSUME NEW fs, NEW i \in DOMAIN fs, ~ RulesOut(fs[i])
  PROVE  ~ RulesOut(OneOfFilter(fs))
<1>1. fs[i] \in Range(fs)
  BY DEF Range
<1>2. ~ ({f.package : f \in Range(fs)} \subseteq {"NeverMatch"})
  BY <1>1 DEF RulesOut
<1>3. ~ ({f.file : f \in Range(fs)} \subseteq {"NeverMatch"})
  BY <1>1 DEF RulesOut
<1>4. /\ OneOfFilter(fs).package = OrAll({f.package : f \in Range(fs)})
      /\ OneOfFilter(fs).file = OrAll({f.file : f \in Range(fs)})
  BY DEF OneOfFilter, Filter
<1> QED BY <1>2, <1>3, <1>4 DEF OrAll, RulesOut

LEMMA AllOfIsSound ==
  ASSUME NEW fs, \A i \in DOMAIN fs : ~ RulesOut(fs[i])
  PROVE  ~ RulesOut(AllOfFilter(fs))
<1>1. /\ "NeverMatch" \notin {f.package : f \in Range(fs)}
      /\ "NeverMatch" \notin {f.file : f \in Range(fs)}
  BY DEF Range, RulesOut
<1>2. /\ AllOfFilter(fs).package = AndAll({f.package : f \in Range(fs)})
      /\ AllOfFilter(fs).file = AndAll({f.file : f \in Range(fs)})
  BY DEF AllOfFilter, Filter
<1> QED BY <1>1, <1>2 DEF AndAll, RulesOut

-----------------------------------------------------------------------------
(***************************************************************************)
(* The filters and the matches of every join point of a configuration, in a *)
(* package and a file: functions that obey the equations of Filters and     *)
(* Matches.  A match is stated at a node, of a context that may have lost   *)
(* that the package is a test main.                                         *)
(***************************************************************************)
AreFilters(filter, pkg, file) ==
  \A p \in DOMAIN points :
      filter[p] = FilterOf(points[p],
                           [i \in DOMAIN Parts(points[p]) |-> filter[Parts(points[p])[i]]],
                           pkg, file)

AreMatches(match, world, file) ==
  \A p \in DOMAIN points, n \in Nodes(file), main \in BOOLEAN :
      match[<<p, n, main>>] =
          MatchOf(points[p],
                  [i \in DOMAIN Parts(points[p]) |-> match[<<Parts(points[p])[i], n, main>>]],
                  match[<<Parts(points[p])[1], file.nodes[n].parent, FALSE>>],
                  world, file, n, main)

-----------------------------------------------------------------------------
(***************************************************************************)
(* The recursive functions Filters and Matches obey their own equations,    *)
(* since a join point is composed of join points that come before it.  For   *)
(* each: a function that obeys them below an index is unique there, and can  *)
(* be extended by that index; the values at the indices make up the          *)
(* function.                                                                *)
(***************************************************************************)
LEMMA PartsComeFirst ==
  ASSUME NEW p \in DOMAIN points, NEW i \in DOMAIN Parts(points[p])
  PROVE  /\ Parts(points[p])[i] \in DOMAIN points
         /\ Parts(points[p])[i] \in Nat /\ p \in Nat /\ Parts(points[p])[i] < p
<1>1. points[p].kind \in Compositions
  BY DEF Parts
<1> QED BY <1>1, PointsAssumption DEF IsComposition

FiltersBelow(k, filter, pkg, file) ==
  \A p \in DOMAIN points : p < k =>
      filter[p] = FilterOf(points[p],
                           [i \in DOMAIN Parts(points[p]) |-> filter[Parts(points[p])[i]]],
                           pkg, file)

LEMMA FiltersAgree ==
  ASSUME NEW pkg, NEW file, NEW k \in Nat, NEW g, NEW h,
         FiltersBelow(k, g, pkg, file), FiltersBelow(k, h, pkg, file)
  PROVE  \A p \in DOMAIN points : p < k => g[p] = h[p]
<1> DEFINE Differ == {p \in DOMAIN points : p < k /\ g[p] # h[p]}
<1> SUFFICES ASSUME Differ # {}
             PROVE  FALSE
  OBVIOUS
<1>1. Differ \subseteq Nat
  BY PointsAssumption
<1>2. \E p \in Differ : \A q \in Differ : ~ (<<q, p>> \in OpToRel(<, Nat))
  <2> HIDE DEF Differ
  <2> QED BY <1>1, NatLessThanWellFounded, WFMin
<1>3. PICK p \in Differ : \A q \in Differ : ~ (q < p)
  BY <1>1, <1>2 DEF OpToRel
<1>4. \A i \in DOMAIN Parts(points[p]) : g[Parts(points[p])[i]] = h[Parts(points[p])[i]]
  BY <1>3, PartsComeFirst
<1>5. [i \in DOMAIN Parts(points[p]) |-> g[Parts(points[p])[i]]] =
      [i \in DOMAIN Parts(points[p]) |-> h[Parts(points[p])[i]]]
  BY <1>4
<1> QED BY <1>3, <1>5 DEF FiltersBelow

LEMMA FiltersExtend ==
  ASSUME NEW pkg, NEW file, NEW k \in Nat, NEW g, FiltersBelow(k, g, pkg, file)
  PROVE  \E h : FiltersBelow(k + 1, h, pkg, file)
<1> DEFINE of(p, f) == [i \in DOMAIN Parts(points[p]) |-> f[Parts(points[p])[i]]]
           h == [p \in DOMAIN points |->
                    IF p = k THEN FilterOf(points[k], of(k, g), pkg, file) ELSE g[p]]
<1>1. ASSUME NEW p \in DOMAIN points, p < k + 1
      PROVE  of(p, h) = of(p, g)
  <2>1. ASSUME NEW i \in DOMAIN Parts(points[p])
        PROVE  h[Parts(points[p])[i]] = g[Parts(points[p])[i]]
    BY <1>1, PartsComeFirst
  <2> HIDE DEF h
  <2> QED BY <2>1
<1>2. ASSUME NEW p \in DOMAIN points, p < k + 1
      PROVE  h[p] = FilterOf(points[p], of(p, g), pkg, file)
  <2>1. CASE p = k
    <3> HIDE DEF of
    <3> QED BY <2>1
  <2>2. CASE p # k
    <3>1. p < k
      BY <1>2, <2>2, PointsAssumption
    <3> QED BY <2>2, <3>1 DEF FiltersBelow
  <2> QED BY <2>1, <2>2
<1>3. FiltersBelow(k + 1, h, pkg, file)
  <2> HIDE DEF h
  <2> QED BY <1>1, <1>2 DEF FiltersBelow
<1> QED BY <1>3

LEMMA FiltersExistBelow ==
  ASSUME NEW pkg, NEW file, NEW n \in Nat
  PROVE  \E g : FiltersBelow(n, g, pkg, file)
<1> DEFINE Missing == {k \in Nat : ~ \E g : FiltersBelow(k, g, pkg, file)}
<1> SUFFICES ASSUME Missing # {}
             PROVE  FALSE
  OBVIOUS
<1>1. \E k \in Missing : \A l \in Missing : ~ (<<l, k>> \in OpToRel(<, Nat))
  <2>1. Missing \subseteq Nat
    OBVIOUS
  <2> HIDE DEF Missing
  <2> QED BY <2>1, NatLessThanWellFounded, WFMin
<1>2. PICK k \in Missing : \A l \in Missing : ~ (l < k)
  BY <1>1 DEF OpToRel
<1>3. k # 0
  <2>1. FiltersBelow(0, << >>, pkg, file)
    BY PointsAssumption DEF FiltersBelow
  <2> QED BY <2>1
<1>4. k - 1 \in Nat /\ k - 1 < k /\ (k - 1) + 1 = k
  BY <1>3
<1>5. PICK g : FiltersBelow(k - 1, g, pkg, file)
  BY <1>2, <1>4
<1>6. \E h : FiltersBelow(k, h, pkg, file)
  BY <1>4, <1>5, FiltersExtend
<1> QED BY <1>6

LEMMA FiltersAreFilters ==
  ASSUME NEW pkg, NEW file
  PROVE  AreFilters(Filters(pkg, file), pkg, file)
<1> DEFINE of(p, f) == [i \in DOMAIN Parts(points[p]) |-> f[Parts(points[p])[i]]]
           Below(k) == CHOOSE g : FiltersBelow(k, g, pkg, file)
           f == [p \in DOMAIN points |-> Below(p + 1)[p]]
<1>1. \A k \in Nat : FiltersBelow(k, Below(k), pkg, file)
  BY FiltersExistBelow
<1> HIDE DEF Below
<1>2. ASSUME NEW p \in DOMAIN points
      PROVE  f[p] = FilterOf(points[p], of(p, f), pkg, file)
  <2>1. p \in Nat /\ p + 1 \in Nat /\ p < p + 1
    BY PointsAssumption
  <2> DEFINE g == Below(p + 1)
  <2>2. FiltersBelow(p + 1, g, pkg, file)
    BY <1>1, <2>1
  <2>3. ASSUME NEW i \in DOMAIN Parts(points[p])
        PROVE  g[Parts(points[p])[i]] = f[Parts(points[p])[i]]
    <3> DEFINE q == Parts(points[p])[i]
    <3>1. q \in DOMAIN points /\ q \in Nat /\ q + 1 \in Nat /\ q < p /\ q < q + 1
      BY PartsComeFirst
    <3>2. FiltersBelow(q + 1, Below(q + 1), pkg, file)
      BY <1>1, <3>1
    <3>3. FiltersBelow(q + 1, g, pkg, file)
      <4> HIDE DEF g
      <4>1. \A r \in DOMAIN points : r < q + 1 => r < p + 1
        BY <2>1, <3>1, PointsAssumption
      <4> QED BY <2>2, <4>1 DEF FiltersBelow
    <3> HIDE DEF q, g
    <3>4. g[q] = Below(q + 1)[q]
      BY <3>1, <3>2, <3>3, FiltersAgree
    <3> QED BY <3>1, <3>4 DEF q
  <2>4. of(p, g) = of(p, f)
    <3> HIDE DEF f, g
    <3> QED BY <2>3
  <2>5. g[p] = FilterOf(points[p], of(p, g), pkg, file)
    BY <2>1, <2>2 DEF FiltersBelow
  <2>6. f[p] = g[p]
    OBVIOUS
  <2> HIDE DEF f, g, of
  <2> QED BY <2>4, <2>5, <2>6
<1>3. f = [p \in DOMAIN points |-> FilterOf(points[p], of(p, f), pkg, file)]
  <2>1. f = [p \in DOMAIN points |-> f[p]]
    OBVIOUS
  <2> HIDE DEF f, of
  <2> QED BY <1>2, <2>1
<1>4. Filters(pkg, file) =
      [p \in DOMAIN points |-> FilterOf(points[p], of(p, Filters(pkg, file)), pkg, file)]
  <2> HIDE DEF f
  <2> QED BY <1>3 DEF Filters
<1> QED BY <1>4 DEF AreFilters

LEMMA PointsAreOrdered ==
  ASSUME NEW p \in DOMAIN points, points[p].kind \in Compositions
  PROVE  LET of == Parts(points[p]) IN
         /\ DOMAIN of = 1..Len(of)
         /\ \A i \in DOMAIN of : of[i] \in DOMAIN points /\ of[i] < p
         /\ points[p].kind \in {"not", "function-body"} => 1 \in DOMAIN of
BY PointsAssumption DEF IsComposition

\* What a join point matches at a node depends on the parent for function-body only.
LEMMA OnlyBodiesLookUp ==
  ASSUME NEW pt, NEW here, NEW a, NEW b, NEW world, NEW file, NEW n, NEW main,
         pt.kind = "function-body" /\ file.nodes[n].parent # 0 => a = b
  PROVE  MatchOf(pt, here, a, world, file, n, main) = MatchOf(pt, here, b, world, file, n, main)
<1>1. CASE pt.kind = "function-body" /\ file.nodes[n].parent # 0
  BY <1>1
<1>2. CASE pt.kind = "function-body" /\ file.nodes[n].parent = 0
  BY <1>2 DEF MatchOf
<1>3. CASE pt.kind # "function-body"
  BY <1>3 DEF MatchOf
<1> QED BY <1>1, <1>2, <1>3

\* MatchOf of join point p, when its parts match what f says.
MatchHere(f, p, world, file, n, main) ==
  MatchOf(points[p],
          [i \in DOMAIN Parts(points[p]) |-> f[<<Parts(points[p])[i], n, main>>]],
          f[<<Parts(points[p])[1], file.nodes[n].parent, FALSE>>],
          world, file, n, main)

MatchesBelow(k, match, world, file) ==
  \A p \in DOMAIN points, n \in Nodes(file), main \in BOOLEAN :
      p < k => match[<<p, n, main>>] = MatchHere(match, p, world, file, n, main)

LEMMA MatchHereAgrees ==
  ASSUME NEW world, NEW file, IsTree(file), NEW g, NEW h,
         NEW p \in DOMAIN points, NEW n \in Nodes(file), NEW main \in BOOLEAN,
         \A q \in DOMAIN points, m \in Nodes(file), b \in BOOLEAN :
             q \in Nat /\ q < p => g[<<q, m, b>>] = h[<<q, m, b>>]
  PROVE  MatchHere(g, p, world, file, n, main) = MatchHere(h, p, world, file, n, main)
<1> DEFINE of == Parts(points[p])
           up == file.nodes[n].parent
<1>1. [i \in DOMAIN of |-> g[<<of[i], n, main>>]] = [i \in DOMAIN of |-> h[<<of[i], n, main>>]]
  BY PartsComeFirst
<1>2. ASSUME points[p].kind = "function-body", up # 0
      PROVE  g[<<of[1], up, FALSE>>] = h[<<of[1], up, FALSE>>]
  <2>1. points[p].kind \in Compositions
    BY <1>2 DEF Compositions
  <2>2. 1 \in DOMAIN of
    BY <1>2, <2>1, PointsAreOrdered
  <2>3. up \in Nodes(file)
    BY <1>2 DEF IsTree
  <2> QED BY <2>2, <2>3, PartsComeFirst
<1> DEFINE G == [i \in DOMAIN of |-> g[<<of[i], n, main>>]]
           ga == g[<<of[1], up, FALSE>>]
           ha == h[<<of[1], up, FALSE>>]
<1>3. MatchHere(g, p, world, file, n, main) = MatchOf(points[p], G, ga, world, file, n, main)
  BY DEF MatchHere
<1>4. MatchHere(h, p, world, file, n, main) = MatchOf(points[p], G, ha, world, file, n, main)
  BY <1>1 DEF MatchHere
<1>5. points[p].kind = "function-body" /\ file.nodes[n].parent # 0 => ga = ha
  BY <1>2
<1> HIDE DEF G, ga, ha
<1> QED BY <1>3, <1>4, <1>5, OnlyBodiesLookUp

LEMMA MatchesAgree ==
  ASSUME NEW world, NEW file, IsTree(file), NEW k \in Nat, NEW g, NEW h,
         MatchesBelow(k, g, world, file), MatchesBelow(k, h, world, file)
  PROVE  \A p \in DOMAIN points, n \in Nodes(file), main \in BOOLEAN :
             p < k => g[<<p, n, main>>] = h[<<p, n, main>>]
<1> DEFINE Same(p) == \A n \in Nodes(file), main \in BOOLEAN :
                         g[<<p, n, main>>] = h[<<p, n, main>>]
           Differ == {p \in DOMAIN points : p < k /\ ~ Same(p)}
<1> SUFFICES ASSUME Differ # {}
             PROVE  FALSE
  OBVIOUS
<1>1. Differ \subseteq Nat
  BY PointsAssumption
<1>2. \E p \in Differ : \A q \in Differ : ~ (<<q, p>> \in OpToRel(<, Nat))
  <2> HIDE DEF Differ
  <2> QED BY <1>1, NatLessThanWellFounded, WFMin
<1>3. PICK p \in Differ : \A q \in Differ : ~ (q < p)
  BY <1>1, <1>2 DEF OpToRel
<1>4. p \in DOMAIN points /\ p \in Nat /\ p < k
  BY <1>1, <1>3
<1>5. \A q \in DOMAIN points : q \in Nat /\ q < p => Same(q)
  BY <1>3, <1>4
<1>6. ASSUME NEW n \in Nodes(file), NEW main \in BOOLEAN
      PROVE  g[<<p, n, main>>] = h[<<p, n, main>>]
  <2>1. MatchHere(g, p, world, file, n, main) = MatchHere(h, p, world, file, n, main)
    BY <1>4, <1>5, MatchHereAgrees
  <2> QED BY <1>4, <2>1 DEF MatchesBelow
<1> QED BY <1>3, <1>6

LEMMA MatchesExtend ==
  ASSUME NEW world, NEW file, IsTree(file), NEW k \in Nat, NEW g,
         MatchesBelow(k, g, world, file)
  PROVE  \E h : MatchesBelow(k + 1, h, world, file)
<1> DEFINE h == [at \in (DOMAIN points) \X Nodes(file) \X BOOLEAN |->
                    IF at[1] = k THEN MatchHere(g, k, world, file, at[2], at[3]) ELSE g[at]]
<1>1. ASSUME NEW p \in DOMAIN points, NEW n \in Nodes(file), NEW main \in BOOLEAN
      PROVE  h[<<p, n, main>>] = IF p = k THEN MatchHere(g, k, world, file, n, main)
                                 ELSE g[<<p, n, main>>]
  OBVIOUS
<1> HIDE DEF h
<1>2. ASSUME NEW p \in DOMAIN points, NEW n \in Nodes(file), NEW main \in BOOLEAN, p < k + 1
      PROVE  h[<<p, n, main>>] = MatchHere(h, p, world, file, n, main)
  <2>1. p \in Nat
    BY PointsAssumption
  <2>2. \A q \in DOMAIN points, m \in Nodes(file), b \in BOOLEAN :
           q \in Nat /\ q < p => g[<<q, m, b>>] = h[<<q, m, b>>]
    BY <1>1, <1>2, <2>1
  <2>3. MatchHere(g, p, world, file, n, main) = MatchHere(h, p, world, file, n, main)
    BY <2>2, MatchHereAgrees
  <2>4. CASE p = k
    BY <1>1, <2>3, <2>4
  <2>5. CASE p # k
    <3>1. p < k
      BY <1>2, <2>1, <2>5
    <3>2. g[<<p, n, main>>] = MatchHere(g, p, world, file, n, main)
      BY <3>1 DEF MatchesBelow
    <3> QED BY <1>1, <2>3, <2>5, <3>2
  <2> QED BY <2>4, <2>5
<1>3. MatchesBelow(k + 1, h, world, file)
  BY <1>2 DEF MatchesBelow
<1> QED BY <1>3

LEMMA MatchesExistBelow ==
  ASSUME NEW world, NEW file, IsTree(file), NEW n \in Nat
  PROVE  \E g : MatchesBelow(n, g, world, file)
<1> DEFINE Missing == {k \in Nat : ~ \E g : MatchesBelow(k, g, world, file)}
<1> SUFFICES ASSUME Missing # {}
             PROVE  FALSE
  OBVIOUS
<1>1. \E k \in Missing : \A l \in Missing : ~ (<<l, k>> \in OpToRel(<, Nat))
  <2>1. Missing \subseteq Nat
    OBVIOUS
  <2> HIDE DEF Missing
  <2> QED BY <2>1, NatLessThanWellFounded, WFMin
<1>2. PICK k \in Missing : \A l \in Missing : ~ (l < k)
  BY <1>1 DEF OpToRel
<1>3. k # 0
  <2>1. MatchesBelow(0, << >>, world, file)
    BY PointsAssumption DEF MatchesBelow
  <2> QED BY <2>1
<1>4. k - 1 \in Nat /\ k - 1 < k /\ (k - 1) + 1 = k
  BY <1>3
<1>5. PICK g : MatchesBelow(k - 1, g, world, file)
  BY <1>2, <1>4
<1>6. \E h : MatchesBelow(k, h, world, file)
  BY <1>4, <1>5, MatchesExtend
<1> QED BY <1>6

LEMMA MatchesAreMatches ==
  ASSUME NEW world, NEW file, IsTree(file)
  PROVE  AreMatches(Matches(world, file), world, file)
<1> DEFINE All == (DOMAIN points) \X Nodes(file) \X BOOLEAN
           Below(k) == CHOOSE g : MatchesBelow(k, g, world, file)
           f == [at \in All |-> Below(at[1] + 1)[at]]
<1>1. \A k \in Nat : MatchesBelow(k, Below(k), world, file)
  BY MatchesExistBelow
<1> HIDE DEF Below
<1>2. ASSUME NEW p \in DOMAIN points, NEW n \in Nodes(file), NEW main \in BOOLEAN
      PROVE  f[<<p, n, main>>] = Below(p + 1)[<<p, n, main>>]
  OBVIOUS
<1> HIDE DEF f
<1>3. ASSUME NEW p \in DOMAIN points, NEW n \in Nodes(file), NEW main \in BOOLEAN
      PROVE  f[<<p, n, main>>] = MatchHere(f, p, world, file, n, main)
  <2>1. p \in Nat /\ p + 1 \in Nat /\ p < p + 1
    BY PointsAssumption
  <2> DEFINE g == Below(p + 1)
  <2>2. MatchesBelow(p + 1, g, world, file)
    BY <1>1, <2>1
  <2> HIDE DEF g
  <2>3. ASSUME NEW q \in DOMAIN points, NEW m \in Nodes(file), NEW b \in BOOLEAN,
               q \in Nat, q < p
        PROVE  g[<<q, m, b>>] = f[<<q, m, b>>]
    <3>1. q + 1 \in Nat /\ q < q + 1
      BY <2>3
    <3>2. MatchesBelow(q + 1, Below(q + 1), world, file)
      BY <1>1, <3>1
    <3>3. MatchesBelow(q + 1, g, world, file)
      <4>1. \A r \in DOMAIN points : r < q + 1 => r < p + 1
        BY <2>1, <2>3, PointsAssumption
      <4> QED BY <2>2, <4>1 DEF MatchesBelow
    <3>4. g[<<q, m, b>>] = Below(q + 1)[<<q, m, b>>]
      BY <3>1, <3>2, <3>3, MatchesAgree
    <3> QED BY <1>2, <3>4
  <2>4. MatchHere(g, p, world, file, n, main) = MatchHere(f, p, world, file, n, main)
    BY <2>3, MatchHereAgrees
  <2>5. g[<<p, n, main>>] = MatchHere(g, p, world, file, n, main)
    BY <2>1, <2>2 DEF MatchesBelow
  <2> QED BY <1>2, <2>4, <2>5 DEF g
<1>4. f = [at \in All |-> MatchHere(f, at[1], world, file, at[2], at[3])]
  <2>1. f = [at \in All |-> f[at]]
    BY DEF f
  <2>2. \A at \in All : f[at] = MatchHere(f, at[1], world, file, at[2], at[3])
    BY <1>3
  <2> QED BY <2>1, <2>2
<1> DEFINE Obeys(match) == match = [at \in All |-> MatchHere(match, at[1], world, file, at[2], at[3])]
<1>5. Matches(world, file) = CHOOSE match : Obeys(match)
  BY DEF Matches, MatchHere
<1>6. Obeys(Matches(world, file))
  <2>1. Obeys(f)
    BY <1>4
  <2> HIDE DEF Obeys
  <2> QED BY <1>5, <2>1
<1>7. ASSUME NEW p \in DOMAIN points, NEW n \in Nodes(file), NEW main \in BOOLEAN
      PROVE  Matches(world, file)[<<p, n, main>>] =
                MatchHere(Matches(world, file), p, world, file, n, main)
  <2> DEFINE M == Matches(world, file)
  <2>1. M = [at \in All |-> MatchHere(M, at[1], world, file, at[2], at[3])]
    BY <1>6
  <2> HIDE DEF M
  <2>2. M[<<p, n, main>>] = MatchHere(M, p, world, file, n, main)
    BY <2>1
  <2> QED BY <2>2 DEF M
<1> QED BY <1>7 DEF AreMatches, MatchHere

\* Join point p matches nowhere if it is ruled out.
IsSound(p, filter, match, file) ==
  RulesOut(filter[p]) =>
      \A n \in Nodes(file), main \in BOOLEAN : ~ match[<<p, n, main>>]

LEMMA CompositionKeepsSound ==
  ASSUME NEW world, NEW file, IsTree(file),
         NEW filter, AreFilters(filter, world.pkg, file),
         NEW match, AreMatches(match, world, file),
         NEW p \in DOMAIN points, points[p].kind \in Compositions,
         \A i \in DOMAIN Parts(points[p]) : IsSound(Parts(points[p])[i], filter, match, file)
  PROVE  IsSound(p, filter, match, file)
<1> DEFINE of == Parts(points[p])
           fs == [i \in DOMAIN of |-> filter[of[i]]]
<1>1. filter[p] = FilterOf(points[p], fs, world.pkg, file)
  BY DEF AreFilters
<1> SUFFICES ASSUME NEW n \in Nodes(file), NEW main \in BOOLEAN, match[<<p, n, main>>]
             PROVE  ~ RulesOut(filter[p])
  BY DEF IsSound
<1> DEFINE ms == [i \in DOMAIN of |-> match[<<of[i], n, main>>]]
<1>2. MatchOf(points[p], ms, match[<<of[1], file.nodes[n].parent, FALSE>>], world, file, n, main)
  BY DEF AreMatches
<1>3. \A i \in DOMAIN of : ms[i] => ~ RulesOut(fs[i])
  BY DEF IsSound
<1>4. CASE points[p].kind = "not"
  <2>1. filter[p] = NotFilter(fs[1])
    BY <1>1, <1>4 DEF FilterOf
  <2> QED BY <2>1, NotRulesOutNothing
<1>5. CASE points[p].kind = "one-of"
  <2>1. filter[p] = OneOfFilter(fs)
    BY <1>1, <1>5 DEF FilterOf
  <2>2. OneOfMatches(Range(ms))
    BY <1>2, <1>5 DEF MatchOf
  <2>3. PICK i \in DOMAIN of : ms[i]
    BY <2>2 DEF OneOfMatches, Range
  <2>4. ~ RulesOut(fs[i])
    BY <1>3, <2>3
  <2> HIDE DEF fs
  <2>5. i \in DOMAIN fs
    BY DEF fs
  <2> QED BY <2>1, <2>4, <2>5, OneOfIsSound
<1>6. CASE points[p].kind = "all-of"
  <2>1. filter[p] = AllOfFilter(fs)
    BY <1>1, <1>6 DEF FilterOf
  <2>2. AllOfMatches(Range(ms))
    BY <1>2, <1>6 DEF MatchOf
  <2>3. \A i \in DOMAIN of : ms[i]
    BY <2>2 DEF AllOfMatches, Range
  <2>4. \A i \in DOMAIN fs : ~ RulesOut(fs[i])
    BY <1>3, <2>3
  <2> HIDE DEF fs
  <2> QED BY <2>1, <2>4, AllOfIsSound
<1>7. CASE points[p].kind = "function-body"
  <2>1. 1 \in DOMAIN of
    BY <1>7, PointsAreOrdered
  <2>2. filter[p] = filter[of[1]]
    BY <1>1, <1>7, <2>1 DEF FilterOf
  <2>3. file.nodes[n].parent # 0 /\ match[<<of[1], file.nodes[n].parent, FALSE>>]
    BY <1>2, <1>7 DEF MatchOf, FunctionBodyMatches
  <2>4. file.nodes[n].parent \in Nodes(file)
    BY <2>3 DEF IsTree
  <2> QED BY <2>1, <2>2, <2>3, <2>4 DEF IsSound
<1> QED BY <1>4, <1>5, <1>6, <1>7 DEF Compositions

LEMMA SoundnessComposes ==
  ASSUME NEW world, NEW file, IsTree(file),
         NEW filter, AreFilters(filter, world.pkg, file),
         NEW match, AreMatches(match, world, file),
         \A p \in DOMAIN points :
             points[p].kind \notin Compositions => IsSound(p, filter, match, file)
  PROVE  \A p \in DOMAIN points : IsSound(p, filter, match, file)
<1> DEFINE Unsound == {p \in DOMAIN points : ~ IsSound(p, filter, match, file)}
<1> SUFFICES ASSUME Unsound # {}
             PROVE  FALSE
  OBVIOUS
<1>1. Unsound \subseteq Nat
  BY PointsAssumption
<1>2. \E p \in Unsound : \A q \in Unsound : ~ (<<q, p>> \in OpToRel(<, Nat))
  <2> HIDE DEF Unsound
  <2> QED BY <1>1, NatLessThanWellFounded, WFMin
<1>3. PICK p \in Unsound : \A q \in Unsound : ~ (q < p)
  BY <1>1, <1>2 DEF OpToRel
<1>4. points[p].kind \in Compositions
  OBVIOUS
<1>5. \A i \in DOMAIN Parts(points[p]) : IsSound(Parts(points[p])[i], filter, match, file)
  BY <1>3, <1>4, PointsAreOrdered
<1>6. IsSound(p, filter, match, file)
  BY <1>4, <1>5, CompositionKeepsSound
<1> QED BY <1>6

-----------------------------------------------------------------------------
(***************************************************************************)
(* Join points that are not composed.                                       *)
(***************************************************************************)
\* The kinds of join points that have a filter of their own, which is sound.
FilteredKinds == {"struct-definition", "struct-literal", "function-call", "declaration-of",
                  "import-path", "package-name", "package-filter", "configuration"}

LEMMA ImportsAreFound ==
  ASSUME NEW pkg, NEW path, Known(pkg, path)
  PROVE  PackageImports(pkg, path) # "NeverMatch"
BY DEF Known, PackageImports, Decide

LEMMA WordsAreFound ==
  ASSUME NEW file, NEW word \in file.words, word # ""
  PROVE  FileContains(file, word) # "NeverMatch"
BY DEF FileContains, Decide

LEMMA LiteralsAreKnown ==
  ASSUME NEW pkg, NEW file, IsWellFormed(pkg, file), NEW pt, pt.type # NoType,
         NEW n \in Nodes(file), MatchesLiteral(pt, file.nodes[n])
  PROVE  Known(pkg, pt.type.path)
<1>1. file.nodes[n].kind = "CompositeLit" /\ TypeMatches(pt.type, file.nodes[n].type)
  BY DEF MatchesLiteral
<1>2. CASE file.nodes[n].type = pt.type
  BY <1>1, <1>2 DEF IsWellFormed
<1>3. CASE file.nodes[n].type # pt.type
  <2>1. pt.type.path = "" \/ pt.type = TypeName(TRUE, "", "any")
    BY <1>1, <1>3 DEF TypeMatches
  <2>2. TypeName(TRUE, "", "any").path = ""
    BY DEF TypeName
  <2>3. pt.type.path = ""
    BY <2>1, <2>2
  <2> QED BY <2>3 DEF Known
<1> QED BY <1>2, <1>3

LEMMA StructLiteralIsSound ==
  ASSUME NEW pkg, NEW file, IsWellFormed(pkg, file), IsTree(file),
         NEW pt, IsStructLiteral(pt),
         NEW n \in Nodes(file), StructLiteralMatches(pt, file, n)
  PROVE  Known(pkg, pt.type.path)
<1>1. PICK m \in Nodes(file) : MatchesLiteral(pt, file.nodes[m])
  <2>1. CASE pt.field # ""
    BY <2>1 DEF StructLiteralMatches, IsTree
  <2>2. CASE pt.field = "" /\ pt.match = "pointer-only"
    BY <2>2 DEF StructLiteralMatches, Child
  <2>3. CASE pt.field = "" /\ pt.match = "value-only"
    BY <2>3 DEF StructLiteralMatches
  <2>4. CASE pt.field = "" /\ pt.match = "any"
    BY <2>4 DEF StructLiteralMatches
  <2> QED BY <2>1, <2>2, <2>3, <2>4 DEF IsStructLiteral
<1> QED BY <1>1, LiteralsAreKnown DEF IsStructLiteral

LEMMA LeafIsSound ==
  ASSUME NEW world, NEW file, IsTree(file), IsWellFormed(world.pkg, file),
         NEW filter, AreFilters(filter, world.pkg, file),
         NEW match, AreMatches(match, world, file),
         NEW p \in DOMAIN points, points[p].kind \in FilteredKinds
  PROVE  IsSound(p, filter, match, file)
<1> DEFINE of == Parts(points[p])
           fs == [i \in DOMAIN of |-> filter[of[i]]]
<1>1. filter[p] = FilterOf(points[p], fs, world.pkg, file)
  BY DEF AreFilters
<1> SUFFICES ASSUME NEW n \in Nodes(file), NEW main \in BOOLEAN, match[<<p, n, main>>]
             PROVE  ~ RulesOut(filter[p])
  BY DEF IsSound
<1> DEFINE ms == [i \in DOMAIN of |-> match[<<of[i], n, main>>]]
           above == match[<<of[1], file.nodes[n].parent, FALSE>>]
<1>2. MatchOf(points[p], ms, above, world, file, n, main)
  BY DEF AreMatches
<1> HIDE DEF fs, ms, above, of
<1> DEFINE pt == points[p]
<1>3. CASE pt.kind = "struct-definition"
  <2>1. filter[p] = StructDefinitionFilter(pt, world.pkg, file)
    BY <1>1, <1>3 DEF FilterOf
  <2>2. StructDefinitionMatches(pt, world.pkg, file.nodes[n])
    BY <1>2, <1>3 DEF MatchOf
  <2>3. "struct" \in file.words
    BY <2>2 DEF StructDefinitionMatches, IsWellFormed
  <2>4. FileContains(file, "struct") # "NeverMatch"
    BY <2>3, WordsAreFound
  <2>5. Decide(world.pkg.importPath = pt.type.path) # "NeverMatch"
    BY <2>2 DEF StructDefinitionMatches, Decide
  <2> QED BY <2>1, <2>4, <2>5 DEF StructDefinitionFilter, Filter, RulesOut
<1>4. CASE pt.kind = "struct-literal"
  <2>1. filter[p] = StructLiteralFilter(pt, world.pkg)
    BY <1>1, <1>4 DEF FilterOf
  <2>2. StructLiteralMatches(pt, file, n)
    BY <1>2, <1>4 DEF MatchOf
  <2>3. IsStructLiteral(pt)
    BY <1>4, PointsAssumption
  <2>4. Known(world.pkg, pt.type.path)
    BY <2>2, <2>3, StructLiteralIsSound
  <2> QED BY <2>1, <2>4, ImportsAreFound DEF StructLiteralFilter, Filter, RulesOut
<1>5. CASE pt.kind = "function-call"
  <2>1. filter[p] = FunctionCallFilter(pt, world.pkg, file)
    BY <1>1, <1>5 DEF FilterOf
  <2>2. FunctionCallMatches(pt, file.nodes[n])
    BY <1>2, <1>5 DEF MatchOf
  <2>3. pt.name # ""
    BY <1>5, PointsAssumption DEF IsSymbol
  <2>4. pt.name \in file.words /\ Known(world.pkg, pt.path)
    BY <2>2 DEF FunctionCallMatches, IsWellFormed
  <2>5. FileContains(file, pt.name) # "NeverMatch"
    BY <2>3, <2>4, WordsAreFound
  <2>6. PackageImports(world.pkg, pt.path) # "NeverMatch"
    BY <2>4, ImportsAreFound
  <2> QED BY <2>1, <2>5, <2>6 DEF FunctionCallFilter, Filter, RulesOut
<1>6. CASE pt.kind = "declaration-of"
  <2>1. filter[p] = DeclarationOfFilter(pt, world.pkg, file)
    BY <1>1, <1>6 DEF FilterOf
  <2>2. DeclarationOfMatches(pt, world.pkg, file, n)
    BY <1>2, <1>6 DEF MatchOf
  <2>3. pt.name # ""
    BY <1>6, PointsAssumption DEF IsSymbol
  <2>4. pt.name \in file.words
    BY <2>2 DEF DeclarationOfMatches, IsWellFormed
  <2>5. Known(world.pkg, pt.path)
    BY <2>2 DEF DeclarationOfMatches, Known
  <2>6. FileContains(file, pt.name) # "NeverMatch"
    BY <2>3, <2>4, WordsAreFound
  <2>7. PackageImports(world.pkg, pt.path) # "NeverMatch"
    BY <2>5, ImportsAreFound
  <2> QED BY <2>1, <2>6, <2>7 DEF DeclarationOfFilter, Filter, RulesOut
<1>7. CASE pt.kind = "import-path"
  <2>1. filter[p] = ImportPathFilter(pt, world.pkg) /\ world.pkg.importPath = pt.name
    BY <1>1, <1>2, <1>7 DEF FilterOf, MatchOf
  <2> QED BY <2>1 DEF ImportPathFilter, Filter, RulesOut, Decide
<1>8. CASE pt.kind = "package-name"
  <2>1. filter[p] = PackageNameFilter(pt, file) /\ file.packageName = pt.name
    BY <1>1, <1>2, <1>8 DEF FilterOf, MatchOf
  <2> QED BY <2>1 DEF PackageNameFilter, Filter, RulesOut, Decide
<1>9. CASE pt.kind = "package-filter"
  <2>1. filter[p] = PackageFilterFilter(pt, world.pkg) /\ MatchesPattern(pt, world.pkg)
    BY <1>1, <1>2, <1>9 DEF FilterOf, MatchOf
  <2> QED BY <2>1 DEF PackageFilterFilter, Filter, RulesOut, Decide
<1>10. CASE pt.kind = "configuration"
  <2>1. filter[p] = Filter(<< >>, "Unknown", "Unknown")
    BY <1>1, <1>10 DEF FilterOf
  <2> QED BY <2>1 DEF Filter, RulesOut
<1> QED BY <1>3, <1>4, <1>5, <1>6, <1>7, <1>8, <1>9, <1>10 DEF FilteredKinds

\* Where a join point is ruled out by its filter (PackageMayMatch, FileMayMatch), it
\* matches no node, whether the package is a test main or not (Matches).
FilterIsSound(p, world, file) ==
  RulesOut(Filters(world.pkg, file)[p]) =>
      \A n \in Nodes(file), main \in BOOLEAN : ~ Matches(world, file)[<<p, n, main>>]

\* Composing join points (not, one-of, all-of, function-body), however deep, makes no
\* filter rule out what matches: if the join points that are not composed are sound in
\* a package and a file, all are (the PackageMayMatch and FileMayMatch of composed
\* join points against their Matches).
THEOREM CompositionIsSound ==
  ASSUME NEW world, NEW file, IsTree(file),
         \A p \in DOMAIN points :
             points[p].kind \notin Compositions => FilterIsSound(p, world, file)
  PROVE  \A p \in DOMAIN points : FilterIsSound(p, world, file)
<1>1. /\ AreFilters(Filters(world.pkg, file), world.pkg, file)
      /\ AreMatches(Matches(world, file), world, file)
  BY FiltersAreFilters, MatchesAreMatches
<1> QED BY <1>1, SoundnessComposes DEF FilterIsSound, IsSound

\* In a well-formed file, a configuration of these join points, composed in any way,
\* loses no match to the filters.  The join points that are left out are those of which
\* the filter says less or more than this: options of functions, methods, variables
\* without a type, directives, and test mains.
THEOREM FiltersAreSound ==
  ASSUME NEW world, NEW file, IsTree(file), IsWellFormed(world.pkg, file),
         \A p \in DOMAIN points : points[p].kind \in FilteredKinds \cup Compositions
  PROVE  \A p \in DOMAIN points : FilterIsSound(p, world, file)
<1>1. /\ AreFilters(Filters(world.pkg, file), world.pkg, file)
      /\ AreMatches(Matches(world, file), world, file)
  BY FiltersAreFilters, MatchesAreMatches
<1>2. \A p \in DOMAIN points :
         points[p].kind \notin Compositions =>
             IsSound(p, Filters(world.pkg, file), Matches(world, file), file)
  BY <1>1, LeafIsSound
<1>3. \A p \in DOMAIN points : FilterIsSound(p, world, file)
  BY <1>2, CompositionIsSound DEF FilterIsSound, IsSound
<1> QED BY <1>3

-----------------------------------------------------------------------------
(***************************************************************************)
(* The function Among obeys its equations, so that its elements are those   *)
(* that it selects.                                                         *)
(***************************************************************************)

\* f selects from the first k elements of seq what is in S.
IsKept(f, seq, S, k) ==
  /\ f[0] = << >>
  /\ \A i \in 1..k : f[i] = IF seq[i] \in S THEN Append(f[i - 1], seq[i]) ELSE f[i - 1]

LEMMA KeptExists ==
  ASSUME NEW seq, NEW S, NEW n \in Nat
  PROVE  \E f : IsKept(f, seq, S, n)
<1> DEFINE Missing == {k \in Nat : ~ \E f : IsKept(f, seq, S, k)}
<1> SUFFICES ASSUME Missing # {}
             PROVE  FALSE
  OBVIOUS
<1>1. Missing \in SUBSET Nat
  OBVIOUS
<1>2. PICK k \in Missing : \A l \in Missing : ~ (l < k)
  <2> HIDE DEF Missing
  <2> QED BY <1>1, LeastExists
<1>3. k # 0
  <2>1. IsKept([i \in {0} |-> << >>], seq, S, 0)
    BY DEF IsKept
  <2> QED BY <2>1
<1>4. k - 1 \in Nat /\ k - 1 < k
  BY <1>3
<1>5. PICK f : IsKept(f, seq, S, k - 1)
  BY <1>2, <1>4
<1> DEFINE g == [i \in 0..k |-> IF i < k THEN f[i]
                                ELSE IF seq[k] \in S THEN Append(f[k - 1], seq[k]) ELSE f[k - 1]]
<1>6. IsKept(g, seq, S, k)
  <2>1. g[0] = << >>
    BY <1>3, <1>5 DEF IsKept
  <2>2. ASSUME NEW i \in 1..k
        PROVE  g[i] = IF seq[i] \in S THEN Append(g[i - 1], seq[i]) ELSE g[i - 1]
    <3>1. g[i - 1] = f[i - 1]
      BY <1>3
    <3>2. CASE i = k
      BY <3>1, <3>2
    <3>3. CASE i # k
      <4>1. i \in 1..k - 1 /\ g[i] = f[i]
        BY <3>3
      <4> HIDE DEF g
      <4> QED BY <1>5, <3>1, <4>1 DEF IsKept
    <3> QED BY <3>2, <3>3
  <2> HIDE DEF g
  <2> QED BY <2>1, <2>2 DEF IsKept
<1> QED BY <1>6

LEMMA AmongIsKept ==
  ASSUME NEW T, NEW seq \in Seq(T), NEW S
  PROVE  \E f : IsKept(f, seq, S, Len(seq)) /\ Among(seq, S) = f[Len(seq)]
<1> DEFINE step(f, i) == IF i = 0 THEN << >>
                         ELSE IF seq[i] \in S THEN Append(f[i - 1], seq[i]) ELSE f[i - 1]
           Obeys(f) == f = [i \in 0..Len(seq) |-> step(f, i)]
           kept == CHOOSE f : Obeys(f)
<1>1. Len(seq) \in Nat
  OBVIOUS
<1>2. PICK g : IsKept(g, seq, S, Len(seq))
  BY <1>1, KeptExists
<1> DEFINE h == [i \in 0..Len(seq) |-> g[i]]
<1>3. Obeys(h)
  <2>1. ASSUME NEW i \in 0..Len(seq)
        PROVE  h[i] = step(h, i)
    <3>1. CASE i = 0
      BY <1>2, <3>1 DEF IsKept
    <3>2. CASE i # 0
      <4>1. i \in 1..Len(seq) /\ h[i] = g[i] /\ h[i - 1] = g[i - 1]
        BY <1>1, <3>2
      <4> HIDE DEF h
      <4> QED BY <1>2, <3>2, <4>1 DEF IsKept
    <3> QED BY <3>1, <3>2
  <2>2. h = [i \in 0..Len(seq) |-> h[i]]
    OBVIOUS
  <2> HIDE DEF h, step
  <2> QED BY <2>1, <2>2
<1>4. Obeys(kept)
  <2> HIDE DEF h, Obeys
  <2> QED BY <1>3
<1>5. Among(seq, S) = kept[Len(seq)]
  BY DEF Among
<1>6. IsKept(kept, seq, S, Len(seq))
  <2>1. \A i \in 0..Len(seq) : kept[i] = step(kept, i)
    <3> HIDE DEF kept, step
    <3> QED BY <1>4
  <2> HIDE DEF kept
  <2> QED BY <1>1, <2>1 DEF IsKept
<1> HIDE DEF kept
<1> QED BY <1>5, <1>6

LEMMA AppendElements ==
  ASSUME NEW T, NEW s \in Seq(T), NEW x \in T
  PROVE  Append(s, x) \in Seq(T) /\ ToSet(Append(s, x)) = ToSet(s) \union {x}
<1> DEFINE a == Append(s, x)
<1>1. /\ a \in Seq(T) /\ Len(s) \in Nat
      /\ DOMAIN s = 1..Len(s) /\ DOMAIN a = 1..Len(s) + 1
      /\ a[Len(s) + 1] = x
      /\ \A i \in DOMAIN s : i \in DOMAIN a /\ a[i] = s[i]
      /\ \A i \in DOMAIN a : i \in DOMAIN s \/ i = Len(s) + 1
  OBVIOUS
<1> HIDE DEF a
<1>2. Len(s) + 1 \in DOMAIN a
  BY <1>1
<1>3. ToSet(s) \union {x} \subseteq ToSet(a)
  BY <1>1, <1>2 DEF ToSet
<1>4. ToSet(a) \subseteq ToSet(s) \union {x}
  BY <1>1 DEF ToSet
<1> QED BY <1>1, <1>3, <1>4 DEF a

FirstOf(seq, k) == {seq[i] : i \in 1..k}

LEMMA KeptElements ==
  ASSUME NEW T, NEW seq \in Seq(T), NEW S, NEW f, IsKept(f, seq, S, Len(seq)),
         NEW k \in 0..Len(seq)
  PROVE  f[k] \in Seq(T) /\ ToSet(f[k]) = FirstOf(seq, k) \cap S
<1> DEFINE Kept(i) == f[i] \in Seq(T) /\ ToSet(f[i]) = FirstOf(seq, i) \cap S
           Missing == {i \in 0..Len(seq) : ~ Kept(i)}
<1> SUFFICES ASSUME Missing # {}
             PROVE  FALSE
  OBVIOUS
<1>1. Missing \in SUBSET Nat
  OBVIOUS
<1>2. PICK i \in Missing : \A l \in Missing : ~ (l < i)
  <2> HIDE DEF Missing
  <2> QED BY <1>1, LeastExists
<1>3. i # 0
  <2>1. Kept(0)
    BY DEF IsKept, ToSet, FirstOf
  <2> QED BY <2>1
<1>4. i \in 1..Len(seq) /\ i - 1 \in 0..Len(seq) /\ i - 1 < i
  BY <1>3
<1>5. Kept(i - 1)
  BY <1>2, <1>4
<1>6. f[i] = IF seq[i] \in S THEN Append(f[i - 1], seq[i]) ELSE f[i - 1]
  BY <1>4 DEF IsKept
<1>7. FirstOf(seq, i) = FirstOf(seq, i - 1) \union {seq[i]}
  BY <1>4 DEF FirstOf
<1>8. seq[i] \in T
  BY <1>4
<1>9. /\ Append(f[i - 1], seq[i]) \in Seq(T)
      /\ ToSet(Append(f[i - 1], seq[i])) = ToSet(f[i - 1]) \union {seq[i]}
  BY <1>5, <1>8, AppendElements
<1>10. Kept(i)
  <2>1. CASE seq[i] \in S
    <3>1. f[i] \in Seq(T) /\ ToSet(f[i]) = ToSet(f[i - 1]) \union {seq[i]}
      BY <1>6, <1>9, <2>1
    <3> QED BY <1>5, <1>7, <2>1, <3>1
  <2>2. CASE seq[i] \notin S
    BY <1>5, <1>6, <1>7, <2>2
  <2> QED BY <2>1, <2>2
<1> QED BY <1>10

LEMMA AmongElements ==
  ASSUME NEW T, NEW seq \in Seq(T), NEW S
  PROVE  Among(seq, S) \in Seq(T) /\ ToSet(Among(seq, S)) = ToSet(seq) \cap S
<1>1. PICK f : IsKept(f, seq, S, Len(seq)) /\ Among(seq, S) = f[Len(seq)]
  BY AmongIsKept
<1>2. IsKept(f, seq, S, Len(seq))
  BY <1>1
<1>3. Len(seq) \in 0..Len(seq)
  OBVIOUS
<1>4. f[Len(seq)] \in Seq(T) /\ ToSet(f[Len(seq)]) = FirstOf(seq, Len(seq)) \cap S
  BY <1>2, <1>3, KeptElements
<1>5. ToSet(seq) = FirstOf(seq, Len(seq))
  BY DEF ToSet, FirstOf
<1> QED BY <1>1, <1>4, <1>5

LEMMA AmongRange ==
  ASSUME NEW T, NEW seq \in Seq(T), NEW S
  PROVE  Among(seq, S) \in Seq(T) /\ Range(Among(seq, S)) = Range(seq) \cap S
BY AmongElements DEF ToSet, Range

-----------------------------------------------------------------------------
(***************************************************************************)
(* FlattenSeq: its elements are those of the sequences.                     *)
(***************************************************************************)
\* f joins the first k sequences.
IsJoined(f, seqs, k) ==
  \A i \in 1..k : f[i] = IF i = 1 THEN seqs[i] ELSE f[i - 1] \o seqs[i]

LEMMA JoinedExists ==
  ASSUME NEW seqs, NEW n \in Nat
  PROVE  \E f : IsJoined(f, seqs, n)
<1> DEFINE Missing == {k \in Nat : ~ \E f : IsJoined(f, seqs, k)}
<1> SUFFICES ASSUME Missing # {}
             PROVE  FALSE
  OBVIOUS
<1>1. Missing \in SUBSET Nat
  OBVIOUS
<1>2. PICK k \in Missing : \A l \in Missing : ~ (l < k)
  <2> HIDE DEF Missing
  <2> QED BY <1>1, LeastExists
<1>3. k # 0
  <2>1. IsJoined(<< >>, seqs, 0)
    BY DEF IsJoined
  <2> QED BY <2>1
<1>4. k \in Nat /\ k - 1 \in Nat /\ k - 1 < k
  BY <1>3
<1>5. PICK f : IsJoined(f, seqs, k - 1)
  BY <1>2, <1>4
<1> DEFINE last == IF k = 1 THEN seqs[k] ELSE f[k - 1] \o seqs[k]
           g == [i \in 1..k |-> IF i < k THEN f[i] ELSE last]
<1>6. ASSUME NEW i \in 1..k
      PROVE  g[i] = IF i = 1 THEN seqs[i] ELSE g[i - 1] \o seqs[i]
  <2>1. CASE i = 1 /\ k = 1
    BY <2>1
  <2>2. CASE i = 1 /\ k # 1
    <3>1. 1 \in 1..k - 1 /\ g[i] = f[1]
      BY <1>4, <2>2
    <3> HIDE DEF g
    <3> QED BY <1>5, <2>2, <3>1 DEF IsJoined
  <2>3. CASE i # 1
    <3>1. i - 1 \in 1..k /\ g[i - 1] = f[i - 1]
      BY <1>4, <2>3
    <3>2. CASE i = k
      <4>1. k # 1 /\ last = f[k - 1] \o seqs[k]
        BY <2>3, <3>2
      <4>2. g[i] = last
        <5> HIDE DEF last
        <5> QED BY <1>4, <3>2
      <4> HIDE DEF g, last
      <4> QED BY <2>3, <3>1, <3>2, <4>1, <4>2
    <3>3. CASE i # k
      <4>1. i \in 1..k - 1 /\ g[i] = f[i]
        BY <1>4, <3>3
      <4> HIDE DEF g
      <4> QED BY <1>5, <2>3, <3>1, <4>1 DEF IsJoined
    <3> QED BY <3>2, <3>3
  <2> QED BY <2>1, <2>2, <2>3
<1>7. IsJoined(g, seqs, k)
  <2> HIDE DEF g
  <2> QED BY <1>6 DEF IsJoined
<1> QED BY <1>7

LEMMA FlattenIsJoined ==
  ASSUME NEW T, NEW seqs \in Seq(T), seqs # << >>
  PROVE  \E f : IsJoined(f, seqs, Len(seqs)) /\ FlattenSeq(seqs) = f[Len(seqs)]
<1> DEFINE n == Len(seqs)
           step(f, i) == IF i = 1 THEN seqs[i] ELSE f[i - 1] \o seqs[i]
           Obeys(f) == f = [i \in 1..n |-> step(f, i)]
           flatten == CHOOSE f : Obeys(f)
<1>1. n \in Nat /\ n # 0
  OBVIOUS
<1>2. PICK g : IsJoined(g, seqs, n)
  BY <1>1, JoinedExists
<1> DEFINE h == [i \in 1..n |-> g[i]]
<1>3. Obeys(h)
  <2>1. ASSUME NEW i \in 1..n
        PROVE  h[i] = step(h, i)
    <3>1. CASE i = 1
      BY <1>2, <3>1 DEF IsJoined
    <3>2. CASE i # 1
      <4>1. h[i] = g[i] /\ h[i - 1] = g[i - 1]
        BY <1>1, <3>2
      <4> HIDE DEF h
      <4> QED BY <1>2, <3>2, <4>1 DEF IsJoined
    <3> QED BY <3>1, <3>2
  <2>2. h = [i \in 1..n |-> h[i]]
    OBVIOUS
  <2> HIDE DEF h, step
  <2> QED BY <2>1, <2>2
<1>4. Obeys(flatten)
  <2> HIDE DEF h, Obeys
  <2> QED BY <1>3
<1>5. FlattenSeq(seqs) = flatten[n]
  BY <1>1 DEF FlattenSeq
<1>6. IsJoined(flatten, seqs, n)
  <2>1. \A i \in 1..n : flatten[i] = step(flatten, i)
    <3> HIDE DEF flatten, step
    <3> QED BY <1>4
  <2> HIDE DEF flatten
  <2> QED BY <2>1 DEF IsJoined
<1> HIDE DEF flatten
<1> QED BY <1>5, <1>6

LEMMA ConcatElements ==
  ASSUME NEW T, NEW s \in Seq(T), NEW t \in Seq(T)
  PROVE  s \o t \in Seq(T) /\ Range(s \o t) = Range(s) \cup Range(t)
<1> DEFINE c == s \o t
<1>1. /\ c \in Seq(T) /\ Len(s) \in Nat /\ Len(t) \in Nat
      /\ DOMAIN s = 1..Len(s) /\ DOMAIN t = 1..Len(t) /\ DOMAIN c = 1..Len(s) + Len(t)
      /\ \A i \in DOMAIN c : c[i] = IF i <= Len(s) THEN s[i] ELSE t[i - Len(s)]
  OBVIOUS
<1> HIDE DEF c
<1>2. ASSUME NEW x \in Range(s) \cup Range(t)
      PROVE  x \in Range(c)
  <2>1. CASE x \in Range(s)
    <3>1. PICK i \in DOMAIN s : x = s[i]
      BY <2>1 DEF Range
    <3>2. i \in DOMAIN c /\ c[i] = x
      BY <1>1, <3>1
    <3> QED BY <3>2 DEF Range
  <2>2. CASE x \in Range(t)
    <3>1. PICK i \in DOMAIN t : x = t[i]
      BY <2>2 DEF Range
    <3>2. i + Len(s) \in DOMAIN c /\ c[i + Len(s)] = x
      BY <1>1, <3>1
    <3> QED BY <3>2 DEF Range
  <2> QED BY <2>1, <2>2
<1>3. ASSUME NEW x \in Range(c)
      PROVE  x \in Range(s) \cup Range(t)
  <2>1. PICK i \in DOMAIN c : x = c[i]
    BY DEF Range
  <2>2. CASE i <= Len(s)
    <3>1. i \in DOMAIN s /\ x = s[i]
      BY <1>1, <2>1, <2>2
    <3> QED BY <3>1 DEF Range
  <2>3. CASE ~ (i <= Len(s))
    <3>1. i - Len(s) \in DOMAIN t /\ x = t[i - Len(s)]
      BY <1>1, <2>1, <2>3
    <3> QED BY <3>1 DEF Range
  <2> QED BY <2>2, <2>3
<1>4. c \in Seq(T) /\ Range(c) = Range(s) \cup Range(t)
  BY <1>1, <1>2, <1>3
<1> QED BY <1>4 DEF c

LEMMA FlattenElements ==
  ASSUME NEW T, NEW seqs \in Seq(Seq(T))
  PROVE  /\ FlattenSeq(seqs) \in Seq(T)
         /\ \A x \in Range(FlattenSeq(seqs)) : \E i \in DOMAIN seqs : x \in Range(seqs[i])
<1>1. CASE seqs = << >>
  <2>1. FlattenSeq(seqs) = << >>
    BY <1>1 DEF FlattenSeq
  <2> QED BY <2>1 DEF Range
<1>2. CASE seqs # << >>
  <2>1. PICK f : IsJoined(f, seqs, Len(seqs)) /\ FlattenSeq(seqs) = f[Len(seqs)]
    BY <1>2, FlattenIsJoined
  <2> DEFINE Good(k) == f[k] \in Seq(T) /\ \A x \in Range(f[k]) : \E i \in DOMAIN seqs : x \in Range(seqs[i])
             Bad == {k \in 1..Len(seqs) : ~ Good(k)}
  <2>2. Len(seqs) \in Nat /\ Len(seqs) # 0 /\ DOMAIN seqs = 1..Len(seqs)
    BY <1>2
  <2>3. Bad = {}
    <3> SUFFICES ASSUME Bad # {}
                 PROVE  FALSE
      OBVIOUS
    <3>1. Bad \in SUBSET Nat
      OBVIOUS
    <3>2. PICK k \in Bad : \A l \in Bad : ~ (l < k)
      <4> HIDE DEF Bad
      <4> QED BY <3>1, LeastExists
    <3>3. seqs[k] \in Seq(T) /\ k \in DOMAIN seqs
      BY <2>2
    <3>4. k # 1
      <4>1. CASE k = 1
        <5>1. f[k] = seqs[k]
          BY <2>1, <2>2, <4>1 DEF IsJoined
        <5>2. Good(k)
          BY <3>3, <5>1
        <5> QED BY <5>2
      <4> QED BY <4>1
    <3>5. k - 1 \in 1..Len(seqs) /\ k - 1 < k
      BY <2>2, <3>4
    <3>6. Good(k - 1)
      BY <3>2, <3>5
    <3>7. f[k] = f[k - 1] \o seqs[k]
      BY <2>1, <3>4 DEF IsJoined
    <3>8. f[k] \in Seq(T) /\ Range(f[k]) = Range(f[k - 1]) \cup Range(seqs[k])
      BY <3>3, <3>6, <3>7, ConcatElements
    <3>9. Good(k)
      BY <3>3, <3>6, <3>8
    <3> QED BY <3>9
  <2>4. Good(Len(seqs))
    <3>1. Len(seqs) \in 1..Len(seqs)
      BY <2>2
    <3> HIDE DEF Good
    <3> QED BY <2>3, <3>1
  <2> QED BY <2>1, <2>4
<1> QED BY <1>1, <1>2

-----------------------------------------------------------------------------
(***************************************************************************)
(* Implied imports: what a join point implies is imported where its filter   *)
(* does not rule the package out.                                            *)
(***************************************************************************)
LEMMA SeqIsSeq ==
  ASSUME NEW T, NEW s \in Seq(T)
  PROVE  IsSeq(s) /\ Range(s) \subseteq T
<1>1. s = [i \in 1..Len(s) |-> s[i]] /\ Len(s) \in Nat /\ DOMAIN s = 1..Len(s)
  OBVIOUS
<1>2. \A i \in 1..Len(s) : s[i] \in Range(s) /\ s[i] \in T
  BY <1>1 DEF Range
<1>3. [i \in 1..Len(s) |-> s[i]] \in Seq(Range(s))
  BY <1>1, <1>2
<1> QED BY <1>1, <1>2, <1>3 DEF IsSeq, Range

LEMMA SetToSeqElements ==
  ASSUME NEW S, IsFiniteSet(S)
  PROVE  SetToSeq(S) \in Seq(S)
<1> DEFINE n == Cardinality(S)
<1>1. n \in Nat /\ ExistsBijection(1..n, S)
  BY FS_CardinalityType
<1>2. \E f \in [1..n -> S] : IsInjective(f)
  BY <1>1 DEF ExistsBijection, Bijection, Injection, IsInjective
<1>3. SetToSeq(S) \in [1..n -> S]
  BY <1>2 DEF SetToSeq
<1> HIDE DEF n
<1> QED BY <1>1, <1>3

LEMMA OccurrencesAreFinite ==
  ASSUME NEW T, NEW s \in Seq(T), NEW path
  PROVE  IsFiniteSet({i \in DOMAIN s : s[i] = path}) /\ Occurrences(s, path) \in Nat
<1> DEFINE in == {i \in DOMAIN s : s[i] = path}
<1>1. IsFiniteSet(1..Len(s)) /\ in \in SUBSET (1..Len(s))
  BY FS_Interval
<1>2. Occurrences(s, path) = Cardinality(in)
  BY DEF Occurrences
<1> HIDE DEF in
<1>3. IsFiniteSet(in) /\ Occurrences(s, path) \in Nat
  BY <1>1, <1>2, FS_Subset, FS_CardinalityType
<1> QED BY <1>3 DEF in

LEMMA OccurrencesGrow ==
  ASSUME NEW T, NEW s \in Seq(T), NEW t \in Seq(T), IsInjective(t), NEW path
  PROVE  /\ Occurrences(s \o t, path) <= Occurrences(s, path) + 1
         /\ path \notin Range(t) => Occurrences(s \o t, path) = Occurrences(s, path)
<1> DEFINE in == {i \in DOMAIN s : s[i] = path}
           all == {i \in DOMAIN (s \o t) : (s \o t)[i] = path}
<1>1. /\ Len(s) \in Nat /\ Len(t) \in Nat /\ DOMAIN s = 1..Len(s) /\ DOMAIN t = 1..Len(t)
      /\ DOMAIN (s \o t) = 1..Len(s) + Len(t)
      /\ \A i \in 1..Len(s) : (s \o t)[i] = s[i]
      /\ \A i \in 1..Len(s) + Len(t) : i > Len(s) => (s \o t)[i] = t[i - Len(s)]
  OBVIOUS
<1>2. IsFiniteSet(in) /\ Cardinality(in) \in Nat
  BY OccurrencesAreFinite DEF Occurrences
<1>3. Occurrences(s, path) = Cardinality(in) /\ Occurrences(s \o t, path) = Cardinality(all)
  BY DEF Occurrences
<1>4. CASE path \notin Range(t)
  <2>1. \A i \in DOMAIN t : t[i] # path
    BY <1>4 DEF Range
  <2>2. all = in
    BY <1>1, <2>1
  <2> HIDE DEF in, all
  <2> QED BY <1>2, <1>3, <2>2
<1>5. CASE path \in Range(t)
  <2>1. PICK j \in DOMAIN t : t[j] = path
    BY <1>5 DEF Range
  <2>2. \A i \in DOMAIN t : t[i] = path => i = j
    BY <2>1 DEF IsInjective
  <2>3. all = in \cup {Len(s) + j}
    <3>1. \A i \in all : i \in in \/ i = Len(s) + j
      <4> SUFFICES ASSUME NEW i \in all, i > Len(s)
                   PROVE  i = Len(s) + j
        BY <1>1
      <4>1. i - Len(s) \in DOMAIN t /\ t[i - Len(s)] = path
        BY <1>1
      <4>2. i - Len(s) = j
        BY <2>2, <4>1
      <4> QED BY <1>1, <2>1, <4>2
    <3>2. in \subseteq all
      BY <1>1
    <3>3. Len(s) + j \in all
      <4>1. Len(s) + j \in 1..Len(s) + Len(t) /\ Len(s) + j > Len(s) /\ Len(s) + j - Len(s) = j
        BY <1>1, <2>1
      <4> QED BY <1>1, <2>1, <4>1
    <3> HIDE DEF in, all
    <3> QED BY <3>1, <3>2, <3>3
  <2> HIDE DEF in, all
  <2> DEFINE x == Len(s) + j
  <2>4. all = in \cup {x}
    BY <2>3
  <2> HIDE DEF x
  <2>5. Cardinality(in \cup {x}) = IF x \in in THEN Cardinality(in) ELSE Cardinality(in) + 1
    BY <1>2, FS_AddElement
  <2>6. Cardinality(all) <= Cardinality(in) + 1
    BY <1>2, <2>4, <2>5
  <2> QED BY <1>3, <1>2, <1>5, <2>6
<1> QED BY <1>4, <1>5

\* Candidates that each imply a path at most once imply it as often as there are
\* candidates only if all of them do.
LEMMA AllOccur ==
  ASSUME NEW T, NEW lists \in Seq(Seq(T)), \A i \in DOMAIN lists : IsInjective(lists[i]),
         NEW path, Occurrences(FlattenSeq(lists), path) = Len(lists),
         NEW j \in DOMAIN lists
  PROVE  path \in Range(lists[j])
<1> SUFFICES ASSUME path \notin Range(lists[j])
             PROVE  FALSE
  OBVIOUS
<1>1. /\ Len(lists) \in Nat /\ DOMAIN lists = 1..Len(lists) /\ lists # << >>
      /\ j \in 1..Len(lists)
      /\ \A k \in 1..Len(lists) : lists[k] \in Seq(T)
  OBVIOUS
<1>2. PICK f : IsJoined(f, lists, Len(lists)) /\ FlattenSeq(lists) = f[Len(lists)]
  BY <1>1, FlattenIsJoined
<1> DEFINE occ(k) == Occurrences(f[k], path)
           Good(k) == /\ f[k] \in Seq(T) /\ occ(k) \in Nat /\ occ(k) <= k
                      /\ j <= k => occ(k) <= k - 1
           Bad == {k \in 1..Len(lists) : ~ Good(k)}
<1>3. Bad = {}
  <2> SUFFICES ASSUME Bad # {}
               PROVE  FALSE
    OBVIOUS
  <2>1. Bad \in SUBSET Nat
    OBVIOUS
  <2>2. PICK k \in Bad : \A l \in Bad : ~ (l < k)
    <3> HIDE DEF Bad
    <3> QED BY <2>1, LeastExists
  <2>3. k \in 1..Len(lists) /\ lists[k] \in Seq(T) /\ IsInjective(lists[k])
    <3>1. k \in 1..Len(lists)
      OBVIOUS
    <3> HIDE DEF Bad
    <3> QED BY <1>1, <3>1
  <2>4. CASE k = 1
    <3> DEFINE t == lists[k]
               none == << >>
    <3>1. f[k] = t /\ t \in Seq(T) /\ IsInjective(t)
      BY <1>2, <2>3, <2>4 DEF IsJoined
    <3> HIDE DEF t
    <3>2. none \o t = t /\ none \in Seq(T)
      BY <3>1
    <3>3. Occurrences(none, path) = 0
      <4>1. {i \in DOMAIN none : none[i] = path} = {}
        OBVIOUS
      <4> QED BY <4>1, FS_EmptySet DEF Occurrences
    <3>4. occ(k) \in Nat
      BY <3>1, OccurrencesAreFinite
    <3> HIDE DEF none
    <3>5. occ(k) <= 1 /\ (path \notin Range(t) => occ(k) = 0)
      <4>1. /\ Occurrences(none \o t, path) <= Occurrences(none, path) + 1
            /\ path \notin Range(t) => Occurrences(none \o t, path) = Occurrences(none, path)
        BY <3>1, <3>2, OccurrencesGrow
      <4> QED BY <3>1, <3>2, <3>3, <4>1
    <3>6. j <= 1 => t = lists[j]
      BY <1>1, <2>4 DEF t
    <3>7. Good(k)
      BY <2>4, <3>1, <3>4, <3>5, <3>6
    <3> QED BY <3>7
  <2>5. CASE k # 1
    <3> DEFINE l == k - 1
               t == lists[k]
    <3>1. l \in 1..Len(lists) /\ l < k /\ k = l + 1 /\ l \in Nat
      BY <2>3, <2>5
    <3>2. f[k] = f[l] \o t
      BY <1>2, <2>3, <2>5 DEF IsJoined
    <3>3. Good(l)
      BY <2>2, <3>1
    <3>4. k = j => t = lists[j]
      OBVIOUS
    <3>5. t \in Seq(T) /\ IsInjective(t)
      BY <2>3
    <3> HIDE DEF l, t
    <3>6. f[k] \in Seq(T)
      BY <3>2, <3>3, <3>5
    <3>7. occ(k) \in Nat
      BY <3>6, OccurrencesAreFinite
    <3>8. occ(k) <= occ(l) + 1 /\ (path \notin Range(t) => occ(k) = occ(l))
      <4> DEFINE u == f[l]
      <4>1. f[k] = u \o t /\ u \in Seq(T)
        BY <3>2, <3>3
      <4> HIDE DEF u
      <4>2. /\ Occurrences(u \o t, path) <= Occurrences(u, path) + 1
            /\ path \notin Range(t) => Occurrences(u \o t, path) = Occurrences(u, path)
        BY <3>5, <4>1, OccurrencesGrow
      <4> QED BY <4>1, <4>2 DEF u
    <3>9. j <= k => j <= l \/ j = k
      BY <1>1, <3>1
    <3> HIDE DEF occ
    <3>10. Good(k)
      BY <1>1, <3>1, <3>3, <3>4, <3>6, <3>7, <3>8, <3>9
    <3> QED BY <3>10
  <2> QED BY <2>4, <2>5
<1>4. Good(Len(lists))
  <2>1. Len(lists) \in 1..Len(lists)
    BY <1>1
  <2> HIDE DEF Good
  <2> QED BY <1>3, <2>1
<1> QED BY <1>1, <1>2, <1>4

Imported(pkg, f) ==
  /\ IsSeq(f.implied)
  /\ f.package # "NeverMatch" => \A path \in Range(f.implied) : Known(pkg, path)

\* What the code takes for granted, of the join points of a configuration: that the
\* interface of an argument-implements is imported, and that no candidate of a one-of
\* implies a path twice.
Grants(pkg, filter) ==
  \A p \in DOMAIN points :
      /\ points[p].kind = "function" =>
             \A opt \in Range(points[p].options) :
                 opt.option = "argument-implements" => Known(pkg, opt.interface.path)
      /\ points[p].kind = "one-of" =>
             \A i \in DOMAIN Parts(points[p]) : IsInjective(filter[Parts(points[p])[i]].implied)

LEMMA FoundIsKnown ==
  ASSUME NEW pkg, NEW path, PackageImports(pkg, path) # "NeverMatch"
  PROVE  Known(pkg, path)
BY DEF PackageImports, Decide, Known

LEMMA OneIsSeq ==
  ASSUME NEW path
  PROVE  /\ IsSeq(<<path>>) /\ Range(<<path>>) = {path}
         /\ IsSeq(Implied(path)) /\ Range(Implied(path)) \subseteq {path}
<1>1. <<path>> \in Seq({path}) /\ << >> \in Seq({path})
  OBVIOUS
<1>2. Range(<<path>>) = {path}
  BY DEF Range
<1> QED BY <1>1, <1>2, SeqIsSeq DEF Implied

LEMMA NoneIsSeq == IsSeq(<< >>) /\ Range(<< >>) = {}
BY DEF IsSeq, Range

LEMMA OptionIsImported ==
  ASSUME NEW opt, IsOption(opt), NEW pkg,
         opt.option = "argument-implements" => Known(pkg, opt.interface.path)
  PROVE  /\ IsSeq(OptionImplies(opt))
         /\ OptionPackageMayMatch(opt, pkg) # "NeverMatch" =>
                \A path \in Range(OptionImplies(opt)) : Known(pkg, path)
<1>1. CASE opt.option \in {"signature", "signature-contains"}
  <2> DEFINE types == opt.args \o opt.results
             paths == [i \in DOMAIN types |-> types[i].path]
             T == Range(opt.args) \cup Range(opt.results)
             U == SignaturePaths(opt)
  <2>1. opt.args \in Seq(T) /\ opt.results \in Seq(T)
    <3>1. IsSeq(opt.args) /\ IsSeq(opt.results)
      BY <1>1 DEF IsOption
    <3>2. opt.args \in Seq(Range(opt.args)) /\ opt.results \in Seq(Range(opt.results))
      BY <3>1 DEF IsSeq
    <3> QED BY <3>2
  <2>2. types \in Seq(T)
    BY <2>1, ConcatElements
  <2>3. \A tn \in T : tn.path \in U
    BY DEF SignaturePaths
  <2>4. paths \in Seq(U)
    <3> HIDE DEF types, T, U
    <3>1. DOMAIN types = 1..Len(types) /\ Len(types) \in Nat /\ \A i \in 1..Len(types) : types[i] \in T
      BY <2>2
    <3> QED BY <2>3, <3>1
  <2> DEFINE V == U \ {""}
  <2>5. OptionImplies(opt) = Among(paths, V)
    BY <1>1 DEF OptionImplies
  <2> HIDE DEF paths, U, V
  <2>6. OptionImplies(opt) \in Seq(U)
    <3>1. Among(paths, V) \in Seq(U)
      BY <2>4, AmongRange
    <3> QED BY <2>5, <3>1
  <2>7. IsSeq(OptionImplies(opt)) /\ Range(OptionImplies(opt)) \subseteq U
    BY <2>6, SeqIsSeq
  <2>8. OptionPackageMayMatch(opt, pkg) # "NeverMatch" =>
            \A path \in U : PackageImports(pkg, path) # "NeverMatch"
    BY <1>1 DEF OptionPackageMayMatch, AndAll, U
  <2> QED BY <2>7, <2>8, FoundIsKnown
<1>2. CASE opt.option = "receiver"
  <2>1. OptionImplies(opt) = <<opt.type.path>>
    BY <1>2 DEF OptionImplies
  <2>2. OptionPackageMayMatch(opt, pkg) # "NeverMatch" => Known(pkg, opt.type.path)
    BY <1>2 DEF OptionPackageMayMatch, Decide, Known
  <2> QED BY <2>1, <2>2, OneIsSeq
<1>3. CASE opt.option = "argument-implements" /\ opt.interface.path # ""
  <2> DEFINE path == opt.interface.path
  <2>1. OptionImplies(opt) = <<path>> /\ Known(pkg, path)
    BY <1>3 DEF OptionImplies
  <2> HIDE DEF path
  <2>2. IsSeq(<<path>>) /\ Range(<<path>>) = {path}
    BY OneIsSeq
  <2> QED BY <2>1, <2>2
<1>4. CASE /\ opt.option \notin {"signature", "signature-contains", "receiver"}
           /\ ~ (opt.option = "argument-implements" /\ opt.interface.path # "")
  <2>1. OptionImplies(opt) = << >>
    BY <1>4 DEF OptionImplies
  <2> QED BY <2>1, NoneIsSeq
<1> QED BY <1>1, <1>2, <1>3, <1>4

LEMMA FlattenOf ==
  ASSUME NEW lists, NEW n \in Nat, DOMAIN lists = 1..n, lists = [i \in 1..n |-> lists[i]],
         \A i \in 1..n : IsSeq(lists[i])
  PROVE  /\ Len(lists) = n
         /\ lists \in Seq(Seq(UNION {Range(lists[i]) : i \in 1..n}))
         /\ IsSeq(FlattenSeq(lists))
         /\ \A x \in Range(FlattenSeq(lists)) : \E i \in 1..n : x \in Range(lists[i])
<1> DEFINE T == UNION {Range(lists[i]) : i \in 1..n}
<1>1. \A i \in 1..n : lists[i] \in Seq(T)
  <2> SUFFICES ASSUME NEW i \in 1..n
               PROVE  lists[i] \in Seq(T)
    OBVIOUS
  <2>1. lists[i] \in Seq(Range(lists[i])) /\ Range(lists[i]) \subseteq T
    BY DEF IsSeq
  <2> HIDE DEF T
  <2> QED BY <2>1
<1> HIDE DEF T
<1>2. lists \in Seq(Seq(T)) /\ Len(lists) = n
  BY <1>1
<1>3. /\ FlattenSeq(lists) \in Seq(T)
      /\ \A x \in Range(FlattenSeq(lists)) : \E i \in DOMAIN lists : x \in Range(lists[i])
  BY <1>2, FlattenElements
<1> QED BY <1>2, <1>3, SeqIsSeq DEF T

LEMMA FunctionIsImported ==
  ASSUME NEW pkg, NEW file, NEW filter, Grants(pkg, filter),
         NEW p \in DOMAIN points, points[p].kind = "function"
  PROVE  Imported(pkg, FunctionFilter(points[p], pkg, file))
<1> DEFINE pt == points[p]
           lists == [i \in DOMAIN pt.options |-> OptionImplies(pt.options[i])]
           f == FunctionFilter(pt, pkg, file)
           n == Len(pt.options)
<1>1. IsSeq(pt.options) /\ \A opt \in Range(pt.options) : IsOption(opt)
  BY PointsAssumption
<1>2. /\ n \in Nat /\ DOMAIN pt.options = 1..n
      /\ \A i \in 1..n : pt.options[i] \in Range(pt.options)
  BY <1>1 DEF IsSeq
<1>3. \A opt \in Range(pt.options) :
          opt.option = "argument-implements" => Known(pkg, opt.interface.path)
  BY DEF Grants
<1>4. f.implied = FlattenSeq(lists)
      /\ f.package = AndAll({OptionPackageMayMatch(opt, pkg) : opt \in Range(pt.options)})
  BY DEF FunctionFilter, Filter
<1> HIDE DEF f, pt, n
<1>5. \A i \in 1..n : IsSeq(lists[i]) /\ lists[i] = OptionImplies(pt.options[i])
  BY <1>1, <1>2, <1>3, OptionIsImported
<1>6. DOMAIN lists = 1..n /\ lists = [i \in 1..n |-> lists[i]]
  BY <1>2
<1> HIDE DEF lists
<1>7. /\ IsSeq(FlattenSeq(lists))
      /\ \A x \in Range(FlattenSeq(lists)) : \E i \in 1..n : x \in Range(lists[i])
  BY <1>2, <1>5, <1>6, FlattenOf
<1>8. ASSUME f.package # "NeverMatch", NEW path \in Range(f.implied)
      PROVE  Known(pkg, path)
  <2>1. PICK i \in 1..n : path \in Range(OptionImplies(pt.options[i]))
    BY <1>4, <1>5, <1>7, <1>8
  <2>2. OptionPackageMayMatch(pt.options[i], pkg) # "NeverMatch"
    BY <1>2, <1>4, <1>8 DEF AndAll
  <2> QED BY <1>1, <1>2, <1>3, <2>1, <2>2, OptionIsImported
<1> QED BY <1>4, <1>7, <1>8 DEF Imported, f, pt

LEMMA LeafIsImported ==
  ASSUME NEW pkg, NEW file, NEW filter, AreFilters(filter, pkg, file), Grants(pkg, filter),
         NEW p \in DOMAIN points, points[p].kind \notin Compositions
  PROVE  Imported(pkg, filter[p])
<1> DEFINE pt == points[p]
<1>1. filter[p] = FilterOf(pt, [i \in DOMAIN Parts(pt) |-> filter[Parts(pt)[i]]], pkg, file)
  BY DEF AreFilters
<1>2. pt.kind \in PointKinds
  BY PointsAssumption
<1>3. CASE pt.kind = "function"
  <2>1. filter[p] = FunctionFilter(pt, pkg, file)
    BY <1>1, <1>3 DEF FilterOf
  <2> QED BY <1>3, <2>1, FunctionIsImported
<1>4. CASE pt.kind \in {"directive", "package-name", "package-filter", "test-main", "configuration"}
  <2>1. filter[p].implied = << >>
    BY <1>1, <1>4 DEF FilterOf, DirectiveFilter, PackageNameFilter, PackageFilterFilter,
                      TestMainFilter, Filter
  <2> QED BY <2>1, NoneIsSeq DEF Imported
<1>5. CASE pt.kind \in {"struct-definition", "struct-literal", "method-call", "value-declaration"}
  <2>1. filter[p].implied = Implied(pt.type.path)
    BY <1>1, <1>5 DEF FilterOf, StructDefinitionFilter, StructLiteralFilter,
                      MethodCallFilter, ValueDeclarationFilter, Filter
  <2>2. filter[p].package \in {Decide(pkg.importPath = pt.type.path), PackageImports(pkg, pt.type.path)}
    BY <1>1, <1>5 DEF FilterOf, StructDefinitionFilter, StructLiteralFilter,
                      MethodCallFilter, ValueDeclarationFilter, Filter
  <2>3. filter[p].package # "NeverMatch" => Known(pkg, pt.type.path)
    BY <2>2, FoundIsKnown DEF Decide, Known
  <2> DEFINE path == pt.type.path
  <2>4. filter[p].implied = Implied(path) /\ (filter[p].package # "NeverMatch" => Known(pkg, path))
    BY <2>1, <2>3
  <2> HIDE DEF path
  <2>5. IsSeq(Implied(path)) /\ Range(Implied(path)) \subseteq {path}
    BY OneIsSeq
  <2> QED BY <2>4, <2>5 DEF Imported
<1>6. CASE pt.kind \in {"function-call", "declaration-of"}
  <2>1. filter[p].implied = <<pt.path>> /\ filter[p].package = PackageImports(pkg, pt.path)
    BY <1>1, <1>6 DEF FilterOf, FunctionCallFilter, DeclarationOfFilter, Filter
  <2> QED BY <2>1, FoundIsKnown, OneIsSeq DEF Imported
<1>7. CASE pt.kind = "import-path"
  <2>1. filter[p].implied = <<pt.name>> /\ filter[p].package = Decide(pkg.importPath = pt.name)
    BY <1>1, <1>7 DEF FilterOf, ImportPathFilter, Filter
  <2>2. filter[p].package # "NeverMatch" => Known(pkg, pt.name)
    BY <2>1 DEF Decide, Known
  <2> QED BY <2>1, <2>2, OneIsSeq DEF Imported
<1> QED BY <1>2, <1>3, <1>4, <1>5, <1>6, <1>7 DEF PointKinds, Compositions

LEMMA RangeIsFinite ==
  ASSUME NEW s, IsSeq(s)
  PROVE  IsFiniteSet(Range(s))
<1> DEFINE n == Len(s)
           T == Range(s)
           f == [i \in 1..n |-> s[i]]
<1>1. n \in Nat /\ DOMAIN s = 1..n /\ IsFiniteSet(1..n)
  BY FS_Interval DEF IsSeq
<1>2. f \in [1..n -> T] /\ \A x \in T : \E i \in 1..n : f[i] = x
  BY <1>1 DEF Range
<1>3. f \in Surjection(1..n, T)
  BY <1>2 DEF Surjection
<1> HIDE DEF f, T, n
<1>4. IsFiniteSet(T)
  BY <1>1, <1>3, FS_Surjection
<1> QED BY <1>4 DEF T

LEMMA CompositionIsImported ==
  ASSUME NEW pkg, NEW file, NEW filter, AreFilters(filter, pkg, file), Grants(pkg, filter),
         NEW p \in DOMAIN points, points[p].kind \in Compositions,
         \A i \in DOMAIN Parts(points[p]) : Imported(pkg, filter[Parts(points[p])[i]])
  PROVE  Imported(pkg, filter[p])
<1> DEFINE pt == points[p]
           of == Parts(pt)
           fs == [i \in DOMAIN of |-> filter[of[i]]]
           n == Len(of)
           lists == [i \in DOMAIN fs |-> fs[i].implied]
<1>1. /\ n \in Nat /\ DOMAIN of = 1..n
      /\ pt.kind \in {"not", "function-body"} => 1 \in 1..n
  BY PointsAreOrdered
<1>2. filter[p] = FilterOf(pt, fs, pkg, file)
  BY DEF AreFilters
<1>3. pt.kind = "one-of" => \A i \in DOMAIN of : IsInjective(filter[of[i]].implied)
  BY DEF Grants
<1>4. \A i \in DOMAIN of : Imported(pkg, filter[of[i]])
  OBVIOUS
<1>5. pt.kind \in {"not", "one-of", "all-of", "function-body"}
  BY DEF Compositions
<1> HIDE DEF pt, of, n
<1>6. /\ DOMAIN fs = 1..n /\ \A i \in 1..n : Imported(pkg, fs[i])
      /\ pt.kind = "one-of" => \A i \in 1..n : IsInjective(fs[i].implied)
  BY <1>1, <1>3, <1>4
<1> HIDE DEF fs
<1>7. /\ DOMAIN lists = 1..n /\ lists = [i \in 1..n |-> lists[i]]
      /\ \A i \in 1..n : IsSeq(lists[i]) /\ lists[i] = fs[i].implied
  BY <1>6 DEF Imported
<1>8. lists = [i \in DOMAIN fs |-> fs[i].implied]
  OBVIOUS
<1> HIDE DEF lists
<1>9. /\ Len(lists) = n
      /\ lists \in Seq(Seq(UNION {Range(lists[i]) : i \in 1..n}))
      /\ IsSeq(FlattenSeq(lists))
      /\ \A x \in Range(FlattenSeq(lists)) : \E i \in 1..n : x \in Range(lists[i])
  BY <1>1, <1>7, FlattenOf
<1>10. CASE pt.kind = "not"
  <2>1. filter[p].implied = << >>
    BY <1>2, <1>10 DEF FilterOf, NotFilter, Filter
  <2> QED BY <2>1, NoneIsSeq DEF Imported
<1>11. CASE pt.kind = "function-body"
  <2>1. filter[p] = fs[1]
    BY <1>2, <1>11 DEF FilterOf
  <2> QED BY <1>1, <1>6, <1>11, <2>1
<1>12. CASE pt.kind = "all-of"
  <2>1. /\ filter[p].implied = FlattenSeq(lists)
        /\ filter[p].package = AndAll({f.package : f \in Range(fs)})
    BY <1>2, <1>8, <1>12 DEF FilterOf, AllOfFilter, Filter
  <2>2. ASSUME filter[p].package # "NeverMatch", NEW path \in Range(filter[p].implied)
        PROVE  Known(pkg, path)
    <3>1. PICK i \in 1..n : path \in Range(fs[i].implied)
      BY <1>7, <1>9, <2>1, <2>2
    <3>2. fs[i].package # "NeverMatch"
      <4>1. fs[i] \in Range(fs)
        BY <1>6 DEF Range
      <4> QED BY <2>1, <2>2, <4>1 DEF AndAll
    <3> QED BY <1>6, <3>1, <3>2 DEF Imported
  <2> QED BY <1>9, <2>1, <2>2 DEF Imported
<1>13. CASE pt.kind = "one-of"
  <2> DEFINE all == FlattenSeq(lists)
             common == {path \in Range(all) : Occurrences(all, path) = n}
  <2>1. /\ filter[p].implied = SetToSeq(common)
        /\ filter[p].package = OrAll({f.package : f \in Range(fs)})
    <3>1. filter[p] = OneOfFilter(fs)
      BY <1>2, <1>13 DEF FilterOf
    <3>2. /\ OneOfFilter(fs).implied = OneOfImplies(lists)
          /\ OneOfFilter(fs).package = OrAll({f.package : f \in Range(fs)})
      BY <1>8 DEF OneOfFilter, Filter
    <3>3. OneOfImplies(lists) = SetToSeq(common)
      BY <1>9 DEF OneOfImplies
    <3> HIDE DEF common
    <3> QED BY <3>1, <3>2, <3>3
  <2>2. IsFiniteSet(common)
    <3>1. IsFiniteSet(Range(all))
      BY <1>9, RangeIsFinite
    <3> QED BY <3>1, FS_Subset
  <2>3. IsSeq(filter[p].implied) /\ Range(filter[p].implied) \subseteq common
    <3> HIDE DEF common
    <3> QED BY <2>1, <2>2, SetToSeqElements, SeqIsSeq
  <2>4. ASSUME filter[p].package # "NeverMatch", NEW path \in Range(filter[p].implied)
        PROVE  Known(pkg, path)
    <3>1. PICK f \in Range(fs) : f.package # "NeverMatch"
      BY <2>1, <2>4 DEF OrAll
    <3>2. PICK i \in 1..n : f = fs[i]
      BY <1>6 DEF Range
    <3>3. Occurrences(FlattenSeq(lists), path) = Len(lists)
      BY <1>9, <2>3, <2>4
    <3>4. \A j \in DOMAIN lists : IsInjective(lists[j])
      BY <1>6, <1>7, <1>13
    <3>5. path \in Range(lists[i])
      <4> DEFINE T == UNION {Range(lists[j]) : j \in 1..n}
      <4>1. lists \in Seq(Seq(T)) /\ i \in DOMAIN lists
        BY <1>7, <1>9
      <4> HIDE DEF T
      <4> QED BY <3>3, <3>4, <4>1, AllOccur
    <3> QED BY <1>6, <1>7, <3>1, <3>2, <3>5 DEF Imported
  <2> QED BY <2>3, <2>4 DEF Imported
<1> QED BY <1>5, <1>10, <1>11, <1>12, <1>13

\* Where the filter of a join point does not rule a package out, the package imports,
\* or is, whatever the join point implies to be imported (ImpliesImported and
\* PackageMayMatch of each join point, on which Aspect.AddedImports relies).
THEOREM ImpliedIsImported ==
  ASSUME NEW pkg, NEW file, Grants(pkg, Filters(pkg, file)), NEW p \in DOMAIN points,
         Filters(pkg, file)[p].package # "NeverMatch",
         NEW path \in Range(Filters(pkg, file)[p].implied)
  PROVE  Known(pkg, path)
<1> DEFINE filter == Filters(pkg, file)
           Bad == {q \in DOMAIN points : ~ Imported(pkg, filter[q])}
<1>1. AreFilters(filter, pkg, file) /\ Grants(pkg, filter)
  BY FiltersAreFilters
<1> HIDE DEF filter
<1>2. Bad = {}
  <2> SUFFICES ASSUME Bad # {}
               PROVE  FALSE
    OBVIOUS
  <2>1. Bad \in SUBSET Nat
    BY PointsAssumption
  <2>2. PICK q \in Bad : \A l \in Bad : ~ (l < q)
    <3> HIDE DEF Bad
    <3> QED BY <2>1, LeastExists
  <2>3. \A i \in DOMAIN Parts(points[q]) : Imported(pkg, filter[Parts(points[q])[i]])
    BY <2>2, PartsComeFirst
  <2>4. Imported(pkg, filter[q])
    BY <1>1, <2>3, LeafIsImported, CompositionIsImported
  <2> QED BY <2>4
<1>3. Imported(pkg, filter[p])
  BY <1>2
<1> QED BY <1>3 DEF Imported, filter

-----------------------------------------------------------------------------
(***************************************************************************)
(* Sequences without repetitions.                                            *)
(***************************************************************************)
LEMMA AppendIsInjective ==
  ASSUME NEW T, NEW s \in Seq(T), IsInjective(s), NEW x, x \notin Range(s)
  PROVE  IsInjective(Append(s, x))
<1>1. /\ Len(s) \in Nat /\ DOMAIN s = 1..Len(s) /\ DOMAIN Append(s, x) = 1..Len(s) + 1
      /\ \A i \in 1..Len(s) : Append(s, x)[i] = s[i] /\ s[i] # x
      /\ Append(s, x)[Len(s) + 1] = x
  BY DEF Range
<1> QED BY <1>1 DEF IsInjective

LEMMA ConcatIsInjective ==
  ASSUME NEW T, NEW s \in Seq(T), NEW t \in Seq(T), IsInjective(s), IsInjective(t),
         Range(s) \cap Range(t) = {}
  PROVE  IsInjective(s \o t)
<1> DEFINE c == s \o t
<1>1. /\ Len(s) \in Nat /\ Len(t) \in Nat /\ DOMAIN s = 1..Len(s) /\ DOMAIN t = 1..Len(t)
      /\ DOMAIN c = 1..Len(s) + Len(t)
      /\ \A i \in 1..Len(s) : c[i] = s[i]
      /\ \A i \in 1..Len(s) + Len(t) : i > Len(s) => c[i] = t[i - Len(s)]
  OBVIOUS
<1>2. \A i \in 1..Len(s), j \in 1..Len(t) : s[i] # t[j]
  BY <1>1 DEF Range
<1> HIDE DEF c
<1>3. \A i \in DOMAIN c : \/ i \in 1..Len(s) /\ c[i] = s[i]
                          \/ i > Len(s) /\ i - Len(s) \in 1..Len(t) /\ c[i] = t[i - Len(s)]
  BY <1>1
<1>4. ASSUME NEW i \in DOMAIN c, NEW j \in DOMAIN c, c[i] = c[j]
      PROVE  i = j
  <2>1. CASE i \in 1..Len(s) /\ c[i] = s[i]
    <3>1. j \in 1..Len(s) /\ c[j] = s[j]
      BY <1>2, <1>3, <1>4, <2>1
    <3> QED BY <1>1, <1>4, <2>1, <3>1 DEF IsInjective
  <2>2. CASE i > Len(s) /\ i - Len(s) \in 1..Len(t) /\ c[i] = t[i - Len(s)]
    <3>1. j > Len(s) /\ j - Len(s) \in 1..Len(t) /\ c[j] = t[j - Len(s)]
      BY <1>2, <1>3, <1>4, <2>2
    <3>2. i - Len(s) = j - Len(s)
      BY <1>1, <1>4, <2>2, <3>1 DEF IsInjective
    <3>3. i \in Int /\ j \in Int
      BY <1>1
    <3> QED BY <1>1, <3>2, <3>3
  <2> QED BY <1>3, <2>1, <2>2
<1> QED BY <1>4 DEF IsInjective, c

LEMMA AmongIsInjective ==
  ASSUME NEW T, NEW seq \in Seq(T), IsInjective(seq), NEW S
  PROVE  IsInjective(Among(seq, S))
<1>1. PICK f : IsKept(f, seq, S, Len(seq)) /\ Among(seq, S) = f[Len(seq)]
  BY AmongIsKept
<1>2. Len(seq) \in Nat /\ DOMAIN seq = 1..Len(seq)
  OBVIOUS
<1> DEFINE Bad == {i \in 0..Len(seq) : ~ IsInjective(f[i])}
<1>3. Bad = {}
  <2> SUFFICES ASSUME Bad # {}
               PROVE  FALSE
    OBVIOUS
  <2>1. Bad \in SUBSET Nat
    OBVIOUS
  <2>2. PICK i \in Bad : \A l \in Bad : ~ (l < i)
    <3> HIDE DEF Bad
    <3> QED BY <2>1, LeastExists
  <2>3. i # 0
    BY <1>1 DEF IsKept, IsInjective
  <2>4. i \in 1..Len(seq) /\ i - 1 \in 0..Len(seq) /\ i - 1 < i
    BY <2>3
  <2>5. IsInjective(f[i - 1])
    BY <2>2, <2>4
  <2>6. f[i] = IF seq[i] \in S THEN Append(f[i - 1], seq[i]) ELSE f[i - 1]
    BY <1>1, <2>4 DEF IsKept
  <2>7. f[i - 1] \in Seq(T) /\ ToSet(f[i - 1]) = FirstOf(seq, i - 1) \cap S
    BY <1>1, <2>4, KeptElements
  <2>8. seq[i] \notin FirstOf(seq, i - 1)
    BY <1>2, <2>4 DEF FirstOf, IsInjective
  <2>9. seq[i] \notin Range(f[i - 1])
    BY <2>7, <2>8 DEF ToSet, Range
  <2> DEFINE s == f[i - 1]
             x == seq[i]
  <2>10. IsInjective(Append(s, x))
    <3>1. s \in Seq(T) /\ IsInjective(s) /\ x \notin Range(s)
      BY <2>5, <2>7, <2>9
    <3> HIDE DEF s, x
    <3> QED BY <3>1, AppendIsInjective
  <2> QED BY <2>5, <2>6, <2>10
<1>4. Len(seq) \in 0..Len(seq)
  BY <1>2
<1> QED BY <1>1, <1>3, <1>4

LEMMA FlattenIsInjective ==
  ASSUME NEW T, NEW seqs \in Seq(Seq(T)), \A i \in DOMAIN seqs : IsInjective(seqs[i]),
         \A i, j \in DOMAIN seqs : i # j => Range(seqs[i]) \cap Range(seqs[j]) = {}
  PROVE  IsInjective(FlattenSeq(seqs))
<1>1. CASE seqs = << >>
  <2>1. FlattenSeq(seqs) = << >>
    BY <1>1 DEF FlattenSeq
  <2> QED BY <2>1 DEF IsInjective
<1>2. CASE seqs # << >>
  <2>1. PICK f : IsJoined(f, seqs, Len(seqs)) /\ FlattenSeq(seqs) = f[Len(seqs)]
    BY <1>2, FlattenIsJoined
  <2> DEFINE Good(k) == /\ f[k] \in Seq(T) /\ IsInjective(f[k])
                        /\ \A x \in Range(f[k]) : \E i \in 1..k : x \in Range(seqs[i])
             Bad == {k \in 1..Len(seqs) : ~ Good(k)}
  <2>2. /\ Len(seqs) \in Nat /\ Len(seqs) # 0 /\ DOMAIN seqs = 1..Len(seqs)
        /\ \A k \in 1..Len(seqs) : seqs[k] \in Seq(T)
    BY <1>2
  <2>3. Bad = {}
    <3> SUFFICES ASSUME Bad # {}
                 PROVE  FALSE
      OBVIOUS
    <3>1. Bad \in SUBSET Nat
      OBVIOUS
    <3>2. PICK k \in Bad : \A l \in Bad : ~ (l < k)
      <4> HIDE DEF Bad
      <4> QED BY <3>1, LeastExists
    <3>3. k \in 1..Len(seqs)
      OBVIOUS
    <3>4. seqs[k] \in Seq(T) /\ IsInjective(seqs[k])
      <4> HIDE DEF Bad
      <4> QED BY <2>2, <3>3
    <3>5. k # 1
      <4>1. ASSUME k = 1
            PROVE  Good(k)
        <5>1. f[k] = seqs[k]
          BY <2>1, <2>2, <4>1 DEF IsJoined
        <5> QED BY <3>4, <4>1, <5>1
      <4> QED BY <4>1
    <3> DEFINE l == k - 1
               s == f[l]
               t == seqs[k]
    <3>6. l \in 1..Len(seqs) /\ l < k /\ k = l + 1
      BY <3>3, <3>5
    <3>7. Good(l)
      BY <3>2, <3>6
    <3>8. f[k] = s \o t
      BY <2>1, <3>3, <3>5 DEF IsJoined
    <3>9. Range(s) \cap Range(t) = {}
      <4>1. \A i \in 1..l : i # k /\ i \in DOMAIN seqs
        BY <2>2, <3>3
      <4>2. ASSUME NEW i \in 1..l
            PROVE  Range(seqs[i]) \cap Range(seqs[k]) = {}
        <5> HIDE DEF l
        <5> QED BY <2>2, <3>3, <4>1
      <4>3. \A x \in Range(s) : \E i \in 1..l : x \in Range(seqs[i])
        BY <3>7
      <4> HIDE DEF s, l, Bad
      <4> QED BY <4>2, <4>3
    <3>10. s \in Seq(T) /\ t \in Seq(T) /\ IsInjective(s) /\ IsInjective(t)
      BY <3>4, <3>7
    <3>11. \A x \in Range(s) : \E i \in 1..l : x \in Range(seqs[i])
      BY <3>7
    <3>12. \A x \in Range(t) : x \in Range(seqs[k])
      OBVIOUS
    <3> HIDE DEF s, t, l, Bad
    <3>13. /\ s \o t \in Seq(T) /\ IsInjective(s \o t)
           /\ Range(s \o t) = Range(s) \cup Range(t)
      BY <3>9, <3>10, ConcatElements, ConcatIsInjective
    <3>14. Good(k)
      <4>1. \A i \in 1..l : i \in 1..k
        BY <3>3, <3>6
      <4> QED BY <3>3, <3>8, <3>11, <3>12, <3>13, <4>1
    <3> QED BY <3>14 DEF Bad
  <2>4. Good(Len(seqs))
    <3>1. Len(seqs) \in 1..Len(seqs)
      BY <2>2
    <3> HIDE DEF Good
    <3> QED BY <2>3, <3>1
  <2> QED BY <2>1, <2>4
<1> QED BY <1>1, <1>2

=============================================================================

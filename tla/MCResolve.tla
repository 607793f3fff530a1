------------------------------ MODULE MCResolve ------------------------------
(***************************************************************************)
(* Instances of Resolve for TLC: all small worlds of some kind, or the one  *)
(* world that shows a point.                                                *)
(***************************************************************************)
EXTENDS Resolve, TLC

CONSTANTS a, b, c, d

\* Packages come with no dependency but those named.
With(deps) == deps @@ [p \in Packages |-> {p}]

Layouts == {With(<< >>), With(a :> {a, b}), With(b :> {b, c}),
            With(c :> {a, c}), With((a :> {a, b, c}) @@ (b :> {b, c}))}

\* Packages from which a walk leads back to them, by what w makes them need.
Circles(w) ==
    LET pairs == {e \in Packages \X Packages :
                     \E x \in w.injects[e[1]] : e[2] \in w.closure[x]}
        After(S) == {e[2] : e \in {f \in pairs : f[1] \in S}}
        walk[n \in Nat] ==
            IF n = 0 THEN [p \in Packages |-> After({p})]
            ELSE [p \in Packages |-> walk[n - 1][p] \cup After(walk[n - 1][p])]
    IN {p \in Packages : p \in walk[Cardinality(Packages)][p]}

\* What weaving may inject when only the packages of S are woven and injected.
Injections(S, some) ==
    {f @@ [p \in Packages |-> {}] : f \in [S -> some]}

\* Injections that are not circular, however builds share packages ...
Buildable ==
    {w \in [roots : {{a}, {a, b}}, injects : Injections({a, b, c}, SUBSET {a, b, c}),
            closure : Layouts, shared : {Packages, {}, {a, b}}] :
        Circles(w) = {}}

\* ... or when two builds wait for the same edge of the graph ...
Chains ==
    [roots : {{a, b}},
     injects : {(a :> {b}) @@ (b :> {c}) @@ (c :> {d}) @@ (d :> {}),
                (a :> {c}) @@ (b :> {c}) @@ (c :> {d}) @@ (d :> {})},
     closure : {With(<< >>), With(c :> {b, c})},
     shared : {Packages, {}}]

\* ... and one package after the other, which may end up in a circle.
Rings ==
    [roots : {{a}}, injects : Injections({a, b, c}, {{}, {a}, {b}, {c}}),
     closure : {With(<< >>)}, shared : {{}}]

MCWorlds == Buildable \cup {w \in Chains : Circles(w) = {}} \cup Rings

\* a injects b, which comes with d; b injects c and c injects a.  While d waits
\* for c as well, a has two children in the graph.
Branches ==
    {[roots |-> {a},
      injects |-> (a :> {b}) @@ (b :> {c}) @@ (c :> {a}) @@ (d :> {c}),
      closure |-> With(b :> {b, d}), shared |-> {}]}

\* a injects b, which imports a, and a has the same build ID in both builds.
Blocked ==
    {[roots |-> {a},
      injects |-> (a :> {b}) @@ [p \in Packages |-> {}],
      closure |-> With(b :> {a, b}), shared |-> Packages]}
=============================================================================

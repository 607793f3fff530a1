----------------------------- MODULE MCLinkDeps -----------------------------
(***************************************************************************)
(* Instances of LinkDeps for TLC: four packages below the main one, few     *)
(* synthetic dependencies at a time, of each kind and between any two.      *)
(***************************************************************************)
EXTENDS LinkDeps, FiniteSetsExt

AtMost(k, S) == UNION {kSubset(i, S) : i \in 0..k}

\* How packages 1, 2 and 3 import one another.
Shapes == {{}, {<<2, 1>>}, {<<3, 2>>}, {<<3, 1>>}, {<<2, 1>>, <<3, 2>>}}

Downward(froms) == {e \in froms \X (1..3) : e[2] < e[1]}
Across(froms) == {e \in froms \X (1..3) : e[1] # e[2]}

\* Programs, of which package 4 is the only one that the main package imports.
Programs ==
    [imports : {s \cup {<<Main, 4>>, <<4, 3>>} : s \in Shapes},
     injects : AtMost(2, Downward({2, 3, Main})),
     links : AtMost(1, Across({1, 2, 4})),
     testInjects : {{}},
     target : {NoPackage},
     augmented : {FALSE}]

\* Programs in which relocation targets have relocation targets of their own.
Relays ==
    [imports : {s \cup {<<Main, 4>>} : s \in Shapes},
     injects : AtMost(1, Downward({2, 3})),
     links : kSubset(2, Across({1, 2, 4})),
     testInjects : {{}},
     target : {NoPackage},
     augmented : {FALSE}]

\* Test binaries: package 4 holds the external tests, which may import 3 too.
Tests ==
    {w \in UNION {[imports : {s \cup {<<Main, t>>, <<Main, 4>>, <<4, t>>} \cup x :
                                 s \in Shapes, x \in {{}, {<<4, 3>>}}},
                   injects : AtMost(1, Downward({2, 3, 4, Main})),
                   links : AtMost(1, Across({1, 2, 4})),
                   testInjects : {{}, {3}},
                   target : {t},
                   augmented : BOOLEAN] : t \in {1, 2}} :
        w.testInjects = {} \/ w.augmented}

MCWorlds == Programs \cup Relays \cup Tests

\* A program whose main package refers to the symbols of a package that it does
\* not import.
LinkingMain ==
    [imports : {s \cup {<<Main, 4>>} : s \in Shapes},
     injects : {{}},
     links : {{<<Main, 3>>}, {<<Main, 3>>, <<4, 3>>}},
     testInjects : {{}},
     target : {NoPackage},
     augmented : {FALSE}]

\* A test main into which weaving injects an import, and relocation targets that import
\* what is tested.
WeavingTestMain ==
    [imports : {s \cup {<<Main, 1>>, <<Main, 4>>, <<4, 1>>} : s \in Shapes},
     injects : {{<<Main, 2>>}},
     links : {{<<Main, 3>>}},
     testInjects : {{}},
     target : {1},
     augmented : BOOLEAN]
=============================================================================

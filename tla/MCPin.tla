------------------------------- MODULE MCPin -------------------------------
(* Instances of Pin: a project with or without a tool file, a go.mod that     *)
(* lacks, has or outruns what is pinned, and processes of two versions.       *)
EXTENDS Pin, TLC

MCProvider == [i \in {"orchestrion", "instrument", "v1", "v2", "all", "x", "y"} |-> i]
MCLatest == [m \in DOMAIN MCProvider |-> IF m \in {"v2", "all"} THEN 4 ELSE 2]

Need(of, at, path, version) == [of |-> of, at |-> at, path |-> path, version |-> version]
MCNeeds == {Need("all", v, "v2", v) : v \in 1..4}
    \cup {Need("orchestrion", 1, "v2", 3), Need("orchestrion", 2, "go", 24), Need("all", 4, "go", 24),
          Need("v1", 2, "v2", 2)}

Options(noPrune) == [NoGenerate |-> ~noPrune, NoPrune |-> noPrune, Validate |-> noPrune]
Kind(command, tag, noPrune) == [command |-> command, tag |-> tag, dev |-> FALSE, atRoot |-> TRUE,
                                checked |-> FALSE, options |-> Options(noPrune)]
MCKinds == {Kind("pin", 2, FALSE), Kind("pin", 2, TRUE), Kind("auto", 2, FALSE), Kind("auto", 1, FALSE),
            [Kind("auto", 2, FALSE) EXCEPT !.dev = TRUE],
            [Kind("auto", 2, FALSE) EXCEPT !.dev = TRUE, !.atRoot = FALSE],
            [Kind("auto", 2, FALSE) EXCEPT !.checked = TRUE]}

ToolFile(imports, generate) == [state |-> "valid", imports |-> imports, generate |-> generate]
MCToolFiles == {NoFile, Unparsable, ToolFile({"orchestrion", "instrument", "x", "y"}, {"-generate"}),
                ToolFile({"v1"}, {})}

Mod(go, toolchain, require) ==
    [go |-> go, toolchain |-> toolchain, replace |-> None, require |-> require]
MCGoMods == {Mod(22, 0, << >>),
             Mod(23, 25, "v1" :> 1 @@ "v2" :> 1 @@ "x" :> 1),
             Mod(24, 0, "orchestrion" :> 2 @@ "instrument" :> 1 @@ "y" :> 1),
             Mod(24, 25, "orchestrion" :> 3 @@ "v2" :> 4 @@ "all" :> 4 @@ "x" :> 1)}

MCSymmetry == Permutations(Pinners)
=============================================================================

------------------------------ MODULE LinkDeps ------------------------------
(***************************************************************************)
(* Dependencies that Go does not know of: from the references that weaving *)
(* adds to a package, through the link.deps file of its archive, to the     *)
(* import configurations of the main package and of the linker              *)
(* (internal/toolexec/aspect, aspect/linkdeps, importcfg, and the test      *)
(* variants of internal/jobserver/pkgs).                                    *)
(*                                                                         *)
(* Packages are numbered so that a package imports lower ones only; Main is *)
(* above all.  Weaving adds imports, of lower packages too, and relocation  *)
(* targets (go:linkname), of any.  When a test binary is built, the package *)
(* under test may be augmented with test files, and Go then compiles a      *)
(* second archive of every package that imports it: its test variant.       *)
(***************************************************************************)
EXTENDS Naturals, Functions

CONSTANTS
    N,          \* number of packages
    NoPackage,  \* what is under test when a program is built
    Worlds      \* what may be built

Packages == 1..N
Main == N + 1
Nodes == Packages \cup {Main}

(***************************************************************************)
(* A world: what each package imports in its source (imports), what weaving *)
(* makes it import (injects) and refer to (links), what weaving makes the   *)
(* test files of the package under test import (testInjects), the package   *)
(* under test and whether it has test files of its own (augmented).         *)
(***************************************************************************)
WorldType == [imports : SUBSET (Nodes \X Packages),
              injects : SUBSET (Nodes \X Packages),
              links : SUBSET (Nodes \X Packages),
              testInjects : SUBSET Packages,
              target : Packages \cup {NoPackage},
              augmented : BOOLEAN]

\* Go refuses import cycles; its test main always imports what it tests.
ASSUME LinkDepsAssumption ==
    /\ N \in Nat
    /\ NoPackage \notin Nodes
    /\ Worlds \subseteq WorldType
    /\ \A w \in Worlds :
        /\ \A e \in w.imports \cup w.injects : e[2] < e[1]
        /\ w.target \in Packages => <<Main, w.target>> \in w.imports
        /\ w.target = NoPackage => ~w.augmented

VARIABLES
    world,      \* what is being built; never changes
    stage,      \* what runs now, or how the build ended
    archive,    \* archive[a]: the contents of each archive that was compiled
    cmd,        \* the compile command that runs
    linker      \* the link command

ldvars == <<world, stage, archive, cmd, linker>>

Kinds == {"relocation", "import"}
Archives == [pkg : Nodes, test : BOOLEAN]
LinkDepsType == UNION {[D -> Kinds] : D \in SUBSET Packages}
PackageFile == UNION {[D -> Archives] : D \in SUBSET Nodes}

\* f, and v for x if there is nothing for x in it.
With(f, x, v) == [y \in DOMAIN f \cup {x} |-> IF y \in DOMAIN f THEN f[y] ELSE v]

-----------------------------------------------------------------------------
\* Go's packages
Imports(p) == {q \in Packages : <<p, q>> \in world.imports}
Links(p) == {q \in Packages : <<p, q>> \in world.links}
Injects(a) == {q \in Packages : <<a.pkg, q>> \in world.injects}
              \cup IF a.test /\ a.pkg = world.target
                   THEN world.testInjects ELSE {}

Testing == world.target # NoPackage

\* The nodes that walks along the pairs of next lead to, from those of base.
Reached(base, next) ==
    {p \in Nodes :
        \A S \in SUBSET Nodes :
            base \subseteq S /\ (\A e \in next : e[1] \in S => e[2] \in S) => p \in S}

\* p and the packages it imports, directly or not.
Closures ==
    [i \in {w.imports : w \in Worlds} |-> [p \in Nodes |-> Reached({p}, i)]]
Closure(p) == Closures[world.imports][p]

Ordinary(p) == [pkg |-> p, test |-> FALSE]
HasVariant(p) == world.augmented /\ world.target \in Closure(p)

\* The archive of p in the binary being built.
Version(p) == [pkg |-> p, test |-> HasVariant(p)]
MainArchive == Version(Main)

\* Archives in an order in which they can be compiled.
Buildable == {Ordinary(p) : p \in Packages} \cup {Version(p) : p \in Nodes}
Rank(a) == IF a.pkg = Main \/ a.test THEN Main + a.pkg ELSE a.pkg

-----------------------------------------------------------------------------
\* link.deps
NoDeps == << >>

\* Mutant: a kind that is there is kept, even if it is weaker.
AddAllFirst(l, ds) ==
    [d \in DOMAIN l \cup DOMAIN ds |-> IF d \in DOMAIN l THEN l[d] ELSE ds[d]]

\* LinkDeps.Add for each of ds: the strongest kind is kept.
AddAll(l, ds) ==
    [d \in DOMAIN l \cup DOMAIN ds |->
        IF \/ d \in DOMAIN l /\ l[d] = "import"
           \/ d \in DOMAIN ds /\ ds[d] = "import"
        THEN "import" ELSE "relocation"]

FromArchive(a) == archive[a].link

\* The entries of the archives in reg which reg does not satisfy.
FromImportConfig(reg) ==
    LET Having(d) == {q \in DOMAIN reg : d \in DOMAIN FromArchive(reg[q])}
    IN [d \in {e \in Packages \ DOMAIN reg : Having(e) # {}} |->
           IF \E q \in Having(d) : FromArchive(reg[q])[d] = "import"
           THEN "import" ELSE "relocation"]

-----------------------------------------------------------------------------
\* The answers of the job server
Response(p) == {Ordinary(q) : q \in Closure(p)}

\* Mutant: the answer names the package only, not what it imports.
ResponseWithoutDeps(p) == {Version(p)}

\* As built for the tests of the target, whose own archive is left out, except
\* when it is the target that is asked for.
ResponseForTest(p) ==
    IF p = world.target THEN {Version(p)} \cup Response(p)
    ELSE {Version(q) : q \in Closure(p) \ {world.target}}

\* Mutant: variants are turned down for relocation targets as well.
RejectsAnyVariant(kind, a) == a.test

\* The compiler's fingerprint of an imported package has to be that of the
\* variant, if there is one: no archive compiled with a synthetic import was.
RejectsVariant(kind, a) == kind = "import" /\ a.test
AsksProvenance(d, kind) == d = world.target /\ kind = "import"
RejectsSatisfied(d, kind) ==
    AsksProvenance(d, kind) /\ RejectsVariant(kind, Version(d))

\* mergeResolvedArchives: of what is there, only variants replace an archive.
MergeResolved(reg, resp) ==
    LET new == {a \in resp : a.pkg \notin DOMAIN reg \/ a.test}
    IN [p \in DOMAIN reg \cup {a.pkg : a \in new} |->
           IF \E a \in new : a.pkg = p
           THEN CHOOSE a \in new : a.pkg = p ELSE reg[p]]

MergeRefused(resp) == \E a \in resp : a.pkg = world.target

-----------------------------------------------------------------------------
(***************************************************************************)
(* A compile command: its import configuration (reg), the link.deps it is   *)
(* to attach (deps), the references that weaving added and OnCompile did    *)
(* not look at yet (refs), the archives of the last answer of the job       *)
(* server that it did not read yet (reading); for the main package, the     *)
(* dependencies that wait to be resolved (pending), the archives in all     *)
(* answers (processed), and what it will import (newDeps).                  *)
(***************************************************************************)
References(a) ==
    [d \in Injects(a) \cup Links(a.pkg) |->
        IF d \in Injects(a) THEN "import" ELSE "relocation"]

Natural(p) == [q \in Imports(p) |-> Version(q)]
NaturalOf(a) ==
    IF a.pkg # Main /\ ~a.test THEN [q \in Imports(a.pkg) |-> Ordinary(q)]
    ELSE Natural(a.pkg)

Idle == [of |-> MainArchive, reg |-> NoDeps, deps |-> NoDeps, refs |-> {},
         reading |-> {}, pending |-> NoDeps, processed |-> NoDeps,
         newDeps |-> {}]

NoLink == [reg |-> NoDeps, queue |-> {}, processed |-> {}, item |-> MainArchive,
           todo |-> {}]

LDInit ==
    /\ world \in Worlds
    /\ stage = "start"
    /\ archive = << >>
    /\ cmd = Idle
    /\ linker = NoLink

Compiled == DOMAIN archive

Fails(result) ==
    /\ stage' = result
    /\ UNCHANGED <<world, archive, cmd, linker>>

\* parseCompileCommand, for the next package that Go compiles.
StartCompile(a) ==
    /\ stage = "start"
    /\ a \in Buildable \ Compiled
    /\ \A b \in Buildable \ Compiled : Rank(a) <= Rank(b)
    /\ stage' = "weave"
    /\ cmd' = [Idle EXCEPT !.of = a, !.reg = NaturalOf(a),
                           !.deps = FromImportConfig(NaturalOf(a)),
                           !.refs = DOMAIN References(a)]
    /\ UNCHANGED <<world, archive, linker>>

-----------------------------------------------------------------------------
\* OnCompile, of any package.  It goes through maps, in an arbitrary order.
AtReference(d) == stage = "weave" /\ cmd.reading = {} /\ d \in cmd.refs

IsMain == cmd.of = MainArchive

Satisfied(d) ==
    /\ AtReference(d)
    /\ d \in DOMAIN cmd.reg
    /\ cmd' = [cmd EXCEPT !.refs = @ \ {d}]
    /\ UNCHANGED <<world, stage, archive, linker>>

\* A relocation target is only resolved when the whole program is known.
Synthetic(d) ==
    LET kind == References(cmd.of)[d] IN
    /\ AtReference(d)
    /\ d \notin DOMAIN cmd.reg
    /\ cmd' = [cmd EXCEPT
                  !.refs = @ \ {d},
                  !.deps = AddAll(@, [e \in {d} |-> kind]),
                  !.reading = IF kind = "relocation" /\ ~IsMain THEN {}
                              ELSE Response(d)]
    /\ UNCHANGED <<world, stage, archive, linker>>

ReferenceFails(d) ==
    /\ AtReference(d)
    /\ d \notin DOMAIN cmd.reg
    /\ References(cmd.of)[d] = "import" \/ IsMain
    /\ Fails("failed")

\* An archive of the answer: its link.deps, then the archive itself.
Provide(a) ==
    LET deps == FromArchive(a) IN
    /\ stage = "weave"
    /\ a \in cmd.reading
    /\ cmd' = [cmd EXCEPT
                  !.reading = @ \ {a},
                  !.deps = AddAll(@, Restrict(deps, DOMAIN deps \ DOMAIN cmd.reg)),
                  !.reg = With(@, a.pkg, a)]
    /\ UNCHANGED <<world, stage, archive, linker>>

Woven == stage = "weave" /\ cmd.refs = {} /\ cmd.reading = {}

\* What the compiler makes of it, and attachLinkDeps.
Output(imported) ==
    With(archive, cmd.of,
         [link |-> cmd.deps,
          against |-> Restrict(cmd.reg, imported \cap DOMAIN cmd.reg)])

Compile ==
    /\ Woven /\ ~IsMain
    /\ archive' = Output(Imports(cmd.of.pkg) \cup Injects(cmd.of))
    /\ stage' = "start"
    /\ cmd' = Idle
    /\ UNCHANGED <<world, linker>>

-----------------------------------------------------------------------------
\* OnCompileMain
InitialProvenance ==
    \E q \in DOMAIN cmd.reg : \E d \in DOMAIN FromArchive(cmd.reg[q]) :
        d \in DOMAIN cmd.reg /\ AsksProvenance(d, FromArchive(cmd.reg[q])[d])

InitialRejected == InitialProvenance /\ HasVariant(world.target)

StartMain ==
    /\ Woven /\ IsMain
    /\ ~InitialRejected
    /\ LET initial == FromImportConfig(cmd.reg)
       IN cmd' = [cmd EXCEPT !.pending = initial, !.newDeps = DOMAIN initial]
    /\ stage' = "main"
    /\ UNCHANGED <<world, archive, linker>>

StartMainRejects == Woven /\ IsMain /\ InitialRejected /\ Fails("rejected")

StartMainFails == Woven /\ IsMain /\ InitialProvenance /\ Fails("failed")

AtPending(d) == stage = "main" /\ cmd.reading = {} /\ d \in DOMAIN cmd.pending

\* The response is refused, or answers for the path are.
Refused(d, kind, resp) == RejectsVariant(kind, Version(d)) \/ MergeRefused(resp)

\* Variants replace ordinary archives among those processed, as in reg.
Resolve(d) ==
    LET resp == ResponseForTest(d) IN
    /\ AtPending(d)
    /\ ~Refused(d, cmd.pending[d], resp)
    /\ cmd' = [cmd EXCEPT !.pending = Restrict(@, DOMAIN @ \ {d}),
                          !.processed = MergeResolved(@, resp),
                          !.reg = MergeResolved(@, resp),
                          !.reading = resp]
    /\ UNCHANGED <<world, stage, archive, linker>>

ResolveRejects(d) ==
    /\ AtPending(d)
    /\ Refused(d, cmd.pending[d], ResponseForTest(d))
    /\ Fails("rejected")

ResolveFails(d) == AtPending(d) /\ Fails("failed")

\* Whether an entry of link.deps has been resolved before and is refused now.
Conflicts(d, kind) ==
    /\ d \notin DOMAIN cmd.pending
    /\ IF d \in DOMAIN cmd.processed THEN RejectsVariant(kind, cmd.processed[d])
       ELSE d \in DOMAIN cmd.reg /\ RejectsSatisfied(d, kind)

AnyConflict(a) == \E d \in DOMAIN FromArchive(a) : Conflicts(d, FromArchive(a)[d])

\* Mutant: what was discovered while resolving gets no blank import.
DiscoverUnimported(a) ==
    LET deps == FromArchive(a)
        new == DOMAIN deps \ (DOMAIN cmd.processed \cup DOMAIN cmd.reg)
        found == Restrict(deps, new \cup (DOMAIN deps \cap DOMAIN cmd.pending))
    IN
    /\ stage = "main"
    /\ a \in cmd.reading
    /\ ~AnyConflict(a)
    /\ cmd' = [cmd EXCEPT !.reading = @ \ {a},
                          !.pending = AddAll(@, found),
                          !.deps = AddAll(@, found)]
    /\ UNCHANGED <<world, stage, archive, linker>>

\* Mutant: what was resolved before is resolved again.
DiscoverAgain(a) ==
    LET deps == FromArchive(a)
        new == DOMAIN deps \ (DOMAIN cmd.reg \ DOMAIN cmd.processed)
        found == Restrict(deps, new \cup (DOMAIN deps \cap DOMAIN cmd.pending))
    IN
    /\ stage = "main"
    /\ a \in cmd.reading
    /\ ~AnyConflict(a)
    /\ cmd' = [cmd EXCEPT !.reading = @ \ {a},
                          !.pending = AddAll(@, found),
                          !.deps = AddAll(@, found),
                          !.newDeps = @ \cup new]
    /\ UNCHANGED <<world, stage, archive, linker>>

\* The link.deps of an archive of the answer.
Discover(a) ==
    LET deps == FromArchive(a)
        new == DOMAIN deps \ (DOMAIN cmd.processed \cup DOMAIN cmd.reg)
        found == Restrict(deps, new \cup (DOMAIN deps \cap DOMAIN cmd.pending))
    IN
    /\ stage = "main"
    /\ a \in cmd.reading
    /\ ~AnyConflict(a)
    /\ cmd' = [cmd EXCEPT !.reading = @ \ {a},
                          !.pending = AddAll(@, found),
                          !.deps = AddAll(@, found),
                          !.newDeps = @ \cup new]
    /\ UNCHANGED <<world, stage, archive, linker>>

DiscoverRejects(a) ==
    /\ stage = "main"
    /\ a \in cmd.reading
    /\ AnyConflict(a)
    /\ Fails("rejected")

DiscoverFails(a) ==
    /\ stage = "main"
    /\ a \in cmd.reading
    /\ \E d \in DOMAIN FromArchive(a) \ (DOMAIN cmd.pending \cup DOMAIN cmd.processed) :
        AsksProvenance(d, FromArchive(a)[d])
    /\ Fails("failed")

\* The main package is compiled with blank imports of all newDeps.
CompileMain ==
    /\ stage = "main" /\ cmd.reading = {} /\ DOMAIN cmd.pending = {}
    /\ archive' = Output(Imports(Main) \cup Injects(cmd.of) \cup cmd.newDeps)
    /\ stage' = "compiled"
    /\ cmd' = Idle
    /\ UNCHANGED <<world, linker>>

-----------------------------------------------------------------------------
\* OnLink.  Nothing is done for an archive without link.deps.
ToRead(archives) == {a \in archives : DOMAIN FromArchive(a) # {}}

\* Go tells the linker of the packages that it knows of, main included.
StartLink ==
    /\ stage = "compiled"
    /\ LET reg == [p \in Closure(Main) |-> Version(p)]
       IN linker' = [NoLink EXCEPT !.reg = reg, !.queue = ToRead(Range(reg))]
    /\ stage' = "link"
    /\ UNCHANGED <<world, archive, cmd>>

NextArchive(a) ==
    /\ stage = "link" /\ linker.todo = {}
    /\ a \in linker.queue
    /\ linker' = [linker EXCEPT !.queue = @ \ {a},
                                !.processed = @ \cup {a},
                                !.item = a,
                                !.todo = DOMAIN FromArchive(a)]
    /\ UNCHANGED <<world, stage, archive, cmd>>

AtDep(d) == stage = "link" /\ d \in linker.todo
KindOf(d) == FromArchive(linker.item)[d]

\* For a test binary, other packages are resolved although they are there.
LinkSatisfied(d) == d \in DOMAIN linker.reg /\ (~Testing \/ d = world.target)

LinkRefused(d) ==
    IF LinkSatisfied(d) THEN RejectsSatisfied(d, KindOf(d))
    ELSE Refused(d, KindOf(d), ResponseForTest(d))

SkipDep(d) ==
    /\ AtDep(d)
    /\ LinkSatisfied(d) /\ ~LinkRefused(d)
    /\ linker' = [linker EXCEPT !.todo = @ \ {d}]
    /\ UNCHANGED <<world, stage, archive, cmd>>

ResolveDep(d) ==
    LET reg == MergeResolved(linker.reg, ResponseForTest(d)) IN
    /\ AtDep(d)
    /\ ~LinkSatisfied(d) /\ ~LinkRefused(d)
    /\ linker' = [linker EXCEPT
                     !.todo = @ \ {d},
                     !.reg = reg,
                     !.queue = @ \cup (ToRead(Range(reg) \ Range(linker.reg))
                                      \ linker.processed)]
    /\ UNCHANGED <<world, stage, archive, cmd>>

DepRejects(d) == AtDep(d) /\ LinkRefused(d) /\ Fails("rejected")

DepFails(d) ==
    /\ AtDep(d)
    /\ LinkSatisfied(d) => AsksProvenance(d, KindOf(d))
    /\ Fails("failed")

\* The linker is given the configuration.
Link ==
    /\ stage = "link" /\ linker.todo = {} /\ linker.queue = {}
    /\ stage' = "linked"
    /\ UNCHANGED <<world, archive, cmd, linker>>

-----------------------------------------------------------------------------
OnCompile ==
    \/ \E a \in Buildable : StartCompile(a)
    \/ \E d \in cmd.refs : Satisfied(d) \/ Synthetic(d) \/ ReferenceFails(d)
    \/ \E a \in cmd.reading : Provide(a)
    \/ Compile

OnCompileMain ==
    \/ StartMain \/ StartMainRejects \/ StartMainFails
    \/ \E d \in DOMAIN cmd.pending : Resolve(d) \/ ResolveRejects(d) \/ ResolveFails(d)
    \/ \E a \in cmd.reading : Discover(a) \/ DiscoverRejects(a) \/ DiscoverFails(a)
    \/ CompileMain

OnLink ==
    \/ StartLink
    \/ \E a \in linker.queue : NextArchive(a)
    \/ \E d \in linker.todo :
           SkipDep(d) \/ ResolveDep(d) \/ DepRejects(d) \/ DepFails(d)
    \/ Link

LDNext == OnCompile \/ OnCompileMain \/ OnLink

LDSpec == LDInit /\ [][LDNext]_ldvars

\* Commands that can take a step do.
LDFairSpec == LDSpec /\ WF_ldvars(LDNext)

-----------------------------------------------------------------------------
LDTypeOK ==
    /\ world \in Worlds
    /\ stage \in {"start", "weave", "main", "compiled", "link", "linked",
                  "rejected", "failed"}
    /\ Compiled \subseteq Archives
    /\ \A a \in Compiled : /\ archive[a].link \in LinkDepsType
                           /\ archive[a].against \in PackageFile
    /\ cmd \in [of : Archives, reg : PackageFile, deps : LinkDepsType,
               refs : SUBSET Packages, reading : SUBSET Archives,
               pending : LinkDepsType, processed : PackageFile,
               newDeps : SUBSET Packages]
    /\ linker \in [reg : PackageFile, queue : SUBSET Archives,
                  processed : SUBSET Archives, item : Archives,
                  todo : SUBSET Packages]

\* The packages that the sources of a compiled archive import.
CompiledWith(a) == DOMAIN archive[a].against

\* What the linker loads: the main package and whatever loaded packages import.
Loads == {e \in Nodes \X Nodes : /\ e[1] \in DOMAIN linker.reg
                                 /\ e[2] \in CompiledWith(linker.reg[e[1]])}
Loaded == Reached({Main}, Loads)

\* A woven package is compiled with an archive of each package it imports, and
\* the linker is given an archive of each package that a loaded one imports,
\* however far from the main package it was injected.
LinkIsComplete ==
    /\ \A a \in Compiled : Imports(a.pkg) \cup Injects(a) \subseteq CompiledWith(a)
    /\ stage = "linked" => Loaded \subseteq DOMAIN linker.reg

\* The archives that are linked are those that their importers were compiled
\* with: no test variant takes the place of an archive with another fingerprint,
\* if weaving adds no relocation targets to a test main.
FingerprintsAgree ==
    stage = "linked" /\ (Testing => Links(Main) = {}) =>
        \A p \in Loaded : \A q \in CompiledWith(linker.reg[p]) :
            linker.reg[q] = archive[linker.reg[p]].against[q]

\* testvariants.go: of a synthetic dependency of which there is a test variant, "the
\* ordinary archive cannot be used because it expects a different package fingerprint".
AllFingerprintsAgree ==
    stage = "linked" =>
        \A p \in Loaded : \A q \in CompiledWith(linker.reg[p]) :
            linker.reg[q] = archive[linker.reg[p]].against[q]

\* The relocation targets of all packages are loaded by the linker, if weaving
\* adds none to the main package.
TargetsAreLoaded ==
    stage = "linked" /\ Links(Main) = {} =>
        \A p \in Loaded : Links(p) \subseteq Loaded

\* refmap.go: relocation targets "must be made available to the linker, and
\* must be referenced (directly or not) by the main package".
AllTargetsAreLoaded ==
    stage = "linked" => \A p \in Loaded : Links(p) \subseteq Loaded

\* A package of the binary and all its dependencies.
After(p) == Imports(p) \cup Injects(Version(p)) \cup Links(p)
NeededBy(p) == Reached({p}, {e \in Nodes \X Packages : e[2] \in After(e[1])})
Needed == NeededBy(Main)

\* A build is only rejected for test variants if one of the archives it needs
\* really was compiled with another archive than those it needs; except for what
\* weaving injects in a test main, which is compiled with variants if relocation
\* targets of others import them, and rejected all the same.
RejectionIsDue ==
    stage = "rejected" /\ Injects(MainArchive) = {} =>
        \E p \in Needed : /\ Version(p) \in Compiled
                          /\ \E q \in CompiledWith(Version(p)) :
                                archive[Version(p)].against[q] # Version(q)

\* Weaving ends, however dependencies refer to each other.
WeavingEnds == <>(stage \in {"linked", "rejected", "failed"})

-----------------------------------------------------------------------------
\* The inductive invariant behind LinkIsComplete and FingerprintsAgree.  Archives are
\* compiled in the order of their ranks, main last ...
OrderInv ==
    /\ Compiled \subseteq Buildable
    /\ stage \in {"weave", "main"} =>
           /\ cmd.of \in Buildable \ Compiled
           /\ \A b \in Buildable \ Compiled : Rank(cmd.of) <= Rank(b)
           /\ cmd.reading \cup Range(cmd.reg) \subseteq Compiled
    /\ stage = "main" => IsMain /\ cmd.refs = {}
    /\ stage \in {"compiled", "link", "linked"} => Buildable \subseteq Compiled

\* ... what a compile command provides is imported, or comes with what is imported or
\* recorded in link.deps ...
Provided(p, q, deps) == \E e \in Imports(p) \cup DOMAIN deps : q \in Closure(e)

\* ... and has the fingerprint of the binary, or comes with a recorded import ...
Sound(b, q, deps) ==
    \/ b = Version(q)
    \/ b = Ordinary(q) /\ \E d \in DOMAIN deps : deps[d] = "import" /\ q \in Closure(d)

InBinary(a) == a = Version(a.pkg) /\ (a = MainArchive /\ Testing => Links(Main) = {})

CommandInv ==
    LET a == cmd.of IN
    stage \in {"weave", "main"} =>
        /\ Imports(a.pkg) \subseteq DOMAIN cmd.reg
        /\ cmd.refs \subseteq Injects(a) \cup Links(a.pkg)
        /\ \A d \in Injects(a) \ (cmd.refs \cup DOMAIN cmd.reg) :
              stage = "weave" /\ \E b \in cmd.reading : b.pkg = d
        /\ \A q \in DOMAIN cmd.reg : Provided(a.pkg, q, cmd.deps)
        /\ \A b \in cmd.reading : Provided(a.pkg, b.pkg, cmd.deps)
        /\ InBinary(a) =>
              /\ \A q \in DOMAIN cmd.reg : Sound(cmd.reg[q], q, cmd.deps)
              /\ \A b \in cmd.reading : Sound(b, b.pkg, cmd.deps)
        /\ stage = "weave" =>
              \A q \in DOMAIN cmd.reg :
                 DOMAIN FromArchive(cmd.reg[q]) \subseteq DOMAIN cmd.deps \cup DOMAIN cmd.reg
        /\ DOMAIN cmd.pending \subseteq DOMAIN cmd.deps
        /\ cmd.newDeps \subseteq DOMAIN cmd.reg \cup DOMAIN cmd.pending

\* ... which therefore holds of archives ...
ArchiveInv ==
    \A a \in Compiled :
        /\ Imports(a.pkg) \cup Injects(a) \subseteq CompiledWith(a)
        /\ \A q \in CompiledWith(a) :
              /\ Provided(a.pkg, q, FromArchive(a))
              /\ InBinary(a) => Sound(archive[a].against[q], q, FromArchive(a))

\* ... and the linker is given all that is imported, and settles all that is recorded.
Settled(d, kind) ==
    /\ d \in DOMAIN linker.reg
    /\ Testing /\ kind = "import" => ~HasVariant(d)

LinkerInv ==
    /\ stage \in {"link", "linked"} =>
           /\ Closure(Main) \subseteq DOMAIN linker.reg
           /\ \A p \in DOMAIN linker.reg :
                 /\ linker.reg[p] = Version(p)
                 /\ Imports(p) \subseteq DOMAIN linker.reg
                 /\ \/ linker.reg[p] \in linker.queue \cup linker.processed
                    \/ DOMAIN FromArchive(linker.reg[p]) = {}
           /\ linker.queue \subseteq Compiled
           /\ \A a \in linker.processed : \A d \in DOMAIN FromArchive(a) :
                 Settled(d, FromArchive(a)[d]) \/ (a = linker.item /\ d \in linker.todo)
           /\ linker.todo # {} => linker.item \in Compiled
    /\ stage = "linked" => linker.queue = {} /\ linker.todo = {}

LDInv == LDTypeOK /\ OrderInv /\ CommandInv /\ ArchiveInv /\ LinkerInv

\* The strengthening behind TargetsAreLoaded.  What a compile command provides comes with
\* what will be imported, and what it does not record will be imported (unless weaving adds
\* relocation targets to the main package) ...
Behind(S) == UNION {Closure(e) : e \in S}

CommandTargets ==
    LET a == cmd.of
        behind == Behind(Imports(a.pkg) \cup Injects(a) \cup cmd.newDeps)
    IN
    stage \in {"weave", "main"} /\ (IsMain => Links(Main) = {}) =>
        /\ DOMAIN cmd.reg \subseteq behind
        /\ \A b \in cmd.reading : b.pkg \in behind
        /\ DOMAIN cmd.processed \subseteq DOMAIN cmd.reg
        /\ stage = "weave" =>
              /\ Links(a.pkg) \subseteq cmd.refs \cup DOMAIN cmd.deps \cup DOMAIN cmd.reg
              /\ cmd.newDeps = {}
        /\ stage = "main" =>
              /\ DOMAIN cmd.pending \subseteq cmd.newDeps
              /\ \A q \in DOMAIN cmd.reg :
                    \/ cmd.reg[q] \in cmd.reading
                    \/ DOMAIN FromArchive(cmd.reg[q]) \subseteq cmd.newDeps \cup DOMAIN cmd.reg

\* ... so that an archive hands on what is recorded in those that it imports, and the main
\* package has it all behind its imports.
Recorded(a) ==
    UNION {DOMAIN FromArchive(archive[a].against[q]) : q \in CompiledWith(a)}

ArchiveTargets ==
    \A a \in Compiled :
        /\ \A q \in CompiledWith(a) : archive[a].against[q] \in Compiled
        /\ a # MainArchive =>
              Links(a.pkg) \cup Recorded(a)
                \subseteq DOMAIN FromArchive(a) \cup Behind(CompiledWith(a))
        /\ a = MainArchive /\ Links(Main) = {} => Recorded(a) \subseteq Behind(CompiledWith(a))

TargetInv == CommandTargets /\ ArchiveTargets

\* The strengthening behind RejectionIsDue.  What is recorded as an import was injected into
\* some package that is needed and does not import it anyway ...
Injected(d, p) == \E q \in NeededBy(p) : d \in Injects(Version(q)) \ Imports(q)

Explained(deps, p) ==
    /\ DOMAIN deps \subseteq NeededBy(p)
    /\ \A d \in DOMAIN deps : deps[d] = "import" => Injected(d, p)

CommandReasons ==
    LET p == cmd.of.pkg IN
    stage \in {"weave", "main"} =>
        /\ Explained(cmd.deps, p) /\ Explained(cmd.pending, p)
        /\ DOMAIN cmd.pending \cap Imports(p) = {}
        /\ \A q \in DOMAIN cmd.reg : cmd.reg[q].pkg = q
        /\ \A q \in DOMAIN cmd.processed : cmd.processed[q] = Version(q)
        /\ stage = "weave" => /\ \A q \in DOMAIN cmd.reg \ Imports(p) : cmd.reg[q] = Ordinary(q)
                              /\ \A b \in cmd.reading : b = Ordinary(b.pkg)

\* ... and that package, if it is not the main one, was compiled with the ordinary archive
\* of it.
ArchiveReasons ==
    \A a \in Compiled :
        /\ Explained(FromArchive(a), a.pkg)
        /\ a # MainArchive =>
              \A q \in Injects(a) \ Imports(a.pkg) : archive[a].against[q] = Ordinary(q)

LinkerReasons ==
    stage = "link" =>
        /\ DOMAIN linker.reg \subseteq Needed
        /\ \A a \in linker.queue : a.pkg \in Needed
        /\ linker.todo # {} => /\ linker.item.pkg \in Needed
                               /\ linker.todo \subseteq DOMAIN FromArchive(linker.item)

ReasonInv == CommandReasons /\ ArchiveReasons /\ LinkerReasons /\ RejectionIsDue
=============================================================================

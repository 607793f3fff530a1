--------------------------- MODULE LinkDeps_proofs ---------------------------
(***************************************************************************)
(* Theorems about LinkDeps, for any number of packages and any worlds: all  *)
(* that is imported is provided to the compiler and to the linker, however  *)
(* it was injected, the archives that are linked have the fingerprints that *)
(* their importers were compiled against, relocation targets are linked,    *)
(* and a build is only rejected for archives that do not agree.             *)
(***************************************************************************)
EXTENDS LinkDeps, TLAPS

-----------------------------------------------------------------------------
\* Worlds and what packages import

LEMMA Numbers ==
  /\ N \in Nat /\ Main \in Nat /\ Main \in Nodes /\ Main \notin Packages /\ Packages \subseteq Nodes
  /\ Nodes \subseteq Nat /\ \A p \in Packages : p < Main
BY LinkDepsAssumption DEF Main, Nodes, Packages

LEMMA WorldFacts ==
  ASSUME world \in Worlds
  PROVE  /\ world.imports \subseteq Nodes \X Packages
         /\ \A p \in Nodes : Imports(p) \subseteq Packages /\ Links(p) \subseteq Packages
         /\ \A a : Injects(a) \subseteq Packages
         /\ \A p \in Nodes : \A q \in Imports(p) : q < p
         /\ \A a : ~ a.test => \A q \in Injects(a) : q < a.pkg
         /\ world.target \in Packages \cup {NoPackage} /\ (Testing => world.target \in Imports(Main))
         /\ ~ Testing => ~ world.augmented
<1>1. /\ world \in WorldType /\ \A e \in world.imports \cup world.injects : e[2] < e[1]
      /\ world.target \in Packages => <<Main, world.target>> \in world.imports
      /\ world.target = NoPackage => ~ world.augmented
  BY LinkDepsAssumption
<1>2. /\ world.imports \subseteq Nodes \X Packages /\ world.injects \subseteq Nodes \X Packages
      /\ world.links \subseteq Nodes \X Packages /\ world.testInjects \subseteq Packages
      /\ world.target \in Packages \cup {NoPackage}
  BY <1>1 DEF WorldType
<1>3. \A p \in Nodes : \A q \in Imports(p) : q < p
  BY <1>1 DEF Imports
<1>4. \A a : ~ a.test => \A q \in Injects(a) : q < a.pkg
  BY <1>1 DEF Injects
<1>5. \A a : Injects(a) \subseteq Packages
  BY <1>2 DEF Injects
<1> QED BY <1>1, <1>2, <1>3, <1>4, <1>5 DEF Imports, Links, Testing

LEMMA ReachedGrows ==
  ASSUME NEW base \in SUBSET Nodes, NEW next \in SUBSET (Nodes \X Nodes)
  PROVE  /\ base \subseteq Reached(base, next)
         /\ \A e \in next : e[1] \in Reached(base, next) => e[2] \in Reached(base, next)
BY DEF Reached

LEMMA ReachedIsLeast ==
  ASSUME NEW base, NEW next, NEW S \in SUBSET Nodes,
         base \subseteq S, \A e \in next : e[1] \in S => e[2] \in S
  PROVE  Reached(base, next) \subseteq S
BY DEF Reached

LEMMA ClosureIs ==
  ASSUME world \in Worlds, NEW p \in Nodes
  PROVE  Closure(p) = Reached({p}, world.imports)
<1>1. world.imports \in {w.imports : w \in Worlds}
  OBVIOUS
<1> QED BY <1>1 DEF Closure, Closures

LEMMA ClosureFacts ==
  ASSUME world \in Worlds, NEW p \in Nodes
  PROVE  /\ p \in Closure(p) /\ Closure(p) \subseteq Nodes
         /\ \A q \in Closure(p) : q <= p /\ Imports(q) \subseteq Closure(p) /\ Closure(q) \subseteq Closure(p)
         /\ p \in Packages => Closure(p) \subseteq Packages
<1>1. world.imports \in SUBSET (Nodes \X Nodes)
  BY WorldFacts, Numbers
<1>2. p \in Closure(p) /\ \A e \in world.imports : e[1] \in Closure(p) => e[2] \in Closure(p)
  <2>1. Closure(p) = Reached({p}, world.imports) /\ {p} \in SUBSET Nodes
    BY ClosureIs
  <2>2. /\ {p} \subseteq Reached({p}, world.imports)
        /\ \A e \in world.imports :
              e[1] \in Reached({p}, world.imports) => e[2] \in Reached({p}, world.imports)
    BY <1>1, <2>1, ReachedGrows
  <2> QED BY <2>1, <2>2
<1>3. Closure(p) \in SUBSET Nodes
  BY ClosureIs DEF Reached
<1>4. \A q \in Closure(p) : Imports(q) \subseteq Closure(p)
  BY <1>2 DEF Imports
<1>5. ASSUME NEW q \in Closure(p)
      PROVE  Closure(q) \subseteq Closure(p)
  <2>1. Reached({q}, world.imports) \subseteq Closure(p)
    BY <1>2, <1>3, <1>5, ReachedIsLeast
  <2> QED BY <1>3, <2>1, ClosureIs
<1>6. \A q \in Closure(p) : q <= p
  <2> DEFINE S == {q \in Nodes : q <= p}
  <2>1. S \in SUBSET Nodes /\ {p} \subseteq S
    BY Numbers
  <2>2. ASSUME NEW e \in world.imports, e[1] \in S
        PROVE  e[2] \in S
    <3>1. e[1] \in Nodes /\ e[2] \in Imports(e[1]) /\ e[2] \in Nodes
      BY <1>1, WorldFacts DEF Imports
    <3>2. e[2] < e[1] /\ e[1] <= p
      BY <2>2, <3>1, WorldFacts
    <3>3. e[1] \in Nat /\ e[2] \in Nat /\ p \in Nat
      BY <3>1, Numbers
    <3> QED BY <3>1, <3>2, <3>3
  <2> HIDE DEF S
  <2>3. Reached({p}, world.imports) \subseteq S
    BY <2>1, <2>2, ReachedIsLeast
  <2>4. Closure(p) \subseteq S
    BY <2>3, ClosureIs
  <2> QED BY <2>4 DEF S
<1>7. p \in Packages => Closure(p) \subseteq Packages
  BY <1>3, <1>6, Numbers, LinkDepsAssumption DEF Nodes, Main, Packages
<1> QED BY <1>2, <1>3, <1>4, <1>5, <1>6, <1>7

LEMMA VersionFacts ==
  ASSUME world \in Worlds, NEW p \in Nodes
  PROVE  /\ Version(p) \in Archives /\ Ordinary(p) \in Archives /\ Version(p) \in Buildable
         /\ Version(p).pkg = p /\ Ordinary(p).pkg = p /\ ~ Ordinary(p).test
         /\ Version(p).test = HasVariant(p) /\ HasVariant(p) \in BOOLEAN
         /\ ~ HasVariant(p) => Version(p) = Ordinary(p)
         /\ p \in Packages => Ordinary(p) \in Buildable
         /\ \A q \in Closure(p) : HasVariant(q) => HasVariant(p) /\ Testing
<1>1. HasVariant(p) \in BOOLEAN
  BY LinkDepsAssumption DEF HasVariant, WorldType
<1>2. \A q \in Closure(p) : HasVariant(q) => HasVariant(p) /\ Testing
  BY ClosureFacts, WorldFacts DEF HasVariant
<1> QED BY <1>1, <1>2 DEF Version, Ordinary, Archives, Buildable

LEMMA BuildableFacts ==
  ASSUME world \in Worlds, NEW a \in Buildable
  PROVE  /\ a \in Archives /\ a.pkg \in Nodes /\ a.test \in BOOLEAN /\ Rank(a) \in Nat
         /\ a = [pkg |-> a.pkg, test |-> a.test]
         /\ a = Version(a.pkg) \/ (a = Ordinary(a.pkg) /\ a.pkg \in Packages)
         /\ a.pkg = Main => a = MainArchive
         /\ Rank(a) <= Rank(MainArchive) /\ (a # MainArchive => Rank(a) < Rank(MainArchive))
<1>1. \/ a = Version(a.pkg) /\ a.pkg \in Nodes
      \/ a = Ordinary(a.pkg) /\ a.pkg \in Packages
  BY DEF Buildable, Version, Ordinary
<1>2. a \in Archives /\ a.pkg \in Nodes /\ a.test \in BOOLEAN /\ a = [pkg |-> a.pkg, test |-> a.test]
  BY <1>1, VersionFacts, Numbers DEF Archives
<1>3. a.pkg = Main => a = MainArchive
  BY <1>1, Numbers DEF MainArchive
<1>4. MainArchive.pkg = Main
  BY VersionFacts, Numbers DEF MainArchive
<1>5. Rank(MainArchive) = Main + Main
  BY <1>4 DEF Rank
<1>6. Rank(a) \in Nat /\ Rank(a) <= Main + a.pkg
  BY <1>2, Numbers DEF Rank
<1>7. a # MainArchive => a.pkg < Main
  BY <1>2, <1>3, Numbers DEF Nodes
<1> QED BY <1>1, <1>2, <1>3, <1>5, <1>6, <1>7, Numbers

-----------------------------------------------------------------------------
\* Operators on link.deps and import configurations

LEMMA LinkDepsMember ==
  ASSUME NEW D \in SUBSET Packages, NEW f \in [D -> Kinds]
  PROVE  f \in LinkDepsType
BY DEF LinkDepsType

LEMMA LinkDepsFacts ==
  ASSUME NEW f \in LinkDepsType
  PROVE  f \in [DOMAIN f -> Kinds] /\ DOMAIN f \in SUBSET Packages
BY DEF LinkDepsType

LEMMA FileMember ==
  ASSUME NEW D \in SUBSET Nodes, NEW f \in [D -> Archives]
  PROVE  f \in PackageFile
BY DEF PackageFile

LEMMA FileFacts ==
  ASSUME NEW f \in PackageFile
  PROVE  f \in [DOMAIN f -> Archives] /\ DOMAIN f \in SUBSET Nodes
BY DEF PackageFile

LEMMA NoDepsFacts ==
  NoDeps \in LinkDepsType /\ NoDeps \in PackageFile /\ DOMAIN NoDeps = {}
<1>1. NoDeps \in [{} -> Kinds] /\ NoDeps \in [{} -> Archives] /\ DOMAIN NoDeps = {}
  BY DEF NoDeps
<1> QED BY <1>1, LinkDepsMember, FileMember

LEMMA AddAllFacts ==
  ASSUME NEW l \in LinkDepsType, NEW ds \in LinkDepsType
  PROVE  /\ AddAll(l, ds) \in LinkDepsType
         /\ DOMAIN AddAll(l, ds) = DOMAIN l \cup DOMAIN ds
         /\ \A d \in DOMAIN l : l[d] = "import" => AddAll(l, ds)[d] = "import"
         /\ \A d \in DOMAIN ds : ds[d] = "import" => AddAll(l, ds)[d] = "import"
<1> DEFINE D == DOMAIN l \cup DOMAIN ds
<1>1. D \in SUBSET Packages
  BY LinkDepsFacts
<1>2. AddAll(l, ds) \in [D -> Kinds]
  BY DEF AddAll, Kinds
<1>3. AddAll(l, ds) \in LinkDepsType
  BY <1>1, <1>2, LinkDepsMember
<1> QED BY <1>3 DEF AddAll

LEMMA RestrictFacts ==
  ASSUME NEW l \in LinkDepsType, NEW S \in SUBSET DOMAIN l
  PROVE  /\ Restrict(l, S) \in LinkDepsType /\ DOMAIN Restrict(l, S) = S
         /\ \A d \in S : Restrict(l, S)[d] = l[d]
<1>1. Restrict(l, S) \in [S -> Kinds] /\ S \in SUBSET Packages
  BY LinkDepsFacts DEF Restrict
<1> QED BY <1>1, LinkDepsMember DEF Restrict

LEMMA SingleFacts ==
  ASSUME NEW d \in Packages, NEW kind \in Kinds
  PROVE  [e \in {d} |-> kind] \in LinkDepsType
<1>1. [e \in {d} |-> kind] \in [{d} -> Kinds] /\ {d} \in SUBSET Packages
  OBVIOUS
<1> QED BY <1>1, LinkDepsMember

LEMMA WithFacts ==
  ASSUME NEW reg \in PackageFile, NEW a \in Archives
  PROVE  /\ With(reg, a.pkg, a) \in PackageFile
         /\ DOMAIN With(reg, a.pkg, a) = DOMAIN reg \cup {a.pkg}
         /\ \A q \in DOMAIN reg : With(reg, a.pkg, a)[q] = reg[q]
         /\ a.pkg \notin DOMAIN reg => With(reg, a.pkg, a)[a.pkg] = a
<1>1. reg \in [DOMAIN reg -> Archives] /\ DOMAIN reg \in SUBSET Nodes /\ a.pkg \in Nodes
  BY FileFacts DEF Archives
<1>2. With(reg, a.pkg, a) \in [DOMAIN reg \cup {a.pkg} -> Archives]
  BY <1>1 DEF With
<1> QED BY <1>1, <1>2, FileMember DEF With

LEMMA MergeFacts ==
  ASSUME NEW reg \in PackageFile, NEW resp \in SUBSET Archives
  PROVE  /\ MergeResolved(reg, resp) \in PackageFile
         /\ DOMAIN MergeResolved(reg, resp) = DOMAIN reg \cup {a.pkg : a \in resp}
         /\ \A p \in DOMAIN MergeResolved(reg, resp) :
                \/ \E a \in resp : a.pkg = p /\ MergeResolved(reg, resp)[p] = a
                \/ p \in DOMAIN reg /\ MergeResolved(reg, resp)[p] = reg[p]
<1> DEFINE new == {a \in resp : a.pkg \notin DOMAIN reg \/ a.test}
           f == MergeResolved(reg, resp)
<1>1. DOMAIN f = DOMAIN reg \cup {a.pkg : a \in resp}
  BY DEF MergeResolved
<1>2. ASSUME NEW p \in DOMAIN f
      PROVE  \/ \E a \in resp : a.pkg = p /\ f[p] = a
             \/ p \in DOMAIN reg /\ f[p] = reg[p]
  <2>1. CASE \E a \in new : a.pkg = p
    <3>1. f[p] = CHOOSE a \in new : a.pkg = p
      BY <2>1 DEF MergeResolved
    <3> QED BY <2>1, <3>1
  <2>2. CASE ~ \E a \in new : a.pkg = p
    <3>1. f[p] = reg[p]
      BY <2>2 DEF MergeResolved
    <3> QED BY <1>1, <2>2, <3>1
  <2> QED BY <2>1, <2>2
<1>3. reg \in [DOMAIN reg -> Archives] /\ DOMAIN reg \in SUBSET Nodes
  BY FileFacts
<1>4. f \in [DOMAIN f -> Archives] /\ DOMAIN f \in SUBSET Nodes
  <2>1. \A p \in DOMAIN f : f[p] \in Archives
    BY <1>2, <1>3
  <2>2. f = [p \in DOMAIN f |-> f[p]]
    BY DEF MergeResolved
  <2>3. DOMAIN f \in SUBSET Nodes
    BY <1>1, <1>3 DEF Archives
  <2> QED BY <2>1, <2>2, <2>3
<1> QED BY <1>1, <1>2, <1>4, FileMember

\* What FromImportConfig returns, when the archives are compiled.
LEMMA FromImportConfigFacts ==
  ASSUME NEW reg \in PackageFile,
         \A q \in DOMAIN reg : reg[q] \in Compiled,
         \A a \in Compiled : archive[a].link \in LinkDepsType
  PROVE  /\ FromImportConfig(reg) \in LinkDepsType
         /\ \A q \in DOMAIN reg :
               DOMAIN FromArchive(reg[q]) \subseteq DOMAIN FromImportConfig(reg) \cup DOMAIN reg
         /\ \A d \in DOMAIN FromImportConfig(reg) :
               \E q \in DOMAIN reg : d \in DOMAIN FromArchive(reg[q])
<1> DEFINE Having(d) == {q \in DOMAIN reg : d \in DOMAIN FromArchive(reg[q])}
           D == {e \in Packages \ DOMAIN reg : Having(e) # {}}
<1>1. FromImportConfig(reg) \in [D -> Kinds] /\ D \in SUBSET Packages
  BY DEF FromImportConfig, Kinds
<1>2. FromImportConfig(reg) \in LinkDepsType
  BY <1>1, LinkDepsMember
<1>3. \A q \in DOMAIN reg : DOMAIN FromArchive(reg[q]) \subseteq Packages
  BY LinkDepsFacts DEF FromArchive
<1>4. DOMAIN FromImportConfig(reg) = D
  BY <1>1
<1> QED BY <1>2, <1>3, <1>4

\* What is resolved for the main package or the linker, unless it is refused.
LEMMA ResponseFacts ==
  ASSUME world \in Worlds, NEW d \in Packages, ~ MergeRefused(ResponseForTest(d))
  PROVE  /\ d # world.target
         /\ ResponseForTest(d) = {Version(q) : q \in Closure(d) \ {world.target}}
         /\ ResponseForTest(d) \in SUBSET Archives
         /\ {b.pkg : b \in ResponseForTest(d)} = Closure(d) \ {world.target}
         /\ \A b \in ResponseForTest(d) : b = Version(b.pkg) /\ b.pkg \in Closure(d)
<1>1. d \in Nodes /\ Closure(d) \subseteq Nodes
  BY Numbers, ClosureFacts
<1>2. d # world.target
  <2> SUFFICES ASSUME d = world.target PROVE FALSE
    OBVIOUS
  <2>1. Version(d) \in ResponseForTest(d) /\ Version(d).pkg = world.target
    BY <1>1, VersionFacts DEF ResponseForTest
  <2> QED BY <2>1 DEF MergeRefused
<1>3. ResponseForTest(d) = {Version(q) : q \in Closure(d) \ {world.target}}
  BY <1>2 DEF ResponseForTest
<1>4. \A q \in Closure(d) : Version(q) \in Archives /\ Version(q).pkg = q
  BY <1>1, VersionFacts
<1> QED BY <1>2, <1>3, <1>4

LEMMA ProvidedGrows ==
  ASSUME NEW deps \in LinkDepsType, NEW ds \in LinkDepsType, NEW p, NEW q, Provided(p, q, deps)
  PROVE  Provided(p, q, AddAll(deps, ds))
BY AddAllFacts DEF Provided

LEMMA SoundGrows ==
  ASSUME NEW deps \in LinkDepsType, NEW ds \in LinkDepsType, NEW b, NEW q, Sound(b, q, deps)
  PROVE  Sound(b, q, AddAll(deps, ds))
BY AddAllFacts DEF Sound

\* The import configuration that Go writes for the compiler.
LEMMA NaturalFacts ==
  ASSUME world \in Worlds, NEW a \in Buildable
  PROVE  /\ NaturalOf(a) \in PackageFile /\ DOMAIN NaturalOf(a) = Imports(a.pkg)
         /\ \A q \in Imports(a.pkg) :
               /\ NaturalOf(a)[q] \in Buildable /\ Rank(NaturalOf(a)[q]) < Rank(a)
               /\ a = Version(a.pkg) => NaturalOf(a)[q] = Version(q)
<1>1. /\ a.pkg \in Nodes /\ a.test \in BOOLEAN /\ a \in Archives /\ Imports(a.pkg) \subseteq Packages
      /\ \A q \in Imports(a.pkg) : q < a.pkg /\ q \in Nodes
  BY BuildableFacts, WorldFacts, Numbers
<1>2. ASSUME NEW q \in Imports(a.pkg)
      PROVE  /\ Ordinary(q) \in Buildable /\ Version(q) \in Buildable
             /\ Ordinary(q) \in Archives /\ Version(q) \in Archives
             /\ Rank(Ordinary(q)) = q /\ Rank(Version(q)) <= Main + q
    <2>1. q \in Packages /\ q \in Nodes /\ q # Main /\ q \in Nat /\ Main \in Nat
      BY <1>1, Numbers
    <2> QED BY <2>1, VersionFacts DEF Rank
<1>3. DOMAIN NaturalOf(a) = Imports(a.pkg)
  BY DEF NaturalOf, Natural
<1>4. CASE a.pkg # Main /\ ~ a.test
  <2>1. \A q \in Imports(a.pkg) : NaturalOf(a)[q] = Ordinary(q)
    BY <1>4 DEF NaturalOf
  <2>2. Rank(a) = a.pkg
    BY <1>4 DEF Rank
  <2>3. ASSUME NEW q \in Imports(a.pkg), a = Version(a.pkg)
        PROVE  NaturalOf(a)[q] = Version(q)
    <3>1. ~ HasVariant(a.pkg)
      BY <1>1, <1>4, <2>3, VersionFacts
    <3>2. q \in Closure(a.pkg)
      BY <1>1, ClosureFacts
    <3> QED BY <1>1, <2>1, <3>1, <3>2, VersionFacts
  <2>4. NaturalOf(a) \in [Imports(a.pkg) -> Archives]
    BY <1>2, <1>4 DEF NaturalOf
  <2>5. NaturalOf(a) \in PackageFile
    BY <1>1, <2>4, FileMember
  <2> QED BY <1>1, <1>2, <1>3, <2>1, <2>2, <2>3, <2>5
<1>5. CASE a.pkg = Main \/ a.test
  <2>1. \A q \in Imports(a.pkg) : NaturalOf(a)[q] = Version(q)
    BY <1>5 DEF NaturalOf, Natural
  <2>2. Rank(a) = Main + a.pkg
    BY <1>5 DEF Rank
  <2>3. NaturalOf(a) \in [Imports(a.pkg) -> Archives]
    BY <1>2, <1>5 DEF NaturalOf, Natural
  <2>4. NaturalOf(a) \in PackageFile
    BY <1>1, <2>3, FileMember
  <2>5. \A q \in Imports(a.pkg) : Rank(Version(q)) < Main + a.pkg
    <3>1. ASSUME NEW q \in Imports(a.pkg)
          PROVE  Rank(Version(q)) < Main + a.pkg
      <4>1. q < a.pkg /\ q \in Nat /\ a.pkg \in Nat /\ Main \in Nat
        BY <1>1, Numbers
      <4>2. Rank(Version(q)) \in Nat /\ Rank(Version(q)) <= Main + q
        BY <1>2, BuildableFacts
      <4> QED BY <4>1, <4>2
    <3> QED BY <3>1
  <2> QED BY <1>2, <1>3, <2>1, <2>2, <2>4, <2>5
<1> QED BY <1>1, <1>4, <1>5

-----------------------------------------------------------------------------
\* Frames: what the parts of the invariant say after a step of a compile command

LEMMA CommandInvNext ==
  ASSUME world' = world, archive' = archive,
         stage' \in {"weave", "main"} =>
           /\ Imports(cmd'.of.pkg) \subseteq DOMAIN cmd'.reg
           /\ cmd'.refs \subseteq Injects(cmd'.of) \cup Links(cmd'.of.pkg)
           /\ \A d \in Injects(cmd'.of) \ (cmd'.refs \cup DOMAIN cmd'.reg) :
                 stage' = "weave" /\ \E b \in cmd'.reading : b.pkg = d
           /\ \A q \in DOMAIN cmd'.reg : Provided(cmd'.of.pkg, q, cmd'.deps)
           /\ \A b \in cmd'.reading : Provided(cmd'.of.pkg, b.pkg, cmd'.deps)
           /\ InBinary(cmd'.of) =>
                 /\ \A q \in DOMAIN cmd'.reg : Sound(cmd'.reg[q], q, cmd'.deps)
                 /\ \A b \in cmd'.reading : Sound(b, b.pkg, cmd'.deps)
           /\ stage' = "weave" =>
                 \A q \in DOMAIN cmd'.reg :
                    DOMAIN FromArchive(cmd'.reg[q]) \subseteq DOMAIN cmd'.deps \cup DOMAIN cmd'.reg
           /\ DOMAIN cmd'.pending \subseteq DOMAIN cmd'.deps
           /\ cmd'.newDeps \subseteq DOMAIN cmd'.reg \cup DOMAIN cmd'.pending
  PROVE  CommandInv'
BY DEF CommandInv, Imports, Injects, Links, Provided, Sound, InBinary, Closure, Version, Ordinary,
       HasVariant, MainArchive, Testing, FromArchive

LEMMA OrderInvNext ==
  ASSUME world' = world, archive' = archive, OrderInv, stage' \notin {"compiled", "link", "linked"},
         stage' \in {"weave", "main"} =>
           /\ cmd'.of \in Buildable \ Compiled
           /\ \A b \in Buildable \ Compiled : Rank(cmd'.of) <= Rank(b)
           /\ cmd'.reading \cup Range(cmd'.reg) \subseteq Compiled,
         stage' = "main" => cmd'.of = MainArchive /\ cmd'.refs = {}
  PROVE  OrderInv'
BY DEF OrderInv, Compiled, Buildable, IsMain, MainArchive, Ordinary, Version, HasVariant, Closure, Rank

LEMMA ArchiveInvNext ==
  ASSUME world' = world, archive' = archive, ArchiveInv
  PROVE  ArchiveInv'
BY DEF ArchiveInv, Compiled, CompiledWith, Imports, Injects, Provided, InBinary, Links, Testing, Sound,
       Closure, Version, Ordinary, HasVariant, MainArchive, FromArchive

LEMMA LinkerInvNext ==
  ASSUME stage' \notin {"link", "linked"}
  PROVE  LinkerInv'
BY DEF LinkerInv

CommandType == [of : Archives, reg : PackageFile, deps : LinkDepsType,
                refs : SUBSET Packages, reading : SUBSET Archives,
                pending : LinkDepsType, processed : PackageFile,
                newDeps : SUBSET Packages]

LEMMA TypeNext ==
  ASSUME LDTypeOK, UNCHANGED <<world, archive, linker>>, stage' \in {"weave", "main", "start", "compiled"},
         cmd' \in CommandType
  PROVE  LDTypeOK'
BY DEF LDTypeOK, Compiled, CommandType

-----------------------------------------------------------------------------
\* The initial state, and the end of a build that fails

LEMMA InitInv == LDInit => LDInv
<1> SUFFICES ASSUME LDInit PROVE LDInv
  OBVIOUS
<1>1. MainArchive \in Archives
  BY VersionFacts, Numbers DEF LDInit, MainArchive
<1>2. DOMAIN archive = {}
  BY DEF LDInit
<1>3. LDTypeOK
  BY <1>1, <1>2, NoDepsFacts DEF LDInit, LDTypeOK, Compiled, Idle, NoLink
<1> QED BY <1>2, <1>3 DEF LDInit, LDInv, OrderInv, CommandInv, ArchiveInv, LinkerInv, Compiled

LEMMA FailsInv ==
  ASSUME LDInv, NEW result \in {"rejected", "failed"}, Fails(result)
  PROVE  LDInv'
<1> USE DEF LDInv, Fails
<1>1. LDTypeOK'
  BY DEF LDTypeOK, Compiled
<1>2. OrderInv'
  BY OrderInvNext
<1>3. CommandInv'
  BY CommandInvNext
<1> QED BY <1>1, <1>2, <1>3, ArchiveInvNext, LinkerInvNext

-----------------------------------------------------------------------------
\* The steps of OnCompile

LEMMA StartCompileInv ==
  ASSUME LDInv, NEW a \in Buildable, StartCompile(a)
  PROVE  LDInv'
<1> USE DEF LDInv
<1>1. /\ world \in Worlds /\ a.pkg \in Nodes /\ a \in Archives
      /\ Injects(a) \subseteq Packages /\ Links(a.pkg) \subseteq Packages
      /\ \A b \in Compiled : archive[b].link \in LinkDepsType
  BY BuildableFacts, WorldFacts DEF LDTypeOK
<1>2. /\ a \in Buildable \ Compiled /\ \A b \in Buildable \ Compiled : Rank(a) <= Rank(b)
      /\ stage' = "weave" /\ UNCHANGED <<world, archive, linker>>
      /\ cmd' = [Idle EXCEPT !.of = a, !.reg = NaturalOf(a), !.deps = FromImportConfig(NaturalOf(a)),
                             !.refs = DOMAIN References(a)]
  BY DEF StartCompile
<1>3. /\ NaturalOf(a) \in PackageFile /\ DOMAIN NaturalOf(a) = Imports(a.pkg)
      /\ \A q \in Imports(a.pkg) :
            /\ NaturalOf(a)[q] \in Buildable /\ Rank(NaturalOf(a)[q]) < Rank(a)
            /\ a = Version(a.pkg) => NaturalOf(a)[q] = Version(q)
  BY <1>1, NaturalFacts
<1>4. \A q \in DOMAIN NaturalOf(a) : NaturalOf(a)[q] \in Compiled
  <2> TAKE q \in DOMAIN NaturalOf(a)
  <2>1. /\ NaturalOf(a)[q] \in Buildable /\ Rank(NaturalOf(a)[q]) < Rank(a)
        /\ Rank(NaturalOf(a)[q]) \in Nat /\ Rank(a) \in Nat
    BY <1>1, <1>3, BuildableFacts
  <2> QED BY <1>2, <2>1
<1>5. /\ FromImportConfig(NaturalOf(a)) \in LinkDepsType
      /\ \A q \in DOMAIN NaturalOf(a) :
            DOMAIN FromArchive(NaturalOf(a)[q])
              \subseteq DOMAIN FromImportConfig(NaturalOf(a)) \cup DOMAIN NaturalOf(a)
  BY <1>1, <1>3, <1>4, FromImportConfigFacts
<1>6. DOMAIN References(a) = Injects(a) \cup Links(a.pkg)
  BY DEF References
<1>7. /\ cmd'.of = a /\ cmd'.reg = NaturalOf(a) /\ cmd'.deps = FromImportConfig(NaturalOf(a))
      /\ cmd'.refs = Injects(a) \cup Links(a.pkg) /\ cmd'.reading = {}
      /\ cmd'.pending = NoDeps /\ cmd'.newDeps = {}
  BY <1>2, <1>6 DEF Idle
<1>8. LDTypeOK'
  <2>1. cmd' \in CommandType
    BY <1>1, <1>2, <1>3, <1>5, <1>6, NoDepsFacts DEF Idle, CommandType
  <2> QED BY <1>2, <2>1, TypeNext
<1>9. OrderInv'
  <2>1. Range(cmd'.reg) \subseteq Compiled
    BY <1>4, <1>7 DEF Range
  <2> QED BY <1>2, <1>7, <2>1, OrderInvNext
<1>10. CommandInv'
  <2>1. \A q \in DOMAIN cmd'.reg : Provided(a.pkg, q, cmd'.deps)
    BY <1>1, <1>3, <1>7, WorldFacts, Numbers, ClosureFacts DEF Provided
  <2>2. InBinary(a) => \A q \in DOMAIN cmd'.reg : Sound(cmd'.reg[q], q, cmd'.deps)
    BY <1>3, <1>7 DEF InBinary, Sound
  <2> QED BY <1>2, <1>3, <1>5, <1>7, <2>1, <2>2, NoDepsFacts, CommandInvNext
<1> QED BY <1>2, <1>8, <1>9, <1>10, ArchiveInvNext, LinkerInvNext

LEMMA SatisfiedInv ==
  ASSUME LDInv, NEW d, Satisfied(d)
  PROVE  LDInv'
<1> USE DEF LDInv
<1>1. /\ stage = "weave" /\ stage' = "weave" /\ UNCHANGED <<world, archive, linker>>
      /\ d \in DOMAIN cmd.reg /\ cmd' = [cmd EXCEPT !.refs = @ \ {d}]
  BY DEF Satisfied, AtReference
<1>2. cmd \in CommandType
  BY DEF LDTypeOK, CommandType
<1>3. /\ cmd'.of = cmd.of /\ cmd'.reg = cmd.reg /\ cmd'.deps = cmd.deps /\ cmd'.refs = cmd.refs \ {d}
      /\ cmd'.reading = cmd.reading /\ cmd'.pending = cmd.pending /\ cmd'.newDeps = cmd.newDeps
      /\ cmd' \in CommandType
  BY <1>1, <1>2 DEF CommandType
<1>4. LDTypeOK'
  BY <1>1, <1>3, TypeNext
<1>5. OrderInv'
  BY <1>1, <1>3, OrderInvNext DEF OrderInv
<1>6. CommandInv'
  BY <1>1, <1>3, CommandInvNext DEF CommandInv
<1> QED BY <1>1, <1>4, <1>5, <1>6, ArchiveInvNext, LinkerInvNext

\* The archives of the answer to a synthetic dependency of an archive are compiled before it.
LEMMA ResponseIsCompiled ==
  ASSUME LDTypeOK, OrderInv, stage = "weave", NEW d \in Packages,
         d \in Injects(cmd.of) \/ cmd.of = MainArchive
  PROVE  Response(d) \subseteq Compiled
<1>1. /\ world \in Worlds /\ cmd.of \in Buildable /\ d \in Nodes
      /\ \A b \in Buildable \ Compiled : Rank(cmd.of) <= Rank(b)
  BY Numbers DEF LDTypeOK, OrderInv
<1>2. SUFFICES ASSUME NEW q \in Closure(d) PROVE Ordinary(q) \in Compiled
  BY DEF Response
<1>3. q \in Packages /\ q \in Nodes /\ q <= d /\ q \in Nat /\ d \in Nat /\ Main \in Nat /\ q # Main
  BY <1>1, ClosureFacts, Numbers
<1>4. Ordinary(q) \in Buildable /\ Rank(Ordinary(q)) = q
  BY <1>1, <1>3, VersionFacts DEF Rank
<1>5. q < Rank(cmd.of)
  <2>1. cmd.of.pkg \in Nat /\ d < Main
    BY <1>1, BuildableFacts, Numbers
  <2>2. CASE cmd.of.pkg = Main \/ cmd.of.test
    <3>1. Rank(cmd.of) = Main + cmd.of.pkg
      BY <2>2 DEF Rank
    <3> QED BY <1>3, <2>1, <3>1
  <2>3. CASE ~ (cmd.of.pkg = Main \/ cmd.of.test)
    <3>1. Rank(cmd.of) = cmd.of.pkg
      BY <2>3 DEF Rank
    <3>2. cmd.of # MainArchive
      BY <1>1, <2>3, VersionFacts, Numbers DEF MainArchive
    <3>3. d < cmd.of.pkg
      BY <1>1, <2>3, <3>2, WorldFacts
    <3> QED BY <1>3, <2>1, <3>1, <3>3
  <2> QED BY <2>2, <2>3
<1> QED BY <1>1, <1>3, <1>4, <1>5, BuildableFacts

LEMMA SyntheticInv ==
  ASSUME LDInv, NEW d \in cmd.refs, Synthetic(d)
  PROVE  LDInv'
<1> USE DEF LDInv
<1> DEFINE kind == References(cmd.of)[d]
           more == [e \in {d} |-> kind]
<1>1. /\ stage = "weave" /\ stage' = "weave" /\ UNCHANGED <<world, archive, linker>>
      /\ cmd.reading = {} /\ d \notin DOMAIN cmd.reg
      /\ cmd' = [cmd EXCEPT !.refs = @ \ {d}, !.deps = AddAll(@, [e \in {d} |-> kind]),
                            !.reading = IF kind = "relocation" /\ ~IsMain THEN {} ELSE Response(d)]
  BY DEF Synthetic, AtReference
<1>2. cmd \in CommandType /\ world \in Worlds
  BY DEF LDTypeOK, CommandType
<1>3. d \in Packages /\ d \in Injects(cmd.of) \cup Links(cmd.of.pkg) /\ cmd.of \in Buildable
  BY <1>1, <1>2 DEF CommandType, CommandInv, OrderInv
<1>4. kind \in Kinds /\ (kind = "import" <=> d \in Injects(cmd.of))
  BY <1>3 DEF References, Kinds
<1> HIDE DEF kind
<1>5. /\ cmd'.of = cmd.of /\ cmd'.reg = cmd.reg /\ cmd'.deps = AddAll(cmd.deps, more)
      /\ cmd'.refs = cmd.refs \ {d} /\ cmd'.pending = cmd.pending /\ cmd'.newDeps = cmd.newDeps
      /\ cmd'.reading = IF kind = "relocation" /\ ~IsMain THEN {} ELSE Response(d)
  BY <1>1, <1>2 DEF CommandType
<1>6. /\ more \in LinkDepsType /\ DOMAIN more = {d} /\ more[d] = kind
  BY <1>3, <1>4, SingleFacts
<1> HIDE DEF more
<1>7. /\ cmd'.deps \in LinkDepsType /\ DOMAIN cmd'.deps = DOMAIN cmd.deps \cup {d}
      /\ kind = "import" => cmd'.deps[d] = "import"
  BY <1>2, <1>5, <1>6, AddAllFacts DEF CommandType
<1>8. cmd'.reading \subseteq Response(d) /\ cmd'.reading \subseteq Compiled
  <2>1. cmd'.reading \subseteq Response(d)
    BY <1>5
  <2>2. CASE kind = "relocation" /\ ~IsMain
    BY <1>5, <2>2
  <2>3. CASE ~ (kind = "relocation" /\ ~IsMain)
    <3>1. d \in Injects(cmd.of) \/ cmd.of = MainArchive
      BY <1>4, <2>3 DEF Kinds, IsMain
    <3> QED BY <1>1, <1>3, <2>1, <3>1, ResponseIsCompiled
  <2> QED BY <2>1, <2>2, <2>3
<1>9. \A b \in Response(d) : b.pkg \in Closure(d) /\ b = Ordinary(b.pkg) /\ b.pkg \in Packages
  BY <1>2, <1>3, ClosureFacts, VersionFacts, Numbers DEF Response
<1>10. LDTypeOK'
  <2>1. cmd'.reading \in SUBSET Archives
    BY <1>8 DEF LDTypeOK
  <2>2. cmd' \in CommandType
    BY <1>1, <1>2, <1>5, <1>7, <2>1 DEF CommandType
  <2> QED BY <1>1, <2>2, TypeNext
<1>11. OrderInv'
  BY <1>1, <1>5, <1>8, OrderInvNext DEF OrderInv
<1>12. CommandInv'
  <2>1. \A q \in DOMAIN cmd'.reg : Provided(cmd'.of.pkg, q, cmd'.deps)
    BY <1>1, <1>2, <1>5, <1>6, ProvidedGrows DEF CommandInv, CommandType
  <2>2. \A b \in cmd'.reading : Provided(cmd'.of.pkg, b.pkg, cmd'.deps)
    BY <1>7, <1>8, <1>9 DEF Provided
  <2>3. InBinary(cmd'.of) => \A q \in DOMAIN cmd'.reg : Sound(cmd'.reg[q], q, cmd'.deps)
    BY <1>1, <1>2, <1>5, <1>6, SoundGrows DEF CommandInv, CommandType
  <2>4. ASSUME InBinary(cmd'.of), NEW b \in cmd'.reading
        PROVE  Sound(b, b.pkg, cmd'.deps)
    <3>1. b.pkg \in Closure(d) /\ b = Ordinary(b.pkg) /\ b.pkg \in Nodes
      BY <1>8, <1>9, Numbers
    <3>2. CASE kind = "import"
      BY <1>7, <3>1, <3>2 DEF Sound
    <3>3. CASE kind # "import"
      <4>1. kind = "relocation" /\ IsMain
        BY <1>4, <1>5, <3>3 DEF Kinds
      <4>2. cmd.of = MainArchive /\ d \in Links(Main)
        BY <1>2, <1>3, <1>4, <3>3, <4>1, VersionFacts, Numbers DEF IsMain, MainArchive
      <4>3. ~ Testing
        BY <1>5, <2>4, <4>2 DEF InBinary
      <4>4. b = Version(b.pkg)
        BY <1>2, <3>1, <4>3, VersionFacts, WorldFacts DEF HasVariant
      <4> QED BY <4>4 DEF Sound
    <3> QED BY <3>2, <3>3
  <2>5. ASSUME NEW e \in Injects(cmd'.of) \ (cmd'.refs \cup DOMAIN cmd'.reg)
        PROVE  \E b \in cmd'.reading : b.pkg = e
    <3>1. e = d
      BY <1>1, <1>5, <2>5 DEF CommandInv
    <3>2. kind = "import"
      BY <1>4, <1>5, <2>5, <3>1
    <3>3. Ordinary(d) \in cmd'.reading /\ Ordinary(d).pkg = d
      BY <1>2, <1>3, <1>5, <3>2, ClosureFacts, VersionFacts, Numbers DEF Response
    <3> QED BY <3>1, <3>3
  <2>6. \A q \in DOMAIN cmd'.reg :
            DOMAIN FromArchive(cmd'.reg[q]) \subseteq DOMAIN cmd'.deps \cup DOMAIN cmd'.reg
    BY <1>1, <1>5, <1>7 DEF CommandInv
  <2>7. /\ Imports(cmd'.of.pkg) \subseteq DOMAIN cmd'.reg
        /\ cmd'.refs \subseteq Injects(cmd'.of) \cup Links(cmd'.of.pkg)
        /\ DOMAIN cmd'.pending \subseteq DOMAIN cmd'.deps
        /\ cmd'.newDeps \subseteq DOMAIN cmd'.reg \cup DOMAIN cmd'.pending
    BY <1>1, <1>5, <1>7 DEF CommandInv
  <2> QED BY <1>1, <2>1, <2>2, <2>3, <2>4, <2>5, <2>6, <2>7, CommandInvNext
<1> QED BY <1>1, <1>10, <1>11, <1>12, ArchiveInvNext, LinkerInvNext

LEMMA ProvideInv ==
  ASSUME LDInv, NEW a \in cmd.reading, Provide(a)
  PROVE  LDInv'
<1> USE DEF LDInv
<1> DEFINE deps == FromArchive(a)
           more == Restrict(deps, DOMAIN deps \ DOMAIN cmd.reg)
<1>1. /\ stage = "weave" /\ stage' = "weave" /\ UNCHANGED <<world, archive, linker>>
      /\ cmd' = [cmd EXCEPT !.reading = @ \ {a}, !.deps = AddAll(@, more),
                            !.reg = With(@, a.pkg, a)]
  BY DEF Provide
<1>2. cmd \in CommandType /\ world \in Worlds /\ a \in Compiled /\ a \in Archives
  BY <1>1 DEF LDTypeOK, CommandType, OrderInv
<1>3. deps \in LinkDepsType /\ cmd.deps \in LinkDepsType /\ cmd.reg \in PackageFile
  BY <1>2 DEF LDTypeOK, FromArchive, CommandType
<1>4. more \in LinkDepsType /\ DOMAIN more = DOMAIN deps \ DOMAIN cmd.reg
  BY <1>3, RestrictFacts
<1> HIDE DEF more
<1>5. /\ cmd'.of = cmd.of /\ cmd'.reg = With(cmd.reg, a.pkg, a) /\ cmd'.deps = AddAll(cmd.deps, more)
      /\ cmd'.refs = cmd.refs /\ cmd'.pending = cmd.pending /\ cmd'.newDeps = cmd.newDeps
      /\ cmd'.reading = cmd.reading \ {a}
  BY <1>1, <1>2 DEF CommandType
<1>6. cmd'.deps \in LinkDepsType /\ DOMAIN cmd'.deps = DOMAIN cmd.deps \cup DOMAIN more
  BY <1>3, <1>4, <1>5, AddAllFacts
<1>7. /\ cmd'.reg \in PackageFile /\ DOMAIN cmd'.reg = DOMAIN cmd.reg \cup {a.pkg}
      /\ \A q \in DOMAIN cmd.reg : cmd'.reg[q] = cmd.reg[q]
      /\ a.pkg \notin DOMAIN cmd.reg => cmd'.reg[a.pkg] = a
  BY <1>2, <1>3, <1>5, WithFacts
<1>8. LDTypeOK'
  <2>1. cmd' \in CommandType
    BY <1>1, <1>2, <1>5, <1>6, <1>7 DEF CommandType
  <2> QED BY <1>1, <2>1, TypeNext
<1>9. OrderInv'
  <2>1. Range(cmd'.reg) \subseteq Compiled
    BY <1>1, <1>2, <1>7 DEF Range, OrderInv
  <2> QED BY <1>1, <1>5, <2>1, OrderInvNext DEF OrderInv
<1>10. CommandInv'
  <2>1. \A q : Provided(cmd.of.pkg, q, cmd.deps) => Provided(cmd.of.pkg, q, cmd'.deps)
    BY <1>3, <1>4, <1>5, ProvidedGrows
  <2>2. \A b, q : Sound(b, q, cmd.deps) => Sound(b, q, cmd'.deps)
    BY <1>3, <1>4, <1>5, SoundGrows
  <2>3. ASSUME NEW q \in DOMAIN cmd'.reg
        PROVE  /\ Provided(cmd'.of.pkg, q, cmd'.deps)
               /\ InBinary(cmd'.of) => Sound(cmd'.reg[q], q, cmd'.deps)
               /\ DOMAIN FromArchive(cmd'.reg[q]) \subseteq DOMAIN cmd'.deps \cup DOMAIN cmd'.reg
    <3>1. CASE q \in DOMAIN cmd.reg
      BY <1>1, <1>5, <1>6, <1>7, <2>1, <2>2, <3>1 DEF CommandInv
    <3>2. CASE q \notin DOMAIN cmd.reg
      <4>1. q = a.pkg /\ cmd'.reg[q] = a
        BY <1>7, <3>2
      <4>2. DOMAIN FromArchive(a) \subseteq DOMAIN cmd'.deps \cup DOMAIN cmd'.reg
        BY <1>4, <1>6, <1>7
      <4> QED BY <1>1, <1>5, <2>1, <2>2, <4>1, <4>2 DEF CommandInv
    <3> QED BY <3>1, <3>2
  <2>4. \A b \in cmd'.reading : /\ Provided(cmd'.of.pkg, b.pkg, cmd'.deps)
                                /\ InBinary(cmd'.of) => Sound(b, b.pkg, cmd'.deps)
    BY <1>1, <1>5, <2>1, <2>2 DEF CommandInv
  <2>5. \A d \in Injects(cmd'.of) \ (cmd'.refs \cup DOMAIN cmd'.reg) : \E b \in cmd'.reading : b.pkg = d
    BY <1>1, <1>5, <1>7 DEF CommandInv
  <2>6. /\ Imports(cmd'.of.pkg) \subseteq DOMAIN cmd'.reg
        /\ cmd'.refs \subseteq Injects(cmd'.of) \cup Links(cmd'.of.pkg)
        /\ DOMAIN cmd'.pending \subseteq DOMAIN cmd'.deps
        /\ cmd'.newDeps \subseteq DOMAIN cmd'.reg \cup DOMAIN cmd'.pending
    BY <1>1, <1>5, <1>6, <1>7 DEF CommandInv
  <2> QED BY <1>1, <2>3, <2>4, <2>5, <2>6, CommandInvNext
<1> QED BY <1>1, <1>8, <1>9, <1>10, ArchiveInvNext, LinkerInvNext

\* An archive is compiled, and the command ends.
LEMMA CompiledInv ==
  ASSUME LDInv, stage \in {"weave", "main"}, stage' \in {"start", "compiled"}, cmd.reading = {},
         cmd.refs = {}, stage' = "compiled" => cmd.of = MainArchive,
         NEW imported, Imports(cmd.of.pkg) \cup Injects(cmd.of) \subseteq imported,
         UNCHANGED <<world, linker>>, archive' = Output(imported), cmd' = Idle
  PROVE  LDInv'
<1> USE DEF LDInv
<1> DEFINE a == cmd.of
           made == [link |-> cmd.deps, against |-> Restrict(cmd.reg, imported \cap DOMAIN cmd.reg)]
<1>1. cmd \in CommandType /\ world \in Worlds /\ a \in Buildable \ Compiled /\ a \in Archives
  BY DEF LDTypeOK, CommandType, OrderInv
<1>2. /\ DOMAIN archive' = Compiled \cup {a} /\ archive'[a] = made
      /\ \A b \in Compiled : archive'[b] = archive[b]
  BY <1>1 DEF Output, With, Compiled
<1>3. /\ DOMAIN made.against = imported \cap DOMAIN cmd.reg
      /\ \A q \in DOMAIN made.against : made.against[q] = cmd.reg[q]
  BY DEF Restrict
<1>4. made.against \in PackageFile /\ made.link = cmd.deps /\ cmd.deps \in LinkDepsType
  <2>1. cmd.reg \in [DOMAIN cmd.reg -> Archives] /\ DOMAIN cmd.reg \in SUBSET Nodes
    BY <1>1, FileFacts DEF CommandType
  <2>2. made.against \in [imported \cap DOMAIN cmd.reg -> Archives]
    BY <2>1 DEF Restrict
  <2>3. imported \cap DOMAIN cmd.reg \in SUBSET Nodes
    BY <2>1
  <2> QED BY <1>1, <2>2, <2>3, FileMember DEF CommandType
<1> HIDE DEF made
<1>5. LDTypeOK'
  <2>1. Idle \in CommandType
    BY <1>1, VersionFacts, Numbers, NoDepsFacts DEF Idle, CommandType, MainArchive
  <2>2. \A b \in Compiled' : archive'[b].link \in LinkDepsType /\ archive'[b].against \in PackageFile
    BY <1>2, <1>4 DEF LDTypeOK, Compiled
  <2> QED BY <1>1, <1>2, <2>1, <2>2 DEF LDTypeOK, CommandType, Compiled
<1>6. OrderInv'
  <2>1. Buildable' = Buildable
    BY DEF Buildable, Ordinary, Version, HasVariant, Closure
  <2>2. Compiled' \subseteq Buildable
    BY <1>1, <1>2 DEF Compiled, OrderInv
  <2>3. ASSUME stage' = "compiled", NEW b \in Buildable
        PROVE  b \in Compiled'
    <3>1. b \notin Compiled => Rank(MainArchive) <= Rank(b)
      BY <2>3 DEF OrderInv
    <3>2. b # MainArchive => Rank(b) < Rank(MainArchive)
      BY <1>1, BuildableFacts
    <3>3. Rank(b) \in Nat /\ Rank(MainArchive) \in Nat
      BY <1>1, <2>3, BuildableFacts
    <3> QED BY <1>2, <2>3, <3>1, <3>2, <3>3 DEF Compiled
  <2> QED BY <2>1, <2>2, <2>3 DEF OrderInv
<1>7. CommandInv'
  BY DEF CommandInv
<1>8. ArchiveInv'
  <2> DEFINE Good(b, m) ==
               /\ Imports(b.pkg) \cup Injects(b) \subseteq DOMAIN m.against
               /\ \A q \in DOMAIN m.against :
                     /\ Provided(b.pkg, q, m.link)
                     /\ InBinary(b) => Sound(m.against[q], q, m.link)
  <2>1. \A b \in Compiled : Good(b, archive[b])
    BY DEF ArchiveInv, CompiledWith, FromArchive
  <2>2. Good(a, made)
    <3>1. Imports(a.pkg) \cup Injects(a) \subseteq DOMAIN made.against
      BY <1>3 DEF CommandInv
    <3>2. \A q \in DOMAIN cmd.reg : /\ Provided(a.pkg, q, cmd.deps)
                                    /\ InBinary(a) => Sound(cmd.reg[q], q, cmd.deps)
      BY DEF CommandInv
    <3> QED BY <1>3, <1>4, <3>1, <3>2
  <2> HIDE DEF Good
  <2>3. \A b \in DOMAIN archive' : Good(b, archive'[b])
    BY <1>2, <2>1, <2>2
  <2> QED BY <2>3 DEF Good, ArchiveInv, Compiled, CompiledWith, Imports, Injects, Provided, InBinary,
                      Links, Testing, Sound, Closure, Version, Ordinary, HasVariant, MainArchive, FromArchive
<1> QED BY <1>5, <1>6, <1>7, <1>8, LinkerInvNext

LEMMA CompileInv ==
  ASSUME LDInv, Compile
  PROVE  LDInv'
BY CompiledInv DEF Compile, Woven

-----------------------------------------------------------------------------
\* The steps of OnCompileMain

LEMMA StartMainInv ==
  ASSUME LDInv, StartMain
  PROVE  LDInv'
<1> USE DEF LDInv
<1> DEFINE initial == FromImportConfig(cmd.reg)
<1>1. /\ stage = "weave" /\ stage' = "main" /\ UNCHANGED <<world, archive, linker>>
      /\ cmd.reading = {} /\ cmd.refs = {} /\ IsMain
      /\ cmd' = [cmd EXCEPT !.pending = initial, !.newDeps = DOMAIN initial]
  BY DEF StartMain, Woven
<1>2. /\ cmd \in CommandType /\ cmd.reg \in PackageFile
      /\ \A a \in Compiled : archive[a].link \in LinkDepsType
  BY DEF LDTypeOK, CommandType
<1>3. \A q \in DOMAIN cmd.reg : cmd.reg[q] \in Compiled
  BY <1>1 DEF OrderInv, Range
<1>4. /\ initial \in LinkDepsType /\ DOMAIN initial \subseteq Packages
      /\ \A d \in DOMAIN initial :
            d \notin DOMAIN cmd.reg /\ \E q \in DOMAIN cmd.reg : d \in DOMAIN FromArchive(cmd.reg[q])
  <2>1. initial \in LinkDepsType
    BY <1>2, <1>3, FromImportConfigFacts
  <2> QED BY <2>1, LinkDepsFacts DEF FromImportConfig
<1> HIDE DEF initial
<1>5. /\ cmd'.of = cmd.of /\ cmd'.reg = cmd.reg /\ cmd'.deps = cmd.deps /\ cmd'.refs = {}
      /\ cmd'.pending = initial /\ cmd'.newDeps = DOMAIN initial /\ cmd'.reading = {}
      /\ cmd' \in CommandType
  BY <1>1, <1>2, <1>4 DEF CommandType
<1>6. DOMAIN initial \subseteq DOMAIN cmd.deps
  BY <1>1, <1>4 DEF CommandInv
<1>7. LDTypeOK'
  BY <1>1, <1>5, TypeNext
<1>8. OrderInv'
  BY <1>1, <1>5, OrderInvNext DEF OrderInv, IsMain
<1>9. CommandInv'
  BY <1>1, <1>5, <1>6, CommandInvNext DEF CommandInv
<1> QED BY <1>1, <1>7, <1>8, <1>9, ArchiveInvNext, LinkerInvNext

LEMMA ResolveInv ==
  ASSUME LDInv, NEW d \in DOMAIN cmd.pending, Resolve(d)
  PROVE  LDInv'
<1> USE DEF LDInv
<1> DEFINE resp == ResponseForTest(d)
           rest == Restrict(cmd.pending, DOMAIN cmd.pending \ {d})
<1>1. /\ stage = "main" /\ stage' = "main" /\ UNCHANGED <<world, archive, linker>>
      /\ cmd.reading = {} /\ ~ MergeRefused(resp)
      /\ cmd' = [cmd EXCEPT !.pending = rest, !.processed = MergeResolved(@, resp),
                            !.reg = MergeResolved(@, resp), !.reading = resp]
  BY DEF Resolve, AtPending, Refused
<1>2. /\ cmd \in CommandType /\ world \in Worlds /\ cmd.of = MainArchive
      /\ cmd.pending \in LinkDepsType /\ cmd.reg \in PackageFile /\ cmd.processed \in PackageFile
  BY <1>1 DEF LDTypeOK, CommandType, OrderInv, IsMain
<1>3. d \in Packages /\ d \in DOMAIN cmd.deps
  BY <1>1, <1>2, LinkDepsFacts DEF CommandInv
<1>4. /\ d # world.target /\ resp = {Version(q) : q \in Closure(d) \ {world.target}}
      /\ resp \in SUBSET Archives /\ {b.pkg : b \in resp} = Closure(d) \ {world.target}
      /\ \A b \in resp : b = Version(b.pkg) /\ b.pkg \in Closure(d)
  BY <1>1, <1>2, <1>3, ResponseFacts
<1>5. d \in Closure(d) /\ Closure(d) \subseteq Packages
  BY <1>2, <1>3, Numbers, ClosureFacts
<1>6. resp \subseteq Compiled
  <2> SUFFICES ASSUME NEW b \in resp PROVE b \in Compiled
    OBVIOUS
  <2>1. b = Version(b.pkg) /\ b.pkg \in Nodes /\ b.pkg # Main
    BY <1>4, <1>5, Numbers
  <2>2. b \in Buildable /\ b # MainArchive
    BY <1>2, <2>1, VersionFacts, Numbers DEF MainArchive
  <2>3. Rank(b) < Rank(MainArchive) /\ Rank(b) \in Nat /\ Rank(MainArchive) \in Nat
    BY <1>2, <2>2, VersionFacts, Numbers, BuildableFacts DEF MainArchive
  <2> QED BY <1>1, <1>2, <2>2, <2>3 DEF OrderInv
<1> HIDE DEF resp
<1>7. rest \in LinkDepsType /\ DOMAIN rest = DOMAIN cmd.pending \ {d}
  BY <1>2, RestrictFacts
<1> HIDE DEF rest
<1>8. /\ cmd'.of = cmd.of /\ cmd'.reg = MergeResolved(cmd.reg, resp) /\ cmd'.deps = cmd.deps
      /\ cmd'.refs = cmd.refs /\ cmd'.pending = rest /\ cmd'.newDeps = cmd.newDeps
      /\ cmd'.reading = resp /\ cmd'.processed = MergeResolved(cmd.processed, resp)
  BY <1>1, <1>2 DEF CommandType
<1>9. /\ cmd'.reg \in PackageFile
      /\ DOMAIN cmd'.reg = DOMAIN cmd.reg \cup (Closure(d) \ {world.target})
      /\ \A p \in DOMAIN cmd'.reg : \/ cmd'.reg[p] \in resp /\ cmd'.reg[p].pkg = p
                                    \/ p \in DOMAIN cmd.reg /\ cmd'.reg[p] = cmd.reg[p]
  <2> DEFINE f == MergeResolved(cmd.reg, resp)
  <2>1. /\ f \in PackageFile /\ DOMAIN f = DOMAIN cmd.reg \cup {b.pkg : b \in resp}
        /\ \A p \in DOMAIN f : \/ \E b \in resp : b.pkg = p /\ f[p] = b
                               \/ p \in DOMAIN cmd.reg /\ f[p] = cmd.reg[p]
    BY <1>2, <1>4, MergeFacts
  <2> HIDE DEF f
  <2>2. cmd'.reg = f
    BY <1>8 DEF f
  <2>3. \A p \in DOMAIN f : \/ f[p] \in resp /\ f[p].pkg = p
                            \/ p \in DOMAIN cmd.reg /\ f[p] = cmd.reg[p]
    BY <2>1
  <2> QED BY <1>4, <2>1, <2>2, <2>3
<1>10. cmd'.processed \in PackageFile
  BY <1>2, <1>4, <1>8, MergeFacts
<1>11. LDTypeOK'
  <2>1. cmd' \in CommandType
    BY <1>1, <1>2, <1>4, <1>7, <1>8, <1>9, <1>10 DEF CommandType
  <2> QED BY <1>1, <2>1, TypeNext
<1>12. OrderInv'
  <2>1. Range(cmd'.reg) \subseteq Compiled
    BY <1>1, <1>6, <1>9 DEF Range, OrderInv
  <2> QED BY <1>1, <1>2, <1>6, <1>8, <2>1, OrderInvNext DEF OrderInv
<1>13. CommandInv'
  <2>1. \A b \in resp : Provided(cmd.of.pkg, b.pkg, cmd.deps) /\ Sound(b, b.pkg, cmd.deps)
    BY <1>3, <1>4 DEF Provided, Sound
  <2>2. \A q \in DOMAIN cmd'.reg : /\ Provided(cmd.of.pkg, q, cmd.deps)
                                   /\ InBinary(cmd.of) => Sound(cmd'.reg[q], q, cmd.deps)
    BY <1>1, <1>9, <2>1 DEF CommandInv
  <2>3. /\ Imports(cmd.of.pkg) \subseteq DOMAIN cmd'.reg
        /\ Injects(cmd.of) \ cmd.refs \subseteq DOMAIN cmd'.reg
        /\ cmd.refs \subseteq Injects(cmd.of) \cup Links(cmd.of.pkg)
    BY <1>1, <1>9 DEF CommandInv
  <2>4. /\ DOMAIN rest \subseteq DOMAIN cmd.deps
        /\ cmd.newDeps \subseteq DOMAIN cmd'.reg \cup DOMAIN rest
    BY <1>1, <1>4, <1>5, <1>7, <1>9 DEF CommandInv
  <2> QED BY <1>1, <1>8, <2>1, <2>2, <2>3, <2>4, CommandInvNext
<1> QED BY <1>1, <1>11, <1>12, <1>13, ArchiveInvNext, LinkerInvNext

LEMMA DiscoverInv ==
  ASSUME LDInv, NEW a \in cmd.reading, Discover(a)
  PROVE  LDInv'
<1> USE DEF LDInv
<1> DEFINE deps == FromArchive(a)
           new == DOMAIN deps \ (DOMAIN cmd.processed \cup DOMAIN cmd.reg)
           found == Restrict(deps, new \cup (DOMAIN deps \cap DOMAIN cmd.pending))
<1>1. /\ stage = "main" /\ stage' = "main" /\ UNCHANGED <<world, archive, linker>>
      /\ cmd' = [cmd EXCEPT !.reading = @ \ {a}, !.pending = AddAll(@, found),
                            !.deps = AddAll(@, found), !.newDeps = @ \cup new]
  BY DEF Discover
<1>2. /\ cmd \in CommandType /\ cmd.deps \in LinkDepsType /\ cmd.pending \in LinkDepsType
      /\ a \in Compiled /\ cmd.of = MainArchive /\ cmd.refs = {}
  BY <1>1 DEF LDTypeOK, CommandType, OrderInv, IsMain
<1>3. deps \in LinkDepsType /\ DOMAIN deps \subseteq Packages
  BY <1>2, LinkDepsFacts DEF LDTypeOK, FromArchive
<1>4. found \in LinkDepsType /\ DOMAIN found = new \cup (DOMAIN deps \cap DOMAIN cmd.pending)
  BY <1>3, RestrictFacts
<1>5. new \subseteq Packages /\ new \subseteq DOMAIN found
  BY <1>3, <1>4
<1> HIDE DEF new, found
<1>6. /\ cmd'.of = cmd.of /\ cmd'.reg = cmd.reg /\ cmd'.deps = AddAll(cmd.deps, found)
      /\ cmd'.refs = cmd.refs /\ cmd'.pending = AddAll(cmd.pending, found)
      /\ cmd'.newDeps = cmd.newDeps \cup new /\ cmd'.reading = cmd.reading \ {a}
      /\ cmd'.processed = cmd.processed
  BY <1>1, <1>2 DEF CommandType
<1>7. /\ cmd'.deps \in LinkDepsType /\ DOMAIN cmd'.deps = DOMAIN cmd.deps \cup DOMAIN found
      /\ cmd'.pending \in LinkDepsType /\ DOMAIN cmd'.pending = DOMAIN cmd.pending \cup DOMAIN found
  BY <1>2, <1>4, <1>6, AddAllFacts
<1>8. LDTypeOK'
  <2>1. cmd' \in CommandType
    BY <1>1, <1>2, <1>5, <1>6, <1>7 DEF CommandType
  <2> QED BY <1>1, <2>1, TypeNext
<1>9. OrderInv'
  BY <1>1, <1>2, <1>6, OrderInvNext DEF OrderInv
<1>10. CommandInv'
  <2>1. \A q : Provided(cmd.of.pkg, q, cmd.deps) => Provided(cmd.of.pkg, q, cmd'.deps)
    BY <1>2, <1>4, <1>6, ProvidedGrows
  <2>2. \A b, q : Sound(b, q, cmd.deps) => Sound(b, q, cmd'.deps)
    BY <1>2, <1>4, <1>6, SoundGrows
  <2>3. /\ \A q \in DOMAIN cmd'.reg : Provided(cmd'.of.pkg, q, cmd'.deps)
        /\ \A b \in cmd'.reading : Provided(cmd'.of.pkg, b.pkg, cmd'.deps)
        /\ InBinary(cmd'.of) =>
              /\ \A q \in DOMAIN cmd'.reg : Sound(cmd'.reg[q], q, cmd'.deps)
              /\ \A b \in cmd'.reading : Sound(b, b.pkg, cmd'.deps)
    BY <1>1, <1>6, <2>1, <2>2 DEF CommandInv
  <2>4. /\ Imports(cmd'.of.pkg) \subseteq DOMAIN cmd'.reg
        /\ cmd'.refs \subseteq Injects(cmd'.of) \cup Links(cmd'.of.pkg)
        /\ Injects(cmd'.of) \subseteq cmd'.refs \cup DOMAIN cmd'.reg
    BY <1>1, <1>6 DEF CommandInv
  <2>5. /\ DOMAIN cmd'.pending \subseteq DOMAIN cmd'.deps
        /\ cmd'.newDeps \subseteq DOMAIN cmd'.reg \cup DOMAIN cmd'.pending
    BY <1>1, <1>5, <1>6, <1>7 DEF CommandInv
  <2> QED BY <1>1, <2>3, <2>4, <2>5, CommandInvNext
<1> QED BY <1>1, <1>8, <1>9, <1>10, ArchiveInvNext, LinkerInvNext

LEMMA CompileMainInv ==
  ASSUME LDInv, CompileMain
  PROVE  LDInv'
<1> DEFINE imported == Imports(Main) \cup Injects(cmd.of) \cup cmd.newDeps
<1>1. /\ stage = "main" /\ cmd.reading = {} /\ archive' = Output(imported) /\ stage' = "compiled"
      /\ cmd' = Idle /\ UNCHANGED <<world, linker>>
  BY DEF CompileMain
<1>2. cmd.of = MainArchive /\ cmd.refs = {} /\ world \in Worlds
  BY <1>1 DEF LDInv, LDTypeOK, OrderInv, IsMain
<1>3. cmd.of.pkg = Main
  BY <1>2, VersionFacts, Numbers DEF MainArchive
<1>4. Imports(cmd.of.pkg) \cup Injects(cmd.of) \subseteq imported
  BY <1>3
<1> HIDE DEF imported
<1> QED BY <1>1, <1>2, <1>4, CompiledInv

-----------------------------------------------------------------------------
\* The steps of OnLink

LinkerType == [reg : PackageFile, queue : SUBSET Archives, processed : SUBSET Archives,
               item : Archives, todo : SUBSET Packages]

LEMMA LinkerTypeNext ==
  ASSUME LDTypeOK, UNCHANGED <<world, archive, cmd>>, stage' \in {"link", "linked"},
         linker' \in LinkerType
  PROVE  LDTypeOK'
BY DEF LDTypeOK, Compiled, LinkerType

\* The build does not change when the linker runs.
LEMMA LinkOrderNext ==
  ASSUME LDInv, stage \in {"compiled", "link", "linked"},
         UNCHANGED <<world, archive, cmd>>, stage' \in {"link", "linked"}
  PROVE  OrderInv' /\ CommandInv' /\ ArchiveInv'
<1>1. OrderInv' /\ CommandInv'
  BY DEF LDInv, OrderInv, CommandInv, Compiled, Buildable, Ordinary, Version, HasVariant, Closure
<1>2. ArchiveInv'
  BY ArchiveInvNext DEF LDInv
<1> QED BY <1>1, <1>2

LEMMA LinkerInvIs ==
  ASSUME world' = world, archive' = archive, stage' \in {"link", "linked"},
         /\ Closure(Main) \subseteq DOMAIN linker'.reg
         /\ \A p \in DOMAIN linker'.reg :
               /\ linker'.reg[p] = Version(p)
               /\ Imports(p) \subseteq DOMAIN linker'.reg
               /\ \/ linker'.reg[p] \in linker'.queue \cup linker'.processed
                  \/ DOMAIN FromArchive(linker'.reg[p]) = {}
         /\ linker'.queue \subseteq Compiled
         /\ \A a \in linker'.processed : \A d \in DOMAIN FromArchive(a) :
               \/ /\ d \in DOMAIN linker'.reg
                  /\ Testing /\ FromArchive(a)[d] = "import" => ~ HasVariant(d)
               \/ a = linker'.item /\ d \in linker'.todo
         /\ linker'.todo # {} => linker'.item \in Compiled,
         stage' = "linked" => linker'.queue = {} /\ linker'.todo = {}
  PROVE  LinkerInv'
BY DEF LinkerInv, Closure, Version, Imports, FromArchive, Settled, Testing, HasVariant, Compiled

\* All that the linker reads was compiled.
LEMMA VersionsAreCompiled ==
  ASSUME LDInv, stage \in {"compiled", "link"}, NEW p \in Nodes
  PROVE  Version(p) \in Compiled /\ Version(p) \in Archives
<1>1. world \in Worlds /\ Compiled \subseteq Archives
  BY DEF LDInv, LDTypeOK
<1> QED BY <1>1, VersionFacts DEF LDInv, OrderInv

LEMMA StartLinkInv ==
  ASSUME LDInv, StartLink
  PROVE  LDInv'
<1> DEFINE reg == [p \in Closure(Main) |-> Version(p)]
<1>1. /\ stage = "compiled" /\ stage' = "link" /\ UNCHANGED <<world, archive, cmd>>
      /\ linker' = [NoLink EXCEPT !.reg = reg, !.queue = ToRead(Range(reg))]
  BY DEF StartLink
<1>2. world \in Worlds /\ Closure(Main) \in SUBSET Nodes /\ MainArchive \in Archives
  BY ClosureFacts, VersionFacts, Numbers DEF LDInv, LDTypeOK, MainArchive
<1>3. \A p \in Closure(Main) : Version(p) \in Compiled /\ Version(p) \in Archives
  BY <1>1, <1>2, VersionsAreCompiled
<1>4. reg \in PackageFile
  <2>1. reg \in [Closure(Main) -> Archives]
    BY <1>3
  <2> QED BY <1>2, <2>1, FileMember
<1>5. Range(reg) = {Version(p) : p \in Closure(Main)}
  BY DEF Range
<1>6. /\ linker'.reg = reg /\ linker'.queue = ToRead({Version(p) : p \in Closure(Main)})
      /\ linker'.processed = {} /\ linker'.todo = {} /\ linker'.item = MainArchive
  BY <1>1, <1>5 DEF NoLink
<1>7. linker'.queue \subseteq Compiled /\ linker'.queue \subseteq Archives
  BY <1>3, <1>6 DEF ToRead
<1>8. LDTypeOK'
  <2>1. linker' \in LinkerType
    BY <1>1, <1>2, <1>4, <1>5, <1>6, <1>7 DEF NoLink, LinkerType
  <2> QED BY <1>1, <2>1, LinkerTypeNext DEF LDInv
<1>9. LinkerInv'
  <2>1. \A p \in Closure(Main) : Imports(p) \subseteq Closure(Main)
    BY <1>2, ClosureFacts, Numbers
  <2>2. DOMAIN linker'.reg = Closure(Main) /\ \A p \in Closure(Main) : linker'.reg[p] = Version(p)
    BY <1>6
  <2>3. \A p \in Closure(Main) :
            Version(p) \in linker'.queue \/ DOMAIN FromArchive(Version(p)) = {}
    BY <1>6 DEF ToRead
  <2> HIDE DEF reg
  <2> QED BY <1>1, <1>6, <1>7, <2>1, <2>2, <2>3, LinkerInvIs
<1> QED BY <1>1, <1>8, <1>9, LinkOrderNext DEF LDInv

LEMMA NextArchiveInv ==
  ASSUME LDInv, NEW a \in linker.queue, NextArchive(a)
  PROVE  LDInv'
<1>1. /\ stage = "link" /\ stage' = "link" /\ UNCHANGED <<world, archive, cmd>> /\ linker.todo = {}
      /\ linker' = [linker EXCEPT !.queue = @ \ {a}, !.processed = @ \cup {a}, !.item = a,
                                  !.todo = DOMAIN FromArchive(a)]
  BY DEF NextArchive
<1>2. linker \in LinkerType /\ a \in Compiled /\ a \in Archives
  BY <1>1 DEF LDInv, LDTypeOK, LinkerType, LinkerInv
<1>3. DOMAIN FromArchive(a) \subseteq Packages
  BY <1>2, LinkDepsFacts DEF LDInv, LDTypeOK, FromArchive
<1>4. /\ linker'.reg = linker.reg /\ linker'.queue = linker.queue \ {a}
      /\ linker'.processed = linker.processed \cup {a} /\ linker'.item = a
      /\ linker'.todo = DOMAIN FromArchive(a) /\ linker' \in LinkerType
  BY <1>1, <1>2, <1>3 DEF LinkerType
<1>5. LDTypeOK'
  BY <1>1, <1>4, LinkerTypeNext DEF LDInv
<1>6. LinkerInv'
  <2>1. \A p \in DOMAIN linker.reg : \/ linker.reg[p] \in linker'.queue \cup linker'.processed
                                     \/ DOMAIN FromArchive(linker.reg[p]) = {}
    BY <1>1, <1>4 DEF LDInv, LinkerInv
  <2>2. \A b \in linker.processed : \A d \in DOMAIN FromArchive(b) :
           /\ d \in DOMAIN linker.reg
           /\ Testing /\ FromArchive(b)[d] = "import" => ~ HasVariant(d)
    BY <1>1 DEF LDInv, LinkerInv, Settled
  <2>3. /\ Closure(Main) \subseteq DOMAIN linker.reg /\ linker.queue \subseteq Compiled
        /\ \A p \in DOMAIN linker.reg : linker.reg[p] = Version(p) /\ Imports(p) \subseteq DOMAIN linker.reg
    BY <1>1 DEF LDInv, LinkerInv
  <2> QED BY <1>1, <1>2, <1>4, <2>1, <2>2, <2>3, LinkerInvIs
<1> QED BY <1>1, <1>5, <1>6, LinkOrderNext DEF LDInv

LEMMA SkipDepInv ==
  ASSUME LDInv, NEW d \in linker.todo, SkipDep(d)
  PROVE  LDInv'
<1>1. /\ stage = "link" /\ stage' = "link" /\ UNCHANGED <<world, archive, cmd>>
      /\ LinkSatisfied(d) /\ ~ RejectsSatisfied(d, KindOf(d))
      /\ linker' = [linker EXCEPT !.todo = @ \ {d}]
  BY DEF SkipDep, AtDep, LinkRefused
<1>2. linker \in LinkerType /\ linker.item \in Compiled /\ d \in Nodes /\ world \in Worlds
  BY <1>1, Numbers DEF LDInv, LDTypeOK, LinkerType, LinkerInv
<1>3. /\ linker'.reg = linker.reg /\ linker'.queue = linker.queue /\ linker'.item = linker.item
      /\ linker'.processed = linker.processed /\ linker'.todo = linker.todo \ {d}
      /\ linker' \in LinkerType
  BY <1>1, <1>2 DEF LinkerType
<1>4. LDTypeOK'
  BY <1>1, <1>3, LinkerTypeNext DEF LDInv
<1>5. LinkerInv'
  <2>1. /\ d \in DOMAIN linker.reg
        /\ Testing /\ FromArchive(linker.item)[d] = "import" => ~ HasVariant(d)
    BY <1>1, <1>2, VersionFacts DEF LinkSatisfied, RejectsSatisfied, AsksProvenance, RejectsVariant, KindOf
  <2>2. \A b \in linker.processed : \A e \in DOMAIN FromArchive(b) :
           \/ /\ e \in DOMAIN linker.reg
              /\ Testing /\ FromArchive(b)[e] = "import" => ~ HasVariant(e)
           \/ b = linker.item /\ e \in linker.todo \ {d}
    BY <1>1, <2>1 DEF LDInv, LinkerInv, Settled
  <2>3. /\ Closure(Main) \subseteq DOMAIN linker.reg /\ linker.queue \subseteq Compiled
        /\ \A p \in DOMAIN linker.reg :
              /\ linker.reg[p] = Version(p) /\ Imports(p) \subseteq DOMAIN linker.reg
              /\ \/ linker.reg[p] \in linker.queue \cup linker.processed
                 \/ DOMAIN FromArchive(linker.reg[p]) = {}
    BY <1>1 DEF LDInv, LinkerInv
  <2> QED BY <1>1, <1>2, <1>3, <2>2, <2>3, LinkerInvIs
<1> QED BY <1>1, <1>4, <1>5, LinkOrderNext DEF LDInv

LEMMA ResolveDepInv ==
  ASSUME LDInv, NEW d \in linker.todo, ResolveDep(d)
  PROVE  LDInv'
<1> DEFINE resp == ResponseForTest(d)
           reg == MergeResolved(linker.reg, resp)
           more == ToRead(Range(reg) \ Range(linker.reg)) \ linker.processed
<1>1. /\ stage = "link" /\ stage' = "link" /\ UNCHANGED <<world, archive, cmd>>
      /\ ~ RejectsVariant(KindOf(d), Version(d)) /\ ~ MergeRefused(resp)
      /\ linker' = [linker EXCEPT !.todo = @ \ {d}, !.reg = reg, !.queue = @ \cup more]
  BY DEF ResolveDep, AtDep, LinkRefused, Refused
<1>2. /\ linker \in LinkerType /\ linker.item \in Compiled /\ d \in Packages /\ d \in Nodes
      /\ world \in Worlds /\ linker.reg \in PackageFile
  BY <1>1, Numbers DEF LDInv, LDTypeOK, LinkerType, LinkerInv
<1>3. /\ d # world.target /\ resp \in SUBSET Archives
      /\ {b.pkg : b \in resp} = Closure(d) \ {world.target}
      /\ \A b \in resp : b = Version(b.pkg) /\ b.pkg \in Closure(d)
  BY <1>1, <1>2, ResponseFacts
<1>4. /\ Closure(Main) \subseteq DOMAIN linker.reg /\ linker.queue \subseteq Compiled
      /\ \A p \in DOMAIN linker.reg :
            /\ linker.reg[p] = Version(p) /\ Imports(p) \subseteq DOMAIN linker.reg
            /\ \/ linker.reg[p] \in linker.queue \cup linker.processed
               \/ DOMAIN FromArchive(linker.reg[p]) = {}
  BY <1>1 DEF LDInv, LinkerInv
<1> HIDE DEF resp
<1>5. /\ reg \in PackageFile /\ DOMAIN reg = DOMAIN linker.reg \cup (Closure(d) \ {world.target})
      /\ \A p \in DOMAIN reg : reg[p] = Version(p)
  <2>1. /\ reg \in PackageFile /\ DOMAIN reg = DOMAIN linker.reg \cup {b.pkg : b \in resp}
        /\ \A p \in DOMAIN reg : \/ \E b \in resp : b.pkg = p /\ reg[p] = b
                                 \/ p \in DOMAIN linker.reg /\ reg[p] = linker.reg[p]
    BY <1>2, <1>3, MergeFacts
  <2> HIDE DEF reg
  <2>2. \A p \in DOMAIN reg : reg[p] = Version(p)
    BY <1>3, <1>4, <2>1
  <2> QED BY <1>3, <2>1, <2>2
<1> HIDE DEF reg
<1>6. DOMAIN reg \subseteq Nodes /\ \A p \in DOMAIN reg : Version(p) \in Compiled /\ Version(p) \in Archives
  BY <1>1, <1>5, FileFacts, VersionsAreCompiled
<1>7. more \subseteq Compiled /\ more \subseteq Archives
  BY <1>5, <1>6 DEF ToRead, Range
<1>8. \A p \in DOMAIN reg : \/ reg[p] \in linker.queue \cup more \cup linker.processed
                            \/ DOMAIN FromArchive(reg[p]) = {}
  <2> SUFFICES ASSUME NEW p \in DOMAIN reg, DOMAIN FromArchive(reg[p]) # {}
               PROVE  reg[p] \in linker.queue \cup more \cup linker.processed
    OBVIOUS
  <2>1. CASE reg[p] \in Range(linker.reg)
    BY <1>4, <2>1 DEF Range
  <2>2. CASE reg[p] \notin Range(linker.reg)
    BY <2>2 DEF Range, ToRead
  <2> QED BY <2>1, <2>2
<1>9. \A p \in DOMAIN reg : Imports(p) \subseteq DOMAIN reg
  <2> SUFFICES ASSUME NEW p \in Closure(d), NEW q \in Imports(p)
               PROVE  q \in DOMAIN reg
    BY <1>4, <1>5
  <2>1. q \in Closure(d)
    BY <1>2, ClosureFacts
  <2>2. CASE q = world.target
    <3>1. p \in Nodes /\ q \in Packages
      BY <1>2, ClosureFacts, WorldFacts
    <3>2. Testing
      BY <2>2, <3>1, Numbers, LinkDepsAssumption DEF Testing
    <3>3. q \in Closure(Main)
      BY <1>2, <2>2, <3>2, WorldFacts, Numbers, ClosureFacts
    <3> QED BY <1>4, <1>5, <3>3
  <2> QED BY <1>5, <2>1, <2>2
<1> HIDE DEF more
<1>10. /\ linker'.reg = reg /\ linker'.queue = linker.queue \cup more /\ linker'.item = linker.item
       /\ linker'.processed = linker.processed /\ linker'.todo = linker.todo \ {d}
       /\ linker' \in LinkerType
  BY <1>1, <1>2, <1>5, <1>7 DEF LinkerType
<1>11. LDTypeOK'
  BY <1>1, <1>10, LinkerTypeNext DEF LDInv
<1>12. LinkerInv'
  <2>1. d \in DOMAIN reg /\ (Testing /\ FromArchive(linker.item)[d] = "import" => ~ HasVariant(d))
    BY <1>1, <1>2, <1>3, <1>5, ClosureFacts, VersionFacts DEF RejectsVariant, KindOf
  <2>2. \A b \in linker.processed : \A e \in DOMAIN FromArchive(b) :
           \/ /\ e \in DOMAIN reg
              /\ Testing /\ FromArchive(b)[e] = "import" => ~ HasVariant(e)
           \/ b = linker.item /\ e \in linker.todo \ {d}
    BY <1>1, <1>5, <2>1 DEF LDInv, LinkerInv, Settled
  <2> QED BY <1>1, <1>2, <1>4, <1>5, <1>7, <1>8, <1>9, <1>10, <2>2, LinkerInvIs
<1> QED BY <1>1, <1>11, <1>12, LinkOrderNext DEF LDInv

LEMMA LinkInv ==
  ASSUME LDInv, Link
  PROVE  LDInv'
<1>1. /\ stage = "link" /\ stage' = "linked" /\ UNCHANGED <<world, archive, cmd, linker>>
      /\ linker.todo = {} /\ linker.queue = {}
  BY DEF Link
<1>2. LDTypeOK'
  BY <1>1, LinkerTypeNext DEF LDInv, LDTypeOK, LinkerType
<1>3. LinkerInv'
  BY <1>1, LinkerInvIs DEF LDInv, LinkerInv, Settled
<1> QED BY <1>1, <1>2, <1>3, LinkOrderNext DEF LDInv

-----------------------------------------------------------------------------
\* What the invariant says of the linked binary

\* All that is loaded is in the configuration of the linker.
LEMMA LoadedIsThere ==
  ASSUME LDInv, stage = "linked"
  PROVE  Loaded \subseteq DOMAIN linker.reg
<1> DEFINE S == DOMAIN linker.reg
<1>1. /\ world \in Worlds /\ S \in SUBSET Nodes /\ Main \in S
  BY Numbers, FileFacts, ClosureFacts DEF LDInv, LDTypeOK, LinkerInv
<1>2. ASSUME NEW p \in S, NEW q \in CompiledWith(linker.reg[p])
      PROVE  q \in S
  <2>1. linker.reg[p] = Version(p) /\ Version(p) \in Compiled /\ Version(p).pkg = p /\ p \in Nodes
    BY <1>1, VersionFacts DEF LDInv, LinkerInv, OrderInv
  <2>2. PICK e \in Imports(p) \cup DOMAIN FromArchive(linker.reg[p]) : q \in Closure(e)
    BY <1>2, <2>1 DEF LDInv, ArchiveInv, Provided
  <2>3. e \in S
    <3>1. CASE e \in Imports(p)
      BY <3>1 DEF LDInv, LinkerInv
    <3>2. CASE e \in DOMAIN FromArchive(linker.reg[p])
      <4>1. linker.reg[p] \in linker.processed
        BY <3>2 DEF LDInv, LinkerInv
      <4> QED BY <3>2, <4>1 DEF LDInv, LinkerInv, Settled
    <3> QED BY <2>2, <3>1, <3>2
  <2>4. Closure(e) \subseteq S
    <3>1. {e} \subseteq S /\ e \in Nodes
      BY <1>1, <2>3
    <3>2. \A f \in world.imports : f[1] \in S => f[2] \in S
      <4> SUFFICES ASSUME NEW f \in world.imports, f[1] \in S PROVE f[2] \in S
        OBVIOUS
      <4>1. f[2] \in Imports(f[1])
        BY <1>1, WorldFacts DEF Imports
      <4> QED BY <4>1 DEF LDInv, LinkerInv
    <3>3. Reached({e}, world.imports) \subseteq S
      BY <1>1, <3>1, <3>2, ReachedIsLeast
    <3> QED BY <1>1, <3>1, <3>3, ClosureIs
  <2> QED BY <2>2, <2>4
<1>3. \A f \in Loads : f[1] \in S => f[2] \in S
  BY <1>2 DEF Loads
<1> QED BY <1>1, <1>3, ReachedIsLeast DEF Loaded

LEMMA InvIsComplete == LDInv => LinkIsComplete
BY LoadedIsThere DEF LinkIsComplete, LDInv, ArchiveInv

LEMMA InvAgrees == LDInv => FingerprintsAgree
<1> SUFFICES ASSUME LDInv, stage = "linked", Testing => Links(Main) = {},
                    NEW p \in Loaded, NEW q \in CompiledWith(linker.reg[p])
             PROVE  linker.reg[q] = archive[linker.reg[p]].against[q]
  BY DEF FingerprintsAgree
<1> DEFINE a == linker.reg[p]
<1>1. world \in Worlds /\ p \in DOMAIN linker.reg /\ DOMAIN linker.reg \in SUBSET Nodes
  BY LoadedIsThere, FileFacts DEF LDInv, LDTypeOK
<1>2. /\ a = Version(p) /\ a \in Compiled /\ a.pkg = p /\ p \in Nodes
  BY <1>1, VersionFacts DEF LDInv, LinkerInv, OrderInv
<1>3. InBinary(a)
  BY <1>2 DEF InBinary
<1>4. Sound(archive[a].against[q], q, FromArchive(a)) /\ q \in Nodes
  BY <1>2, <1>3, FileFacts DEF LDInv, ArchiveInv, LDTypeOK, CompiledWith
<1>5. q \in DOMAIN linker.reg
  <2>1. q \in Loaded
    <3>1. <<p, q>> \in Loads /\ Loads \in SUBSET (Nodes \X Nodes) /\ {Main} \in SUBSET Nodes
      BY <1>1, <1>2, <1>4, Numbers DEF Loads
    <3>2. \A e \in Loads : e[1] \in Loaded => e[2] \in Loaded
      BY <3>1, ReachedGrows DEF Loaded
    <3> QED BY <3>1, <3>2
  <2> QED BY <2>1, LoadedIsThere
<1>6. linker.reg[q] = Version(q)
  BY <1>5 DEF LDInv, LinkerInv
<1>7. archive[a].against[q] = Version(q)
  <2> SUFFICES ASSUME archive[a].against[q] = Ordinary(q),
                      NEW d \in DOMAIN FromArchive(a), FromArchive(a)[d] = "import", q \in Closure(d)
               PROVE  Ordinary(q) = Version(q)
    BY <1>4 DEF Sound
  <2>1. a \in linker.processed
    BY <1>1 DEF LDInv, LinkerInv
  <2>2. d \in DOMAIN linker.reg /\ (Testing => ~ HasVariant(d))
    BY <2>1 DEF LDInv, LinkerInv, Settled
  <2>3. ~ HasVariant(q)
    BY <1>1, <2>2, VersionFacts
  <2> QED BY <1>1, <1>4, <2>3, VersionFacts
<1> QED BY <1>6, <1>7

-----------------------------------------------------------------------------
\* Relocation targets: the steps of the strengthened invariant

LEMMA BehindFacts ==
  ASSUME world \in Worlds, NEW S \in SUBSET Nodes, NEW T \in SUBSET Nodes, S \subseteq T
  PROVE  /\ S \subseteq Behind(S) /\ Behind(S) \subseteq Behind(T)
         /\ \A e \in S : Closure(e) \subseteq Behind(S)
BY ClosureFacts DEF Behind

LEMMA TargetInvNext ==
  ASSUME world' = world, archive' = archive, ArchiveTargets,
         stage' \in {"weave", "main"} /\ (cmd'.of = MainArchive => Links(Main) = {}) =>
           /\ DOMAIN cmd'.reg \subseteq Behind(Imports(cmd'.of.pkg) \cup Injects(cmd'.of) \cup cmd'.newDeps)
           /\ \A b \in cmd'.reading :
                 b.pkg \in Behind(Imports(cmd'.of.pkg) \cup Injects(cmd'.of) \cup cmd'.newDeps)
           /\ DOMAIN cmd'.processed \subseteq DOMAIN cmd'.reg
           /\ stage' = "weave" =>
                 /\ Links(cmd'.of.pkg) \subseteq cmd'.refs \cup DOMAIN cmd'.deps \cup DOMAIN cmd'.reg
                 /\ cmd'.newDeps = {}
           /\ stage' = "main" =>
                 /\ DOMAIN cmd'.pending \subseteq cmd'.newDeps
                 /\ \A q \in DOMAIN cmd'.reg :
                       \/ cmd'.reg[q] \in cmd'.reading
                       \/ DOMAIN FromArchive(cmd'.reg[q]) \subseteq cmd'.newDeps \cup DOMAIN cmd'.reg
  PROVE  TargetInv'
<1>1. CommandTargets'
  BY DEF CommandTargets, Behind, Imports, Injects, Links, IsMain, MainArchive, Version, HasVariant,
         Closure, FromArchive
<1>2. ArchiveTargets'
  BY DEF ArchiveTargets, Compiled, MainArchive, Version, HasVariant, Closure, Links, Recorded, FromArchive,
         Behind, CompiledWith
<1> QED BY <1>1, <1>2 DEF TargetInv

LEMMA InitTargets == LDInit => TargetInv
<1> SUFFICES ASSUME LDInit PROVE TargetInv
  OBVIOUS
<1>1. DOMAIN archive = {}
  BY DEF LDInit
<1> QED BY <1>1 DEF LDInit, TargetInv, CommandTargets, ArchiveTargets, Compiled

LEMMA StageTargets ==
  ASSUME TargetInv, UNCHANGED <<world, archive>>, stage' \notin {"weave", "main"}
  PROVE  TargetInv'
BY TargetInvNext DEF TargetInv

LEMMA StartCompileTargets ==
  ASSUME LDInv, TargetInv, NEW a \in Buildable, StartCompile(a)
  PROVE  TargetInv'
<1>1. /\ stage' = "weave" /\ UNCHANGED <<world, archive>>
      /\ cmd' = [Idle EXCEPT !.of = a, !.reg = NaturalOf(a), !.deps = FromImportConfig(NaturalOf(a)),
                             !.refs = DOMAIN References(a)]
  BY DEF StartCompile
<1>2. /\ world \in Worlds /\ a.pkg \in Nodes /\ Imports(a.pkg) \in SUBSET Nodes /\ Injects(a) \in SUBSET Nodes
      /\ DOMAIN NaturalOf(a) = Imports(a.pkg)
  BY BuildableFacts, WorldFacts, Numbers, NaturalFacts DEF LDInv, LDTypeOK
<1>3. DOMAIN References(a) = Injects(a) \cup Links(a.pkg)
  BY DEF References
<1>4. /\ cmd'.of = a /\ cmd'.reg = NaturalOf(a) /\ cmd'.refs = Injects(a) \cup Links(a.pkg)
      /\ cmd'.reading = {} /\ cmd'.newDeps = {} /\ DOMAIN cmd'.processed = {}
  BY <1>1, <1>3, NoDepsFacts DEF Idle
<1>5. Imports(a.pkg) \subseteq Behind(Imports(a.pkg) \cup Injects(a) \cup {})
  BY <1>2, BehindFacts
<1> QED BY <1>1, <1>2, <1>4, <1>5, TargetInvNext DEF TargetInv

LEMMA SatisfiedTargets ==
  ASSUME LDInv, TargetInv, NEW d, Satisfied(d)
  PROVE  TargetInv'
<1>1. /\ stage = "weave" /\ stage' = "weave" /\ UNCHANGED <<world, archive>>
      /\ d \in DOMAIN cmd.reg /\ cmd' = [cmd EXCEPT !.refs = @ \ {d}]
  BY DEF Satisfied, AtReference
<1>2. cmd \in CommandType
  BY DEF LDInv, LDTypeOK, CommandType
<1>3. /\ cmd'.of = cmd.of /\ cmd'.reg = cmd.reg /\ cmd'.deps = cmd.deps /\ cmd'.refs = cmd.refs \ {d}
      /\ cmd'.reading = cmd.reading /\ cmd'.newDeps = cmd.newDeps
      /\ cmd'.processed = cmd.processed
  BY <1>1, <1>2 DEF CommandType
<1> QED BY <1>1, <1>3, TargetInvNext DEF TargetInv, CommandTargets, IsMain

LEMMA SyntheticTargets ==
  ASSUME LDInv, TargetInv, NEW d \in cmd.refs, Synthetic(d)
  PROVE  TargetInv'
<1> DEFINE kind == References(cmd.of)[d]
           more == [e \in {d} |-> kind]
           S == Imports(cmd.of.pkg) \cup Injects(cmd.of) \cup {}
<1>1. /\ stage = "weave" /\ stage' = "weave" /\ UNCHANGED <<world, archive>>
      /\ cmd' = [cmd EXCEPT !.refs = @ \ {d}, !.deps = AddAll(@, more),
                            !.reading = IF kind = "relocation" /\ ~IsMain THEN {} ELSE Response(d)]
  BY DEF Synthetic, AtReference
<1>2. cmd \in CommandType /\ world \in Worlds /\ cmd.deps \in LinkDepsType
  BY DEF LDInv, LDTypeOK, CommandType
<1>3. /\ d \in Packages /\ d \in Injects(cmd.of) \cup Links(cmd.of.pkg) /\ cmd.of \in Buildable
      /\ cmd.of.pkg \in Nodes
  BY <1>1, <1>2, BuildableFacts DEF CommandType, LDInv, CommandInv, OrderInv
<1>4. kind \in Kinds /\ (kind = "import" <=> d \in Injects(cmd.of))
  BY <1>3 DEF References, Kinds
<1> HIDE DEF kind
<1>5. more \in LinkDepsType /\ DOMAIN more = {d}
  BY <1>3, <1>4, SingleFacts
<1> HIDE DEF more
<1>6. /\ cmd'.of = cmd.of /\ cmd'.reg = cmd.reg /\ cmd'.deps = AddAll(cmd.deps, more)
      /\ cmd'.refs = cmd.refs \ {d} /\ cmd'.newDeps = cmd.newDeps /\ cmd'.processed = cmd.processed
      /\ cmd'.reading = IF kind = "relocation" /\ ~IsMain THEN {} ELSE Response(d)
  BY <1>1, <1>2 DEF CommandType
<1>7. DOMAIN cmd'.deps = DOMAIN cmd.deps \cup {d}
  <2>1. DOMAIN AddAll(cmd.deps, more) = DOMAIN cmd.deps \cup DOMAIN more
    BY <1>2, <1>5, AddAllFacts
  <2> QED BY <1>5, <1>6, <2>1
<1>8. S \in SUBSET Nodes
  BY <1>2, <1>3, WorldFacts, Numbers
<1>9. ASSUME IsMain => Links(Main) = {}, NEW b \in cmd'.reading
      PROVE  b.pkg \in Behind(S)
  <2>1. b \in Response(d) /\ ~ (kind = "relocation" /\ ~ IsMain)
    BY <1>6, <1>9
  <2>2. d \in Injects(cmd.of)
    <3>1. CASE IsMain
      <4>1. cmd.of.pkg = Main
        BY <1>2, <3>1, VersionFacts, Numbers DEF IsMain, MainArchive
      <4> QED BY <1>3, <1>9, <3>1, <4>1
    <3>2. CASE ~ IsMain
      BY <1>4, <2>1, <3>2 DEF Kinds
    <3> QED BY <3>1, <3>2
  <2>3. b.pkg \in Closure(d)
    <3>1. PICK q \in Closure(d) : b = Ordinary(q)
      BY <2>1 DEF Response
    <3> QED BY <3>1 DEF Ordinary
  <2> QED BY <1>2, <1>8, <2>2, <2>3, BehindFacts
<1> QED BY <1>1, <1>6, <1>7, <1>9, TargetInvNext DEF TargetInv, CommandTargets, IsMain

LEMMA ProvideTargets ==
  ASSUME LDInv, TargetInv, NEW a \in cmd.reading, Provide(a)
  PROVE  TargetInv'
<1> DEFINE deps == FromArchive(a)
           more == Restrict(deps, DOMAIN deps \ DOMAIN cmd.reg)
<1>1. /\ stage = "weave" /\ stage' = "weave" /\ UNCHANGED <<world, archive>>
      /\ cmd' = [cmd EXCEPT !.reading = @ \ {a}, !.deps = AddAll(@, more), !.reg = With(@, a.pkg, a)]
  BY DEF Provide
<1>2. cmd \in CommandType /\ a \in Compiled /\ a \in Archives /\ cmd.reg \in PackageFile
  BY <1>1 DEF LDInv, LDTypeOK, CommandType, OrderInv
<1>3. deps \in LinkDepsType /\ cmd.deps \in LinkDepsType
  BY <1>2 DEF LDInv, LDTypeOK, FromArchive, CommandType
<1>4. more \in LinkDepsType
  BY <1>3, RestrictFacts
<1> HIDE DEF more
<1>5. /\ cmd'.of = cmd.of /\ cmd'.reg = With(cmd.reg, a.pkg, a) /\ cmd'.deps = AddAll(cmd.deps, more)
      /\ cmd'.refs = cmd.refs /\ cmd'.newDeps = cmd.newDeps /\ cmd'.reading = cmd.reading \ {a}
      /\ cmd'.processed = cmd.processed
  BY <1>1, <1>2 DEF CommandType
<1>6. DOMAIN cmd.deps \subseteq DOMAIN cmd'.deps
  <2>1. DOMAIN AddAll(cmd.deps, more) = DOMAIN cmd.deps \cup DOMAIN more
    BY <1>3, <1>4, AddAllFacts
  <2> QED BY <1>5, <2>1
<1>7. DOMAIN cmd'.reg = DOMAIN cmd.reg \cup {a.pkg}
  <2>1. DOMAIN With(cmd.reg, a.pkg, a) = DOMAIN cmd.reg \cup {a.pkg}
    BY <1>2, WithFacts
  <2> QED BY <1>5, <2>1
<1> QED BY <1>1, <1>5, <1>6, <1>7, TargetInvNext DEF TargetInv, CommandTargets, IsMain

LEMMA StartMainTargets ==
  ASSUME LDInv, TargetInv, StartMain
  PROVE  TargetInv'
<1> DEFINE initial == FromImportConfig(cmd.reg)
           S == Imports(cmd.of.pkg) \cup Injects(cmd.of)
<1>1. /\ stage = "weave" /\ stage' = "main" /\ UNCHANGED <<world, archive>> /\ cmd.reading = {}
      /\ IsMain /\ cmd.of = MainArchive
      /\ cmd' = [cmd EXCEPT !.pending = initial, !.newDeps = DOMAIN initial]
  BY DEF StartMain, Woven, IsMain
<1>2. /\ cmd \in CommandType /\ cmd.reg \in PackageFile /\ world \in Worlds
      /\ \A a \in Compiled : archive[a].link \in LinkDepsType
  BY DEF LDInv, LDTypeOK, CommandType
<1>3. \A q \in DOMAIN cmd.reg : cmd.reg[q] \in Compiled
  BY <1>1 DEF LDInv, OrderInv, Range
<1>4. /\ initial \in LinkDepsType
      /\ \A q \in DOMAIN cmd.reg : DOMAIN FromArchive(cmd.reg[q]) \subseteq DOMAIN initial \cup DOMAIN cmd.reg
  BY <1>2, <1>3, FromImportConfigFacts
<1> HIDE DEF initial
<1>5. /\ cmd'.of = cmd.of /\ cmd'.reg = cmd.reg /\ cmd'.pending = initial /\ cmd'.newDeps = DOMAIN initial
      /\ cmd'.reading = {} /\ cmd'.processed = cmd.processed
  BY <1>1, <1>2 DEF CommandType
<1>6. S \in SUBSET Nodes /\ S \cup DOMAIN initial \in SUBSET Nodes
  <2>1. cmd.of.pkg \in Nodes
    BY <1>1, <1>2, BuildableFacts DEF LDInv, OrderInv
  <2>2. S \subseteq Nodes
    BY <1>2, <2>1, WorldFacts, Numbers
  <2>3. DOMAIN initial \subseteq Nodes
    BY <1>4, LinkDepsFacts, Numbers
  <2> QED BY <2>2, <2>3
<1>7. ASSUME Links(Main) = {}
      PROVE  /\ DOMAIN cmd.reg \subseteq Behind(S \cup DOMAIN initial)
             /\ DOMAIN cmd.processed \subseteq DOMAIN cmd.reg
  <2>1. DOMAIN cmd.reg \subseteq Behind(S \cup {}) /\ DOMAIN cmd.processed \subseteq DOMAIN cmd.reg
    BY <1>1, <1>7 DEF TargetInv, CommandTargets
  <2>2. Behind(S) \subseteq Behind(S \cup DOMAIN initial) /\ S \cup {} = S
    BY <1>2, <1>6, BehindFacts
  <2> QED BY <2>1, <2>2
<1> HIDE DEF S
<1> QED BY <1>1, <1>4, <1>5, <1>7, TargetInvNext DEF TargetInv, S

LEMMA ResolveTargets ==
  ASSUME LDInv, TargetInv, NEW d \in DOMAIN cmd.pending, Resolve(d)
  PROVE  TargetInv'
<1> DEFINE resp == ResponseForTest(d)
           rest == Restrict(cmd.pending, DOMAIN cmd.pending \ {d})
           S == Imports(cmd.of.pkg) \cup Injects(cmd.of) \cup cmd.newDeps
<1>1. /\ stage = "main" /\ stage' = "main" /\ UNCHANGED <<world, archive>>
      /\ cmd.reading = {} /\ ~ MergeRefused(resp)
      /\ cmd' = [cmd EXCEPT !.pending = rest, !.processed = MergeResolved(@, resp),
                            !.reg = MergeResolved(@, resp), !.reading = resp]
  BY DEF Resolve, AtPending, Refused
<1>2. /\ cmd \in CommandType /\ world \in Worlds /\ cmd.of = MainArchive /\ IsMain
      /\ cmd.pending \in LinkDepsType /\ cmd.reg \in PackageFile /\ cmd.processed \in PackageFile
  BY <1>1 DEF LDInv, LDTypeOK, CommandType, OrderInv, IsMain
<1>3. d \in Packages
  BY <1>2, LinkDepsFacts
<1>4. /\ resp \in SUBSET Archives /\ {b.pkg : b \in resp} = Closure(d) \ {world.target}
      /\ \A b \in resp : b.pkg \in Closure(d)
  BY <1>1, <1>2, <1>3, ResponseFacts
<1> HIDE DEF resp
<1>5. DOMAIN rest = DOMAIN cmd.pending \ {d}
  BY <1>2, RestrictFacts
<1> HIDE DEF rest
<1>6. /\ cmd'.of = cmd.of /\ cmd'.reg = MergeResolved(cmd.reg, resp)
      /\ cmd'.pending = rest /\ cmd'.newDeps = cmd.newDeps
      /\ cmd'.reading = resp /\ cmd'.processed = MergeResolved(cmd.processed, resp)
  BY <1>1, <1>2 DEF CommandType
<1>7. /\ DOMAIN cmd'.reg = DOMAIN cmd.reg \cup {b.pkg : b \in resp}
      /\ \A p \in DOMAIN cmd'.reg : \/ cmd'.reg[p] \in resp
                                    \/ p \in DOMAIN cmd.reg /\ cmd'.reg[p] = cmd.reg[p]
  <2> DEFINE f == MergeResolved(cmd.reg, resp)
  <2>1. /\ DOMAIN f = DOMAIN cmd.reg \cup {b.pkg : b \in resp}
        /\ \A p \in DOMAIN f : \/ \E b \in resp : b.pkg = p /\ f[p] = b
                               \/ p \in DOMAIN cmd.reg /\ f[p] = cmd.reg[p]
    BY <1>2, <1>4, MergeFacts
  <2> HIDE DEF f
  <2> QED BY <1>6, <2>1 DEF f
<1>8. DOMAIN cmd'.processed = DOMAIN cmd.processed \cup {b.pkg : b \in resp}
  <2>1. DOMAIN MergeResolved(cmd.processed, resp) = DOMAIN cmd.processed \cup {b.pkg : b \in resp}
    BY <1>2, <1>4, MergeFacts
  <2> QED BY <1>6, <2>1
<1>9. S \in SUBSET Nodes
  <2>1. cmd.of.pkg \in Nodes
    BY <1>1, <1>2, BuildableFacts DEF LDInv, OrderInv
  <2>2. cmd.newDeps \subseteq Nodes
    BY <1>2, Numbers DEF CommandType
  <2> QED BY <1>2, <2>1, <2>2, WorldFacts, Numbers
<1>10. ASSUME Links(Main) = {}
       PROVE  /\ DOMAIN cmd'.reg \subseteq Behind(S) /\ \A b \in resp : b.pkg \in Behind(S)
              /\ DOMAIN cmd'.processed \subseteq DOMAIN cmd'.reg
              /\ DOMAIN rest \subseteq cmd.newDeps
              /\ \A q \in DOMAIN cmd'.reg :
                    \/ cmd'.reg[q] \in resp
                    \/ DOMAIN FromArchive(cmd'.reg[q]) \subseteq cmd.newDeps \cup DOMAIN cmd'.reg
  <2>1. /\ DOMAIN cmd.reg \subseteq Behind(S) /\ DOMAIN cmd.processed \subseteq DOMAIN cmd.reg
        /\ DOMAIN cmd.pending \subseteq cmd.newDeps
        /\ \A q \in DOMAIN cmd.reg :
              DOMAIN FromArchive(cmd.reg[q]) \subseteq cmd.newDeps \cup DOMAIN cmd.reg
    BY <1>1, <1>2, <1>10 DEF TargetInv, CommandTargets
  <2>2. d \in S
    BY <2>1
  <2>3. Closure(d) \subseteq Behind(S)
    BY <1>2, <1>9, <2>2, BehindFacts
  <2> HIDE DEF S
  <2> QED BY <1>4, <1>5, <1>7, <1>8, <2>1, <2>3
<1> HIDE DEF S
<1> QED BY <1>1, <1>2, <1>6, <1>10, TargetInvNext DEF TargetInv, S

LEMMA DiscoverTargets ==
  ASSUME LDInv, TargetInv, NEW a \in cmd.reading, Discover(a)
  PROVE  TargetInv'
<1> DEFINE deps == FromArchive(a)
           new == DOMAIN deps \ (DOMAIN cmd.processed \cup DOMAIN cmd.reg)
           found == Restrict(deps, new \cup (DOMAIN deps \cap DOMAIN cmd.pending))
           S == Imports(cmd.of.pkg) \cup Injects(cmd.of) \cup cmd.newDeps
           T == Imports(cmd.of.pkg) \cup Injects(cmd.of) \cup (cmd.newDeps \cup new)
<1>1. /\ stage = "main" /\ stage' = "main" /\ UNCHANGED <<world, archive>>
      /\ cmd' = [cmd EXCEPT !.reading = @ \ {a}, !.pending = AddAll(@, found),
                            !.deps = AddAll(@, found), !.newDeps = @ \cup new]
  BY DEF Discover
<1>2. /\ cmd \in CommandType /\ cmd.pending \in LinkDepsType /\ world \in Worlds /\ a \in Compiled
      /\ IsMain /\ cmd.of = MainArchive
  BY <1>1 DEF LDInv, LDTypeOK, CommandType, OrderInv, IsMain
<1>3. deps \in LinkDepsType /\ DOMAIN deps \subseteq Packages
  BY <1>2, LinkDepsFacts DEF LDInv, LDTypeOK, FromArchive
<1>4. found \in LinkDepsType /\ DOMAIN found = new \cup (DOMAIN deps \cap DOMAIN cmd.pending)
  BY <1>3, RestrictFacts
<1>5. new \subseteq Packages /\ DOMAIN deps \subseteq new \cup DOMAIN cmd.processed \cup DOMAIN cmd.reg
  BY <1>3
<1> HIDE DEF new, found
<1>6. /\ cmd'.of = cmd.of /\ cmd'.reg = cmd.reg /\ cmd'.pending = AddAll(cmd.pending, found)
      /\ cmd'.newDeps = cmd.newDeps \cup new /\ cmd'.reading = cmd.reading \ {a}
      /\ cmd'.processed = cmd.processed
  BY <1>1, <1>2 DEF CommandType
<1>7. DOMAIN cmd'.pending \subseteq DOMAIN cmd.pending \cup new
  <2>1. DOMAIN AddAll(cmd.pending, found) = DOMAIN cmd.pending \cup DOMAIN found
    BY <1>2, <1>4, AddAllFacts
  <2> QED BY <1>4, <1>6, <2>1
<1>8. S \in SUBSET Nodes /\ T \in SUBSET Nodes /\ S \subseteq T
  <2>1. cmd.of.pkg \in Nodes
    BY <1>1, <1>2, BuildableFacts DEF LDInv, OrderInv
  <2>2. cmd.newDeps \subseteq Nodes /\ new \subseteq Nodes
    BY <1>2, <1>5, Numbers DEF CommandType
  <2> QED BY <1>2, <2>1, <2>2, WorldFacts, Numbers
<1>9. ASSUME Links(Main) = {}
      PROVE  /\ DOMAIN cmd.reg \subseteq Behind(T) /\ \A b \in cmd.reading : b.pkg \in Behind(T)
             /\ DOMAIN cmd.processed \subseteq DOMAIN cmd.reg
             /\ DOMAIN cmd'.pending \subseteq cmd.newDeps \cup new
             /\ \A q \in DOMAIN cmd.reg :
                   \/ cmd.reg[q] \in cmd.reading \ {a}
                   \/ DOMAIN FromArchive(cmd.reg[q]) \subseteq (cmd.newDeps \cup new) \cup DOMAIN cmd.reg
  <2>1. /\ DOMAIN cmd.reg \subseteq Behind(S) /\ \A b \in cmd.reading : b.pkg \in Behind(S)
        /\ DOMAIN cmd.processed \subseteq DOMAIN cmd.reg
        /\ DOMAIN cmd.pending \subseteq cmd.newDeps
        /\ \A q \in DOMAIN cmd.reg :
              \/ cmd.reg[q] \in cmd.reading
              \/ DOMAIN FromArchive(cmd.reg[q]) \subseteq cmd.newDeps \cup DOMAIN cmd.reg
    BY <1>1, <1>2, <1>9 DEF TargetInv, CommandTargets
  <2>2. Behind(S) \subseteq Behind(T)
    BY <1>2, <1>8, BehindFacts
  <2> HIDE DEF S, T
  <2> QED BY <1>5, <1>7, <2>1, <2>2
<1> HIDE DEF S, T
<1> QED BY <1>1, <1>2, <1>6, <1>9, TargetInvNext DEF TargetInv, T

\* An archive hands on the relocation targets recorded in what it was compiled with.
LEMMA CompiledTargets ==
  ASSUME LDInv, TargetInv, stage \in {"weave", "main"}, stage' \in {"start", "compiled"},
         cmd.reading = {}, cmd.refs = {}, IsMain <=> stage = "main",
         NEW imported, imported = Imports(cmd.of.pkg) \cup Injects(cmd.of) \cup cmd.newDeps,
         imported \subseteq DOMAIN cmd.reg,
         world' = world, archive' = Output(imported)
  PROVE  TargetInv'
<1> DEFINE a == cmd.of
           made == [link |-> cmd.deps, against |-> Restrict(cmd.reg, imported \cap DOMAIN cmd.reg)]
           Passes(b, arch, S) ==
             \A q \in DOMAIN arch[b].against : DOMAIN arch[arch[b].against[q]].link \subseteq S
           Good(b, arch) ==
             /\ \A q \in DOMAIN arch[b].against : arch[b].against[q] \in Compiled
             /\ b # MainArchive =>
                   /\ Links(b.pkg) \subseteq DOMAIN arch[b].link \cup Behind(DOMAIN arch[b].against)
                   /\ Passes(b, arch, DOMAIN arch[b].link \cup Behind(DOMAIN arch[b].against))
             /\ b = MainArchive /\ Links(Main) = {} => Passes(b, arch, Behind(DOMAIN arch[b].against))
<1>1. cmd \in CommandType /\ world \in Worlds /\ a \in Buildable \ Compiled
  BY DEF LDInv, LDTypeOK, CommandType, OrderInv
<1>2. /\ DOMAIN archive' = Compiled \cup {a} /\ archive'[a] = made
      /\ \A b \in Compiled : archive'[b] = archive[b]
  BY <1>1 DEF Output, With, Compiled
<1>3. /\ DOMAIN made.against = imported /\ made.link = cmd.deps
      /\ \A q \in imported : made.against[q] = cmd.reg[q]
  BY DEF Restrict
<1> HIDE DEF made
<1>4. \A q \in DOMAIN cmd.reg : cmd.reg[q] \in Compiled
  BY DEF LDInv, OrderInv, Range
<1>5. imported \in SUBSET Nodes
  BY <1>1, FileFacts DEF CommandType
<1>6. ASSUME NEW b \in Compiled
      PROVE  Good(b, archive')
  <2>1. Good(b, archive)
    BY DEF TargetInv, ArchiveTargets, Recorded, CompiledWith, FromArchive
  <2>2. archive'[b] = archive[b]
    BY <1>2
  <2>3. \A q \in DOMAIN archive[b].against : archive'[archive[b].against[q]] = archive[archive[b].against[q]]
    BY <1>2, <2>1
  <2>4. \A S : Passes(b, archive, S) => Passes(b, archive', S)
    BY <2>2, <2>3
  <2> HIDE DEF Passes
  <2> QED BY <2>1, <2>2, <2>4
<1>7. Good(a, archive')
  <2>1. /\ DOMAIN archive'[a].against = imported /\ archive'[a].link = cmd.deps
        /\ \A q \in imported : archive'[a].against[q] = cmd.reg[q] /\ cmd.reg[q] \in Compiled
    BY <1>2, <1>3, <1>4
  <2>2. \A q \in imported : archive'[archive'[a].against[q]].link = FromArchive(cmd.reg[q])
    BY <1>2, <2>1 DEF FromArchive
  <2>3. ASSUME NEW S, \A q \in imported : DOMAIN FromArchive(cmd.reg[q]) \subseteq S
        PROVE  Passes(a, archive', S)
    BY <2>1, <2>2, <2>3
  <2> HIDE DEF Passes
  <2>4. CASE stage = "weave"
    <3>1. /\ DOMAIN cmd.reg \subseteq Behind(imported)
          /\ Links(a.pkg) \subseteq DOMAIN cmd.deps \cup DOMAIN cmd.reg /\ a # MainArchive
      BY <2>4 DEF TargetInv, CommandTargets, IsMain
    <3>2. \A q \in DOMAIN cmd.reg :
             DOMAIN FromArchive(cmd.reg[q]) \subseteq DOMAIN cmd.deps \cup DOMAIN cmd.reg
      BY <2>4 DEF LDInv, CommandInv
    <3>3. Passes(a, archive', DOMAIN cmd.deps \cup Behind(imported))
      <4>1. \A q \in imported : DOMAIN FromArchive(cmd.reg[q]) \subseteq DOMAIN cmd.deps \cup Behind(imported)
        BY <3>1, <3>2
      <4> QED BY <2>3, <4>1
    <3> QED BY <2>1, <3>1, <3>3
  <2>5. CASE stage = "main"
    <3>1. a = MainArchive
      BY <2>5 DEF IsMain
    <3>2. ASSUME Links(Main) = {}
          PROVE  Passes(a, archive', Behind(imported))
      <4>1. /\ DOMAIN cmd.reg \subseteq Behind(imported)
            /\ \A q \in DOMAIN cmd.reg :
                  DOMAIN FromArchive(cmd.reg[q]) \subseteq cmd.newDeps \cup DOMAIN cmd.reg
        BY <2>5, <3>2 DEF TargetInv, CommandTargets
      <4>2. cmd.newDeps \subseteq Behind(imported)
        BY <1>1, <1>5, BehindFacts
      <4>3. \A q \in imported : DOMAIN FromArchive(cmd.reg[q]) \subseteq Behind(imported)
        BY <4>1, <4>2
      <4> QED BY <2>3, <4>3
    <3> QED BY <2>1, <3>1, <3>2
  <2> QED BY <2>4, <2>5
<1> HIDE DEF Good, Passes
<1>8. \A b \in DOMAIN archive' : Good(b, archive')
  BY <1>2, <1>6, <1>7
<1>9. ArchiveTargets'
  <2>1. Compiled \subseteq Compiled'
    BY <1>2 DEF Compiled
  <2>2. \A b \in Compiled' :
           /\ \A q \in DOMAIN archive'[b].against : archive'[b].against[q] \in Compiled'
           /\ b # MainArchive =>
                 /\ Links(b.pkg) \subseteq DOMAIN archive'[b].link \cup Behind(DOMAIN archive'[b].against)
                 /\ Passes(b, archive', DOMAIN archive'[b].link \cup Behind(DOMAIN archive'[b].against))
           /\ b = MainArchive /\ Links(Main) = {} =>
                 Passes(b, archive', Behind(DOMAIN archive'[b].against))
    BY <1>8, <2>1 DEF Good, Compiled
  <2> DEFINE Union(b) == UNION {DOMAIN archive'[archive'[b].against[q]].link : q \in DOMAIN archive'[b].against}
  <2>3. \A b, S : Passes(b, archive', S) => Union(b) \subseteq S
    BY DEF Passes
  <2> HIDE DEF Union
  <2>4. \A b \in Compiled' :
           /\ \A q \in DOMAIN archive'[b].against : archive'[b].against[q] \in Compiled'
           /\ b # MainArchive =>
                 Links(b.pkg) \cup Union(b)
                   \subseteq DOMAIN archive'[b].link \cup Behind(DOMAIN archive'[b].against)
           /\ b = MainArchive /\ Links(Main) = {} => Union(b) \subseteq Behind(DOMAIN archive'[b].against)
    BY <2>2, <2>3
  <2>5. MainArchive' = MainArchive
    BY DEF MainArchive, Version, HasVariant, Closure
  <2>6. \A p : Links(p)' = Links(p) /\ Closure(p)' = Closure(p)
    BY DEF Links, Closure
  <2>7. ASSUME NEW b \in Compiled'
        PROVE  /\ \A q \in CompiledWith(b)' : (archive[b].against[q])' \in Compiled'
               /\ b # MainArchive' =>
                     Links(b.pkg)' \cup Recorded(b)' \subseteq (DOMAIN FromArchive(b))' \cup Behind(CompiledWith(b))'
               /\ b = MainArchive' /\ Links(Main)' = {} => Recorded(b)' \subseteq Behind(CompiledWith(b))'
    <3>1. Recorded(b)' = Union(b) /\ CompiledWith(b)' = DOMAIN archive'[b].against
      BY DEF Union, Recorded, CompiledWith, FromArchive
    <3>2. Behind(CompiledWith(b))' = Behind(DOMAIN archive'[b].against)
      BY <2>6 DEF Behind, CompiledWith
    <3>3. (DOMAIN FromArchive(b))' = DOMAIN archive'[b].link
      BY DEF FromArchive
    <3> QED BY <2>4, <2>5, <2>6, <3>1, <3>2, <3>3
  <2> QED BY <2>7 DEF ArchiveTargets
<1>10. CommandTargets'
  BY DEF CommandTargets
<1> QED BY <1>9, <1>10 DEF TargetInv

LEMMA CompileTargets ==
  ASSUME LDInv, TargetInv, Compile
  PROVE  TargetInv'
<1> DEFINE imported == Imports(cmd.of.pkg) \cup Injects(cmd.of)
<1>1. /\ stage = "weave" /\ stage' = "start" /\ cmd.refs = {} /\ cmd.reading = {} /\ ~ IsMain
      /\ world' = world /\ archive' = Output(imported)
  BY DEF Compile, Woven
<1>2. imported \subseteq DOMAIN cmd.reg
  BY <1>1 DEF LDInv, CommandInv
<1>3. cmd.newDeps = {}
  BY <1>1 DEF TargetInv, CommandTargets
<1>4. imported = Imports(cmd.of.pkg) \cup Injects(cmd.of) \cup cmd.newDeps
  BY <1>3
<1> HIDE DEF imported
<1> QED BY <1>1, <1>2, <1>4, CompiledTargets

LEMMA CompileMainTargets ==
  ASSUME LDInv, TargetInv, CompileMain
  PROVE  TargetInv'
<1> DEFINE imported == Imports(Main) \cup Injects(cmd.of) \cup cmd.newDeps
<1>1. /\ stage = "main" /\ stage' = "compiled" /\ cmd.reading = {} /\ DOMAIN cmd.pending = {}
      /\ world' = world /\ archive' = Output(imported)
  BY DEF CompileMain
<1>2. IsMain /\ cmd.of = MainArchive /\ cmd.refs = {} /\ world \in Worlds
  BY <1>1 DEF LDInv, LDTypeOK, OrderInv, IsMain
<1>3. cmd.of.pkg = Main
  BY <1>2, VersionFacts, Numbers DEF MainArchive
<1>4. imported \subseteq DOMAIN cmd.reg
  BY <1>1, <1>2, <1>3 DEF LDInv, CommandInv
<1>5. imported = Imports(cmd.of.pkg) \cup Injects(cmd.of) \cup cmd.newDeps
  BY <1>3
<1> HIDE DEF imported
<1> QED BY <1>1, <1>2, <1>4, <1>5, CompiledTargets

LEMMA NextTargetInv == LDInv /\ TargetInv /\ [LDNext]_ldvars => TargetInv'
<1> SUFFICES ASSUME LDInv, TargetInv, [LDNext]_ldvars PROVE TargetInv'
  OBVIOUS
<1>1. CASE OnCompile
  <2>1. ASSUME NEW d \in cmd.refs, ReferenceFails(d) PROVE TargetInv'
    BY <2>1, StageTargets DEF ReferenceFails, Fails
  <2> QED BY <1>1, <2>1, StartCompileTargets, SatisfiedTargets, SyntheticTargets, ProvideTargets, CompileTargets
          DEF OnCompile
<1>2. CASE OnCompileMain
  <2>1. CASE StartMainRejects \/ StartMainFails
    BY <2>1, StageTargets DEF StartMainRejects, StartMainFails, Fails
  <2>2. ASSUME NEW d \in DOMAIN cmd.pending, ResolveRejects(d) \/ ResolveFails(d) PROVE TargetInv'
    BY <2>2, StageTargets DEF ResolveRejects, ResolveFails, Fails
  <2>3. ASSUME NEW a \in cmd.reading, DiscoverRejects(a) \/ DiscoverFails(a) PROVE TargetInv'
    BY <2>3, StageTargets DEF DiscoverRejects, DiscoverFails, Fails
  <2> QED BY <1>2, <2>1, <2>2, <2>3, StartMainTargets, ResolveTargets, DiscoverTargets, CompileMainTargets
          DEF OnCompileMain
<1>3. CASE OnLink
  <2>1. UNCHANGED <<world, archive>> /\ stage' \notin {"weave", "main"}
    BY <1>3 DEF OnLink, StartLink, NextArchive, SkipDep, ResolveDep, DepRejects, DepFails, Link, Fails, AtDep
  <2> QED BY <2>1, StageTargets
<1>4. CASE UNCHANGED ldvars
  <2>1. world' = world /\ stage' = stage /\ archive' = archive /\ cmd' = cmd
    BY <1>4 DEF ldvars
  <2>2. ArchiveTargets
    BY DEF TargetInv
  <2> QED BY <2>1, <2>2, TargetInvNext DEF TargetInv, CommandTargets, IsMain
<1> QED BY <1>1, <1>2, <1>3, <1>4 DEF LDNext

LEMMA InvReachesTargets == LDInv /\ TargetInv => TargetsAreLoaded
<1> SUFFICES ASSUME LDInv, TargetInv, stage = "linked", Links(Main) = {}, NEW p \in Loaded
             PROVE  Links(p) \subseteq Loaded
  BY DEF TargetsAreLoaded
<1> DEFINE A(q) == linker.reg[q]
           S == {q \in Loaded : q = Main \/ DOMAIN FromArchive(A(q)) \subseteq Loaded}
<1>1. /\ world \in Worlds /\ Loaded \in SUBSET Nodes /\ Loaded \subseteq DOMAIN linker.reg /\ Main \in Nodes
  BY LoadedIsThere, Numbers DEF LDInv, LDTypeOK, Loaded, Reached
<1>2. Main \in Loaded /\ \A e \in Loads : e[1] \in Loaded => e[2] \in Loaded
  <2>1. Loads \in SUBSET (Nodes \X Nodes) /\ {Main} \in SUBSET Nodes
    BY <1>1 DEF Loads
  <2> QED BY <2>1, ReachedGrows DEF Loaded
<1>3. ASSUME NEW q \in Loaded
      PROVE  /\ A(q) = Version(q) /\ A(q) \in Compiled /\ A(q).pkg = q /\ (q # Main => A(q) # MainArchive)
             /\ CompiledWith(A(q)) \subseteq Nodes
  <2>1. A(q) = Version(q) /\ A(q) \in Compiled
    BY <1>1, VersionFacts DEF LDInv, LinkerInv, OrderInv
  <2>2. A(q).pkg = q /\ MainArchive.pkg = Main
    BY <1>1, <2>1, VersionFacts DEF MainArchive
  <2>3. CompiledWith(A(q)) \subseteq Nodes
    BY <2>1, FileFacts DEF LDInv, LDTypeOK, CompiledWith
  <2> QED BY <2>1, <2>2, <2>3
<1>4. ASSUME NEW q \in Loaded
      PROVE  CompiledWith(A(q)) \subseteq Loaded
  <2> SUFFICES ASSUME NEW r \in CompiledWith(A(q)) PROVE r \in Loaded
    OBVIOUS
  <2>1. <<q, r>> \in Loads
    BY <1>1, <1>3 DEF Loads
  <2> QED BY <1>2, <2>1
<1>5. \A q \in Loaded : Imports(q) \subseteq Loaded
  BY <1>3, <1>4 DEF LDInv, ArchiveInv
<1>6. ASSUME NEW q \in Loaded
      PROVE  Closure(q) \subseteq Loaded
  <2>1. \A e \in world.imports : e[1] \in Loaded => e[2] \in Loaded
    BY <1>1, <1>5, WorldFacts DEF Imports
  <2>2. Reached({q}, world.imports) \subseteq Loaded
    BY <1>1, <2>1, ReachedIsLeast
  <2> QED BY <1>1, <2>2, ClosureIs
<1>7. \A q \in Loaded : Behind(CompiledWith(A(q))) \subseteq Loaded
  BY <1>4, <1>6 DEF Behind
<1>8. \A e \in Loads : e[1] \in S => e[2] \in S
  <2> SUFFICES ASSUME NEW e \in Loads, e[1] \in S PROVE e[2] \in S
    OBVIOUS
  <2> DEFINE q == e[1]
             r == e[2]
  <2>1. q \in Loaded /\ r \in CompiledWith(A(q)) /\ r \in Loaded
    BY <1>2 DEF Loads
  <2>2. A(r) = archive[A(q)].against[r]
    BY <2>1, InvAgrees DEF FingerprintsAgree
  <2>3. DOMAIN FromArchive(A(r)) \subseteq Recorded(A(q))
    BY <2>1, <2>2 DEF Recorded
  <2>4. Recorded(A(q)) \subseteq Loaded
    <3>1. CASE q = Main
      <4>1. A(q) = MainArchive /\ A(q) \in Compiled
        BY <1>3, <2>1, <3>1 DEF MainArchive
      <4>2. Recorded(A(q)) \subseteq Behind(CompiledWith(A(q)))
        BY <4>1 DEF TargetInv, ArchiveTargets
      <4> QED BY <1>7, <2>1, <4>2
    <3>2. CASE q # Main
      <4>1. A(q) # MainArchive /\ A(q) \in Compiled
        BY <1>3, <2>1, <3>2
      <4>2. Recorded(A(q)) \subseteq DOMAIN FromArchive(A(q)) \cup Behind(CompiledWith(A(q)))
        BY <4>1 DEF TargetInv, ArchiveTargets
      <4> QED BY <1>7, <2>1, <3>2, <4>2
    <3> QED BY <3>1, <3>2
  <2> QED BY <2>1, <2>3, <2>4
<1>9. p \in S
  <2>1. S \in SUBSET Nodes /\ {Main} \subseteq S
    BY <1>1, <1>2
  <2> HIDE DEF S
  <2> QED BY <1>8, <2>1, ReachedIsLeast DEF Loaded
<1>10. CASE p = Main
  BY <1>10
<1>11. CASE p # Main
  <2>1. A(p) # MainArchive /\ A(p) \in Compiled /\ A(p).pkg = p
    BY <1>3, <1>11
  <2>2. Links(p) \subseteq DOMAIN FromArchive(A(p)) \cup Behind(CompiledWith(A(p)))
    BY <2>1 DEF TargetInv, ArchiveTargets
  <2> QED BY <1>7, <1>9, <1>11, <2>2
<1> QED BY <1>10, <1>11

-----------------------------------------------------------------------------
\* Why a build is rejected

Afters == {e \in Nodes \X Packages : e[2] \in After(e[1])}

LEMMA NeededByFacts ==
  ASSUME world \in Worlds, NEW p \in Nodes
  PROVE  /\ p \in NeededBy(p) /\ NeededBy(p) \subseteq Nodes
         /\ \A q \in NeededBy(p) : /\ After(q) \subseteq NeededBy(p) /\ NeededBy(q) \subseteq NeededBy(p)
                                   /\ Closure(q) \subseteq NeededBy(p)
<1>1. Afters \in SUBSET (Nodes \X Nodes) /\ {p} \in SUBSET Nodes
  BY Numbers DEF Afters
<1>2. NeededBy(p) = Reached({p}, Afters)
  BY DEF NeededBy, Afters
<1>3. p \in NeededBy(p) /\ \A e \in Afters : e[1] \in NeededBy(p) => e[2] \in NeededBy(p)
  BY <1>1, <1>2, ReachedGrows
<1>4. NeededBy(p) \in SUBSET Nodes
  BY <1>2 DEF Reached
<1>5. ASSUME NEW q \in NeededBy(p)
      PROVE  After(q) \subseteq NeededBy(p)
  <2> SUFFICES ASSUME NEW r \in After(q) PROVE r \in NeededBy(p)
    OBVIOUS
  <2>1. q \in Nodes /\ r \in Packages
    BY <1>4, WorldFacts DEF After
  <2>2. <<q, r>> \in Afters
    BY <2>1 DEF Afters
  <2> QED BY <1>3, <2>2
<1>6. ASSUME NEW q \in NeededBy(p)
      PROVE  NeededBy(q) \subseteq NeededBy(p)
  <2>1. Reached({q}, Afters) \subseteq NeededBy(p)
    BY <1>3, <1>4, ReachedIsLeast
  <2> QED BY <2>1 DEF NeededBy, Afters
<1>7. ASSUME NEW q \in NeededBy(p)
      PROVE  Closure(q) \subseteq NeededBy(p)
  <2>1. \A e \in world.imports : e[1] \in NeededBy(p) => e[2] \in NeededBy(p)
    BY <1>5, WorldFacts DEF After, Imports
  <2>2. Reached({q}, world.imports) \subseteq NeededBy(p)
    BY <1>4, <2>1, ReachedIsLeast
  <2>3. q \in Nodes
    BY <1>4
  <2> QED BY <2>2, <2>3, ClosureIs
<1> QED BY <1>3, <1>4, <1>5, <1>6, <1>7

\* What is injected into an archive is injected into that of the binary.
LEMMA InjectsAreAfter ==
  ASSUME world \in Worlds, NEW a \in Buildable
  PROVE  /\ Injects(a) \subseteq Injects(Version(a.pkg)) /\ Injects(a) \cup Links(a.pkg) \subseteq After(a.pkg)
         /\ Imports(a.pkg) \subseteq After(a.pkg)
<1>1. a = Version(a.pkg) \/ (a = Ordinary(a.pkg) /\ a.pkg \in Nodes)
  BY BuildableFacts
<1>2. CASE a = Version(a.pkg)
  BY <1>2 DEF After
<1>3. CASE a = Ordinary(a.pkg) /\ a.pkg \in Nodes
  <2>1. ~ a.test /\ Version(a.pkg).pkg = a.pkg
    BY <1>3, VersionFacts
  <2>2. Injects(a) \subseteq Injects(Version(a.pkg))
    BY <2>1 DEF Injects
  <2> QED BY <2>2 DEF After
<1> QED BY <1>1, <1>2, <1>3

LEMMA ExplainedGrows ==
  ASSUME world \in Worlds, NEW p \in Nodes, NEW q \in NeededBy(p), NEW deps, Explained(deps, q)
  PROVE  Explained(deps, p)
BY NeededByFacts DEF Explained, Injected

LEMMA ExplainedRestrict ==
  ASSUME NEW deps \in LinkDepsType, NEW S \in SUBSET DOMAIN deps, NEW p, Explained(deps, p)
  PROVE  Explained(Restrict(deps, S), p)
BY RestrictFacts DEF Explained

LEMMA ExplainedAddAll ==
  ASSUME NEW l \in LinkDepsType, NEW ds \in LinkDepsType, NEW p, Explained(l, p), Explained(ds, p)
  PROVE  Explained(AddAll(l, ds), p)
<1>1. DOMAIN AddAll(l, ds) = DOMAIN l \cup DOMAIN ds
  BY AddAllFacts
<1>2. ASSUME NEW d \in DOMAIN l \cup DOMAIN ds, AddAll(l, ds)[d] = "import"
      PROVE  \/ d \in DOMAIN l /\ l[d] = "import"
             \/ d \in DOMAIN ds /\ ds[d] = "import"
  BY <1>2 DEF AddAll
<1> QED BY <1>1, <1>2 DEF Explained

LEMMA ExplainedNoDeps ==
  ASSUME NEW p
  PROVE  Explained(NoDeps, p)
BY NoDepsFacts DEF Explained

\* The entries of the archives in an import configuration of what is needed.
LEMMA FromImportConfigExplained ==
  ASSUME LDTypeOK, ArchiveReasons, NEW p \in Nodes, NEW reg \in PackageFile,
         \A q \in DOMAIN reg : reg[q] \in Compiled /\ reg[q].pkg = q /\ q \in NeededBy(p)
  PROVE  Explained(FromImportConfig(reg), p)
<1>1. world \in Worlds /\ \A a \in Compiled : archive[a].link \in LinkDepsType
  BY DEF LDTypeOK
<1>2. \A q \in DOMAIN reg : Explained(FromArchive(reg[q]), p)
  BY <1>1, ExplainedGrows DEF ArchiveReasons
<1>3. \A d \in DOMAIN FromImportConfig(reg) : \E q \in DOMAIN reg : d \in DOMAIN FromArchive(reg[q])
  BY <1>1, FromImportConfigFacts
<1>4. ASSUME NEW d \in DOMAIN FromImportConfig(reg), FromImportConfig(reg)[d] = "import"
      PROVE  \E q \in DOMAIN reg : d \in DOMAIN FromArchive(reg[q]) /\ FromArchive(reg[q])[d] = "import"
  BY <1>4 DEF FromImportConfig
<1> QED BY <1>2, <1>3, <1>4 DEF Explained

\* What a compile command provides is needed.
LEMMA ProvidedIsNeeded ==
  ASSUME world \in Worlds, NEW p \in Nodes, NEW q, NEW deps, Explained(deps, p), Provided(p, q, deps)
  PROVE  q \in NeededBy(p)
<1>1. PICK e \in Imports(p) \cup DOMAIN deps : q \in Closure(e)
  BY DEF Provided
<1>2. e \in NeededBy(p)
  BY NeededByFacts DEF Explained, After
<1> QED BY <1>1, <1>2, NeededByFacts

\* An import of a package that has a variant is reason enough.
LEMMA ReasonIsDue ==
  ASSUME LDInv, ArchiveReasons, NEW d, Injected(d, Main), d \in Nodes, HasVariant(d),
         Buildable \ {MainArchive} \subseteq Compiled, Injects(MainArchive) = {}
  PROVE  \E p \in Needed : /\ Version(p) \in Compiled
                           /\ \E q \in CompiledWith(Version(p)) : archive[Version(p)].against[q] # Version(q)
<1>1. PICK p \in NeededBy(Main) : d \in Injects(Version(p)) \ Imports(p)
  BY DEF Injected
<1>2. world \in Worlds /\ p \in Nodes /\ Version(p) # MainArchive /\ Version(p) \in Buildable /\ Version(p).pkg = p
  <2>1. world \in Worlds /\ p \in Nodes
    BY NeededByFacts, Numbers DEF LDInv, LDTypeOK
  <2> QED BY <1>1, <2>1, VersionFacts
<1>3. Version(p) \in Compiled
  BY <1>2
<1>4. archive[Version(p)].against[d] = Ordinary(d)
  BY <1>1, <1>2, <1>3 DEF ArchiveReasons
<1>5. d \in CompiledWith(Version(p))
  BY <1>1, <1>3 DEF LDInv, ArchiveInv
<1>6. Ordinary(d) # Version(d)
  BY <1>2, VersionFacts
<1> QED BY <1>1, <1>3, <1>4, <1>5, <1>6 DEF Needed

LEMMA SameWorld ==
  ASSUME world' = world
  PROVE  /\ \A p : /\ Imports(p)' = Imports(p) /\ Links(p)' = Links(p) /\ Version(p)' = Version(p)
                   /\ NeededBy(p)' = NeededBy(p)
         /\ \A a : Injects(a)' = Injects(a)
         /\ MainArchive' = MainArchive /\ Needed' = Needed
<1>1. \A p : Imports(p)' = Imports(p) /\ Links(p)' = Links(p) /\ Version(p)' = Version(p)
  BY DEF Imports, Links, Version, HasVariant, Closure
<1>2. \A a : Injects(a)' = Injects(a)
  BY DEF Injects
<1>3. MainArchive' = MainArchive
  BY DEF MainArchive, Version, HasVariant, Closure
<1>4. \A p : After(p)' = After(p)
  BY <1>1 DEF After, Injects, Version, HasVariant, Closure, Imports, Links
<1>5. \A p : NeededBy(p)' = NeededBy(p)
  BY <1>4 DEF NeededBy, Reached
<1>6. Needed' = Needed
  BY <1>4 DEF Needed, NeededBy, Reached
<1> QED BY <1>1, <1>2, <1>3, <1>5, <1>6

LEMMA SameExplained ==
  ASSUME world' = world
  PROVE  \A deps, p : Explained(deps, p)' <=> Explained(deps, p)
<1>1. \A d, p : Injected(d, p)' <=> Injected(d, p)
  BY SameWorld DEF Injected, Injects, Imports, Version, HasVariant, Closure
<1> QED BY <1>1, SameWorld DEF Explained

LEMMA ArchiveReasonsNext ==
  ASSUME world' = world, archive' = archive, ArchiveReasons
  PROVE  ArchiveReasons'
<1>1. ASSUME NEW a \in Compiled'
      PROVE  /\ Explained(FromArchive(a), a.pkg)'
             /\ a # MainArchive' =>
                   \A q \in Injects(a)' \ Imports(a.pkg)' : archive'[a].against[q] = Ordinary(q)
  <2>1. a \in Compiled /\ FromArchive(a)' = FromArchive(a)
    BY DEF Compiled, FromArchive
  <2>2. Explained(FromArchive(a), a.pkg)'
    BY <2>1, SameExplained DEF ArchiveReasons, FromArchive
  <2> QED BY <2>1, <2>2, SameWorld DEF ArchiveReasons
<1> QED BY <1>1 DEF ArchiveReasons, Ordinary

LEMMA RejectionNext ==
  ASSUME world' = world, archive' = archive,
         stage' = "rejected" /\ Injects(MainArchive) = {} =>
           \E p \in Needed : /\ Version(p) \in Compiled
                             /\ \E q \in CompiledWith(Version(p)) : archive[Version(p)].against[q] # Version(q)
  PROVE  RejectionIsDue'
<1>1. Compiled' = Compiled /\ Injects(MainArchive)' = Injects(MainArchive)
  BY SameWorld DEF Compiled, Injects, MainArchive, Version, HasVariant, Closure
<1>2. \A p : CompiledWith(Version(p))' = CompiledWith(Version(p))
  BY SameWorld DEF CompiledWith, Version, HasVariant, Closure
<1> QED BY <1>1, <1>2, SameWorld DEF RejectionIsDue

LEMMA CommandReasonsNext ==
  ASSUME world' = world,
         stage' \in {"weave", "main"} =>
           /\ Explained(cmd'.deps, cmd'.of.pkg) /\ Explained(cmd'.pending, cmd'.of.pkg)
           /\ DOMAIN cmd'.pending \cap Imports(cmd'.of.pkg) = {}
           /\ \A q \in DOMAIN cmd'.reg : cmd'.reg[q].pkg = q
           /\ \A q \in DOMAIN cmd'.processed : cmd'.processed[q] = Version(q)
           /\ stage' = "weave" =>
                 /\ \A q \in DOMAIN cmd'.reg \ Imports(cmd'.of.pkg) : cmd'.reg[q] = Ordinary(q)
                 /\ \A b \in cmd'.reading : b = Ordinary(b.pkg)
  PROVE  CommandReasons'
BY DEF CommandReasons, Version, HasVariant, Closure, Imports, Injects, Links, Ordinary, Explained, Injected,
       NeededBy, After, Reached

LEMMA LinkerReasonsNext ==
  ASSUME world' = world, archive' = archive,
         stage' = "link" =>
           /\ DOMAIN linker'.reg \subseteq Needed
           /\ \A a \in linker'.queue : a.pkg \in Needed
           /\ linker'.todo # {} => /\ linker'.item.pkg \in Needed
                                   /\ linker'.todo \subseteq DOMAIN FromArchive(linker'.item)
  PROVE  LinkerReasons'
BY DEF LinkerReasons, FromArchive, Version, HasVariant, Closure, Imports, Injects, Links, Needed, NeededBy, After,
       Reached

\* A step of a compile command, of which only the command changes.
LEMMA CommandStep ==
  ASSUME ReasonInv, world' = world, archive' = archive, stage' \notin {"rejected", "link"}, CommandReasons'
  PROVE  ReasonInv'
<1>1. ArchiveReasons' /\ RejectionIsDue'
  BY ArchiveReasonsNext, RejectionNext DEF ReasonInv
<1>2. LinkerReasons'
  BY DEF LinkerReasons
<1> QED BY <1>1, <1>2 DEF ReasonInv

LEMMA InitReasons == LDInit => ReasonInv
<1> SUFFICES ASSUME LDInit PROVE ReasonInv
  OBVIOUS
<1>1. DOMAIN archive = {} /\ stage = "start"
  BY DEF LDInit
<1> QED BY <1>1 DEF ReasonInv, CommandReasons, ArchiveReasons, LinkerReasons, RejectionIsDue, Compiled

LEMMA StartCompileReasons ==
  ASSUME LDInv, ReasonInv, NEW a \in Buildable, StartCompile(a)
  PROVE  ReasonInv'
<1> DEFINE reg == NaturalOf(a)
           deps == FromImportConfig(NaturalOf(a))
<1>1. /\ stage' = "weave" /\ world' = world /\ archive' = archive
      /\ cmd' = [Idle EXCEPT !.of = a, !.reg = reg, !.deps = deps, !.refs = DOMAIN References(a)]
      /\ a \in Buildable \ Compiled /\ \A b \in Buildable \ Compiled : Rank(a) <= Rank(b)
  BY DEF StartCompile
<1>2. world \in Worlds /\ a.pkg \in Nodes /\ LDTypeOK
  BY BuildableFacts DEF LDInv, LDTypeOK
<1>3. /\ reg \in PackageFile /\ DOMAIN reg = Imports(a.pkg)
      /\ \A q \in Imports(a.pkg) : reg[q] \in Buildable /\ Rank(reg[q]) < Rank(a)
  BY <1>2, NaturalFacts
<1>4. \A q \in DOMAIN reg : reg[q].pkg = q
  BY <1>3 DEF NaturalOf, Natural, Version, Ordinary
<1> HIDE DEF reg
<1>5. \A q \in DOMAIN reg : reg[q] \in Compiled
  <2> TAKE q \in DOMAIN reg
  <2>1. /\ reg[q] \in Buildable /\ Rank(reg[q]) < Rank(a) /\ Rank(reg[q]) \in Nat /\ Rank(a) \in Nat
    BY <1>2, <1>3, BuildableFacts
  <2> QED BY <1>1, <2>1
<1>6. \A q \in DOMAIN reg : q \in NeededBy(a.pkg)
  BY <1>2, <1>3, InjectsAreAfter, NeededByFacts
<1>7. Explained(deps, a.pkg)
  <2>1. Explained(FromImportConfig(reg), a.pkg)
    BY <1>2, <1>3, <1>4, <1>5, <1>6, FromImportConfigExplained DEF ReasonInv
  <2> QED BY <2>1 DEF reg
<1> HIDE DEF deps
<1>8. /\ cmd'.of = a /\ cmd'.reg = reg /\ cmd'.deps = deps /\ cmd'.reading = {}
      /\ cmd'.pending = NoDeps /\ cmd'.processed = NoDeps
  BY <1>1 DEF Idle
<1>9. CommandReasons'
  BY <1>1, <1>3, <1>4, <1>7, <1>8, ExplainedNoDeps, NoDepsFacts, CommandReasonsNext
<1> QED BY <1>1, <1>9, CommandStep

LEMMA SatisfiedReasons ==
  ASSUME LDInv, ReasonInv, NEW d, Satisfied(d)
  PROVE  ReasonInv'
<1>1. /\ stage = "weave" /\ stage' = "weave" /\ world' = world /\ archive' = archive
      /\ cmd' = [cmd EXCEPT !.refs = @ \ {d}]
  BY DEF Satisfied, AtReference
<1>2. cmd \in CommandType
  BY DEF LDInv, LDTypeOK, CommandType
<1>3. /\ cmd'.of = cmd.of /\ cmd'.reg = cmd.reg /\ cmd'.deps = cmd.deps /\ cmd'.reading = cmd.reading
      /\ cmd'.pending = cmd.pending /\ cmd'.processed = cmd.processed
  BY <1>1, <1>2 DEF CommandType
<1>4. CommandReasons'
  BY <1>1, <1>3, CommandReasonsNext DEF ReasonInv, CommandReasons
<1> QED BY <1>1, <1>4, CommandStep

LEMMA SyntheticReasons ==
  ASSUME LDInv, ReasonInv, NEW d \in cmd.refs, Synthetic(d)
  PROVE  ReasonInv'
<1> DEFINE kind == References(cmd.of)[d]
           more == [e \in {d} |-> kind]
           p == cmd.of.pkg
<1>1. /\ stage = "weave" /\ stage' = "weave" /\ world' = world /\ archive' = archive /\ d \notin DOMAIN cmd.reg
      /\ cmd' = [cmd EXCEPT !.refs = @ \ {d}, !.deps = AddAll(@, more),
                            !.reading = IF kind = "relocation" /\ ~IsMain THEN {} ELSE Response(d)]
  BY DEF Synthetic, AtReference
<1>2. cmd \in CommandType /\ world \in Worlds /\ cmd.deps \in LinkDepsType
  BY DEF LDInv, LDTypeOK, CommandType
<1>3. /\ d \in Packages /\ d \in Injects(cmd.of) \cup Links(p) /\ cmd.of \in Buildable /\ p \in Nodes
      /\ d \notin Imports(p)
  <2>1. cmd.of \in Buildable /\ d \in Packages /\ d \in Injects(cmd.of) \cup Links(p)
    BY <1>1, <1>2 DEF CommandType, LDInv, CommandInv, OrderInv
  <2>2. Imports(p) \subseteq DOMAIN cmd.reg
    BY <1>1 DEF LDInv, CommandInv
  <2> QED BY <1>1, <1>2, <2>1, <2>2, BuildableFacts
<1>4. kind \in Kinds /\ (kind = "import" <=> d \in Injects(cmd.of))
  BY <1>3 DEF References, Kinds
<1> HIDE DEF kind
<1>5. more \in LinkDepsType /\ DOMAIN more = {d} /\ more[d] = kind
  BY <1>3, <1>4, SingleFacts
<1> HIDE DEF more
<1>6. /\ cmd'.of = cmd.of /\ cmd'.reg = cmd.reg /\ cmd'.deps = AddAll(cmd.deps, more)
      /\ cmd'.pending = cmd.pending /\ cmd'.processed = cmd.processed
      /\ cmd'.reading = IF kind = "relocation" /\ ~IsMain THEN {} ELSE Response(d)
  BY <1>1, <1>2 DEF CommandType
<1>7. Explained(more, p)
  <2>1. p \in NeededBy(p) /\ After(p) \subseteq NeededBy(p)
    BY <1>2, <1>3, NeededByFacts
  <2>2. d \in NeededBy(p)
    BY <1>2, <1>3, <2>1, InjectsAreAfter
  <2>3. kind = "import" => Injected(d, p)
    BY <1>2, <1>3, <1>4, <2>1, InjectsAreAfter DEF Injected
  <2> QED BY <1>5, <2>2, <2>3 DEF Explained
<1>8. Explained(cmd'.deps, p)
  <2>1. Explained(cmd.deps, p)
    BY <1>1 DEF ReasonInv, CommandReasons
  <2> QED BY <1>2, <1>5, <1>6, <1>7, <2>1, ExplainedAddAll
<1>9. \A b \in cmd'.reading : b = Ordinary(b.pkg)
  BY <1>6 DEF Response, Ordinary
<1>10. CommandReasons'
  BY <1>1, <1>6, <1>8, <1>9, CommandReasonsNext DEF ReasonInv, CommandReasons
<1> QED BY <1>1, <1>10, CommandStep

LEMMA ProvideReasons ==
  ASSUME LDInv, ReasonInv, NEW a \in cmd.reading, Provide(a)
  PROVE  ReasonInv'
<1> DEFINE deps == FromArchive(a)
           rest == DOMAIN deps \ DOMAIN cmd.reg
           more == Restrict(deps, rest)
           p == cmd.of.pkg
<1>1. /\ stage = "weave" /\ stage' = "weave" /\ world' = world /\ archive' = archive
      /\ cmd' = [cmd EXCEPT !.reading = @ \ {a}, !.deps = AddAll(@, more), !.reg = With(@, a.pkg, a)]
  BY DEF Provide
<1>2. /\ cmd \in CommandType /\ world \in Worlds /\ a \in Compiled /\ a \in Archives /\ cmd.reg \in PackageFile
      /\ cmd.deps \in LinkDepsType /\ p \in Nodes
  <2>1. cmd.of \in Buildable /\ a \in Compiled /\ world \in Worlds
    BY <1>1 DEF LDInv, LDTypeOK, OrderInv
  <2> QED BY <2>1, BuildableFacts DEF LDInv, LDTypeOK, CommandType
<1>3. deps \in LinkDepsType /\ Explained(deps, a.pkg)
  BY <1>2 DEF LDInv, LDTypeOK, FromArchive, ReasonInv, ArchiveReasons
<1>4. Explained(cmd.deps, p) /\ Explained(deps, p)
  <2>1. Explained(cmd.deps, p) /\ Provided(p, a.pkg, cmd.deps)
    BY <1>1 DEF ReasonInv, CommandReasons, LDInv, CommandInv
  <2>2. a.pkg \in NeededBy(p)
    BY <1>2, <2>1, ProvidedIsNeeded
  <2> QED BY <1>2, <1>3, <2>1, <2>2, ExplainedGrows
<1> HIDE DEF deps
<1>5. more \in LinkDepsType /\ Explained(more, p)
  <2>1. rest \in SUBSET DOMAIN deps
    OBVIOUS
  <2> HIDE DEF rest
  <2>2. Restrict(deps, rest) \in LinkDepsType
    BY <1>3, <2>1, RestrictFacts
  <2>3. Explained(Restrict(deps, rest), p)
    BY <1>3, <1>4, <2>1, ExplainedRestrict
  <2> QED BY <2>2, <2>3
<1> HIDE DEF more
<1>6. /\ cmd'.of = cmd.of /\ cmd'.reg = With(cmd.reg, a.pkg, a) /\ cmd'.deps = AddAll(cmd.deps, more)
      /\ cmd'.pending = cmd.pending /\ cmd'.processed = cmd.processed /\ cmd'.reading = cmd.reading \ {a}
  BY <1>1, <1>2 DEF CommandType
<1>7. Explained(cmd'.deps, p)
  BY <1>2, <1>4, <1>5, <1>6, ExplainedAddAll
<1>8. /\ DOMAIN cmd'.reg = DOMAIN cmd.reg \cup {a.pkg}
      /\ \A q \in DOMAIN cmd.reg : cmd'.reg[q] = cmd.reg[q]
      /\ a.pkg \notin DOMAIN cmd.reg => cmd'.reg[a.pkg] = a
  BY <1>6 DEF With
<1>9. /\ \A q \in DOMAIN cmd.reg : cmd.reg[q].pkg = q
      /\ \A q \in DOMAIN cmd.reg \ Imports(p) : cmd.reg[q] = Ordinary(q)
      /\ a = Ordinary(a.pkg)
  BY <1>1 DEF ReasonInv, CommandReasons
<1>10. /\ \A q \in DOMAIN cmd'.reg : cmd'.reg[q].pkg = q
       /\ \A q \in DOMAIN cmd'.reg \ Imports(p) : cmd'.reg[q] = Ordinary(q)
  BY <1>8, <1>9
<1>11. CommandReasons'
  BY <1>1, <1>6, <1>7, <1>10, CommandReasonsNext DEF ReasonInv, CommandReasons
<1> QED BY <1>1, <1>11, CommandStep

\* An archive records what its compile command did.
LEMMA CompiledReasons ==
  ASSUME LDInv, ReasonInv, stage \in {"weave", "main"}, stage' \in {"start", "compiled"},
         stage = "weave" => cmd.reading = {} /\ cmd.refs = {}, stage = "main" => IsMain,
         NEW imported, Imports(cmd.of.pkg) \cup Injects(cmd.of) \subseteq imported,
         world' = world, archive' = Output(imported)
  PROVE  ReasonInv'
<1> DEFINE a == cmd.of
           made == [link |-> cmd.deps, against |-> Restrict(cmd.reg, imported \cap DOMAIN cmd.reg)]
           Good(b, m) ==
             /\ Explained(m.link, b.pkg)
             /\ b # MainArchive => \A q \in Injects(b) \ Imports(b.pkg) : m.against[q] = Ordinary(q)
<1>1. cmd \in CommandType /\ a \in Buildable \ Compiled
  BY DEF LDInv, LDTypeOK, CommandType, OrderInv
<1>2. /\ DOMAIN archive' = Compiled \cup {a} /\ archive'[a] = made
      /\ \A b \in Compiled : archive'[b] = archive[b]
  BY <1>1 DEF Output, With, Compiled
<1>3. \A b \in Compiled : Good(b, archive[b])
  BY DEF ReasonInv, ArchiveReasons, FromArchive
<1>4. Good(a, made)
  <2>1. Explained(made.link, a.pkg)
    BY DEF ReasonInv, CommandReasons
  <2>2. ASSUME a # MainArchive, NEW q \in Injects(a) \ Imports(a.pkg)
        PROVE  made.against[q] = Ordinary(q)
    <3>1. stage = "weave"
      BY <2>2 DEF IsMain
    <3>2. q \in imported \cap DOMAIN cmd.reg
      BY <2>2, <3>1 DEF LDInv, CommandInv
    <3>3. cmd.reg[q] = Ordinary(q)
      BY <2>2, <3>1, <3>2 DEF ReasonInv, CommandReasons
    <3> QED BY <3>2, <3>3 DEF Restrict
  <2> QED BY <2>1, <2>2
<1> HIDE DEF made, Good
<1>5. \A b \in DOMAIN archive' : Good(b, archive'[b])
  BY <1>2, <1>3, <1>4
<1>6. ArchiveReasons'
  <2>1. ASSUME NEW b \in Compiled'
        PROVE  /\ Explained(FromArchive(b), b.pkg)'
               /\ b # MainArchive' =>
                     \A q \in Injects(b)' \ Imports(b.pkg)' : archive'[b].against[q] = Ordinary(q)
    <3>1. Good(b, archive'[b]) /\ FromArchive(b)' = archive'[b].link
      BY <1>5 DEF Compiled, FromArchive
    <3>2. Explained(FromArchive(b), b.pkg)'
      BY <3>1, SameExplained DEF Good, FromArchive
    <3> QED BY <3>1, <3>2, SameWorld DEF Good
  <2> QED BY <2>1 DEF ArchiveReasons, Ordinary
<1>7. CommandReasons' /\ LinkerReasons' /\ RejectionIsDue'
  BY DEF CommandReasons, LinkerReasons, RejectionIsDue
<1> QED BY <1>6, <1>7 DEF ReasonInv

LEMMA CompileReasons ==
  ASSUME LDInv, ReasonInv, Compile \/ CompileMain
  PROVE  ReasonInv'
<1>1. CASE Compile
  BY <1>1, CompiledReasons DEF Compile, Woven
<1>2. CASE CompileMain
  <2> DEFINE imported == Imports(Main) \cup Injects(cmd.of) \cup cmd.newDeps
  <2>1. /\ stage = "main" /\ stage' = "compiled" /\ world' = world /\ archive' = Output(imported)
    BY <1>2 DEF CompileMain
  <2>2. IsMain /\ cmd.of.pkg = Main
    <3>1. cmd.of = MainArchive /\ world \in Worlds
      BY <2>1 DEF LDInv, LDTypeOK, OrderInv, IsMain
    <3> QED BY <3>1, VersionFacts, Numbers DEF IsMain, MainArchive
  <2>3. Imports(cmd.of.pkg) \cup Injects(cmd.of) \subseteq imported
    BY <2>2
  <2> HIDE DEF imported
  <2> QED BY <2>1, <2>2, <2>3, CompiledReasons
<1> QED BY <1>1, <1>2

\* What the compile command of the main package has is needed.
LEMMA MainFacts ==
  ASSUME LDInv, ReasonInv, stage \in {"weave", "main"}, IsMain
  PROVE  /\ world \in Worlds /\ cmd \in CommandType /\ cmd.of = MainArchive /\ cmd.of.pkg = Main
         /\ Buildable \ {MainArchive} \subseteq Compiled
         /\ \A q \in DOMAIN cmd.reg : cmd.reg[q] \in Compiled /\ cmd.reg[q].pkg = q /\ q \in Needed
         /\ \A b \in cmd.reading : b \in Compiled /\ b.pkg \in Needed
         /\ \A a \in Compiled : a.pkg \in Needed => Explained(FromArchive(a), Main)
<1>1. world \in Worlds /\ cmd \in CommandType /\ cmd.of = MainArchive
  BY DEF LDInv, LDTypeOK, CommandType, IsMain
<1>2. cmd.of.pkg = Main
  BY <1>1, VersionFacts, Numbers DEF MainArchive
<1>3. Buildable \ {MainArchive} \subseteq Compiled
  <2> SUFFICES ASSUME NEW b \in Buildable, b # MainArchive, b \notin Compiled PROVE FALSE
    OBVIOUS
  <2>1. Rank(MainArchive) <= Rank(b)
    BY <1>1 DEF LDInv, OrderInv
  <2>2. MainArchive \in Buildable
    BY <1>1, VersionFacts, Numbers DEF MainArchive
  <2>3. Rank(b) < Rank(MainArchive) /\ Rank(b) \in Nat /\ Rank(MainArchive) \in Nat
    BY <1>1, <2>2, BuildableFacts
  <2> QED BY <2>1, <2>3
<1>4. ASSUME NEW q \in DOMAIN cmd.reg
      PROVE  cmd.reg[q] \in Compiled /\ cmd.reg[q].pkg = q /\ q \in Needed
  <2>1. Provided(Main, q, cmd.deps) /\ Explained(cmd.deps, Main) /\ cmd.reg[q].pkg = q
    BY <1>2 DEF LDInv, CommandInv, ReasonInv, CommandReasons
  <2>2. q \in NeededBy(Main)
    BY <1>1, <2>1, ProvidedIsNeeded, Numbers
  <2> QED BY <2>1, <2>2 DEF Needed, LDInv, OrderInv, Range
<1>5. ASSUME NEW b \in cmd.reading
      PROVE  b \in Compiled /\ b.pkg \in Needed
  <2>1. Provided(Main, b.pkg, cmd.deps) /\ Explained(cmd.deps, Main)
    BY <1>2 DEF LDInv, CommandInv, ReasonInv, CommandReasons
  <2>2. b.pkg \in NeededBy(Main)
    BY <1>1, <2>1, ProvidedIsNeeded, Numbers
  <2> QED BY <2>2 DEF Needed, LDInv, OrderInv
<1>6. ASSUME NEW a \in Compiled, a.pkg \in Needed
      PROVE  Explained(FromArchive(a), Main)
  <2>1. Explained(FromArchive(a), a.pkg) /\ a.pkg \in NeededBy(Main)
    BY <1>6 DEF ReasonInv, ArchiveReasons, Needed
  <2> QED BY <1>1, <2>1, ExplainedGrows, Numbers
<1> QED BY <1>1, <1>2, <1>3, <1>4, <1>5, <1>6

LEMMA StartMainReasons ==
  ASSUME LDInv, ReasonInv, StartMain
  PROVE  ReasonInv'
<1> DEFINE initial == FromImportConfig(cmd.reg)
<1>1. /\ stage = "weave" /\ stage' = "main" /\ world' = world /\ archive' = archive /\ IsMain
      /\ cmd' = [cmd EXCEPT !.pending = initial, !.newDeps = DOMAIN initial]
  BY DEF StartMain, Woven
<1>2. /\ cmd \in CommandType /\ cmd.of.pkg = Main /\ LDTypeOK /\ cmd.reg \in PackageFile
      /\ \A q \in DOMAIN cmd.reg : cmd.reg[q] \in Compiled /\ cmd.reg[q].pkg = q /\ q \in NeededBy(Main)
  <2>1. cmd \in CommandType /\ LDTypeOK /\ cmd.reg \in PackageFile
    BY DEF LDInv, LDTypeOK, CommandType
  <2> QED BY <1>1, <2>1, MainFacts DEF Needed
<1>3. Explained(initial, Main)
  BY <1>2, FromImportConfigExplained, Numbers DEF ReasonInv
<1>4. DOMAIN initial \cap Imports(Main) = {}
  <2>1. Imports(Main) \subseteq DOMAIN cmd.reg
    BY <1>1, <1>2 DEF LDInv, CommandInv
  <2> QED BY <2>1 DEF FromImportConfig
<1> HIDE DEF initial
<1>5. /\ cmd'.of = cmd.of /\ cmd'.reg = cmd.reg /\ cmd'.deps = cmd.deps /\ cmd'.pending = initial
      /\ cmd'.processed = cmd.processed
  BY <1>1, <1>2 DEF CommandType
<1>6. CommandReasons'
  BY <1>1, <1>2, <1>3, <1>4, <1>5, CommandReasonsNext DEF ReasonInv, CommandReasons
<1> QED BY <1>1, <1>6, CommandStep

LEMMA ResolveReasons ==
  ASSUME LDInv, ReasonInv, NEW d \in DOMAIN cmd.pending, Resolve(d)
  PROVE  ReasonInv'
<1> DEFINE resp == ResponseForTest(d)
           kept == DOMAIN cmd.pending \ {d}
           rest == Restrict(cmd.pending, kept)
<1>1. /\ stage = "main" /\ stage' = "main" /\ world' = world /\ archive' = archive /\ ~ MergeRefused(resp)
      /\ cmd' = [cmd EXCEPT !.pending = rest, !.processed = MergeResolved(@, resp),
                            !.reg = MergeResolved(@, resp), !.reading = resp]
  BY DEF Resolve, AtPending, Refused
<1>2. /\ cmd \in CommandType /\ world \in Worlds /\ cmd.pending \in LinkDepsType
      /\ cmd.reg \in PackageFile /\ cmd.processed \in PackageFile /\ d \in Packages
  <2>1. cmd \in CommandType /\ world \in Worlds /\ cmd.pending \in LinkDepsType
    BY DEF LDInv, LDTypeOK, CommandType
  <2> QED BY <2>1, LinkDepsFacts DEF CommandType
<1>3. resp \in SUBSET Archives /\ \A b \in resp : b = Version(b.pkg)
  BY <1>1, <1>2, ResponseFacts
<1> HIDE DEF resp
<1>4. Explained(rest, cmd.of.pkg) /\ DOMAIN rest \subseteq DOMAIN cmd.pending
  <2>1. Explained(cmd.pending, cmd.of.pkg) /\ kept \in SUBSET DOMAIN cmd.pending
    BY <1>1 DEF ReasonInv, CommandReasons
  <2> HIDE DEF kept
  <2>2. Explained(Restrict(cmd.pending, kept), cmd.of.pkg)
    BY <1>2, <2>1, ExplainedRestrict
  <2>3. DOMAIN Restrict(cmd.pending, kept) = kept
    BY <1>2, <2>1, RestrictFacts
  <2> QED BY <2>1, <2>2, <2>3
<1> HIDE DEF rest
<1>5. /\ cmd'.of = cmd.of /\ cmd'.reg = MergeResolved(cmd.reg, resp) /\ cmd'.deps = cmd.deps
      /\ cmd'.pending = rest /\ cmd'.processed = MergeResolved(cmd.processed, resp)
  BY <1>1, <1>2 DEF CommandType
<1>6. ASSUME NEW f \in PackageFile, NEW q \in DOMAIN MergeResolved(f, resp)
      PROVE  \/ /\ MergeResolved(f, resp)[q].pkg = q
                /\ MergeResolved(f, resp)[q] = Version(q)
             \/ q \in DOMAIN f /\ MergeResolved(f, resp)[q] = f[q]
  <2>1. \/ \E b \in resp : b.pkg = q /\ MergeResolved(f, resp)[q] = b
        \/ q \in DOMAIN f /\ MergeResolved(f, resp)[q] = f[q]
    BY <1>3, MergeFacts
  <2> QED BY <1>3, <2>1
<1>7. /\ \A q \in DOMAIN cmd'.reg : cmd'.reg[q].pkg = q
      /\ \A q \in DOMAIN cmd'.processed : cmd'.processed[q] = Version(q)
  <2>1. /\ \A q \in DOMAIN cmd.reg : cmd.reg[q].pkg = q
        /\ \A q \in DOMAIN cmd.processed : cmd.processed[q] = Version(q)
    BY <1>1 DEF ReasonInv, CommandReasons
  <2> QED BY <1>2, <1>5, <1>6, <2>1
<1>8. CommandReasons'
  BY <1>1, <1>4, <1>5, <1>7, CommandReasonsNext DEF ReasonInv, CommandReasons
<1> QED BY <1>1, <1>8, CommandStep

LEMMA DiscoverReasons ==
  ASSUME LDInv, ReasonInv, NEW a \in cmd.reading, Discover(a)
  PROVE  ReasonInv'
<1> DEFINE deps == FromArchive(a)
           new == DOMAIN deps \ (DOMAIN cmd.processed \cup DOMAIN cmd.reg)
           all == new \cup (DOMAIN deps \cap DOMAIN cmd.pending)
           found == Restrict(deps, all)
<1>1. /\ stage = "main" /\ stage' = "main" /\ world' = world /\ archive' = archive
      /\ cmd' = [cmd EXCEPT !.reading = @ \ {a}, !.pending = AddAll(@, found),
                            !.deps = AddAll(@, found), !.newDeps = @ \cup new]
  BY DEF Discover
<1>2. IsMain
  BY <1>1 DEF LDInv, OrderInv
<1>3. /\ cmd \in CommandType /\ cmd.of.pkg = Main /\ a \in Compiled /\ Explained(deps, Main)
      /\ cmd.deps \in LinkDepsType /\ cmd.pending \in LinkDepsType /\ deps \in LinkDepsType
  <2>1. cmd \in CommandType /\ cmd.of.pkg = Main /\ a \in Compiled /\ Explained(deps, Main)
    BY <1>1, <1>2, MainFacts
  <2> QED BY <2>1 DEF CommandType, LDInv, LDTypeOK, FromArchive
<1>4. all \subseteq DOMAIN deps /\ all \cap Imports(Main) = {}
  <2>1. Imports(Main) \subseteq DOMAIN cmd.reg /\ DOMAIN cmd.pending \cap Imports(Main) = {}
    BY <1>1, <1>3 DEF LDInv, CommandInv, ReasonInv, CommandReasons
  <2> QED BY <2>1
<1> HIDE DEF deps, new, all
<1>5. found \in LinkDepsType /\ DOMAIN found = all
  BY <1>3, <1>4, RestrictFacts
<1>6. Explained(found, Main)
  BY <1>3, <1>4, ExplainedRestrict
<1> HIDE DEF found
<1>7. /\ cmd'.of = cmd.of /\ cmd'.reg = cmd.reg /\ cmd'.deps = AddAll(cmd.deps, found)
      /\ cmd'.pending = AddAll(cmd.pending, found) /\ cmd'.processed = cmd.processed
  BY <1>1, <1>3 DEF CommandType
<1>8. Explained(cmd'.deps, Main) /\ Explained(cmd'.pending, Main)
  <2>1. Explained(cmd.deps, Main) /\ Explained(cmd.pending, Main)
    BY <1>1, <1>3 DEF ReasonInv, CommandReasons
  <2>2. Explained(AddAll(cmd.deps, found), Main)
    BY <1>3, <1>5, <1>6, <2>1, ExplainedAddAll
  <2>3. Explained(AddAll(cmd.pending, found), Main)
    BY <1>3, <1>5, <1>6, <2>1, ExplainedAddAll
  <2> QED BY <1>7, <2>2, <2>3
<1>9. DOMAIN cmd'.pending \cap Imports(Main) = {}
  <2>1. DOMAIN cmd.pending \cap Imports(Main) = {}
    BY <1>1, <1>3 DEF ReasonInv, CommandReasons
  <2>2. DOMAIN AddAll(cmd.pending, found) = DOMAIN cmd.pending \cup all
    BY <1>3, <1>5, AddAllFacts
  <2> QED BY <1>4, <1>7, <2>1, <2>2
<1>10. CommandReasons'
  BY <1>1, <1>3, <1>7, <1>8, <1>9, CommandReasonsNext DEF ReasonInv, CommandReasons
<1> QED BY <1>1, <1>10, CommandStep

\* A build ends for an entry that says import of a package that has a variant.
LEMMA RejectedForReason ==
  ASSUME LDInv, ReasonInv, Fails("rejected"), Buildable \ {MainArchive} \subseteq Compiled,
         NEW d \in Nodes, NEW deps, Explained(deps, Main), d \in DOMAIN deps, deps[d] = "import", HasVariant(d)
  PROVE  ReasonInv'
<1>1. world' = world /\ archive' = archive /\ stage' = "rejected"
  BY DEF Fails
<1>2. Injected(d, Main)
  BY DEF Explained
<1>3. RejectionIsDue'
  BY <1>1, <1>2, ReasonIsDue, RejectionNext DEF ReasonInv
<1>4. CommandReasons' /\ LinkerReasons'
  BY <1>1 DEF CommandReasons, LinkerReasons
<1> QED BY <1>1, <1>3, <1>4, ArchiveReasonsNext DEF ReasonInv

LEMMA FailedReasons ==
  ASSUME ReasonInv, Fails("failed")
  PROVE  ReasonInv'
<1>1. world' = world /\ archive' = archive /\ stage' = "failed"
  BY DEF Fails
<1>2. CommandReasons'
  BY <1>1 DEF CommandReasons
<1> QED BY <1>1, <1>2, CommandStep

\* The package under test is only asked for when the main package does not import it.
LEMMA TargetIsImported ==
  ASSUME world \in Worlds, NEW d \in Packages, MergeRefused(ResponseForTest(d))
  PROVE  d = world.target /\ Testing
<1>1. d \in Nodes /\ Closure(d) \subseteq Nodes /\ world.target \in Packages \cup {NoPackage}
  BY Numbers, ClosureFacts, WorldFacts
<1>2. \A q \in Nodes : Version(q).pkg = q
  BY VersionFacts
<1>3. d = world.target
  <2> SUFFICES ASSUME d # world.target PROVE FALSE
    OBVIOUS
  <2>1. ResponseForTest(d) = {Version(q) : q \in Closure(d) \ {world.target}}
    BY DEF ResponseForTest
  <2> QED BY <1>1, <1>2, <2>1 DEF MergeRefused
<1>4. Testing
  BY <1>1, <1>3, LinkDepsAssumption DEF Testing
<1> QED BY <1>3, <1>4

LEMMA RejectsVariantFacts ==
  ASSUME world \in Worlds, NEW d \in Nodes, NEW kind, RejectsVariant(kind, Version(d))
  PROVE  kind = "import" /\ HasVariant(d)
BY VersionFacts DEF RejectsVariant

LEMMA StartMainRejectsReasons ==
  ASSUME LDInv, ReasonInv, StartMainRejects
  PROVE  ReasonInv'
<1>1. stage = "weave" /\ IsMain /\ Fails("rejected") /\ HasVariant(world.target) /\ InitialProvenance
  BY DEF StartMainRejects, Woven, InitialRejected
<1>2. PICK q \in DOMAIN cmd.reg : \E d \in DOMAIN FromArchive(cmd.reg[q]) :
         d \in DOMAIN cmd.reg /\ AsksProvenance(d, FromArchive(cmd.reg[q])[d])
  BY <1>1 DEF InitialProvenance
<1> PICK d \in DOMAIN FromArchive(cmd.reg[q]) :
         d \in DOMAIN cmd.reg /\ AsksProvenance(d, FromArchive(cmd.reg[q])[d])
  BY <1>2
<1>3. d = world.target /\ FromArchive(cmd.reg[q])[d] = "import"
  BY DEF AsksProvenance
<1>4. Explained(FromArchive(cmd.reg[q]), Main) /\ Buildable \ {MainArchive} \subseteq Compiled
  BY <1>1, <1>2, MainFacts
<1>5. d \in Nodes
  BY <1>2, FileFacts DEF LDInv, LDTypeOK
<1> QED BY <1>1, <1>2, <1>3, <1>4, <1>5, RejectedForReason

LEMMA ResolveRejectsReasons ==
  ASSUME LDInv, ReasonInv, NEW d \in DOMAIN cmd.pending, ResolveRejects(d)
  PROVE  ReasonInv'
<1>1. stage = "main" /\ Fails("rejected") /\ Refused(d, cmd.pending[d], ResponseForTest(d))
  BY DEF ResolveRejects, AtPending
<1>2. IsMain
  BY <1>1 DEF LDInv, OrderInv
<1>3. world \in Worlds /\ cmd.of.pkg = Main /\ Buildable \ {MainArchive} \subseteq Compiled
  BY <1>1, <1>2, MainFacts
<1>4. d \in Packages /\ d \in Nodes
  BY LinkDepsFacts, Numbers DEF LDInv, LDTypeOK
<1>5. Explained(cmd.pending, Main) /\ d \notin Imports(Main)
  BY <1>1, <1>3 DEF ReasonInv, CommandReasons
<1>6. ~ MergeRefused(ResponseForTest(d))
  BY <1>3, <1>4, <1>5, TargetIsImported, WorldFacts
<1>7. cmd.pending[d] = "import" /\ HasVariant(d)
  BY <1>1, <1>3, <1>4, <1>6, RejectsVariantFacts DEF Refused
<1> QED BY <1>1, <1>3, <1>4, <1>5, <1>7, RejectedForReason

LEMMA DiscoverRejectsReasons ==
  ASSUME LDInv, ReasonInv, NEW a \in cmd.reading, DiscoverRejects(a)
  PROVE  ReasonInv'
<1>1. stage = "main" /\ Fails("rejected") /\ AnyConflict(a)
  BY DEF DiscoverRejects
<1>2. IsMain
  BY <1>1 DEF LDInv, OrderInv
<1>3. /\ world \in Worlds /\ Buildable \ {MainArchive} \subseteq Compiled
      /\ a \in Compiled /\ Explained(FromArchive(a), Main)
  BY <1>1, <1>2, MainFacts
<1>4. PICK d \in DOMAIN FromArchive(a) : Conflicts(d, FromArchive(a)[d])
  BY <1>1 DEF AnyConflict
<1>5. d \in Nodes
  <2>1. FromArchive(a) \in LinkDepsType
    BY <1>3 DEF LDInv, LDTypeOK, FromArchive
  <2> QED BY <1>4, <2>1, LinkDepsFacts, Numbers
<1>6. RejectsVariant(FromArchive(a)[d], Version(d))
  <2>1. d \in DOMAIN cmd.processed => cmd.processed[d] = Version(d)
    BY <1>1 DEF ReasonInv, CommandReasons
  <2> QED BY <1>4, <2>1 DEF Conflicts, RejectsSatisfied
<1>7. FromArchive(a)[d] = "import" /\ HasVariant(d)
  BY <1>3, <1>5, <1>6, RejectsVariantFacts
<1> QED BY <1>1, <1>3, <1>4, <1>5, <1>7, RejectedForReason

\* Steps of the linker that go on.
LEMMA LinkerStep ==
  ASSUME ReasonInv, world' = world, archive' = archive, stage' \in {"link", "linked"}, LinkerReasons'
  PROVE  ReasonInv'
<1>1. ArchiveReasons' /\ RejectionIsDue'
  BY ArchiveReasonsNext, RejectionNext DEF ReasonInv
<1>2. CommandReasons'
  BY DEF CommandReasons
<1> QED BY <1>1, <1>2 DEF ReasonInv

LEMMA StartLinkReasons ==
  ASSUME LDInv, ReasonInv, StartLink
  PROVE  ReasonInv'
<1> DEFINE reg == [p \in Closure(Main) |-> Version(p)]
<1>1. /\ stage' = "link" /\ world' = world /\ archive' = archive
      /\ linker' = [NoLink EXCEPT !.reg = reg, !.queue = ToRead(Range(reg))]
  BY DEF StartLink
<1>2. linker'.reg = reg /\ linker'.queue \subseteq Range(reg) /\ linker'.todo = {}
  BY <1>1 DEF NoLink, ToRead
<1>3. Closure(Main) \subseteq Needed /\ Closure(Main) \subseteq Nodes /\ world \in Worlds
  BY NeededByFacts, ClosureFacts, Numbers DEF Needed, LDInv, LDTypeOK
<1>4. \A a \in Range(reg) : a.pkg \in Needed
  BY <1>3, VersionFacts DEF Range
<1>5. DOMAIN reg = Closure(Main)
  OBVIOUS
<1> HIDE DEF reg
<1>6. LinkerReasons'
  BY <1>1, <1>2, <1>3, <1>4, <1>5, LinkerReasonsNext
<1> QED BY <1>1, <1>6, LinkerStep

LEMMA NextArchiveReasons ==
  ASSUME LDInv, ReasonInv, NEW a \in linker.queue, NextArchive(a)
  PROVE  ReasonInv'
<1>1. /\ stage = "link" /\ stage' = "link" /\ world' = world /\ archive' = archive
      /\ linker' = [linker EXCEPT !.queue = @ \ {a}, !.processed = @ \cup {a}, !.item = a,
                                  !.todo = DOMAIN FromArchive(a)]
  BY DEF NextArchive
<1>2. linker \in LinkerType
  BY DEF LDInv, LDTypeOK, LinkerType
<1>3. /\ linker'.reg = linker.reg /\ linker'.queue = linker.queue \ {a} /\ linker'.item = a
      /\ linker'.todo = DOMAIN FromArchive(a)
  BY <1>1, <1>2 DEF LinkerType
<1>4. LinkerReasons'
  BY <1>1, <1>3, LinkerReasonsNext DEF ReasonInv, LinkerReasons
<1> QED BY <1>1, <1>4, LinkerStep

LEMMA SkipDepReasons ==
  ASSUME LDInv, ReasonInv, NEW d, SkipDep(d)
  PROVE  ReasonInv'
<1>1. /\ stage = "link" /\ stage' = "link" /\ world' = world /\ archive' = archive
      /\ linker' = [linker EXCEPT !.todo = @ \ {d}]
  BY DEF SkipDep, AtDep
<1>2. linker \in LinkerType
  BY DEF LDInv, LDTypeOK, LinkerType
<1>3. /\ linker'.reg = linker.reg /\ linker'.queue = linker.queue /\ linker'.item = linker.item
      /\ linker'.todo = linker.todo \ {d}
  BY <1>1, <1>2 DEF LinkerType
<1>4. LinkerReasons'
  BY <1>1, <1>3, LinkerReasonsNext DEF ReasonInv, LinkerReasons
<1> QED BY <1>1, <1>4, LinkerStep

\* What the linker has to settle.
LEMMA DepFacts ==
  ASSUME LDInv, ReasonInv, NEW d, AtDep(d)
  PROVE  /\ stage = "link" /\ world \in Worlds /\ d \in Packages /\ d \in Nodes /\ d \in Needed
         /\ d \in DOMAIN FromArchive(linker.item) /\ Explained(FromArchive(linker.item), Main)
         /\ ~ LinkSatisfied(d) => ~ MergeRefused(ResponseForTest(d))
<1>1. stage = "link" /\ d \in linker.todo /\ linker.todo # {}
  BY DEF AtDep
<1>2. world \in Worlds /\ linker.item \in Compiled /\ d \in Packages /\ Closure(Main) \subseteq DOMAIN linker.reg
  BY <1>1 DEF LDInv, LDTypeOK, LinkerInv
<1>3. d \in DOMAIN FromArchive(linker.item) /\ linker.item.pkg \in NeededBy(Main)
  BY <1>1 DEF ReasonInv, LinkerReasons, Needed
<1>4. Explained(FromArchive(linker.item), Main)
  <2>1. Explained(FromArchive(linker.item), linker.item.pkg)
    BY <1>2 DEF ReasonInv, ArchiveReasons
  <2> QED BY <1>2, <1>3, <2>1, ExplainedGrows, Numbers
<1>5. d \in Needed
  BY <1>3, <1>4 DEF Explained, Needed
<1>6. ~ LinkSatisfied(d) => ~ MergeRefused(ResponseForTest(d))
  <2> SUFFICES ASSUME MergeRefused(ResponseForTest(d)) PROVE LinkSatisfied(d)
    OBVIOUS
  <2>1. d = world.target /\ d \in Imports(Main)
    BY <1>2, TargetIsImported, WorldFacts
  <2>2. d \in DOMAIN linker.reg
    BY <1>2, <2>1, ClosureFacts, Numbers
  <2> QED BY <2>1, <2>2 DEF LinkSatisfied
<1> QED BY <1>1, <1>2, <1>3, <1>4, <1>5, <1>6, Numbers

LEMMA ResolveDepReasons ==
  ASSUME LDInv, ReasonInv, NEW d, ResolveDep(d)
  PROVE  ReasonInv'
<1> DEFINE resp == ResponseForTest(d)
           reg == MergeResolved(linker.reg, resp)
           more == ToRead(Range(reg) \ Range(linker.reg)) \ linker.processed
<1>1. /\ AtDep(d) /\ ~ LinkSatisfied(d) /\ stage' = "link" /\ world' = world /\ archive' = archive
      /\ linker' = [linker EXCEPT !.todo = @ \ {d}, !.reg = reg, !.queue = @ \cup more]
  BY DEF ResolveDep, AtDep
<1>2. linker \in LinkerType
  BY DEF LDInv, LDTypeOK, LinkerType
<1>3. stage = "link" /\ world \in Worlds /\ d \in Packages /\ d \in Needed /\ ~ MergeRefused(resp)
  BY <1>1, DepFacts
<1>4. /\ resp \in SUBSET Archives /\ {b.pkg : b \in resp} = Closure(d) \ {world.target}
  BY <1>3, ResponseFacts
<1>5. Closure(d) \subseteq Needed
  BY <1>3, NeededByFacts, Numbers DEF Needed
<1> HIDE DEF resp
<1>6. /\ DOMAIN reg = DOMAIN linker.reg \cup {b.pkg : b \in resp}
      /\ \A p \in DOMAIN reg : \/ \E b \in resp : b.pkg = p /\ reg[p] = b
                               \/ p \in DOMAIN linker.reg /\ reg[p] = linker.reg[p]
  <2>1. linker.reg \in PackageFile
    BY <1>2 DEF LinkerType
  <2> QED BY <1>4, <2>1, MergeFacts
<1> HIDE DEF reg
<1>7. DOMAIN reg \subseteq Needed
  BY <1>3, <1>4, <1>5, <1>6 DEF ReasonInv, LinkerReasons
<1>8. \A a \in more : a.pkg \in Needed
  <2> SUFFICES ASSUME NEW a \in more PROVE a.pkg \in Needed
    OBVIOUS
  <2>1. PICK p \in DOMAIN reg : a = reg[p] /\ a \notin Range(linker.reg)
    BY DEF ToRead, Range
  <2>2. \E b \in resp : b.pkg = p /\ reg[p] = b
    BY <1>6, <2>1 DEF Range
  <2> QED BY <1>7, <2>1, <2>2
<1> HIDE DEF more
<1>9. /\ linker'.reg = reg /\ linker'.queue = linker.queue \cup more /\ linker'.item = linker.item
      /\ linker'.todo = linker.todo \ {d}
  BY <1>1, <1>2 DEF LinkerType
<1>10. LinkerReasons'
  BY <1>1, <1>3, <1>7, <1>8, <1>9, LinkerReasonsNext DEF ReasonInv, LinkerReasons
<1> QED BY <1>1, <1>10, LinkerStep

LEMMA DepRejectsReasons ==
  ASSUME LDInv, ReasonInv, NEW d, DepRejects(d)
  PROVE  ReasonInv'
<1>1. AtDep(d) /\ LinkRefused(d) /\ Fails("rejected")
  BY DEF DepRejects
<1>2. /\ stage = "link" /\ world \in Worlds /\ d \in Nodes
      /\ d \in DOMAIN FromArchive(linker.item) /\ Explained(FromArchive(linker.item), Main)
      /\ ~ LinkSatisfied(d) => ~ MergeRefused(ResponseForTest(d))
  BY <1>1, DepFacts
<1>3. RejectsVariant(FromArchive(linker.item)[d], Version(d))
  BY <1>1, <1>2 DEF LinkRefused, RejectsSatisfied, Refused, KindOf
<1>4. FromArchive(linker.item)[d] = "import" /\ HasVariant(d)
  BY <1>2, <1>3, RejectsVariantFacts
<1>5. Buildable \ {MainArchive} \subseteq Compiled
  BY <1>2 DEF LDInv, OrderInv
<1> QED BY <1>1, <1>2, <1>4, <1>5, RejectedForReason

LEMMA NextReasonInv == LDInv /\ ReasonInv /\ [LDNext]_ldvars => ReasonInv'
<1> SUFFICES ASSUME LDInv, ReasonInv, [LDNext]_ldvars PROVE ReasonInv'
  OBVIOUS
<1>1. CASE OnCompile
  <2>1. ASSUME NEW d \in cmd.refs, ReferenceFails(d) PROVE ReasonInv'
    BY <2>1, FailedReasons DEF ReferenceFails
  <2> QED BY <1>1, <2>1, StartCompileReasons, SatisfiedReasons, SyntheticReasons, ProvideReasons, CompileReasons
          DEF OnCompile
<1>2. CASE OnCompileMain
  <2>1. CASE StartMainFails
    BY <2>1, FailedReasons DEF StartMainFails
  <2>2. ASSUME NEW d \in DOMAIN cmd.pending, ResolveFails(d) PROVE ReasonInv'
    BY <2>2, FailedReasons DEF ResolveFails
  <2>3. ASSUME NEW a \in cmd.reading, DiscoverFails(a) PROVE ReasonInv'
    BY <2>3, FailedReasons DEF DiscoverFails
  <2> QED BY <1>2, <2>1, <2>2, <2>3, StartMainReasons, StartMainRejectsReasons, ResolveReasons, ResolveRejectsReasons,
             DiscoverReasons, DiscoverRejectsReasons, CompileReasons
          DEF OnCompileMain
<1>3. CASE OnLink
  <2>1. ASSUME NEW d \in linker.todo, DepFails(d) PROVE ReasonInv'
    BY <2>1, FailedReasons DEF DepFails
  <2>2. CASE Link
    <3>1. stage' = "linked" /\ world' = world /\ archive' = archive
      BY <2>2 DEF Link
    <3>2. LinkerReasons'
      BY <3>1 DEF LinkerReasons
    <3> QED BY <3>1, <3>2, LinkerStep
  <2> QED BY <1>3, <2>1, <2>2, StartLinkReasons, NextArchiveReasons, SkipDepReasons, ResolveDepReasons,
             DepRejectsReasons DEF OnLink
<1>4. CASE UNCHANGED ldvars
  <2>1. world' = world /\ stage' = stage /\ archive' = archive /\ cmd' = cmd /\ linker' = linker
    BY <1>4 DEF ldvars
  <2>2. CommandReasons'
    BY <2>1, CommandReasonsNext DEF ReasonInv, CommandReasons
  <2>3. LinkerReasons'
    BY <2>1, LinkerReasonsNext DEF ReasonInv, LinkerReasons
  <2>4. ArchiveReasons' /\ RejectionIsDue'
    BY <2>1, ArchiveReasonsNext, RejectionNext DEF ReasonInv, RejectionIsDue
  <2> QED BY <2>2, <2>3, <2>4 DEF ReasonInv
<1> QED BY <1>1, <1>2, <1>3, <1>4 DEF LDNext

-----------------------------------------------------------------------------
\* The theorems

LEMMA NextInv == LDInv /\ [LDNext]_ldvars => LDInv'
<1> SUFFICES ASSUME LDInv, [LDNext]_ldvars PROVE LDInv'
  OBVIOUS
<1>1. CASE OnCompile
  <2>1. ASSUME NEW d \in cmd.refs, ReferenceFails(d) PROVE LDInv'
    BY <2>1, FailsInv DEF ReferenceFails
  <2> QED BY <1>1, <2>1, StartCompileInv, SatisfiedInv, SyntheticInv, ProvideInv, CompileInv DEF OnCompile
<1>2. CASE OnCompileMain
  <2>1. CASE StartMainRejects \/ StartMainFails
    BY <2>1, FailsInv DEF StartMainRejects, StartMainFails
  <2>2. ASSUME NEW d \in DOMAIN cmd.pending, ResolveRejects(d) \/ ResolveFails(d) PROVE LDInv'
    BY <2>2, FailsInv DEF ResolveRejects, ResolveFails
  <2>3. ASSUME NEW a \in cmd.reading, DiscoverRejects(a) \/ DiscoverFails(a) PROVE LDInv'
    BY <2>3, FailsInv DEF DiscoverRejects, DiscoverFails
  <2> QED BY <1>2, <2>1, <2>2, <2>3, StartMainInv, ResolveInv, DiscoverInv, CompileMainInv DEF OnCompileMain
<1>3. CASE OnLink
  <2>1. ASSUME NEW d \in linker.todo, DepRejects(d) \/ DepFails(d) PROVE LDInv'
    BY <2>1, FailsInv DEF DepRejects, DepFails
  <2> QED BY <1>3, <2>1, StartLinkInv, NextArchiveInv, SkipDepInv, ResolveDepInv, LinkInv DEF OnLink
<1>4. CASE UNCHANGED ldvars
  <2>1. world' = world /\ stage' = stage /\ archive' = archive /\ cmd' = cmd /\ linker' = linker
    BY <1>4 DEF ldvars
  <2>2. LDTypeOK'
    BY <2>1 DEF LDInv, LDTypeOK, Compiled
  <2>3. OrderInv'
    BY <2>1 DEF LDInv, OrderInv, Compiled, Buildable, Ordinary, Version, HasVariant, Closure, Rank,
                IsMain, MainArchive
  <2>4. CommandInv'
    BY <2>1, CommandInvNext DEF LDInv, CommandInv
  <2>5. LinkerInv'
    <3>1. CASE stage' \in {"link", "linked"}
      BY <2>1, <3>1, LinkerInvIs DEF LDInv, LinkerInv, Settled
    <3>2. CASE stage' \notin {"link", "linked"}
      BY <3>2, LinkerInvNext
    <3> QED BY <3>1, <3>2
  <2> QED BY <2>1, <2>2, <2>3, <2>4, <2>5, ArchiveInvNext DEF LDInv
<1> QED BY <1>1, <1>2, <1>3, <1>4 DEF LDNext

LEMMA AlwaysInv == LDSpec => []LDInv
<1> QED BY InitInv, NextInv, PTL DEF LDSpec

LEMMA AlwaysTargets == LDSpec => []TargetInv
<1> QED BY InitTargets, NextTargetInv, AlwaysInv, PTL DEF LDSpec

LEMMA AlwaysReasons == LDSpec => []ReasonInv
<1> QED BY InitReasons, NextReasonInv, AlwaysInv, PTL DEF LDSpec

\* Commands, archives and link.deps have their types.
THEOREM LinkDepsTypes == LDSpec => []LDTypeOK
<1>1. LDInv => LDTypeOK
  BY DEF LDInv
<1> QED BY <1>1, AlwaysInv, PTL

\* Whatever weaving injects, and wherever: the packages that an archive is compiled to
\* import were all there for the compiler, and those of all loaded archives are there for
\* the linker (OnCompile, OnCompileMain, OnLink).
THEOREM NothingIsMissed == LDSpec => []LinkIsComplete
<1> QED BY InvIsComplete, AlwaysInv, PTL

\* The archives that the linker is given are those that the archives that import them were
\* compiled with, whatever test variants there are, unless weaving adds relocation targets
\* to a test main (OnCompile, the checks of testvariants.go, mergeResolvedArchives).
THEOREM BinaryIsConsistent == LDSpec => []FingerprintsAgree
<1> QED BY InvAgrees, AlwaysInv, PTL

\* The relocation targets that weaving adds, to any package and however deep, are in the
\* linked binary: link.deps hands them on from archive to archive up to the main package,
\* which imports what they come with, unless weaving adds some to the main package itself
\* (OnCompile, OnCompileMain, link.deps).
THEOREM TargetsArrive == LDSpec => []TargetsAreLoaded
<1> QED BY InvReachesTargets, AlwaysInv, AlwaysTargets, PTL

\* A build is only rejected when a package that is to be linked really was compiled with
\* another archive than the build needs, the test variant instead of the ordinary one,
\* unless weaving injects into the main package itself (the checks of
\* testvariants.go in OnCompileMain and OnLink).
THEOREM RejectionsAreDue == LDSpec => []RejectionIsDue
<1>1. ReasonInv => RejectionIsDue
  BY DEF ReasonInv
<1> QED BY <1>1, AlwaysReasons, PTL
=============================================================================

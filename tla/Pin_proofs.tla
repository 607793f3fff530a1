----------------------------- MODULE Pin_proofs -----------------------------
(***************************************************************************)
(* Theorems about Pin, for any number of processes: who is amid a pin holds *)
(* the file lock, and a project that was pinned stays so.                   *)
(***************************************************************************)
EXTENDS Pin, WellFoundedInduction, TLAPS

-----------------------------------------------------------------------------
(* The greatest of a set *)

\* A bounded set of numbers has a greatest element, which Max returns.
LEMMA MaxOfBounded ==
  ASSUME NEW S \in SUBSET Nat, S # {}, NEW b \in Nat, \A x \in S : x <= b
  PROVE  Max(S) \in S /\ \A x \in S : x <= Max(S)
<1> DEFINE Gaps == {b - x : x \in S}
<1>1. Gaps \subseteq Nat /\ Gaps # {}
  <2>1. \A x \in S : b - x \in Nat
    OBVIOUS
  <2>2. PICK x \in S : TRUE
    OBVIOUS
  <2> QED BY <2>1, <2>2
<1>2. \E g \in Gaps : \A h \in Gaps : ~ (<<h, g>> \in OpToRel(<, Nat))
  <2> HIDE DEF Gaps
  <2> QED BY <1>1, NatLessThanWellFounded, WFMin
<1>3. PICK g \in Gaps : \A h \in Gaps : ~ (h < g)
  BY <1>1, <1>2 DEF OpToRel
<1>4. PICK x \in S : g = b - x
  OBVIOUS
<1>5. \A y \in S : x >= y
  <2> TAKE y \in S
  <2>1. b - y \in Gaps
    OBVIOUS
  <2>2. ~ (b - y < g)
    BY <1>3, <2>1
  <2> QED BY <1>4, <2>2
<1> QED BY <1>5 DEF Max

LEMMA MaxOfBoth ==
  ASSUME NEW a \in Nat, NEW b \in Nat, NEW c \in Nat, NEW S \in SUBSET Nat,
         S \in {{a}, {a, b}, {a, c}, {a, b, c}}
  PROVE  Max(S) \in Nat /\ \A x \in S : x <= Max(S)
<1>1. \A x \in S : x <= a + b + c
  OBVIOUS
<1>2. S # {} /\ a + b + c \in Nat
  OBVIOUS
<1> QED BY <1>1, <1>2, MaxOfBounded

-----------------------------------------------------------------------------
(* The go command *)

IsMod(mod) ==
  /\ DOMAIN mod = {"go", "toolchain", "replace", "require"}
  /\ mod.require \in [DOMAIN mod.require -> Nat]

LEMMA LeastIsNumber ==
  ASSUME NEW req, NEW m
  PROVE  Least(req, m) \in Nat
<1> DEFINE S == {0} \cup {n.version : n \in {n \in needs :
                    n.path = m /\ n.of \in DOMAIN req /\ req[n.of] >= n.at}}
<1>1. \A n \in needs : n.version \in Nat /\ n.version <= MaxVersion
  BY VersionsAssumption
<1>2. S \in SUBSET Nat /\ S # {} /\ \A x \in S : x <= MaxVersion
  BY <1>1, VersionsAssumption
<1> HIDE DEF S
<1>3. Max(S) \in S
  BY <1>2, MaxOfBounded, VersionsAssumption
<1>4. Least(req, m) = Max(S)
  BY DEF Least, S
<1> QED BY <1>2, <1>3, <1>4

\* Selecting versions keeps the roots, and lowers no version of theirs.
LEMMA SelectedKeeps ==
  ASSUME NEW mod, IsMod(mod), NEW roots,
         \A m \in roots : m \in DOMAIN mod.require \/ m \in Modules
  PROVE  /\ IsMod(Selected(mod, roots))
         /\ roots \subseteq DOMAIN Selected(mod, roots).require
         /\ \A m \in roots \cap DOMAIN mod.require :
               Selected(mod, roots).require[m] >= mod.require[m]
<1> DEFINE direct == [m \in roots |-> IF m \in DOMAIN mod.require THEN mod.require[m] ELSE latest[m]]
           all == roots \cup {m \in Modules : Least(direct, m) > 0}
           S(m) == {Least(direct, m)} \cup (IF m \in roots THEN {direct[m]} ELSE {})
                       \cup (IF m \in DOMAIN mod.require THEN {mod.require[m]} ELSE {})
<1>1. \A m \in roots : direct[m] \in Nat
  BY VersionsAssumption DEF IsMod, Versions
<1>2. ASSUME NEW m
      PROVE  /\ Max(S(m)) \in Nat
             /\ m \in DOMAIN mod.require => mod.require[m] <= Max(S(m))
  <2>1. Least(direct, m) \in Nat
    <3> HIDE DEF direct
    <3> QED BY LeastIsNumber
  <2>2. m \in DOMAIN mod.require => mod.require[m] \in Nat
    BY DEF IsMod
  <2> DEFINE a == Least(direct, m)
             b == IF m \in roots THEN direct[m] ELSE 0
             c == IF m \in DOMAIN mod.require THEN mod.require[m] ELSE 0
  <2>3. a \in Nat /\ b \in Nat /\ c \in Nat
    BY <1>1, <2>1, <2>2
  <2>4. S(m) \in {{a}, {a, b}, {a, c}, {a, b, c}} /\ S(m) \in SUBSET Nat
    BY <2>3
  <2>5. m \in DOMAIN mod.require => mod.require[m] \in S(m)
    OBVIOUS
  <2> HIDE DEF a, b, c, S
  <2>6. Max(S(m)) \in Nat /\ \A x \in S(m) : x <= Max(S(m))
    BY <2>3, <2>4, MaxOfBoth
  <2> QED BY <2>5, <2>6
<1>3. DOMAIN Selected(mod, roots) = DOMAIN mod
  BY DEF Selected
<1>4. Selected(mod, roots).require = [m \in all |-> Max(S(m))]
  BY DEF Selected, IsMod
<1> HIDE DEF direct, S
<1>5. roots \subseteq all
  OBVIOUS
<1> HIDE DEF all
<1> QED BY <1>2, <1>3, <1>4, <1>5 DEF IsMod

LEMMA GetKeeps ==
  ASSUME NEW mod, IsMod(mod), NEW m, NEW version \in Nat
  PROVE  /\ IsMod(Get(mod, m, version))
         /\ DOMAIN mod.require \subseteq DOMAIN Get(mod, m, version).require
         /\ \A n \in DOMAIN mod.require \ {m} :
               Get(mod, m, version).require[n] >= mod.require[n]
<1> DEFINE set == [mod EXCEPT !.require = Over(Only(m, version), @)]
<1>1. set.require = [n \in {m} \cup DOMAIN mod.require |->
                        IF n = m THEN version ELSE mod.require[n]]
  BY DEF IsMod, Over, Only
<1>2. IsMod(set)
  BY <1>1 DEF IsMod
<1>3. Get(mod, m, version) = Selected(set, DOMAIN set.require)
  BY DEF Get
<1> HIDE DEF set
<1> DEFINE got == Selected(set, DOMAIN set.require)
<1>4. /\ IsMod(got) /\ DOMAIN set.require \subseteq DOMAIN got.require
      /\ \A n \in DOMAIN set.require : got.require[n] >= set.require[n]
  BY <1>2, SelectedKeeps
<1> HIDE DEF got
<1> QED BY <1>1, <1>3, <1>4 DEF got

LEMMA TidyKeeps ==
  ASSUME NEW mod, IsMod(mod), NEW imports \in SUBSET DOMAIN provider
  PROVE  /\ IsMod(Tidy(mod, imports))
         /\ {provider[i] : i \in imports} \subseteq DOMAIN Tidy(mod, imports).require
         /\ orchestrion \in imports /\ orchestrion \in DOMAIN mod.require =>
               Tidy(mod, imports).require[orchestrion] >= mod.require[orchestrion]
<1> DEFINE roots == {provider[i] : i \in imports \cup sourceImports}
<1>1. \A m \in roots : m \in Modules
  BY PathsAssumption
<1>2. {provider[i] : i \in imports} \subseteq roots
  OBVIOUS
<1>3. orchestrion \in imports => orchestrion \in roots
  BY PathsAssumption
<1>4. Tidy(mod, imports) = Selected(mod, roots)
  BY DEF Tidy
<1> HIDE DEF roots
<1> QED BY <1>1, <1>2, <1>3, <1>4, SelectedKeeps

-----------------------------------------------------------------------------
(* The inductive invariant *)

\* The stages of a process from the file lock to its release: before and after it
\* wrote the tool file, after it parsed go.mod, edited it, and tidied it at last.
Amid == {"read", "write", "parse", "ensure", "ensureV2", "edit", "tidy", "vendor", "prune",
         "pruneTidy", "restore", "lastTidy", "lastVendor", "unlock"}
Wrote == Amid \ {"read", "write"}
Parsing == {"ensure", "ensureV2", "edit"}
EditsMade == Wrote \ ({"parse"} \cup Parsing)
LastTidied == {"lastVendor", "unlock"}

AtLeast(mod, version) ==
  orchestrion \in DOMAIN mod.require /\ mod.require[orchestrion] >= version

Providers(tree) == {provider[i] : i \in tree.imports}

\* What a tool file has in it that orchestrion wrote.
Complete(tree) ==
  /\ tree.state = "valid"
  /\ {orchestrion, tracerV2All} \subseteq tree.imports
  /\ {instrument, tracerV1} \cap tree.imports = {}

IsTree(tree) == DOMAIN tree = DOMAIN NoFile /\ tree.imports \subseteq DOMAIN provider

Types ==
  /\ IsTree(toolFile)
  /\ toolFile \in {NoFile, Unparsable} \/ toolFile.state = "valid"
  /\ IsMod(goMod)
  /\ lock \in Pinners \cup {None}
  /\ kind \in [Pinners -> kinds]
  /\ DOMAIN pc = Pinners
  /\ DOMAIN file = Pinners /\ \A p \in Pinners : IsTree(file[p])
  /\ DOMAIN curMod = Pinners /\ \A p \in Pinners : IsMod(curMod[p])
  /\ DOMAIN ensured = Pinners /\ \A p \in Pinners : IsMod(ensured[p])
  /\ pinned \subseteq Nat

\* Who is amid a pin holds the file lock.
Exclusive == \A p \in Pinners : pc[p] \in Amid => lock = p

\* What the tree that is about to be written adds to the file was not asked for by an
\* earlier pin; go.mod is no older than what was parsed; and what the edits achieved stays.
Progress ==
  \A p \in Pinners :
    /\ pc[p] = "write" =>
          Complete(file[p]) /\ (pinned # {} => file[p].imports \subseteq toolFile.imports)
    /\ pc[p] \in Wrote => Complete(toolFile)
    /\ pc[p] \in Parsing =>
          /\ \A tag \in pinned : AtLeast(curMod[p], tag)
          /\ orchestrion \in DOMAIN curMod[p].require =>
                AtLeast(goMod, curMod[p].require[orchestrion])
    /\ pc[p] \in EditsMade => AtLeast(goMod, kind[p].tag)
    /\ pc[p] \in LastTidied => Providers(toolFile) \subseteq DOMAIN goMod.require

Stays ==
  \A tag \in pinned :
    Complete(toolFile) /\ Providers(toolFile) \subseteq DOMAIN goMod.require /\ AtLeast(goMod, tag)

PInv == Types /\ Exclusive /\ Progress /\ Stays

LEMMA TreesOfFile == IsTree(NoFile) /\ IsTree(Unparsable)
  BY DEF IsTree, NoFile, Unparsable, Content

LEMMA InitInv == Init => PInv
<1> SUFFICES ASSUME Init PROVE PInv
  OBVIOUS
<1>1. Types
  BY FilesAssumption, TreesOfFile DEF Init, Types, IsMod, IsTree, Versions
<1>2. \A p \in Pinners : pc[p] \in {"pin", "auto"}
  BY ProcessesAssumption DEF Init
<1> QED BY <1>1, <1>2 DEF Init, PInv, Exclusive, Progress, Stays, Amid, Wrote, Parsing,
                          EditsMade, LastTidied

-----------------------------------------------------------------------------
(* The steps *)

\* Nobody else is amid a pin when one process is.
LEMMA Alone ==
  ASSUME PInv, NEW p \in Pinners, pc[p] \in Amid
  PROVE  lock = p /\ \A q \in Pinners \ {p} : pc[q] \notin Amid
  BY DEF PInv, Exclusive

LEMMA AlreadyPinnedStep ==
  ASSUME PInv, NEW p \in Pinners, AlreadyPinned(p)
  PROVE  PInv'
<1> USE NobodyAssumption DEF PInv, AlreadyPinned, Goto, Keep, files, locals
<1>1. Types'
  BY NobodyAssumption DEF Types
<1>2. Exclusive'
  BY NobodyAssumption DEF Types, Exclusive, Amid, Ended
<1>3. Progress'
  BY Alone DEF Types, Exclusive, Progress, Amid, Wrote, Parsing, EditsMade, LastTidied, AtLeast,
     Providers, Complete, Ended
<1>4. Stays'
  BY DEF Stays, AtLeast, Providers, Complete
<1> QED BY <1>1, <1>2, <1>3, <1>4

LEMMA IncorrectVersionStep ==
  ASSUME PInv, NEW p \in Pinners, IncorrectVersion(p)
  PROVE  PInv'
<1> USE NobodyAssumption DEF PInv, IncorrectVersion, Goto, Keep, files, locals
<1>1. Types'
  BY NobodyAssumption DEF Types
<1>2. Exclusive'
  BY NobodyAssumption DEF Types, Exclusive, Amid, Ended
<1>3. Progress'
  BY Alone DEF Types, Exclusive, Progress, Amid, Wrote, Parsing, EditsMade, LastTidied, AtLeast,
     Providers, Complete, Ended
<1>4. Stays'
  BY DEF Stays, AtLeast, Providers, Complete
<1> QED BY <1>1, <1>2, <1>3, <1>4

LEMMA AutoPinStep ==
  ASSUME PInv, NEW p \in Pinners, AutoPin(p)
  PROVE  PInv'
<1> USE NobodyAssumption DEF PInv, AutoPin, Goto, Keep, files, locals
<1>1. Types'
  BY NobodyAssumption DEF Types
<1>2. Exclusive'
  BY NobodyAssumption DEF Types, Exclusive, Amid, Ended
<1>3. Progress'
  BY Alone DEF Types, Exclusive, Progress, Amid, Wrote, Parsing, EditsMade, LastTidied, AtLeast,
     Providers, Complete, Ended
<1>4. Stays'
  BY DEF Stays, AtLeast, Providers, Complete
<1> QED BY <1>1, <1>2, <1>3, <1>4

LEMMA LockStep ==
  ASSUME PInv, NEW p \in Pinners, Lock(p)
  PROVE  PInv'
<1> USE NobodyAssumption DEF PInv, Lock, Goto, Keep, files, locals
<1>1. Types'
  BY NobodyAssumption DEF Types
<1>2. Exclusive'
  BY NobodyAssumption DEF Types, Exclusive, Amid, Ended
<1>3. Progress'
  BY Alone DEF Types, Exclusive, Progress, Amid, Wrote, Parsing, EditsMade, LastTidied, AtLeast,
     Providers, Complete, Ended
<1>4. Stays'
  BY DEF Stays, AtLeast, Providers, Complete
<1> QED BY <1>1, <1>2, <1>3, <1>4

LEMMA ParseGoModStep ==
  ASSUME PInv, NEW p \in Pinners, ParseGoMod(p)
  PROVE  PInv'
<1> USE DEF PInv, ParseGoMod, Goto, Keep, files
<1>1. Types'
  BY DEF Types
<1>2. Exclusive'
  BY DEF Types, Exclusive, Amid
<1>3. Progress'
  <2>1. curMod'[p] = goMod /\ \A tag \in pinned : AtLeast(goMod, tag)
    BY DEF Types, Stays
  <2>2. \A v \in Nat : v >= v
    OBVIOUS
  <2>3. orchestrion \in DOMAIN goMod.require => AtLeast(goMod, goMod.require[orchestrion])
    BY <2>2 DEF Types, IsMod, AtLeast
  <2> QED BY Alone, <2>1, <2>3 DEF Types, Progress, Amid, Wrote, Parsing, EditsMade, LastTidied,
             AtLeast, Providers, Complete
<1>4. Stays'
  BY DEF Stays, AtLeast, Providers, Complete
<1> QED BY <1>1, <1>2, <1>3, <1>4

LEMMA VendorStep ==
  ASSUME PInv, NEW p \in Pinners, Vendor(p)
  PROVE  PInv'
<1> USE NobodyAssumption DEF PInv, Vendor, Goto, Keep, files, locals
<1>1. Types'
  BY NobodyAssumption DEF Types
<1>2. Exclusive'
  BY NobodyAssumption DEF Types, Exclusive, Amid, Ended
<1>3. Progress'
  BY Alone DEF Types, Exclusive, Progress, Amid, Wrote, Parsing, EditsMade, LastTidied, AtLeast,
     Providers, Complete, Ended
<1>4. Stays'
  BY DEF Stays, AtLeast, Providers, Complete
<1> QED BY <1>1, <1>2, <1>3, <1>4

LEMMA UnlockStep ==
  ASSUME PInv, NEW p \in Pinners, Unlock(p)
  PROVE  PInv'
<1> USE NobodyAssumption DEF PInv, Unlock, Goto, files, locals
<1>1. Types'
  <2>1. kind[p].tag \in Nat
    BY ProcessesAssumption DEF Types, Versions
  <2> QED BY <2>1 DEF Types
<1>2. Exclusive'
  BY DEF Types, Exclusive, Amid
<1>3. Progress'
  BY Alone DEF Types, Progress, Amid, Wrote, Parsing, EditsMade, LastTidied
<1>4. Stays'
  <2>1. pc[p] \in Wrote /\ pc[p] \in EditsMade /\ pc[p] \in LastTidied
    BY DEF Amid, Wrote, Parsing, EditsMade, LastTidied
  <2>2. /\ Complete(toolFile) /\ Providers(toolFile) \subseteq DOMAIN goMod.require
        /\ AtLeast(goMod, kind[p].tag)
    BY <2>1 DEF Progress
  <2> QED BY <2>2 DEF Stays, AtLeast, Providers, Complete
<1> QED BY <1>1, <1>2, <1>3, <1>4

LEMMA FailStep ==
  ASSUME PInv, NEW p \in Pinners, Fail(p)
  PROVE  PInv'
<1> USE NobodyAssumption DEF PInv, Fail, Goto, Keep, files, locals
<1>1. Types'
  BY NobodyAssumption DEF Types
<1>2. Exclusive'
  BY NobodyAssumption DEF Types, Exclusive, Amid, Ended
<1>3. Progress'
  BY Alone DEF Types, Exclusive, Progress, Amid, Wrote, Parsing, EditsMade, LastTidied, AtLeast,
     Providers, Complete, Ended
<1>4. Stays'
  BY DEF Stays, AtLeast, Providers, Complete
<1> QED BY <1>1, <1>2, <1>3, <1>4

LEMMA ReadToolFileStep ==
  ASSUME PInv, NEW p \in Pinners, ReadToolFile(p)
  PROVE  PInv'
<1> DEFINE directed == updateGoGenerateDirective(kind[p].options, Parsed(toolFile))
<1>1. IsTree(Parsed(toolFile)) /\ Parsed(toolFile).state = "valid"
  BY DEF PInv, Types, ReadToolFile, Parsed, IsTree, NoFile, Content
<1>2. /\ DOMAIN directed = DOMAIN NoFile /\ directed.state = "valid"
      /\ directed.imports = Parsed(toolFile).imports
  BY <1>1 DEF IsTree, updateGoGenerateDirective, NoFile, Content
<1> HIDE DEF directed
<1>3. /\ IsTree(updateToolFile(directed)) /\ Complete(updateToolFile(directed))
      /\ {orchestrion, tracerV2All} \subseteq Parsed(toolFile).imports =>
            updateToolFile(directed).imports \subseteq Parsed(toolFile).imports
  BY <1>1, <1>2, PathsAssumption DEF updateToolFile, IsTree, Complete, NoFile, Content
<1>4. file' = [file EXCEPT ![p] = updateToolFile(directed)]
  BY DEF ReadToolFile, directed
<1>5. pinned # {} => Complete(toolFile)
  BY DEF PInv, Stays
<1>6. pinned # {} => updateToolFile(directed).imports \subseteq toolFile.imports
  BY <1>3, <1>5 DEF Complete, Parsed, NoFile, Content
<1> USE DEF PInv, ReadToolFile, Goto, Keep, files
<1>7. Types'
  BY <1>3, <1>4 DEF Types
<1>8. Exclusive'
  BY DEF Types, Exclusive, Amid
<1>9. Progress'
  BY <1>3, <1>4, <1>6, Alone DEF Types, Progress, Amid, Wrote, Parsing, EditsMade, LastTidied,
     Complete
<1>10. Stays'
  BY DEF Stays, AtLeast, Providers, Complete
<1> QED BY <1>7, <1>8, <1>9, <1>10

LEMMA writeUpdatedStep ==
  ASSUME PInv, NEW p \in Pinners, writeUpdated(p)
  PROVE  PInv'
<1> USE DEF PInv, writeUpdated, Goto, Keep
<1>1. Types'
  BY DEF Types, Progress, Complete
<1>2. Exclusive'
  BY DEF Types, Exclusive, Amid
<1>3. Complete(file[p]) /\ (pinned # {} => file[p].imports \subseteq toolFile.imports)
  BY DEF Progress
<1>4. Progress'
  BY <1>3, Alone DEF Types, Progress, Amid, Wrote, Parsing, EditsMade, LastTidied, Complete
<1>5. Stays'
  BY <1>3 DEF Stays, AtLeast, Providers, Complete
<1> QED BY <1>1, <1>2, <1>4, <1>5

\* While a process parses go.mod, a "get" that adds to what is required, and that leaves
\* the version of orchestrion alone, keeps the invariant.
LEMMA GetStep ==
  ASSUME PInv, NEW p \in Pinners, pc[p] \in {"ensure", "ensureV2"},
         \/ goMod' = goMod
         \/ \E m, version : /\ m # orchestrion /\ version \in Nat
                            /\ goMod' = Get(goMod, m, version),
         \E stage \in {"ensureV2", "edit"} : pc' = [pc EXCEPT ![p] = stage],
         \/ ensured' = [ensured EXCEPT ![p] = goMod]
         \/ ensured' = ensured,
         UNCHANGED <<toolFile, vendor, file, curMod>>, Keep
  PROVE  PInv'
<1>1. IsMod(goMod)
  BY DEF PInv, Types
<1>2. /\ IsMod(goMod') /\ DOMAIN goMod.require \subseteq DOMAIN goMod'.require
      /\ orchestrion \in DOMAIN goMod.require =>
            goMod'.require[orchestrion] >= goMod.require[orchestrion]
  <2>1. CASE goMod' = goMod
    <3>1. orchestrion \in DOMAIN goMod.require => goMod.require[orchestrion] \in Nat
      BY <1>1 DEF IsMod
    <3>2. \A v \in Nat : v >= v
      OBVIOUS
    <3>3. IsMod(goMod')
      BY <1>1, <2>1, Zenon
    <3>4. orchestrion \in DOMAIN goMod.require =>
            goMod.require[orchestrion] >= goMod.require[orchestrion]
      BY <3>1, <3>2
    <3> QED BY <2>1, <3>3, <3>4, Zenon
  <2>2. CASE \E m, version : /\ m # orchestrion /\ version \in Nat
                             /\ goMod' = Get(goMod, m, version)
    <3>1. PICK m, version : /\ m # orchestrion /\ version \in Nat
                            /\ goMod' = Get(goMod, m, version)
      BY <2>2
    <3> DEFINE got == Get(goMod, m, version)
    <3>2. /\ IsMod(got) /\ DOMAIN goMod.require \subseteq DOMAIN got.require
          /\ \A n \in DOMAIN goMod.require \ {m} : got.require[n] >= goMod.require[n]
      BY <1>1, <3>1, GetKeeps
    <3> HIDE DEF got
    <3> QED BY <3>1, <3>2 DEF got
  <2> QED BY <2>1, <2>2
<1>3. ASSUME NEW version \in Nat, AtLeast(goMod, version)
      PROVE  AtLeast(goMod', version)
  BY <1>1, <1>2, <1>3 DEF AtLeast, IsMod
<1> USE DEF PInv, Keep
<1>4. Types'
  BY <1>1, <1>2 DEF Types
<1>5. Exclusive'
  BY DEF Types, Exclusive, Amid
<1>6. \A v \in Nat : AtLeast(goMod, v) => AtLeast(goMod', v)
  BY <1>3
<1>7. \A q \in Pinners : orchestrion \in DOMAIN curMod[q].require =>
                            curMod[q].require[orchestrion] \in Nat
  BY DEF Types, IsMod
<1>8. Progress'
  <2>1. pc[p] \in Amid /\ pc'[p] \in Parsing /\ pc[p] \in Parsing /\ pc[p] \in Wrote
    BY DEF Types, Amid, Parsing, Wrote
  <2>2. \A q \in Pinners \ {p} : pc'[q] \notin Amid
    BY <2>1, Alone DEF Types
  <2>3. Parsing \subseteq Wrote /\ Wrote \subseteq Amid /\ Parsing \cap (EditsMade \cup LastTidied) = {}
    BY DEF Parsing, Wrote, Amid, EditsMade, LastTidied
  <2>4. "write" \notin Parsing /\ "write" \in Amid /\ EditsMade \subseteq Amid /\ LastTidied \subseteq Amid
    BY DEF Parsing, Wrote, Amid, EditsMade, LastTidied
  <2>5. orchestrion \in DOMAIN curMod[p].require =>
           AtLeast(goMod', curMod[p].require[orchestrion])
    BY <1>6, <1>7, <2>1 DEF Progress
  <2>6. Complete(toolFile) /\ \A tag \in pinned : AtLeast(curMod[p], tag)
    BY <2>1 DEF Progress
  <2>7. Complete(toolFile)'
    BY <2>6 DEF Complete
  <2>8. \A tag \in pinned' : AtLeast(curMod'[p], tag)
    BY <2>6
  <2>9. orchestrion \in DOMAIN curMod'[p].require =>
           AtLeast(goMod', curMod'[p].require[orchestrion])
    BY <2>5
  <2> QED BY <2>1, <2>2, <2>3, <2>4, <2>7, <2>8, <2>9 DEF Progress
<1>9. Stays'
  BY <1>2, <1>6 DEF Types, Stays, Providers, Complete
<1> QED BY <1>4, <1>5, <1>8, <1>9

LEMMA TargetIsNumber ==
  ASSUME NEW mod, IsMod(mod)
  PROVE  Target(mod).version \in Nat
<1>1. shipped \in Nat /\ latest[tracerV2] \in Nat
  BY VersionsAssumption, PathsAssumption DEF Versions
<1>2. Max({shipped, latest[tracerV2]}) \in Nat
  BY <1>1, MaxOfBoth
<1> QED BY <1>1, <1>2 DEF Target, IsMod

LEMMA EnsureV1Step ==
  ASSUME PInv, NEW p \in Pinners, EnsureV1(p)
  PROVE  PInv'
<1>1. latest[tracerV1] \in Nat /\ tracerV1 # orchestrion
  BY VersionsAssumption, PathsAssumption DEF Versions
<1>2. \/ goMod' = goMod
      \/ \E m, version : m # orchestrion /\ version \in Nat /\ goMod' = Get(goMod, m, version)
  BY <1>1 DEF EnsureV1
<1> QED BY <1>2, GetStep DEF EnsureV1, Goto

LEMMA EnsureV2Step ==
  ASSUME PInv, NEW p \in Pinners, EnsureV2(p)
  PROVE  PInv'
<1>1. Target(ensured[p]).version \in Nat /\ tracerV2All # orchestrion
  BY TargetIsNumber, PathsAssumption DEF PInv, Types
<1>2. \/ goMod' = goMod
      \/ \E m, version : m # orchestrion /\ version \in Nat /\ goMod' = Get(goMod, m, version)
  BY <1>1 DEF EnsureV2
<1> QED BY <1>2, GetStep DEF EnsureV2, Goto

\* The edits require orchestrion at the version of the process, unless it was parsed at
\* that version or a later one; neither is older than what was pinned.
LEMMA EditsRequire ==
  ASSUME PInv, NEW p \in Pinners, pc[p] = "edit"
  PROVE  LET req == Edits(p).require IN
         /\ req \in [DOMAIN req -> Nat]
         /\ orchestrion \in DOMAIN req =>
               /\ req[orchestrion] = kind[p].tag
               /\ \A tag \in pinned : req[orchestrion] >= tag
         /\ orchestrion \notin DOMAIN req => AtLeast(goMod, kind[p].tag)
<1> DEFINE own == IF AtLeast(curMod[p], kind[p].tag) THEN Nothing
                  ELSE Only(orchestrion, kind[p].tag)
           others == IntegrationEdits(ensured[p]).require
<1>1. kind[p].tag \in Nat /\ IsMod(curMod[p]) /\ IsMod(ensured[p]) /\ IsMod(goMod) /\ pinned \subseteq Nat
  BY ProcessesAssumption DEF PInv, Types, Versions
<1>2. Edits(p).require = Over(own, others)
  BY DEF Edits, AtLeast
<1>3. others \in [DOMAIN others -> Nat] /\ orchestrion \notin DOMAIN others
  <2>1. Target(ensured[p]).version \in Nat
    BY <1>1, TargetIsNumber
  <2> QED BY <2>1, PathsAssumption DEF IntegrationEdits, Nothing, Only
<1>4. /\ own \in [DOMAIN own -> Nat]
      /\ orchestrion \in DOMAIN own <=> ~AtLeast(curMod[p], kind[p].tag)
      /\ orchestrion \in DOMAIN own => own[orchestrion] = kind[p].tag
  BY <1>1 DEF Nothing, Only
<1>5. /\ \A tag \in pinned : AtLeast(curMod[p], tag)
      /\ orchestrion \in DOMAIN curMod[p].require =>
            AtLeast(goMod, curMod[p].require[orchestrion])
  BY DEF PInv, Progress, Parsing
<1>6. ~AtLeast(curMod[p], kind[p].tag) => \A tag \in pinned : kind[p].tag >= tag
  BY <1>1, <1>5 DEF AtLeast, IsMod
<1>7. AtLeast(curMod[p], kind[p].tag) => AtLeast(goMod, kind[p].tag)
  BY <1>1, <1>5 DEF AtLeast, IsMod
<1> HIDE DEF own, others
<1>8. DOMAIN Over(own, others) = DOMAIN own \cup DOMAIN others
  BY DEF Over
<1> QED BY <1>2, <1>3, <1>4, <1>6, <1>7, <1>8 DEF Over

LEMMA EditGoModStep ==
  ASSUME PInv, NEW p \in Pinners, EditGoMod(p)
  PROVE  PInv'
<1> DEFINE req == Edits(p).require
           mod == Edited(goMod, Edits(p))
<1>1. pc[p] = "edit" /\ goMod' = mod
  BY DEF EditGoMod, Goto
<1>2. IsMod(goMod) /\ kind[p].tag \in Nat /\ pinned \subseteq Nat
  BY ProcessesAssumption DEF PInv, Types, Versions
<1>3. /\ req \in [DOMAIN req -> Nat]
      /\ orchestrion \in DOMAIN req =>
            /\ req[orchestrion] = kind[p].tag
            /\ \A tag \in pinned : req[orchestrion] >= tag
      /\ orchestrion \notin DOMAIN req => AtLeast(goMod, kind[p].tag)
  BY <1>1, EditsRequire
<1>4. DOMAIN mod = DOMAIN goMod /\ mod.require = Over(req, goMod.require)
  BY <1>2 DEF Edited, IsMod
<1> HIDE DEF req, mod
<1>5. IsMod(mod) /\ DOMAIN goMod.require \subseteq DOMAIN mod.require
  BY <1>2, <1>3, <1>4 DEF IsMod, Over
<1>6. AtLeast(mod, kind[p].tag)
  BY <1>2, <1>3, <1>4 DEF AtLeast, IsMod, Over
<1>7. \A tag \in pinned : AtLeast(goMod, tag) => AtLeast(mod, tag)
  BY <1>2, <1>3, <1>4 DEF AtLeast, IsMod, Over
<1> USE DEF PInv, EditGoMod, Goto, Keep
<1>8. Types'
  BY <1>1, <1>5 DEF Types
<1>9. Exclusive'
  BY DEF Types, Exclusive, Amid
<1>10. Progress'
  BY <1>1, <1>6, Alone DEF Types, Progress, Amid, Wrote, Parsing, EditsMade, LastTidied, Complete
<1>11. Stays'
  BY <1>1, <1>5, <1>7 DEF Stays, Providers, Complete
<1> QED BY <1>8, <1>9, <1>10, <1>11

\* Once the edits are made, tidying keeps the invariant, and requires a module for each
\* import of the tool file.
LEMMA TidyStep ==
  ASSUME PInv, NEW p \in Pinners, pc[p] \in EditsMade,
         goMod' = Tidy(goMod, toolFile.imports),
         NEW stage \in EditsMade, pc' = [pc EXCEPT ![p] = stage],
         UNCHANGED <<toolFile, vendor, file, curMod, ensured>>, Keep
  PROVE  PInv'
<1> DEFINE mod == Tidy(goMod, toolFile.imports)
<1>1. Complete(toolFile) /\ AtLeast(goMod, kind[p].tag)
  BY DEF PInv, Progress, EditsMade
<1>2. IsMod(goMod) /\ toolFile.imports \subseteq DOMAIN provider
  BY DEF PInv, Types, IsTree
<1>3. /\ IsMod(mod) /\ Providers(toolFile) \subseteq DOMAIN mod.require
      /\ mod.require[orchestrion] >= goMod.require[orchestrion]
  BY <1>1, <1>2, TidyKeeps DEF Complete, AtLeast, Providers
<1>4. orchestrion \in Providers(toolFile)
  BY <1>1, PathsAssumption DEF Complete, Providers
<1> HIDE DEF mod
<1>5. \A v \in Nat : AtLeast(goMod, v) => AtLeast(mod, v)
  BY <1>2, <1>3, <1>4 DEF AtLeast, IsMod
<1>6. goMod' = mod
  BY DEF mod
<1>7. kind[p].tag \in Nat /\ pinned \subseteq Nat
  BY ProcessesAssumption DEF PInv, Types, Versions
<1> USE DEF PInv, Keep
<1>8. Types'
  BY <1>3, <1>6 DEF Types
<1>9. Exclusive'
  BY DEF Types, Exclusive, EditsMade, Wrote
<1>10. Progress'
  <2>1. pc'[p] = stage /\ stage \notin Parsing \cup {"write"} /\ pc[p] \in Amid /\ EditsMade \subseteq Wrote
    BY DEF Types, EditsMade, Wrote, Parsing
  <2>2. \A q \in Pinners \ {p} : pc'[q] \notin Amid
    BY <2>1, Alone DEF Types
  <2>3. /\ "write" \in Amid /\ Wrote \subseteq Amid /\ Parsing \subseteq Amid
        /\ LastTidied \subseteq EditsMade
    BY DEF Amid, Wrote, Parsing, EditsMade, LastTidied
  <2>4. Complete(toolFile') /\ AtLeast(goMod', kind'[p].tag)
        /\ Providers(toolFile') \subseteq DOMAIN goMod'.require
    BY <1>1, <1>3, <1>5, <1>6, <1>7 
  <2> QED BY <2>1, <2>2, <2>3, <2>4 DEF Progress
<1>11. Stays'
  <2>1. \A tag \in pinned : AtLeast(mod, tag)
    BY <1>5, <1>7 DEF Stays
  <2> QED BY <1>1, <1>3, <1>6, <2>1 DEF Stays, Complete, Providers
<1> QED BY <1>8, <1>9, <1>10, <1>11

LEMMA TidyGoModStep ==
  ASSUME PInv, NEW p \in Pinners, TidyGoMod(p)
  PROVE  PInv'
<1>1. PICK from \in EditsMade, to \in EditsMade : Goto(p, from, to)
  BY DEF TidyGoMod, EditsMade, Wrote, Amid, Parsing
<1> QED BY <1>1, TidyStep DEF TidyGoMod, Goto

LEMMA TidyPrunedStep ==
  ASSUME PInv, NEW p \in Pinners, TidyPruned(p)
  PROVE  PInv'
<1>1. "pruneTidy" \in EditsMade /\ "restore" \in EditsMade
  BY DEF EditsMade, Wrote, Amid, Parsing
<1> QED BY <1>1, TidyStep DEF TidyPruned, Goto

LEMMA pruneImportsStep ==
  ASSUME PInv, NEW p \in Pinners, pruneImports(p)
  PROVE  PInv'
<1>1. DOMAIN file' = Pinners /\ \A q \in Pinners : IsTree(file'[q])
  BY DEF PInv, Types, pruneImports, IsTree, NoFile, Content
<1> USE DEF PInv, pruneImports, Goto, Keep, files
<1>2. Types'
  BY <1>1 DEF Types
<1>3. Exclusive'
  BY DEF Types, Exclusive, Amid
<1>4. Progress'
  BY Alone DEF Types, Progress, Amid, Wrote, Parsing, EditsMade, LastTidied, Complete
<1>5. Stays'
  BY DEF Stays, AtLeast, Providers, Complete
<1> QED BY <1>2, <1>3, <1>4, <1>5

LEMMA RestoreToolchainStep ==
  ASSUME PInv, NEW p \in Pinners, RestoreToolchain(p)
  PROVE  PInv'
<1>1. IsMod(goMod') /\ goMod'.require = goMod.require
  BY DEF PInv, Types, IsMod, RestoreToolchain
<1> USE DEF PInv, RestoreToolchain, Goto, Keep
<1>2. Types'
  BY <1>1 DEF Types
<1>3. Exclusive'
  BY DEF Types, Exclusive, Amid
<1>4. Progress'
  BY <1>1, Alone DEF Types, Progress, Amid, Wrote, Parsing, EditsMade, LastTidied, Complete, AtLeast
<1>5. Stays'
  BY <1>1 DEF Stays, AtLeast, Providers, Complete
<1> QED BY <1>2, <1>3, <1>4, <1>5

LEMMA NextStep == PInv /\ [Next]_vars => PInv'
<1> SUFFICES ASSUME PInv, [Next]_vars PROVE PInv'
  OBVIOUS
<1>1. CASE UNCHANGED vars
  BY <1>1 DEF vars, PInv, Types, Exclusive, Progress, Stays, AtLeast, Providers, Complete
<1>2. CASE Terminated
  BY <1>1, <1>2 DEF Terminated
<1>3. CASE \E p \in Pinners : AlreadyPinned(p) \/ IncorrectVersion(p) \/ AutoPin(p)
  BY <1>3, AlreadyPinnedStep, IncorrectVersionStep, AutoPinStep
<1>4. CASE \E p \in Pinners : Lock(p) \/ ReadToolFile(p) \/ writeUpdated(p) \/ ParseGoMod(p)
  BY <1>4, LockStep, ReadToolFileStep, writeUpdatedStep, ParseGoModStep
<1>5. CASE \E p \in Pinners : EnsureV1(p) \/ EnsureV2(p) \/ EditGoMod(p) \/ TidyGoMod(p)
  BY <1>5, EnsureV1Step, EnsureV2Step, EditGoModStep, TidyGoModStep
<1>6. CASE \E p \in Pinners : \/ Vendor(p) \/ pruneImports(p) \/ TidyPruned(p)
                              \/ RestoreToolchain(p) \/ Unlock(p) \/ Fail(p)
  BY <1>6, VendorStep, pruneImportsStep, TidyPrunedStep, RestoreToolchainStep, UnlockStep, FailStep
<1> QED BY <1>1, <1>2, <1>3, <1>4, <1>5, <1>6 DEF Next

LEMMA Invariant == Spec => []PInv
<1> QED BY InitInv, NextStep, PTL DEF Spec

-----------------------------------------------------------------------------
(* The theorems *)

\* Once a version of orchestrion was pinned, the project stays pinned to it or to a later
\* one: whatever the processes of any versions do, fail at, or are killed in.
THEOREM PinnedForGood == Spec => []StaysPinned
<1>1. ASSUME PInv, NEW tag \in pinned
      PROVE  /\ toolFile.state = "valid"
             /\ {orchestrion, tracerV2All} \subseteq toolFile.imports
             /\ {instrument, tracerV1} \cap toolFile.imports = {}
             /\ {provider[i] : i \in toolFile.imports} \subseteq DOMAIN goMod.require
             /\ goMod.require[orchestrion] >= tag
  BY <1>1 DEF PInv, Stays, Complete, Providers, AtLeast
<1>2. PInv => StaysPinned
  BY <1>1 DEF StaysPinned
<1> QED BY Invariant, <1>2, PTL

\* No two processes are between the file lock and its release (PinOrchestrion).
THEOREM OnePinAtATime ==
  Spec => [](\A p, q \in Pinners : pc[p] \in Amid /\ pc[q] \in Amid => p = q)
<1>1. PInv => \A p, q \in Pinners : pc[p] \in Amid /\ pc[q] \in Amid => p = q
  BY DEF PInv, Exclusive
<1> QED BY Invariant, <1>1, PTL

\* From its edits to its release a pin that has not failed requires at least its own
\* version of orchestrion, though it parsed go.mod before "get" changed it (pin.go).
THEOREM OwnVersionIsRequired ==
  Spec => [](\A p \in Pinners : pc[p] \in EditsMade => AtLeast(goMod, kind[p].tag))
<1>1. PInv => \A p \in Pinners : pc[p] \in EditsMade => AtLeast(goMod, kind[p].tag)
  BY DEF PInv, Progress
<1> QED BY Invariant, <1>1, PTL
=============================================================================

--------------------------- MODULE BuildID_proofs ---------------------------
(***************************************************************************)
(* Theorems about BuildID, for any configurations, packages and disks: the  *)
(* tools of a build agree on the version, and what is woven with the same   *)
(* has the same version.                                                    *)
(***************************************************************************)
EXTENDS BuildID, JoinPoints_proofs, FiniteSetTheorems

-----------------------------------------------------------------------------
(* What is hashed is sorted: in whatever order the goroutines append it.      *)

LEMMA PermutationHasAll ==
  ASSUME NEW S, IsFiniteSet(S), NEW order \in SetToSeqs(S)
  PROVE  order \in Seq(S) /\ ToSet(order) = S
<1> DEFINE D == 1..Cardinality(S)
<1>1. Cardinality(S) \in Nat
  BY FS_CardinalityType
<1>2. order \in [D -> S] /\ (\A i, j \in D : i # j => order[i] # order[j])
  BY DEF SetToSeqs
<1>3. IsFiniteSet(D) /\ Cardinality(D) = Cardinality(S)
  BY <1>1, FS_Interval
<1>4. order \in Injection(D, S)
  BY <1>2 DEF Injection, IsInjective
<1>5. order \in Surjection(D, S)
  BY <1>3, <1>4, FS_Injection
<1>6. ToSet(order) = S
  BY <1>2, <1>5 DEF Surjection, ToSet
<1> QED BY <1>1, <1>2, <1>6

LEMMA SortedIsInOrder ==
  ASSUME NEW hashed, IsFiniteSet(hashed), NEW order \in SetToSeqs(hashed),
         NEW S \in SUBSET hashed
  PROVE  Sorted(Among(order, S)) = InOrder(S)
<1>1. order \in Seq(hashed) /\ ToSet(order) = hashed
  BY PermutationHasAll
<1>2. ToSet(Among(order, S)) = ToSet(order) \cap S
  BY <1>1, AmongElements
<1>3. ToSet(Among(order, S)) = S
  BY <1>1, <1>2
<1> QED BY <1>3 DEF Sorted

LEMMA InOrderElements ==
  ASSUME NEW S
  PROVE  \A i \in DOMAIN InOrder(S) : InOrder(S)[i] \in S
<1>1. ToSet(InOrder(S)) = ToSet(nameOrder) \cap S
  BY NamesAssumption, AmongElements DEF InOrder
<1> QED BY <1>1 DEF ToSet

-----------------------------------------------------------------------------
(* What is collected is among the packages that the injected ones lead to.    *)

LEMMA CollectedStays ==
  ASSUME NEW S \in SUBSET DOMAIN packages, \A p \in S : packages[p].imports \subseteq S,
         NEW paths \in SUBSET S
  PROVE  Collected(paths) \subseteq S
<1> DEFINE n == Cardinality(DOMAIN packages)
           step(r, k) == IF k = 0 THEN paths
                         ELSE r[k - 1] \union UNION {packages[p].imports : p \in r[k - 1]}
           Obeys(r) == r = [k \in 0..n |-> step(r, k)]
           reached == CHOOSE r : Obeys(r)
           Good(r, k) == \A i \in 0..k : r[i] = step(r, i)
           Missing == {k \in Nat : ~ \E r : Good(r, k)}
<1>1. n \in Nat
  BY PackagesAssumption, FS_CardinalityType
<1>2. Missing = {}
  <2> SUFFICES ASSUME Missing # {}
               PROVE  FALSE
    OBVIOUS
  <2>1. Missing \in SUBSET Nat
    OBVIOUS
  <2>2. PICK k \in Missing : \A l \in Missing : ~ (l < k)
    <3> HIDE DEF Missing
    <3> QED BY <2>1, LeastExists
  <2>3. k # 0
    <3>1. Good([i \in {0} |-> paths], 0)
      OBVIOUS
    <3> QED BY <3>1
  <2>4. k \in Nat /\ k - 1 \in Nat /\ k - 1 < k
    BY <2>3
  <2>5. PICK r : Good(r, k - 1)
    BY <2>2, <2>4
  <2> DEFINE g == [i \in 0..k |-> IF i < k THEN r[i] ELSE step(r, k)]
  <2>6. ASSUME NEW i \in 0..k
        PROVE  g[i] = step(r, i) /\ step(g, i) = step(r, i)
    <3>1. g[i] = step(r, i)
      <4>1. CASE i = k
        BY <4>1
      <4>2. CASE i # k
        <5>1. i \in 0..k - 1 /\ g[i] = r[i]
          BY <2>4, <4>2
        <5> HIDE DEF g, step
        <5> QED BY <2>5, <5>1
      <4> QED BY <4>1, <4>2
    <3>2. CASE i = 0
      BY <3>1, <3>2
    <3>3. CASE i # 0
      <4>1. i - 1 \in 0..k - 1 /\ g[i - 1] = r[i - 1]
        BY <2>4, <3>3
      <4> HIDE DEF g
      <4> QED BY <3>1, <3>3, <4>1
    <3> QED BY <3>2, <3>3
  <2>7. Good(g, k)
    <3> HIDE DEF g, step
    <3> QED BY <2>6
  <2> QED BY <2>7
<1>3. PICK r : Good(r, n)
  BY <1>1, <1>2
<1> DEFINE h == [k \in 0..n |-> r[k]]
<1>4. Obeys(h)
  <2>1. ASSUME NEW k \in 0..n
        PROVE  h[k] = step(h, k)
    <3>1. CASE k = 0
      BY <1>3, <3>1
    <3>2. CASE k # 0
      <4>1. k - 1 \in 0..n /\ h[k - 1] = r[k - 1] /\ h[k] = r[k]
        BY <1>1, <3>2
      <4>2. r[k] = step(r, k)
        BY <1>3
      <4> HIDE DEF h
      <4> QED BY <3>2, <4>1, <4>2
    <3> QED BY <3>1, <3>2
  <2> HIDE DEF step
  <2> QED BY <2>1
<1>5. Obeys(reached)
  <2> HIDE DEF h, Obeys
  <2> QED BY <1>4
<1>6. Collected(paths) = reached[n]
  BY DEF Collected
<1>7. \A k \in 0..n : reached[k] = step(reached, k)
  <2> HIDE DEF reached, step
  <2> QED BY <1>5
<1> DEFINE Out == {k \in 0..n : ~ (reached[k] \subseteq S)}
<1>8. Out = {}
  <2> HIDE DEF reached
  <2> SUFFICES ASSUME Out # {}
               PROVE  FALSE
    OBVIOUS
  <2>1. Out \in SUBSET Nat
    BY <1>1
  <2>2. PICK k \in Out : \A l \in Out : ~ (l < k)
    <3> HIDE DEF Out
    <3> QED BY <2>1, LeastExists
  <2>3. k # 0
    BY <1>7
  <2>4. k - 1 \in 0..n /\ k - 1 < k
    BY <1>1, <2>3
  <2>5. reached[k - 1] \subseteq S
    BY <2>2, <2>4
  <2>6. reached[k] = reached[k - 1] \union UNION {packages[p].imports : p \in reached[k - 1]}
    BY <1>7, <2>3
  <2>7. reached[k] \subseteq S
    BY <2>5, <2>6
  <2> QED BY <2>7
<1> QED BY <1>1, <1>6, <1>8

LEMMA InjectedArePackages ==
  ASSUME NEW d, IsDisk(d)
  PROVE  Closed(d, DOMAIN packages)
<1>1. d.config \in DOMAIN configs
  BY DEF IsDisk
<1> QED BY <1>1, PackagesAssumption DEF Closed, InjectedPaths, Aspects

LEMMA DependenciesClosed ==
  ASSUME NEW d, IsDisk(d)
  PROVE  Dependencies(d) \in SUBSET DOMAIN packages /\ Closed(d, Dependencies(d))
<1> DEFINE Least(S) == Closed(d, S) /\ \A R \in SUBSET DOMAIN packages : Closed(d, R) => S \subseteq R
           all == {p \in DOMAIN packages :
                      \A R \in SUBSET DOMAIN packages : Closed(d, R) => p \in R}
<1>1. Closed(d, DOMAIN packages)
  BY InjectedArePackages
<1>2. all \in SUBSET DOMAIN packages
  OBVIOUS
<1>3. Closed(d, all)
  <2>1. InjectedPaths(d) \subseteq all
    BY <1>1 DEF Closed
  <2>2. \A p \in all : packages[p].imports \subseteq all
    BY <1>1 DEF Closed
  <2> QED BY <2>1, <2>2 DEF Closed
<1>4. Least(all)
  BY <1>3
<1>5. Dependencies(d) = CHOOSE S \in SUBSET DOMAIN packages : Least(S)
  BY DEF Dependencies
<1> HIDE DEF all, Least
<1>6. Dependencies(d) \in SUBSET DOMAIN packages /\ Least(Dependencies(d))
  BY <1>2, <1>4, <1>5
<1> QED BY <1>6 DEF Least

-----------------------------------------------------------------------------
(* There is one fingerprint of a disk, and it depends on nothing that a build *)
(* does not use.                                                              *)

ModulesOf(d) == collectModules(InjectedPaths(d))

FilesJSON(d, m) ==
  FlattenSeq([i \in DOMAIN InOrder(ModulesOf(d)[m]) |->
      <<InOrder(ModulesOf(d)[m])[i], d.files[InOrder(ModulesOf(d)[m])[i]]>>])

ModuleJSON(d, m) ==
  <<m, Version(d, m), Replace(d, m)>> \o (IF shouldHashContent(d, m) THEN FilesJSON(d, m) ELSE << >>)

TheSuffix(d) ==
  LET names == InOrder(DOMAIN ModulesOf(d))
  IN  <<"orchestrion", Tag(d.binary)>> \o getTagSuffix(d.binary) \o HashAspects(Aspects(d))
      \o FlattenSeq([i \in DOMAIN names |-> Hash(names[i], <<ModuleJSON(d, names[i])>>)])

LEMMA CollectedAreDependencies ==
  ASSUME NEW d, IsDisk(d)
  PROVE  Collected(InjectedPaths(d)) \subseteq Dependencies(d)
<1>1. Dependencies(d) \in SUBSET DOMAIN packages /\ Closed(d, Dependencies(d))
  BY DependenciesClosed
<1> QED BY <1>1, CollectedStays DEF Closed

LEMMA ModuleFiles ==
  ASSUME NEW d, IsDisk(d), NEW m \in DOMAIN ModulesOf(d), NEW f \in ModulesOf(d)[m]
  PROVE  \E p \in Dependencies(d) : packages[p].module = m /\ m # "" /\ f \in FilesOf(p)
<1>1. Collected(InjectedPaths(d)) \subseteq Dependencies(d)
  BY CollectedAreDependencies
<1> QED BY <1>1 DEF ModulesOf, collectModules

LEMMA ModuleOfDependency ==
  ASSUME NEW d, IsDisk(d), NEW m \in DOMAIN ModulesOf(d)
  PROVE  \E p \in Dependencies(d) : packages[p].module = m /\ m # ""
<1>1. Collected(InjectedPaths(d)) \subseteq Dependencies(d)
  BY CollectedAreDependencies
<1> QED BY <1>1 DEF ModulesOf, collectModules

LEMMA HashedIsFinite ==
  ASSUME NEW d, IsDisk(d), NEW M \in SUBSET DOMAIN ModulesOf(d)
  PROVE  IsFiniteSet(UNION {ModulesOf(d)[m] : m \in M})
<1> DEFINE all == UNION {FilesOf(p) : p \in DOMAIN packages}
<1>1. Dependencies(d) \in SUBSET DOMAIN packages
  BY DependenciesClosed
<1>2. ASSUME NEW m \in M
      PROVE  ModulesOf(d)[m] \subseteq all
  <2> SUFFICES ASSUME NEW f \in ModulesOf(d)[m]
               PROVE  f \in all
    OBVIOUS
  <2>1. m \in DOMAIN ModulesOf(d)
    OBVIOUS
  <2>2. PICK p \in Dependencies(d) : f \in FilesOf(p)
    BY <2>1, ModuleFiles
  <2> QED BY <1>1, <2>2
<1>3. UNION {ModulesOf(d)[m] : m \in M} \in SUBSET all
  <2> HIDE DEF all
  <2> QED BY <1>2
<1> QED BY <1>3, PackagesAssumption, FS_Subset

LEMMA SuffixIsTheSuffix ==
  ASSUME NEW d, IsDisk(d), NEW suffix \in versionSuffixes(d)
  PROVE  suffix = TheSuffix(d)
<1> DEFINE names == InOrder(DOMAIN ModulesOf(d))
           hashed == UNION {ModulesOf(d)[m] : m \in {n \in DOMAIN ModulesOf(d) : shouldHashContent(d, n)}}
           prefix == <<"orchestrion", Tag(d.binary)>> \o getTagSuffix(d.binary) \o HashAspects(Aspects(d))
           entry(order, i) == Hash(names[i], <<MarshalJSON(d, names[i], Among(order, ModulesOf(d)[names[i]]))>>)
           entries(order) == [i \in DOMAIN names |-> entry(order, i)]
<1>1. PICK order \in SetToSeqs(hashed) : suffix = prefix \o FlattenSeq(entries(order))
  BY DEF versionSuffixes, ModulesOf
<1>2. IsFiniteSet(hashed)
  BY HashedIsFinite
<1>3. ASSUME NEW i \in DOMAIN names
      PROVE  entry(order, i) = Hash(names[i], <<ModuleJSON(d, names[i])>>)
  <2> DEFINE m == names[i]
  <2>1. m \in DOMAIN ModulesOf(d)
    BY InOrderElements
  <2>2. CASE shouldHashContent(d, m)
    <3>1. ModulesOf(d)[m] \in SUBSET hashed
      BY <2>1, <2>2
    <3> HIDE DEF m, hashed
    <3>2. Sorted(Among(order, ModulesOf(d)[m])) = InOrder(ModulesOf(d)[m])
      BY <1>2, <3>1, SortedIsInOrder
    <3>3. MarshalJSON(d, m, Among(order, ModulesOf(d)[m])) = ModuleJSON(d, m)
      BY <2>2, <3>2 DEF MarshalJSON, ModuleJSON, FilesJSON
    <3> QED BY <3>3 DEF m
  <2>3. CASE ~ shouldHashContent(d, m)
    <3> HIDE DEF m
    <3>1. MarshalJSON(d, m, Among(order, ModulesOf(d)[m])) = ModuleJSON(d, m)
      BY <2>3 DEF MarshalJSON, ModuleJSON
    <3> QED BY <3>1 DEF m
  <2> QED BY <2>2, <2>3
<1>4. entries(order) = [i \in DOMAIN names |-> Hash(names[i], <<ModuleJSON(d, names[i])>>)]
  <2> HIDE DEF names, entry
  <2> QED BY <1>3
<1> HIDE DEF entries, prefix, hashed
<1>5. suffix = prefix \o FlattenSeq([i \in DOMAIN names |-> Hash(names[i], <<ModuleJSON(d, names[i])>>)])
  BY <1>1, <1>4
<1> QED BY <1>5 DEF TheSuffix, prefix

LEMMA TuplesAgree ==
  /\ \A a, b, c, e : <<a, b>> = <<c, e>> => a = c /\ b = e
  /\ \A a, c : <<a>> = <<c>> => a = c
  /\ \A a, b, c : <<a, b>> # <<c>>
OBVIOUS

LEMMA ContentAgrees ==
  ASSUME NEW d1, NEW d2, IsDisk(d1), IsDisk(d2),
         NEW p \in DOMAIN packages, packages[p].module # "",
         Content(d1, p) = Content(d2, p)
  PROVE  LET m == packages[p].module
         IN  /\ d1.modules[m] = d2.modules[m]
             /\ shouldHashContent(d1, m) => \A f \in FilesOf(p) : d1.files[f] = d2.files[f]
<1> DEFINE m == packages[p].module
           local(d) == d.modules[m].from \in {"workspace", "directory"}
           files(d) == [f \in FilesOf(p) |-> d.files[f]]
<1>1. \A d \in {d1, d2} : Content(d, p) = IF local(d) THEN <<d.modules[m], files(d)>>
                                          ELSE <<d.modules[m]>>
  BY DEF Content
<1> HIDE DEF files
<1>2. d1.modules[m] = d2.modules[m] /\ (local(d1) => files(d1) = files(d2))
  <2>1. CASE local(d1) /\ local(d2)
    <3>1. <<d1.modules[m], files(d1)>> = <<d2.modules[m], files(d2)>>
      BY <1>1, <2>1
    <3> QED BY <3>1, TuplesAgree
  <2>2. CASE ~ local(d1) /\ ~ local(d2)
    <3>1. <<d1.modules[m]>> = <<d2.modules[m]>>
      BY <1>1, <2>2
    <3> QED BY <2>2, <3>1, TuplesAgree
  <2>3. CASE local(d1) /\ ~ local(d2)
    <3>1. <<d1.modules[m], files(d1)>> = <<d2.modules[m]>>
      BY <1>1, <2>3
    <3> QED BY <3>1, TuplesAgree
  <2>4. CASE ~ local(d1) /\ local(d2)
    <3>1. <<d2.modules[m], files(d2)>> = <<d1.modules[m]>>
      BY <1>1, <2>4
    <3> QED BY <3>1, TuplesAgree
  <2> QED BY <2>1, <2>2, <2>3, <2>4
<1>3. m \in DOMAIN d1.modules
  BY DEF IsDisk
<1>4. IsSource(d1.modules[m])
  BY <1>3 DEF IsDisk
<1>5. shouldHashContent(d1, m) => local(d1)
  BY <1>4 DEF shouldHashContent, Version, Replace, IsSource
<1>6. shouldHashContent(d1, m) => \A f \in FilesOf(p) : d1.files[f] = d2.files[f]
  <2> SUFFICES ASSUME shouldHashContent(d1, m), NEW f \in FilesOf(p)
               PROVE  d1.files[f] = d2.files[f]
    OBVIOUS
  <2>1. files(d1) = files(d2)
    BY <1>2, <1>5
  <2>2. files(d1)[f] = d1.files[f] /\ files(d2)[f] = d2.files[f]
    BY DEF files
  <2> QED BY <2>1, <2>2
<1> QED BY <1>2, <1>6

LEMMA WovenAgrees ==
  ASSUME NEW d1, NEW d2, IsDisk(d1), IsDisk(d2), Woven(d1) = Woven(d2)
  PROVE  /\ Aspects(d1) = Aspects(d2) /\ d1.binary = d2.binary
         /\ Dependencies(d1) = Dependencies(d2)
         /\ \A p \in Dependencies(d1) : Content(d1, p) = Content(d2, p)
<1> DEFINE pairs(d) == {<<p, Content(d, p)>> : p \in Dependencies(d)}
<1>1. Aspects(d1) = Aspects(d2) /\ d1.binary = d2.binary /\ pairs(d1) = pairs(d2)
  BY DEF Woven
<1>2. ASSUME NEW p \in Dependencies(d1)
      PROVE  p \in Dependencies(d2) /\ Content(d1, p) = Content(d2, p)
  <2>1. <<p, Content(d1, p)>> \in pairs(d2)
    BY <1>1
  <2> QED BY <2>1
<1>3. ASSUME NEW p \in Dependencies(d2)
      PROVE  p \in Dependencies(d1)
  <2>1. <<p, Content(d2, p)>> \in pairs(d1)
    BY <1>1
  <2> QED BY <2>1
<1> QED BY <1>1, <1>2, <1>3

\* What is woven with the same has the same fingerprint.
LEMMA WovenDetermines ==
  ASSUME NEW d1, NEW d2, IsDisk(d1), IsDisk(d2), Woven(d1) = Woven(d2)
  PROVE  TheSuffix(d1) = TheSuffix(d2)
<1>1. /\ Aspects(d1) = Aspects(d2) /\ d1.binary = d2.binary
      /\ Dependencies(d1) = Dependencies(d2)
      /\ \A p \in Dependencies(d1) : Content(d1, p) = Content(d2, p)
  BY WovenAgrees
<1>2. ModulesOf(d1) = ModulesOf(d2)
  BY <1>1 DEF ModulesOf, InjectedPaths
<1>3. Dependencies(d1) \in SUBSET DOMAIN packages
  BY DependenciesClosed
<1>4. ASSUME NEW m \in DOMAIN ModulesOf(d1)
      PROVE  ModuleJSON(d1, m) = ModuleJSON(d2, m)
  <2>1. PICK p \in Dependencies(d1) : packages[p].module = m /\ m # ""
    BY ModuleOfDependency
  <2>2. d1.modules[m] = d2.modules[m]
    BY <1>1, <1>3, <2>1, ContentAgrees
  <2>3. /\ Version(d1, m) = Version(d2, m) /\ Replace(d1, m) = Replace(d2, m)
        /\ shouldHashContent(d1, m) <=> shouldHashContent(d2, m)
    BY <2>2 DEF Version, Replace, shouldHashContent
  <2>4. ASSUME shouldHashContent(d1, m)
        PROVE  FilesJSON(d1, m) = FilesJSON(d2, m)
    <3> DEFINE files == InOrder(ModulesOf(d1)[m])
               entry(d, i) == <<files[i], d.files[files[i]]>>
    <3>1. ASSUME NEW i \in DOMAIN files
          PROVE  entry(d1, i) = entry(d2, i)
      <4>1. files[i] \in ModulesOf(d1)[m]
        BY InOrderElements
      <4>2. PICK q \in Dependencies(d1) :
                packages[q].module = m /\ m # "" /\ files[i] \in FilesOf(q)
        <5> HIDE DEF files
        <5> QED BY <4>1, ModuleFiles
      <4>3. d1.files[files[i]] = d2.files[files[i]]
        <5> HIDE DEF files
        <5> QED BY <1>1, <1>3, <2>4, <4>2, ContentAgrees
      <4> QED BY <4>3
    <3>2. [i \in DOMAIN files |-> entry(d1, i)] = [i \in DOMAIN files |-> entry(d2, i)]
      <4> HIDE DEF files, entry
      <4> QED BY <3>1
    <3> QED BY <1>2, <3>2 DEF FilesJSON
  <2> QED BY <2>3, <2>4 DEF ModuleJSON
<1> DEFINE names == InOrder(DOMAIN ModulesOf(d1))
           entry(d, i) == Hash(names[i], <<ModuleJSON(d, names[i])>>)
<1>5. ASSUME NEW i \in DOMAIN names
      PROVE  entry(d1, i) = entry(d2, i)
  <2>1. names[i] \in DOMAIN ModulesOf(d1)
    BY InOrderElements
  <2>2. ModuleJSON(d1, names[i]) = ModuleJSON(d2, names[i])
    BY <1>4, <2>1
  <2> QED BY <2>2
<1>6. [i \in DOMAIN names |-> entry(d1, i)] = [i \in DOMAIN names |-> entry(d2, i)]
  <2> HIDE DEF names, entry
  <2> QED BY <1>5
<1> QED BY <1>1, <1>2, <1>6 DEF TheSuffix

-----------------------------------------------------------------------------
(***************************************************************************)
(* The invariant: what a tool was told is a fingerprint of the disk as it is *)
(* until the build is over, so is what the job server remembers, and every   *)
(* entry of the cache has a fingerprint of a disk that it was woven with.    *)
(***************************************************************************)
DiskInv == IsDisk(disk)

AskedInv ==
  /\ asked = [t \in tools |-> asked[t]]
  /\ \A t \in tools :
        /\ asked[t] = [at |-> asked[t].at, suffix |-> asked[t].suffix]
        /\ asked[t].at = "known" /\ phase # "idle" => asked[t].suffix \in versionSuffixes(disk)

ServerInv ==
  /\ server = [up |-> server.up, resolvedVersion |-> server.resolvedVersion]
  /\ server.resolvedVersion # Nothing =>
        phase = "versions" /\ server.resolvedVersion \in versionSuffixes(disk)

CacheInv ==
  \A e \in cache : \E d : IsDisk(d) /\ e.woven = Woven(d) /\ e.key \in versionSuffixes(d)

VersionsInv == DiskInv /\ AskedInv /\ ServerInv /\ CacheInv

LEMMA VersionsInit ==
  ASSUME Init
  PROVE  VersionsInv
<1>1. IsDisk(disk)
  BY DisksAssumption DEF Init
<1> QED BY <1>1 DEF Init, VersionsInv, DiskInv, AskedInv, ServerInv, CacheInv, NoServer

LEMMA EditedKeeps ==
  ASSUME VersionsInv, NEW new, IsDisk(new), Edited(new)
  PROVE  VersionsInv'
<1>1. server.resolvedVersion = Nothing
  BY DEF VersionsInv, ServerInv, Edited
<1>2. DiskInv' /\ CacheInv'
  BY DEF VersionsInv, CacheInv, DiskInv, Edited
<1>3. AskedInv'
  BY DEF VersionsInv, AskedInv, Edited
<1>4. ServerInv'
  BY <1>1 DEF VersionsInv, ServerInv, Edited
<1> QED BY <1>2, <1>3, <1>4 DEF VersionsInv

LEMMA EditKeeps ==
  ASSUME VersionsInv, EditConfig \/ EditFile \/ RequireModule \/ InstallOrchestrion
  PROVE  VersionsInv'
<1>1. IsDisk(disk)
  BY DEF VersionsInv, DiskInv
<1>2. CASE EditConfig
  <2>1. PICK c \in DOMAIN configs : Edited([disk EXCEPT !.config = c])
    BY <1>2 DEF EditConfig
  <2>2. IsDisk([disk EXCEPT !.config = c])
    BY <1>1 DEF IsDisk
  <2> QED BY <2>1, <2>2, EditedKeeps
<1>3. CASE EditFile
  <2>1. PICK f : Edited([disk EXCEPT !.files[f] = "new"])
    BY <1>3 DEF EditFile
  <2>2. IsDisk([disk EXCEPT !.files[f] = "new"])
    BY <1>1 DEF IsDisk
  <2> QED BY <2>1, <2>2, EditedKeeps
<1>4. CASE RequireModule
  <2>1. PICK m \in DOMAIN disk.modules, source \in sources : Edited([disk EXCEPT !.modules[m] = source])
    BY <1>4 DEF RequireModule
  <2>2. IsSource(source)
    BY DisksAssumption
  <2>3. IsDisk([disk EXCEPT !.modules[m] = source])
    BY <1>1, <2>2 DEF IsDisk
  <2> QED BY <2>1, <2>3, EditedKeeps
<1>5. CASE InstallOrchestrion
  <2>1. PICK b : Edited([disk EXCEPT !.binary = b])
    BY <1>5 DEF InstallOrchestrion
  <2>2. IsDisk([disk EXCEPT !.binary = b])
    BY <1>1 DEF IsDisk
  <2> QED BY <2>1, <2>2, EditedKeeps
<1> QED BY <1>2, <1>3, <1>4, <1>5

LEMMA StartBuildKeeps ==
  ASSUME VersionsInv, StartBuild
  PROVE  VersionsInv'
BY DEF VersionsInv, DiskInv, AskedInv, ServerInv, CacheInv, StartBuild, NoServer

LEMMA ComputeVersionKeeps ==
  ASSUME VersionsInv, NEW t \in tools, ComputeVersion(t)
  PROVE  VersionsInv'
<1>1. DiskInv' /\ CacheInv'
  BY DEF VersionsInv, CacheInv, DiskInv, ComputeVersion
<1>2. CASE \E suffix \in versionSuffixes(disk) :
             /\ asked' = [asked EXCEPT ![t] = [at |-> "known", suffix |-> suffix]]
             /\ server' = IF server.up THEN [server EXCEPT !.resolvedVersion = suffix] ELSE server
  <2>1. PICK suffix \in versionSuffixes(disk) :
             /\ asked' = [asked EXCEPT ![t] = [at |-> "known", suffix |-> suffix]]
             /\ server' = IF server.up THEN [server EXCEPT !.resolvedVersion = suffix] ELSE server
    BY <1>2
  <2>2. AskedInv'
    BY <2>1 DEF VersionsInv, AskedInv, ComputeVersion
  <2>3. ServerInv'
    BY <2>1 DEF VersionsInv, ServerInv, ComputeVersion
  <2> QED BY <1>1, <2>2, <2>3 DEF VersionsInv
<1>3. CASE /\ server.resolvedVersion # Nothing
           /\ asked' = [asked EXCEPT ![t] = [at |-> "known", suffix |-> server.resolvedVersion]]
           /\ UNCHANGED server
  <2>1. server.resolvedVersion \in versionSuffixes(disk)
    BY <1>3 DEF VersionsInv, ServerInv
  <2>2. AskedInv'
    BY <1>3, <2>1 DEF VersionsInv, AskedInv, ComputeVersion
  <2>3. ServerInv'
    BY <1>3 DEF VersionsInv, ServerInv, ComputeVersion
  <2> QED BY <1>1, <2>2, <2>3 DEF VersionsInv
<1>4. CASE /\ asked' = [asked EXCEPT ![t] = [at |-> "failed", suffix |-> Nothing]]
           /\ UNCHANGED server
  <2>1. AskedInv'
    BY <1>4 DEF VersionsInv, AskedInv, ComputeVersion
  <2>2. ServerInv'
    BY <1>4 DEF VersionsInv, ServerInv, ComputeVersion
  <2> QED BY <1>1, <2>1, <2>2 DEF VersionsInv
<1> QED BY <1>2, <1>3, <1>4 DEF ComputeVersion

LEMMA CompileKeeps ==
  ASSUME VersionsInv, Compile
  PROVE  VersionsInv'
<1>1. IsDisk(disk) /\ asked[compiler].suffix \in versionSuffixes(disk)
  BY NamesAssumption DEF VersionsInv, DiskInv, AskedInv, Compile
<1>2. DiskInv' /\ AskedInv' /\ ServerInv'
  BY DEF VersionsInv, DiskInv, AskedInv, ServerInv, Compile, NoServer
<1>3. cache' = cache \/ cache' = cache \union {[key |-> asked[compiler].suffix, woven |-> Woven(disk)]}
  BY DEF Compile
<1>4. CacheInv'
  <2>1. \A e \in cache : \E d : IsDisk(d) /\ e.woven = Woven(d) /\ e.key \in versionSuffixes(d)
    BY DEF VersionsInv, CacheInv
  <2> QED BY <1>1, <1>3, <2>1 DEF CacheInv
<1> QED BY <1>2, <1>4 DEF VersionsInv

LEMMA GiveUpKeeps ==
  ASSUME VersionsInv, GiveUp
  PROVE  VersionsInv'
BY DEF VersionsInv, DiskInv, AskedInv, ServerInv, CacheInv, GiveUp, NoServer

LEMMA VersionsNext ==
  ASSUME VersionsInv, [Next]_vars
  PROVE  VersionsInv'
<1>1. CASE UNCHANGED vars
  BY <1>1 DEF vars, VersionsInv, DiskInv, AskedInv, ServerInv, CacheInv
<1>2. CASE EditConfig \/ EditFile \/ RequireModule \/ InstallOrchestrion
  BY <1>2, EditKeeps
<1>3. CASE StartBuild
  BY <1>3, StartBuildKeeps
<1>4. CASE \E t \in tools : ComputeVersion(t)
  BY <1>4, ComputeVersionKeeps
<1>5. CASE Compile
  BY <1>5, CompileKeeps
<1>6. CASE GiveUp
  BY <1>6, GiveUpKeeps
<1> QED BY <1>1, <1>2, <1>3, <1>4, <1>5, <1>6 DEF Next

LEMMA VersionsAreStable ==
  ASSUME VersionsInv
  PROVE  SuffixIsStable
<1>1. IsDisk(disk)
  BY DEF VersionsInv, DiskInv
<1> SUFFICES ASSUME NEW t \in tools, asked[t].at = "known", phase # "idle"
             PROVE  /\ \A u \in tools : asked[u].at = "known" => asked[u].suffix = asked[t].suffix
                    /\ \A e \in cache : e.woven = Woven(disk) => e.key = asked[t].suffix
  BY DEF SuffixIsStable
<1>2. \A u \in tools : asked[u].at = "known" => asked[u].suffix = TheSuffix(disk)
  <2>1. \A u \in tools : asked[u].at = "known" => asked[u].suffix \in versionSuffixes(disk)
    BY DEF VersionsInv, AskedInv
  <2> QED BY <1>1, <2>1, SuffixIsTheSuffix
<1>3. ASSUME NEW e \in cache, e.woven = Woven(disk)
      PROVE  e.key = TheSuffix(disk)
  <2>1. PICK d : IsDisk(d) /\ e.woven = Woven(d) /\ e.key \in versionSuffixes(d)
    BY DEF VersionsInv, CacheInv
  <2>2. e.key = TheSuffix(d)
    BY <2>1, SuffixIsTheSuffix
  <2>3. Woven(d) = Woven(disk)
    BY <1>3, <2>1
  <2>4. TheSuffix(d) = TheSuffix(disk)
    BY <1>1, <2>1, <2>3, WovenDetermines
  <2> QED BY <2>2, <2>4
<1> QED BY <1>2, <1>3

\* In every state, the tools of a build have been told one version, and what the
\* cache holds of a build that was woven with the same is under that version: the
\* order of the goroutines that hash files (version.go) is not seen, and nothing
\* that is not woven is part of the version.
THEOREM VersionIsStable == Spec => []SuffixIsStable
<1>1. Init => VersionsInv
  BY VersionsInit
<1>2. VersionsInv /\ [Next]_vars => VersionsInv'
  BY VersionsNext
<1>3. VersionsInv => SuffixIsStable
  BY VersionsAreStable
<1> QED BY <1>1, <1>2, <1>3, PTL DEF Spec

=============================================================================

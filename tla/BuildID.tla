------------------------------ MODULE BuildID ------------------------------
(***************************************************************************)
(* The version string of the toolchain (internal/toolexec/version.go,       *)
(* jobserver/buildid, internal/fingerprint): what the go command takes for   *)
(* the identity of its tools, and so a part of the key of its build cache.   *)
(* Orchestrion appends the fingerprint of its configuration and of the       *)
(* modules that it may inject.                                               *)
(*                                                                         *)
(* A build asks each of its tools for its version, with or without a job     *)
(* server, then compiles what the cache does not hold.  Between builds the   *)
(* disk may change.  A fingerprint is the sequence of what is hashed: the    *)
(* hash is taken to have no collisions of its own.                           *)
(***************************************************************************)
EXTENDS JoinPoints, TLC

CONSTANTS
    configs,        \* the configurations, sequences of aspects
    packages,       \* what may be injected: files, imports, module
    nameOrder,      \* the strings that are sorted, in their order
    tools,          \* of the toolchain, that a build asks for their version
    compiler,       \* the one that compiles
    initialDisks,   \* the disk to begin with
    sources,        \* where a module may come from
    binaries,       \* the orchestrion binaries that may be installed, one of each release
    MaxEdits        \* bound on the changes of the disk

FilesOf(p) == packages[p].GoFiles \union packages[p].EmbedFiles \union packages[p].OtherFiles

ASSUME PackagesAssumption ==
    /\ IsFiniteSet(DOMAIN packages)
    /\ IsFiniteSet(UNION {FilesOf(p) : p \in DOMAIN packages})
    /\ \A p \in DOMAIN packages : packages[p].imports \subseteq DOMAIN packages
    /\ \A c \in DOMAIN configs : \A a \in Range(configs[c]) : Range(a.paths) \subseteq DOMAIN packages

ASSUME NamesAssumption == nameOrder \in Seq(STRING) /\ compiler \in tools

\* Where a module may come from: what is downloaded has a version.
IsSource(source) ==
    \/ source.from \in {"workspace", "directory"}
    \/ source.from = "proxy" /\ source.version # ""
    \/ source.from = "fork" /\ source.version # "" /\ source.fork # ""

IsDisk(d) ==
    /\ DOMAIN d = {"config", "files", "modules", "binary"}
    /\ d.config \in DOMAIN configs
    /\ {packages[p].module : p \in DOMAIN packages} \ {""} \subseteq DOMAIN d.modules
    /\ \A m \in DOMAIN d.modules : IsSource(d.modules[m])

ASSUME DisksAssumption ==
    (\A d \in initialDisks : IsDisk(d)) /\ (\A source \in sources : IsSource(source))

VARIABLES
    disk,           \* configuration, modules, files, and the orchestrion binary
    edits,          \* how often the disk changed
    phase,          \* of the build: "idle", "versions", "compile", "done"
    server,         \* the job server of the build, or none
    asked,          \* of each tool, the state of its -V=full
    cache,          \* of the go command: keys, and what was compiled then
    used            \* what the build used

vars == <<disk, edits, phase, server, asked, cache, used>>

----------------------------------------------------------------------------
(* Fingerprints *)

\* The control characters that set off keys and values.
SOH == "^A"
SOT == "^B"
ETX == "^C"

InOrder(S) == Among(nameOrder, S)

String(s) == IF s = "" THEN << >> ELSE <<s>>
Bool(b) == <<IF b THEN "true" ELSE "false">>
Number(i) == <<ToString(i)>>

\* Hasher.Named: the name, and the values by their index.
Hash(name, vals) ==
    <<SOH, name, SOT>>
    \o FlattenSeq([i \in DOMAIN vals |-> <<SOH>> \o Number(i - 1) \o <<SOT>> \o vals[i] \o <<ETX>>])
    \o <<ETX, name>>

List(vals) == Hash("list", <<Number(Len(vals))>> \o vals)
Strings(seq) == List([i \in DOMAIN seq |-> String(seq[i])])
Map(m) ==
    LET keys == InOrder(DOMAIN m)
    IN  Hash("map", <<Number(Len(keys))>> \o [i \in DOMAIN keys |-> Hash(keys[i], <<String(m[keys[i]])>>)])

HashType(tn) == Hash("type-name", <<String(tn.name), String(tn.path), Bool(tn.ptr)>>)
HashTypes(tns) == List([i \in DOMAIN tns |-> HashType(tns[i])])

HashOption(opt) ==
    CASE opt.option = "name" -> Hash("name", <<String(opt.name)>>)
      [] opt.option = "receiver" -> Hash("receiver", <<HashType(opt.type)>>)
      [] opt.option = "has-receiver" -> Hash("receiver", <<Bool(opt.has)>>)
      [] opt.option \in {"signature", "signature-contains"} ->
           Hash(opt.option, <<HashTypes(opt.args), HashTypes(opt.results)>>)
      [] opt.option \in {"result-implements", "final-result-implements", "argument-implements"} ->
           Hash(opt.option, <<String(opt.interface.path) \o String(opt.interface.name)>>)

\* Join points, by their index; import-path and package-name share their label.
HashPoints ==
    LET hash[p \in DOMAIN points] ==
        LET pt == points[p]
            of == IF "of" \in DOMAIN pt THEN [i \in DOMAIN pt.of |-> hash[pt.of[i]]] ELSE << >>
        IN CASE pt.kind \in {"not", "function-body"} -> Hash(pt.kind, <<of[1]>>)
             [] pt.kind \in {"one-of", "all-of"} -> Hash(pt.kind, <<List(of)>>)
             [] pt.kind = "function" ->
                  Hash(pt.kind, <<List([i \in DOMAIN pt.options |-> HashOption(pt.options[i])])>>)
             [] pt.kind \in {"struct-definition", "value-declaration"} ->
                  Hash(pt.kind, <<HashType(pt.type)>>)
             [] pt.kind = "struct-literal" ->
                  Hash(pt.kind, <<HashType(pt.type), String(pt.field),
                                  Hash("struct-literal-match", <<String(pt.match)>>)>>)
             [] pt.kind = "method-call" ->
                  Hash(pt.kind, <<HashType(pt.type), String(pt.name),
                                  Hash("method-call-match", <<String(pt.match)>>)>>)
             [] pt.kind \in {"function-call", "declaration-of"} ->
                  Hash(pt.kind, <<String(pt.path), String(pt.name)>>)
             [] pt.kind = "directive" -> Hash(pt.kind, <<String(pt.name)>>)
             [] pt.kind \in {"import-path", "package-name"} ->
                  Hash("import-path", <<String(pt.name)>>)
             [] pt.kind = "package-filter" ->
                  Hash(pt.kind, <<Bool(pt.root), String(pt.text)>>)
             [] pt.kind = "test-main" -> Hash(pt.kind, <<Bool(pt.value)>>)
             [] pt.kind = "configuration" -> Hash(pt.kind, <<Map(pt.settings)>>)
    IN  hash

HashTemplate(t) ==
    Hash("template", <<Map(t.imports), String(t.source), Hash("GoLangVersion", <<String(t.lang)>>)>>)

HashAdvice(adv) ==
    CASE adv.kind = "append-args" ->
           Hash(adv.kind, <<HashType(adv.type),
                            List([i \in DOMAIN adv.templates |-> HashTemplate(adv.templates[i])])>>)
      [] adv.kind = "replace-function" -> Hash(adv.kind, <<String(adv.path), String(adv.name)>>)
      [] adv.kind = "add-struct-field" -> Hash(adv.kind, <<String(adv.name), HashType(adv.type)>>)
      [] adv.kind = "prepend-statements" ->
           Hash(adv.kind, <<HashTemplate(adv.template), Number(adv.order), String(adv.namespace)>>)
      [] adv.kind = "inject-declarations" ->
           Hash(adv.kind, <<Strings(adv.links), HashTemplate(adv.template)>>)
      [] adv.kind = "add-blank-import" -> Hash(adv.kind, <<String(adv.path)>>)
      [] adv.kind \in {"wrap-expression", "assign-value"} -> Hash(adv.kind, <<HashTemplate(adv.template)>>)

HashAspect(a) ==
    Hash("aspect", <<String(a.id), Bool(a.internal), HashPoints[a.point],
                     List([i \in DOMAIN a.advice |-> HashAdvice(a.advice[i])])>>)

HashAspects(as) == Hash("aspects", <<List([i \in DOMAIN as |-> HashAspect(as[i])])>>)

----------------------------------------------------------------------------
(* The modules that may be injected, as a disk d has them *)

Aspects(d) == configs[d.config]

\* AddedImports of the aspects, each path once: see module Weave.
InjectedPaths(d) == UNION {Range(a.paths) : a \in Range(Aspects(d))}

\* The packages that the injected ones lead to.
Collected(paths) ==
    LET reached[k \in 0..Cardinality(DOMAIN packages)] ==
            IF k = 0 THEN paths
            ELSE reached[k - 1] \union UNION {packages[p].imports : p \in reached[k - 1]}
    IN  reached[Cardinality(DOMAIN packages)]

\* The files of the packages that were collected, by module; those of the standard
\* library have none.
collectModules(paths) ==
    LET found == {p \in Collected(paths) : packages[p].module # ""}
    IN  [m \in {packages[p].module : p \in found} |->
            UNION {FilesOf(p) : p \in {q \in found : packages[q].module = m}}]

\* What the go command says of a module: a module of the workspace has no version, one
\* that is replaced by a directory has a replacement without a version.
Version(d, m) == IF d.modules[m].from = "workspace" THEN "" ELSE d.modules[m].version
Replace(d, m) ==
    CASE d.modules[m].from = "directory" -> ""
      [] d.modules[m].from = "fork" -> d.modules[m].fork
      [] OTHER -> "nil"

OnlyReplaced(d, m) == Replace(d, m) = ""
shouldHashContent(d, m) == Version(d, m) = "" \/ Replace(d, m) = ""

\* One goroutine hashes each file: they are appended in any order, then sorted.
AsAppended(files) == files
Sorted(files) == InOrder(ToSet(files))

MarshalJSON(d, m, appended) ==
    <<m, Version(d, m), Replace(d, m)>>
    \o IF shouldHashContent(d, m)
       THEN FlattenSeq([i \in DOMAIN Sorted(appended) |->
                            <<Sorted(appended)[i], d.files[Sorted(appended)[i]]>>])
       ELSE << >>

\* What the executable says of itself: whether it has build information, the static tag,
\* the version of its main module and that of a replacement ("nil": there is none).  A
\* replacement decides whether this is a development build, but gives no version.
buildInfoVersion(binary) ==
    LET version == IF binary.replace = "nil" THEN binary.version ELSE binary.replace
    IN  CASE ~binary.info -> <<"">>
          [] binary.info /\ version \in {"", "(devel)"} -> <<binary.tag, "+dev">>
          [] OTHER -> <<binary.version>>
Tag(binary) ==
    IF buildInfoVersion(binary) # <<"">> THEN buildInfoVersion(binary) ELSE <<binary.tag>>

\* The checksum of the executable, if it has no version or one that is not the whole
\* truth.  A replacement does not matter here; an executable that has no build
\* information or cannot be read is only warned of.
isDev(binary) == binary.version \in {"(devel)", ""} \/ binary.vcsModified
getTagSuffix(binary) ==
    IF binary.info /\ isDev(binary) /\ binary.readable THEN <<"+", binary.sum>> ELSE << >>

\* The fingerprints that versionSuffix may compute: there should be one.
versionSuffixes(d) ==
    LET modules == collectModules(InjectedPaths(d))
        names == InOrder(DOMAIN modules)
        hashed == UNION {modules[m] : m \in {n \in DOMAIN modules : shouldHashContent(d, n)}}
        prefix == <<"orchestrion", Tag(d.binary)>> \o getTagSuffix(d.binary) \o HashAspects(Aspects(d))
    IN  {prefix \o FlattenSeq([i \in DOMAIN names |->
            Hash(names[i], <<MarshalJSON(d, names[i], Among(order, modules[names[i]]))>>)])
         : order \in SetToSeqs(hashed)}

----------------------------------------------------------------------------
(* Builds *)

\* What is injected and all it depends on: the least set of packages that is closed.
Closed(d, S) == InjectedPaths(d) \subseteq S /\ \A p \in S : packages[p].imports \subseteq S
Dependencies(d) ==
    CHOOSE S \in SUBSET DOMAIN packages :
        Closed(d, S) /\ \A R \in SUBSET DOMAIN packages : Closed(d, R) => S \subseteq R

\* What a package is woven with, that the go command does not know of.
Content(d, p) ==
    LET m == packages[p].module
    IN  IF m = "" THEN << >>
        ELSE IF d.modules[m].from \in {"workspace", "directory"}
        THEN <<d.modules[m], [f \in FilesOf(p) |-> d.files[f]]>>
        ELSE <<d.modules[m]>>
Woven(d) == [aspects |-> Aspects(d), binary |-> d.binary,
             packages |-> {<<p, Content(d, p)>> : p \in Dependencies(d)}]

Nothing == << >>
NoServer == [up |-> FALSE, resolvedVersion |-> Nothing]

Init ==
    /\ disk \in initialDisks
    /\ edits = 0
    /\ phase = "idle"
    /\ server = NoServer
    /\ asked = [t \in tools |-> [at |-> "no", suffix |-> Nothing]]
    /\ cache = {}
    /\ used = Nothing

\* Between builds, anything may be edited, upgraded, replaced or released.
Edited(new) ==
    /\ phase \in {"idle", "done"}
    /\ edits < MaxEdits
    /\ edits' = edits + 1
    /\ disk' = new
    /\ phase' = "idle"
    /\ used' = Nothing
    /\ UNCHANGED <<server, asked, cache>>
EditConfig == \E c \in DOMAIN configs \ {disk.config} : Edited([disk EXCEPT !.config = c])
EditFile ==
    \E m \in DOMAIN disk.modules :
        /\ disk.modules[m].from \in {"workspace", "directory"}
        /\ \E p \in {q \in DOMAIN packages : packages[q].module = m} :
              \E f \in FilesOf(p) :
                  /\ disk.files[f] = "old"
                  /\ Edited([disk EXCEPT !.files[f] = "new"])
RequireModule ==
    \E m \in DOMAIN disk.modules : \E source \in sources \ {disk.modules[m]} :
        Edited([disk EXCEPT !.modules[m] = source])
InstallOrchestrion == \E b \in binaries \ {disk.binary} : Edited([disk EXCEPT !.binary = b])

\* With a job server, all the tools ask the same one.
StartBuild ==
    /\ phase \in {"idle", "done"}
    /\ phase' = "versions"
    /\ \E up \in BOOLEAN : server' = [NoServer EXCEPT !.up = up]
    /\ asked' = [t \in tools |-> [at |-> "no", suffix |-> Nothing]]
    /\ used' = Nothing
    /\ UNCHANGED <<disk, edits, cache>>

\* ComputeVersion and versionSuffix, of which the mutex makes one step.  An error of
\* the tool, the configuration or the go command is not remembered.
ComputeVersion(t) ==
    /\ phase = "versions"
    /\ asked[t].at = "no"
    /\ \/ /\ server.resolvedVersion # Nothing
          /\ asked' = [asked EXCEPT ![t] = [at |-> "known", suffix |-> server.resolvedVersion]]
          /\ UNCHANGED server
       \/ /\ server.resolvedVersion = Nothing
          /\ \E suffix \in versionSuffixes(disk) :
                /\ asked' = [asked EXCEPT ![t] = [at |-> "known", suffix |-> suffix]]
                /\ server' = IF server.up THEN [server EXCEPT !.resolvedVersion = suffix] ELSE server
       \/ /\ asked' = [asked EXCEPT ![t] = [at |-> "failed", suffix |-> Nothing]]
          /\ UNCHANGED server
    /\ UNCHANGED <<disk, edits, phase, cache, used>>

\* The go command compiles what its cache does not hold under the key.
Entries == {e \in cache : e.key = asked[compiler].suffix}
Compile ==
    /\ phase = "versions"
    /\ \A t \in tools : asked[t].at = "known"
    /\ phase' = "done"
    /\ \/ /\ Entries # {}
          /\ \E e \in Entries : used' = e.woven
          /\ UNCHANGED cache
       \/ /\ Entries = {}
          /\ used' = Woven(disk)
          /\ cache' = cache \union {[key |-> asked[compiler].suffix, woven |-> Woven(disk)]}
    /\ server' = NoServer
    /\ UNCHANGED <<disk, edits, asked>>

GiveUp ==
    /\ phase = "versions"
    /\ \E t \in tools : asked[t].at = "failed"
    /\ phase' = "done"
    /\ server' = NoServer
    /\ UNCHANGED <<disk, edits, asked, cache, used>>

Next ==
    \/ EditConfig \/ EditFile \/ RequireModule \/ InstallOrchestrion
    \/ StartBuild \/ (\E t \in tools : ComputeVersion(t)) \/ Compile \/ GiveUp

Spec == Init /\ [][Next]_vars

----------------------------------------------------------------------------
(* Properties *)

\* A build never uses what was woven with another configuration or other injected
\* dependencies (ComputeVersion's promise on cache entries), nor with another orchestrion:
\* two are never mistaken for each other when both have build information, can be read
\* and are not replaced, or when one is a development build that is known by its checksum.
Identified(binary) == binary.info /\ binary.readable /\ binary.replace = "nil"
Checksummed(binary) == binary.info /\ binary.readable /\ isDev(binary)
CacheIsFresh ==
    phase = "done" /\ used # Nothing =>
        /\ used.aspects = Aspects(disk)
        /\ used.packages = Woven(disk).packages
        /\ \/ used.binary = disk.binary
           \/ /\ \E b \in {used.binary, disk.binary} : ~Identified(b)
              /\ \A b \in {used.binary, disk.binary} : ~Checksummed(b)

\* The promise in full: a different orchestrion binary never uses the cache entries of
\* the other, if getTagSuffix gives no warning.  The code does not keep it of a replaced
\* orchestrion, whose version is that of what it replaces, or the static tag with "+dev".
BinaryIsFresh ==
    phase = "done" /\ used # Nothing
    /\ (\A b \in {used.binary, disk.binary} : b.info /\ b.readable)
    => used.binary = disk.binary

\* The tools of a build agree on their version, and it is the one of the last build
\* that was woven with the same: nothing is compiled again for no reason, whatever the
\* order in which goroutines and maps give files and modules.
SuffixIsStable ==
    \A t \in tools : asked[t].at = "known" /\ phase # "idle" =>
        /\ \A u \in tools : asked[u].at = "known" => asked[u].suffix = asked[t].suffix
        /\ \A e \in cache : e.woven = Woven(disk) => e.key = asked[t].suffix

=============================================================================

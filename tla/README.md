# A verification project for Orchestrion

Orchestrion instruments Go programs while `go build` compiles them. Go runs
`orchestrion toolexec <tool> <args>` in place of the compiler, the assembler and
the linker; these processes run concurrently, and the ones of one build share a
*job server* (an embedded NATS server), which makes them agree on what is
compiled, lets them ask for nested builds of the packages that instrumentation
brings in, and goes away when nobody needs it any more.

This directory holds TLA+ modules that model the concurrent core of that system,
the way link-time dependencies travel through a build, and what is done within
one process: loading the configuration, matching join points, weaving,
fingerprinting, pinning. TLC configurations model-check them, and TLAPS checks
theorems about them. `PROJECT.json` ties every definition to the source lines it stands for,
and lists the runs, the hazards of the code, the findings and the theorems.

    tlc -workers 2 -config nbt.cfg MCNeverBuildTwice
    tlapm Toolexec_proofs.tla


## 1. The system

### Inventory

Paths are relative to `src/internal/`. "Hard" names what a unit test hardly
reaches; the hazards of `PROJECT.json` give the lines.

| Component | State | Operations | Hard | Correct when |
|---|---|---|---|---|
| **Never-build-twice service** (`jobserver/nbt`) | a `buildState` per import path and build ID: once-guard, token, `isDone`, `done` channel, files, error | `start`, `finish` | handlers interleave; waiters read without a lock; copying fails half way | one token per key; waiters see the final outcome, all files or an error |
| **Requests** (`jobserver/common/handler.go`, `jobserver/client`) | one goroutine per request; a blocking caller without a deadline | `HandleRequest`, `Request` | lost responses at shutdown | every request is answered or fails |
| **toolexec process** (`cmd/toolexec.go`, `toolexec/proxy`) | stage of the process, finish token, output files, `resErr` | parse, weave, compile, attach `link.deps`, close | failures between token and `Close`; kills; panics | compiled once; equal and complete artifacts; failure shared; nobody waits for ever |
| **Job server life cycle** (`jobserver/server.go`) | map of clients, shutdown timer | CONNECT and DISCONNECT events, timer callback, shutdown | events out of order; callbacks that were stopped too late | up while it has clients, down some time after the last |
| **Server start and URL file** (`cmd/server.go`, `jobserver/client/env.go`, `filelock`) | the URL file, its locks, server processes, polling clients | check, upgrade, publish, watch, remove; poll, time out | stale URLs; removal races; two starters | one server per file; every client gets a server or an error |
| **Package resolution** (`jobserver/pkgs/resolve.go`, `common/graph.go`, `common/cache.go`) | the graph of builds that wait for builds, one locked slot per request | `resolve`: AddEdge, Load, RemoveEdge | nested builds that wait for each other; circular injections; failed loads | cycles reported when and only when there is one; nothing built on a failure |
| **Test variants, overlays** (`jobserver/pkgs/testvariants.go`, `overlay.go`, `load.go`) | none of its own | which archive a test variant resolves to | wrong variant | the variant that the importer is built against |
| **Build ID service** (`jobserver/buildid`, `fingerprint`) | the resolved version, once per server | fingerprint of the configuration and of the injected modules | what is hashed and what is not; goroutines and maps in any order | what is woven differently has another ID, and nothing else has |
| **Compile weaving** (`toolexec/aspect/oncompile*.go`, `resolve.go`) | work lists of imports and link-time dependencies | OnCompile, OnCompileMain | a dependency dropped or resolved twice | the importcfg names every injected import and every link dependency |
| **Link weaving, link.deps, importcfg** (`toolexec/aspect/onlink.go`, `linkdeps`, `importcfg`) | sets of import paths in archives | OnLink, FromArchive, FromImportConfig, merge | closure over archives | the closure reaches the linker |
| **toolexec version** (`toolexec/version.go`, `version`) | none; the build cache of the go command outside | tool version and build ID | development builds, local modules | no stale package is used |
| **Go flags** (`goflags`) | none that lasts | parse, trim, except, quote | quoting | parse inverts slice |
| **Injector** (`injector`) | a goroutine per file to parse it and one to weave it, shared flags, cursor of the traversal, results | filter, read, parse, check, visit, merge | goroutines see each other's flags or not; declarations added under the cursor; order of advice | the filters change nothing; each node woven once |
| **Join points, filters** (`injector/aspect/join`, `may`) | none | matching, may-match filters, implied imports | three-valued logic on partial evidence | a filter never drops an aspect that matches |
| **Advice, templates** (`injector/aspect/advice`) | none of its own | apply | imports, links, language version it needs | the result resolves and compiles |
| **Injector configuration** (`injector/config`) | files marked as loaded | load YAML and Go files that lead to one another | circles; missing files that are errors or not | each file once, dependencies first, an error for a reason |
| **Typed references** (`injector/typed`) | reference map | add, merge | imports that are hidden at the place of use | names resolve |
| **Pinning** (`pin`, `ensure`, `gomod`) | go.mod, orchestrion.tool.go, vendor, a file lock | pin, auto-pin | several processes and versions; a crash between two edits | pinned for good; go.mod tidy; toolchain untouched |
| **Go proxy, other commands, tracing** (`goproxy`, `report`, `cmd/diff.go`, `traceutil`, ...) | none shared | argument handling, output | none | |

### How they interact

    go build ──spawns──▶ toolexec processes ──poll──▶ URL file ◀──publish── server
                             │    ▲                                          │
              StartRequest / │    │ token, files or error      client events │
              FinishRequest  ▼    │                                          ▼
                        never-build-twice                              life cycle
                             │
              weaving asks   ▼  for the injected imports
                      package resolution ──runs──▶ nested go build ──▶ toolexec ...

- A toolexec process finds the server through the environment or the URL file
  (`client.FromEnvironment`), and spawns one if there is none: `UrlFile`.
- A compile process claims its package from never-build-twice, compiles it or
  waits for the process that does, and reports: `Toolexec` over
  `NeverBuildTwice`.
- Weaving asks the resolution service for injected imports; that service runs a
  nested build, whose compile processes use the same server: `Resolve`.
- The server counts the connections of all of them: `JobServer`.
- A process that starts pins orchestrion first if need be: `Pin`. The go command
  asks its tools for their version, in which orchestrion puts the fingerprint of
  its configuration: `BuildID`. A compile process loads the configuration
  (`Config`), and injects what it calls for in the files of its package: `Weave`
  over `JoinPoints`.
- What weaving adds to a package is recorded in its archive (`link.deps`), read
  when a dependent is compiled, and handed on to the main package and the linker
  through their importcfg files: `LinkDeps`.


## 2. The modules

| Module | Models | Checked by | Proved in |
|---|---|---|---|
| `BuildOnce` | what never-build-twice promises (abstract) | `nbt` | `Toolexec_proofs` |
| `NeverBuildTwice` | the service, handler by handler | `nbt` | `Toolexec_proofs` |
| `Toolexec` | compile processes composed with `NeverBuildTwice` | `toolexec`, `toolexec_lost_token` | `Toolexec_proofs` |
| `JobServer` | client accounting and inactivity timer | `jobserver` | `Server_proofs` |
| `Resolve` | nested builds, cycle graph, load cache | `resolve` | `Server_proofs` |
| `UrlFile` | server start, URL file, file locks, polling clients | `urlfile` | `Server_proofs` |
| `LinkDeps` | woven references, `link.deps`, test variants, importcfg files | `linkdeps` | `LinkDeps_proofs` |
| `JoinPoints` | join points, their filters, what they match (pure) | `weave` | `JoinPoints_proofs` |
| `Weave` | the injector on one package, over `JoinPoints` | `weave`, `weave_transitive` | `Weave_proofs` |
| `Config` | loading the configuration | `config` | `Config_proofs` |
| `BuildID` | the version of the tools and the build cache, over `JoinPoints` | `buildid` | `BuildID_proofs` |
| `Pin` | pinning by concurrent processes | `pin` | `Pin_proofs` |

The `MC*` modules give instances their constants. Definitions that begin with a
comment "Mutant:" stand beside the definition they change: replacing the latter
by the former gives the model of a plausible bug, which makes a property of the
module fail. They are part of no specification.

### NeverBuildTwice

`common.HandleRequest` runs each request in a goroutine, and a caller has one
request in flight. `pc[c]`, `key[c]` and `reply[c]` are the program counter, the
build key and the last response of the handler of caller `c`. The fields of the
`buildState` are variables indexed by key: `owner` (the state was stored, by
whom), `inited` (`initOnce` ran, so that the token and `done` exist), `isDone`,
`done`, `files`, `error`; `report` and `todo` are locals of the `finish` call
that won the swap. `up` and `cancelled` are the server and its context.

- `start`: `StartOriginal` or `StartReused` is `LoadOrStore`; `InitBuild` is
  `initOnce` with what follows; `AwaitDone` is the receive from `done` and the
  reads after it, which hold no lock; a blank key is rejected.
- `finish`: `FinishRejected`, `FinishAgain` and `FinishFirst` are the checks and
  the swap; `RecordFailure`, `RecordNothing`, `MakeDir`, `MakeDirFails`,
  `CopyFile`, `CopyFileFails` are the body, a file at a time and in any order,
  for the code ranges over a map; `CloseDone` is the deferred `onDone` and
  `FinishResponds` the response after it.
- `CancelContext`, `Shutdown` and `ConnectionLost` are the environment.

A token is a UUID that identifies its key, so that the model uses the key for
it, a blank one before `initOnce`, and `BadToken` for anything else. The contents
of files are the values of a constant set. The environment is open: every caller
may send every request, which covers more than the one client in the repository.

### BuildOnce and the refinement

`BuildOnce` has three variables: who claimed a key, what became of it, and what
each caller was told. `NeverBuildTwice!BO` maps the service to it: an outcome is
published when `done` closes (not when files are copied), a caller is told by
the response to `start`. A caller of a cancelled context is told nothing, since
`done` then closes early and waiters may read the files of a task that is still
being recorded. The context is never cancelled in the program.

### Toolexec

`stage[p]` follows a compile process from `parseCompileCommand` through
re-using, weaving and compiling to `Close`; `result[p]` is the error of the
command's action (or that it panicked), `out[p]` the output files that exist.
`Run` has the steps of the process, `Serve` those of the server's handlers,
`Kill` ends the process at any time while its pending request lives on in the
server. An artifact records who compiled it and whether `link.deps` was
appended, so that originals and re-users can be compared. `link.deps` is never
empty here: whether there is anything to append does not matter for what is
checked. Processes without `-importcfg` (`Tracked`) bypass the server.

### JobServer

NATS delivers the CONNECT and DISCONNECT events of each subscription in order,
in a goroutine each; the queues `connects` and `disconnects` are handled in any
interleaving. Timers are numbered, since one that fired while its callback waits
for `clientsMu` is not recalled by `Stop`: `armed` and `fired` tell them apart.
Each handler holds `clientsMu` and is one action. The server starts as `New`
leaves it, with its timer running.

### Resolve

A *job* is the compilation of a package within a build, a build the sequence of
patterns whose loading led to it. `world` says what is built: the roots, what
weaving injects in each package, what loading a pattern compiles, and which
packages have the same build ID in all builds. `Claim`, `Reuse` and `Report` are
never-build-twice, seen through `BuildOnce`; `Request` to `NotResolved` are
`service.resolve` with `Graph.AddEdge`, `Cache.Load` and the deferred
`RemoveEdge`. `MissesPath` and `Above` say when `path()` may find nothing and
when it may find a path: the code ranges over a map and keeps the result of the
child it visits last, so for some graphs both are possible. What a path leads to is
given as the least set that is closed under its edges (`Reached`).

Abstractions: the order of the packages within a nested build follows from their
imports and is left open (any may start first, which is more than Go does); the
key of a slot is the build (its `$WORK`) and the pattern; `MaxDepth` bounds the
nesting, and only matters for circular worlds.

### UrlFile

`path` is the inode that the URL file's name stands for now, `content` the URL
in each inode. A server process (`sstage`) opens the file, checks it under a
read lock, upgrades (flock drops the lock before it waits), checks again,
starts, publishes, releases, watches the file and removes it when it ends. A
client (`cstage`) spawns a server process and polls. Locks belong to the inode,
and a removed file may be created anew, so that two files of one name exist.
`CancelDelete` has the outcomes of the race between the end of the process and
`deleteOnInterrupt`, which takes the closing of its channel for an interrupt.

Abstractions: POSIX locks only; all URLs have the same length; inode numbers are
used again once nobody refers to them; an interrupt is a kill, as the file is
then left behind; `ORCHESTRION_JOBSERVER_URL`, a failing `cmd.Start` and the
removal of `$WORK` by Go are left out.

### LinkDeps

A `world` is a program to build: the imports of its sources, what weaving adds to
each package (imports and relocation targets, that is `go:linkname` references),
and, for a test binary, the package under test and whether it has test files.
Packages are numbered so that imports go downwards, the main package on top; an
archive is a package and whether it is the variant built for the tests. `archive`
holds what was compiled: its `link.deps`, and the archives it was compiled
`against`, which stand for the compiler's fingerprints. `Closures` is a table of what
each package imports, directly or not, in the worlds of the instance.

- `StartCompile` to `Compile` are `parseCompileCommand`, `OnCompile` and
  `attachLinkDeps`: a reference is there already (`Satisfied`), or is recorded
  and, if it is an import, resolved (`Synthetic`); each archive of the answer is
  read (`Provide`).
- `StartMain` to `CompileMain` are `OnCompileMain`: `pending` is the work list,
  `Resolve` takes an entry off it, `Discover` adds what the answer brings up.
- `StartLink` to `Link` are `OnLink`: `NextArchive` takes an archive off the
  queue, `SkipDep` and `ResolveDep` go through its entries.
- The actions named `...Rejects` are the refusals of an archive that is a test
  variant but should not be; those named `...Fails`, failed requests and reads.

The work lists are sorted by name in the code; since any name may come first, the
next entry is arbitrary here. Archives without `link.deps` are left out of the
linker's queue, as nothing is done for them.

Abstractions: compile commands run one after the other (that they run at once is
the subject of `Toolexec` and `Resolve`); every importcfg and `link.deps` reads
back as written; `ImportMap`, backups, and the overlays and bridges by which test
variants are built are left out, so that an answer is just the archives named in
it; a test main is the only package whose weaving resolves for a test binary. A
test main that does not import the package under test is not a state of the
program: the go command always writes that import.

### JoinPoints

Operators, no state. A join point is a record in the sequence `points`, children
before what is composed of them; syntax is a tree of nodes, each with its kind, its
parent, the property it stands in, and what the code reads of it. `Filters` gives
for every join point what it implies to be imported and what
`PackageMayMatch` and `FileMayMatch` say; `Matches` gives where it matches. Both
are recursive functions whose body (`FilterOf`, `MatchOf`) has a case per kind of
join point. `Matches` has one argument more than the code: a parent context does
not know that the package is a test main (`context.Parent`).

Abstractions: a word of a file, an import path and a name are values; a segment of
a glob is the set of names it matches; what `go/types` says (types of expressions,
which types implement which, scopes) is in the nodes. `IsWellFormed` says what the
Go parser and type checker guarantee of the files.

### Weave

`InjectFiles`, on one of the `worlds` of the instance. `reader[f]` is the goroutine
that reads, filters and parses file `f` (`ReadFile`, `CheckApplicable`, `FilterFile`,
`ParseFile`), with the atomics `filesBytesCount` and `mustParseAll` in `parser`: a
goroutine that looked before another one set the flag goes on filtering.
`TypeCheck` lets the package through, leaves it to the compiler, or fails.
`weaver[f]` is the goroutine that traverses file `f`, a node at a time (`Visit`);
its record holds the syntax tree as it grows, the cursor, the reference map and the
advice applied so far. `Finish` adds synthetic imports and merges the result.

Each kind of advice says where it applies, what it changes, what it refers to and
which language version it needs; a template is the list of its imports, whether it
fails, and what it yields. `Retained` is the workaround that keeps one import of a
path. Not modelled: comments and line directives, the text of what is written, the
functions of templates, tracer-internal packages (the aspects of the world are those
that are left for the package).

### Config

The loader's mutually recursive functions are a `stack` of frames, one action per
call and return, so that each early return and each masked error is a step:
`loadGoPackage` to `YMLLoaded`, `loadGoFile` to `EndImports`, `loadYMLFile` to
`EndExtends`. A loaded configuration is kept as what its traversals give: the
aspects in the order of `Aspects` and the files in the order of `Visit`. The
package loader is external: it may fail at every call (`ListingFails`), it takes an
empty list of patterns for the package of the directory, and its errors are not
taken for a missing file. Loading is sequential, as in the code. `ReachableFrom` is the
least set of files that has what its files lead to, whatever order the loader takes.

### BuildID

A build asks every tool for its version (`ComputeVersion`), with a job server that
remembers the answer or without, then compiles with what the version selects from
the go command's cache (`Compile`). Between builds one thing on the disk changes: the
configuration, a file of a module that has no version, where a module comes from, or
the orchestrion binary. A fingerprint is the sequence of strings that are hashed, field
by field, so that two values that hash alike do so by the format, not by accident.
`versionSuffixes` is the set of results over all orders in which files are hashed.
What depends on the disk takes it as an argument, so that the fingerprints of two disks
can be compared. Abstractions: `AddedImports` is given as paths (it is computed in
`Weave`).

A binary is what its executable says of itself: whether it has build information, the
static tag, the version of its main module and that of a replacement, whether its tree was
modified, whether it can be read, and its checksum. Two places of the code decide
separately what a development build is: `buildInfoVersion` goes by the version of the
replacement, if there is one, and `isDev`, for the checksum, only by the main module's own
version and `vcs.modified`. The instance has two releases, modified and development trees, an
executable that cannot be read, one without build information, and an orchestrion that is replaced
by a directory (edited between builds, and modified) or by a fork. It has one binary of
each release. `CacheIsFresh` is about them all, as to configuration and injected
dependencies. As to the binary it excepts three kinds, unless either of the two has a checksum: no build
information and an unreadable executable, both of which the code warns of (`buildid/version.go:221-280`),
and a replaced orchestrion, of which it does not (`BinaryIsFresh`, section 3).

The assumptions say that what aspects inject and packages import are packages the go command
lists (it fails otherwise, and `ComputeVersion` with it), that the modules of all
packages are known, and that what was downloaded has a version.

### Pin

The steps of `AutoPinOrchestrion` and `PinOrchestrion`, of processes with a command, a
version, and options each: check without the lock, `Lock`, the tool file read, updated
and renamed into place, go.mod parsed, upgraded, edited and tidied, imports pruned, the
toolchain restored, `Unlock`. `Fail` is an error or the end of the process between
any two steps; the lock goes with it. go.mod is its go and toolchain versions, one
replacement, and a version per module; `Selected` abstracts `go get` and `go mod tidy`
to the selection of the least versions that suffice, with requirements of depth one.
Not modelled: a replacement of orchestrion itself, `StartupChecks`, and edits of go.mod by
others while a pin runs (the go command locks the file, orchestrion does not).


## 3. What is checked

Passing runs; TLC explores all states within the bounds.

| Run | Instance | Shows |
|---|---|---|
| `nbt` | 3 callers, 1 key, 2 labels | `OneTokenPerKey`, `AllOrNothing`, `ReuseAgrees`, `NoSpuriousCancel`, `PublishedIsFinal`, and that the service implements `BuildOnce` |
| `toolexec` | 3 processes of one key, one untracked, different outputs | `CompiledOnce`, `SameArtifacts`, `SuccessIsComplete`, `OwnerSuccessIsPublished`, `FailureIsShared`, `ProcessesExit` |
| `jobserver` | 3 clients | `IdleIsTimed`, `ClientsKeepServerUp`, `IdleServerStops` |
| `resolve` | 3 packages, every world without circular injections within the layouts of `MCResolve`, and every chain | `GraphIsExact`, `NoFalseCycle`, `CompiledIsComplete`, `BuildEnds` |
| `urlfile` | 2 processes, each a client and its server | `OneServerPerFile`, `ClientsEnd` |
| `linkdeps` | 4 packages and the main one; the programs and test binaries of `MCLinkDeps` | `LinkIsComplete`, `FingerprintsAgree`, `TargetsAreLoaded`, `RejectionIsDue`, `WeavingEnds` |
| `weave` | packages of up to three files, 37 join points, every kind of advice | `WovenAsIfUnfiltered`, `EachNodeOnce`, `InjectedNamesResolve`, `InjectedIsHashed`, `LangCoversWoven` |
| `config` | a root package, two more, the built-in one and a file, each in several states | `ErrorsAreExact`, `LoadIsExact`, `DependenciesFirst`, `NoReentry` |
| `buildid` | 53 configurations that differ in one field, two modules, one edit between builds | `CacheIsFresh`, `SuffixIsStable` |
| `pin` | 3 processes of two versions, four states of the tool file and of go.mod each | `StaysPinned`, `LeavesGoModTidy`, `ToolchainIsRestored` |

The type invariants `TypeOK`, `TTypeOK`, `JTypeOK`, `UTypeOK`, `RTypeOK` and `LDTypeOK` are
proved (section 4), and are no part of a run. The same goes for the inductive invariants: TLC
found that they hold of the instances above before they were proved.

Why the bounds are enough. In never-build-twice keys do not share state, so that
one is as good as many; three callers give an original, a re-user and a
second finisher at the same time, and two labels let the copying fail half way.
Three clients are the least for a client that leaves while another joins under a
stale callback. Three packages give nested builds of depth two and two builds
that share a dependency; `MaxDepth` 4 is one more than any world that is not
circular needs. Two processes race for the URL file and replace a dead server;
what three could do is covered by the proof, which holds for any number.
Four packages below the main one are a package that is woven, one that is injected,
one that the injected one imports, and one between them and the main package, in
each of the five ways in which the lower three import one another; at most two
imports and at most two relocation targets are injected at a time, and at most
one of each in test binaries. `linkdeps` does not check for deadlock, as builds end.

Filters decide about a join point, a package and a file at a time, so that `weave`
needs each join point alone (`Single`, in a package that has what it asks for and in one
that does not) and the combinations of `Selected`, in which filters of composed join
points, several files and several kinds of advice meet; `MaxBytesEagerness` 8 is
reached by one of the worlds. What a loader does next depends on one file and on what
was loaded before: two packages and a file beside the root give every circle of two and
of three. A fingerprint that misses a field shows between two configurations that
differ in it: there is a pair for each field of each join point and each advice, and
`MaxEdits` 1 suffices since all pairs are tried. Pinning processes interact in
pairs; the third gives a pin that waits while a second fails.

### Fairness

- `Toolexec`: weak fairness of the steps of each process and of each handler,
  which the operating system and the Go scheduler run. Kills and shutdowns need
  never happen.
- `JobServer`: events are delivered, timers expire, callbacks get the lock.
- `Resolve`: weak fairness of the whole: as long as something can run, something
  does. All behaviours are finite, so that no finer assumption is needed.
- `LinkDeps`: weak fairness of the whole: commands that can take a step do.
- `UrlFile`: weak fairness of servers and clients; strong fairness of the
  client's timeout, which the polling loop comes to look at in every round
  (`select` chooses at random among what is ready).
- The others have none: their properties are safety. That the loader ends follows from
  `NoReentry` and the finite number of files, and is not stated as liveness.

### Findings

Runs that TLC is expected to refute; each states what a comment of the code says.

- `toolexec_lost_token`: `parseCompileCommand` may fail after it was handed a
  finish token, and before `Close` is deferred. The token is lost, and all other
  processes of the package wait.
- `weave_transitive`: the filter of `method-call` rules out a package that does not
  import the package of the type, where a method can be called all the same on what
  some function returned. `WovenAsIfUnfiltered` holds in the worlds of `weave`, in which
  the type's package is imported.

Properties below are stated in the modules, next to the others, and do not hold of the
code. They are no part of a run; where a `.cfg` is named, TLC gives the behaviour.

- `JobServer!InactiveServerStops` (`jobserver_ghost.cfg`): the DISCONNECT event of a
  short connection may be handled before its CONNECT event; the client stays in the map
  and the server never shuts down by itself.
- `Resolve!GraphIsAcyclic` (`resolve_cycle.cfg`): `path()` loses a path that it found
  when a child visited later has none, so that `AddEdge` makes the graph cyclic.
- `Resolve!CyclesAreDetected` (`resolve_hang.cfg`): a nested compilation that waits in
  never-build-twice for the package that waits for the nested build sends no request: no
  cycle is found, and the build hangs.
- `UrlFile!OwnFileOnly` (`urlfile_takeover.cfg`): a process removes the URL file by its
  path, twice because of an inverted flag (`server.go:203`), and may remove the URL of
  another server that is alive.
- `LinkDeps!AllFingerprintsAgree` (`linkdeps_testmain.cfg`): when weaving gives a test main
  a relocation target, its ordinary closure is provided to the compiler, and an injected
  import that is part of it counts as satisfied (`oncompile.go:139`). It is neither recorded nor
  compared with the test variants, so that the test main is compiled with an archive that
  the linker is then not given, against `testvariants.go:103`. The compiler may import such
  an archive by the way only; `FingerprintsAgree` is what holds of all other packages'
  weaving.
- `LinkDeps!AllTargetsAreLoaded` (`linkdeps_main.cfg`): relocation targets that weaving
  adds to the main package itself are resolved and recorded, but not imported by it: the
  linker is not made to load them. `TargetsAreLoaded` is what holds for all other packages.
- `Weave!InjectedNamesResolve` with `MCShadowed`: an import that the file names
  explicitly and a local variable hides is retained under that name, although the code
  injected there was given an alias of its own.
- `BuildID!CacheIsFresh` with `MCCollision`: `package-name` and `import-path` join points
  hash alike (`join/package.go:48-50` and `78-80`), so that a package woven with one is
  used for the other.
- `BuildID!BinaryIsFresh` (`buildid_replaced.cfg`): an orchestrion that `go.mod` replaces
  by a fork is tagged with the version of what it replaces, and by a directory with
  `v1.12.0+dev` (`internal/version/version.go:41-54`), in either case without a checksum unless
  its tree is known to be modified (`buildid/version.go:234-245`). A build with one such binary uses what
  another has woven, or the release what its fork has, against `toolexec/version.go:26-27` ("the
  orchestrion binary is different") and the purpose of the checksum (`buildid/version.go:253-255`).
- `Pin!PrunedIsGone`: the tool file is written before imports are pruned, and not again,
  so that pruned imports remain in the file, against `pin.go:52-54`.
- `Pin!UpgradeTakesEffect`: `RequiredIntegrations` replaces version 2 of the tracer by the
  version that was required before, even when it has just upgraded it.

Smaller disagreements that were met while modelling, and that no property states:
`signature-contains` inherits the filter of `signature`, which asks for the packages of
*all* types, while the match needs *any* (`function.go:158-173` and `226-229`); a declaration
without a type matches every `value-declaration`, though the filter may rule it out;
`function-body` over `test-main: false` matches in a test main; a `function` option with
the empty name is ruled out everywhere (`FileContains`), though function literals have that
name; a development build whose pin failed after the tool file was written does not
pin again. `HasConfig` is to tell whether a package contains configuration (`config.go:28-29`), and
does so by what its YAML file was loaded as (`config.go:44`), but the file counts as absent if its
imports led to it before (`config-yml.go:31-34`): of a package without aspects, whose tool file imports one that
extends it, `HasConfig` says that it has none. The last part of `LoadIsExact` says exactly when.

Two more came up when `InjectedIsHashed` was to be proved, and are its hypothesis `Grants`.
`argument-implements` says that the package of the interface is imported
(`function.go:544-550`), whereas the comments below it, on its filters, say that a type can
implement an interface without that import (`function.go:552-556`); and `one-of` adds up how often a path is
implied (`one-of.go:24-41`) rather than by how many candidates, against its own comment, so that
a candidate that implies a path twice counts for one that does not imply it. In
either case a package that an aspect injects may be taken for an import and left out of the
build ID.


## 4. What is proved

TLAPS checks the following for every value of the constants. They assume only
the named `ASSUME`s of the modules (distinct special values; finite sets of clients
and processes; join points that refer to earlier ones; versions that are numbers),
which TLC evaluates in every run of a module that extends them.

- **Toolexec_proofs**, of never-build-twice and its callers. The service, by the inductive
  invariant `IInv`. The properties
  are not inductive by themselves: that a published outcome is complete depends
  on the progress of the handler that records it (`FinishInv`: while copying,
  the stored files are exactly the reported ones that are not in `todo`), on
  there being one such handler (`OneFinisher`, from the swap), and on the order
  of a key's life (`KeyOrder`, `HandlerInv`). `AnswerInv` ties responses to the
  state they were read from. Each action has a lemma. Theorems: `TypeCorrect`,
  `NeverTwoTokens`, `NeverPartial`, `ReuseIsFaithful`, `CancelIsGenuine`, and the
  action property `PublicationIsFinal`.
  `Refinement` says that the service implements `BuildOnce`. Of the steps,
  `StartOriginal` is a claim, `CloseDone` publishes, `AwaitDone` learns (or,
  cancelled, stutters); all others forget or stutter, for which `SilentStep` uses that
  published files do not change.
  Compile processes: `ProcessesAreCallers`, that every behaviour of the compile
  processes is one of the open service (`TSpec => Spec`); so what is proved of the service
  holds of the composition, for instance `FilesAreWhole` and `ProcessesSeeBuildOnce`, that
  the service so used implements `BuildOnce`. `CompilesOnce` and
  `ExitsComplete` follow from `TInv`, which is `IInv` of the service with two parts more:
  who weaves or compiles is the owner of the key (`OwnerInv`), and who has met no error
  by the end has all its outputs (`OutputInv`). The service's own invariance is
  used as a lemma, since its steps are steps of `Spec`. `OwnersPublish`, `ArtifactsAgree` and
  `FailureSpreads` follow from `PInv`, which adds what these compare: what a
  re-user took is what it was answered (`ReuseInv`); the files of an original have their
  `link.deps` from the moment it reports (`LinkedInv`) and are what the service was told of
  (`ReportInv`); and the answer to its `FinishRequest` decides its status (`FinishedInv`). The
  two processes that the properties speak of never meet: what they share are `files[k]` and
  `error[k]`, which `IInv` says are final.
- **LinkDeps_proofs**, by `LDInv`: `LinkDepsTypes`, `NothingIsMissed` (`LinkIsComplete`) and
  `BinaryIsConsistent` (`FingerprintsAgree`). Archives are compiled in the order of their
  ranks, so that the answers of the job server name archives that exist (`OrderInv`). What is
  in the import configuration of a command is imported by the package or comes with an
  entry of its `link.deps` (`Provided`), and is the archive of the binary or
  comes with an entry that says `import` (`Sound`); `CommandInv` says this of the command that
  runs, `ArchiveInv` of what it leaves. The linker's configuration is closed under the imports of
  sources, and every entry of `link.deps` it has gone through is there and, in a test binary, has
  no variant if it says `import` (`LinkerInv`). Hence what is loaded is there, by the
  leastness of `Loaded`; and an archive that is not that of the binary was not accepted.
  `TargetsArrive` (`TargetsAreLoaded`) adds `TargetInv`: all that a compile command provides
  comes with something that will be imported (`CommandTargets`), so that an archive's
  `link.deps` names what is recorded in those it was compiled with, but for what comes
  with its own imports anyway; and the main package has all of it behind its imports
  (`ArchiveTargets`). It is an induction over `Loaded`, in which `FingerprintsAgree` says that
  what is recorded in the archive an importer saw is what is recorded in the one that is linked.
  `RejectionsAreDue` (`RejectionIsDue`) adds `ReasonInv`: an entry of `link.deps` that says
  `import` was injected into a package that is needed and does not import it by itself
  (`Explained`), which was therefore compiled with the ordinary archive (`ArchiveReasons`). It
  holds for all that a command has yet to settle (`CommandReasons`) and all that the linker
  reads (`LinkerReasons`), and nothing else is ever rejected: the package under test, which the
  job server would turn down, is only asked for by who does not import it.
- **Server_proofs**, of the server's life and of package resolution. `JobServer`, by `JInv`:
  `IdleServerIsTimed`, `KnownClientsAreSafe`, `JobServerTypes`;
  `ConnectedAreKnown` is the strengthening: a connected client is in the map or in the queue.
  `UrlFile`, by `UInv`: `NeverTwoServers`, `UrlFileTypes`. A server that
  is up has its URL in the file it opened or holds that file's exclusive lock
  (`UpInv`); whoever holds the lock and starts saw no other server there
  (`StartInv`); and nobody opens two files (`ContentInv`).
  `Resolve`, by `RInv`: `ResolveTypes`, `GraphIsTrue` (`GraphIsExact`), `CyclesAreReal`
  (`NoFalseCycle`) and `NothingIsMissing` (`CompiledIsComplete`). A nested request comes from a
  job that its parent needs (`JobInv`), and while a nested build has jobs that run, the request
  that loads it waits in `load` (`LoadInv`); so the edges of the graph lead from
  a package to one it needs, and a path that closes a cycle is a circle of needs. Where
  packages are shared, one job at a time works on a package (`ClaimInv`): its edge is removed by
  nobody else. What was loaded or compiled is complete (`AvailableInv`), which
  is an induction over the order in which packages are compiled.
- **Pin_proofs**, by `PInv`: `PinnedForGood` (`StaysPinned`), `OnePinAtATime`,
  `OwnVersionIsRequired`. Between `Lock` and `Unlock` a process holds the lock
  (`Exclusive`), so that what it parsed is not older than what is there, and each step
  keeps what the former achieved (`Progress`). The lemmas on `Selected`, `Get` and `Tidy`
  say that the go command never lowers a version.
- **Config_proofs**, by `CInv`: `LoaderNeverReenters` (`NoReentry`). The file of every frame
  that is past its start is marked, and two such frames have different files.
  By `LoadInv`, on top of it: `LoadingIsSound` (`ErrorsAreExact`). A frame is the call that the
  frame below it waits for (`FramesOK`); what a loaded file leads to is loaded, or some
  frame has yet to call for it (`NothingForgotten`); and an error has its reason
  (`ErrorsAreDue`). When the first call returns without an error, no frame is left, so
  that what was loaded is closed under what files lead to: by its leastness, all that can
  be reached was loaded, and nothing that was loaded without an error is wrong. The
  assumption `WorldsAssumption` is that files are given in the form that `Config` takes.
  By `ExactInv`, next to it: `WhatIsLoadedIsExact` (`LoadIsExact`) and
  `AspectsFollowTheirDependencies` (`DependenciesFirst`). Nested configurations would call for an
  induction over their depth; instead, what counts is `Gathered`, the aspects that the frames hold and
  the last call returned, from the bottom of the stack to its top. Calls only regroup this sequence, whether they
  return, go on or take up an answer (`ReturnGathers`, `ContinueGathers`, `CallGathers`);
  it grows at its end, by a YAML file that has just been finished or by the built-in configuration. So every
  loaded file is in it or is being loaded (`NoneLost`), none twice, and when a
  file is added all that it leads to is in front, unless that is still being loaded: then it is below
  on the stack, and what is on the stack is reached from what lies below (`StackReach`), so that the file leads back
  (`GatheredInv`). `RootInv` is about `HasConfig`: until the YAML file of the root is asked for,
  only what its tool file leads to has been loaded. Sequences are concatenated by a recursive
  function of the library; that it obeys its equations is shown with the least index where it
  would not (`JoinedExists`, `JoinedIsUnique`, `FlattenAppend`).
- **BuildID_proofs**: `VersionIsStable` (`SuffixIsStable`), by `VersionsInv`: the server and
  the tools that know their version have a fingerprint of the disk as it is (`ServerInv`,
  `AskedInv`), and what is in the cache is a fingerprint of some disk, woven from it (`CacheInv`). That the
  tools agree is then a property of `versionSuffixes`: whatever the order in which files are hashed,
  sorting gives the same sequence (`SortedIsInOrder`, for `PermutationHasAll`), so that there is one
  fingerprint for each disk (`SuffixIsTheSuffix`). That builds woven with the same have the same one needs more,
  for `Woven` speaks of the least set of packages that what is injected depends on, and
  the code collects them step by step: as many steps as there are packages lead to all
  of them (`CollectedStays`: a step that adds nothing is the last, by cardinality), so that two
  disks with the same `Woven` collect the same modules and files, and hash the same
  contents of those (`ContentAgrees`, `WovenDetermines`).
- **JoinPoints_proofs**: `CompositionIsSound`, that `not`, `one-of`, `all-of` and
  `function-body` never rule out what they match if what they are composed of does
  not; by well-founded induction on the index of a join point, since children come first.
  `FiltersAreSound`: in well-formed files this is so of every composition of
  `struct-definition`, `struct-literal`, `function-call`, `declaration-of`, `import-path`,
  `package-name`, `package-filter` and `configuration`. The others are left out because it is not
  so (`method-call`, `value-declaration`, some options of `function`, `test-main` under a
  parent), or because it rests on the text of a file in ways that `IsWellFormed` does not
  say (`directive`). Both are about the very `Filters` and `Matches` that the model
  computes with: `FiltersAreFilters` and `MatchesAreMatches` show that these recursive
  functions obey their own equations. The induction is over sets of indices
  (the least index below which no function obeys the equations), since the library's
  induction theorems take operators as parameters: a function that obeys them
  below an index is unique there and can be extended by that index, and
  `MatchHereAgrees` says that a join point looks at no others than those before it, at its
  own node and, for `function-body`, at the parent. The module also holds the lemmas
  on sequences that others rest on: the elements of `Among` and of `FlattenSeq`, which are
  recursive functions too, by the same argument, and when what they return has no
  repetitions. `ImpliedIsImported`: a package that a join point implies is imported
  wherever the package filter keeps the join point, if the configuration is one that the code
  takes for granted (`Grants`). It is an induction over the index like the former; `one-of` is a matter of
  counting: what occurs as often as there are candidates, and once at most in each, is implied by all
  of them.
- **Weave_proofs**. `CallIsInvariant` is `WSpec => []WInv`, over any number of files that are
  parsed and woven in any order. Its core is `FileInv`, of one file: what was applied is
  advice of an aspect that the package keeps, the language version covers each
  template that was used, and whatever is referred to is asked for by such advice. A node
  is woven by nested folds (aspects, advice, imports, links); each is unfolded to the
  chain of its states (`Chain`), along which one lemma for each kind of advice says what that step
  keeps. `LangIsEnough` (`LangCoversWoven`) adds what merging keeps (`SetAtLeast`).
  `InjectedAreHashed` (`InjectedIsHashed`), under `Grants`, adds `ImpliedIsImported`: what the build ID
  leaves out is implied by the join point of the advice, whose aspect was kept, so that it is imported.
  `NodesOnce` (`EachNodeOnce`) needs to know where the cursor is in a list of
  declarations that grows under it. Every node belongs to one declaration (`Owners`, a function
  that exists because a parent is visited before its children); advice adds
  declarations at the end and nodes under existing ones, and keeps the owners of the nodes there
  are (`AdviceOwns`); the nodes that one declaration contributes to the traversal are its own, each once
  (`SubtreeIsOwned`). So what was applied lies behind the cursor or at the
  root (`OnceInv`), and at one node the advice is each found once (`AdviceAtIsInjective`).

Model-checked only, as to safety:

- `WovenAsIfUnfiltered` compares two whole traversals, and is not true of all
  worlds: `weave_transitive` shows one. What holds for every configuration is `FiltersAreSound`,
  of the files as they are parsed.
- `InjectedNamesResolve` is not true of all worlds (`MCShadowed`, section 3). Besides, what becomes
  of a file that imports a package both by name and as `_` is decided by the restorer of `dst`.
- `CacheIsFresh` says that different values give different fingerprints: the format would have
  to be uniquely readable, and with `MCCollision` it is not.
- `LeavesGoModTidy` and `ToolchainIsRestored` hold for the requirements of the instance and not of all: one
  round of selection settles those, and a `go.mod` can be such that only the last tidying raises its `go` line.

All liveness properties are out of the prover's reach, as is `ENABLED`.


## 5. What is not modelled, and the plan

In this order; each is an extension of a module unless said otherwise.

1. `Resolve`: the slots of test variants (`resolve.go:141-164`), and with them the
   overlays by which the variants are built.
2. `JobServer`: a second initial state, for clients that connect to a fixed port while
   the server still starts (`server.go:202`).
3. `UrlFile`: URLs of different lengths, as the file is not truncated
   (`server.go:166`), and a watcher that is set after the lock was released.
4. `GoFlags`, a module of its own: parse and slice as functions, checked against each other.

Not planned: that the contents of `link.deps` are the same in every build, which
compares two behaviours; and a configuration that is edited while a build runs, for
which the code makes no promise beyond the version it computed first.

Left out for good: the text of syntax trees and templates, the type signatures that
templates inspect, JSON and NATS protocols, tracing, reports, and commands with a single
caller and no shared state. They are data transformation or input and output, in
which model checking finds nothing that a unit test would not.

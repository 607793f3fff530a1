-------------------------------- MODULE Pin --------------------------------
(***************************************************************************)
(* Pinning (internal/pin, internal/ensure, internal/gomod): the processes    *)
(* that write orchestrion.tool.go and edit go.mod so that builds of a        *)
(* project are repeatable.  `orchestrion pin` does so when it is asked to;   *)
(* `orchestrion go` and `orchestrion toolexec` do so by themselves when they *)
(* find that it was not done.  They look before they take the file lock, and *)
(* may fail or be killed between any two steps.                              *)
(*                                                                         *)
(* Versions are numbers.  The go commands are external: "get" and "tidy"     *)
(* select minimal versions, and write a toolchain directive when they have   *)
(* to raise the go directive.                                                *)
(***************************************************************************)
EXTENDS Naturals, FiniteSetsExt

CONSTANTS
    Pinners,        \* processes
    None,
    kinds,          \* of processes: command, build, version, where they run, options
    \* import paths and modules of the same names
    orchestrion, instrument, tracerV1, tracerV2, tracerV2All,
    provider,       \* of each import path, its module
    configured,     \* import paths of packages with a valid configuration
    sourceImports,  \* import paths of the project's own files
    toolFiles, goMods,          \* what the project may have to begin with
    latest,         \* version of each module in the registry
    shipped,        \* version of tracerV2 that this orchestrion came with
    MinV1, MinV2, MinGo,        \* v1.74.0, v2.1.0, go1.23.0
    needs,          \* requirements between modules, and on the version of go
    localToolchain, \* of the go command
    MaxVersion      \* bound on the versions of modules that others need

Modules == DOMAIN latest
Versions == Nat \ {0}

\* A file that does not exist, and one that the parser rejects.
Content(state) == [state |-> state, imports |-> {}, generate |-> {}]
NoFile == Content("missing")
Unparsable == Content("unparsable")

ASSUME PathsAssumption ==
    /\ orchestrion # tracerV2All
    /\ {orchestrion, tracerV2All} \cap {instrument, tracerV1} = {}
    /\ {orchestrion, tracerV2All} \subseteq DOMAIN provider
    /\ provider[orchestrion] = orchestrion
    /\ \A i \in DOMAIN provider : provider[i] \in Modules
    /\ sourceImports \subseteq DOMAIN provider
    /\ {tracerV1, tracerV2} \subseteq Modules

ASSUME VersionsAssumption ==
    /\ latest \in [Modules -> Versions] /\ shipped \in Versions /\ MaxVersion \in Nat
    /\ \A n \in needs : n.version \in 1..MaxVersion

ASSUME ProcessesAssumption ==
    \A k \in kinds : k.command \in {"pin", "auto"} /\ k.tag \in Versions

ASSUME FilesAssumption ==
    /\ \A f \in toolFiles :
           \/ f \in {NoFile, Unparsable}
           \/ /\ DOMAIN f = DOMAIN NoFile /\ f.state = "valid"
              /\ f.imports \subseteq DOMAIN provider
    /\ \A mod \in goMods :
           /\ DOMAIN mod = {"go", "toolchain", "replace", "require"}
           /\ mod.require \in [DOMAIN mod.require -> Versions]

ASSUME NobodyAssumption == None \notin Pinners

VARIABLES
    toolFile,       \* orchestrion.tool.go: NoFile, Unparsable, or its content
    goMod,          \* go.mod
    vendor,         \* what vendor/ was made from, or None
    lock,           \* holder of the lock file, or None
    kind,           \* of each process
    pc,
    file,           \* of each process, the syntax tree and its importSet
    curMod,         \* of each process, go.mod as it first parsed it
    ensured,        \* of each process, go.mod as ensure.RequiredIntegrations parsed it
    pinned,         \* versions whose PinOrchestrion returned without an error
    broken,         \* whether a process ended amid a pin since the last that went through
    original        \* go.mod to begin with

vars == <<toolFile, goMod, vendor, lock, kind, pc, file, curMod, ensured, pinned, broken, original>>
files == <<toolFile, goMod, vendor>>
locals == <<kind, file, curMod, ensured, original>>

Ended == {"done", "failed"}

----------------------------------------------------------------------------
(* Requirements: the version of each module *)

Nothing == [m \in {} |-> 0]
Only(m, version) == [n \in {m} |-> version]
Over(req, others) ==
    [m \in DOMAIN req \cup DOMAIN others |-> IF m \in DOMAIN req THEN req[m] ELSE others[m]]

----------------------------------------------------------------------------
(* The go command *)

\* The least version of a module that the modules of req need (0: not at all).
Least(req, path) ==
    Max({0} \cup {n.version : n \in {n \in needs : 
            n.path = path /\ n.of \in DOMAIN req /\ req[n.of] >= n.at}})

\* Module selection.  What needs other modules is among the roots.
Selected(mod, roots) ==
    LET direct == [m \in roots |-> IF m \in DOMAIN mod.require THEN mod.require[m] ELSE latest[m]]
        all == roots \cup {m \in Modules : Least(direct, m) > 0}
        go == Max({mod.go, Least(direct, "go")})
    IN  [mod EXCEPT !.go = go,
                    !.toolchain = IF go > mod.go THEN localToolchain ELSE @,
                    !.require = [m \in all |-> Max({Least(direct, m)}
                                    \cup (IF m \in roots THEN {direct[m]} ELSE {})
                                    \cup (IF m \in DOMAIN mod.require THEN {mod.require[m]} ELSE {}))]]

Tidy(mod, imports) == Selected(mod, {provider[i] : i \in imports \cup sourceImports})
Get(mod, m, version) ==
    LET set == [mod EXCEPT !.require = Over(Only(m, version), @)] IN Selected(set, DOMAIN set.require)

----------------------------------------------------------------------------
(* The tool file *)

\* updateGoGenerateDirective: the words after "orchestrion pin", "blank" where
\* a directive was blanked out, none where there is no directive.
updateGoGenerateDirective(opts, tree) ==
    LET directive == IF opts.NoGenerate THEN {}
                     ELSE {"-generate"} \cup (IF opts.NoPrune THEN {"-prune=false"} ELSE {})
                                        \cup (IF opts.Validate THEN {"-validate"} ELSE {})
        found == tree.generate \notin {{}, {"blank"}}
    IN  [tree EXCEPT !.generate = IF found /\ directive = {} THEN {"blank"}
                                  ELSE IF directive = {} THEN @ ELSE directive]

updateToolFile(tree) ==
    [tree EXCEPT !.imports = (@ \cup {orchestrion, tracerV2All}) \ {instrument, tracerV1}]

\* parseOrchestrionToolGo, or defaultOrchestrionToolGo when there is no file
Parsed(tree) == IF tree = NoFile THEN Content("valid") ELSE tree

----------------------------------------------------------------------------
(* ensure.RequiredIntegrations *)

\* resolveIntegrationVersion: whether to upgrade, and the version to have
Target(mod) ==
    LET newest == Max({shipped, latest[tracerV2]}) IN
    IF tracerV2 \notin DOMAIN mod.require THEN [upgrade |-> TRUE, version |-> newest]
    ELSE LET current == mod.require[tracerV2] IN
         CASE current < MinV2 -> [upgrade |-> TRUE, version |-> newest]
           [] current >= MinV2 /\ shipped > current -> [upgrade |-> TRUE, version |-> shipped]
           [] OTHER -> [upgrade |-> FALSE, version |-> current]

\* The edits of go.mod that it asks for, given go.mod as it parsed it.
IntegrationEdits(mod) ==
    IF tracerV2 \notin DOMAIN mod.require THEN [require |-> Nothing, replace |-> None]
    ELSE [require |-> Only(tracerV2All, Target(mod).version),
          replace |-> IF mod.require[tracerV2] # shipped THEN mod.require[tracerV2] ELSE None]

\* All the edits of a pin.
Edits(p) ==
    LET own == IF orchestrion \in DOMAIN curMod[p].require
                  /\ curMod[p].require[orchestrion] >= kind[p].tag
               THEN Nothing ELSE Only(orchestrion, kind[p].tag)
        integrations == IntegrationEdits(ensured[p])
    IN  [require |-> Over(own, integrations.require),
         replace |-> integrations.replace,
         go |-> IF curMod[p].go < MinGo THEN MinGo ELSE None]

Edited(mod, edits) ==
    [mod EXCEPT !.require = Over(edits.require, @),
                !.replace = IF edits.replace = None THEN @ ELSE edits.replace,
                !.go = IF edits.go = None THEN @ ELSE edits.go]

NoEdits == [require |-> Nothing, replace |-> None, go |-> None]

----------------------------------------------------------------------------
Init ==
    /\ toolFile \in toolFiles
    /\ goMod \in goMods
    /\ vendor \in {None, goMod.require}
    /\ lock = None
    /\ kind \in [Pinners -> kinds]
    /\ pc = [p \in Pinners |-> kind[p].command]
    /\ file = [p \in Pinners |-> NoFile]
    /\ curMod = [p \in Pinners |-> goMod]
    /\ ensured = [p \in Pinners |-> goMod]
    /\ pinned = {}
    /\ broken = FALSE
    /\ original = goMod

Goto(p, from, to) == pc[p] = from /\ pc' = [pc EXCEPT ![p] = to]
Keep == UNCHANGED <<lock, kind, pinned, broken, original>>

\* AutoPinOrchestrion that returns without pinning: the environment says that
\* it was checked, or what it looks at is in place.  A development build looks
\* for the tool file in its working directory.
AlreadyPinned(p) ==
    /\ Goto(p, "auto", "done")
    /\ \/ kind[p].checked
       \/ kind[p].dev /\ kind[p].atRoot /\ toolFile # NoFile
       \/ /\ ~kind[p].dev
          /\ orchestrion \in DOMAIN goMod.require
          /\ goMod.require[orchestrion] = kind[p].tag
    /\ UNCHANGED <<files, locals, lock, pinned, broken>>

\* An IncorrectVersionError.
IncorrectVersion(p) ==
    /\ Goto(p, "auto", "failed")
    /\ ~kind[p].checked /\ ~kind[p].dev
    /\ orchestrion \in DOMAIN goMod.require
    /\ goMod.require[orchestrion] # kind[p].tag
    /\ UNCHANGED <<files, locals, lock, pinned, broken>>

\* It decides to pin; a release does so as well when the version could not be
\* determined.
AutoPin(p) ==
    /\ Goto(p, "auto", "pin")
    /\ ~kind[p].checked
    /\ kind[p].dev /\ kind[p].atRoot => toolFile = NoFile
    /\ UNCHANGED <<files, locals, lock, pinned, broken>>

\* PinOrchestrion, up to the file lock.
Lock(p) ==
    /\ Goto(p, "pin", "read")
    /\ lock = None
    /\ lock' = p
    /\ UNCHANGED <<files, locals, pinned, broken>>

ReadToolFile(p) ==
    /\ Goto(p, "read", "write")
    /\ toolFile # Unparsable
    /\ file' = [file EXCEPT ![p] = 
                    updateToolFile(updateGoGenerateDirective(kind[p].options, Parsed(toolFile)))]
    /\ UNCHANGED <<files, curMod, ensured>> /\ Keep

\* Mutant: the file is truncated, then written.
WriteInPlace(p) ==
    /\ pc[p] = "write"
    /\ \/ toolFile' = Unparsable /\ pc' = pc
       \/ toolFile' = file[p] /\ pc' = [pc EXCEPT ![p] = "parse"]
    /\ UNCHANGED <<goMod, vendor, file, curMod, ensured>> /\ Keep

\* Writes a temporary file, then renames it.
writeUpdated(p) ==
    /\ Goto(p, "write", "parse")
    /\ toolFile' = file[p]
    /\ UNCHANGED <<goMod, vendor, file, curMod, ensured>> /\ Keep

ParseGoMod(p) ==
    /\ Goto(p, "parse", "ensure")
    /\ curMod' = [curMod EXCEPT ![p] = goMod]
    /\ UNCHANGED <<files, file, ensured>> /\ Keep

\* RequiredIntegrations: parses go.mod once more, then upgrades version 1.
EnsureV1(p) ==
    /\ Goto(p, "ensure", "ensureV2")
    /\ ensured' = [ensured EXCEPT ![p] = goMod]
    /\ goMod' = IF tracerV1 \in DOMAIN goMod.require /\ goMod.require[tracerV1] < MinV1
                THEN Get(goMod, tracerV1, latest[tracerV1]) ELSE goMod
    /\ UNCHANGED <<toolFile, vendor, file, curMod>> /\ Keep

\* Mutant: the toolchain that is restored is one read after the upgrades.
EnsureThenParse(p) ==
    /\ Goto(p, "ensureV2", "edit")
    /\ LET target == Target(ensured[p]) IN
       goMod' = IF target.upgrade THEN Get(goMod, tracerV2All, target.version) ELSE goMod
    /\ curMod' = [curMod EXCEPT ![p] = goMod']
    /\ UNCHANGED <<toolFile, vendor, file, ensured>> /\ Keep

\* It decides on version 2 from go.mod as it was before that upgrade.
EnsureV2(p) ==
    /\ Goto(p, "ensureV2", "edit")
    /\ LET target == Target(ensured[p]) IN
       goMod' = IF target.upgrade THEN Get(goMod, tracerV2All, target.version) ELSE goMod
    /\ UNCHANGED <<toolFile, vendor, file, curMod, ensured>> /\ Keep

\* RunEdit with the edits of the pin: nothing at all when there are none.
EditGoMod(p) ==
    /\ Goto(p, "edit", IF Edits(p) = NoEdits THEN "prune" ELSE "tidy")
    /\ goMod' = Edited(goMod, Edits(p))
    /\ UNCHANGED <<toolFile, vendor, file, curMod, ensured>> /\ Keep

\* The rest of RunEdit, of the edits and of the toolchain.
TidyGoMod(p) ==
    /\ \/ Goto(p, "tidy", "vendor")
       \/ Goto(p, "lastTidy", "lastVendor")
    /\ goMod' = Tidy(goMod, toolFile.imports)
    /\ UNCHANGED <<toolFile, vendor, file, curMod, ensured>> /\ Keep

Vendor(p) ==
    /\ \/ Goto(p, "vendor", "prune")
       \/ Goto(p, "lastVendor", "unlock")
    /\ vendor' = IF vendor = None THEN None ELSE goMod.require
    /\ UNCHANGED <<toolFile, goMod, file, curMod, ensured>> /\ Keep

\* pruneImports removes imports from the tree that was written already.
pruneImports(p) ==
    LET useless == file[p].imports \ (configured \cup {orchestrion})
        prune == useless # {} /\ ~kind[p].options.NoPrune
    IN  /\ Goto(p, "prune", IF prune THEN "pruneTidy" ELSE "restore")
        /\ file' = IF prune THEN [file EXCEPT ![p].imports = @ \ useless] ELSE file
        /\ UNCHANGED <<files, curMod, ensured>> /\ Keep

TidyPruned(p) ==
    /\ Goto(p, "pruneTidy", "restore")
    /\ goMod' = Tidy(goMod, toolFile.imports)
    /\ UNCHANGED <<toolFile, vendor, file, curMod, ensured>> /\ Keep

\* Mutant: the last RunEdit only when the toolchain directive changed.
RestoreIfTouched(p) ==
    /\ Goto(p, "restore", IF goMod.toolchain = curMod[p].toolchain THEN "unlock" ELSE "lastTidy")
    /\ goMod' = [goMod EXCEPT !.toolchain = curMod[p].toolchain]
    /\ UNCHANGED <<toolFile, vendor, file, curMod, ensured>> /\ Keep

RestoreToolchain(p) ==
    /\ Goto(p, "restore", "lastTidy")
    /\ goMod' = [goMod EXCEPT !.toolchain = curMod[p].toolchain]
    /\ UNCHANGED <<toolFile, vendor, file, curMod, ensured>> /\ Keep

\* The deferred Unlock of a PinOrchestrion that returns nil.
Unlock(p) ==
    /\ Goto(p, "unlock", "done")
    /\ lock' = None
    /\ pinned' = pinned \cup {kind[p].tag}
    /\ broken' = FALSE
    /\ UNCHANGED <<files, locals>>

\* An error, on which the lock is released as well, or the end of the process,
\* with which it goes away: any step may end so.
Fail(p) ==
    /\ pc[p] \notin Ended
    /\ pc' = [pc EXCEPT ![p] = "failed"]
    /\ lock' = IF lock = p THEN None ELSE lock
    /\ broken' = (broken \/ lock = p)
    /\ UNCHANGED <<files, locals, pinned>>

Terminated == (\A p \in Pinners : pc[p] \in Ended) /\ UNCHANGED vars

Next == 
    \/ \E p \in Pinners :
        \/ AlreadyPinned(p) \/ IncorrectVersion(p) \/ AutoPin(p) \/ Lock(p) \/ ReadToolFile(p)
        \/ writeUpdated(p) \/ ParseGoMod(p) \/ EnsureV1(p) \/ EnsureV2(p) \/ EditGoMod(p)
        \/ TidyGoMod(p) \/ Vendor(p) \/ pruneImports(p) \/ TidyPruned(p) \/ RestoreToolchain(p)
        \/ Unlock(p) \/ Fail(p)
    \/ Terminated

Spec == Init /\ [][Next]_vars
----------------------------------------------------------------------------
(* Properties *)

\* Once some version of orchestrion was pinned the project stays so, whatever
\* processes of that or of other versions pin, fail or are killed afterwards:
\* the tool file is valid, imports orchestrion and the integrations and not
\* what they replace; go.mod requires a module for each of its imports, and
\* orchestrion at no older version (PinOrchestrion, AutoPinOrchestrion).
StaysPinned ==
    \A tag \in pinned :
        /\ toolFile.state = "valid"
        /\ {orchestrion, tracerV2All} \subseteq toolFile.imports
        /\ {instrument, tracerV1} \cap toolFile.imports = {}
        /\ {provider[i] : i \in toolFile.imports} \subseteq DOMAIN goMod.require
        /\ goMod.require[orchestrion] >= tag

\* A pin that went through leaves nothing for `go mod tidy` to do, and a vendor
\* directory that agrees with go.mod, whichever of its runs of tidy took place
\* and even when earlier ones were cut short (RunEdit, PinOrchestrion).
LeavesGoModTidy ==
    pinned # {} /\ lock = None /\ ~broken =>
        /\ Tidy(goMod, toolFile.imports) = goMod
        /\ vendor \in {None, goMod.require}

\* Unless some process failed, the toolchain directive is what it was before the
\* first pin, though "get" and "tidy" may write one, and though the processes
\* run at the same time (the end of PinOrchestrion).
ToolchainIsRestored ==
    lock = None /\ (\A p \in Pinners : pc[p] # "failed") =>
        goMod.toolchain = original.toolchain

\* What `orchestrion pin` prunes is gone from the tool file when it is done
\* (the comment of Options.NoPrune).  The code does not have it.
PrunedIsGone ==
    \A p \in Pinners :
        pc[p] = "unlock" /\ ~kind[p].options.NoPrune =>
            toolFile.imports \subseteq configured \cup {orchestrion}

\* When tracerV2 had to be upgraded, the version that the build selects is no
\* older than the target (resolveIntegrationVersion).  The code does not have it.
UpgradeTakesEffect ==
    \A p \in Pinners :
        pc[p] = "unlock" /\ Target(ensured[p]).upgrade =>
            /\ goMod.require[tracerV2] >= Target(ensured[p]).version
            /\ goMod.replace \in {None} \cup Target(ensured[p]).version .. goMod.require[tracerV2]

=============================================================================

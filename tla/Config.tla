------------------------------- MODULE Config -------------------------------
(***************************************************************************)
(* The loader of the injector's configuration (internal/injector/config).  *)
(* A package is configured by its orchestrion.tool.go, which imports other  *)
(* packages, and by its orchestrion.yml, which extends files and packages;  *)
(* the loader follows both and remembers the files it has seen.             *)
(*                                                                         *)
(* A world is what the loader finds on the disk.  The orchestrion.yml of a  *)
(* package has the name of the package.  A configuration is kept as what    *)
(* its two traversals give: the aspects, in the order of Aspects, and the   *)
(* files, in the order of Visit; an aspect is named for the file that       *)
(* holds it.  The recursive calls of the loader are a stack of frames.      *)
(***************************************************************************)
EXTENDS Integers, FiniteSets, Sequences, SequencesExt

CONSTANTS
    worlds,         \* what may be on the disk
    BuiltIn         \* package github.com/DataDog/orchestrion

\* A world tells what is in every file that something leads to.  If a file extends the YAML
\* file of the built-in package by its name, it is a file of its own, under another name:
\* the package is not loaded from it.
Extensions(w) ==
    [is : {"dir"}, name : DOMAIN w.tool]
        \union [is : {"file"}, name : DOMAIN w.yml \ {BuiltIn}]
        \union [is : {"missing"}, name : {""}]
IsWorld(w) ==
    /\ w.call \in {"Load", "HasConfig"}
    /\ w.root \in DOMAIN w.tool
    /\ DOMAIN w.tool \subseteq DOMAIN w.yml
    /\ \A p \in DOMAIN w.tool :
          /\ w.tool[p].state \in {"ok", "error", "notExist"}
          /\ w.tool[p].imports \in Seq(DOMAIN w.tool)
    /\ \A f \in DOMAIN w.yml :
          /\ w.yml[f].state \in {"ok", "invalid", "error", "notExist"}
          /\ w.yml[f].extends \in Seq(Extensions(w))
ASSUME WorldsAssumption == \A w \in worlds : IsWorld(w)

VARIABLES
    world,          \* the files, and how the loader is called
    stack,          \* of the calls of the loader
    loaded,         \* the files that were marked as loaded
    ret,            \* what the last call returned, until its caller took it
    unlisted,       \* whether the package loader failed
    result          \* what Load or HasConfig returned

vars == <<world, stack, loaded, ret, unlisted, result>>

----------------------------------------------------------------------------
(* Configurations *)

Empty == [aspects |-> << >>, visit |-> << >>, yaml |-> FALSE]

All(field(_), cfgs) == FlattenSeq([i \in DOMAIN cfgs |-> field(cfgs[i])])
AspectsOf(cfg) == cfg.aspects
VisitOf(cfg) == cfg.visit

\* What a file extends comes first in Aspects, and last in Visit.
configYML(file, own, extends) ==
    [aspects |-> All(AspectsOf, extends) \o own,
     visit |-> <<file>> \o All(VisitOf, extends),
     yaml |-> TRUE]

\* What a package imports comes first in Aspects, and last in Visit.
OwnFileFirst(imports, yml) ==
    [aspects |-> yml.aspects \o All(AspectsOf, imports),
     visit |-> yml.visit \o All(VisitOf, imports),
     yaml |-> yml.yaml]
configGo(imports, yml) ==
    [aspects |-> All(AspectsOf, imports) \o yml.aspects,
     visit |-> yml.visit \o All(VisitOf, imports),
     yaml |-> yml.yaml]

\* Mutant: what has no YAML of its own is left out, whatever it imports.
OnlyImports(cfg) == ~cfg.yaml

\* Configurations without imports, extends and aspects are left out: what is kept
\* has aspects.
empty(cfg) == cfg.aspects = << >>
Keep(cfgs, cfg) == IF empty(cfg) THEN cfgs ELSE Append(cfgs, cfg)

builtIn == configGo(<< >>, configYML(BuiltIn, <<BuiltIn>>, << >>))

----------------------------------------------------------------------------
(* Calls and returns *)

None == [kind |-> "none", cfg |-> Empty]
Failures == {"error", "notExist"}

Top == stack[Len(stack)]
Frame(fn, name) == [fn |-> fn, name |-> name, at |-> "start", todo |-> << >>, cfgs |-> << >>]
In(fn, at) == stack # << >> /\ Top.fn = fn /\ Top.at = at
Asked(fn, at) == In(fn, at) /\ ret = None
Answered(fn, at) == In(fn, at) /\ ret # None

Return(kind, cfg) == stack' = Front(stack) /\ ret' = [kind |-> kind, cfg |-> cfg]
Continue(frame) == stack' = Append(Front(stack), frame) /\ ret' = None
Call(frame, fn, name) ==
    stack' = Append(Append(Front(stack), frame), Frame(fn, name)) /\ ret' = None

MarkLoaded(file) == loaded' = loaded \union {file}

\* That a file does not exist is an answer to the caller that asked for this file;
\* of a file that another one extends it is an error like any other.
DoNotMask(kind) == kind
maskErrNotExist(kind) == IF kind = "notExist" THEN "error" ELSE kind

\* The directory of a package is that of its .go files, ignored ones included.
packageRoot(p) == p \notin world.noGoFiles

\* The package loader: no pattern stands for the package of the directory.
Listed(patterns) == IF patterns = << >> THEN <<world.root>> ELSE patterns
ListingFails == unlisted' = TRUE /\ Return("error", Empty)

----------------------------------------------------------------------------
(* Load and HasConfig *)

Init ==
    /\ world \in worlds
    /\ stack = << >>
    /\ loaded = {}
    /\ ret = None
    /\ unlisted = FALSE
    /\ result = [kind |-> "none", cfg |-> Empty, has |-> FALSE]

Finished(kind, cfg, has) == result' = [kind |-> kind, cfg |-> cfg, has |-> has]
Outside == stack = << >> /\ result.kind = "none" /\ UNCHANGED <<world, loaded>>

\* The package of the directory is listed first; HasConfig is given its package, and
\* without a .go file it has no configuration.
Start ==
    /\ Outside
    /\ ret = None
    /\ \/ /\ world.call = "Load" \/ packageRoot(world.root)
          /\ stack' = <<Frame("package", world.root)>>
          /\ UNCHANGED <<unlisted, result>>
       \/ /\ world.call = "Load"
          /\ unlisted' = TRUE
          /\ Finished("error", Empty, FALSE)
          /\ UNCHANGED stack
       \/ /\ world.call = "HasConfig"
          /\ ~packageRoot(world.root)
          /\ Finished("ok", Empty, FALSE)
          /\ UNCHANGED <<stack, unlisted>>
    /\ UNCHANGED ret

\* HasConfig does not ask whether there are aspects, but whether there are files.
HasConfig(cfg) == cfg.yaml \/ cfg.aspects # << >>
End ==
    /\ Outside
    /\ ret # None
    /\ Finished(ret.kind, ret.cfg, ret.kind = "ok" /\ HasConfig(ret.cfg))
    /\ ret' = None
    /\ UNCHANGED <<stack, unlisted>>

----------------------------------------------------------------------------
(* loadGoPackage: the tool file, then the YAML file; each may be missing *)

Inside == UNCHANGED <<world, result>>

loadGoPackage ==
    /\ Asked("package", "start")
    /\ IF Top.name = BuiltIn THEN Return("ok", builtIn)
       ELSE IF ~packageRoot(Top.name) THEN Return("error", Empty)
       ELSE Call([Top EXCEPT !.at = "tool"], "tool", Top.name)
    /\ Inside
    /\ UNCHANGED <<loaded, unlisted>>

ToolLoaded ==
    /\ Answered("package", "tool")
    /\ IF ret.kind = "error" THEN Return("error", Empty)
       ELSE Call([Top EXCEPT !.at = "yml", !.cfgs = <<ret.cfg>>], "yml", Top.name)
    /\ Inside
    /\ UNCHANGED <<loaded, unlisted>>

YMLLoaded ==
    /\ Answered("package", "yml")
    /\ IF ret.kind = "error" THEN Return("error", Empty)
       ELSE Return("ok", configGo(Top.cfgs, ret.cfg))
    /\ Inside
    /\ UNCHANGED <<loaded, unlisted>>

----------------------------------------------------------------------------
(* loadGoFile *)

Tool(p) == <<"tool", p>>

loadGoFile ==
    /\ Asked("tool", "start")
    /\ MarkLoaded(Tool(Top.name))
    /\ LET tool == world.tool[Top.name]
       IN  \/ /\ Tool(Top.name) \in loaded
              /\ Return("ok", Empty)
              /\ UNCHANGED unlisted
           \/ /\ Tool(Top.name) \notin loaded
              /\ tool.state \in Failures
              /\ Return(tool.state, Empty)
              /\ UNCHANGED unlisted
           \/ /\ Tool(Top.name) \notin loaded
              /\ tool.state = "ok"
              /\ \/ ListingFails
                 \/ /\ Continue([Top EXCEPT !.at = "imports", !.todo = Listed(tool.imports)])
                    /\ UNCHANGED unlisted
    /\ Inside

LoadImport ==
    /\ Asked("tool", "imports")
    /\ Top.todo # << >>
    /\ Call(Top, "package", Head(Top.todo))
    /\ Inside
    /\ UNCHANGED <<loaded, unlisted>>

ImportLoaded ==
    /\ Answered("tool", "imports")
    /\ IF ret.kind \in Failures THEN Return(ret.kind, Empty)
       ELSE Continue([Top EXCEPT !.todo = Tail(@), !.cfgs = Keep(@, ret.cfg)])
    /\ Inside
    /\ UNCHANGED <<loaded, unlisted>>

\* The configurations of the imports, as one.
EndImports ==
    /\ Asked("tool", "imports")
    /\ Top.todo = << >>
    /\ Return("ok", configGo(Top.cfgs, Empty))
    /\ Inside
    /\ UNCHANGED <<loaded, unlisted>>

----------------------------------------------------------------------------
(* loadYMLFile *)

Yml(f) == <<"yml", f>>

\* What the schema refuses may well be decoded; the schema is looked at on demand.
ValidateObject(f) == world.yml[f].state # "invalid"
parseYMLFile(f) ==
    IF ValidateObject(f) THEN world.yml[f].state
    ELSE IF world.validate THEN "error" ELSE "ok"

LoadYMLFileThenMark ==
    /\ Asked("yml", "start")
    /\ UNCHANGED loaded
    /\ IF Yml(Top.name) \in loaded THEN Return("ok", Empty)
       ELSE IF parseYMLFile(Top.name) \in Failures THEN Return(parseYMLFile(Top.name), Empty)
       ELSE Continue([Top EXCEPT !.at = "extends", !.todo = world.yml[Top.name].extends])
    /\ Inside
    /\ UNCHANGED unlisted
loadYMLFile ==
    /\ Asked("yml", "start")
    /\ MarkLoaded(Yml(Top.name))
    /\ IF Yml(Top.name) \in loaded THEN Return("ok", Empty)
       ELSE IF parseYMLFile(Top.name) \in Failures THEN Return(parseYMLFile(Top.name), Empty)
       ELSE Continue([Top EXCEPT !.at = "extends", !.todo = world.yml[Top.name].extends])
    /\ Inside
    /\ UNCHANGED unlisted

\* What is extended must exist; a directory stands for the package in it.
Exists(ext) ==
    \/ ext.is = "dir"
    \/ ext.is = "file" /\ world.yml[ext.name].state # "notExist"
LoadExtension ==
    /\ Asked("yml", "extends")
    /\ Top.todo # << >>
    /\ LET ext == Head(Top.todo)
       IN  \/ /\ ~Exists(ext)
              /\ Return(maskErrNotExist("notExist"), Empty)
              /\ UNCHANGED unlisted
           \/ /\ ext.is = "dir"
              /\ \/ ListingFails
                 \/ Call(Top, "package", ext.name) /\ UNCHANGED unlisted
           \/ /\ ext.is = "file"
              /\ Exists(ext)
              /\ Call(Top, "yml", ext.name)
              /\ UNCHANGED unlisted
    /\ Inside
    /\ UNCHANGED loaded

ExtensionLoaded ==
    /\ Answered("yml", "extends")
    /\ IF ret.kind \in Failures THEN Return(maskErrNotExist(ret.kind), Empty)
       ELSE Continue([Top EXCEPT !.todo = Tail(@), !.cfgs = Keep(@, ret.cfg)])
    /\ Inside
    /\ UNCHANGED <<loaded, unlisted>>

EndExtends ==
    /\ Asked("yml", "extends")
    /\ Top.todo = << >>
    /\ Return("ok", configYML(Top.name,
                              IF world.yml[Top.name].aspects THEN <<Top.name>> ELSE << >>,
                              Top.cfgs))
    /\ Inside
    /\ UNCHANGED <<loaded, unlisted>>

----------------------------------------------------------------------------
Ended == result.kind # "none" /\ UNCHANGED vars

CNext ==
    \/ Start \/ End
    \/ loadGoPackage \/ ToolLoaded \/ YMLLoaded
    \/ loadGoFile \/ LoadImport \/ ImportLoaded \/ EndImports
    \/ loadYMLFile \/ LoadExtension \/ ExtensionLoaded \/ EndExtends
    \/ Ended

CSpec == Init /\ [][CNext]_vars

----------------------------------------------------------------------------
(* Properties *)

\* The files that a file leads to, and those that the world reaches from its root: the
\* least set that has the files of the root and what its files lead to.
FilesOf(f) == {Yml(f)} \union {Tool(p) : p \in {f} \intersect DOMAIN world.tool}
AllFiles == UNION {FilesOf(f) : f \in DOMAIN world.yml}
FilesOfExtension(ext) ==
    CASE ext.is = "dir" -> FilesOf(ext.name)
      [] ext.is = "file" -> {Yml(ext.name)}
      [] ext.is = "missing" -> {}
Leads(n) ==
    IF n[1] = "tool"
    THEN IF world.tool[n[2]].state = "ok"
         THEN UNION {FilesOf(p) : p \in ToSet(Listed(world.tool[n[2]].imports))}
         ELSE {}
    ELSE IF parseYMLFile(n[2]) = "ok"
         THEN UNION {FilesOfExtension(ext) : ext \in ToSet(world.yml[n[2]].extends)}
         ELSE {}
IsClosed(T) == \A n \in T : n[2] # BuiltIn => Leads(n) \subseteq T
ReachableFrom(S) ==
    LET closed == {T \in SUBSET AllFiles : S \subseteq T /\ IsClosed(T)}
    IN  {n \in AllFiles : \A T \in closed : n \in T}
Reachable == ReachableFrom(FilesOf(world.root))

\* Whether a file that is reached cannot be used.  A file that does not exist is in
\* order only where it is looked for in a package.
Wrong(n) ==
    /\ n[2] # BuiltIn
    /\ \/ n[1] = "tool" /\ (~packageRoot(n[2]) \/ world.tool[n[2]].state = "error")
       \/ n[1] = "yml" /\ parseYMLFile(n[2]) = "error"
       \/ /\ n[1] = "yml"
          /\ parseYMLFile(n[2]) = "ok"
          /\ \E ext \in ToSet(world.yml[n[2]].extends) : ~Exists(ext)

Succeeded == result.kind = "ok"

\* Loading succeeds if nothing that can be reached is wrong, however often and from where
\* it is asked for, and fails only for a reason: which errors of a file are one for whom it
\* was asked by depends on what was asked (loadGoPackage, maskErrNotExist, markLoaded).
ErrorsAreExact ==
    /\ Succeeded /\ packageRoot(world.root) => ~unlisted /\ \A n \in Reachable : ~Wrong(n)
    /\ result.kind = "error" => unlisted \/ \E n \in Reachable : Wrong(n)

\* A configuration that was loaded has the aspects of every file that can be reached,
\* whatever the files lead to and each file once (but the built-in configuration); its
\* files are those that Visit shows (loadGoPackage, loadYMLFile, empty, markLoaded). A YAML
\* file without aspects is only known to HasConfig if the imports do not lead to it.
Used ==
    {f \in DOMAIN world.yml : Yml(f) \in Reachable /\ (f = BuiltIn \/ parseYMLFile(f) = "ok")}
LoadIsExact ==
    Succeeded /\ packageRoot(world.root) =>
        /\ ToSet(result.cfg.aspects) = {f \in Used : f = BuiltIn \/ world.yml[f].aspects}
        /\ ToSet(result.cfg.visit) \subseteq Used
        /\ ToSet(result.cfg.aspects) \subseteq ToSet(result.cfg.visit)
        /\ \A i, j \in DOMAIN result.cfg.aspects :
              result.cfg.aspects[i] = result.cfg.aspects[j] =>
                  i = j \/ result.cfg.aspects[i] = BuiltIn
        /\ result.has <=>
              \/ result.cfg.aspects # << >>
              \/ /\ world.root \in Used
                 /\ Yml(world.root) \notin ReachableFrom(Leads(Tool(world.root)))

\* The aspects of what a file leads to come before its own, unless it leads back or
\* the file was asked for on its own before its package was (Aspects of configGo and
\* configYML, whose order the injection follows).
AskedAlone(f) ==
    \E g \in DOMAIN world.yml : \E ext \in ToSet(world.yml[g].extends) :
        ext.is = "file" /\ ext.name = f
DependenciesFirst ==
    Succeeded => \A i, j \in DOMAIN result.cfg.aspects :
        LET a == result.cfg.aspects[i]
            b == result.cfg.aspects[j]
        IN  i < j /\ a # BuiltIn /\ b # BuiltIn =>
                \A n \in FilesOf(a) :
                    /\ Yml(b) \in Leads(n)
                    /\ n[1] = "tool" => ~AskedAlone(a)
                    => ReachableFrom(Leads(n)) \intersect FilesOf(a) # {}

\* No file is being loaded twice at a time: the recursion ends (markLoaded comes
\* before what the file leads to is loaded).
NoReentry ==
    \A i, j \in DOMAIN stack :
        /\ stack[i].at \notin {"start"} /\ stack[j].at \notin {"start"}
        /\ stack[i].fn # "package"
        /\ stack[i].fn = stack[j].fn /\ stack[i].name = stack[j].name
        => i = j

----------------------------------------------------------------------------
(***************************************************************************)
(* The inductive invariant behind ErrorsAreExact.                           *)
(***************************************************************************)

\* What a call is to load, and what a frame waits for.
AskedFor(fn, name) == IF fn = "package" THEN FilesOf(name) ELSE {<<fn, name>>}
Callee(frame) ==
    CASE frame.fn = "package" -> <<frame.at, frame.name>>
      [] frame.fn = "tool" -> <<"package", Head(frame.todo)>>
      [] frame.fn = "yml" ->
           <<IF Head(frame.todo).is = "dir" THEN "package" ELSE "yml", Head(frame.todo).name>>
Waiting(frame) ==
    /\ frame.at # "start"
    /\ frame.fn # "package" => frame.todo # << >>
    /\ frame.fn = "yml" => Head(frame.todo).is # "missing" /\ Exists(Head(frame.todo))
LastCall ==
    IF stack = << >> THEN <<"package", world.root>> ELSE Callee(Top)

\* Of every frame, what it loads is reached and was marked, and what it has yet to do is part
\* of what it leads to.
FrameOK(frame) ==
    /\ frame.fn \in {"package", "tool", "yml"}
    /\ frame.name \in DOMAIN world.yml
    /\ AskedFor(frame.fn, frame.name) \subseteq Reachable
    /\ frame.fn # "package" => frame.name # BuiltIn
    /\ frame.fn = "tool" => packageRoot(frame.name)
    /\ frame.fn # "yml" => frame.name \in DOMAIN world.tool
    /\ frame.fn = "package" =>
          /\ frame.at \in {"start", "tool", "yml"}
          /\ frame.at # "start" => frame.name # BuiltIn /\ packageRoot(frame.name)
          /\ frame.at = "yml" => Tool(frame.name) \in loaded
    /\ frame.fn = "tool" /\ frame.at # "start" =>
          /\ frame.at = "imports"
          /\ Tool(frame.name) \in loaded
          /\ world.tool[frame.name].state = "ok"
          /\ frame.todo \in Seq(ToSet(Listed(world.tool[frame.name].imports)))
    /\ frame.fn = "yml" /\ frame.at # "start" =>
          /\ frame.at = "extends"
          /\ Yml(frame.name) \in loaded
          /\ parseYMLFile(frame.name) = "ok"
          /\ frame.todo \in Seq(ToSet(world.yml[frame.name].extends))

FramesOK ==
    /\ \A i \in DOMAIN stack : FrameOK(stack[i])
    /\ stack # << >> => stack[1].fn = "package" /\ stack[1].name = world.root
    /\ \A i \in DOMAIN stack : i + 1 \in DOMAIN stack =>
          Waiting(stack[i]) /\ Callee(stack[i]) = <<stack[i + 1].fn, stack[i + 1].name>>
    /\ stack # << >> => result.kind = "none"
    /\ stack # << >> /\ ret # None => Waiting(Top)

\* What a file calls for: that the files it leads to are loaded, and that what it extends
\* exists.
Duties(n) ==
    Leads(n) \union
    IF n[1] = "yml" /\ parseYMLFile(n[2]) = "ok"
    THEN {<<"exists", ext>> : ext \in ToSet(world.yml[n[2]].extends)} ELSE {}
DutiesOf(ext) == FilesOfExtension(ext) \union {<<"exists", ext>>}
Pending(frame) ==
    CASE frame.fn = "package" ->
           IF frame.at = "yml" THEN {Yml(frame.name)} ELSE FilesOf(frame.name)
      [] frame.fn # "package" /\ frame.at = "start" -> {<<frame.fn, frame.name>>}
      [] frame.fn = "tool" /\ frame.at # "start" -> UNION {FilesOf(p) : p \in ToSet(frame.todo)}
      [] frame.fn = "yml" /\ frame.at # "start" -> UNION {DutiesOf(ext) : ext \in ToSet(frame.todo)}
Settled(d) == IF d[1] = "exists" THEN Exists(d[2]) ELSE d \in loaded \/ d[2] = BuiltIn

\* Nothing is forgotten: what a loaded file calls for is done, or its frame has yet to do it.
NothingForgotten ==
    ret.kind # "error" /\ result.kind # "error" =>
        /\ \A n \in loaded : \A d \in Duties(n) :
              Settled(d) \/ \E i \in DOMAIN stack :
                                n = <<stack[i].fn, stack[i].name>> /\ d \in Pending(stack[i])
        /\ \A n \in loaded : IF n[1] = "tool"
                             THEN packageRoot(n[2]) /\ world.tool[n[2]].state # "error"
                             ELSE parseYMLFile(n[2]) # "error"
        /\ ret.kind \in {"ok", "notExist"} =>
              \A n \in AskedFor(LastCall[1], LastCall[2]) : Settled(n)
        /\ ~unlisted

\* Errors have a reason, and what does not exist is a file.
ErrorsAreDue ==
    /\ ret.kind \in {"none", "ok", "error", "notExist"}
    /\ ret.kind = "none" => ret = None
    /\ ret.kind = "error" => unlisted \/ \E n \in Reachable : Wrong(n)
    /\ ret.kind = "notExist" =>
          \/ LastCall[1] = "tool"
          \/ LastCall[1] = "yml" /\ world.yml[LastCall[2]].state = "notExist"
    /\ result.kind \in {"none", "ok", "error"}

LoadInv == world \in worlds /\ FramesOK /\ NothingForgotten /\ ErrorsAreDue /\ ErrorsAreExact

=============================================================================

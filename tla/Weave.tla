------------------------------- MODULE Weave -------------------------------
(***************************************************************************)
(* The injector (internal/injector): InjectFiles filters the aspects of the *)
(* configuration, parses the files of a package in one goroutine each, type *)
(* checks them, and applies the advice of the aspects to each file in a     *)
(* goroutine of its own.                                                    *)
(*                                                                         *)
(* A world is what InjectFiles is called with: the package, its files and   *)
(* the aspects.  The last node of a file is its *dst.File, the root; nodes  *)
(* that are injected come after it.                                         *)
(***************************************************************************)
EXTENDS JoinPoints, Integers

CONSTANTS
    worlds,             \* what the injector may be called with
    MaxBytesEagerness,  \* the size from which packages are parsed as a whole
    BlankNode           \* a node of which nothing is known

ASSUME BlankNodeAssumption ==
    /\ {"kind", "parent", "prop", "name", "form", "path", "type", "shadows"} \subseteq DOMAIN BlankNode
    /\ BlankNode.path = "" /\ BlankNode.type = NoType

\* The packages that a node refers to by name.
Refers(node) ==
    (IF node.kind = "CallExpr" /\ node.form \in {"Ident", "SelectorExpr"} THEN {node.path} ELSE {})
    \cup (IF node.kind = "CompositeLit" /\ node.type # NoType THEN {node.type.path} ELSE {})

\* Children come before their parents.
InPostOrder(nodes) ==
    \A n \in DOMAIN nodes : nodes[n].parent \in {0} \cup n + 1..Len(nodes)

AdviceKinds == {"prepend-statements", "wrap-expression", "assign-value", "append-args",
                "replace-function", "add-struct-field", "inject-declarations",
                "add-blank-import"}

\* Advice as it is unmarshaled.  Declarations to inject are trees of nodes, and refer
\* to what the template imports.
IsAdvice(adv) ==
    LET paths == {imp.path : imp \in Range(adv.template.imports)} IN
    /\ adv.kind \in AdviceKinds
    /\ adv.namespace \in Int /\ adv.order \in Int /\ adv.template.lang \in Nat
    /\ IsSeq(adv.template.imports) /\ "" \notin paths
    /\ IsSeq(adv.links) /\ "" \notin Range(adv.links)
    /\ adv.kind = "add-blank-import" => adv.path # ""
    /\ IsSeq(adv.decls) /\ InPostOrder(adv.decls)
    /\ \A node \in Range(adv.decls) :
           DOMAIN node = DOMAIN BlankNode /\ Refers(node) \subseteq paths \cup {""}

IsFile(pkg, file) ==
    /\ IsSeq(file.nodes) /\ file.nodes # << >> /\ InPostOrder(file.nodes)
    /\ IsWellFormed(pkg, file)
    /\ \A node \in Range(file.nodes) : DOMAIN node = DOMAIN BlankNode
    /\ IsSeq(file.decls) /\ IsInjective(file.decls)
    /\ \A d \in Range(file.decls) :
           d \in DOMAIN file.nodes /\ file.nodes[d].parent = Len(file.nodes)

ASSUME WorldsAssumption ==
    \A w \in worlds :
        /\ IsSeq(w.files) /\ \A file \in Range(w.files) : IsFile(w.pkg, file)
        /\ w.check \in {"ok", "error", "newer"}
        /\ IsSeq(w.aspects)
        /\ \A a \in Range(w.aspects) :
               /\ a.point \in DOMAIN points
               /\ IsSeq(a.advice) /\ \A adv \in Range(a.advice) : IsAdvice(adv)

VARIABLES
    world,          \* the arguments of InjectFiles
    stage,          \* of the call
    reader,         \* of each file, the state of its goroutine in ParseFiles
    parser,         \* filesBytesCount and mustParseAll
    aspectsOf,      \* of each file, the aspects that may match in it
    weaver,         \* of each file, the state of its traversal
    result          \* of each file that was modified, what is returned

vars == <<world, stage, reader, parser, aspectsOf, weaver, result>>

Files == DOMAIN world.files
Aspects == DOMAIN world.aspects
Point(a) == world.aspects[a].point

\* The element of a singleton: TLC computes it once, where it would expand a LET
\* or an argument at each use.
Value(S) == CHOOSE v \in S : TRUE

\* w after op with each element of seq
Through(op(_, _), w, seq) ==
    LET after[k \in 0..Len(seq)] ==
            IF k = 0 THEN w ELSE Value({op(v, seq[k]) : v \in {after[k - 1]}})
    IN after[Len(seq)]

-----------------------------------------------------------------------------
(***************************************************************************)
(* The reference map of a file.  A reference is an ImportStatement, or a    *)
(* RelocationTarget only; aliases are what __orchestrion_ is put before.    *)
(* An import has the alias "" if it is known by the name of its package,    *)
(* which here is its path.                                                  *)
(***************************************************************************)
LocalName(spec) == IF spec.alias = "" THEN spec.path ELSE spec.alias

FirstImport(specs, path) == SelectInSeq(specs, LAMBDA spec : spec.path = path)
HasImport(specs, path) == FirstImport(specs, path) # 0

\* Mutant: what hides the import is not looked at.
IsImportOfFile(w, n, path, name) ==
    \E spec \in Range(w.imports) : spec.path = path /\ LocalName(spec) = name

IsImportInScope(w, n, path, name) ==
    /\ name \notin w.nodes[n].shadows
    /\ \E spec \in Range(w.imports) : spec.path = path /\ LocalName(spec) = name

ImportIsUsable(w, n, path, name) ==
    /\ HasImport(w.imports, path)
    /\ w.imports[FirstImport(w.imports, path)].alias \notin {".", "_"}
    /\ IsImportInScope(w, n, path, name)

AddRef(refs, path, kind) ==
    [q \in DOMAIN refs \cup {path} |->
        IF q \in DOMAIN refs /\ (q # path \/ refs[q] = "ImportStatement")
        THEN refs[q] ELSE kind]

\* w.uses is what injected code refers to by the name of its package, and where.
Use(w, n, path, name) ==
    IF name = "_" THEN w ELSE [w EXCEPT !.uses = @ \cup {<<n, path>>}]

AddImport(w, n, path, name) ==
    IF ImportIsUsable(w, n, path, name) THEN Use(w, n, path, name)
    ELSE [Use(w, n, path, name) EXCEPT
                   !.refs = AddRef(w.refs, path, "ImportStatement"),
                   !.aliases = IF name = "_" THEN @
                               ELSE [q \in DOMAIN @ \cup {path} |->
                                        IF q = path THEN name ELSE @[q]]]

AddLink(w, path) ==
    IF HasImport(w.imports, path) THEN w
    ELSE [w EXCEPT !.refs = AddRef(w.refs, path, "RelocationTarget")]

ToAdd(w) == {path \in DOMAIN w.refs : w.refs[path] = "ImportStatement"}

\* A synthetic import is blank or has an alias that nothing in the file has.
SyntheticAlias(w, path) == IF path \in DOMAIN w.aliases THEN "__orchestrion" ELSE "_"

\* Without an import declaration, a new one (0) is put before all others.
AddSyntheticImports(w) ==
    IF ToAdd(w) = {} THEN w
    ELSE [w EXCEPT !.synthetic = ToAdd(w),
                   !.decls = IF w.imports = << >> THEN <<0>> \o @ ELSE @,
                   !.modified = TRUE]

\* One step of the loop that chooses the import of a path that is retained.
RetainNext(r, spec) ==
    IF r.found \/ spec.alias = "" THEN r
    ELSE IF r.spec.alias = "" \/ (r.spec.alias = "_" /\ spec.alias # "_")
    THEN [r EXCEPT !.spec = spec]
    ELSE [r EXCEPT !.found = TRUE]

\* canonicalizeImports
Retained(w, path) ==
    LET specs == Among(w.imports, {spec \in Range(w.imports) : spec.path = path}) \o
                 (IF path \in w.synthetic
                  THEN <<[path |-> path, alias |-> SyntheticAlias(w, path)]>> ELSE << >>)
    IN FoldLeft(RetainNext, [spec |-> Head(specs), found |-> FALSE], Tail(specs)).spec

-----------------------------------------------------------------------------
(***************************************************************************)
(* Advice, applied to node n in the state w of a file.                      *)
(***************************************************************************)
Exprs == {"CallExpr", "CompositeLit", "UnaryExpr", "Ident", "SelectorExpr", "FuncLit"}

Applies(w, n, adv) ==
    LET kind == w.nodes[n].kind IN
    CASE adv.kind = "prepend-statements" -> kind = "BlockStmt"
      [] adv.kind = "wrap-expression" -> kind \in Exprs \cup {"KeyValueExpr"}
      [] adv.kind = "assign-value" -> kind = "ValueSpec"
      [] adv.kind \in {"append-args", "replace-function"} -> kind = "CallExpr"
      [] adv.kind = "add-struct-field" ->
           kind = "TypeSpec" /\ w.nodes[n].form = "StructType"
      [] adv.kind \in {"inject-declarations", "add-blank-import"} -> TRUE

Failed(w) == [w EXCEPT !.state = "failed"]

\* Template.compile: the imports used, then the code, which may not compile.
Compile(w, n, template) ==
    IF template.fails THEN Failed(w)
    ELSE Through(LAMBDA v, imp : AddImport(v, n, imp.path, imp.name), w, template.imports)

EnsureMinGoLang(w, template) == [w EXCEPT !.lang = Max({@, template.lang})]

Mark(w) == [w EXCEPT !.modified = TRUE]

PrependStatements(w, n, adv) ==
    Mark(EnsureMinGoLang(Compile(w, n, adv.template), adv.template))

\* The template's expression takes the place of the node or, for a field of a
\* literal, of its value.
Replacement(w, n, template) ==
    [BlankNode EXCEPT !.kind = template.yields, !.parent = w.nodes[n].parent,
                      !.prop = w.nodes[n].prop, !.shadows = w.nodes[n].shadows]
WrapExpression(w, n, adv) ==
    LET at == IF w.nodes[n].kind = "KeyValueExpr"
              THEN CHOOSE c \in Child(w, n, "Value") : TRUE ELSE n
        v == Compile(w, at, adv.template)
    IN Mark(EnsureMinGoLang(
          [v EXCEPT !.nodes[at] = Replacement(w, at, adv.template)], adv.template))

AssignValue(w, n, adv) ==
    Mark(EnsureMinGoLang(Compile(w, n, adv.template), adv.template))

\* Declarations are appended to those of the file, which the traversal is in.
InjectDeclarations(w, n, adv) ==
    LET v == Compile(w, n, adv.template)
        last == Len(w.nodes)
        new == [i \in DOMAIN adv.decls |->
                  [adv.decls[i] EXCEPT !.parent = IF @ = 0 THEN w.root ELSE last + @]]
        roots == Among([i \in DOMAIN new |-> last + i],
                       {last + i : i \in {j \in DOMAIN new : adv.decls[j].parent = 0}})
        grown == [v EXCEPT !.nodes = @ \o new, !.decls = @ \o roots]
        linked == IF adv.links = << >> THEN grown
                  ELSE Through(AddLink, AddImport(grown, n, "unsafe", "_"), adv.links)
    IN IF adv.decls = << >> THEN v
       ELSE Mark(EnsureMinGoLang(linked, adv.template))

ImportType(w, n, path) == IF path = "" THEN w ELSE AddImport(w, n, path, path)

AddStructField(w, n, adv) == Mark(ImportType(w, n, adv.path))

AppendArgs(w, n, adv) ==
    LET v == EnsureMinGoLang(Compile(w, n, adv.template), adv.template) IN
    Mark(IF w.nodes[n].ellipsis THEN ImportType(v, n, adv.path) ELSE v)

ReplaceFunction(w, n, adv) ==
    Mark(ImportType([w EXCEPT !.nodes[n].form = "Ident", !.nodes[n].path = adv.path,
                              !.nodes[n].name = adv.name], n, adv.path))

AddBlankImport(w, n, adv) ==
    IF ImportIsUsable(w, n, adv.path, "_") THEN w
    ELSE Mark(AddImport(w, n, adv.path, "_"))

ApplyAdvice(w, n, adv) ==
    IF ~Applies(w, n, adv) THEN Failed(w)
    ELSE CASE adv.kind = "prepend-statements" -> PrependStatements(w, n, adv)
           [] adv.kind = "wrap-expression" -> WrapExpression(w, n, adv)
           [] adv.kind = "assign-value" -> AssignValue(w, n, adv)
           [] adv.kind = "inject-declarations" -> InjectDeclarations(w, n, adv)
           [] adv.kind = "add-struct-field" -> AddStructField(w, n, adv)
           [] adv.kind = "append-args" -> AppendArgs(w, n, adv)
           [] adv.kind = "replace-function" -> ReplaceFunction(w, n, adv)
           [] adv.kind = "add-blank-import" -> AddBlankImport(w, n, adv)

\* What an advice may import: Advice.AddedImports.
AdviceImports(adv) ==
    LET paths == {imp.path : imp \in Range(adv.template.imports)} IN
    CASE adv.kind \in {"add-blank-import", "replace-function", "add-struct-field"} ->
           {adv.path} \ {""}
      [] adv.kind = "append-args" -> paths \cup ({adv.path} \ {""})
      [] adv.kind = "inject-declarations" -> paths \cup Range(adv.links)
      [] OTHER -> paths

\* Aspect.AddedImports; what join points imply depends on neither package nor file.
AddedImports(a) ==
    (UNION {AdviceImports(adv) : adv \in Range(world.aspects[a].advice)})
        \ ({"unsafe"} \cup Range(Filters(world.pkg, world.files[1])[Point(a)].implied))

InjectedPaths == UNION {AddedImports(a) : a \in Aspects}

-----------------------------------------------------------------------------
(***************************************************************************)
(* The advice of the aspects that match at a node, in the order it is       *)
(* applied: by namespace, then by order, then as configured.  Namespaces    *)
(* are numbers here, in the order of their names.                           *)
(***************************************************************************)
AdviceAt(w, n, aspects) ==
    LET matches == Matches(world, w)
        matching == Among(aspects, {a \in Aspects : matches[Point(a), n, world.pkg.testMain]})
        of(a) == [i \in DOMAIN world.aspects[a].advice |-> <<a, i>>]
    IN FlattenSeq([k \in DOMAIN matching |-> of(matching[k])])

AdviceOf(id) == world.aspects[id[1]].advice[id[2]]

\* Whether the advice at index i of ids is applied before the one at index j.
IsBefore(ids, i, j) ==
    LET a == AdviceOf(ids[i]) b == AdviceOf(ids[j]) IN
    \/ a.namespace < b.namespace
    \/ a.namespace = b.namespace /\ a.order < b.order
    \/ a.namespace = b.namespace /\ a.order = b.order /\ i < j

\* At k stands what k - 1 others are before.
Sorted(ids) ==
    LET before(i) == Cardinality({j \in DOMAIN ids : IsBefore(ids, j, i)})
    IN [k \in DOMAIN ids |-> ids[CHOOSE i \in DOMAIN ids : before(i) = k - 1]]

\* Mutant: imports are added while declarations are traversed.
InjectNodeAndImports(w, n, aspects) ==
    AddSyntheticImports(
        Through(LAMBDA v, id :
                    IF v.state = "failed" THEN v
                    ELSE [ApplyAdvice(v, n, AdviceOf(id)) EXCEPT
                             !.applied = Append(@, <<n, id>>)],
                w, Sorted(AdviceAt(w, n, aspects))))

\* injectNode
InjectNode(w, n, aspects) ==
    Through(LAMBDA v, id :
                IF v.state = "failed" THEN v
                ELSE [ApplyAdvice(v, n, AdviceOf(id)) EXCEPT
                         !.applied = Append(@, <<n, id>>)],
            w, Sorted(AdviceAt(w, n, aspects)))

-----------------------------------------------------------------------------
(***************************************************************************)
(* The traversal of a file (dstutil.Apply): its declarations by index, the  *)
(* nodes of each in post-order and without what is ignored, then the file.  *)
(***************************************************************************)
Subtree(w, d) ==
    LET visited[n \in Nodes(w)] ==
            ~w.nodes[n].ignored /\ (n = d \/ (w.nodes[n].parent # 0 /\ n # w.root
                                              /\ visited[w.nodes[n].parent]))
    IN Among([n \in Nodes(w) |-> n], {n \in Nodes(w) : n # w.root /\ visited[n]})

\* The cursor is done with a declaration: it moves to the next one in the list
\* as it is now, and to the file after the last.
Settle(w) ==
    IF w.todo # << >> THEN w
    ELSE LET next == {i \in w.at + 1..Len(w.decls) : Subtree(w, w.decls[i]) # << >>} IN
         IF next = {} THEN [w EXCEPT !.state = "file", !.todo = <<w.root>>]
         ELSE [w EXCEPT !.at = Min(next), !.todo = Subtree(w, w.decls[Min(next)])]

Start(f) ==
    LET file == world.files[f]
        root == Len(file.nodes)
        w == [state |-> "decls", nodes |-> file.nodes, packageName |-> file.packageName,
              directives |-> file.directives, decls |-> file.decls, at |-> 0,
              todo |-> << >>, root |-> root, imports |-> file.imports,
              refs |-> << >>, aliases |-> << >>, uses |-> {}, synthetic |-> {},
              lang |-> 0, modified |-> FALSE, applied |-> << >>]
    IN IF file.nodes[root].ignored THEN [w EXCEPT !.state = "woven"] ELSE Settle(w)

\* post, for the next node
VisitNode(w, aspects) ==
    LET leave(v) == IF v.state = "failed" THEN v
                    ELSE IF v.state = "file" THEN [v EXCEPT !.state = "woven"]
                    ELSE Settle(v)
    IN Value({leave(v) : v \in
          {[InjectNode(w, Head(w.todo), aspects) EXCEPT !.todo = Tail(w.todo)]}})

-----------------------------------------------------------------------------
(***************************************************************************)
(* ParseFiles.                                                              *)
(***************************************************************************)
PackageFilterAspects ==
    LET filters == Filters(world.pkg, world.files[1])
    IN Among([a \in Aspects |-> a], {a \in Aspects : filters[Point(a)].package # "NeverMatch"})

FileFilterAspects(aspects, file) ==
    LET filters == Filters(world.pkg, file)
    IN Among(aspects, {a \in Aspects : filters[Point(a)].file # "NeverMatch"})

HasApplicableAspects == parser.mustParseAll \/ parser.bytes > MaxBytesEagerness

WInit ==
    /\ world \in worlds
    /\ stage = "called"
    /\ reader = [f \in Files |-> "idle"]
    /\ parser = [bytes |-> 0, mustParseAll |-> FALSE]
    /\ aspectsOf = [f \in Files |-> << >>]
    /\ weaver = << >>
    /\ result = [files |-> << >>, lang |-> 0]

\* InjectFiles up to ParseFiles, which has a goroutine read each file.
InjectFiles ==
    /\ stage = "called"
    /\ IF world.pkg.importPath = ""
       THEN stage' = "failed" /\ UNCHANGED <<reader, aspectsOf>>
       ELSE /\ stage' = "parsing"
            /\ reader' = [f \in Files |-> "reading"]
            /\ aspectsOf' = [f \in Files |-> PackageFilterAspects]
    /\ UNCHANGED <<world, parser, weaver, result>>

ReadFile(f) ==
    /\ reader[f] = "reading"
    /\ IF world.files[f].broken = "unreadable"
       THEN reader' = [reader EXCEPT ![f] = "failed"] /\ UNCHANGED parser
       ELSE /\ reader' = [reader EXCEPT ![f] = "counted"]
            /\ parser' = [parser EXCEPT !.bytes = @ + world.files[f].size]
    /\ UNCHANGED <<world, stage, aspectsOf, weaver, result>>

\* What other goroutines do between this and the filter goes unnoticed.
CheckApplicable(f) ==
    /\ reader[f] = "counted"
    /\ reader' = [reader EXCEPT ![f] = IF HasApplicableAspects THEN "storing" ELSE "filtering"]
    /\ UNCHANGED <<world, stage, parser, aspectsOf, weaver, result>>

FilterFile(f) ==
    /\ reader[f] = "filtering"
    /\ IF world.files[f].broken = "clause"
       THEN reader' = [reader EXCEPT ![f] = "failed"] /\ UNCHANGED aspectsOf
       ELSE LET left == FileFilterAspects(aspectsOf[f], world.files[f]) IN
            /\ aspectsOf' = [aspectsOf EXCEPT ![f] = left]
            /\ reader' = [reader EXCEPT ![f] = IF left = << >> THEN "skipped" ELSE "storing"]
    /\ UNCHANGED <<world, stage, parser, weaver, result>>

ParseFile(f) ==
    /\ reader[f] = "storing"
    /\ parser' = [parser EXCEPT !.mustParseAll = TRUE]
    /\ reader' = [reader EXCEPT ![f] = IF world.files[f].broken = "no" THEN "parsed" ELSE "failed"]
    /\ UNCHANGED <<world, stage, aspectsOf, weaver, result>>

\* wg.Wait; what was skipped is parsed now, if anything has to be.
EndParsing ==
    /\ stage = "parsing"
    /\ \A f \in Files : reader[f] \in {"skipped", "parsed", "failed"}
    /\ stage' = IF "failed" \in Range(reader) THEN "failed"
                ELSE IF ~HasApplicableAspects THEN "unchanged"
                ELSE IF \A f \in Files : world.files[f].broken = "no"
                     THEN "checking" ELSE "failed"
    /\ UNCHANGED <<world, reader, parser, aspectsOf, weaver, result>>

-----------------------------------------------------------------------------
(***************************************************************************)
(* The rest of InjectFiles.  Errors of the type checker are left to the     *)
(* compiler to report, except that the package needs a newer Go.            *)
(***************************************************************************)
TypeCheck ==
    /\ stage = "checking"
    /\ stage' = CASE world.check = "ok" -> "weaving"
                  [] world.check = "error" -> "unchanged"
                  [] world.check = "newer" -> "failed"
    /\ weaver' = IF world.check = "ok" THEN [f \in Files |-> Start(f)] ELSE weaver
    /\ UNCHANGED <<world, reader, parser, aspectsOf, result>>

Visit(f) ==
    /\ stage = "weaving" /\ weaver[f].state \in {"decls", "file"}
    /\ weaver' = [weaver EXCEPT ![f] = VisitNode(@, aspectsOf[f])]
    /\ UNCHANGED <<world, stage, reader, parser, aspectsOf, result>>

Finished(w) == [AddSyntheticImports(w) EXCEPT !.state = "finished"]

\* Mutant: the version of the last file.
SetTo(lang, other) == other

SetAtLeast(lang, other) == Max({lang, other})

\* The end of applyAspects, writeModifiedFile, and what is merged under resultMu.
Finish(f) ==
    /\ stage = "weaving" /\ weaver[f].state = "woven"
    /\ weaver' = [weaver EXCEPT ![f] = Finished(@)]
    /\ result' = IF ~weaver'[f].modified THEN result
                 ELSE [files |-> [g \in DOMAIN result.files \cup {f} |->
                                    IF g = f THEN weaver'[f].refs ELSE result.files[g]],
                       lang |-> SetAtLeast(result.lang, weaver'[f].lang)]
    /\ UNCHANGED <<world, stage, reader, parser, aspectsOf>>

\* The file cannot be restored, formatted or written.
WriteFails(f) ==
    /\ stage = "weaving" /\ weaver[f].state = "woven" /\ Finished(weaver[f]).modified
    /\ weaver' = [weaver EXCEPT ![f] = Failed(Finished(@))]
    /\ UNCHANGED <<world, stage, reader, parser, aspectsOf, result>>

Return ==
    /\ stage = "weaving"
    /\ \A f \in Files : weaver[f].state \in {"finished", "failed"}
    /\ stage' = IF \A f \in Files : weaver[f].state = "finished" THEN "done" ELSE "failed"
    /\ UNCHANGED <<world, reader, parser, aspectsOf, weaver, result>>

ParseStep(f) == ReadFile(f) \/ CheckApplicable(f) \/ FilterFile(f) \/ ParseFile(f)
WeaveStep(f) == Visit(f) \/ Finish(f) \/ WriteFails(f)
CallStep == InjectFiles \/ EndParsing \/ TypeCheck \/ Return

Returned == {"done", "failed", "unchanged"}
Done == stage \in Returned /\ UNCHANGED vars

WNext == CallStep \/ Done \/ \E f \in Files : ParseStep(f) \/ WeaveStep(f)

WSpec == WInit /\ [][WNext]_vars

-----------------------------------------------------------------------------
(***************************************************************************)
(* Properties.                                                              *)
(***************************************************************************)
Twice(op(_), w) == Value({op(v) : v \in {op(w)}})

\* The traversal of a file with every aspect of the configuration, by 128 steps
\* of which those after the last change nothing.  TLC's stack is no match for a
\* recursion as deep.
Unfiltered(f) ==
    LET all == [a \in Aspects |-> a]
        next(w) == IF w.state \in {"decls", "file"} THEN VisitNode(w, all) ELSE w
        four(w) == Twice(LAMBDA v : Twice(next, v), w)
        run(w) == Twice(LAMBDA v : Twice(four, v), w)
        long(w) == Twice(LAMBDA v : Twice(run, v), w)
    IN Twice(long, Start(f))

\* The filters of packages and files only save time: whatever goroutine came
\* first, each file is woven as if no aspect had been ruled out (fileFilterAspects
\* and packageFilterAspects, with mustParseAll read by other goroutines).
WovenAsIfUnfiltered ==
    /\ stage = "done" => \A f \in Files : weaver[f] = Finished(Unfiltered(f))
    /\ stage = "unchanged" /\ world.check # "error" =>
           \A f \in Files : Finished(Unfiltered(f)).applied = << >>

\* No advice is applied twice to a node, though declarations are added to the
\* list the cursor is in (the comment of applyAspects on synthetic imports).
EachNodeOnce ==
    \A f \in DOMAIN weaver : IsInjective(weaver[f].applied)

\* Where injected code refers to a package, the import that is retained has a
\* name, and nothing hides it there (AddImport, then canonicalizeImports).
InjectedNamesResolve ==
    \A f \in DOMAIN result.files : \A use \in weaver[f].uses :
        LET name == LocalName(Retained(weaver[f], use[2])) IN
        name # "_" /\ name \notin weaver[f].nodes[use[1]].shadows

\* Every package that woven code comes to refer to is one the build ID covers
\* (InjectedPaths), or one the package was compiled with anyway.
InjectedIsHashed ==
    \A f \in DOMAIN result.files :
        DOMAIN result.files[f] \subseteq InjectedPaths \cup world.pkg.importMap
                                        \cup {"unsafe", world.pkg.importPath}

\* What is woven for adv may need the language version of its template.
UsesTemplate(adv) ==
    CASE adv.kind \in {"add-struct-field", "replace-function", "add-blank-import"} -> FALSE
      [] adv.kind = "inject-declarations" -> adv.decls # << >>
      [] OTHER -> TRUE

\* The language version returned is enough for every template that was used,
\* in whatever order the files were finished.
LangCoversWoven ==
    stage = "done" =>
        \A f \in Files : \A k \in DOMAIN weaver[f].applied :
            LET adv == AdviceOf(weaver[f].applied[k][2]) IN
            UsesTemplate(adv) => adv.template.lang <= result.lang
=============================================================================

----------------------------- MODULE JoinPoints -----------------------------
(***************************************************************************)
(* Join points (internal/injector/aspect/join), the filters by which they   *)
(* are ruled out for a package or a file without parsing it (aspect/may),   *)
(* and the imports they take for granted.                                   *)
(*                                                                         *)
(* A join point refers to others by their index in `points`.  Syntax is     *)
(* what the join points tell apart: a file has a sequence of nodes, each    *)
(* with its kind, its parent (0 for the root), the property of the parent   *)
(* it stands in, and what the code reads of it.  A package comes with the   *)
(* segments of its import path, for glob patterns.                          *)
(***************************************************************************)
EXTENDS Naturals, Sequences, FiniteSets, SequencesExt, FiniteSetsExt

CONSTANTS
    NoType,     \* the type of an expression of which the type is not known
    points,     \* the join points of the configuration, children first
    RootModule  \* the segments of the path of the root module

IsSeq(s) == s \in Seq(Range(s))

\* The elements of seq that are in S, in their order.
Among(seq, S) ==
    LET kept[i \in 0..Len(seq)] ==
            IF i = 0 THEN << >>
            ELSE IF seq[i] \in S THEN Append(kept[i - 1], seq[i]) ELSE kept[i - 1]
    IN  kept[Len(seq)]

\* typed.TypeName; local and built-in types have the path "".
TypeName(ptr, path, name) == [ptr |-> ptr, path |-> path, name |-> name]
Named(path, name) == TypeName(FALSE, path, name)
EmptyInterface == Named("", "interface{}")

Unqualified(tn) == [tn EXCEPT !.path = ""]

\* TypeName.Matches, of a type expression.
TypeMatches(tn, expr) ==
    \/ expr = tn
    \/ expr = EmptyInterface /\ tn.path = "" /\ tn.name = "any"
    \/ /\ expr = [EmptyInterface EXCEPT !.ptr = TRUE]
       /\ tn = TypeName(TRUE, "", "any")

MatchesDefinition(tn, expr, importPath) ==
    tn.path = importPath /\ TypeMatches(Unqualified(tn), expr)

-----------------------------------------------------------------------------
\* may.MatchType
MatchTypes == {"Unknown", "Match", "NeverMatch"}

\* Mutant: what may match is taken to match, so that its negation never does.
NotTwoValued(m) == IF m = "NeverMatch" THEN "Match" ELSE "NeverMatch"

Not(m) == IF m = "NeverMatch" THEN "Match" ELSE "Unknown"

Or(l, r) ==
    IF "Match" \in {l, r} THEN "Match"
    ELSE IF {l, r} = {"NeverMatch"} THEN "NeverMatch" ELSE "Unknown"

And(l, r) ==
    IF "NeverMatch" \in {l, r} THEN "NeverMatch"
    ELSE IF {l, r} = {"Match"} THEN "Match" ELSE "Unknown"

\* The loops of one-of and all-of, which stop as soon as the sum is decided.
OrAll(ms) == IF "Match" \in ms THEN "Match"
             ELSE IF ms \subseteq {"NeverMatch"} THEN "NeverMatch" ELSE "Unknown"
AndAll(ms) == IF "NeverMatch" \in ms THEN "NeverMatch"
              ELSE IF ms \subseteq {"Match"} THEN "Match" ELSE "Unknown"

Decide(match) == IF match THEN "Match" ELSE "NeverMatch"

PackageImports(pkg, path) ==
    IF path = "" THEN "Unknown"
    ELSE Decide(path \in pkg.importMap \cup {pkg.importPath})

\* The empty string is found in no text (index/suffixarray).
FileContains(file, word) == Decide(word # "" /\ word \in file.words)

-----------------------------------------------------------------------------
(***************************************************************************)
(* Options of `function` join points.  A signature lists arguments and      *)
(* results; `interface` is the name of a type, as a TypeName.               *)
(***************************************************************************)
SignaturePaths(opt) == {tn.path : tn \in Range(opt.args) \cup Range(opt.results)}

\* signature-contains inherits it from signature.
OptionPackageMayMatch(opt, pkg) ==
    CASE opt.option \in {"signature", "signature-contains"} ->
           AndAll({PackageImports(pkg, path) : path \in SignaturePaths(opt)})
      [] opt.option = "receiver" -> Decide(opt.type.path = pkg.importPath)
      [] OTHER -> "Unknown"

OptionFileMayMatch(opt, file) ==
    CASE opt.option = "name" -> FileContains(file, opt.name)
      [] opt.option = "receiver" -> FileContains(file, opt.type.name)
      [] OTHER -> "Unknown"

OptionImplies(opt) ==
    CASE opt.option \in {"signature", "signature-contains"} ->
           LET types == opt.args \o opt.results
           IN Among([i \in DOMAIN types |-> types[i].path], SignaturePaths(opt) \ {""})
      [] opt.option = "receiver" -> <<opt.type.path>>
      [] opt.option = "argument-implements" /\ opt.interface.path # "" ->
           <<opt.interface.path>>
      [] OTHER -> << >>

SameTypes(tns, exprs) ==
    /\ Len(tns) = Len(exprs)
    /\ \A i \in DOMAIN tns : TypeMatches(tns[i], exprs[i])

ContainsAnyType(tns, exprs) ==
    \E tn \in Range(tns), expr \in Range(exprs) : TypeMatches(tn, expr)

\* implements is what go/types says, or the fallback by method names.
ExprImplements(implements, expr, interface) ==
    TypeMatches(interface, expr) \/ <<expr, interface>> \in implements

EvaluateOption(opt, pkg, implements, node) ==
    CASE opt.option = "name" -> node.name = opt.name
      [] opt.option = "receiver" ->
           node.recv # NoType /\ MatchesDefinition(opt.type, node.recv, pkg.importPath)
      [] opt.option = "has-receiver" -> (node.recv # NoType) = opt.has
      [] opt.option = "signature" ->
           SameTypes(opt.results, node.results) /\ SameTypes(opt.args, node.params)
      [] opt.option = "signature-contains" ->
           \/ ContainsAnyType(opt.results, node.results)
           \/ ContainsAnyType(opt.args, node.params)
      [] opt.option = "result-implements" ->
           \E expr \in Range(node.results) :
               ExprImplements(implements, expr, opt.interface)
      [] opt.option = "final-result-implements" ->
           /\ node.results # << >>
           /\ ExprImplements(implements, Last(node.results), opt.interface)
      [] opt.option = "argument-implements" ->
           \E expr \in Range(node.params) :
               ExprImplements(implements, expr, opt.interface)

\* What function options a configuration can hold.
IsOption(opt) ==
    CASE opt.option = "name" -> TRUE
      [] opt.option = "receiver" -> opt.type # NoType
      [] opt.option = "has-receiver" -> opt.has \in BOOLEAN
      [] opt.option \in {"signature", "signature-contains"} ->
           /\ IsSeq(opt.args) /\ IsSeq(opt.results)
           /\ NoType \notin Range(opt.args) \cup Range(opt.results)
      [] opt.option \in {"result-implements", "final-result-implements",
                         "argument-implements"} -> opt.interface.name # ""
      [] OTHER -> FALSE

-----------------------------------------------------------------------------
(***************************************************************************)
(* Nodes.  `form` is the operator of an expression or statement, the kind   *)
(* of the type of a TypeSpec, or the kind of the callee of a CallExpr.      *)
(***************************************************************************)
Nodes(file) == DOMAIN file.nodes
Child(file, n, prop) ==
    {c \in Nodes(file) : file.nodes[c].parent = n /\ file.nodes[c].prop = prop}
ParentIs(file, n, kind) ==
    LET p == file.nodes[n].parent IN p # 0 /\ file.nodes[p].kind = kind
UnderAddress(file, n) ==
    ParentIs(file, n, "UnaryExpr") /\ file.nodes[file.nodes[n].parent].form = "&"

Implied(path) == IF path = "" THEN << >> ELSE <<path>>

\* What is known of a join point before files are parsed.
Filter(implied, package, file) ==
    [implied |-> implied, package |-> package, file |-> file]

-----------------------------------------------------------------------------
(***************************************************************************)
(* The join points, each with its filter and with the nodes it matches.     *)
(***************************************************************************)
FunctionFilter(pt, pkg, file) ==
    Filter(FlattenSeq([i \in DOMAIN pt.options |-> OptionImplies(pt.options[i])]),
           AndAll({OptionPackageMayMatch(opt, pkg) : opt \in Range(pt.options)}),
           AndAll({OptionFileMayMatch(opt, file) : opt \in Range(pt.options)}))

\* A FuncLit has a blank name and no receiver.
FunctionMatches(pt, world, file, n) ==
    /\ file.nodes[n].kind \in {"FuncDecl", "FuncLit"}
    /\ \A opt \in Range(pt.options) :
           EvaluateOption(opt, world.pkg, world.implements, file.nodes[n])

FunctionBodyMatches(file, n, parentMatches) ==
    /\ parentMatches
    /\ file.nodes[n].prop = "Body"
    /\ ParentIs(file, n, "FuncDecl") \/ ParentIs(file, n, "FuncLit")

StructDefinitionFilter(pt, pkg, file) ==
    Filter(Implied(pt.type.path), Decide(pkg.importPath = pt.type.path),
           FileContains(file, "struct"))

StructDefinitionMatches(pt, pkg, node) ==
    /\ ~pt.type.ptr
    /\ node.kind = "TypeSpec" /\ node.name = pt.type.name /\ node.form = "StructType"
    /\ pkg.importPath = pt.type.path

StructLiteralFilter(pt, pkg) ==
    Filter(Implied(pt.type.path), PackageImports(pkg, pt.type.path), "Unknown")

MatchesLiteral(pt, node) ==
    node.kind = "CompositeLit" /\ TypeMatches(pt.type, node.type)

StructLiteralMatches(pt, file, n) ==
    LET node == file.nodes[n] IN
    IF pt.field # ""
    THEN /\ node.kind = "KeyValueExpr" /\ node.name = pt.field
         /\ node.parent # 0 /\ MatchesLiteral(pt, file.nodes[node.parent])
    ELSE CASE pt.match = "pointer-only" ->
                /\ node.kind = "UnaryExpr" /\ node.form = "&"
                /\ \E c \in Child(file, n, "X") : MatchesLiteral(pt, file.nodes[c])
           [] pt.match = "value-only" -> ~UnderAddress(file, n) /\ MatchesLiteral(pt, node)
           [] pt.match = "any" -> MatchesLiteral(pt, node)

MethodCallFilter(pt, pkg, file) ==
    Filter(Implied(pt.type.path), PackageImports(pkg, pt.type.path),
           FileContains(file, pt.name))

\* node.selected is what go/types says of the expression the method is called on.
MethodCallMatches(pt, node) ==
    /\ node.kind = "CallExpr" /\ node.form = "SelectorExpr" /\ node.name = pt.name
    /\ node.selected # NoType
    /\ pt.match # "any" => node.selected.ptr = (pt.match = "pointer-only")
    /\ [node.selected EXCEPT !.ptr = FALSE] = pt.type

\* A call x.f() has the path of x if x is an identifier, of which "" is local.
FunctionCallFilter(pt, pkg, file) ==
    Filter(<<pt.path>>, PackageImports(pkg, pt.path), FileContains(file, pt.name))

FunctionCallMatches(pt, node) ==
    /\ node.kind = "CallExpr" /\ node.form \in {"Ident", "SelectorExpr"}
    /\ node.path = pt.path /\ node.name = pt.name

DeclarationOfFilter(pt, pkg, file) ==
    Filter(<<pt.path>>, PackageImports(pkg, pt.path), FileContains(file, pt.name))

DeclarationOfMatches(pt, pkg, file, n) ==
    LET node == file.nodes[n] IN
    /\ pkg.importPath = pt.path
    /\ \/ node.kind = "FuncDecl" /\ node.name = pt.name
       \/ /\ node.kind = "ValueSpec" /\ ParentIs(file, n, "GenDecl")
          /\ pt.name \in node.names

ValueDeclarationFilter(pt, pkg) ==
    Filter(Implied(pt.type.path), PackageImports(pkg, pt.type.path), "Unknown")

\* A declaration without a type matches whatever type is asked for.
ValueDeclarationMatches(pt, file, n) ==
    LET node == file.nodes[n] IN
    /\ node.kind = "ValueSpec" /\ ParentIs(file, n, "GenDecl")
    /\ node.type = NoType \/ TypeMatches(pt.type, node.type)

DirectiveFilter(pt, file) ==
    Filter(<< >>, "Unknown", Decide(pt.name \in file.directives))

\* Where a node takes over the directives of its parent.
InheritsDirectives(node, parent) ==
    \/ node.kind \in {"ValueSpec", "TypeSpec", "ImportSpec"}
    \/ /\ parent.kind = "AssignStmt"
       /\ node.prop = "Rhs" \/ (parent.form = ":=" /\ node.prop = "Lhs")
    \/ parent.kind = "CallExpr" /\ node.prop = "Fun"
    \/ parent.kind = "SendStmt" /\ node.prop = "Value"
    \/ parent.kind \in {"DeferStmt", "ExprStmt", "GoStmt", "ReturnStmt"}

DirectiveMatches(pt, file, n) ==
    LET chain[m \in Nodes(file)] ==
            LET node == file.nodes[m] IN
            \/ pt.name \in node.directives
            \/ /\ node.parent # 0
               /\ InheritsDirectives(node, file.nodes[node.parent])
               /\ chain[node.parent]
    IN chain[n]

ImportPathFilter(pt, pkg) ==
    Filter(<<pt.name>>, Decide(pkg.importPath = pt.name), "Unknown")

PackageNameFilter(pt, file) ==
    Filter(<< >>, "Unknown", Decide(file.packageName = pt.name))

TestMainFilter(pt, pkg) ==
    Filter(<< >>, Decide(pkg.testMain = pt.value), "Unknown")

ConfigurationMatches(pt, config) ==
    \A k \in DOMAIN pt.settings : k \in DOMAIN config /\ config[k] = pt.settings[k]

-----------------------------------------------------------------------------
(***************************************************************************)
(* Glob patterns of package-filter, with `prefix**` already split in two:   *)
(* a pattern segment is a globstar or the set of the names it matches.      *)
(***************************************************************************)
GlobStar == [globstar |-> TRUE, names |-> {}]
Name(names) == [globstar |-> FALSE, names |-> names]
Anything == <<Name({"*"})>>

MatchSegments(pattern, path) ==
    LET match[i \in 1..Len(pattern) + 1, j \in 1..Len(path) + 1] ==
            IF i > Len(pattern) THEN j = Len(path) + 1
            ELSE IF pattern[i].globstar
            THEN \/ i = Len(pattern)
                 \/ \E k \in j..Len(path) + 1 : match[i + 1, k]
            ELSE /\ j <= Len(path)
                 /\ pattern[i].names = {"*"} \/ path[j] \in pattern[i].names
                 /\ match[i + 1, j + 1]
    IN match[1, 1]

InRootModule(segments) == IsPrefix(RootModule, segments)

RelativePath(segments) ==
    IF segments = RootModule THEN <<".">>
    ELSE SubSeq(segments, Len(RootModule) + 1, Len(segments))

MatchesPattern(pt, pkg) ==
    /\ pt.root => InRootModule(pkg.segments)
    /\ IF pt.pattern = << >> THEN pt.root
       ELSE \/ pt.pattern = Anything
            \/ MatchSegments(pt.pattern, IF pt.root THEN RelativePath(pkg.segments)
                                         ELSE pkg.segments)

PackageFilterFilter(pt, pkg) == Filter(<< >>, Decide(MatchesPattern(pt, pkg)), "Unknown")

-----------------------------------------------------------------------------
(***************************************************************************)
(* Compositions.                                                            *)
(***************************************************************************)
NotFilter(f) == Filter(<< >>, Not(f.package), Not(f.file))

\* A path is implied if it is implied as often as there are candidates.
Occurrences(paths, path) == Cardinality({i \in DOMAIN paths : paths[i] = path})

\* Mutant: what any candidate implies is taken to be imported.
OneOfImpliesAny(lists) == FlattenSeq(lists)

OneOfImplies(lists) ==
    LET all == FlattenSeq(lists) IN
    SetToSeq({path \in Range(all) : Occurrences(all, path) = Len(lists)})

OneOfFilter(fs) ==
    Filter(OneOfImplies([i \in DOMAIN fs |-> fs[i].implied]),
           OrAll({f.package : f \in Range(fs)}), OrAll({f.file : f \in Range(fs)}))

AllOfFilter(fs) ==
    Filter(FlattenSeq([i \in DOMAIN fs |-> fs[i].implied]),
           AndAll({f.package : f \in Range(fs)}), AndAll({f.file : f \in Range(fs)}))

OneOfMatches(ms) == TRUE \in ms
AllOfMatches(ms) == ms = {TRUE}

PointKinds == {"not", "one-of", "all-of", "function-body", "function", "struct-definition",
               "struct-literal", "method-call", "function-call", "declaration-of",
               "value-declaration", "directive", "import-path", "package-name",
               "package-filter", "test-main", "configuration"}

\* The join points that one is composed of.
Compositions == {"one-of", "all-of", "not", "function-body"}

Parts(pt) == IF pt.kind \in Compositions THEN pt.of ELSE << >>

\* Point.ImpliesImported, PackageMayMatch and FileMayMatch, from those of its parts.
FilterOf(pt, of, pkg, file) ==
    CASE pt.kind = "not" -> NotFilter(of[1])
      [] pt.kind = "one-of" -> OneOfFilter(of)
      [] pt.kind = "all-of" -> AllOfFilter(of)
      [] pt.kind = "function-body" -> of[1]
      [] pt.kind = "function" -> FunctionFilter(pt, pkg, file)
      [] pt.kind = "struct-definition" -> StructDefinitionFilter(pt, pkg, file)
      [] pt.kind = "struct-literal" -> StructLiteralFilter(pt, pkg)
      [] pt.kind = "method-call" -> MethodCallFilter(pt, pkg, file)
      [] pt.kind = "function-call" -> FunctionCallFilter(pt, pkg, file)
      [] pt.kind = "declaration-of" -> DeclarationOfFilter(pt, pkg, file)
      [] pt.kind = "value-declaration" -> ValueDeclarationFilter(pt, pkg)
      [] pt.kind = "directive" -> DirectiveFilter(pt, file)
      [] pt.kind = "import-path" -> ImportPathFilter(pt, pkg)
      [] pt.kind = "package-name" -> PackageNameFilter(pt, file)
      [] pt.kind = "package-filter" -> PackageFilterFilter(pt, pkg)
      [] pt.kind = "test-main" -> TestMainFilter(pt, pkg)
      [] pt.kind = "configuration" -> Filter(<< >>, "Unknown", "Unknown")

Filters(pkg, file) ==
    LET filter[p \in DOMAIN points] ==
            FilterOf(points[p],
                     [i \in DOMAIN Parts(points[p]) |-> filter[Parts(points[p])[i]]], pkg, file)
    IN filter

\* Point.Matches at node n, from what its parts match here and at the parent node.
MatchOf(pt, here, above, world, file, n, main) ==
    LET node == file.nodes[n] IN
    CASE pt.kind = "not" -> ~here[1]
      [] pt.kind = "one-of" -> OneOfMatches(Range(here))
      [] pt.kind = "all-of" -> AllOfMatches(Range(here))
      [] pt.kind = "function-body" -> node.parent # 0 /\ FunctionBodyMatches(file, n, above)
      [] pt.kind = "function" -> FunctionMatches(pt, world, file, n)
      [] pt.kind = "struct-definition" -> StructDefinitionMatches(pt, world.pkg, node)
      [] pt.kind = "struct-literal" -> StructLiteralMatches(pt, file, n)
      [] pt.kind = "method-call" -> MethodCallMatches(pt, node)
      [] pt.kind = "function-call" -> FunctionCallMatches(pt, node)
      [] pt.kind = "declaration-of" -> DeclarationOfMatches(pt, world.pkg, file, n)
      [] pt.kind = "value-declaration" -> ValueDeclarationMatches(pt, file, n)
      [] pt.kind = "directive" -> DirectiveMatches(pt, file, n)
      [] pt.kind = "import-path" -> world.pkg.importPath = pt.name
      [] pt.kind = "package-name" -> file.packageName = pt.name
      [] pt.kind = "package-filter" -> MatchesPattern(pt, world.pkg)
      [] pt.kind = "test-main" -> main = pt.value
      [] pt.kind = "configuration" -> ConfigurationMatches(pt, world.config)

\* The context of a parent (context.Parent) does not say whether the package is a test
\* main.
Matches(world, file) ==
    LET match[at \in (DOMAIN points) \X Nodes(file) \X BOOLEAN] ==
            LET p == at[1]
                n == at[2]
                of == Parts(points[p])
            IN MatchOf(points[p], [i \in DOMAIN of |-> match[<<of[i], n, at[3]>>]],
                       match[<<of[1], file.nodes[n].parent, FALSE>>], world, file, n, at[3])
    IN match

-----------------------------------------------------------------------------
(***************************************************************************)
(* Files that the Go parser and type checker let through.                   *)
(***************************************************************************)
IsTree(file) ==
    \A n \in Nodes(file) : file.nodes[n].parent \in {0} \cup Nodes(file)

\* The path of a package that may be referred to, or none.
Known(pkg, path) == path = "" \/ path \in pkg.importMap \cup {pkg.importPath}

\* Names are words of the text, and what is referred to is imported.
IsWellFormed(pkg, file) ==
    \A n \in Nodes(file) :
        LET node == file.nodes[n] IN
        /\ node.kind = "TypeSpec" /\ node.form = "StructType" => "struct" \in file.words
        /\ node.kind = "FuncDecl" => node.name \in file.words
        /\ node.kind = "ValueSpec" => node.names \subseteq file.words
        /\ node.kind = "CallExpr" /\ node.form \in {"Ident", "SelectorExpr"} =>
               node.name \in file.words /\ Known(pkg, node.path)
        /\ node.kind = "CompositeLit" /\ node.type # NoType => Known(pkg, node.type.path)

-----------------------------------------------------------------------------
(***************************************************************************)
(* What the unmarshalers of join points let through.                        *)
(***************************************************************************)
IsStructLiteral(pt) ==
    /\ pt.type # NoType
    /\ pt.match \in {"any", "value-only", "pointer-only"}
    /\ pt.field # "" => pt.match = "any"

IsMethodCall(pt) ==
    /\ pt.match \in {"any", "value-only", "pointer-only"}
    /\ pt.name # "" /\ ~pt.type.ptr

IsPackageFilter(pt) == pt.pattern # << >> \/ pt.root

IsSymbol(pt) == pt.name # ""

\* A one-of or all-of of a single join point is that join point.
IsComposition(p) ==
    LET of == Parts(points[p]) IN
    /\ IsSeq(of)
    /\ \A i \in DOMAIN of : of[i] \in 1..p - 1
    /\ points[p].kind \in {"one-of", "all-of"} => Len(of) # 1
    /\ points[p].kind \in {"not", "function-body"} => Len(of) = 1

ASSUME PointsAssumption ==
    \A p \in DOMAIN points :
        LET pt == points[p] IN
        /\ p \in Nat /\ 1..p \subseteq DOMAIN points
        /\ pt.kind \in PointKinds
        /\ pt.kind \in Compositions => IsComposition(p)
        /\ pt.kind = "function" =>
               IsSeq(pt.options) /\ \A opt \in Range(pt.options) : IsOption(opt)
        /\ pt.kind = "struct-definition" => ~pt.type.ptr
        /\ pt.kind = "struct-literal" => IsStructLiteral(pt)
        /\ pt.kind = "method-call" => IsMethodCall(pt)
        /\ pt.kind \in {"function-call", "declaration-of"} => IsSymbol(pt)
        /\ pt.kind = "package-filter" => IsPackageFilter(pt)
=============================================================================

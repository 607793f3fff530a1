------------------------------ MODULE MCWeave ------------------------------
(* Instances of Weave: package app, of the root module, which imports net.  *)
EXTENDS Weave

Unknown == TypeName(FALSE, "?", "")
Client == Named("net", "Client")
T == Named("app", "T")
Error == Named("", "error")

MCBlank == [kind |-> "", parent |-> 0, prop |-> "", name |-> "", names |-> {},
            form |-> "", type |-> Unknown, recv |-> Unknown, params |-> << >>,
            results |-> << >>, path |-> "", selected |-> Unknown, directives |-> {},
            ignored |-> FALSE, shadows |-> {}, ellipsis |-> FALSE]

Node(kind, parent, prop) ==
    [MCBlank EXCEPT !.kind = kind, !.parent = parent, !.prop = prop]
FuncDecl(parent, name) == [Node("FuncDecl", parent, "Decls") EXCEPT !.name = name]
GetCall(parent) ==
    [Node("CallExpr", parent, "X") EXCEPT !.form = "SelectorExpr", !.path = "net", !.name = "Get"]
ClientLit(parent, prop) == [Node("CompositeLit", parent, prop) EXCEPT !.type = Client]

Call(path, name) == [kind |-> "function-call", path |-> path, name |-> name]
Options(options) == [kind |-> "function", options |-> options]
Option(option) == [option |-> option, name |-> "", type |-> Unknown, has |-> TRUE,
                   args |-> << >>, results |-> << >>, interface |-> Error]
Literal(match, field) ==
    [kind |-> "struct-literal", type |-> Client, match |-> match, field |-> field]

MCPoints ==
 << Call("net", "Get"),                                                      \*  1
    [kind |-> "method-call", type |-> Client, name |-> "Do", match |-> "any"],
    [kind |-> "import-path", name |-> "net"],
    [kind |-> "not", of |-> <<3>>],
    [kind |-> "all-of", of |-> <<1, 4>>],                                    \*  5
    Options(<<[Option("name") EXCEPT !.name = "main"]>>),
    [kind |-> "function-body", of |-> <<6>>],
    [kind |-> "struct-definition", type |-> T],
    Literal("pointer-only", ""),
    Literal("any", "Timeout"),                                               \* 10
    [kind |-> "declaration-of", path |-> "app", name |-> "V"],
    [kind |-> "value-declaration", type |-> Client],
    [kind |-> "directive", name |-> "trace"],
    [kind |-> "one-of", of |-> <<1, 2>>],
    [kind |-> "test-main", value |-> FALSE],                                 \* 15
    [kind |-> "package-name", name |-> "main"],
    [kind |-> "package-filter", root |-> TRUE, pattern |-> << >>],
    [kind |-> "configuration", settings |-> [level |-> "on"]],
    [kind |-> "all-of", of |-> <<14, 15, 16, 17, 18>>],
    [kind |-> "not", of |-> <<2>>],                                          \* 20
    [kind |-> "all-of", of |-> <<14, 20>>],
    Options(<<[Option("receiver") EXCEPT !.type = [T EXCEPT !.ptr = TRUE]],
              Option("has-receiver"), Option("final-result-implements"),
              [Option("signature") EXCEPT !.args = <<Client>>, !.results = <<Error>>]>>),
    [kind |-> "function-body", of |-> <<22>>],
    Literal("value-only", ""),
    Options(<<[Option("name") EXCEPT !.name = "injected"], Option("has-receiver")>>), \* 25
    [kind |-> "not", of |-> <<25>>],
    [kind |-> "all-of", of |-> <<6, 26>>],
    Options(<<[Option("name") EXCEPT !.name = "other"]>>),
    [kind |-> "function-body", of |-> <<28>>],
    [kind |-> "package-filter", root |-> FALSE,                               \* 30
     pattern |-> <<Name({"com"}), GlobStar, Name({"app", "tool"})>>],
    [kind |-> "one-of", of |-> <<1, 13>>],
    [kind |-> "all-of", of |-> <<30, 31>>],
    Options(<<Option("result-implements")>>),
    [kind |-> "function-body", of |-> <<33>>],
    Literal("any", ""),                                                      \* 35
    Call("log", "Print"),
    [kind |-> "one-of", of |-> <<1, 36>>] >>

-----------------------------------------------------------------------------
WordsOf(nodes) ==
    UNION {{nd.name, nd.type.name, nd.recv.name} \cup nd.names \cup nd.directives
               \cup {nd.form} : nd \in Range(nodes)} \cup {"struct"}

File(nodes, decls, imports, size) ==
    [nodes |-> nodes, decls |-> decls, imports |-> imports, size |-> size,
     words |-> WordsOf(nodes), packageName |-> "main", broken |-> "no",
     directives |-> UNION {nd.directives : nd \in Range(nodes)}]

Import(path) == [path |-> path, alias |-> ""]

\* A struct, a variable with a directive, and main, where a variable is named log.
MainFile == File(
 << [Node("TypeSpec", 2, "Specs") EXCEPT !.name = "T", !.form = "StructType"],
    Node("GenDecl", 14, "Decls"),
    Node("BasicLit", 4, "Value"),
    [Node("KeyValueExpr", 5, "Elts") EXCEPT !.name = "Timeout"],
    ClientLit(6, "Values"),
    [Node("ValueSpec", 7, "Specs") EXCEPT !.names = {"V"}, !.type = Client],
    [Node("GenDecl", 14, "Decls") EXCEPT !.directives = {"trace"}],
    GetCall(9),
    Node("ExprStmt", 12, "List"),
    [Node("CallExpr", 11, "X") EXCEPT !.form = "SelectorExpr", !.name = "Do",
        !.selected = [Client EXCEPT !.ptr = TRUE], !.ellipsis = TRUE],
    Node("ExprStmt", 12, "List"),
    [Node("BlockStmt", 13, "Body") EXCEPT !.shadows = {"log"}],
    FuncDecl(14, "main"),
    Node("File", 0, "") >>, <<2, 7, 13>>, <<Import("net"), Import("log")>>, 2)

\* A method, and a function that is not to be woven.
HelperFile == File(
 << ClientLit(2, "X"),
    [Node("UnaryExpr", 3, "Results") EXCEPT !.form = "&"],
    Node("ReturnStmt", 4, "List"),
    Node("BlockStmt", 5, "Body"),
    [FuncDecl(10, "helper") EXCEPT !.recv = TypeName(TRUE, "", "T"),
        !.params = <<Client>>, !.results = <<Error>>],
    GetCall(7),
    Node("ExprStmt", 8, "List"),
    Node("BlockStmt", 9, "Body"),
    [FuncDecl(10, "quiet") EXCEPT !.ignored = TRUE],
    Node("File", 0, "") >>, <<5, 9>>, <<Import("net")>>, 1)

\* A method is called on what a function of another package returns.
DoFile == File(
 << [Node("CallExpr", 2, "X") EXCEPT !.form = "SelectorExpr", !.name = "Do",
        !.selected = [Client EXCEPT !.ptr = TRUE]],
    Node("ExprStmt", 3, "List"),
    Node("BlockStmt", 4, "Body"),
    FuncDecl(5, "main"),
    Node("File", 0, "") >>, <<4>>, <<Import("log")>>, 1)

\* A call of something else.
LogFile == File(
 << [GetCall(2) EXCEPT !.path = "log", !.name = "Print"],
    Node("ExprStmt", 3, "List"),
    Node("BlockStmt", 4, "Body"),
    FuncDecl(5, "log"),
    Node("File", 0, "") >>, <<4>>, <<Import("log")>>, 1)

\* A file that imports nothing.
OtherFile == File(
 << Node("BlockStmt", 2, "Body"),
    FuncDecl(3, "other"),
    Node("File", 0, "") >>, <<2>>, << >>, 1)

-----------------------------------------------------------------------------
Template(imports, lang) ==
    [imports |-> imports, fails |-> FALSE, yields |-> "CallExpr", lang |-> lang]
Used(path) == [path |-> path, name |-> path]

Advice(kind, template) ==
    [kind |-> kind, template |-> template, decls |-> << >>, links |-> << >>, path |-> "",
     name |-> "", namespace |-> 9, order |-> 0]
Prepend(path, lang) == Advice("prepend-statements", Template(<<Used(path)>>, lang))
Wrap(path, lang) == Advice("wrap-expression", Template(<<Used(path)>>, lang))
Append1(path, lang) ==
    [Advice("append-args", Template(<<Used(path)>>, lang)) EXCEPT !.path = "opt"]
Assign(path) == Advice("assign-value", Template(<<Used(path)>>, 0))
Field(path) == [Advice("add-struct-field", Template(<< >>, 0)) EXCEPT !.path = path]
Replace(path) == [Advice("replace-function", Template(<< >>, 0))
                     EXCEPT !.path = path, !.name = "Get"]
Blank(path) == [Advice("add-blank-import", Template(<< >>, 0)) EXCEPT !.path = path]
\* func injected() { net.Get() }, or main, with a go:linkname
Inject(name) ==
    [Advice("inject-declarations", Template(<<Used("net")>>, 1)) EXCEPT
        !.decls = <<GetCall(2), Node("ExprStmt", 3, "List"), Node("BlockStmt", 4, "Body"),
                    FuncDecl(0, name)>>,
        !.links = <<"rt", "net">>]

Aspect(p, advice) == [point |-> p, advice |-> advice]

World(files, aspects) ==
    [pkg |-> [importPath |-> "app", importMap |-> {"net", "log"}, testMain |-> FALSE,
              segments |-> <<"com", "app">>],
     implements |-> {<<Error, Error>>}, config |-> [level |-> "on"],
     files |-> files, aspects |-> aspects, check |-> "ok"]

Trace == Aspect(5, <<Append1("trace", 2)>>)
Body == Aspect(7, <<Prepend("log", 1), [Prepend("trace", 3) EXCEPT !.order = 1,
                                           !.namespace = 2]>>)

Selected ==
    LET base == World(<<MainFile, HelperFile>>, <<Trace, Body, Aspect(11, <<Assign("rt")>>)>>)
        broken(how) == [base EXCEPT !.files[2].broken = how]
        explicit == [HelperFile EXCEPT !.imports = <<[path |-> "net", alias |-> "n"],
                                                     [path |-> "log", alias |-> "_"]>>]
    IN { base, [base EXCEPT !.files[2].size = 9],
         broken("unreadable"), broken("clause"), broken("body"),
         [base EXCEPT !.check = "error"], [base EXCEPT !.check = "newer"],
         [base EXCEPT !.pkg.importPath = "net"], [base EXCEPT !.pkg.importPath = ""],
         [base EXCEPT !.files[1].nodes[14].ignored = TRUE],
         World(<<OtherFile, HelperFile, MainFile>>,
               <<Aspect(29, <<Prepend("log", 1)>>), Aspect(23, <<Prepend("trace", 2)>>)>>),
         World(<<MainFile, OtherFile>>,
               <<Aspect(27, <<Inject("injected")>>), Aspect(14, <<Append1("trace", 0)>>),
                 Aspect(10, <<Wrap("rt", 0)>>)>>),
         World(<<MainFile, HelperFile>>,
               <<Aspect(19, <<Wrap("trace", 1)>>), Aspect(21, <<Replace("opt")>>)>>),
         World(<<MainFile, explicit>>,
               <<Aspect(8, <<Field("net")>>), Aspect(9, <<Wrap("net", 2)>>),
                 Aspect(24, <<Wrap("log", 1)>>), Aspect(10, <<Wrap("trace", 0), Blank("rt")>>),
                 Aspect(34, <<Prepend("log", 1)>>)>>),
         World(<<MainFile, HelperFile>>,
               <<Aspect(12, <<Assign("trace")>>), Aspect(13, <<Blank("rt")>>),
                 Aspect(32, <<Blank("net"), Blank("_")>>)>>),
         World(<<MainFile, OtherFile>>,
               <<Aspect(35, <<[Wrap("trace", 1) EXCEPT !.template.fails = TRUE]>>)>>),
         [World(<<LogFile>>, <<Aspect(37, <<Append1("net", 1)>>)>>)
             EXCEPT !.pkg.importMap = {"log"}],
         World(<<OtherFile, MainFile>>, <<Aspect(28, <<Wrap("trace", 1)>>)>>) }

\* Each join point by itself, in app, in net, and in the main package of tests.
Single ==
    {[World(<<MainFile, HelperFile>>, <<Aspect(p, <<Blank("trace")>>)>>) EXCEPT
         !.pkg.importPath = path, !.pkg.testMain = main] :
        p \in DOMAIN MCPoints, path \in {"app", "net"}, main \in BOOLEAN}

MCWorlds == Selected \cup Single

\* main has an import that is known by the name a variable has there.
Explicit == [MainFile EXCEPT !.imports = <<Import("net"), [path |-> "log", alias |-> "log"]>>]
MCShadowed == {World(<<Explicit, HelperFile>>, <<Trace, Body>>)}

\* app does not import the package of the type the method is called on.
MCTransitive ==
    {[World(<<DoFile>>, <<Aspect(2, <<Wrap("trace", 1)>>)>>) EXCEPT !.pkg.importMap = {"log"}]}

MCRoot == <<"com">>
=============================================================================

----------------------------- MODULE MCBuildID -----------------------------
(* Instances of BuildID: configurations that differ in one field of a join    *)
(* point or of an advice, and two modules, of which one imports the other.    *)
EXTENDS BuildID

Tn(ptr, path, name) == [ptr |-> ptr, path |-> path, name |-> name]
T == Tn(FALSE, "app", "T")
Option(option) == [option |-> option, name |-> "n", type |-> T, has |-> TRUE,
                   args |-> << >>, results |-> << >>, interface |-> Tn(FALSE, "", "error")]
Options(options) == [kind |-> "function", options |-> options]
Literal(match, field) == [kind |-> "struct-literal", type |-> T, match |-> match, field |-> field]
Method(name, match) == [kind |-> "method-call", type |-> T, name |-> name, match |-> match]
Filtered(root, text) == 
    [kind |-> "package-filter", root |-> root, pattern |-> Anything, text |-> text]

MCPoints ==
 << [kind |-> "import-path", name |-> "n"],
    [kind |-> "not", of |-> <<1>>],
    [kind |-> "one-of", of |-> <<1, 2>>],
    [kind |-> "all-of", of |-> <<1, 2>>],
    [kind |-> "one-of", of |-> <<2, 1>>],
    Options(<<Option("name")>>),
    [kind |-> "function-body", of |-> <<6>>],
    Options(<<Option("receiver")>>),
    Options(<<Option("has-receiver")>>),
    Options(<<[Option("has-receiver") EXCEPT !.has = FALSE]>>),
    Options(<<[Option("signature") EXCEPT !.args = <<T>>]>>),
    Options(<<[Option("signature") EXCEPT !.results = <<T>>]>>),
    Options(<<[Option("signature-contains") EXCEPT !.results = <<T>>]>>),
    Options(<<Option("argument-implements")>>),
    Options(<<Option("final-result-implements")>>),
    Options(<<Option("name"), Option("argument-implements")>>),
    Literal("any", ""), Literal("value-only", ""), Literal("any", "n"),
    Method("n", "any"), Method("n", "pointer-only"),
    [kind |-> "struct-definition", type |-> T],
    [kind |-> "value-declaration", type |-> T],
    [kind |-> "value-declaration", type |-> [T EXCEPT !.ptr = TRUE]],
    [kind |-> "value-declaration", type |-> [T EXCEPT !.path = ""]],
    [kind |-> "function-call", path |-> "app", name |-> "n"],
    [kind |-> "declaration-of", path |-> "app", name |-> "n"],
    [kind |-> "directive", name |-> "n"],
    Filtered(TRUE, ""), Filtered(FALSE, "n"),
    [kind |-> "test-main", value |-> TRUE], [kind |-> "test-main", value |-> FALSE],
    [kind |-> "configuration", settings |-> [k1 |-> "n", k2 |-> ""]],
    [kind |-> "configuration", settings |-> [k1 |-> "", k2 |-> "n"]],
    [kind |-> "package-name", name |-> "m"] >>

\* The name of a package and an import path that are the same.
MCCollision == [MCPoints EXCEPT ![35].name = "n"]

Template(imports, source, lang) == [imports |-> imports, source |-> source, lang |-> lang]
Plain == Template([k1 |-> "lib"], "s", "")
Prepend(template, order, namespace) ==
    [kind |-> "prepend-statements", template |-> template, order |-> order, namespace |-> namespace]
MCAdvice ==
 << Prepend(Plain, 0, ""), Prepend(Plain, 1, ""), Prepend(Plain, 0, "n"),
    Prepend(Template([k1 |-> "lib"], "s", "go1.18"), 0, ""),
    Prepend(Template([k2 |-> "lib"], "s", ""), 0, ""),
    [kind |-> "wrap-expression", template |-> Plain],
    [kind |-> "assign-value", template |-> Plain],
    [kind |-> "append-args", type |-> T, templates |-> <<Plain, Plain>>],
    [kind |-> "append-args", type |-> T, templates |-> <<Plain>>],
    [kind |-> "inject-declarations", links |-> <<"lib">>, template |-> Plain],
    [kind |-> "inject-declarations", links |-> << >>, template |-> Plain],
    [kind |-> "add-struct-field", name |-> "n", type |-> T],
    [kind |-> "replace-function", path |-> "lib", name |-> "n"],
    [kind |-> "add-blank-import", path |-> "lib"] >>

Aspect(point, advice) ==
    [id |-> "a", internal |-> FALSE, point |-> point, advice |-> advice, paths |-> <<"lib">>]

MCConfigs ==
    << << >>, <<[Aspect(1, <<MCAdvice[1]>>) EXCEPT !.internal = TRUE]>>,
       <<Aspect(1, <<MCAdvice[1]>>), Aspect(2, <<MCAdvice[1]>>)>>,
       <<Aspect(2, <<MCAdvice[1]>>), Aspect(1, <<MCAdvice[1]>>)>>,
       <<Aspect(1, <<MCAdvice[1], MCAdvice[14]>>)>> >>
    \o [p \in 1..35 |-> <<Aspect(p, <<MCAdvice[1]>>)>>]
    \o [a \in 1..13 |-> <<Aspect(1, <<MCAdvice[a + 1]>>)>>]

Package(module, imports, go, embed, other) ==
    [module |-> module, imports |-> imports, GoFiles |-> go, EmbedFiles |-> embed, OtherFiles |-> other]
MCPackages ==
    [lib |-> Package("lib", {"dep", "std"}, {"lib.go"}, {"lib.txt"}, {"lib.s"}),
     dep |-> Package("dep", {"std"}, {"dep.go"}, {}, {}),
     std |-> Package("", {}, {"std.go"}, {}, {})]
MCOrder == <<"dep", "dep.go", "k1", "k2", "lib", "lib.go", "lib.s", "lib.txt">>

Binary(tag, version, sum) ==
    [info |-> TRUE, tag |-> tag, version |-> version, replace |-> "nil",
     vcsModified |-> FALSE, readable |-> TRUE, sum |-> sum]
Release == Binary("v1", "v1", "s1")
\* Two releases; a modified tree, two development trees, one that cannot be read.
MCReleased == {Release, Binary("v2", "v2", "s2"),
               [Binary("v1", "v1", "s3") EXCEPT !.vcsModified = TRUE],
               Binary("v1", "(devel)", "s4"), Binary("v1", "", "s5"),
               [Binary("v1", "", "s6") EXCEPT !.readable = FALSE]}
\* Orchestrion replaced by a directory, which is edited, and by a fork; the directory
\* with modifications; an executable without build information.
MCReplaced == {[Binary("v1", "v1", "s7") EXCEPT !.replace = "(devel)"],
               [Binary("v1", "v1", "s8") EXCEPT !.replace = "(devel)"],
               [Binary("v1", "v1", "s9") EXCEPT !.replace = "v9"],
               [Binary("v1", "v1", "s10") EXCEPT !.replace = "(devel)", !.vcsModified = TRUE],
               [Binary("v1", "", "s11") EXCEPT !.info = FALSE]}
MCBinaries == MCReleased \union MCReplaced

Source(from, version, fork) == [from |-> from, version |-> version, fork |-> fork]
Proxy == Source("proxy", "v1", "")
Directory == Source("directory", "v1", "")
Workspace == Source("workspace", "", "")
MCSources == {Proxy, Directory, Workspace, Source("proxy", "v2", ""),
              Source("fork", "v1", "v1"), Source("fork", "v1", "v2")}

Disk(config, lib, dep, binary) ==
    [config |-> config, files |-> [f \in {"lib.go", "lib.txt", "lib.s", "dep.go"} |-> "old"],
     modules |-> [lib |-> lib, dep |-> dep], binary |-> binary]
MCDisks == {Disk(c, Proxy, Directory, Release) : c \in DOMAIN MCConfigs}
           \union {Disk(6, Directory, Proxy, Release), Disk(6, Workspace, Directory, Release)}
           \union {Disk(6, Proxy, Proxy, b) : b \in MCBinaries \ {Release}}

=============================================================================

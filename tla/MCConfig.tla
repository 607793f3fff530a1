------------------------------ MODULE MCConfig ------------------------------
(* Instances of Config: the root package, two packages a and b, the built-in  *)
(* one, and a file x that no package owns.                                    *)
EXTENDS Config

Orchestrion == "orchestrion"
Imports(seq) == [state |-> "ok", imports |-> seq]
NoTool(state) == [state |-> state, imports |-> << >>]
Exts(seq) == [state |-> "ok", extends |-> seq, aspects |-> TRUE]
NoAspects(seq) == [Exts(seq) EXCEPT !.aspects = FALSE]
Dir(p) == [is |-> "dir", name |-> p]
File(f) == [is |-> "file", name |-> f]
Missing == [is |-> "missing", name |-> ""]
Bad(state) == [Exts(<< >>) EXCEPT !.state = state]

RootTools == {Imports(<<"a", "b">>), Imports(<<Orchestrion, "b">>), NoTool("notExist")}
ATools == {Imports(<< >>), Imports(<<"b", Orchestrion>>), Imports(<<"root">>), NoTool("error")}
BTools == {Imports(<<Orchestrion, "a">>), NoTool("notExist")}
RootYmls == {Exts(<<File("x"), Dir("b")>>), Bad("notExist")}
AYmls == {Exts(<<Dir("b")>>), Bad("error"), NoAspects(<< >>)}
BYmls == {Exts(<<File("a"), File("x")>>), Exts(<<Missing>>)}
XYmls == {Exts(<<File("root")>>), Bad("notExist"), Bad("invalid")}

World(call, none, tools, ymls) ==
    [root |-> "root", call |-> call, validate |-> call = "HasConfig", noGoFiles |-> none,
     tool |-> [root |-> tools[1], a |-> tools[2], b |-> tools[3], orchestrion |-> NoTool("notExist")],
     yml |-> [root |-> ymls[1], a |-> ymls[2], b |-> ymls[3], x |-> ymls[4],
              orchestrion |-> Bad("notExist")]]

\* A package root without .go files, one whose YAML file has no aspects and is met while the
\* imports are loaded, and worlds where package b may have none.
MCWorlds ==
    {World(call, {"root"}, <<NoTool("notExist"), NoTool("notExist"), NoTool("notExist")>>,
           <<Bad("notExist"), Bad("notExist"), Bad("notExist"), Bad("notExist")>>)
     : call \in {"Load", "HasConfig"}}
    \union
    {World("HasConfig", {}, <<Imports(<<"a">>), NoTool("notExist"), NoTool("notExist")>>,
           <<NoAspects(<< >>), NoAspects(exts), Bad("notExist"), Bad("notExist")>>)
     : exts \in {<< >>, <<File("root")>>, <<Dir("root")>>}}
    \union
    {World(c[1], c[2], tools, ymls)
     : c \in {<<"Load", {}>>, <<"HasConfig", {}>>, <<"Load", {"b"}>>},
       tools \in RootTools \X ATools \X BTools,
       ymls \in RootYmls \X AYmls \X BYmls \X XYmls}

=============================================================================

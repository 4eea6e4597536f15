----------------------------- MODULE MCToolchain -----------------------------
EXTENDS Toolchain

Tool(id, actions, risk) == [id |-> id, actions |-> actions, risk |-> risk]
Doc(tools, constraints, keys) ==
    [name |-> "ok", version |-> "ok", framework |-> "crewai", tools |-> tools,
     constraints |-> constraints, keys |-> keys]

GetNote    == Tool(<<<<"ns">>, <<"get", "note">>>>, {"read"}, "read_public")
GetNote2   == Tool(<<<<"ns">>, <<"get">>, <<"note">>>>, {"read"}, "read_public")
Refund     == Tool(<<<<"ns">>, <<"refund">>>>, {"write"}, "move_money")
First      == Tool(<<<<"1st">>, <<"get">>>>, {"read"}, "read_public")
None       == [x \in {} |-> {}]

MCTemplates ==
    {Doc(<<GetNote>>, None, {}), Doc(<<GetNote, GetNote2>>, None, {}), Doc(<<First, First>>, None, {}),
     Doc(<<Refund>>, Refund.id :> {"max_"}, {}), Doc(<<Refund>>, Refund.id :> {"max_", "ciba_"}, {}),
     Doc(<<GetNote>>, None, {[authority |-> TRUE, depth |-> 1]})}

Name(words, odd) == [words |-> words, odd |-> odd]
MCNameLists ==
    {<<Name(<<"get", "note">>, FALSE), Name(<<"get", "note">>, TRUE)>>,
     <<Name(<<"create", "refund">>, FALSE), Name(<<>>, TRUE), Name(<<"1st">>, FALSE)>>}
MCOptions == {[name |-> "ok", version |-> v, framework |-> "crewai"] : v \in {"ok", "bad", "digits"}}

Py == File("py", "app")
Plain == (Main :> Py) @@ (<<"app.py">> :> Py) @@ (<<"old.pyz">> :> File("pyz", "app"))
MCProjects ==
    {Plain, Plain @@ (<<"bin", "keep">> :> File("script", "app")),
     Without(Plain, {Main}) @@ (<<"bin", "dep">> :> File("script", "app"))}
MCRequirements == {{}, {"dep"}, {"lib"}, {"dep", "ext"}}
MCDists == ("dep" :> {"script"}) @@ ("lib" :> {}) @@ ("ext" :> {"native"})

Entry(path, imports) ==
    [path |-> path, dir |-> FALSE, link |-> FALSE, suffix |-> ".py", size |-> 1,
     function |-> "no_arguments", imports |-> imports]
Dir(path) == [Entry(path, {}) EXCEPT !.dir = TRUE, !.suffix = "", !.size = 0]
Import(top) == [top |-> top, sub |-> "", dotted |-> FALSE]
Upload(entries) == [regular |-> TRUE, bounded |-> TRUE, entries |-> entries]
MCZips ==
    {Upload(<<Entry(Main, {Import("app")}), Entry(<<"app", "run.py">>, {Import("json")}), Dir(<<"app">>)>>),
     Upload(<<Entry(<<"app.py">>, {}), Entry(Main, {Import("other")})>>),
     Upload(<<Entry(<<"app.py">>, {}), Entry(Main, {})>>),
     Upload(<<Entry(<<"app.py">>, {[top |-> "hawcx_haap", sub |-> "cli", dotted |-> TRUE]})>>),
     Upload(<<Entry(<<"app.py">>, {[top |-> "hawcx_haap", sub |-> "ipc", dotted |-> TRUE]})>>),
     Upload(<<Entry(<<"a", "b", "c.py">>, {}), [Entry(<<"a">>, {}) EXCEPT !.suffix = ".txt"]>>),
     Upload(<<Dir(<<"a">>), Entry(<<"a">>, {})>>),
     Upload(<<Entry(<<"json", "x.py">>, {})>>)}
MCMains == {"none", "app"}
Symmetry == Permutations(Procs)
=============================================================================

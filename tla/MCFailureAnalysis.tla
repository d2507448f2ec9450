--------------------------- MODULE MCFailureAnalysis ---------------------------
(* FailureAnalysis on four source trees with the four kinds of manifests:    *)
(* packages that need each other, two packages of one name, a package that   *)
(* names itself as an extra, directories that are not entered, files that    *)
(* are no manifests and blocks of a go.mod that require nothing.             *)
EXTENDS FailureAnalysis
CONSTANTS noName, broken, noManifest, nan, posInf, negInf, noNode, noFile

Root == <<"repo">>
In(dir, name, content) == [dir |-> Root \o dir, name |-> name, content |-> content]

Cargo(name, deps, dev) ==
    [name |-> name, dependencies |-> deps, devDependencies |-> dev, buildDependencies |-> <<>>]
Project(name, deps, optional) ==
    [project |-> [name |-> name, dependencies |-> deps, optional |-> optional],
     poetry |-> [name |-> noName, dependencies |-> <<>>, devDependencies |-> <<>>]]
Poetry(name, deps, dev) ==
    [project |-> [name |-> noName, dependencies |-> <<>>, optional |-> <<>>],
     poetry |-> [name |-> name, dependencies |-> deps, devDependencies |-> dev]]

Cyclic ==
    {In(<<"a">>, "Cargo.toml", Cargo("a", <<"b", "c">>, <<>>)),
     In(<<"a", "c">>, "Cargo.toml", Cargo("c", <<"d">>, <<>>)),
     In(<<"a", "c", "d">>, "Cargo.toml", Cargo("d", <<"e">>, <<>>)),
     In(<<"b">>, "Cargo.toml", Cargo("b", <<>>, <<"a", "e">>)),
     In(<<"b", "tests">>, "Cargo.toml", Cargo(noName, <<>>, <<>>)),
     In(<<"target", "e">>, "Cargo.toml", Cargo("e", <<"a">>, <<>>))}
SameName ==
    {In(<<"x", "app">>, "requirements.txt",
        <<<<"#", "web">>, <<"lib", ">", "=", "2">>, <<>>, <<"-", "r">>, <<"web", ";">>>>),
     In(<<"y", "app">>, "requirements.txt", <<<<"lib">>>>),
     In(<<"lib">>, "pyproject.toml", Poetry("lib", <<"python", "web">>, <<"tests">>))}
SelfNamed ==
    {In(<<>>, "pyproject.toml",
        Project("lib", <<<<"web", "[", "fast">>, <<"web">>>>,
                <<<<<<"lib", "[", "web">>>>, <<<<"app">>>>>>)),
     In(<<>>, "setup.py", broken),
     In(<<".venv", "web">>, "pyproject.toml", Poetry("web", <<>>, <<>>)),
     In(<<"app">>, "pyproject.toml", broken)}
Modules ==
    {In(<<>>, "go.mod",
        <<<<"module", "m">>, <<"require", "x", "v1">>, <<>>,
          <<"require", "(">>, <<"y", "v1">>, <<"//", "old">>, <<"z", "v1">>, <<")">>,
          <<"replace", "(">>, <<"y", "=>", "x">>, <<")">>>>),
     In(<<"m">>, "Cargo.toml", Cargo("y", <<"x">>, <<>>)),
     In(<<"m", "t">>, "Cargo.toml", Cargo("x", <<>>, <<>>))}

MCTrees == {Cyclic, SameName, SelfNamed, Modules}
MCLanguages == {"rust", "go", "python"}
MCHidden == {".git", ".venv"}
MCVectors == {<<0, negInf>>, <<2, 1>>, <<5, -3>>, <<1, nan>>, <<posInf, 0>>}
MCTemplates == {Cargo("x", <<>>, <<>>)}
MCCommitted ==
    {Root \o file : file \in {<<"m.py">>, <<"lib", "m.py">>, <<"lib", "pkg", "m.py">>,
                              <<"app", "m.py">>}}

Names(form, names) == [form |-> form, names |-> names]
Line(double, single) == [double |-> double, single |-> single]
Text(lines) == [m4 |-> FALSE, notFound |-> FALSE, lines |-> lines]
NotFound == [m4 |-> FALSE, notFound |-> TRUE, lines |-> <<>>]
MCPrints ==
    [command \in {"cargo", "setup", "pip3", "compileall"} |->
        CASE command = "cargo" ->
                [fails |-> {Text(<<>>)}, succeeds |-> {Text(<<>>)}]
          [] command = "compileall" ->
                [fails |-> {Text(<<Line(noFile, noFile), Line(Names("dotted", <<"m.py">>), noFile)>>),
                            Text(<<Line(noFile, Names("dotted", <<"pkg", "m.py">>)),
                                   Line(Names("dotted", <<"m.py">>), noFile)>>)},
                 succeeds |-> {Text(<<>>)}]
          [] OTHER ->
                [fails |-> {Text(<<Line(Names("outside", <<"setup.py">>), noFile)>>),
                            Text(<<Line(Names("plain", <<"m.py">>), Names("dotted", <<"m.py">>))>>),
                            Text(<<Line(Names("inside", <<"pkg", "m.py">>), noFile)>>),
                            [NotFound EXCEPT !.m4 = TRUE]},
                 succeeds |-> {Text(<<>>), NotFound}]]
=============================================================================

-------------------------- MODULE MCSubclassScan --------------------------
(* Small projects and searches for SubclassScan: a package `app` with a      *)
(* directory `sub` that may be a package of its own.                         *)
EXTENDS SubclassScan, TLC

CONSTANTS t1, t2

MCThreads == {t1, t2}
MCSymmetry == Permutations(MCThreads)

Plain == [kind |-> "pass", name |-> "", as |-> "", of |-> <<>>, level |-> 0, bases |-> {},
          scope |-> <<>>, blocks |-> {}, value |-> ""]
Class(name, bases) == [Plain EXCEPT !.kind = "class", !.name = name, !.bases = bases]
Within(s, block) == [s EXCEPT !.blocks = {block}]
Import(of) == [Plain EXCEPT !.kind = "import", !.of = of, !.as = Head(of)]
ImportAs(of, as) == [Plain EXCEPT !.kind = "import_as", !.of = of, !.as = as]
From(level, of, name, as) ==
  [Plain EXCEPT !.kind = "from", !.level = level, !.of = of, !.name = name, !.as = as]
Assign(name, value) == [Plain EXCEPT !.kind = "assign", !.name = name, !.value = value]
Text(body) == [parses |-> TRUE, body |-> body]
Broken == [parses |-> FALSE, body |-> <<Class("Lost", {<<"Base">>})>>]

InitExports == Text(<<From(1, <<"base">>, "Base", "Base"), Assign("NAME", "app"), Assign("PROJECT", "app")>>)
InitSkips == Text(<<From(1, <<"base">>, "Base", "Base"), Assign("SKIP_SUBCLASS_SEARCH", "True"), Assign("NAME", "app")>>)
BaseText == Text(<<Import(<<"lib">>), Class("Base", {<<"lib", "Root">>})>>)
MidRelative == Text(<<From(1, <<"base">>, "Base", "B"), Class("Mid", {<<"B">>})>>)
MidAliased == Text(<<ImportAs(<<"app", "base">>, "b"), Within(Class("Mid", {<<"b", "Base">>}), "try")>>)
MidDotted == Text(<<Import(<<"app", "base">>), Class("Mid", {<<"app", "base", "Base">>}), Class("Base", {<<"Mid">>})>>)
SubClimbs == Text(<<Assign("NAME", "sub"), Assign("SKIP_ENTRYPOINT_MARKER", "True")>>)
SubSkips == Text(<<Assign("SKIP_SUBCLASS_SEARCH", "True"), Assign("SKIP_CONSTANT_SEARCH", "True"),
                   Assign("SKIP_ENTRYPOINT_MARKER", "True"), Assign("NAME", "sub")>>)
SubMain == Text(<<Within(Assign("NAME", "main"), "main"), Within(Assign("NAME", "def"), "def")>>)
\* Conf also holds a class whose base is the one before it; Ours names its base
\* through the package that re-exports it.
ConfText == Text(<<From(2, <<"mid">>, "Mid", "Mid"), From(0, <<"lib">>, "Root", "Root"),
                   From(0, <<"app">>, "Base", "Shown"), Class("Ours", {<<"Shown">>}),
                   Class("Conf", {<<"Mid">>, <<"Root">>}), Within(Class("Hidden", {<<"Mid">>}), "def"),
                   [Class("Inner", {<<"Mid">>}) EXCEPT !.scope = <<"Conf">>],
                   [Class("Twin", {<<"Inner">>}) EXCEPT !.scope = <<"Conf">>]>>)

A(name) == <<"app", name>>
S(name) == <<"app", "sub", name>>
Loose(init, mid) == (A("__init__") :> init) @@ (A("base") :> BaseText) @@ (A("mid") :> mid)
                      @@ (S("__main__") :> SubMain) @@ (S("conf") :> ConfText)
Package(init, mid, sub) == (S("__init__") :> sub) @@ Loose(init, mid)

MCProjects ==
  {Package(InitSkips, MidRelative, SubClimbs), Package(InitExports, MidDotted, SubSkips),
   Package(InitExports, Broken, Broken), Loose(InitExports, MidAliased)}
MCReexporting == {Package(InitExports, MidRelative, SubClimbs)}

Base == <<"app", "base", "Base">>
Query(kind, base) == [kind |-> kind, caller |-> S("conf"), main |-> S("__main__"), root |-> <<"app">>,
                      base |-> base, fallback |-> FALSE, unlimited |-> TRUE, limit |-> 0, name |-> "NAME"]
MCRequests ==
  {Query("local", Base),
   [Query("local", <<"other", "Base">>) EXCEPT !.fallback = TRUE],
   [Query("below", <<"lib", "Root">>) EXCEPT !.unlimited = FALSE, !.limit = 2],
   Query("constant", <<>>),
   [Query("constant", <<>>) EXCEPT !.main = A("mid"), !.name = "PROJECT"]}
=============================================================================

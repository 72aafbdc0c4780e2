----------------------------- MODULE MCPrepare -----------------------------
(***************************************************************************)
(* Small instance of Prepare: package p (file 1), its test variant (with   *)
(* the test files 2 and 3, one of which exports a helper to the external   *)
(* tests), those external tests (file 4), and a package of another module. *)
(* What they call, their directives, methods that share the name of a test *)
(* or of the helper and the order in which files are listed vary.  One     *)
(* case has a package with a cgo file, whose syntax tree is that of cgo's  *)
(* output and claims the original, and two generated files that claim the  *)
(* same grammar file.                                                      *)
(***************************************************************************)
EXTENDS Prepare

MCPaths == {"p", "p_test", "x", "c"}
MCNames == {"f", "helper", "TestP", "TestE", "Run"}
MCIdents == {"p", "engine"}
MCTestFiles == {2, 3, 4}
MCBaseOf == <<"p.go", "export_test.go", "p_test.go", "e_test.go", "x.go",
             "c.go", "c.cgo1.go", "gotypes.go", "y1.go", "y2.go", "grammar.y">>
MCTypes == {"FuncDecl", "BinaryExpr", "Other"}

Local(path, n) == [qual |-> NoIdent, name |-> n, target |-> <<path, n>>]
OfP(n) == [qual |-> "p", name |-> n, target |-> <<"p", n>>]
\* A call of a local variable that has the name of a function.
Variable(n) == [qual |-> NoIdent, name |-> n, target |-> NoTarget]
Run == [qual |-> "engine", name |-> "Run", target |-> EngineRun]

Func(n, pos, calls) == [name |-> n, pos |-> pos, top |-> TRUE, calls |-> calls,
                        test |-> FALSE, directives |-> {}]
Test(n, pos, calls, directives) ==
    [Func(n, pos, calls) EXCEPT !.test = TRUE, !.directives = directives]
Method(n, pos, calls, directives) ==
    [Func(n, pos, calls) EXCEPT !.top = FALSE, !.directives = directives]

N(depth, type) == [depth |-> depth, type |-> type, name |-> NoFunc]
F(depth, name) == [depth |-> depth, type |-> "FuncDecl", name |-> name]
Tree(at, imports, decls, nodes) ==
    [at |-> at, aliases |-> [i \in imports |-> i], decls |-> decls, nodes |-> nodes]

\* package p; func f() { ... a + (b + c) ... }; var v = a + b
NodesOfP == <<N(1, "Other"), F(2, "f"), N(3, "Other"), N(4, "BinaryExpr"), N(5, "BinaryExpr"),
              N(2, "Other"), N(3, "BinaryExpr")>>
NodesOfTest == <<N(1, "Other"), F(2, "TestP"), N(3, "BinaryExpr")>>

Raw(id, path, imports, main, errors, goFiles, syntax) ==
    [id |-> id, path |-> path, imports |-> imports, main |-> main, errors |-> errors,
     goFiles |-> goFiles, compiled |-> goFiles, syntax |-> syntax]

CgoPackage ==
    [Raw(5, "c", {}, TRUE, FALSE, <<6, 9, 10>>,
         <<Tree(8, {}, <<>>, NodesOfP), Tree(6, {}, <<Func("f", 6, {})>>, NodesOfP),
           Tree(11, {}, <<>>, NodesOfP), Tree(11, {}, <<>>, NodesOfP)>>)
     EXCEPT !.compiled = <<7, 8, 9, 10>>]

Load(c) ==
    LET p == Tree(1, {}, <<Func("f", 1, c.f)>> \o c.shadow, NodesOfP)
        export == Tree(2, {}, <<Func("helper", 2, c.helper)>>, NodesOfTest)
        testP == Tree(3, {}, <<Test("TestP", 3, c.testP, c.directives)>> \o c.method, NodesOfTest)
        testE == Tree(4, {"p"}, <<Test("TestE", 5, c.testE, {})>>, NodesOfTest)
    IN  << Raw(1, "p", {}, TRUE, FALSE, <<1>>, <<p>>),
           Raw(2, "p", {}, TRUE, FALSE, c.listed, <<p, export, testP>>),
           Raw(3, "p_test", {"p"}, TRUE, FALSE, <<4>>, <<testE>>),
           Raw(4, "x", {}, FALSE, c.errors, <<5>>,
               <<Tree(5, {}, <<Func("f", 1, {Run})>>, NodesOfP)>>) >>
        \o c.more

Cases(fs, shadows, helpers, testPs, directivess, methods, testEs, listeds, errors, mores) ==
    [f : fs, shadow : shadows, helper : helpers, testP : testPs, directives : directivess,
     method : methods, testE : testEs, listed : listeds, errors : errors, more : mores]

MCLoads ==
    {Load(c) :
        c \in Cases({{}, {Run}, {Local("p", "f")}}, {<<>>},
                    {{Local("p", "f")}, {Run}},
                    {{Local("p", "helper")}, {Variable("f")}},
                    {{}, {"include"}, {"exclude"}, {"include", "exclude"}},
                    {<<>>, <<Method("TestP", 4, {}, {})>>, <<Method("TestP", 4, {Run}, {})>>,
                     <<Method("TestP", 4, {Run}, {"include"})>>},
                    {{OfP("helper")}, {OfP("f"), Variable("f")}},
                    {<<1, 2, 3>>, <<3, 1, 2, 1>>},
                    {FALSE}, {<<>>})}
    \cup {Load(c) :
        c \in Cases({{}}, {<<>>, <<Method("helper", 7, {}, {})>>}, {{Run}}, {{}}, {{}}, {<<>>},
                    {{OfP("helper")}}, {<<1, 2, 3>>}, BOOLEAN, {<<CgoPackage>>})}
=============================================================================

---------------------------- MODULE MCSelection ----------------------------
(***************************************************************************)
(* Small instance of Selection: package p with its test variant, package q *)
(* and the test variant of a package r.  Which of them import which, what  *)
(* the functions call, whether p has a method that shares the name of a    *)
(* function, whether the test in r may reach that method dynamically, and  *)
(* which packages type-check, all vary; f and g may be recursive.          *)
(***************************************************************************)
EXTENDS Selection

MCPaths == {"p", "q", "r"}
MCNames == {"f", "g", "h", "TestP", "TestR"}
MCTestNames == {"TestP", "TestR"}
MCIdents == {"p", "q"}
MCModes == {"auto", "cha", "ast"}   \* rta tries what auto tries

Local(n) == [qual |-> "none", name |-> n, target |-> <<"p", n>>]
\* x.n() is typed as a call of a function only if x is imported.
Of(x, n, imports) == [qual |-> x, name |-> n,
                      target |-> IF x \in imports THEN <<x, n>> ELSE NoTarget]
Decl(n, pos, top, calls) == [name |-> n, pos |-> pos, top |-> top, calls |-> calls]
Files(test, imports, decls) ==
    << [test |-> test, aliases |-> [x \in imports |-> x], decls |-> decls] >>

MCPackages(fCalls, method, testP, q, testR, r) ==
    LET p == Files(FALSE, {},
                   <<Decl("f", 1, TRUE, fCalls), Decl("g", 2, TRUE, {Local("f")})>>
                   \o (IF method THEN <<Decl("g", 3, FALSE, {})>> ELSE <<>>))
    IN  << [id |-> 1, path |-> "p", imports |-> {}, files |-> p],
           [id |-> 2, path |-> "p", imports |-> {},
            files |-> p \o Files(TRUE, {}, <<Decl("TestP", 4, TRUE, testP)>>)],
           [id |-> 3, path |-> "q", imports |-> q,
            files |-> Files(FALSE, q, <<Decl("h", 5, TRUE, {Of("p", "f", q)})>>)],
           [id |-> 4, path |-> "r", imports |-> r,
            files |-> Files(TRUE, r, <<Decl("TestR", 6, TRUE,
                                            {Of(c[1], c[2], r) : c \in testR})>>)] >>

\* The static calls: what a call is typed as, in the variant that is linked.
Static(pkgs) ==
    LET all == UNION {{[id |-> p.id, path |-> p.path, d |-> d] : d \in Decls(p)} :
                      p \in Packages(pkgs)}
        Linked(c, e) == e.id = IF c.path = e.path THEN c.id ELSE Min(IdsOf(pkgs, e.path))
        MayCall(c, e) == /\ e.d.top /\ Linked(c, e)
                        /\ \E call \in c.d.calls : call.target = <<e.path, e.d.name>>
    IN  {<<<<x[1].id, x[1].d.pos>>, <<x[2].id, x[2].d.pos>>>> :
            x \in {y \in all \X all : MayCall(y[1], y[2])}}

\* A test in r may call the method through an interface; it is then reached in
\* both variants.
Dynamic == {<<<<4, 6>>, <<v, 3>>>> : v \in {1, 2}}

MCProject(pkgs, dynamic, untyped) ==
    LET typed == {e \in Static(pkgs) : e[1][1] \notin untyped /\ e[2][1] \notin untyped}
    IN  [pkgs |-> pkgs, untyped |-> untyped,
         graph |-> [rta |-> typed,
                    cha |-> typed \cup (IF dynamic /\ untyped = {} THEN Dynamic ELSE {})]]

\* All type-check but perhaps r; in one project none does.
MCProjects ==
    {MCProject(MCPackages(fCalls, m # "none", testP, i[1], testR, i[2]), m = "dynamic", untyped) :
        fCalls \in {{}, {Local("g")}},
        m \in {"none", "static", "dynamic"},
        testP \in {{}, {Local("g")}},
        testR \in {{}, {<<"q", "h">>}, {<<"p", "g">>}},
        i \in {<<{}, {"q"}>>, <<{"p"}, {"q"}>>, <<{"p"}, {"p"}>>},
        untyped \in {{}, {4}}}
    \cup {MCProject(MCPackages({}, FALSE, {Local("g")}, {"p"}, {<<"q", "h">>}, {"q"}), FALSE, 1..4)}
=============================================================================

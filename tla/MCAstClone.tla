----------------------------- MODULE MCAstClone -----------------------------
(***************************************************************************)
(* A small file with a comment before it: a commented function whose body  *)
(* defers a call f(?f()?), in which f is a variable that has the name of a *)
(* swap's function, and evaluates p.f[T, T](p.f(b), b), where p.f is that one. *)
(* Both T are one node, and both b, as in a test of DeepCopyNode.  A call may *)
(* stand where an expression may, but only a call can be deferred; the node *)
(* around the inner f() is of a kind that one release knows and one does not, *)
(* so that the failures happen too.                                        *)
(***************************************************************************)
EXTENDS AstClone

Slot(t, n) == [type |-> t, kid |-> n]
Leaf(kind, tag) == [kind |-> kind, tag |-> tag, slots |-> <<>>]
Inner(kind, tag, slots) == [kind |-> kind, tag |-> tag, slots |-> slots]

MCLoaded ==
    << Inner("File", "file", <<Slot("comments", 2), Slot("comments", 4), Slot("decl", 3),
                               Slot("doc", 2), Slot("unresolved", 14)>>),
       Leaf("CommentGroup", "doc"),
       Inner("FuncDecl", "func", <<Slot("stmt", 5), Slot("stmt", 6), Slot("doc", 4)>>),
       Leaf("CommentGroup", "doc of func"),
       Inner("DeferStmt", "defer", <<Slot("call", 7)>>),
       Inner("ExprStmt", "stmt", <<Slot("expr", 8)>>),
       Inner("CallExpr", "call", <<Slot("odd", 10), Slot("expr", 9)>>),
       Inner("CallExpr", "call", <<Slot("expr", 17), Slot("expr", 18), Slot("expr", 12)>>),
       Leaf("Ident", "f"),
       Inner("Odd", "odd", <<Slot("expr", 11)>>),
       Inner("CallExpr", "call", <<Slot("expr", 22)>>),
       Inner("IndexListExpr", "index", <<Slot("expr", 16), Slot("expr", 16), Slot("expr", 13)>>),
       Inner("SelectorExpr", "select", <<Slot("ident", 15), Slot("expr", 14)>>),
       Leaf("Ident", "p"), Leaf("Ident", "f"), Leaf("Ident", "T"),
       Inner("CallExpr", "call", <<Slot("expr", 18), Slot("expr", 19)>>),
       Leaf("Ident", "b"),
       Inner("SelectorExpr", "select", <<Slot("ident", 21), Slot("expr", 20)>>),
       Leaf("Ident", "p"), Leaf("Ident", "f"),
       Leaf("Ident", "f") >>

MCDenotesFrom == {15, 21}

Exprs == {"CallExpr", "Ident", "IndexListExpr", "SelectorExpr"}
MCAssignable ==
    [decl |-> {"FuncDecl"}, stmt |-> {"DeferStmt", "ExprStmt"}, call |-> {"CallExpr"},
     expr |-> Exprs, ident |-> {"Ident"}, odd |-> {"Odd"}, doc |-> {"CommentGroup"},
     comments |-> {"CommentGroup"}, unresolved |-> {"Ident"}]

MCUnwalked == {"comments", "unresolved"}

Known == {"File", "CommentGroup", "FuncDecl", "DeferStmt", "ExprStmt"} \cup Exprs
MCReleases == {Known, Known \cup {"Odd"}}
MCTargets == {"File", "DeferStmt", "CallExpr", "Odd"}

\* All positions, level by level.
Deeper(positions) ==
    UNION {{Append(pos, k) : k \in DOMAIN MCLoaded[At(MCLoaded, 1, pos)].slots} : pos \in positions}
MCPositions ==
    LET at[k \in 0 .. 7] == IF k = 0 THEN {<<>>} ELSE Deeper(at[k - 1])
    IN  UNION {at[k] : k \in 0 .. 7}
=============================================================================

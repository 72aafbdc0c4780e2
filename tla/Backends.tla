------------------------------ MODULE Backends ------------------------------
(***************************************************************************)
(* The selector's backends, as graphs of callers: the AST backend, which   *)
(* resolves calls by their syntax (buildReverseCallers in select.go), and  *)
(* the RTA and CHA backends, which search a call graph of SSA functions    *)
(* (ssa_context.go, backend_cha.go, backend_rta.go).                       *)
(*                                                                         *)
(* The SSA program has a function for each declaration of each variant of  *)
(* a package, known here by the package's ID and the position of the       *)
(* declaration.  The call graphs come from golang.org/x/tools; they are    *)
(* part of a project and may be any.                                       *)
(***************************************************************************)
EXTENDS Calls

CONSTANT NoFunc     \* the enclosing function of a point outside any function

\* A project: its packages, the IDs of those without an SSA package because
\* something they import does not type-check (loading fails if it is one of
\* themselves), and for each of the two analyses the calls it finds, as
\* <<caller, callee>> pairs.
IsProject(pr) ==
    /\ ArePackages(pr.pkgs)
    /\ pr.untyped \subseteq {pkg.id : pkg \in Packages(pr.pkgs)}
    /\ \A kind \in {"rta", "cha"} : \A e \in pr.graph[kind] : Len(e) = 2

-----------------------------------------------------------------------------
(***************************************************************************)
(* The AST backend: buildReverseCallers.                                   *)
(***************************************************************************)

\* The files' maps from identifier to path are merged, and the last file that
\* has an identifier wins.
MergedAliases(pkg) ==
    LET Files(x) == {f \in DOMAIN pkg.files : x \in DOMAIN pkg.files[f].aliases}
    IN  [x \in {y \in Idents : Files(y) # {}} |-> pkg.files[Max(Files(x))].aliases[x]]

\* Declarations with one key overwrite each other: the last one's body counts.
Body(pkg, name) ==
    LET InFile(f) == {d \in DOMAIN pkg.files[f].decls : pkg.files[f].decls[d].name = name}
        file == Max({f \in DOMAIN pkg.files : InFile(f) # {}})
    IN  pkg.files[file].decls[Max(InFile(file))].calls

ASTCallers(pr, key) ==
    UNION {{<<pkg.id, name>> :
               name \in {n \in DeclNames(pkg) :
                            \E call \in Body(pkg, n) :
                                key \in BySyntax(pr.pkgs, pkg.id, call, MergedAliases(pkg), AnyKey)}} :
           pkg \in Packages(pr.pkgs)}

-----------------------------------------------------------------------------
(***************************************************************************)
(* The SSA backends: buildSSAContext, resolveSeeds and                     *)
(* buildReverseFromCallGraph.                                              *)
(***************************************************************************)

\* ssautil.AllPackages makes a package for those that type-check.
SSAPackages(pr) == {pkg \in Packages(pr.pkgs) : pkg.id \notin pr.untyped}

SSAFunctions(pr) == UNION {{<<pkg.id, d.pos>> : d \in Decls(pkg)} : pkg \in SSAPackages(pr)}

\* ssa.Package.Func finds functions, not methods.
Func(pr, id, name) ==
    UNION {{<<id, d.pos>> : d \in {e \in Decls(pkg) : e.top /\ e.name = name}} :
           pkg \in {q \in SSAPackages(pr) : q.id = id}}

\* The functions of a declaration in all variants of its package (declToFunc).
DeclToFunc(pr, pos) == {f \in SSAFunctions(pr) : f[2] = pos}

\* Seeded bug: only the function in the point's own variant is a seed.
BugSeeds(pr, point) == Func(pr, point.id, point.func)

\* resolveSeeds: the function of that name in the point's own variant, which for
\* a method is another one if it exists, and all those of the enclosing
\* declaration.  (ssa.EnclosingFunction, too, is asked, but given the path from
\* the file down where it expects it from the node up: it finds one of these or
\* nothing.)
Seeds(pr, point) == Func(pr, point.id, point.func) \cup DeclToFunc(pr, point.pos)

\* All functions of a call graph; it also has some that are no declaration, such
\* as function literals and wrappers.
GraphFunctions(pr, kind) == SSAFunctions(pr) \cup UNION {{e[1], e[2]} : e \in pr.graph[kind]}

GraphCallers(pr, kind, f) == {e[1] : e \in {c \in pr.graph[kind] : c[2] = f}}

-----------------------------------------------------------------------------
(***************************************************************************)
(* Where a backend's search begins, whom it visits from a function, and    *)
(* which function a test is.                                               *)
(***************************************************************************)
StartOf(pr, backend, point) ==
    CASE point.func = NoFunc -> {}
      [] point.func # NoFunc /\ backend = "ast" -> {<<point.id, point.func>>}
      [] OTHER -> Seeds(pr, point)

CallersOf(pr, backend, f) ==
    IF backend = "ast" THEN ASTCallers(pr, f) ELSE GraphCallers(pr, backend, f)

\* testsByFn: a test in a package without an SSA package is none of its
\* functions, and never reached.
FuncsOfTest(pr, backend, t) ==
    IF backend = "ast" THEN {<<t.id, t.name>>} ELSE Func(pr, t.id, t.name)

\* Seeded bug: CHA, too, wants an SSA package.
BugCanBuild(pr, kind) == kind = "ast" \/ SSAPackages(pr) # {}

\* newRTABackend and newCHABackend fail without packages; RTA also without
\* roots, which are the tests and the init function of every SSA package.
CanBuild(pr, kind) ==
    CASE kind = "ast" -> TRUE
      [] kind = "cha" -> pr.pkgs # <<>>
      [] kind = "rta" -> SSAPackages(pr) # {}

\* backendBuildOrder.
BuildOrder ==
    [auto |-> <<"rta", "cha", "ast">>, rta |-> <<"rta", "cha", "ast">>,
     cha  |-> <<"cha", "ast">>,        ast |-> <<"ast">>]
=============================================================================

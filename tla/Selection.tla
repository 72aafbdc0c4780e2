----------------------------- MODULE Selection -----------------------------
(***************************************************************************)
(* Test selection for one mutation point: the choice of a backend          *)
(* (NewSelectorWithOptions, internal/selection/selector.go) and            *)
(* Selector.Select with the backend's search for candidate tests and       *)
(* reverseDependers (select.go, backend_cha.go).                           *)
(***************************************************************************)
EXTENDS Backends

CONSTANTS
    TestNames,  \* the names of tests: TestXxx
    Modes,      \* the call graph modes that may be asked for
    Projects    \* the projects that may have been loaded

ASSUME ProjectsAssumption == \A pr \in Projects : IsProject(pr)
ASSUME NamesAssumption == TestNames \subseteq Names /\ NoFunc \notin Names
ASSUME ModesAssumption == Modes \subseteq DOMAIN BuildOrder

VARIABLES
    project, tests, mode, point,
    phase,
    failures,           \* the kinds of backend that could not be built
    backend,            \* the kind that was
    allowed, pkgQueue,  \* reverseDependers: the paths seen, those still queued
    funcs, funcQueue,   \* candidateTests: the same for functions
    candidate,
    selected            \* ByImportPath: for each path the names of its tests

vars == <<project, tests, mode, point, phase, failures, backend, allowed, pkgQueue,
          funcs, funcQueue, candidate, selected>>
input == <<project, tests, mode, point>>

\* The tests Discover may return; it leaves out any that reach Engine.Run or
\* that a directive excludes.
Tests(pr) ==
    UNION {{[id |-> pkg.id, path |-> pkg.path, name |-> d.name] :
                d \in {e \in Decls(pkg) : e.top /\ e.name \in TestNames}} :
           pkg \in Packages(pr.pkgs)}

\* The points Collect may return: in some declaration of a file that is no test
\* file, or in none.
Points(pr) ==
    LET In(pkg, f) ==
            {[id |-> pkg.id, path |-> pkg.path, func |-> pkg.files[f].decls[d].name,
              pos |-> pkg.files[f].decls[d].pos] : d \in DOMAIN pkg.files[f].decls}
            \cup {[id |-> pkg.id, path |-> pkg.path, func |-> NoFunc, pos |-> 0]}
    IN  UNION {UNION {In(pkg, f) : f \in {k \in DOMAIN pkg.files : ~pkg.files[k].test}} :
               pkg \in Packages(pr.pkgs)}

\* The paths of the packages that import a path.
Importers(path) == {pkg.path : pkg \in {q \in Packages(project.pkgs) : path \in q.imports}}

Callers(f) == CallersOf(project, backend, f)

-----------------------------------------------------------------------------
(***************************************************************************)
(* The code's queues are slices served in order; the order decides         *)
(* nothing, so a queue is a set here and any member may be next.           *)
(***************************************************************************)
Init ==
    /\ project \in Projects
    /\ tests \in SUBSET Tests(project)
    /\ mode \in Modes
    /\ point \in Points(project)
    /\ phase = "build"
    /\ failures = <<>> /\ backend = "none"
    /\ allowed = {} /\ pkgQueue = {}
    /\ funcs = {} /\ funcQueue = {}
    /\ candidate = {}
    /\ selected = <<>>

\* The kind of backend that is tried next.  The last is always the AST backend.
Kind == BuildOrder[mode][Len(failures) + 1]

BuildOK ==
    /\ phase = "build" /\ CanBuild(project, Kind)
    /\ phase' = "start"
    /\ backend' = Kind
    /\ UNCHANGED <<input, failures, allowed, pkgQueue, funcs, funcQueue, candidate, selected>>

\* A panic in the analysis counts as a failure for RTA, where it is recovered.
BuildFails ==
    /\ phase = "build" /\ (~CanBuild(project, Kind) \/ Kind = "rta")
    /\ failures' = Append(failures, Kind)
    /\ UNCHANGED <<input, phase, backend, allowed, pkgQueue, funcs, funcQueue, candidate,
                   selected>>

\* No test was discovered: nothing is selected.
ReturnEmpty ==
    /\ phase = "start" /\ tests = {}
    /\ phase' = "done"
    /\ UNCHANGED <<input, failures, backend, allowed, pkgQueue, funcs, funcQueue, candidate,
                   selected>>

Start ==
    /\ phase = "start" /\ tests # {}
    /\ phase' = "dependers"
    /\ allowed' = {point.path}
    /\ pkgQueue' = {point.path}
    /\ UNCHANGED <<input, failures, backend, funcs, funcQueue, candidate, selected>>

\* reverseDependers takes a path off the queue and queues its new importers.
VisitPkg(p) ==
    /\ phase = "dependers" /\ p \in pkgQueue
    /\ allowed' = allowed \cup Importers(p)
    /\ pkgQueue' = (pkgQueue \ {p}) \cup (Importers(p) \ allowed)
    /\ UNCHANGED <<input, failures, backend, phase, funcs, funcQueue, candidate, selected>>

\* candidateTests begins.  Without a function to start at, the AST backend
\* returns all tests and an SSA backend returns none.
Seed ==
    LET start == StartOf(project, backend, point)
    IN  /\ phase = "dependers" /\ pkgQueue = {}
        /\ phase' = IF start = {} THEN "prune" ELSE "callers"
        /\ candidate' = IF start = {} /\ backend = "ast" THEN tests ELSE {}
        /\ funcs' = start
        /\ funcQueue' = start
        /\ UNCHANGED <<input, failures, backend, allowed, pkgQueue, selected>>

\* Seeded bug: callers of callers are not visited.
BugVisitFunc(f) ==
    /\ phase = "callers" /\ f \in funcQueue
    /\ funcs' = funcs \cup Callers(f)
    /\ funcQueue' = funcQueue \ {f}
    /\ UNCHANGED <<input, failures, backend, phase, allowed, pkgQueue, candidate, selected>>

\* Seeded bug: a caller is queued again although it has been seen.
BugRevisitFunc(f) ==
    /\ phase = "callers" /\ f \in funcQueue
    /\ funcs' = funcs \cup Callers(f)
    /\ funcQueue' = (funcQueue \ {f}) \cup Callers(f)
    /\ UNCHANGED <<input, failures, backend, phase, allowed, pkgQueue, candidate, selected>>

\* The search takes a function off the queue and queues its new callers.
VisitFunc(f) ==
    /\ phase = "callers" /\ f \in funcQueue
    /\ funcs' = funcs \cup Callers(f)
    /\ funcQueue' = (funcQueue \ {f}) \cup (Callers(f) \ funcs)
    /\ UNCHANGED <<input, failures, backend, phase, allowed, pkgQueue, candidate, selected>>

\* Seeded bug: every function reached is taken for a test.
BugCandidates ==
    /\ phase = "callers" /\ funcQueue = {}
    /\ phase' = "prune"
    /\ candidate' = funcs
    /\ UNCHANGED <<input, failures, backend, allowed, pkgQueue, funcs, funcQueue, selected>>

\* The tests among the functions reached are the candidates.
Candidates ==
    /\ phase = "callers" /\ funcQueue = {}
    /\ phase' = "prune"
    /\ candidate' = {t \in tests : FuncsOfTest(project, backend, t) \cap funcs # {}}
    /\ UNCHANGED <<input, failures, backend, allowed, pkgQueue, funcs, funcQueue, selected>>

ByImportPath(kept) == [p \in {t.path : t \in kept} |-> {t.name : t \in {u \in kept : u.path = p}}]

\* Seeded bug: no candidates, no tests.
BugPrune ==
    /\ phase = "prune"
    /\ phase' = "done"
    /\ selected' = ByImportPath({t \in candidate : t.path \in allowed})
    /\ UNCHANGED <<input, failures, backend, allowed, pkgQueue, funcs, funcQueue, candidate>>

\* Without candidates every test is one; then those of packages that do not
\* depend on the point's are dropped and the rest grouped by package.
Prune ==
    LET from == IF candidate = {} THEN tests ELSE candidate
    IN  /\ phase = "prune"
        /\ phase' = "done"
        /\ selected' = ByImportPath({t \in from : t.path \in allowed})
        /\ UNCHANGED <<input, failures, backend, allowed, pkgQueue, funcs, funcQueue,
                       candidate>>

Step ==
    \/ BuildOK \/ BuildFails
    \/ ReturnEmpty \/ Start
    \/ \E p \in pkgQueue : VisitPkg(p)
    \/ Seed
    \/ \E f \in funcQueue : VisitFunc(f)
    \/ Candidates \/ Prune

Finished == phase = "done" /\ UNCHANGED vars

Next == Step \/ Finished

\* Select is sequential code: as long as it has a step to take, it takes one.
Spec == Init /\ [][Next]_vars /\ WF_vars(Step)

-----------------------------------------------------------------------------
AllFunctions ==
    CASE backend = "ast" -> KeysOf(project.pkgs)
      [] backend \in {"rta", "cha"} -> GraphFunctions(project, backend)
      [] OTHER -> {}

\* Every variable holds a value of its kind; the project is never written.
TypeOK ==
    /\ tests \subseteq Tests(project)
    /\ mode \in Modes
    /\ point \in Points(project)
    /\ phase \in {"build", "start", "dependers", "callers", "prune", "done"}
    /\ backend \in {"none", "rta", "cha", "ast"}
    /\ Len(failures) <= 2
    /\ allowed \subseteq Paths /\ pkgQueue \subseteq allowed
    /\ funcs \subseteq AllFunctions /\ funcQueue \subseteq funcs
    /\ candidate \subseteq tests
    /\ DOMAIN selected \subseteq Paths
    /\ \A p \in DOMAIN selected : selected[p] # {} /\ selected[p] \subseteq Names

(***************************************************************************)
(* What Select is to compute, said without a search: the least sets that   *)
(* hold the start and are closed under importers, or under callers.        *)
(***************************************************************************)
LeastClosed(S, start, From(_)) ==
    LET next == [s \in S |-> From(s)]
        closed == {T \in SUBSET S : start \subseteq T /\ \A s \in T : next[s] \subseteq T}
    IN  {s \in S : \A T \in closed : s \in T}

Depending == {t \in tests : t.path \in LeastClosed(Paths, {point.path}, Importers)}

\* The tests that reach one of some functions, of those that depend on the point.
Reaching(start) ==
    LET reached == LeastClosed(AllFunctions, start, Callers)
    IN  {t \in tests : FuncsOfTest(project, backend, t) \cap reached # {}}

\* The mutated function, in all the variants of its package that type-check.
MutatedVariants == {f \in SSAFunctions(project) : f[2] = point.pos}

\* With the AST backend, exactly the tests that reach a point's function are
\* selected: what a call resolves to is in an imported package, so that the
\* pruning by dependencies loses none.  If no test reaches it, or the point is
\* in no function, the tests of every package that depends on the point's are
\* (Select, candidateTestsByReachability).  The callers are those by syntax: the
\* backend resolves calls without types.Info (select.go:155; docs/selection.md:23
\* has selection try it first), and may miss or invent some of the program's.
SelectedExactly ==
    phase = "done" /\ backend = "ast" =>
        LET reaching == IF point.func = NoFunc THEN {}
                        ELSE Reaching({<<point.id, point.func>>})
        IN  selected = ByImportPath(IF reaching # {} THEN reaching ELSE Depending)

\* With a call graph, a test that reaches the mutated function in any variant of
\* its package is selected, whichever variant the point is of: its own variant
\* would miss either p's own tests or those of the packages that import p.  A
\* test that is not selected is one that does not reach it, or that cannot be
\* affected because its package does not depend on the mutated one
\* (resolveSeeds, declarationKeyFromMutationPoint).
BothVariants ==
    phase = "done" /\ backend \in {"rta", "cha"} /\ point.func # NoFunc =>
        \A t \in Reaching(MutatedVariants) \cap Depending :
            t.path \in DOMAIN selected /\ t.name \in selected[t.path]

\* A mutant is left without tests, and so Unsupported, only if there is no test
\* in any package that depends on the mutated one; or if the call graph has a
\* dynamic call of the mutated function from a test that does not depend on it,
\* which then keeps the fallback from being taken (Select's fallback).
EmptyOnlyIfNothingDepends ==
    phase = "done" /\ selected = <<>> /\ Depending # {} =>
        candidate # {} /\ candidate \cap Depending = {} /\ backend # "ast"

\* Unless it is asked for, the AST backend never selects a test: CHA, which is
\* tried before it, can be built for every project that has a point, whatever
\* its packages' types (backendBuildOrder, newCHABackend).
ASTOnlyOnRequest == backend = "ast" => mode = "ast"

\* Selection ends, on recursive functions and after every failure to build a
\* backend too.
SelectReturns == <>(phase = "done")
=============================================================================

-------------------------- MODULE SelectionProofs --------------------------
(***************************************************************************)
(* Proofs about Selection, for every project: whatever its packages import *)
(* and its functions call, and whatever its call graphs are.               *)
(*                                                                         *)
(* Both searches are shown to compute the least sets that the properties   *)
(* are stated with.  What makes the AST backend exact is Resolved: every   *)
(* function it reaches is in a package that depends on the point's, so     *)
(* that the pruning which follows loses no candidate.                      *)
(***************************************************************************)
EXTENDS Selection, ListingProofs, TLAPS

-----------------------------------------------------------------------------
(***************************************************************************)
(* The inductive invariant.                                                *)
(***************************************************************************)
Searching == phase \in {"dependers", "callers", "prune"}

\* Which backends have failed, and which one was built.
Building ==
    /\ failures \in {<<>>, <<"rta">>}
    /\ failures # <<>> => mode \in {"auto", "rta"}
    /\ phase = "build" => backend = "none"
    /\ phase # "build" => backend \in {"rta", "cha", "ast"}
    /\ phase # "build" /\ backend = "ast" => mode = "ast"

ClosedUnderImporters(T) == point.path \in T /\ \A p \in T : Importers(p) \subseteq T

\* The search for dependent packages.
PkgSearch ==
    /\ phase \in {"build", "start"} => allowed = {}
    /\ Searching => point.path \in allowed
    /\ \A p \in allowed \ pkgQueue : Importers(p) \subseteq allowed
    /\ \A T \in SUBSET Paths : ClosedUnderImporters(T) => allowed \subseteq T
    /\ phase \in {"callers", "prune"} => pkgQueue = {}

Origin == StartOf(project, backend, point)
ClosedUnderCallers(T) == Origin \subseteq T /\ \A f \in T : Callers(f) \subseteq T

\* The search for callers.
FuncSearch ==
    /\ phase \in {"build", "start", "dependers"} => funcs = {}
    /\ phase = "callers" => Origin # {}
    /\ phase \in {"callers", "prune"} => Origin \subseteq funcs
    /\ \A f \in funcs \ funcQueue : Callers(f) \subseteq funcs
    /\ \A T \in SUBSET AllFunctions : ClosedUnderCallers(T) => funcs \subseteq T
    /\ phase = "prune" => funcQueue = {}

\* The functions the AST backend has reached.
Resolved ==
    backend = "ast" => \A f \in funcs : \A pkg \in Packages(project.pkgs) :
                           pkg.id = f[1] => pkg.path \in allowed

Found == IF Origin = {} /\ backend = "ast" THEN tests
         ELSE {t \in tests : FuncsOfTest(project, backend, t) \cap funcs # {}}

\* What comes of the searches.
Decided ==
    /\ phase \notin {"prune", "done"} => candidate = {}
    /\ phase # "done" => selected = <<>>
    /\ phase = "prune" => candidate = Found
    /\ phase = "done" =>
           \/ tests = {} /\ candidate = {} /\ selected = <<>>
           \/ /\ point.path \in allowed /\ pkgQueue = {}
              /\ Origin \subseteq funcs /\ funcQueue = {}
              /\ candidate = Found
              /\ selected = ByImportPath({t \in IF candidate = {} THEN tests ELSE candidate :
                                              t.path \in allowed})

IInv == /\ project \in Projects
        /\ TypeOK /\ Building /\ PkgSearch /\ FuncSearch /\ Resolved /\ Decided

-----------------------------------------------------------------------------
(***************************************************************************)
(* Projects.                                                               *)
(***************************************************************************)

\* What the assumption on projects says of the packages of one.
LEMMA ProjectFacts ==
  ASSUME project \in Projects
  PROVE  /\ \A pkg \in Packages(project.pkgs) : IsPackage(pkg)
         /\ \A p, q \in Packages(project.pkgs) : p.id = q.id => p = q
BY ProjectsAssumption DEF IsProject, ArePackages, Packages

\* Importers are paths.
LEMMA ImportersType ==
  ASSUME project \in Projects, NEW p
  PROVE  Importers(p) \subseteq Paths
BY ProjectFacts DEF Importers, IsPackage

\* An identifier that the merged maps have stands for a path the package imports.
LEMMA MergedAliasesImported ==
  ASSUME NEW pkg, IsPackage(pkg), NEW x \in DOMAIN MergedAliases(pkg)
  PROVE  MergedAliases(pkg)[x] \in pkg.imports
<1> DEFINE Files(y) == {f \in DOMAIN pkg.files : y \in DOMAIN pkg.files[f].aliases}
<1>1. Files(x) # {} /\ MergedAliases(pkg)[x] = pkg.files[Max(Files(x))].aliases[x]
  BY DEF MergedAliases
<1>2. Files(x) \subseteq 1 .. Len(pkg.files) /\ Len(pkg.files) \in Nat
  BY DEF IsPackage
<1>3. Max(Files(x)) \in Files(x)
  <2> HIDE DEF Files
  <2> QED BY <1>1, <1>2, MaxIn
<1>4. PICK A \in SUBSET Idents : pkg.files[Max(Files(x))].aliases \in [A -> pkg.imports]
  BY <1>3 DEF IsPackage, IsFileOf
<1> QED BY <1>1, <1>3, <1>4

\* Syntax resolves a call to a function of the caller's package or of one that
\* its package imports.
LEMMA SyntaxResolves ==
  ASSUME project \in Projects, NEW pkg \in Packages(project.pkgs), NEW call,
         NEW key \in BySyntax(project.pkgs, pkg.id, call, MergedAliases(pkg), AnyKey)
  PROVE  \/ key[1] = pkg.id
         \/ \E q \in Packages(project.pkgs) : q.id = key[1] /\ q.path \in pkg.imports
<1>1. CASE call.qual = NoIdent
  BY <1>1 DEF BySyntax
<1>2. CASE call.qual # NoIdent
  <2> DEFINE path == MergedAliases(pkg)[call.qual]
             ids == {i \in IdsOf(project.pkgs, path) : <<i, call.name>> \in AnyKey}
  <2>1. /\ call.qual \in DOMAIN MergedAliases(pkg)
        /\ ids # {}
        /\ key = <<IF pkg.id \in ids THEN pkg.id ELSE Min(ids), call.name>>
    BY <1>2 DEF BySyntax, Lookup
  <2>2. path \in pkg.imports
    BY <2>1, ProjectFacts, MergedAliasesImported
  <2>3. ids \subseteq Nat
    BY ProjectFacts DEF IdsOf, IsPackage
  <2>4. key[1] \in ids
    <3> HIDE DEF ids
    <3> QED BY <2>1, <2>3, MinIn
  <2> QED BY <2>2, <2>4 DEF IdsOf
<1> QED BY <1>1, <1>2

\* A caller, as the AST backend sees it, is in a package that depends on that of
\* the function it calls.
LEMMA CallerDepends ==
  ASSUME project \in Projects, NEW f, NEW c \in ASTCallers(project, f)
  PROVE  \E pkg \in Packages(project.pkgs) :
            /\ c[1] = pkg.id
            /\ \/ f[1] = pkg.id
               \/ \E q \in Packages(project.pkgs) : q.id = f[1] /\ q.path \in pkg.imports
<1>1. PICK pkg \in Packages(project.pkgs) :
          \E name \in DeclNames(pkg) :
             /\ c = <<pkg.id, name>>
             /\ \E call \in Body(pkg, name) :
                    f \in BySyntax(project.pkgs, pkg.id, call, MergedAliases(pkg), AnyKey)
  BY DEF ASTCallers
<1>2. PICK call : f \in BySyntax(project.pkgs, pkg.id, call, MergedAliases(pkg), AnyKey)
  BY <1>1
<1> QED BY <1>1, <1>2, SyntaxResolves

\* The functions a search starts at and those that call others are functions of
\* the backend.
LEMMA FunctionsType ==
  ASSUME project \in Projects, point \in Points(project), backend \in {"rta", "cha", "ast"}
  PROVE  /\ Origin \subseteq AllFunctions
         /\ \A f : Callers(f) \subseteq AllFunctions
<1>1. CASE backend = "ast"
  <2>1. Origin \subseteq KeysOf(project.pkgs)
    <3>1. CASE point.func = NoFunc
      BY <3>1 DEF Origin, StartOf
    <3>2. CASE point.func # NoFunc
      <4>1. \E pkg \in Packages(project.pkgs) : point.id = pkg.id /\ point.func \in DeclNames(pkg)
        BY <3>2 DEF Points, DeclNames, Decls
      <4>2. Origin = {<<point.id, point.func>>}
        BY <1>1, <3>2 DEF Origin, StartOf
      <4> QED BY <4>1, <4>2 DEF KeysOf
    <3> QED BY <3>1, <3>2
  <2>2. \A f : Callers(f) \subseteq KeysOf(project.pkgs)
    BY <1>1 DEF Callers, CallersOf, ASTCallers, KeysOf
  <2> QED BY <1>1, <2>1, <2>2 DEF AllFunctions
<1>2. CASE backend \in {"rta", "cha"}
  <2>1. Origin \subseteq SSAFunctions(project)
    <3>1. Origin \subseteq Seeds(project, point)
      BY <1>2 DEF Origin, StartOf
    <3>2. Seeds(project, point) \subseteq SSAFunctions(project)
      BY DEF Seeds, Func, DeclToFunc, SSAFunctions
    <3> QED BY <3>1, <3>2
  <2>2. \A f : Callers(f) \subseteq GraphFunctions(project, backend)
    BY <1>2 DEF Callers, CallersOf, GraphCallers, GraphFunctions
  <2> QED BY <1>2, <2>1, <2>2 DEF AllFunctions, GraphFunctions
<1> QED BY <1>1, <1>2

-----------------------------------------------------------------------------
(***************************************************************************)
(* The invariant, one part at a time.                                      *)
(***************************************************************************)

\* A run of Select begins with the invariant.
LEMMA InitIInv == Init => IInv
<1> SUFFICES ASSUME Init PROVE IInv
  OBVIOUS
<1>1. TypeOK /\ Building
  BY DEF Init, TypeOK, Building
<1>2. PkgSearch /\ FuncSearch /\ Resolved /\ Decided
  BY DEF Init, Searching, PkgSearch, FuncSearch, Resolved, Decided
<1> QED BY <1>1, <1>2 DEF Init, IInv

\* A backend that is left behind is RTA: CHA can be built for every project that
\* has a point.
LEMMA NextBuilding ==
  project \in Projects /\ TypeOK /\ Building /\ [Next]_vars => Building'
<1> SUFFICES ASSUME project \in Projects, TypeOK, Building, [Next]_vars PROVE Building'
  OBVIOUS
<1>0. mode \in {"auto", "rta", "cha", "ast"}
  BY ModesAssumption DEF TypeOK, BuildOrder
<1>1. phase = "build" =>
          /\ Kind \in {"rta", "cha", "ast"}
          /\ Kind = "ast" => mode = "ast"
          /\ Kind = "rta" => mode \in {"auto", "rta"} /\ failures = <<>>
  <2>1. CASE failures = <<>>
    <3>1. Kind = BuildOrder[mode][1]
      BY <2>1 DEF Kind
    <3> QED BY <1>0, <2>1, <3>1 DEF BuildOrder
  <2>2. CASE failures = <<"rta">>
    <3>1. Kind = BuildOrder[mode][2] /\ mode \in {"auto", "rta"}
      BY <2>2 DEF Kind, Building
    <3> QED BY <2>2, <3>1 DEF BuildOrder
  <2> QED BY <2>1, <2>2 DEF Building
<1>2. CASE BuildOK
  BY <1>1, <1>2 DEF BuildOK, Building, input
<1>3. CASE BuildFails
  <2>1. CanBuild(project, "cha") /\ CanBuild(project, "ast")
    <3>1. project.pkgs # <<>>
      BY DEF TypeOK, Points, Packages
    <3> QED BY <3>1 DEF CanBuild
  <2>2. Kind = "rta"
    BY <1>1, <1>3, <2>1 DEF BuildFails
  <2>3. failures' = <<"rta">>
    BY <1>1, <1>3, <2>2 DEF BuildFails
  <2> QED BY <1>1, <1>3, <2>2, <2>3 DEF BuildFails, Building, input
<1>4. CASE UNCHANGED <<mode, failures, backend>> /\ phase # "build" /\ phase' # "build"
  BY <1>4 DEF Building
<1>5. CASE UNCHANGED vars
  BY <1>5 DEF vars, input, Building
<1> QED
  BY <1>2, <1>3, <1>4, <1>5
     DEF Next, Step, Finished, ReturnEmpty, Start, VisitPkg, Seed, VisitFunc, Candidates, Prune, input

\* Nothing writes to the project or to what is asked for.
LEMMA InputKept == [Next]_vars => input' = input
<1>1. UNCHANGED vars => input' = input
  BY DEF vars, input
<1>2. Next => input' = input \/ UNCHANGED vars
  BY DEF Next, Step, Finished, BuildOK, BuildFails, ReturnEmpty, Start, VisitPkg, Seed, VisitFunc,
         Candidates, Prune
<1> QED BY <1>1, <1>2

\* The packages seen are the point's and those that depend on it, closed but for
\* the importers of those still queued.
LEMMA NextPkgSearch ==
  project \in Projects /\ TypeOK /\ PkgSearch /\ [Next]_vars => PkgSearch'
<1> SUFFICES ASSUME project \in Projects, TypeOK, PkgSearch, [Next]_vars PROVE PkgSearch'
  OBVIOUS
<1>0. input' = input
  BY InputKept
<1>1. /\ \A p : Importers(p)' = Importers(p)
      /\ \A T : ClosedUnderImporters(T)' = ClosedUnderImporters(T)
  BY <1>0 DEF input, Importers, ClosedUnderImporters
<1>2. CASE Start
  BY <1>0, <1>1, <1>2 DEF Start, PkgSearch, Searching, ClosedUnderImporters, input
<1>3. ASSUME NEW p \in pkgQueue, VisitPkg(p) PROVE PkgSearch'
  <2>1. p \in allowed /\ allowed' = allowed \cup Importers(p)
        /\ pkgQueue' = (pkgQueue \ {p}) \cup (Importers(p) \ allowed)
        /\ phase = "dependers" /\ phase' = phase
    BY <1>3 DEF VisitPkg, TypeOK
  <2>2. \A q \in allowed' \ pkgQueue' : Importers(q) \subseteq allowed'
    BY <2>1 DEF PkgSearch
  <2>3. \A T \in SUBSET Paths : ClosedUnderImporters(T) => allowed' \subseteq T
    BY <2>1 DEF PkgSearch, ClosedUnderImporters
  <2> QED BY <1>0, <1>1, <2>1, <2>2, <2>3 DEF PkgSearch, Searching, input
<1>4. CASE Seed
  BY <1>0, <1>1, <1>4 DEF Seed, PkgSearch, Searching, input
<1>5. CASE ReturnEmpty \/ BuildOK \/ BuildFails \/ Candidates \/ Prune
           \/ (\E f \in funcQueue : VisitFunc(f))
  <2>1. UNCHANGED <<allowed, pkgQueue>>
    BY <1>5 DEF ReturnEmpty, BuildOK, BuildFails, Candidates, Prune, VisitFunc
  <2>2. /\ phase' \in {"build", "start"} => phase \in {"build", "start"}
        /\ Searching' => phase \in {"callers", "prune"}
    BY <1>5 DEF ReturnEmpty, BuildOK, BuildFails, Candidates, Prune, VisitFunc, Searching
  <2>3. phase' \in {"callers", "prune"} => phase \in {"callers", "prune"}
    BY <2>2 DEF Searching
  <2> QED BY <1>0, <1>1, <2>1, <2>2, <2>3 DEF PkgSearch, Searching, input
<1>6. CASE UNCHANGED vars
  BY <1>0, <1>1, <1>6 DEF vars, PkgSearch, Searching, input
<1> QED BY <1>2, <1>3, <1>4, <1>5, <1>6 DEF Next, Step, Finished

\* The functions seen are those where the search began and their callers, closed
\* but for the callers of those still queued.
LEMMA NextFuncSearch ==
  project \in Projects /\ TypeOK /\ Building /\ FuncSearch /\ [Next]_vars => FuncSearch'
<1> SUFFICES ASSUME project \in Projects, TypeOK, Building, FuncSearch, [Next]_vars
             PROVE  FuncSearch'
  OBVIOUS
<1>0. input' = input
  BY InputKept
<1>1. ASSUME backend' = backend
      PROVE  /\ Origin' = Origin /\ AllFunctions' = AllFunctions
             /\ \A f : Callers(f)' = Callers(f)
             /\ \A T : ClosedUnderCallers(T)' = ClosedUnderCallers(T)
  <2>1. project' = project /\ point' = point
    BY <1>0 DEF input
  <2>2. Origin' = Origin /\ AllFunctions' = AllFunctions /\ \A f : Callers(f)' = Callers(f)
    BY <1>1, <2>1 DEF Origin, AllFunctions, Callers
  <2> QED BY <2>2 DEF ClosedUnderCallers
<1>2. CASE Seed
  <2>1. /\ backend' = backend
        /\ funcs' = Origin /\ funcQueue' = Origin
        /\ phase' = IF Origin = {} THEN "prune" ELSE "callers"
    BY <1>2 DEF Seed, Origin
  <2>2. \A T \in SUBSET AllFunctions : ClosedUnderCallers(T) => funcs' \subseteq T
    BY <2>1 DEF ClosedUnderCallers
  <2> QED BY <1>1, <2>1, <2>2 DEF FuncSearch
<1>3. ASSUME NEW f \in funcQueue, VisitFunc(f) PROVE FuncSearch'
  <2>1. /\ f \in funcs /\ funcs' = funcs \cup Callers(f)
        /\ funcQueue' = (funcQueue \ {f}) \cup (Callers(f) \ funcs)
        /\ phase = "callers" /\ phase' = phase /\ backend' = backend
    BY <1>3 DEF VisitFunc, TypeOK
  <2>2. \A g \in funcs' \ funcQueue' : Callers(g) \subseteq funcs'
    BY <2>1 DEF FuncSearch
  <2>3. \A T \in SUBSET AllFunctions : ClosedUnderCallers(T) => funcs' \subseteq T
    BY <2>1 DEF FuncSearch, ClosedUnderCallers
  <2> QED BY <1>1, <2>1, <2>2, <2>3 DEF FuncSearch
<1>4. CASE BuildOK \/ BuildFails
  <2>1. funcs' = {} /\ phase' \in {"build", "start"}
    BY <1>4 DEF BuildOK, BuildFails, FuncSearch
  <2> QED BY <2>1 DEF FuncSearch
<1>5. CASE ReturnEmpty \/ Start \/ Candidates \/ Prune \/ (\E p \in pkgQueue : VisitPkg(p))
  <2>1. UNCHANGED <<backend, funcs, funcQueue>>
    BY <1>5 DEF ReturnEmpty, Start, Candidates, Prune, VisitPkg
  <2>2. /\ phase' \in {"build", "start", "dependers"} => phase \in {"build", "start", "dependers"}
        /\ phase' \in {"callers", "prune"} => phase = "callers" /\ funcQueue = {}
    BY <1>5 DEF ReturnEmpty, Start, Candidates, Prune, VisitPkg
  <2> QED BY <1>1, <2>1, <2>2 DEF FuncSearch
<1>6. CASE UNCHANGED vars
  <2>1. UNCHANGED <<phase, backend, funcs, funcQueue>>
    BY <1>6 DEF vars
  <2> QED BY <1>1, <2>1 DEF FuncSearch
<1> QED BY <1>2, <1>3, <1>4, <1>5, <1>6 DEF Next, Step, Finished

\* Tests and points have the paths and names of declared things.
LEMMA TestsType ==
  ASSUME project \in Projects
  PROVE  /\ \A t \in Tests(project) :
                /\ t.path \in Paths /\ t.name \in Names
                /\ \E pkg \in Packages(project.pkgs) : t.id = pkg.id /\ t.path = pkg.path
         /\ \A pt \in Points(project) :
                /\ pt.path \in Paths
                /\ \E pkg \in Packages(project.pkgs) : pt.id = pkg.id /\ pt.path = pkg.path
<1>1. \A t \in Tests(project) :
         /\ t.name \in TestNames
         /\ \E pkg \in Packages(project.pkgs) : t.id = pkg.id /\ t.path = pkg.path
  BY DEF Tests
<1>2. \A pt \in Points(project) :
         \E pkg \in Packages(project.pkgs) : pt.id = pkg.id /\ pt.path = pkg.path
  BY DEF Points
<1> QED BY <1>1, <1>2, ProjectFacts, NamesAssumption DEF IsPackage

\* Grouping tests by import path.
LEMMA ByImportPathType ==
  ASSUME project \in Projects, NEW kept, kept \subseteq Tests(project)
  PROVE  /\ DOMAIN ByImportPath(kept) = {t.path : t \in kept}
         /\ DOMAIN ByImportPath(kept) \subseteq Paths
         /\ \A p \in DOMAIN ByImportPath(kept) :
                ByImportPath(kept)[p] # {} /\ ByImportPath(kept)[p] \subseteq Names
         /\ \A t \in kept : t.path \in DOMAIN ByImportPath(kept) /\ t.name \in ByImportPath(kept)[t.path]
<1>1. DOMAIN ByImportPath(kept) = {t.path : t \in kept}
  BY DEF ByImportPath
<1>2. \A t \in kept : t.path \in Paths /\ t.name \in Names
  BY TestsType
<1>3. \A p \in {t.path : t \in kept} :
         ByImportPath(kept)[p] = {t.name : t \in {u \in kept : u.path = p}}
  BY DEF ByImportPath
<1>4. ASSUME NEW t \in kept PROVE t.name \in ByImportPath(kept)[t.path]
  BY <1>3
<1>5. ASSUME NEW p \in {t.path : t \in kept}
      PROVE  ByImportPath(kept)[p] # {} /\ ByImportPath(kept)[p] \subseteq Names
  BY <1>2, <1>3, <1>5
<1> QED BY <1>1, <1>2, <1>4, <1>5

\* Every step keeps the types.
LEMMA NextTypeOK ==
  project \in Projects /\ TypeOK /\ Building /\ FuncSearch /\ [Next]_vars => TypeOK'
<1> SUFFICES ASSUME project \in Projects, TypeOK, Building, FuncSearch, [Next]_vars
             PROVE  TypeOK'
  OBVIOUS
<1>0. /\ input' = input
      /\ project' = project /\ tests' = tests /\ mode' = mode /\ point' = point
  BY InputKept DEF input
<1>1. Tests(project)' = Tests(project) /\ Points(project)' = Points(project)
  BY <1>0 DEF Tests, Points
<1>2. Len(failures') <= 2
  <2>1. Building'
    BY NextBuilding
  <2> QED BY <2>1 DEF Building
<1>3. ASSUME UNCHANGED <<backend, funcs, funcQueue>>
      PROVE  funcs' \subseteq AllFunctions' /\ funcQueue' \subseteq funcs'
  BY <1>0, <1>3 DEF TypeOK, AllFunctions
<1>4. CASE BuildOK \/ BuildFails
  <2>1. funcs' = {} /\ funcQueue' = {}
    BY <1>4 DEF BuildOK, BuildFails, FuncSearch, TypeOK
  <2>2. backend' \in {"none", "rta", "cha", "ast"} /\ phase' \in {"build", "start"}
    <3>1. Building'
      BY NextBuilding
    <3> QED BY <1>4, <3>1 DEF Building, BuildOK, BuildFails, TypeOK
  <2>3. UNCHANGED <<allowed, pkgQueue, candidate, selected>>
    BY <1>4 DEF BuildOK, BuildFails
  <2> QED BY <1>0, <1>1, <1>2, <2>1, <2>2, <2>3 DEF TypeOK
<1>5. CASE ReturnEmpty
  BY <1>0, <1>1, <1>2, <1>3, <1>5 DEF ReturnEmpty, TypeOK
<1>6. CASE Start
  <2>1. point.path \in Paths
    BY TestsType DEF TypeOK
  <2> QED BY <1>0, <1>1, <1>2, <1>3, <1>6, <2>1 DEF Start, TypeOK
<1>7. ASSUME NEW p \in pkgQueue, VisitPkg(p) PROVE TypeOK'
  <2>1. Importers(p) \subseteq Paths
    BY ImportersType
  <2> QED BY <1>0, <1>1, <1>2, <1>3, <1>7, <2>1 DEF VisitPkg, TypeOK
<1>8. CASE Seed
  <2>1. backend \in {"rta", "cha", "ast"} /\ Origin \subseteq AllFunctions /\ backend' = backend
    BY <1>8, FunctionsType DEF Seed, Building, TypeOK
  <2>2. funcs' = Origin /\ funcQueue' = Origin /\ AllFunctions' = AllFunctions
    BY <1>0, <1>8, <2>1 DEF Seed, Origin, AllFunctions
  <2>3. candidate' \subseteq tests
    BY <1>8 DEF Seed
  <2> QED BY <1>0, <1>1, <1>2, <1>8, <2>1, <2>2, <2>3 DEF Seed, TypeOK
<1>9. ASSUME NEW f \in funcQueue, VisitFunc(f) PROVE TypeOK'
  <2>1. backend \in {"rta", "cha", "ast"} /\ Callers(f) \subseteq AllFunctions /\ backend' = backend
    BY <1>9, FunctionsType DEF VisitFunc, Building, TypeOK
  <2>2. AllFunctions' = AllFunctions
    BY <1>0, <2>1 DEF AllFunctions
  <2> QED BY <1>0, <1>1, <1>2, <1>9, <2>1, <2>2 DEF VisitFunc, TypeOK
<1>10. CASE Candidates
  <2>1. candidate' \subseteq tests
    BY <1>10 DEF Candidates
  <2> QED BY <1>0, <1>1, <1>2, <1>3, <1>10, <2>1 DEF Candidates, TypeOK
<1>11. CASE Prune
  <2> DEFINE kept == {t \in IF candidate = {} THEN tests ELSE candidate : t.path \in allowed}
  <2>1. selected' = ByImportPath(kept)
    BY <1>11 DEF Prune
  <2>2. kept \subseteq Tests(project)
    BY DEF TypeOK
  <2>3. /\ DOMAIN selected' \subseteq Paths
        /\ \A p \in DOMAIN selected' : selected'[p] # {} /\ selected'[p] \subseteq Names
    <3> HIDE DEF kept
    <3> QED BY <2>1, <2>2, ByImportPathType
  <2> QED BY <1>0, <1>1, <1>2, <1>3, <1>11, <2>3 DEF Prune, TypeOK
<1>12. CASE UNCHANGED vars
  BY <1>0, <1>1, <1>2, <1>3, <1>12 DEF vars, TypeOK
<1> QED BY <1>4, <1>5, <1>6, <1>7, <1>8, <1>9, <1>10, <1>11, <1>12 DEF Next, Step, Finished

\* A caller that the AST backend finds is in a package that depends on the
\* point's, if the function it calls is.
LEMMA NextResolved ==
  /\ project \in Projects /\ TypeOK /\ PkgSearch /\ FuncSearch /\ Resolved
  /\ [Next]_vars
  => Resolved'
<1> SUFFICES ASSUME project \in Projects, TypeOK, PkgSearch, FuncSearch, Resolved, [Next]_vars
             PROVE  Resolved'
  OBVIOUS
<1>0. project' = project /\ point' = point
  BY InputKept DEF input
<1>1. CASE BuildOK \/ BuildFails
  <2>1. funcs' = {}
    BY <1>1 DEF BuildOK, BuildFails, FuncSearch
  <2> QED BY <2>1 DEF Resolved
<1>2. CASE ReturnEmpty \/ Candidates \/ Prune \/ UNCHANGED vars
  <2>1. UNCHANGED <<backend, funcs, allowed>>
    BY <1>2 DEF ReturnEmpty, Candidates, Prune, vars
  <2> QED BY <1>0, <2>1 DEF Resolved
<1>3. CASE Start \/ \E p \in pkgQueue : VisitPkg(p)
  <2>1. funcs' = {}
    BY <1>3 DEF Start, VisitPkg, FuncSearch
  <2> QED BY <2>1 DEF Resolved
<1>4. CASE Seed
  <2>1. backend' = backend /\ allowed' = allowed /\ funcs' = Origin
    BY <1>4 DEF Seed, Origin
  <2>2. ASSUME backend = "ast", NEW f \in Origin, NEW pkg \in Packages(project.pkgs), pkg.id = f[1]
        PROVE  pkg.path \in allowed
    <3>1. f = <<point.id, point.func>>
      BY <2>2 DEF Origin, StartOf
    <3>2. PICK own \in Packages(project.pkgs) : point.id = own.id /\ point.path = own.path
      BY TestsType DEF TypeOK
    <3>3. pkg = own
      BY <2>2, <3>1, <3>2, ProjectFacts
    <3> QED BY <1>4, <3>2, <3>3 DEF PkgSearch, Searching, Seed
  <2> QED BY <1>0, <2>1, <2>2 DEF Resolved
<1>5. ASSUME NEW f \in funcQueue, VisitFunc(f) PROVE Resolved'
  <2>1. /\ f \in funcs /\ funcs' = funcs \cup Callers(f)
        /\ backend' = backend /\ allowed' = allowed /\ phase = "callers"
    BY <1>5 DEF VisitFunc, TypeOK
  <2>2. \A p \in allowed : Importers(p) \subseteq allowed
    BY <2>1 DEF PkgSearch
  <2>3. ASSUME backend = "ast", NEW c \in Callers(f), NEW pkg \in Packages(project.pkgs),
               pkg.id = c[1]
        PROVE  pkg.path \in allowed
    <3>1. c \in ASTCallers(project, f)
      BY <2>3 DEF Callers, CallersOf
    <3>2. \/ f[1] = pkg.id
          \/ \E q \in Packages(project.pkgs) : q.id = f[1] /\ q.path \in pkg.imports
      BY <2>3, <3>1, CallerDepends, ProjectFacts
    <3>3. CASE f[1] = pkg.id
      BY <2>1, <2>3, <3>3 DEF Resolved
    <3>4. ASSUME NEW q \in Packages(project.pkgs), q.id = f[1], q.path \in pkg.imports
          PROVE  pkg.path \in allowed
      <4>1. q.path \in allowed
        BY <2>1, <2>3, <3>4 DEF Resolved
      <4>2. pkg.path \in Importers(q.path)
        BY <3>4 DEF Importers
      <4> QED BY <2>2, <4>1, <4>2
    <3> QED BY <3>2, <3>3, <3>4
  <2> QED BY <1>0, <2>1, <2>3 DEF Resolved
<1> QED BY <1>1, <1>2, <1>3, <1>4, <1>5 DEF Next, Step, Finished

\* The candidates and the selection are what the searches have found.
LEMMA NextDecided ==
  /\ project \in Projects /\ TypeOK /\ Building /\ PkgSearch /\ FuncSearch /\ Decided
  /\ [Next]_vars
  => Decided'
<1> SUFFICES ASSUME project \in Projects, TypeOK, Building, PkgSearch, FuncSearch, Decided,
                    [Next]_vars
             PROVE  Decided'
  OBVIOUS
<1>0. project' = project /\ tests' = tests /\ point' = point
  BY InputKept DEF input
<1>1. ASSUME backend' = backend
      PROVE  /\ Origin' = Origin
             /\ \A t : FuncsOfTest(project, backend, t)' = FuncsOfTest(project, backend, t)
  BY <1>0, <1>1 DEF Origin, FuncsOfTest
<1>2. ASSUME backend' = backend, funcs' = funcs PROVE Found' = Found
  BY <1>0, <1>1, <1>2 DEF Found
<1>3. CASE BuildOK \/ BuildFails \/ Start \/ (\E p \in pkgQueue : VisitPkg(p))
           \/ (\E f \in funcQueue : VisitFunc(f))
  <2>1. /\ UNCHANGED <<candidate, selected>> /\ phase \notin {"prune", "done"}
        /\ phase' \notin {"prune", "done"}
    BY <1>3 DEF BuildOK, BuildFails, Start, VisitPkg, VisitFunc
  <2> QED BY <2>1 DEF Decided
<1>4. CASE ReturnEmpty
  BY <1>0, <1>4 DEF ReturnEmpty, Decided
<1>5. CASE Seed
  <2>1. /\ backend' = backend /\ funcs' = Origin /\ selected' = selected
        /\ phase = "dependers"
        /\ phase' = IF Origin = {} THEN "prune" ELSE "callers"
        /\ candidate' = IF Origin = {} /\ backend = "ast" THEN tests ELSE {}
    BY <1>5 DEF Seed, Origin
  <2>2. phase' = "prune" => candidate' = Found'
    BY <1>0, <1>1, <2>1 DEF Found
  <2> QED BY <2>1, <2>2 DEF Decided
<1>6. CASE Candidates
  <2>1. /\ backend' = backend /\ funcs' = funcs /\ selected' = selected
        /\ phase = "callers" /\ phase' = "prune" /\ Origin \subseteq funcs
        /\ candidate' = {t \in tests : FuncsOfTest(project, backend, t) \cap funcs # {}}
    BY <1>6 DEF Candidates, FuncSearch
  <2>2. Origin # {} \/ backend # "ast"
    BY <2>1 DEF FuncSearch
  <2> QED BY <1>2, <2>1, <2>2 DEF Decided, Found
<1>7. CASE Prune
  <2>1. /\ phase = "prune" /\ phase' = "done"
        /\ selected' = ByImportPath({t \in IF candidate = {} THEN tests ELSE candidate :
                                        t.path \in allowed})
        /\ UNCHANGED <<backend, allowed, pkgQueue, funcs, funcQueue, candidate>>
    BY <1>7 DEF Prune
  <2>2. /\ point.path \in allowed /\ pkgQueue = {}
        /\ Origin \subseteq funcs /\ funcQueue = {}
        /\ candidate = Found
    BY <2>1 DEF PkgSearch, FuncSearch, Decided, Searching
  <2> QED BY <1>0, <1>1, <1>2, <2>1, <2>2 DEF Decided, ByImportPath
<1>8. CASE UNCHANGED vars
  BY <1>0, <1>1, <1>2, <1>8 DEF vars, Decided, ByImportPath
<1> QED BY <1>3, <1>4, <1>5, <1>6, <1>7, <1>8 DEF Next, Step, Finished

\* Every step keeps the invariant.
LEMMA NextIInv == IInv /\ [Next]_vars => IInv'
<1> SUFFICES ASSUME IInv, [Next]_vars PROVE IInv'
  OBVIOUS
<1>1. project' \in Projects
  BY InputKept DEF input, IInv
<1> QED
  BY <1>1, NextTypeOK, NextBuilding, NextPkgSearch, NextFuncSearch, NextResolved, NextDecided
     DEF IInv

\* The invariant holds throughout.
LEMMA IInvCorrect == Spec => []IInv
BY InitIInv, NextIInv, PTL DEF Spec

\* Every variable keeps its type, for every project.
THEOREM TypeCorrect == Spec => []TypeOK
BY IInvCorrect, PTL DEF IInv

\* The AST backend is never fallen back on, for every project that has a point.
THEOREM ASTOnlyOnRequestCorrect == Spec => []ASTOnlyOnRequest
<1>1. IInv => ASTOnlyOnRequest
  BY DEF IInv, TypeOK, Building, ASTOnlyOnRequest
<1> QED BY <1>1, IInvCorrect, PTL

-----------------------------------------------------------------------------
(***************************************************************************)
(* What the searches compute.                                              *)
(***************************************************************************)

\* The packages seen in the end are the least set that has the point's and is
\* closed under importers: the tests kept are those that depend on the point.
LEMMA AllowedIsLeast ==
  ASSUME IInv, point.path \in allowed, pkgQueue = {}
  PROVE  Depending = {t \in tests : t.path \in allowed}
<1>1. allowed \in SUBSET Paths /\ ClosedUnderImporters(allowed)
  BY DEF IInv, TypeOK, PkgSearch, ClosedUnderImporters
<1>2. \A T \in SUBSET Paths : ClosedUnderImporters(T) => allowed \subseteq T
  BY DEF IInv, PkgSearch
<1> DEFINE Next1 == [s \in Paths |-> Importers(s)]
           Closed == {T \in SUBSET Paths : {point.path} \subseteq T /\ \A s \in T : Next1[s] \subseteq T}
<1>3. Closed = {T \in SUBSET Paths : ClosedUnderImporters(T)}
  BY DEF ClosedUnderImporters
<1>4. {s \in Paths : \A T \in Closed : s \in T} = allowed
  BY <1>1, <1>2, <1>3
<1>5. LeastClosed(Paths, {point.path}, Importers) = {s \in Paths : \A T \in Closed : s \in T}
  BY DEF LeastClosed
<1> QED BY <1>4, <1>5 DEF Depending

\* The functions seen in the end are the least set that has those the search
\* began at and is closed under callers.
LEMMA FuncsAreLeast ==
  ASSUME IInv, Origin \subseteq funcs, funcQueue = {}
  PROVE  /\ Reaching(Origin) = {t \in tests : FuncsOfTest(project, backend, t) \cap funcs # {}}
         /\ \A S \in SUBSET funcs :
                Reaching(S) \subseteq {t \in tests : FuncsOfTest(project, backend, t) \cap funcs # {}}
<1>1. funcs \in SUBSET AllFunctions /\ ClosedUnderCallers(funcs)
  BY DEF IInv, TypeOK, FuncSearch, ClosedUnderCallers
<1>2. \A T \in SUBSET AllFunctions : ClosedUnderCallers(T) => funcs \subseteq T
  BY DEF IInv, FuncSearch
<1> DEFINE Next1 == [s \in AllFunctions |-> Callers(s)]
           Closed(S) == {T \in SUBSET AllFunctions : S \subseteq T /\ \A s \in T : Next1[s] \subseteq T}
           Least(S) == {s \in AllFunctions : \A T \in Closed(S) : s \in T}
<1>3. \A S : LeastClosed(AllFunctions, S, Callers) = Least(S)
  BY DEF LeastClosed
<1>4. Closed(Origin) = {T \in SUBSET AllFunctions : ClosedUnderCallers(T)}
  BY DEF ClosedUnderCallers
<1>5. Least(Origin) = funcs
  BY <1>1, <1>2, <1>4
<1>6. ASSUME NEW S \in SUBSET funcs PROVE Least(S) \subseteq funcs
  <2>1. funcs \in Closed(S)
    BY <1>1, <1>6 DEF ClosedUnderCallers
  <2> QED BY <2>1
<1>7. \A S : Reaching(S) = {t \in tests : FuncsOfTest(project, backend, t) \cap Least(S) # {}}
  <2> HIDE DEF Least
  <2> QED BY <1>3 DEF Reaching
<1> HIDE DEF Least
<1> QED BY <1>5, <1>6, <1>7

\* With the AST backend the pruning loses no candidate.
LEMMA CandidatesDepend ==
  ASSUME IInv, backend = "ast", candidate = Found, Origin # {}
  PROVE  \A t \in candidate : t.path \in allowed
<1> SUFFICES ASSUME NEW t \in candidate PROVE t.path \in allowed
  OBVIOUS
<1>1. t \in tests /\ <<t.id, t.name>> \in funcs
  BY DEF Found, FuncsOfTest
<1>2. PICK pkg \in Packages(project.pkgs) : t.id = pkg.id /\ t.path = pkg.path
  BY <1>1, TestsType DEF IInv, TypeOK
<1> QED BY <1>1, <1>2 DEF IInv, Resolved

-----------------------------------------------------------------------------
\* With the AST backend exactly the tests that reach the point's function are
\* selected, or else exactly those that depend on its package, for every project;
\* reaching by the calls as syntax resolves them, without types.
THEOREM ExactlyCorrect == Spec => []SelectedExactly
<1>1. ASSUME IInv PROVE SelectedExactly
  <2> SUFFICES ASSUME phase = "done", backend = "ast"
               PROVE  LET reaching == IF point.func = NoFunc THEN {}
                                      ELSE Reaching({<<point.id, point.func>>})
                      IN  selected = ByImportPath(IF reaching # {} THEN reaching ELSE Depending)
    BY DEF SelectedExactly
  <2>1. Decided
    BY <1>1 DEF IInv
  <2>2. CASE tests = {} /\ selected = <<>>
    <3>1. Depending = {} /\ \A S : Reaching(S) = {}
      BY <2>2 DEF Depending, Reaching
    <3>2. ByImportPath({}) = <<>>
      BY DEF ByImportPath
    <3> QED BY <2>2, <3>1, <3>2
  <2>3. CASE /\ point.path \in allowed /\ pkgQueue = {}
             /\ Origin \subseteq funcs /\ funcQueue = {}
             /\ candidate = Found
             /\ selected = ByImportPath({t \in IF candidate = {} THEN tests ELSE candidate :
                                             t.path \in allowed})
    <3>1. Depending = {t \in tests : t.path \in allowed}
      BY <1>1, <2>3, AllowedIsLeast
    <3>2. CASE point.func = NoFunc
      <4>1. candidate = tests
        BY <2>3, <3>2 DEF Origin, StartOf, Found
      <4>2. {t \in IF candidate = {} THEN tests ELSE candidate : t.path \in allowed} = Depending
        BY <3>1, <4>1
      <4> QED BY <2>3, <3>2, <4>2
    <3>3. CASE point.func # NoFunc
      <4>1. Origin = {<<point.id, point.func>>}
        BY <3>3 DEF Origin, StartOf
      <4>2. candidate = Reaching({<<point.id, point.func>>})
        BY <1>1, <2>3, <4>1, FuncsAreLeast DEF Found
      <4>3. \A t \in candidate : t.path \in allowed
        BY <1>1, <2>3, <4>1, CandidatesDepend
      <4>4. {t \in IF candidate = {} THEN tests ELSE candidate : t.path \in allowed}
                = IF candidate # {} THEN candidate ELSE Depending
        BY <3>1, <4>3
      <4> QED BY <2>3, <3>3, <4>2, <4>4
    <3> QED BY <3>2, <3>3
  <2> QED BY <2>1, <2>2, <2>3 DEF Decided
<1> QED BY <1>1, IInvCorrect, PTL

\* With a call graph, whatever it is, every test that reaches the mutated
\* function in any variant of its package, and depends on it, is selected.
THEOREM VariantsCorrect == Spec => []BothVariants
<1>1. ASSUME IInv PROVE BothVariants
  <2> SUFFICES ASSUME phase = "done", backend \in {"rta", "cha"}, point.func # NoFunc,
                      NEW t \in Reaching(MutatedVariants) \cap Depending
               PROVE  t.path \in DOMAIN selected /\ t.name \in selected[t.path]
    BY DEF BothVariants
  <2>0. t \in tests
    BY DEF Depending
  <2>1. /\ point.path \in allowed /\ pkgQueue = {}
        /\ Origin \subseteq funcs /\ funcQueue = {}
        /\ candidate = Found
        /\ selected = ByImportPath({u \in IF candidate = {} THEN tests ELSE candidate :
                                        u.path \in allowed})
    BY <1>1, <2>0 DEF IInv, Decided
  <2>2. t.path \in allowed
    BY <1>1, <2>1, AllowedIsLeast
  <2>3. MutatedVariants \subseteq funcs
    <3>1. MutatedVariants \subseteq Origin
      BY DEF MutatedVariants, Origin, StartOf, Seeds, DeclToFunc
    <3> QED BY <2>1, <3>1
  <2>4. t \in candidate
    BY <1>1, <2>1, <2>3, FuncsAreLeast DEF Found
  <2> DEFINE kept == {u \in IF candidate = {} THEN tests ELSE candidate : u.path \in allowed}
  <2>5. t \in kept /\ kept \subseteq Tests(project)
    BY <1>1, <2>2, <2>4 DEF IInv, TypeOK
  <2> HIDE DEF kept
  <2>6. selected = ByImportPath(kept)
    BY <2>1 DEF kept
  <2> QED BY <1>1, <2>5, <2>6, ByImportPathType DEF IInv
<1> QED BY <1>1, IInvCorrect, PTL

\* A mutant is left without tests only if no test depends on its package, or by
\* a call graph all of whose callers of it are in packages that do not.
THEOREM EmptyCorrect == Spec => []EmptyOnlyIfNothingDepends
<1>1. ASSUME IInv PROVE EmptyOnlyIfNothingDepends
  <2> SUFFICES ASSUME phase = "done", selected = <<>>, Depending # {}
               PROVE  candidate # {} /\ candidate \cap Depending = {} /\ backend # "ast"
    BY DEF EmptyOnlyIfNothingDepends
  <2>0. tests # {}
    BY DEF Depending
  <2>1. /\ point.path \in allowed /\ pkgQueue = {}
        /\ Origin \subseteq funcs /\ funcQueue = {}
        /\ candidate = Found
        /\ selected = ByImportPath({u \in IF candidate = {} THEN tests ELSE candidate :
                                        u.path \in allowed})
    BY <1>1, <2>0 DEF IInv, Decided
  <2>2. Depending = {t \in tests : t.path \in allowed}
    BY <1>1, <2>1, AllowedIsLeast
  <2> DEFINE kept == {u \in IF candidate = {} THEN tests ELSE candidate : u.path \in allowed}
  <2>3. kept = {}
    <3>1. kept \subseteq Tests(project) /\ selected = ByImportPath(kept)
      BY <1>1, <2>1 DEF IInv, TypeOK
    <3>2. DOMAIN selected = {u.path : u \in kept}
      <4> HIDE DEF kept
      <4> QED BY <1>1, <3>1, ByImportPathType DEF IInv
    <3>3. DOMAIN selected = {}
      OBVIOUS
    <3> HIDE DEF kept
    <3> QED BY <3>2, <3>3
  <2>4. candidate # {}
    BY <2>2, <2>3
  <2>5. candidate \cap Depending = {}
    BY <2>2, <2>3, <2>4
  <2>6. backend # "ast"
    <3>1. CASE backend = "ast" /\ Origin = {}
      <4>1. candidate = tests
        BY <2>1, <3>1 DEF Found
      <4> QED BY <2>2, <2>5, <4>1
    <3>2. CASE backend = "ast" /\ Origin # {}
      <4>1. \A t \in candidate : t.path \in allowed
        BY <1>1, <2>1, <3>2, CandidatesDepend
      <4> QED BY <2>3, <2>4, <4>1
    <3> QED BY <3>1, <3>2
  <2> QED BY <2>4, <2>5, <2>6
<1> QED BY <1>1, IInvCorrect, PTL
=============================================================================

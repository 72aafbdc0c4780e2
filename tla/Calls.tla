-------------------------------- MODULE Calls --------------------------------
(***************************************************************************)
(* Loaded packages, as far as discovery and selection read them            *)
(* (internal/project/types.go), and the resolution of a call to a          *)
(* top-level function (internal/selection/resolve.go).                     *)
(*                                                                         *)
(* A package is loaded once for each of its variants: "p" and              *)
(* "p [p.test]" have one import path and two IDs.  An ID is a number, its  *)
(* rank in the sorted order of IDs.  Functions are known by package ID and *)
(* name only, so a method and a function of one name are the same key.     *)
(***************************************************************************)
EXTENDS Integers, Sequences, FiniteSets, FiniteSetsExt

CONSTANTS
    Paths,      \* import paths
    Names,      \* names of functions
    Idents,     \* identifiers a package can be imported under
    NoIdent,    \* the qualifier of a call f(): none
    EngineRun,  \* what a call of the method Run of graft.Engine denotes
    NoTarget    \* what a call of anything else but a top-level function denotes

ASSUME NoIdentAssumption == NoIdent \notin Idents

(***************************************************************************)
(* A call as it is written and as it is typed.  f() has no qualifier and   *)
(* x.f() the qualifier x, which may name an import, but also a variable.   *)
(* The target is what types.Info.Uses gives for the function, if that is a *)
(* top-level one or Engine.Run.  A call written otherwise, as f[int]() is, *)
(* is like one whose qualifier is not imported and that has no target:     *)
(* nothing resolves it.                                                    *)
(***************************************************************************)
Call ==
    {call \in [qual : Idents \cup {NoIdent}, name : Names,
               target : (Paths \X Names) \cup {EngineRun, NoTarget}] :
        call.target \in Paths \X Names => call.target[2] = call.name}

\* A declaration with a body: a function, or a method if it is not at the top
\* level.  Its position is its place in a file, the same in all the variants
\* that hold the file.
IsDecl(d) ==
    /\ {"name", "pos", "top", "calls"} \subseteq DOMAIN d
    /\ d.name \in Names /\ d.pos \in Nat /\ d.top \in BOOLEAN /\ d.calls \subseteq Call

\* What is read of a file of a package.
IsFileOf(imports, file) ==
    /\ file.aliases \in UNION {[A -> imports] : A \in SUBSET Idents}
    /\ Len(file.decls) \in Nat /\ DOMAIN file.decls = 1 .. Len(file.decls)
    /\ \A d \in DOMAIN file.decls : IsDecl(file.decls[d])

\* project.Package.  Its files are those of GoFiles, in order, for which there
\* is a syntax tree; a file has a name that ends in _test.go or not, and the map
\* from identifier to imported path; what a file imports its package imports.
IsPackage(pkg) ==
    /\ pkg.id \in Nat /\ pkg.path \in Paths /\ pkg.imports \subseteq Paths
    /\ Len(pkg.files) \in Nat /\ DOMAIN pkg.files = 1 .. Len(pkg.files)
    /\ \A f \in DOMAIN pkg.files :
           /\ pkg.files[f].test \in BOOLEAN
           /\ IsFileOf(pkg.imports, pkg.files[f])

ArePackages(pkgs) ==
    /\ Len(pkgs) \in Nat /\ DOMAIN pkgs = 1 .. Len(pkgs)
    /\ \A k \in DOMAIN pkgs : IsPackage(pkgs[k])
    /\ \A k, m \in DOMAIN pkgs : pkgs[k].id = pkgs[m].id => k = m

Packages(pkgs) == {pkgs[k] : k \in DOMAIN pkgs}

Decls(pkg) == UNION {{pkg.files[f].decls[d] : d \in DOMAIN pkg.files[f].decls} :
                        f \in DOMAIN pkg.files}
DeclNames(pkg) == {d.name : d \in Decls(pkg)}

KeysOf(pkgs) == UNION {{<<pkg.id, n>> : n \in DeclNames(pkg)} : pkg \in Packages(pkgs)}

\* Any key at all: what passes for known where nobody checks.
AnyKey == Nat \X Names

-----------------------------------------------------------------------------
\* BuildByImport.
IdsOf(pkgs, path) == {pkg.id : pkg \in {q \in Packages(pkgs) : q.path = path}}

\* Seeded bug: the first ID of the path is taken, whether it has the function
\* or not.
BugLookup(pkgs, current, path, name, known) ==
    LET ids == IdsOf(pkgs, path)
    IN  IF ids = {} THEN {}
        ELSE {<<IF current \in ids THEN current ELSE Min(ids), name>>} \cap known

\* The key of a function of a path, in a set that is empty if there is none: of
\* several IDs with the path and the function the caller's own is preferred,
\* then the first.
Lookup(pkgs, current, path, name, known) ==
    LET ids == {i \in IdsOf(pkgs, path) : <<i, name>> \in known}
    IN  IF ids = {} THEN {}
        ELSE {<<IF current \in ids THEN current ELSE Min(ids), name>>}

\* resolveByTypes.
ByTypes(pkgs, current, call, known) ==
    IF call.target \notin Paths \X Names THEN {}
    ELSE Lookup(pkgs, current, call.target[1], call.target[2], known)

\* Seeded bug: the caller's package is not asked whether it has the function.
BugBySyntax(pkgs, current, call, aliases, known) ==
    IF call.qual = NoIdent THEN {<<current, call.name>>}
    ELSE IF call.qual \notin DOMAIN aliases THEN {}
    ELSE Lookup(pkgs, current, aliases[call.qual], call.name, known)

\* resolveBySyntax.
BySyntax(pkgs, current, call, aliases, known) ==
    IF call.qual = NoIdent THEN {<<current, call.name>>} \cap known
    ELSE IF call.qual \notin DOMAIN aliases THEN {}
    ELSE Lookup(pkgs, current, aliases[call.qual], call.name, known)

\* ResolveFunctionCall: by types first, and what they do not say by syntax.
Resolve(pkgs, current, call, aliases, known) ==
    LET typed == ByTypes(pkgs, current, call, known)
    IN  IF typed # {} THEN typed ELSE BySyntax(pkgs, current, call, aliases, known)
=============================================================================

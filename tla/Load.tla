-------------------------------- MODULE Load --------------------------------
(***************************************************************************)
(* The project loader (internal/project/load.go): what go/packages loaded, *)
(* test variants included, becomes the list of packages all else works on. *)
(*                                                                         *)
(* A file is a number: its rank in the sorted order of cleaned absolute    *)
(* paths.                                                                  *)
(***************************************************************************)
EXTENDS Calls, Listing, SequencesExt

CONSTANTS
    TestFiles,  \* the files whose name ends in _test.go
    BaseOf,     \* for each file its base name
    Loads       \* the lists of packages go/packages may return

\* A packages.Package.  A syntax tree says at which file it is: for a compiled
\* file with a //line comment before its package clause, such as cgo writes, that
\* is the file the comment names.  Its nodes are listed in preorder.
IsRaw(raw) ==
    /\ raw.id \in Nat /\ raw.path \in Paths /\ raw.imports \subseteq Paths
    /\ raw.main \in BOOLEAN /\ raw.errors \in BOOLEAN
    /\ raw.goFiles \in Seq(DOMAIN BaseOf) /\ raw.compiled \in Seq(DOMAIN BaseOf)
    /\ Len(raw.syntax) \in Nat /\ DOMAIN raw.syntax = 1 .. Len(raw.syntax)
    /\ \A k \in DOMAIN raw.syntax :
           /\ {"at", "aliases", "decls", "nodes"} = DOMAIN raw.syntax[k]
           /\ IsFileOf(raw.imports, raw.syntax[k])

\* The declarations of all files, each with the path of its package.
DeclsIn(raws) ==
    UNION {UNION {{<<raws[k].path, d>> : d \in Range(raws[k].syntax[t].decls)} :
                  t \in DOMAIN raws[k].syntax} : k \in DOMAIN raws}

\* Where there is no error a function that is called is declared once: all the
\* variants of its package are loaded from the same file.  (Of functions named
\* init there may be many.)
ASSUME LoadsAssumption ==
    \A raws \in Loads :
        /\ Len(raws) \in Nat /\ DOMAIN raws = 1 .. Len(raws)
        /\ \A k \in DOMAIN raws : IsRaw(raws[k])
        /\ \A k, m \in DOMAIN raws : raws[k].id = raws[m].id => k = m
        /\ \A x, y, z \in DeclsIn(raws) : \A call \in z[2].calls :
               /\ \A k \in DOMAIN raws : ~raws[k].errors
               /\ call.target = <<x[1], x[2].name>> /\ call.target = <<y[1], y[2].name>>
               /\ x[2].top /\ y[2].top
               => x = y
ASSUME FilesAssumption == TestFiles \subseteq DOMAIN BaseOf /\ DOMAIN BaseOf \subseteq Nat

VARIABLES
    loaded,     \* what go/packages returns
    stage,      \* how far Engine.Run has come
    pkgs        \* Project.Packages

loadVars == <<loaded, stage, pkgs>>

-----------------------------------------------------------------------------
\* cleanAbsPaths: sorted, without duplicates.
CleanAbsPaths(paths) == Ascending(Range(paths))

\* resolveCompiledFile: the first compiled file of the same base name, if any.
CompiledFile(compiled, file) ==
    LET same == {k \in DOMAIN compiled : BaseOf[compiled[k]] = BaseOf[file]}
    IN  IF same = {} THEN file ELSE compiled[Min(same)]

\* buildPackage.  Of syntax trees that claim one file the last is kept; a Go file
\* that none claims has no declarations and no nodes for anyone.
BuildPackage(raw) ==
    LET At(file) == {k \in DOMAIN raw.syntax : raw.syntax[k].at = file}
        compiled == CleanAbsPaths(raw.compiled)
        File(file) ==
            LET tree == raw.syntax[Max(At(file))]
            IN  [file |-> file, test |-> file \in TestFiles,
                 compiled |-> CompiledFile(compiled, file),
                 aliases |-> tree.aliases, decls |-> tree.decls, nodes |-> tree.nodes]
        files == Ascending({file \in Range(raw.goFiles) : At(file) # {}})
    IN  [id |-> raw.id, path |-> raw.path, imports |-> raw.imports,
         files |-> [k \in DOMAIN files |-> File(files[k])]]

\* The packages of other modules are dropped, and those without any file.
IsKept(raw) == raw.main /\ (raw.goFiles # <<>> \/ raw.compiled # <<>>)

-----------------------------------------------------------------------------
LoadInit ==
    /\ loaded \in Loads
    /\ stage = "load"
    /\ pkgs = <<>>

\* go/packages fails, or one of the packages it returns has an error, be it of
\* the main module or not.
LoadFails ==
    /\ stage = "load"
    /\ stage' = "failed"
    /\ UNCHANGED <<loaded, pkgs>>

LoadOK ==
    /\ stage = "load"
    /\ \A k \in DOMAIN loaded : ~loaded[k].errors
    /\ stage' = "discover"
    /\ LET kept == Ascending({k \in DOMAIN loaded : IsKept(loaded[k])})
       IN  pkgs' = [k \in DOMAIN kept |-> BuildPackage(loaded[kept[k]])]
    /\ UNCHANGED loaded
=============================================================================

------------------------------ MODULE Collect ------------------------------
(***************************************************************************)
(* The collection of mutation points (internal/mutation/collect.go): a     *)
(* walk over the syntax trees of all files that are no test files, which   *)
(* records every node of a type some rule is for, with the path to it and  *)
(* the function around it.                                                 *)
(*                                                                         *)
(* ast.Inspect calls the function it is given for every node before its    *)
(* children and with nil after them.  A node is listed in preorder as its  *)
(* depth, its type and, if it is a function declaration, its name.         *)
(***************************************************************************)
EXTENDS Load

CONSTANTS
    Types,      \* the concrete types of nodes
    FuncDecl,   \* that of a function declaration
    NoFunc      \* the enclosing function of a point outside any function

ASSUME TypesAssumption == FuncDecl \in Types /\ NoFunc \notin Names

\* A tree in preorder has its root first and every other node below it, at most
\* one level below the node before.
IsPreorder(nodes) ==
    /\ Len(nodes) \in Nat \ {0} /\ DOMAIN nodes = 1 .. Len(nodes)
    /\ nodes[1].depth = 1
    /\ \A n \in 2 .. Len(nodes) : nodes[n].depth \in 2 .. nodes[n - 1].depth + 1

ASSUME NodesAssumption ==
    \A loads \in Loads : \A k \in DOMAIN loads : \A t \in DOMAIN loads[k].syntax :
        IsPreorder(loads[k].syntax[t].nodes)

VARIABLES
    targetTypes,    \* the types some rule is for
    files,          \* the <<package, file>> still to walk, as their indices
    walking,        \* whether a file, the first of them, is being walked
    node,           \* the number of nodes of it that were entered
    pathStack,      \* the nodes entered and not left
    funcStack,      \* the function declarations among them
    points

collectVars == <<targetTypes, files, walking, node, pathStack, funcStack, points>>

\* The file of each package and file number.
FileAt(at) == pkgs[at[1]].files[at[2]]

\* GoFiles of all packages but the test files.
FilesToWalk ==
    InLoopOrder(UNION {{<<k, f>> : f \in {g \in DOMAIN pkgs[k].files : ~FileAt(<<k, g>>).test}} :
                       k \in DOMAIN pkgs})

Nodes == FileAt(Head(files)).nodes

-----------------------------------------------------------------------------
CollectInit ==
    /\ targetTypes \in SUBSET Types
    /\ files = <<>> /\ walking = FALSE
    /\ node = 0 /\ pathStack = <<>> /\ funcStack = <<>>
    /\ points = <<>>

\* Without a type to look for nothing is walked.
BeginCollect ==
    /\ stage = "collect"
    /\ stage' = "walk"
    /\ files' = IF targetTypes = {} THEN <<>> ELSE FilesToWalk
    /\ UNCHANGED <<loaded, pkgs, targetTypes, walking, node, pathStack, funcStack, points>>

OpenFile ==
    /\ stage = "walk" /\ files # <<>> /\ ~walking
    /\ walking' = TRUE
    /\ node' = 0 /\ pathStack' = <<>> /\ funcStack' = <<>>
    /\ UNCHANGED <<loadVars, targetTypes, files, points>>

\* The next node is a child of the last one entered and not left.
AtChild == node < Len(Nodes) /\ Nodes[node + 1].depth = Len(pathStack) + 1

Point(n, path, funcs) ==
    [id |-> pkgs[Head(files)[1]].id, file |-> FileAt(Head(files)).file,
     compiled |-> FileAt(Head(files)).compiled,
     node |-> n, path |-> path,
     func |-> IF funcs = <<>> THEN NoFunc ELSE Nodes[funcs[Len(funcs)]].name]

Enter ==
    LET n == node + 1
        path == Append(pathStack, n)
        funcs == IF Nodes[n].type = FuncDecl THEN Append(funcStack, n) ELSE funcStack
    IN  /\ walking /\ AtChild
        /\ node' = n
        /\ pathStack' = path
        /\ funcStack' = funcs
        /\ points' = IF Nodes[n].type \in targetTypes THEN Append(points, Point(n, path, funcs))
                     ELSE points
        /\ UNCHANGED <<loadVars, targetTypes, files, walking>>

\* Seeded bug: a function declaration is left, but still around what follows.
BugLeave ==
    /\ walking /\ ~AtChild /\ pathStack # <<>>
    /\ pathStack' = Front(pathStack)
    /\ UNCHANGED <<loadVars, targetTypes, files, walking, node, funcStack, points>>

Leave ==
    LET last == pathStack[Len(pathStack)]
    IN  /\ walking /\ ~AtChild /\ pathStack # <<>>
        /\ pathStack' = Front(pathStack)
        /\ funcStack' = IF Nodes[last].type = FuncDecl /\ funcStack # <<>> THEN Front(funcStack)
                        ELSE funcStack
        /\ UNCHANGED <<loadVars, targetTypes, files, walking, node, points>>

CloseFile ==
    /\ walking /\ node > 0 /\ pathStack = <<>>
    /\ walking' = FALSE
    /\ files' = Tail(files)
    /\ UNCHANGED <<loadVars, targetTypes, node, pathStack, funcStack, points>>

CollectDone ==
    /\ stage = "walk" /\ files = <<>>
    /\ stage' = "prepared"
    /\ UNCHANGED <<loaded, pkgs, collectVars>>

CollectNext ==
    BeginCollect \/ OpenFile \/ Enter \/ Leave \/ CloseFile \/ CollectDone

-----------------------------------------------------------------------------
CollectTypeOK ==
    /\ targetTypes \subseteq Types
    /\ walking => files # <<>>
    /\ walking => /\ node \in 0..Len(Nodes)
                  /\ \A k \in DOMAIN pathStack : Nodes[pathStack[k]].depth = k
                  /\ Range(funcStack) \subseteq Range(pathStack)

(***************************************************************************)
(* A tree listed in preorder, without a stack: a node's ancestor at some   *)
(* depth is the last node of that depth that is not after it.              *)
(***************************************************************************)
Ancestor(nodes, n, depth) == Max({m \in 1..n : nodes[m].depth = depth})
PathTo(nodes, n) == [d \in 1..nodes[n].depth |-> Ancestor(nodes, n, d)]
FuncAround(nodes, n) ==
    LET funcs == {m \in Range(PathTo(nodes, n)) : nodes[m].type = FuncDecl}
    IN  IF funcs = {} THEN NoFunc ELSE nodes[Max(funcs)].name

\* The points a file of a raw package should give.
PointsOf(raw, file) ==
    LET tree == raw.syntax[Max({k \in DOMAIN raw.syntax : raw.syntax[k].at = file})]
    IN  {[id |-> raw.id, file |-> file, compiled |-> CompiledFile(CleanAbsPaths(raw.compiled), file),
          node |-> n, path |-> PathTo(tree.nodes, n), func |-> FuncAround(tree.nodes, n)] :
            n \in {m \in DOMAIN tree.nodes : tree.nodes[m].type \in targetTypes}}

\* The files of a raw package that are to be mutated: Go files with a syntax
\* tree in the main module, but no test files.
MutatedFiles(raw) ==
    IF ~raw.main THEN {}
    ELSE {f \in Range(raw.goFiles) \ TestFiles : \E k \in DOMAIN raw.syntax : raw.syntax[k].at = f}

\* Every node of a target type in every variant of a package of the main module
\* gives one point, whose path leads to it and whose enclosing function, which
\* selection starts from, is the one around it; a file listed twice gives no
\* point twice, nothing in a test file or another module gives one, and a
\* package's points are in the order of its files and nodes, from which mutant
\* IDs follow (Collect, cleanAbsPaths, buildPackage).
CollectsExactly ==
    stage = "prepared" =>
        /\ Range(points) = UNION {UNION {PointsOf(raw, f) : f \in MutatedFiles(raw)} :
                                  raw \in Range(loaded)}
        /\ \A j, k \in DOMAIN points :
               j < k /\ points[j].id = points[k].id =>
                   \/ points[j].file < points[k].file
                   \/ points[j].file = points[k].file /\ points[j].node < points[k].node
=============================================================================

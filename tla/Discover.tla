------------------------------ MODULE Discover ------------------------------
(***************************************************************************)
(* Test discovery (internal/selection/discover.go): which of the tests of  *)
(* the loaded packages may be run against mutants.  A test that reaches    *)
(* Engine.Run would start the mutation test again from within, so that it  *)
(* is left out, unless a directive decides.                                *)
(*                                                                         *)
(* A declaration d also has d.test, whether its signature is that of a     *)
(* test, and d.directives, those in its doc comment.                       *)
(***************************************************************************)
EXTENDS Load

ASSUME DeclsAssumption ==
    \A raws \in Loads : \A x \in DeclsIn(raws) :
        x[2].test \in BOOLEAN /\ x[2].directives \subseteq {"include", "exclude"}

VARIABLES
    todo,       \* the tests found and not decided yet
    searching,  \* whether reachesEngineRun is under way, for the first of todo
    seen,       \* reachesEngineRun: the keys visited
    stack,      \* and those to visit
    included,   \* Result.Included
    excluded    \* the refs of Result.Excluded

discoverVars == <<todo, searching, seen, stack, included, excluded>>

-----------------------------------------------------------------------------
(***************************************************************************)
(* collectFunctions and buildCalls.  All the declarations of a package     *)
(* that share a name, in whichever files, share one functionInfo.          *)
(***************************************************************************)
\* The places of the declarations, as <<package, file, index>>.
Places ==
    UNION {UNION {{<<k, f, d>> : d \in DOMAIN pkgs[k].files[f].decls} : f \in DOMAIN pkgs[k].files} :
           k \in DOMAIN pkgs}
DeclAt(x) == pkgs[x[1]].files[x[2]].decls[x[3]]

PlacesOf(key) == {x \in Places : pkgs[x[1]].id = key[1] /\ DeclAt(x).name = key[2]}

\* parseDirective: include wins when both appear.
ParseDirective(d) ==
    CASE "include" \in d.directives -> "include"
      [] d.directives = {"exclude"} -> "exclude"
      [] d.directives = {} -> "none"

\* The directive of a key is that of the last declaration.
Directive(key) ==
    ParseDirective(DeclAt(CHOOSE x \in PlacesOf(key) : \A y \in PlacesOf(key) : ~Earlier(x, y)))

\* functionInfo.hasEngineRun.
CallsRun(d) == \E call \in d.calls : call.target = EngineRun
HasEngineRun(key) == \E x \in PlacesOf(key) : CallsRun(DeclAt(x))

\* functionInfo.calls: each body's calls, by the aliases of its own file.
CallsAt(x) ==
    LET aliases == pkgs[x[1]].files[x[2]].aliases
    IN  UNION {Resolve(pkgs, pkgs[x[1]].id, call, aliases, KeysOf(pkgs)) : call \in DeclAt(x).calls}
CallsOf(key) == UNION {CallsAt(x) : x \in PlacesOf(key)}

\* The tests in the order of the packages, their files and declarations.
TestAt(x) == [id |-> pkgs[x[1]].id, path |-> pkgs[x[1]].path, name |-> DeclAt(x).name]
AllTests ==
    LET found == InLoopOrder({x \in Places : DeclAt(x).top /\ DeclAt(x).test})
    IN  [k \in DOMAIN found |-> TestAt(found[k])]

KeyOf(test) == <<test.id, test.name>>

-----------------------------------------------------------------------------
(***************************************************************************)
(* The loop over the tests.  reachesEngineRun is a depth-first search that *)
(* stops when it meets a function with a call of Engine.Run; the order of  *)
(* its visits decides nothing, so the keys still to visit are a set here.  *)
(***************************************************************************)
DiscoverInit ==
    /\ todo = <<>> /\ searching = FALSE
    /\ seen = {} /\ stack = {}
    /\ included = <<>> /\ excluded = <<>>

FindTests ==
    /\ stage = "discover"
    /\ stage' = "decide"
    /\ todo' = AllTests
    /\ UNCHANGED <<loaded, pkgs, searching, seen, stack, included, excluded>>

Deciding == stage = "decide" /\ todo # <<>> /\ ~searching

IncludeByDirective ==
    /\ Deciding /\ Directive(KeyOf(Head(todo))) = "include"
    /\ included' = Append(included, Head(todo))
    /\ todo' = Tail(todo)
    /\ UNCHANGED <<loadVars, searching, seen, stack, excluded>>

ExcludeByDirective ==
    /\ Deciding /\ Directive(KeyOf(Head(todo))) = "exclude"
    /\ excluded' = Append(excluded, Head(todo))
    /\ todo' = Tail(todo)
    /\ UNCHANGED <<loadVars, searching, seen, stack, included>>

\* Seeded bug: what a search left on the stack is still there for the next.
BugBeginSearch ==
    /\ Deciding /\ Directive(KeyOf(Head(todo))) = "none"
    /\ searching' = TRUE
    /\ seen' = {}
    /\ stack' = stack \cup {KeyOf(Head(todo))}
    /\ UNCHANGED <<loadVars, todo, included, excluded>>

BeginSearch ==
    /\ Deciding /\ Directive(KeyOf(Head(todo))) = "none"
    /\ searching' = TRUE
    /\ seen' = {}
    /\ stack' = {KeyOf(Head(todo))}
    /\ UNCHANGED <<loadVars, todo, included, excluded>>

\* Seeded bug: a key is visited again although it has been seen.
BugVisit(key) ==
    /\ searching /\ key \in stack /\ ~HasEngineRun(key)
    /\ seen' = seen \cup {key}
    /\ stack' = (stack \ {key}) \cup CallsOf(key)
    /\ UNCHANGED <<loadVars, todo, searching, included, excluded>>

Visit(key) ==
    /\ searching /\ key \in stack /\ ~HasEngineRun(key)
    /\ seen' = seen \cup {key}
    /\ stack' = (stack \ {key}) \cup (CallsOf(key) \ (seen \cup {key}))
    /\ UNCHANGED <<loadVars, todo, searching, included, excluded>>

\* Seeded bug: the test goes on to be included.
BugReachesRun(key) ==
    /\ searching /\ key \in stack /\ HasEngineRun(key)
    /\ excluded' = Append(excluded, Head(todo))
    /\ included' = Append(included, Head(todo))
    /\ todo' = Tail(todo)
    /\ searching' = FALSE
    /\ UNCHANGED <<loadVars, seen, stack>>

ReachesRun(key) ==
    /\ searching /\ key \in stack /\ HasEngineRun(key)
    /\ excluded' = Append(excluded, Head(todo))
    /\ todo' = Tail(todo)
    /\ searching' = FALSE
    /\ UNCHANGED <<loadVars, seen, stack, included>>

DoesNotReachRun ==
    /\ searching /\ stack = {}
    /\ included' = Append(included, Head(todo))
    /\ todo' = Tail(todo)
    /\ searching' = FALSE
    /\ UNCHANGED <<loadVars, seen, stack, excluded>>

DiscoverDone ==
    /\ stage = "decide" /\ todo = <<>>
    /\ stage' = "collect"
    /\ UNCHANGED <<loaded, pkgs, discoverVars>>

DiscoverNext ==
    \/ FindTests
    \/ IncludeByDirective \/ ExcludeByDirective
    \/ BeginSearch
    \/ \E key \in stack : Visit(key) \/ ReachesRun(key)
    \/ DoesNotReachRun
    \/ DiscoverDone

-----------------------------------------------------------------------------
DiscoverTypeOK ==
    /\ Range(todo) \cup Range(included) \cup Range(excluded) \subseteq Range(AllTests)
    /\ searching => todo # <<>>
    /\ seen \cup stack \subseteq KeysOf(pkgs)

(***************************************************************************)
(* The program's own calls, to check the resolution against: from one      *)
(* declaration to another, whichever the variants, as they are typed.      *)
(***************************************************************************)
AllDecls == {<<pkgs[x[1]].id, pkgs[x[1]].path, DeclAt(x)>> : x \in Places}

SameName(x, y) == x[2] = y[2] /\ x[3].name = y[3].name

\* A function has its name to itself if no variant of its package has but a
\* method of that name: the function may be in a test file that only another
\* variant has.
NotShadowed(x) ==
    x[3].top /\ \A y \in AllDecls :
                   SameName(x, y) => \E z \in AllDecls : z[1] = y[1] /\ SameName(x, z) /\ z[3].top

TypedCalls ==
    [x \in AllDecls |->
        {y \in AllDecls : /\ NotShadowed(y)
                          /\ \E call \in x[3].calls : call.target = <<y[2], y[3].name>>}]

\* What a call may be taken for by who goes by names only: in the same package a
\* function or method of that name, in another one whose identifier it has, or
\* the function it calls, if that was imported without an identifier.
NamedCalls ==
    [x \in AllDecls |->
        {y \in AllDecls :
            \E call \in x[3].calls :
               /\ call.name = y[3].name
               /\ call.qual # NoIdent \/ y[1] = x[1] \/ call.target = <<y[2], y[3].name>>}]

\* Whether calls lead from some declarations to one that calls Engine.Run.
Closed(start, calls) ==
    {S \in SUBSET AllDecls : start \subseteq S /\ \A x \in S : calls[x] \subseteq S}
RunsFrom(start, calls) ==
    LET closed == Closed(start, calls)
    IN  \E x \in AllDecls : CallsRun(x[3]) /\ \A S \in closed : x \in S

\* What is declared under the name of a test, and the test alone.
Namesakes(t) == {x \in AllDecls : x[1] = t.id /\ x[3].name = t.name}
DeclsOfTest(t) == {x \in Namesakes(t) : x[3].top}

Decided == stage \in {"collect", "prepared"}

\* No test that is included reaches Engine.Run through calls of top-level
\* functions, in whatever variant of whichever package, except by a directive:
\* it would start the mutation test from within.  So the resolution of calls
\* misses none of the program's calls of functions (ResolveFunctionCall,
\* buildCalls, reachesEngineRun), but for those whose name a method bears alone
\* in some variant.
NoNestedRun ==
    Decided => \A t \in Range(included) :
                   RunsFrom(DeclsOfTest(t), TypedCalls) => Directive(KeyOf(t)) = "include"

\* A test is excluded only by a directive or because Engine.Run can be reached
\* over calls that have, at least, the names of the functions on the way,
\* starting at the test or at a method of its name: no test is lost for what
\* another one calls (DiscoverDetailed, reachesEngineRun).
ExcludedForCause ==
    Decided => \A t \in Range(excluded) :
                   \/ Directive(KeyOf(t)) = "exclude"
                   \/ RunsFrom(Namesakes(t), NamedCalls)

\* The members of s are those of t at some positions, in their order.
TakenFrom(s, t, positions) ==
    \E at \in [DOMAIN s -> positions] :
        /\ Range(at) = positions
        /\ \A k \in DOMAIN s : s[k] = t[at[k]]
        /\ \A j, k \in DOMAIN s : j < k => at[j] < at[k]

\* Every test of every variant is either included or excluded, once, and both
\* lists are in the order the tests were found in (DiscoverDetailed).
EachTestDecided ==
    Decided =>
        \E ins \in SUBSET DOMAIN AllTests :
            /\ TakenFrom(included, AllTests, ins)
            /\ TakenFrom(excluded, AllTests, DOMAIN AllTests \ ins)

\* docs/selection.md: "//gograft:include forces inclusion", "//gograft:exclude
\* forces exclusion" and "include wins when both appear".
DirectiveDecides ==
    Decided => \A t \in Range(AllTests) : \A x \in DeclsOfTest(t) :
                   /\ x[3].directives = {"exclude"} => t \notin Range(included)
                   /\ "include" \in x[3].directives => t \in Range(included)
=============================================================================

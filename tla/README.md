# go-graft in TLA+

go-graft is a mutation-testing library for Go.  A caller registers rules on an
`Engine` and calls `Run`: the engine loads the packages with their tests, finds
the AST nodes the rules apply to, lets each rule change a copy of each node,
writes every changed file to a temp directory of its own, runs the tests that
can reach the change with `go test -overlay`, and reports which mutants the
tests killed.  This directory holds the models of that program, what TLC checks
of them on small instances, and what TLAPS proves for all instances.

## The system

| part | state | operations | interacts with |
|---|---|---|---|
| rule registry (`internal/rule/registry.go`, `register.go`) | rules in order, rules by node type, a counter; a mutex | `Register`, `NextID`, `Add`, `Snapshot`, `RulesFor`, `TargetTypes`, `Apply` | called by any goroutine, also while an engine runs on a snapshot |
| engine (`engine.go`, `engine_run_helpers.go`) | locals of one `Run`: mutant number, immediate results, mutants to run | `Run`, `buildMutants`, `runMutants`, `composeReport` | calls all the others in turn |
| loader (`internal/project`) | the loaded packages | `Load` | go/packages; all later parts read its packages |
| collection (`internal/mutation/collect.go`) | stacks of a traversal | `Collect` | reads the loaded trees |
| AST clone (`internal/astclone`) | the clone maps | `ShallowCopyNode`, `DeepCopyNode`, `ClonePath` | shares nodes with the loaded trees and the callbacks |
| rule context (`internal/rule/context.go`) | clone-to-original map | `SetOriginal`, `Original`, `TypeOf` | given to a callback |
| call-swap rules (`internal/rule/*_swap.go`) | the two functions' names and types | the callbacks of `RegisterFunctionCallSwap`, `RegisterMethodCallSwap` | read originals through the context, rename in the copy |
| mutant builder (`internal/mutation/build.go`) | a temp directory per mutant | `Build` | the file system |
| discovery (`internal/selection/discover.go`) | functions with calls and directives | `DiscoverDetailed` | decides which tests exist for selection |
| selector backends (`backend_*.go`, `selector.go`) | a call graph, by syntax or from go/ssa | `NewSelectorWithOptions` with its fallbacks, `candidateTests` | golang.org/x/tools |
| selection (`internal/selection/select.go`) | reverse imports | `Select`, `reverseDependers` | once per mutant, from the engine |
| runner (`internal/execution/run.go`) | worker pool, channels, results by index | `Run`, `runOne` | `go test` processes, contexts, temp directories |
| report (`internal/execution/report.go`, `report.go`) | counters | `Summarize`, `MutationScore` | |

Hard behaviours: the pool's goroutines and two unbuffered channels; deadlines
and cancellation racing with commands that end; registration during a run;
pointers shared between the loaded trees, copies and callbacks; errors at each
of a dozen steps of building a mutant; graph searches over packages that are
loaded in several variants.  `PROJECT.json` lists them as hazards, each at its
line, with the properties that cover it or the reason none does.

What makes each part correct: the runner gives every mutant exactly one verdict,
the one its commands justify, and returns; the engine gives every attempt one
outcome and counts it; a run sees a constant set of rules; a mutant differs from
the loaded file in one place and the loaded tree is never written; discovery
lets no test run that would start the mutation test again, and excludes none
without cause; every node to be mutated gives one point; selection takes the tests that
reach the point by the callers its backend knows, and none without reason.  (The
AST backend knows callers by their syntax only: `select.go:155` resolves calls
without `types.Info`, where `docs/selection.md` describes types first.)

## Modules

**`Verdicts`** is the abstract specification of the runner: every mutant is
decided once, by an outcome its selection allows, and `Run` returns only when
all are decided.  `Runner` implements it; `Pipeline` uses it as its runner.

**`Runner`** models `Runner.Run` and `runOne` with their goroutines.  `main` and
`feeder` are where `Run` and the feeder are, `next` the feeder's loop index,
`out` the result slice.  For each worker `pc` is where it is in `runOne`, `job`
its mutant's index, `todo` the packages still to be tested, `cur` the package of
the command it runs, `cmdErr` the error of that command's context, `res` its
result.  `proc` and `dirs` are what is outside: the processes and the
directories.  A send on an unbuffered channel and its receive are one action
(`Dispatch`, `Collect`).  `StartCmd`, `WaitOK`, `WaitErr` and `Classify` split
`cmd.Run` so that a deadline can fall before the exit, between exit and
`cancel`, or on a process that has just passed.  Killing ends the `go` process;
it does not model the test binary that process started.  A killed command does
return from `Wait`: the go command pipes its test binary's output, so that no
one else holds the pipe the runner reads.

**`Registry`** models registration and runs side by side.  Each method of
`Registry` is a critical section and one action; `Register` without a name is
two.  The maps by type are objects of a heap, so that a snapshot that shared the
registry's map would be seen to change.

**`Pipeline`** models `Engine.Run`: its early returns (no rules; a preparation
that fails), then one action per way an attempt to make a mutant can end (an
error before the builder, no change, an early or late failure of `Build`, a
panic in `format.Node`, a mutant), the execution as `Verdicts` allows it, and
`composeReport`.  A plan is the sequence of attempts, a point with a rule, and
what each attempt's rule does.  The removal of an executed mutant's directory is
taken to succeed here; `Runner` also has it fail.

**`Prepare`** is what `Engine.Run` does before it builds, in three modules that
share the loaded packages and a `stage`:

* **`Load`** turns what go/packages returned into the project's packages: the
  errors that fail a run, the packages of other modules that are left out, the
  lists of cleaned, sorted files, the matching of syntax trees to files by the
  file a tree claims, the compiled file by base name.
* **`Discover`** decides each test: by the directive of its name, else by a
  search for a call of `Engine.Run` over the calls of functions.  `todo` are the
  tests to decide, `seen` and `stack` belong to `reachesEngineRun`.
* **`Collect`** is the `ast.Inspect` callback with its two stacks (`Enter`,
  `Leave`), file after file; a tree is its nodes in preorder with their depths.

**`Listing`** lists a finite set in the order a relation gives: sorted numbers,
and the places nested loops come to.  What the loops over packages, files and
declarations yield, and what sorting yields, is stated with it, since a fold or a
`SortSeq` has no form the prover could reason with.

**`Calls`** has no state: it holds packages with their declarations and calls,
and the resolution of a call (`ResolveFunctionCall`) by types where a type is
known and by syntax where not.  `Discover` and `Backends` both use it, as
`resolve.go` is used by both.  An ID is a number, its rank among the sorted IDs;
`p` and `p [p.test]` are two packages with one path.

**`Backends`** has the callers of a function as each backend sees them.  By
syntax: keys of package ID and name, the last body of a key, merged aliases.  By
SSA: a function per declaration per variant of a package that type-checks, the
seeds of a point, the functions of the tests.  The call graphs that RTA and CHA
return are computed by golang.org/x/tools and may be any relation.

**`Selection`** models the choice of a backend (`BuildOK`, `BuildFails`: rta,
cha, ast in the order of the mode, with RTA's recovered panic) and `Select` for
one point: the search for dependent packages, the search for callers, the
fallback to all tests, the pruning.  Its queues are sets: the order in which a
queue is served decides nothing.

**`AstClone`** models the pointers: the heap starts as the loaded file.  A node
has ordered slots, in the order in which `replaceChild` looks through a node's
fields (by name: a call's `Args` before its `Fun`, a selector's `Sel` before its
`X`, a file's `Comments` before its `Doc`), each of the static type of its field.
A node may be in several slots, as the parser makes it: a doc comment is in
`File.Comments` too, an `ImportSpec` in `File.Imports`, an identifier in
`Unresolved`; `ast.Walk` goes into none of these three (`Unwalked`).  `supported`
are the kinds that this build's generated `shallowCopy` knows.

`BeginShallow` and `CloneUp` allocate the copies that `shallowCopy` makes, and
`replaceChild` puts a copy into the first slot that holds the original and
accepts the copy.  The deep copy visits the walked slots: a node met for the
first time is copied and its slots come next (`DeepVisit`), one met again gets
the copy it has (`DeepMeet`), and a copy that cannot be made or has no place
fails the attempt (`DeepFails`).  A callback may edit its
input, put a new node in one of its slots, return a new node or one from below,
and edit a node below its input if that is a copy; with `EditsShared` also a
node it shares with the loaded file, which the slots of a shallow copy hold and,
in a deep copy of an `*ast.File`, those that were not filled.  `SwapFunction`,
`SwapMethod` and `Decline` are the callbacks of the two call-swap rules, which
ask for the types of the originals.  The mutated file's text is taken when it is
complete, as `Build` does.

**`RunnerProofs`**, **`RegistryProofs`**, **`PipelineProofs`**, **`SelectionProofs`**,
**`PrepareProofs`** and **`AstCloneProofs`** hold the theorems about the modules
they are named for.
`PrepareProofs` extends **`DiscoverProofs`**, which has the invariants of the
stages of loading and discovery, and **`ListingProofs`**, which has the lemmas on
lists.
`MC*` modules give the small instances.

Definitions named `Bug...` are seeded faults: each stands beside the definition
it would replace, is used by no specification, and shows that a property can
fail.

## Runs

| run | instance | shows |
|---|---|---|
| `runner` | 2 workers, 2 packages; batches: none, one mutant, three mutants with two, no and one package; 443,416 states | all of `Runner`'s properties |
| `runner_killed` | the same with `Workers` 0 (one worker) | violation, see below |
| `registry` | 3 registrations, 2 runs of up to 2 nodes, a concrete and an interface type, one explicit name; callers symmetric; 104,520 states | snapshot isolation, distinct default names, nothing lost |
| `registry_order` | the same | violation |
| `pipeline` | all plans of at most 3 attempts of 7 behaviours, with and without tests; 141,310 states | one outcome per attempt, directories, totals |
| `pipeline_nil`, `pipeline_dirs` | the same; well-behaved rules only | violations |
| `prepare` | 578 results of go/packages with 4 or 5 packages and all sets of 3 node types: helpers in test files, an external test package, recursion, variables named like functions, directives, a method named like a test or like a helper, a method that calls `Run`, unsorted and repeated files, cgo and generated files that claim others; 251,960 states | which tests may run, which points there are, termination |
| `prepare_directive` | the same | violation |
| `selection` | 217 projects of 4 packages (p in two variants, q, r's tests), with call graphs, packages that do not type-check and a dynamic call; every set of tests, every point, modes auto, cha and ast; 296,267 states | what each backend's selection includes, the fallbacks, termination |
| `astclone` | a file of 22 nodes with doc comments in two slots, an identifier in `Unresolved`, nodes shared within an expression; 2 attempts at the file itself or nodes in it, a node kind that one of two builds does not support, a swap of `f` for `g` with variables named `f`; 208,236 states | copies, clones and call swaps |
| `astclone_shared` | the same, `EditsShared` | violation |

Why these bounds are enough to be worth something: three mutants with two
workers is the least for which a worker takes a second job while another is
busy; two packages for a command before and after a failing one; two attempts on
one file for one to disturb the other; three attempts for an errored, a built
and an unchanged one in any order; three levels of packages and recursion
between two functions for the searches to go further than one step and to meet
a cycle; a shared name in p for a body to be overwritten; a test in p's own test
variant and one in another package for a selection to miss one of them; a
helper exported by a test file and called from the external test package for a
call to be resolved to the wrong variant; two tests in one list for a search to
leave something to the next.  Registrations need three for one to come between
two others.  Mode rta is left out of `selection` because it tries exactly what
auto tries.

Deadlock is checked in every run: each specification has an explicit stuttering
step for the states in which the program has ended.

What some properties say beyond their names.  `BothVariants`: a point in `p` may
be reached from `p`'s own tests only in `p [p.test]`, and from other packages'
tests only in `p`; whichever variant the point was collected in, the tests of
both are selected.  `NoNestedRun` compares the resolution of calls with the calls
as they are typed, across variants, and has one exception, which the code has: a
function whose name some variant of its package declares for a method only,
whose body the search then reads in its place.  `ExcludedForCause` allows as much as calls by
name can reach.  `EmptyOnlyIfNothingDepends` has one exception, which the code
has: candidates found by a call graph, all pruned, do not bring the fallback
back.  `CollectsExactly` says which points there are without a traversal, from
what go/packages returned.  `SelectedExactly` is relative to the callers the
backend knows: for AST those its syntactic resolution finds, so that a call which
only types would resolve is not among them.  `DeepCopyMirrors` says exactly what a
deep copy of an `*ast.File` leaves out: `replaceChild` finds a file's doc comment
in `Comments` and puts its copy there, so that the copy's `Doc`, its other
`Comments`, `Imports` and `Unresolved` still hold loaded nodes, for which
`Context.Original` has no entry.  (`docs/public-api.md` says of `WithDeepCopy`
that it deep-copies the subtree.)  `SwapRenamesCallee` allows a method of the
function's name and package to be renamed, which the function swap does.

Fairness.  `Runner`: weak fairness of `Run`, the feeder and each worker (the Go
scheduler runs a goroutine that can run), of each command's deadline (a timer
fires) and of the kill that follows it.  None for the end of a test or of the
caller's context: a mutated loop may run forever, and `RunReturns` rests on the
timeout.  `Selection` and `Prepare`: weak fairness of their one sequential step.
The other specifications state none: their properties are safety.

### Violations: where the code and its documents differ

* `KilledMeansDetected`: any error of `cmd.Run` is `Killed`, also a mutant that
  does not compile, a command that cannot start, and every mutant after the
  caller has cancelled (`run.go:127`); `docs/execution.md` reserves `Killed` for
  detection by tests and files build failures under `Errored`.
* `DefaultNamesInOrder`: the number is drawn and the rule added in two critical
  sections (`register.go:48`); `docs/rule.md` says IDs follow registration
  order.
* `NilIsError`: a nil pointer of the rule's type passes `Apply`'s nil check
  (`register.go:76`), and the panic it causes in `format.Node` is not recovered;
  `docs/rule.md` says nil is treated as an error.
* `TempDirsRemoved`: `Build` leaves the directory behind when a later step
  fails (`build.go:65`); `docs/execution.md` says directories are removed.
* `OneReplacement`: a rule that edits a child of its shallow copy writes to the
  loaded tree, and later mutants of the file contain that edit too
  (`engine_run_helpers.go:151`); `docs/mutation.md` says a mutant is always one
  replacement.  A rule for `*ast.File` `WithDeepCopy` that edits the copy's `Doc`
  or `Imports` writes to it as well.
* `DirectiveDecides`: a declaration's directive is stored under its package and
  name, so that a method read after a test of the same name replaces the test's
  (`discover.go:143`); `docs/selection.md` says the directives force inclusion
  and exclusion.

## Proofs

### The pool (`RunnerProofs`)

`RunnerProofs` proves, for any number of workers, packages and batches, that
`Runner` keeps `TypeOK` and the five safety invariants the run checks, and that
it implements `Verdicts!Safety`.  The assumptions are those of `Runner`:
`Workers` is an integer, packages are positive numbers, batches are sequences of
sets of packages.

None of the invariants is inductive.  What is proved to be is
`IInv == TypeOK /\ Ownership /\ Progress /\ Dirs /\ Verdicted`:

* `Ownership` says in which phases the feeder, `Run` and the workers can be
  together, that a worker holds a mutant exactly while it is in `runOne`, and
  `EachInOnePlace`.  It is what makes the other parts local to one worker: two
  workers never touch the commands of one mutant (lemma `Owner`).
* `Progress` says what a worker's loop has done: the packages executed are the
  sorted beginning of those selected, all but the current one passed, none of
  the others was started; and that a running command belongs to a worker that
  waits for it.
* `Dirs` says that a mutant keeps its directory until its worker is past the
  loop.
* `Verdicted` says that each decided result, with a worker or collected, is the
  right one.

The frame lemmas (`SoFarFrame`, `CommandsFrame`, `VerdictedFrame`) say which
steps leave the parts alone; each part has one `Next...` lemma with a step per
action.  The refinement uses `IInv` to show that only `Collect` changes a
verdict, that it changes one from pending to an allowed outcome, and that
`Return` finds none pending.

### The registry (`RegistryProofs`)

For any number of calls of `Register`, of runs and of node types: `TypeOK`,
`DefaultNamesDiffer`, `RunsSeeTheirSnapshot` and `RegisteredOnce`.  Callers, runs
and types are any sets that `Registry`'s assumptions allow.  The invariant adds
to `TypeOK`

* `Named`: the name a call has settled on is its own or a number that was drawn;
* `Added`: the list holds the finished calls' rules, each once (`Listed`), and the
  registry's map holds, for each type, the list's rules of that type in order
  (`Mapped`);
* `Snapped`: a run that has begun has a map object of its own, which holds the
  rules of its snapshot's list by type.

It is the object of its own that matters: `Add` writes the registry's map only,
so that no step of another goroutine touches what a run reads.
`AreOfType(rules, defs, t)` says that `rules` are those of type `t` in `defs` by
an order-preserving map of positions, which `AppendOfType` and `AppendOther`
extend by one step; said with a filter it would need induction.

### The engine (`PipelineProofs`)

For any plans: `TypeOK`, `EachAttemptOnce`, `DirsMatchMutants` and
`ReportAddsUp`, with the runner as `Verdicts` allows it (which `Runner` is proved
to implement).  `Outcomes` says that the immediate results and the mutants have
between them exactly the attempts made so far that came to something, none
twice; `Dirs` that a mutant's directory is there until its verdict; `Reported`
that the report is composed of all of them.  The totals then follow by counting:
the lemmas `ColumnOfExecuted`, `ColumnOfErrored`, `IdsOfReport` and
`MutantsByTests` put each column's list positions and the plan's attempts in
bijection.

### Selection (`SelectionProofs`)

For every project: `TypeOK`, `SelectedExactly`, `BothVariants`,
`EmptyOnlyIfNothingDepends` and `ASTOnlyOnRequest`.  The assumptions are those of
`IsProject`: IDs differ, a file's aliases name what its package imports, a call
graph is a set of pairs; otherwise packages, calls and call graphs are any.

`PkgSearch` and `FuncSearch` say that what a search has found is contained in
every set that holds its start and is closed, and is itself closed but for the
queue; with an empty queue it is the least such set, which is how the properties
state it (`AllowedIsLeast`, `FuncsAreLeast`).  `Resolved` is the part that makes
the AST backend exact: each function it reaches is in a package that depends on
the point's, since a call is resolved within its package or to an imported path
(`SyntaxResolves`, `CallerDepends`); so pruning by dependencies drops no
candidate and the fallback cannot be pruned to nothing while a test depends on
the point.  For a call graph no such fact holds, and `BothVariants` and
`EmptyOnlyIfNothingDepends` say what is left.  `Building` says which backends
may have failed.

### Loading, discovery and collection (`DiscoverProofs`, `PrepareProofs`)

For every result of go/packages and every set of node types: `TypeOK`,
`EachTestDecided`, `NoNestedRun`, `ExcludedForCause` and `CollectsExactly`.  The
assumptions say of the input what the Go compiler and go/packages say of it:
`LoadsAssumption` (lists are finite, package IDs differ, a file's aliases name
what its package imports, a call has the name of the function it is typed as, and
where no package has errors a function that is called is declared once), `FilesAssumption` (every file has a
base name, and files are numbered in the order of their paths),
`NodesAssumption` (the nodes of a tree are in preorder), `DeclsAssumption`,
`TypesAssumption` and `NoIdentAssumption` (kinds of values).  TLC evaluates them
on the instance.

`IInv` has a part for each module, and only the part of the stage that runs can
change:

* `LoadInv`: the packages are those `Load` makes of the raw ones.  `ArePackages`,
  which `Selection` assumes of its project, follows from it: what the one model
  assumes is proved of the other.
* `DiscoverInv`: the tests still in `todo`, the one being searched and those
  decided are all tests, each once (`SplitInv`); what the search has `seen` is
  closed under calls but for its stack, and holds no key that calls `Run`
  (`ClearInv`), so that a test found clear by an empty stack cannot reach `Run`:
  everything typed calls reach lies in a closed set that does not (`NoNestedRun`);
  and whatever is on the stack is reached by calls by name (`CauseInv`), so that
  a test excluded has a cause.  The step from keys to typed calls needs that a
  name is declared once and not by a method alone (`NotShadowed`).  TLC found a
  project without the latter, and the property was given its exception.
* `CollectInv`: the listing of a file is its walk so far (`Walk`), the stacks are
  the ancestors of the next node and their functions (`IsStack`, `IsFuncStack`),
  and the points are those due for the files done and the nodes walked
  (`Walked`).  `CollectsExactly` asks for the same without a traversal, and the
  two meet in `DueIsPointsOf`: an ancestor by depth in the preorder list is what
  the stack holds.

The files, packages and tests are lists made of sets; `ListingProofs` shows that
such a list exists, holds each member once and in order, and that there is only
one (`LoopOrderIsList`).

### Copies and mutated files (`AstCloneProofs`)

For every loaded file, every set of node kinds that can be copied, every set of
slot types, any number of attempts and any rules: `TypeOK` and
`DeepCopyMirrors`; and `LoadedUntouched`, `OneReplacement` and
`SwapRenamesCallee` for rules that edit nothing their input shares with the
loaded file (`~EditsShared`), be it a shallow copy or a deep copy of a file.
That condition cannot be dropped: `astclone_shared` finds the violation without
it.  The assumptions are

* `LoadedAssumption`: what the parser makes has well-typed slots, a node is
  numbered after those that hold it, and only the file has slots that `ast.Walk`
  leaves out.  That it is a tree is not assumed, since it is none;
* `PositionsAssumption`: `Positions` has each way from the file down the slots of
  loaded nodes;
* `RulesAssumption`: `DenotesFrom` are loaded nodes.

TLC evaluates them on the instance.

`Base == TypeOK /\ LoadedKept /\ PhaseInv /\ DeepInv /\ ShallowInv` is
inductive without a condition on callbacks:

* `LoadedKept`: a loaded node keeps its kind and its slots, and, if callbacks
  edit nothing shared, its tag.  Every write goes to a node that was allocated in
  the same step or, by `PhaseInv`, to an input or a copy, none of which is a
  loaded node.
* `PhaseInv`: the path goes from the file to the point, each node in a slot of
  the one before; which of the traversal and the clone are under way.
* `DeepInv`: while `DeepCopyNode` runs and until the callback, a node has at most
  one copy, and each slot of a copy holds what the original's holds or its copy
  (`IsCopy`).  Which of the two is a matter of counting (`InOrder`): of the slots
  that hold one node, those that `replaceChild` has filled are the first, and
  they are as many as the walked ones that are no longer in `todo`.  With `todo`
  empty these are the slots `IsFilled` names (lemma `FilledAtLast`).  Two ways
  down the same slots, one in the copy and one in the original, then stay side by
  side (lemma `SideBySide`): on copies as long as the slots are filled
  (`CopiedAt`), and on one and the same node from the first that is not
  (`SharedAt`), which is a slot of a file, since elsewhere all slots are walked.
* `ShallowInv`: a shallow copy equals the point's node.

With `~EditsShared`, `CloneInv` and `BuiltInv` are added.  `CloneInv` says what
is read below the last clone, while `ClonePath` goes up: at each position whose
way does not come to the point, what the original reads (`ReadsAside`).  A
callback may return anything, so that the point is the exception; for a call
swap there is no such exception, but one position at which the clone reads `To`
and the original has a node of `DenotesFrom` (`Renames`).  `CloneUp` changes one
slot of a copy (`OneSlot`, `ReadsPut`): what is read behind the others stays, and
the position renamed gets one slot longer (`ReadsPrefixed`, `UpAside`,
`UpRenames`).  That the slot changed may be another than the one the path took
does not matter, since both hold the path's node, and nothing is said of it
but through its positions; so a node may be in several slots.  At the file,
`FileWritten` turns this into the text, and `BuiltInv` keeps it of every file
written.

`SpinesFollow` is where the rules meet the copies: a callback sees its copy, and
asks for the types of `Original(input)`; that the two calls have callees of one
shape, and that the identifier renamed in the copy is the copy of the one that
denotes `From`, follows from `DeepInv` or `ShallowInv`.  `SpineReads` has what
the call with the renamed spine reads like.

### Only model-checked

`RunReturns`, `SelectReturns` and `PrepareReturns` are liveness, which the prover
does not reach; the fairness they rest on is stated above.  Every other property
of a passing run has a theorem.

## Not modelled

The generator of `copy_replace.go`, a build-time tool; the API wrappers, which
forward in one line; the dogfood fixture; debug output and configuration
defaults, which change no state of a run.  Of parts that are modelled: the call
graphs of golang.org/x/tools are arbitrary, `go test` and the file system are
what the code can see of them, the parsing of runtime function names by the
call-swap rules and of test signatures is a flag or a given set, `Context.TypeOf`
is a lookup in go/types' tables.  A panic in the building of SSA or in CHA, which
nothing recovers (`backend_rta.go:66` recovers RTA's only), would end the program
and is left out.  The text of a file in `AstClone` has what each slot holds, also
where `format.Node` prints less (of comments those in `Comments`, and nothing of
`Imports`).  A test binary that outlives its killed `go`
command is outside of `Runner`.  Data is abstracted throughout: names, commands,
output, formatting, positions.

## Plan

Done, in the order of what can go wrong: `Runner` with `Verdicts`, `Registry`,
`Pipeline`, `AstClone`, `Selection` with `Backends`, `Prepare` with `Load`,
`Discover` and `Collect`; proofs about all of them.

1. A composition of `Registry` and `Pipeline`: two runs of one engine with a
   registration in between.  `RunsSeeTheirSnapshot` already says what each run
   works on, and runs share nothing else that is written.
2. What links `Pipeline` to `AstClone`: that an attempt of a plan that comes to a
   mutant is one whose path could be cloned.

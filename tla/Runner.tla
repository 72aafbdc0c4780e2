------------------------------- MODULE Runner -------------------------------
(***************************************************************************)
(* The mutant execution pool: execution.Runner.Run and runOne              *)
(* (internal/execution/run.go).                                            *)
(*                                                                         *)
(* Run starts a fixed number of workers and a feeder goroutine, which hand *)
(* work over on two unbuffered channels: the feeder sends each mutant to   *)
(* some worker, the worker runs one `go test` command per selected package *)
(* and sends its result to the caller, which stores it at the mutant's     *)
(* index.  Each command has a deadline of its own under the caller's       *)
(* context, which may end at any time.                                     *)
(*                                                                         *)
(* A mutant is its index in the batch, and batch[i] the set of packages    *)
(* selection chose for it: their tests matter here only through the exit   *)
(* of the command.  (Selection never stores a package with an empty list   *)
(* of tests, so the loop's `continue` on one is not modelled; and every    *)
(* mutant comes from mutation.Builder, which gives it a temp directory.)   *)
(* A package is a number, its rank in the sorted order of import paths.    *)
(***************************************************************************)
EXTENDS Integers, Sequences

CONSTANTS
    Workers,    \* Runner.Workers as configured: any integer
    Pkgs,       \* the packages of the project
    Batches     \* the batches of mutants Run may be called with

ASSUME WorkersAssumption == Workers \in Int
ASSUME PkgsAssumption == Pkgs \subseteq Nat \ {0}
ASSUME BatchesAssumption == Batches \subseteq Seq(SUBSET Pkgs)

VARIABLES
    \* what the caller passes in and what is outside the process
    batch, keepTemp,
    parent,     \* Err() of the context Run was called with
    proc,       \* proc[i][p]: the `go test` process of mutant i in package p
    dirs,       \* the mutants whose temp directory exists
    \* Run and its feeder goroutine
    main, feeder,
    next,       \* index of the mutant the feeder sends next
    out,        \* the results collected so far, by index
    \* each worker: where it is in runOne and the locals it holds there
    pc, job, todo, cur, cmdErr, res

inputs  == <<batch, keepTemp>>
pool    == <<main, feeder, next, out>>
workers == <<pc, job, todo, cur, cmdErr, res>>
vars    == <<inputs, parent, proc, dirs, pool, workers>>

NumWorkers == IF Workers <= 0 THEN 1 ELSE Workers
Worker == 1 .. NumWorkers

\* Err() of a context: nil, or why it is done.
CtxErrs == {"nil", "canceled", "deadline"}

\* A command that ran ends with its tests passed or failed, with go test
\* giving up before any test ran ("broken": a mutant that does not compile),
\* or killed because its context was done.
ProcStates == {"none", "running", "passed", "failed", "broken", "killed"}

Mutants == DOMAIN batch

\* model.MutantExecResult.  MutantKilled is the zero value of a status, so a
\* slot nobody wrote to reads as Killed; its mutant tells it apart.
ZeroResult == [mutant |-> 0, status |-> "Killed", executed |-> {}, timedOut |-> FALSE]

\* Seeded bug: a result labelled with the next mutant.
BugNewResult(i) == [ZeroResult EXCEPT !.mutant = i + 1, !.status = "Survived"]

\* The result runOne starts from: Survived until a command fails, or
\* Unsupported at once when no test was selected.
NewResult(i) ==
    [mutant |-> i, status |-> IF batch[i] = {} THEN "Unsupported" ELSE "Survived",
     executed |-> {}, timedOut |-> FALSE]

Init ==
    /\ batch \in Batches
    /\ keepTemp \in BOOLEAN
    /\ parent = "nil"
    /\ proc = [i \in Mutants |-> [p \in Pkgs |-> "none"]]
    /\ dirs = Mutants
    /\ main = "entry" /\ feeder = "off" /\ next = 1
    /\ out = [i \in Mutants |-> ZeroResult]
    /\ pc = [w \in Worker |-> "off"]
    /\ job = [w \in Worker |-> 0]
    /\ todo = [w \in Worker |-> {}]
    /\ cur = [w \in Worker |-> 0]
    /\ cmdErr = [w \in Worker |-> "nil"]
    /\ res = [w \in Worker |-> ZeroResult]

-----------------------------------------------------------------------------
(***************************************************************************)
(* Run and its feeder.                                                     *)
(***************************************************************************)

\* Run returns at once for an empty batch.
ReturnEmpty ==
    /\ main = "entry" /\ batch = <<>>
    /\ main' = "returned"
    /\ UNCHANGED <<inputs, parent, proc, dirs, feeder, next, out, workers>>

\* Run starts the workers and the feeder and begins to collect results.
Start ==
    /\ main = "entry" /\ batch # <<>>
    /\ main' = "collect"
    /\ feeder' = "feed"
    /\ pc' = [w \in Worker |-> "recv"]
    /\ UNCHANGED <<inputs, parent, proc, dirs, next, out,
                   job, todo, cur, cmdErr, res>>

\* Seeded bug: the same mutant is handed out again.
BugDispatch(w) ==
    /\ feeder = "feed" /\ next <= Len(batch)
    /\ pc[w] = "recv"
    /\ next' = next
    /\ job' = [job EXCEPT ![w] = next]
    /\ res' = [res EXCEPT ![w] = NewResult(next)]
    /\ todo' = [todo EXCEPT ![w] = batch[next]]
    /\ pc' = [pc EXCEPT ![w] = IF batch[next] = {} THEN "cleanup" ELSE "loop"]
    /\ UNCHANGED <<inputs, parent, proc, dirs, main, feeder, out, cur, cmdErr>>

\* The feeder hands the next mutant to a worker waiting for one, which enters
\* runOne and goes straight to its deferred cleanup if there is nothing to run.
Dispatch(w) ==
    /\ feeder = "feed" /\ next <= Len(batch)
    /\ pc[w] = "recv"
    /\ next' = next + 1
    /\ job' = [job EXCEPT ![w] = next]
    /\ res' = [res EXCEPT ![w] = NewResult(next)]
    /\ todo' = [todo EXCEPT ![w] = batch[next]]
    /\ pc' = [pc EXCEPT ![w] = IF batch[next] = {} THEN "cleanup" ELSE "loop"]
    /\ UNCHANGED <<inputs, parent, proc, dirs, main, feeder, out, cur, cmdErr>>

\* Every mutant is sent: the feeder closes jobs and waits for the workers.
CloseJobs ==
    /\ feeder = "feed" /\ next > Len(batch)
    /\ feeder' = "wait"
    /\ UNCHANGED <<inputs, parent, proc, dirs, main, next, out, workers>>

\* A worker that finds jobs closed ends.
WorkerExit(w) ==
    /\ pc[w] = "recv" /\ feeder = "wait"
    /\ pc' = [pc EXCEPT ![w] = "done"]
    /\ UNCHANGED <<inputs, parent, proc, dirs, pool, job, todo, cur, cmdErr, res>>

\* Seeded bug: results is closed without waiting for the workers.
BugCloseResults ==
    /\ feeder = "wait"
    /\ feeder' = "closed"
    /\ UNCHANGED <<inputs, parent, proc, dirs, main, next, out, workers>>

\* All workers have ended: the feeder closes results.
CloseResults ==
    /\ feeder = "wait"
    /\ \A w \in Worker : pc[w] = "done"
    /\ feeder' = "closed"
    /\ UNCHANGED <<inputs, parent, proc, dirs, main, next, out, workers>>

\* Seeded bug: results are stored in the order they arrive.
BugCollect(w) ==
    /\ main = "collect" /\ pc[w] = "send"
    /\ LET free == {i \in Mutants : out[i].mutant = 0}
       IN  \E i \in free : /\ \A k \in free : i <= k
                           /\ out' = [out EXCEPT ![i] = res[w]]
    /\ pc' = [pc EXCEPT ![w] = "recv"]
    /\ job' = [job EXCEPT ![w] = 0]
    /\ res' = [res EXCEPT ![w] = ZeroResult]
    /\ UNCHANGED <<inputs, parent, proc, dirs, main, feeder, next, todo, cur, cmdErr>>

\* Run receives a worker's result and stores it at its index.
Collect(w) ==
    /\ main = "collect" /\ pc[w] = "send"
    /\ out' = [out EXCEPT ![job[w]] = res[w]]
    /\ pc' = [pc EXCEPT ![w] = "recv"]
    /\ job' = [job EXCEPT ![w] = 0]
    /\ res' = [res EXCEPT ![w] = ZeroResult]
    /\ UNCHANGED <<inputs, parent, proc, dirs, main, feeder, next, todo, cur, cmdErr>>

\* Run finds results closed and returns.
Return ==
    /\ main = "collect" /\ feeder = "closed"
    /\ main' = "returned"
    /\ UNCHANGED <<inputs, parent, proc, dirs, feeder, next, out, workers>>

-----------------------------------------------------------------------------
(***************************************************************************)
(* runOne: one command per selected package, in sorted order, until one    *)
(* fails; then the deferred removal of the temp directory.                 *)
(***************************************************************************)

\* The loop takes the first remaining package p, records that it is executed
\* and derives the command's context from the caller's.
BeginCmd(w, p, where) ==
    /\ pc[w] = "loop" /\ p \in todo[w]
    /\ \A q \in todo[w] : p <= q
    /\ todo' = [todo EXCEPT ![w] = @ \ {p}]
    /\ cur' = [cur EXCEPT ![w] = p]
    /\ res' = [res EXCEPT ![w].executed = @ \cup {p}]
    /\ cmdErr' = [cmdErr EXCEPT ![w] = parent]
    /\ pc' = [pc EXCEPT ![w] = where]
    /\ UNCHANGED <<inputs, parent, dirs, pool, job>>

\* The go command starts.
StartCmd(w, p) ==
    /\ BeginCmd(w, p, "run")
    /\ parent = "nil"
    /\ proc' = [proc EXCEPT ![job[w]][p] = "running"]

\* cmd.Run fails with no process started: the context is already done, or the
\* command cannot be executed.
StartFails(w, p) ==
    /\ BeginCmd(w, p, "failed")
    /\ UNCHANGED proc

\* Seeded bug: the command's error is not looked at.
BugWaitOK(w) ==
    /\ pc[w] = "run" /\ proc[job[w]][cur[w]] # "running"
    /\ pc' = [pc EXCEPT ![w] = "loop"]
    /\ cur' = [cur EXCEPT ![w] = 0]
    /\ cmdErr' = [cmdErr EXCEPT ![w] = "nil"]
    /\ UNCHANGED <<inputs, parent, proc, dirs, pool, job, todo, res>>

\* cmd.Run returns nil, the context is released, and the loop goes on.
WaitOK(w) ==
    /\ pc[w] = "run" /\ proc[job[w]][cur[w]] = "passed"
    /\ pc' = [pc EXCEPT ![w] = "loop"]
    /\ cur' = [cur EXCEPT ![w] = 0]
    /\ cmdErr' = [cmdErr EXCEPT ![w] = "nil"]
    /\ UNCHANGED <<inputs, parent, proc, dirs, pool, job, todo, res>>

\* Seeded bug: a command whose context is done is not waited for.
BugWaitErr(w) ==
    /\ pc[w] = "run"
    /\ \/ proc[job[w]][cur[w]] \in {"failed", "broken", "killed"}
       \/ cmdErr[w] # "nil"
    /\ pc' = [pc EXCEPT ![w] = "failed"]
    /\ UNCHANGED <<inputs, parent, proc, dirs, pool, job, todo, cur, cmdErr, res>>

\* cmd.Run returns an error once the process is gone.  A process that passed
\* while its context ended may be reported either way: the kill counts as
\* delivered if the process was not yet reaped.
WaitErr(w) ==
    /\ pc[w] = "run"
    /\ \/ proc[job[w]][cur[w]] \in {"failed", "broken", "killed"}
       \/ proc[job[w]][cur[w]] = "passed" /\ cmdErr[w] # "nil"
    /\ pc' = [pc EXCEPT ![w] = "failed"]
    /\ UNCHANGED <<inputs, parent, proc, dirs, pool, job, todo, cur, cmdErr, res>>

\* Seeded bug: the loop goes on after a failure.
BugClassify(w) ==
    /\ pc[w] = "failed"
    /\ res' = [res EXCEPT ![w].status = "Killed",
                          ![w].timedOut = (cmdErr[w] = "deadline")]
    /\ pc' = [pc EXCEPT ![w] = "loop"]
    /\ cur' = [cur EXCEPT ![w] = 0]
    /\ cmdErr' = [cmdErr EXCEPT ![w] = "nil"]
    /\ UNCHANGED <<inputs, parent, proc, dirs, pool, job, todo>>

\* The context is released and the error becomes a verdict: Killed, timed out
\* if the deadline passed before the release.  runOne returns.
Classify(w) ==
    /\ pc[w] = "failed"
    /\ res' = [res EXCEPT ![w].status = "Killed",
                          ![w].timedOut = (cmdErr[w] = "deadline")]
    /\ pc' = [pc EXCEPT ![w] = "cleanup"]
    /\ todo' = [todo EXCEPT ![w] = {}]
    /\ cur' = [cur EXCEPT ![w] = 0]
    /\ cmdErr' = [cmdErr EXCEPT ![w] = "nil"]
    /\ UNCHANGED <<inputs, parent, proc, dirs, pool, job>>

\* No package is left: runOne returns its result as it stands.
LoopDone(w) ==
    /\ pc[w] = "loop" /\ todo[w] = {}
    /\ pc' = [pc EXCEPT ![w] = "cleanup"]
    /\ UNCHANGED <<inputs, parent, proc, dirs, pool, job, todo, cur, cmdErr, res>>

\* The deferred cleanup.  os.RemoveAll may fail and leave the directory; the
\* error is stored in the local result after runOne's return value was copied,
\* so nothing of it reaches the caller.
Cleanup(w) ==
    /\ pc[w] = "cleanup"
    /\ \E d \in {dirs, dirs \ {job[w]}} : (keepTemp => d = dirs) /\ dirs' = d
    /\ pc' = [pc EXCEPT ![w] = "send"]
    /\ UNCHANGED <<inputs, parent, proc, pool, job, todo, cur, cmdErr, res>>

-----------------------------------------------------------------------------
(***************************************************************************)
(* The processes and the contexts.                                         *)
(***************************************************************************)

\* The go command of worker w exits by itself.
CmdExit(w) ==
    /\ pc[w] = "run" /\ proc[job[w]][cur[w]] = "running"
    /\ \E s \in {"passed", "failed", "broken"} :
           proc' = [proc EXCEPT ![job[w]][cur[w]] = s]
    /\ UNCHANGED <<inputs, parent, dirs, pool, workers>>

\* Seeded bug: commands run without a timeout.
BugDeadline(w) == FALSE /\ UNCHANGED vars

\* The command's timeout expires before its context is released: while it
\* runs, or between its end and the release.
Deadline(w) ==
    /\ pc[w] \in {"run", "failed"} /\ cmdErr[w] = "nil"
    /\ cmdErr' = [cmdErr EXCEPT ![w] = "deadline"]
    /\ UNCHANGED <<inputs, parent, proc, dirs, pool, pc, job, todo, cur, res>>

\* The caller's context is cancelled or reaches a deadline, and with it the
\* context of every command in flight.
ParentDone ==
    /\ parent = "nil" /\ main # "returned"
    /\ \E e \in CtxErrs \ {"nil"} :
           /\ parent' = e
           /\ cmdErr' = [w \in Worker |->
                  IF pc[w] \in {"run", "failed"} /\ cmdErr[w] = "nil" THEN e ELSE cmdErr[w]]
    /\ UNCHANGED <<inputs, proc, dirs, pool, pc, job, todo, cur, res>>

\* exec.CommandContext kills the process of a context that is done.
Kill(w) ==
    /\ pc[w] = "run" /\ cmdErr[w] # "nil"
    /\ proc[job[w]][cur[w]] = "running"
    /\ proc' = [proc EXCEPT ![job[w]][cur[w]] = "killed"]
    /\ UNCHANGED <<inputs, parent, dirs, pool, workers>>

-----------------------------------------------------------------------------
RunStep == ReturnEmpty \/ Start \/ Return

FeederStep == CloseJobs \/ CloseResults

WorkerStep(w) ==
    \/ Dispatch(w)
    \/ \E p \in Pkgs : StartCmd(w, p) \/ StartFails(w, p)
    \/ WaitOK(w) \/ WaitErr(w) \/ Classify(w) \/ LoopDone(w)
    \/ Cleanup(w) \/ Collect(w) \/ WorkerExit(w)

Finished == main = "returned" /\ UNCHANGED vars

Next ==
    \/ RunStep \/ FeederStep
    \/ \E w \in Worker : WorkerStep(w) \/ CmdExit(w) \/ Deadline(w) \/ Kill(w)
    \/ ParentDone
    \/ Finished

(***************************************************************************)
(* Goroutines that can run do run, timers fire and a kill takes effect.    *)
(* Nothing makes a test end by itself or the caller's context end.         *)
(***************************************************************************)
Fairness ==
    /\ WF_vars(RunStep) /\ WF_vars(FeederStep)
    /\ \A w \in Worker : /\ WF_vars(WorkerStep(w))
                         /\ WF_vars(Deadline(w))
                         /\ WF_vars(Kill(w))

Spec == Init /\ [][Next]_vars /\ Fairness

-----------------------------------------------------------------------------
(***************************************************************************)
(* Types.                                                                  *)
(***************************************************************************)
Results == [mutant : 0 .. Len(batch), status : {"Killed", "Survived", "Unsupported"},
            executed : SUBSET Pkgs, timedOut : BOOLEAN]

\* Every variable holds a value of its kind.
TypeOK ==
    /\ batch \in Batches
    /\ keepTemp \in BOOLEAN
    /\ parent \in CtxErrs
    /\ proc \in [Mutants -> [Pkgs -> ProcStates]]
    /\ dirs \subseteq Mutants
    /\ main \in {"entry", "collect", "returned"}
    /\ feeder \in {"off", "feed", "wait", "closed"}
    /\ next \in 1 .. Len(batch) + 1
    /\ out \in [Mutants -> Results]
    /\ pc \in [Worker -> {"off", "recv", "loop", "run", "failed", "cleanup", "send", "done"}]
    /\ job \in [Worker -> 0 .. Len(batch)]
    /\ todo \in [Worker -> SUBSET Pkgs]
    /\ cur \in [Worker -> Pkgs \cup {0}]
    /\ cmdErr \in [Worker -> CtxErrs]
    /\ res \in [Worker -> Results]

(***************************************************************************)
(* Safety.                                                                 *)
(***************************************************************************)

\* The results runOne has decided: those collected, and those of workers past
\* the loop.
Decided == {out[i] : i \in {k \in Mutants : out[k].mutant # 0}}
               \cup {res[w] : w \in {v \in Worker : pc[v] \in {"cleanup", "send"}}}

\* A mutant is reported Survived only if every package selected for it was run
\* and every one of those commands passed; Unsupported only if there was none.
SurvivedMeansPassed ==
    \A r \in Decided :
        /\ r.status = "Survived" =>
               /\ r.executed = batch[r.mutant]
               /\ \A p \in batch[r.mutant] : proc[r.mutant][p] = "passed"
        /\ r.status = "Unsupported" <=> batch[r.mutant] = {}

\* A Killed mutant stopped at the first package that failed: the packages
\* before it passed, those after it were never started, and its own command
\* did not pass unless a deadline or the caller's context ended it.
KilledAtFirstFailure ==
    \A r \in Decided : r.status = "Killed" =>
        \E p \in r.executed :
            /\ r.executed = {q \in batch[r.mutant] : q <= p}
            /\ \A q \in batch[r.mutant] :
                   /\ q < p => proc[r.mutant][q] = "passed"
                   /\ q > p => proc[r.mutant][q] = "none"
            /\ proc[r.mutant][p] = "passed" => r.timedOut \/ parent # "nil"
            /\ proc[r.mutant][p] # "running"

\* The temp directory of a mutant, which is the TMPDIR of its commands and
\* holds their overlay, is there as long as one of them runs; and with KeepTemp
\* it is never removed.
DirOutlivesCommands ==
    /\ \A i \in Mutants : (\E p \in Pkgs : proc[i][p] = "running") => i \in dirs
    /\ keepTemp => dirs = Mutants

\* No mutant is lost, run twice or stored in another's slot: at any time each
\* is either still with the feeder, held by exactly one worker, or collected.
EachInOnePlace ==
    \A i \in Mutants :
        /\ i >= next =>
               /\ out[i].mutant = 0
               /\ \A w \in Worker : job[w] # i
        /\ i < next =>
               \/ /\ out[i].mutant = i
                  /\ \A w \in Worker : job[w] # i
               \/ /\ out[i].mutant = 0
                  /\ \E w \in Worker : job[w] = i /\ \A v \in Worker : job[v] = i => v = w

\* When Run returns every slot holds the result of its own mutant, no command
\* is running and no goroutine of the pool is left.
CompleteAtReturn ==
    main = "returned" =>
        /\ \A i \in Mutants :
               /\ out[i].mutant = i
               /\ \A p \in Pkgs : proc[i][p] # "running"
        /\ \A w \in Worker : pc[w] \in {"off", "done"}

\* docs/execution.md:28 says a Killed mutant is one "selected tests detected
\* [...], including timeout-induced failure".
KilledMeansDetected ==
    \A i \in Mutants : out[i].mutant # 0 /\ out[i].status = "Killed" =>
        out[i].timedOut \/ \E p \in out[i].executed : proc[i][p] = "failed"

-----------------------------------------------------------------------------
(***************************************************************************)
(* Refinement and liveness.                                                *)
(***************************************************************************)
V == INSTANCE Verdicts WITH
         hasTests <- [i \in DOMAIN batch |-> batch[i] # {}],
         verdict <- [i \in DOMAIN batch |->
                        IF out[i].mutant = 0 THEN "pending" ELSE out[i].status],
         done <- main = "returned"

\* The pool gives each mutant one verdict of the right kind, never changes it,
\* and returns only when all are in.
ImplementsVerdicts == V!Safety

\* Run returns, though a test may never end by itself: the timeout sees to it.
RunReturns == <>(main = "returned")
=============================================================================

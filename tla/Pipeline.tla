------------------------------ MODULE Pipeline ------------------------------
(***************************************************************************)
(* Engine.Run as a whole: the preparation, which Prepare has in detail,    *)
(* buildMutants (engine_run_helpers.go) with rule.Apply and                *)
(* mutation.Builder.Build, the execution of the mutants that were built,   *)
(* and composeReport.                                                      *)
(*                                                                         *)
(* Building is sequential: for every point in order, and every rule of the *)
(* point's type in registration order, one attempt to make a mutant.  The  *)
(* plan of a run is the sequence of these attempts; what matters of one is *)
(* what its rule and its syntax do, and whether selection finds tests.     *)
(* Execution is the abstract specification that Runner implements.         *)
(***************************************************************************)
EXTENDS Integers, Sequences, FiniteSets, SequencesExt

CONSTANT Plans      \* the plans a run may have

(***************************************************************************)
(* What may come of an attempt before its mutant is built:                 *)
(*   uncopyable   the node cannot be copied for the callback               *)
(*   panic        the callback panics                                      *)
(*   same         it reports changed = false                               *)
(*   nil          it returns a nil interface with changed = true           *)
(*   typedNil     it returns a nil pointer of the rule's node type so      *)
(*   unplaceable  the node cannot be put back along the path to the file   *)
(*   changed      a node that can be                                       *)
(***************************************************************************)
Behaviours == {"uncopyable", "panic", "same", "nil", "typedNil", "unplaceable", "changed"}

ASSUME PlansAssumption == Plans \subseteq Seq([does : Behaviours, tests : BOOLEAN])

VARIABLES
    plan, keepTemp,
    phase,      \* "start", "build", "run", "done", "failed" with an error, or
                \* "crashed" by a panic nobody recovers
    at,         \* the attempt buildMutants is at
    mutantSeq,  \* the number of the next mutant ID
    base,       \* baseResults: the IDs of the mutants that are immediately Errored
    mutants,    \* runMutants: ID, temp directory and attempt
    dirs,       \* the temp directories that exist
    verdict,    \* the status of each executed mutant, or "pending"
    report

vars == <<plan, keepTemp, phase, at, mutantSeq, base, mutants, dirs, verdict, report>>

NoReport == [ids |-> <<>>, total |-> 0, Killed |-> 0, Survived |-> 0,
             Unsupported |-> 0, Errored |-> 0]

Pool == INSTANCE Verdicts WITH
            hasTests <- [i \in DOMAIN mutants |-> plan[mutants[i].attempt].tests],
            done <- phase = "done"

Init ==
    /\ plan \in Plans
    /\ keepTemp \in BOOLEAN
    /\ phase = "start" /\ at = 1 /\ mutantSeq = 1
    /\ base = <<>> /\ mutants = <<>> /\ dirs = {} /\ verdict = <<>>
    /\ report = NoReport

-----------------------------------------------------------------------------
(***************************************************************************)
(* The beginning of Run, and loadProjectAndSelector.                       *)
(***************************************************************************)
Begin(next) ==
    /\ phase = "start"
    /\ phase' = next
    /\ UNCHANGED <<plan, keepTemp, at, mutantSeq, base, mutants, dirs, verdict, report>>

\* No rule is registered: the report is empty and nothing is loaded.
NoRules == plan = <<>> /\ Begin("done")

\* The work directory is unknown or loading fails: Run returns the error only.
PrepareFails == Begin("failed")

Prepared == Begin("build")

-----------------------------------------------------------------------------
(***************************************************************************)
(* buildMutants: one action per way an attempt can end.                    *)
(***************************************************************************)
Attempting(behaviours) ==
    /\ phase = "build" /\ at <= Len(plan)
    /\ plan[at].does \in behaviours
    /\ UNCHANGED <<plan, keepTemp, phase, verdict, report>>

\* Seeded bug: an attempt is skipped.
BugNextAttempt == at' = at + 2 /\ mutantSeq' = mutantSeq + 1

NextAttempt == at' = at + 1 /\ mutantSeq' = mutantSeq + 1

\* Seeded bug: only a mutant that gets as far as the builder uses up an ID.
BugErroredAtOnce ==
    /\ Attempting({"uncopyable", "panic", "nil", "unplaceable"})
    /\ base' = Append(base, mutantSeq)
    /\ at' = at + 1
    /\ UNCHANGED <<mutantSeq, mutants, dirs>>

\* An error before the builder: the input could not be copied, the callback
\* panicked and was recovered, it returned nil, or ClonePath failed.
ErroredAtOnce ==
    /\ Attempting({"uncopyable", "panic", "nil", "unplaceable"})
    /\ base' = Append(base, mutantSeq)
    /\ NextAttempt
    /\ UNCHANGED <<mutants, dirs>>

\* The rule does not apply to this node: nothing comes of it but a used-up ID.
Unchanged ==
    /\ Attempting({"same"})
    /\ NextAttempt
    /\ UNCHANGED <<base, mutants, dirs>>

\* Build fails before it has a temp directory.
BuildFailsEarly ==
    /\ Attempting({"changed", "typedNil"})
    /\ base' = Append(base, mutantSeq)
    /\ NextAttempt
    /\ UNCHANGED <<mutants, dirs>>

\* Build fails after os.MkdirTemp: a directory or file cannot be written, or the
\* file cannot be formatted.  The directory stays.
BuildFailsLate ==
    /\ Attempting({"changed", "typedNil"})
    /\ base' = Append(base, mutantSeq)
    /\ dirs' = dirs \cup {mutantSeq}
    /\ NextAttempt
    /\ UNCHANGED mutants

\* Formatting a file with a nil pointer for a node panics, and nothing between
\* there and the caller of Engine.Run recovers.
FormatPanics ==
    /\ phase = "build" /\ at <= Len(plan)
    /\ plan[at].does = "typedNil"
    /\ phase' = "crashed"
    /\ dirs' = dirs \cup {mutantSeq}
    /\ UNCHANGED <<plan, keepTemp, at, mutantSeq, base, mutants, verdict, report>>

\* Seeded bug: all mutants are written to one directory.
BugBuild ==
    /\ Attempting({"changed", "typedNil"})
    /\ mutants' = Append(mutants, [id |-> mutantSeq, dir |-> 0, attempt |-> at])
    /\ dirs' = dirs \cup {0}
    /\ NextAttempt
    /\ UNCHANGED base

\* The mutant is built in a temp directory of its own and tests are selected
\* for it.  (A nil pointer is harmless where the syntax allows the node to be
\* missing, such as a function body.)
Build ==
    /\ Attempting({"changed", "typedNil"})
    /\ mutants' = Append(mutants, [id |-> mutantSeq, dir |-> mutantSeq, attempt |-> at])
    /\ dirs' = dirs \cup {mutantSeq}
    /\ NextAttempt
    /\ UNCHANGED base

\* Every attempt is made: the runner is called with the mutants built.
StartRunner ==
    /\ phase = "build" /\ at > Len(plan)
    /\ phase' = "run"
    /\ verdict' = [i \in DOMAIN mutants |-> "pending"]
    /\ UNCHANGED <<plan, keepTemp, at, mutantSeq, base, mutants, dirs, report>>

-----------------------------------------------------------------------------
(***************************************************************************)
(* Execution and report.                                                   *)
(***************************************************************************)

\* The runner reaches a verdict on one mutant and removes its directory.
Execute(i) ==
    /\ phase = "run"
    /\ UNCHANGED <<plan, keepTemp, phase, at, mutantSeq, base, mutants, report>>
    /\ Pool!Decide(i)
    /\ dirs' = IF keepTemp THEN dirs ELSE dirs \ {mutants[i].dir}

\* execution.Summarize and composeReport.
Count(statuses, s) == Cardinality({i \in DOMAIN statuses : statuses[i] = s})

\* Seeded bug: a mutant without tests counts as a survivor.
BugCompose(ids, statuses) ==
    [ids |-> ids, total |-> Len(statuses),
     Killed |-> Count(statuses, "Killed"),
     Survived |-> Count(statuses, "Survived") + Count(statuses, "Unsupported"),
     Unsupported |-> 0,
     Errored |-> Count(statuses, "Errored")]

Compose(ids, statuses) ==
    [ids |-> ids, total |-> Len(statuses),
     Killed |-> Count(statuses, "Killed"),
     Survived |-> Count(statuses, "Survived"),
     Unsupported |-> Count(statuses, "Unsupported"),
     Errored |-> Count(statuses, "Errored")]

\* Report.MutationScore, as a numerator and a denominator.
MutationScore(r) == <<r.Killed, r.Killed + r.Survived>>

\* The runner returns and the report lists the immediate results, then the
\* executed mutants.
Report ==
    /\ phase = "run"
    /\ phase' = "done"
    /\ UNCHANGED <<plan, keepTemp, at, mutantSeq, base, mutants, dirs, verdict>>
    /\ Pool!Finish
    /\ report' = Compose(base \o [i \in DOMAIN mutants |-> mutants[i].id],
                         [i \in DOMAIN base |-> "Errored"] \o verdict)

Finished == phase \in {"done", "failed", "crashed"} /\ UNCHANGED vars

Next ==
    \/ NoRules \/ PrepareFails \/ Prepared
    \/ ErroredAtOnce \/ Unchanged \/ BuildFailsEarly \/ BuildFailsLate
    \/ FormatPanics \/ Build \/ StartRunner
    \/ \E i \in DOMAIN mutants : Execute(i)
    \/ Report
    \/ Finished

Spec == Init /\ [][Next]_vars

-----------------------------------------------------------------------------
\* Every variable holds a value of its kind.
TypeOK ==
    /\ plan \in Plans
    /\ keepTemp \in BOOLEAN
    /\ phase \in {"start", "build", "run", "done", "failed", "crashed"}
    /\ at \in 1 .. Len(plan) + 1
    /\ mutantSeq \in Nat
    /\ base \in Seq(Nat)
    /\ mutants \in Seq([id : Nat, dir : Nat, attempt : DOMAIN plan])
    /\ dirs \subseteq Nat
    /\ verdict \in Seq({"pending", "Killed", "Survived", "Unsupported"})

\* Every attempt made so far has exactly one outcome, under an ID of its own:
\* an immediate result, a mutant to run, or, if its rule did not apply, none.
EachAttemptOnce ==
    \A j \in DOMAIN plan :
        LET errored == {b \in DOMAIN base : base[b] = j}
            built   == {i \in DOMAIN mutants : mutants[i].id = j}
        IN  /\ Cardinality(errored) + Cardinality(built)
                   = IF j < at /\ plan[j].does # "same" THEN 1 ELSE 0
            /\ \A i \in built : mutants[i].attempt = j

\* A mutant that is still to be executed has its temp directory, and no
\* directory of an executed one is left behind unless it is to be kept.
DirsMatchMutants ==
    phase \in {"run", "done"} =>
        \A i \in DOMAIN mutants :
            mutants[i].dir \in dirs <=> verdict[i] = "pending" \/ keepTemp

\* The report counts every attempt that had an outcome, each in the right
\* column: a mutant without tests is Unsupported, never Survived, and one that
\* was not executed is Errored.  The score is that of the mutants that were run
\* against tests.
ReportAddsUp ==
    phase = "done" =>
        LET built(tests) == {i \in DOMAIN mutants : plan[mutants[i].attempt].tests = tests}
        IN  /\ report.total = Cardinality({j \in DOMAIN plan : plan[j].does # "same"})
            /\ ToSet(report.ids) = {j \in DOMAIN plan : plan[j].does # "same"}
            /\ MutationScore(report) =
                   <<Count(verdict, "Killed"), Cardinality(built(TRUE))>>
            /\ report.Unsupported = Cardinality(built(FALSE))
            /\ report.Errored = report.total - Len(mutants)

\* docs/rule.md:19, "Returning changed=true with a nil node is treated as an
\* error": such an attempt becomes an Errored result.
NilIsError ==
    /\ phase # "crashed"
    /\ \A j \in 1 .. at - 1 :
           plan[j].does \in {"nil", "typedNil"} => \E b \in DOMAIN base : base[b] = j

\* docs/execution.md:24, "temp directories are removed unless KeepTemp=true".
TempDirsRemoved == phase = "done" /\ ~keepTemp => dirs = {}
=============================================================================

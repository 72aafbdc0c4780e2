------------------------------ MODULE Verdicts ------------------------------
(***************************************************************************)
(* What a call of execution.Runner.Run promises its caller, whatever the   *)
(* worker pool does meanwhile: every mutant of the batch gets exactly one  *)
(* verdict, a mutant for which no test was selected gets Unsupported and   *)
(* only such a mutant does, and Run returns once every verdict is in.      *)
(* Runner.tla implements this specification.                               *)
(***************************************************************************)
EXTENDS Sequences

VARIABLES
    hasTests,   \* for each mutant of the batch: did selection find a test?
    verdict,    \* for each mutant: "pending", then its status
    done        \* has Run returned?

vars == <<hasTests, verdict, done>>

Outcomes(i) == IF hasTests[i] THEN {"Killed", "Survived"} ELSE {"Unsupported"}

Init ==
    /\ hasTests \in Seq(BOOLEAN)
    /\ verdict = [i \in DOMAIN hasTests |-> "pending"]
    /\ done = FALSE

\* Mutant i is decided, once.
Decide(i) ==
    /\ ~done
    /\ verdict[i] = "pending"
    /\ \E v \in Outcomes(i) : verdict' = [verdict EXCEPT ![i] = v]
    /\ UNCHANGED <<hasTests, done>>

\* Run returns the results of the whole batch.
Finish ==
    /\ ~done
    /\ \A i \in DOMAIN verdict : verdict[i] # "pending"
    /\ done' = TRUE
    /\ UNCHANGED <<hasTests, verdict>>

Next == (\E i \in DOMAIN hasTests : Decide(i)) \/ Finish

Safety == Init /\ [][Next]_vars
=============================================================================

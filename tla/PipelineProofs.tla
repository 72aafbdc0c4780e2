--------------------------- MODULE PipelineProofs ---------------------------
(***************************************************************************)
(* Proofs about Pipeline, for every set of plans.  What each attempt has   *)
(* come to is kept in three places: the immediate results, the mutants and *)
(* the directories.  Outcomes says how the first two agree with the plan,  *)
(* Dirs how the directories agree with the mutants and their verdicts; the *)
(* totals of the report follow by counting.                                *)
(***************************************************************************)
EXTENDS Pipeline, FiniteSetTheorems, SequenceTheorems, TLAPS

\* The attempts that come to something.
Effective == {j \in DOMAIN plan : plan[j].does # "same"}

-----------------------------------------------------------------------------
(***************************************************************************)
(* The inductive invariant.                                                *)
(***************************************************************************)
AtStart ==
    phase = "start" => /\ at = 1
                       /\ base = <<>> /\ mutants = <<>> /\ dirs = {} /\ verdict = <<>>
                       /\ report = NoReport

Outcomes ==
    /\ mutantSeq = at
    /\ \A b \in DOMAIN base : base[b] \in Effective /\ base[b] < at
    /\ \A b, c \in DOMAIN base : base[b] = base[c] => b = c
    /\ \A i \in DOMAIN mutants :
           /\ mutants[i].id \in Effective /\ mutants[i].id < at
           /\ mutants[i].attempt = mutants[i].id
           /\ mutants[i].dir = mutants[i].id
    /\ \A i, k \in DOMAIN mutants : mutants[i].id = mutants[k].id => i = k
    /\ \A b \in DOMAIN base : \A i \in DOMAIN mutants : base[b] # mutants[i].id
    /\ \A j \in Effective :
           j < at => \/ \E b \in DOMAIN base : base[b] = j
                     \/ \E i \in DOMAIN mutants : mutants[i].id = j

Dirs ==
    /\ phase \in {"start", "build"} => \A i \in DOMAIN mutants : mutants[i].dir \in dirs
    /\ phase \in {"run", "done"} =>
           /\ at = Len(plan) + 1
           /\ DOMAIN verdict = DOMAIN mutants
           /\ \A i \in DOMAIN mutants :
                  /\ mutants[i].dir \in dirs <=> verdict[i] = "pending" \/ keepTemp
                  /\ verdict[i] \in {"pending"} \cup Pool!Outcomes(i)

\* What composeReport is given when the runner has returned.
AllIds == base \o [i \in DOMAIN mutants |-> mutants[i].id]
Statuses == [b \in DOMAIN base |-> "Errored"] \o verdict

Reported ==
    phase = "done" => /\ report = Compose(AllIds, Statuses)
                      /\ \A i \in DOMAIN verdict : verdict[i] # "pending"

IInv == TypeOK /\ AtStart /\ Outcomes /\ Dirs /\ Reported

-----------------------------------------------------------------------------
(***************************************************************************)
(* Types.                                                                  *)
(***************************************************************************)

\* What the assumption on the plans says of one of them.
LEMMA PlanType ==
  ASSUME TypeOK
  PROVE  /\ Len(plan) \in Nat
         /\ DOMAIN plan = 1 .. Len(plan)
         /\ plan \in Seq([does : Behaviours, tests : BOOLEAN])
         /\ \A j \in DOMAIN plan : plan[j].does \in Behaviours /\ plan[j].tests \in BOOLEAN
<1> DEFINE A == [does : Behaviours, tests : BOOLEAN]
<1>1. plan \in Seq(A)
  BY PlansAssumption DEF TypeOK
<1>2. Len(plan) \in Nat /\ DOMAIN plan = 1 .. Len(plan) /\ \A j \in DOMAIN plan : plan[j] \in A
  <2> HIDE DEF A
  <2> QED BY <1>1
<1> QED BY <1>1, <1>2

\* Init establishes the types.
LEMMA InitTypeOK == Init => TypeOK
<1> SUFFICES ASSUME Init PROVE TypeOK
  OBVIOUS
<1>1. Len(plan) \in Nat
  <2> DEFINE A == [does : Behaviours, tests : BOOLEAN]
  <2>1. plan \in Seq(A)
    BY PlansAssumption DEF Init
  <2> HIDE DEF A
  <2> QED BY <2>1
<1> QED
  BY <1>1 DEF Init, TypeOK

\* A mutant that is built has the type of one.
LEMMA MutantType ==
  ASSUME TypeOK, at <= Len(plan)
  PROVE  [id |-> mutantSeq, dir |-> mutantSeq, attempt |-> at] \in [id : Nat, dir : Nat, attempt : DOMAIN plan]
BY PlanType DEF TypeOK

\* Every step keeps the types.
LEMMA NextTypeOK == TypeOK /\ [Next]_vars => TypeOK'
<1> SUFFICES ASSUME TypeOK, [Next]_vars PROVE TypeOK'
  OBVIOUS
<1>0. Len(plan) \in Nat /\ DOMAIN plan = 1 .. Len(plan)
  BY PlanType
<1> USE DEF Attempting, NextAttempt
<1>1. CASE \E next \in {"done", "failed", "build"} : Begin(next)
  BY <1>1 DEF Begin, TypeOK
<1>2. CASE ErroredAtOnce
  BY <1>0, <1>2 DEF ErroredAtOnce, TypeOK
<1>3. CASE Unchanged
  BY <1>0, <1>3 DEF Unchanged, TypeOK
<1>4. CASE BuildFailsEarly
  BY <1>0, <1>4 DEF BuildFailsEarly, TypeOK
<1>5. CASE BuildFailsLate
  BY <1>0, <1>5 DEF BuildFailsLate, TypeOK
<1>6. CASE FormatPanics
  BY <1>6 DEF FormatPanics, TypeOK
<1>7. CASE Build
  <2>1. at <= Len(plan)
    BY <1>7 DEF Build
  <2>2. mutants' \in Seq([id : Nat, dir : Nat, attempt : DOMAIN plan])
    <3> DEFINE m == [id |-> mutantSeq, dir |-> mutantSeq, attempt |-> at]
    <3>1. m \in [id : Nat, dir : Nat, attempt : DOMAIN plan]
      BY <2>1, MutantType
    <3>2. mutants' = Append(mutants, m)
      BY <1>7 DEF Build
    <3> HIDE DEF m
    <3> QED BY <3>1, <3>2 DEF TypeOK
  <2> QED BY <1>0, <1>7, <2>1, <2>2 DEF Build, TypeOK
<1>8. CASE StartRunner
  <2>1. verdict' \in Seq({"pending", "Killed", "Survived", "Unsupported"})
    BY <1>8 DEF StartRunner, TypeOK
  <2> QED BY <1>8, <2>1 DEF StartRunner, TypeOK
<1>9. ASSUME NEW i \in DOMAIN mutants, Execute(i) PROVE TypeOK'
  <2>1. PICK v \in {"Killed", "Survived", "Unsupported"} : verdict' = [verdict EXCEPT ![i] = v]
    BY <1>9 DEF Execute, Pool!Decide, Pool!Outcomes
  <2>2. verdict' \in Seq({"pending", "Killed", "Survived", "Unsupported"})
    <3> DEFINE V == {"pending", "Killed", "Survived", "Unsupported"}
    <3>1. verdict \in Seq(V) /\ v \in V
      BY DEF TypeOK
    <3>2. verdict' \in Seq(V)
      <4> HIDE DEF V
      <4>1. CASE i \in 1 .. Len(verdict)
        BY <2>1, <3>1, <4>1, ExceptSeq
      <4>2. CASE i \notin 1 .. Len(verdict)
        <5>1. verdict \in [1 .. Len(verdict) -> V]
          BY <3>1
        <5>2. [verdict EXCEPT ![i] = v] = verdict
          BY <4>2, <5>1
        <5> QED BY <2>1, <3>1, <5>2
      <4> QED BY <4>1, <4>2
    <3> QED BY <3>2
  <2> QED BY <1>9, <2>2 DEF Execute, TypeOK
<1>10. CASE Report
  BY <1>10 DEF Report, TypeOK
<1>11. CASE UNCHANGED vars
  BY <1>11 DEF vars, TypeOK
<1> QED
  BY <1>1, <1>2, <1>3, <1>4, <1>5, <1>6, <1>7, <1>8, <1>9, <1>10, <1>11
     DEF Next, NoRules, PrepareFails, Prepared, Finished

\* Every variable keeps its type, for any plans.
THEOREM TypeCorrect == Spec => []TypeOK
BY InitTypeOK, NextTypeOK, PTL DEF Spec

-----------------------------------------------------------------------------
(***************************************************************************)
(* The invariant.                                                          *)
(***************************************************************************)
\* A run begins with the invariant.
LEMMA InitIInv == Init => IInv
BY InitTypeOK DEF Init, IInv, AtStart, Outcomes, Dirs, Effective, Reported

\* Only the beginning of a run is in its first phase.
LEMMA NextAtStart == TypeOK /\ AtStart /\ [Next]_vars => AtStart'
<1> SUFFICES ASSUME TypeOK, AtStart, [Next]_vars PROVE AtStart'
  OBVIOUS
<1>1. CASE Next
  BY <1>1 DEF Next, AtStart, NoRules, PrepareFails, Prepared, Begin, Attempting, ErroredAtOnce,
     Unchanged, BuildFailsEarly, BuildFailsLate, FormatPanics, Build, StartRunner, Execute, Report,
     Finished, vars, NoReport
<1>2. CASE UNCHANGED vars
  BY <1>2 DEF vars, AtStart, NoReport
<1> QED BY <1>1, <1>2

\* Each attempt in turn gets its one outcome; nothing else touches them.
LEMMA NextOutcomes == TypeOK /\ Outcomes /\ [Next]_vars => Outcomes'
<1> SUFFICES ASSUME TypeOK, Outcomes, [Next]_vars PROVE Outcomes'
  OBVIOUS
<1>0. /\ Len(plan) \in Nat /\ DOMAIN plan = 1 .. Len(plan)
      /\ at \in 1 .. Len(plan) + 1
      /\ DOMAIN base = 1 .. Len(base) /\ Len(base) \in Nat
      /\ DOMAIN mutants = 1 .. Len(mutants) /\ Len(mutants) \in Nat
      /\ Effective \subseteq 1 .. Len(plan)
      /\ mutantSeq = at
  BY PlanType DEF TypeOK, Effective, Outcomes
<1>1. CASE \/ UNCHANGED vars \/ StartRunner \/ FormatPanics \/ Report
           \/ \E next \in {"done", "failed", "build"} : Begin(next)
           \/ \E i \in DOMAIN mutants : Execute(i)
  <2>1. UNCHANGED <<plan, at, mutantSeq, base, mutants>>
    BY <1>1 DEF vars, StartRunner, FormatPanics, Report, Begin, Execute
  <2> QED BY <2>1 DEF Outcomes, Effective
<1>2. CASE Unchanged
  <2>1. /\ at \notin Effective
        /\ at' = at + 1 /\ mutantSeq' = at + 1
        /\ UNCHANGED <<plan, base, mutants>> /\ Effective' = Effective
    BY <1>0, <1>2 DEF Unchanged, Attempting, NextAttempt, Effective
  <2>2. \A j \in Effective : j < at + 1 <=> j < at
    BY <1>0, <2>1
  <2> QED BY <2>1, <2>2 DEF Outcomes
<1>3. CASE ErroredAtOnce \/ BuildFailsEarly \/ BuildFailsLate
  <2>0. /\ \A b \in DOMAIN base : base[b] \in Effective /\ base[b] < at
        /\ \A b, c \in DOMAIN base : base[b] = base[c] => b = c
    BY DEF Outcomes
  <2>1. /\ at \in Effective
        /\ at' = at + 1 /\ mutantSeq' = at + 1
        /\ base' = Append(base, at)
        /\ UNCHANGED <<plan, mutants>> /\ Effective' = Effective
    BY <1>0, <1>3 DEF ErroredAtOnce, BuildFailsEarly, BuildFailsLate, Attempting, NextAttempt, Effective
  <2>2. /\ DOMAIN base' = 1 .. Len(base) + 1
        /\ \A b \in 1 .. Len(base) : base'[b] = base[b]
        /\ base'[Len(base) + 1] = at
    BY <2>1 DEF TypeOK
  <2>3. \A j \in Effective : j < at + 1 <=> j < at \/ j = at
    BY <1>0
  <2>4. /\ \A b \in DOMAIN base' : base'[b] \in Effective /\ base'[b] < at + 1
        /\ \A b, c \in DOMAIN base' : base'[b] = base'[c] => b = c
    <3>1. \A b \in DOMAIN base' : b \in DOMAIN base \/ b = Len(base) + 1
      BY <1>0, <2>2
    <3>2. \A b \in DOMAIN base : base'[b] = base[b] /\ base[b] # at
      BY <1>0, <2>0, <2>2
    <3> QED BY <2>0, <2>1, <2>2, <2>3, <3>1, <3>2
  <2>5. \A b \in DOMAIN base' : \A i \in DOMAIN mutants : base'[b] # mutants[i].id
    <3>1. \A b \in DOMAIN base' : b \in DOMAIN base \/ b = Len(base) + 1
      BY <1>0, <2>2
    <3>2. \A i \in DOMAIN mutants : mutants[i].id # at
      BY <1>0 DEF Outcomes
    <3> QED BY <1>0, <2>2, <3>1, <3>2 DEF Outcomes
  <2>6. \A i \in DOMAIN mutants : mutants[i].id < at + 1
    BY <2>3 DEF Outcomes
  <2>7. ASSUME NEW j \in Effective, j < at + 1
        PROVE  \/ \E b \in DOMAIN base' : base'[b] = j
               \/ \E i \in DOMAIN mutants : mutants[i].id = j
    <3>1. CASE j = at
      BY <1>0, <2>2, <3>1
    <3>2. CASE j < at
      BY <1>0, <2>2, <3>2 DEF Outcomes
    <3> QED BY <2>3, <2>7, <3>1, <3>2
  <2> QED BY <2>1, <2>4, <2>5, <2>6, <2>7 DEF Outcomes
<1>4. CASE Build
  <2> DEFINE m == [id |-> mutantSeq, dir |-> mutantSeq, attempt |-> at]
  <2>1. /\ at \in Effective
        /\ at' = at + 1 /\ mutantSeq' = at + 1
        /\ mutants' = Append(mutants, m)
        /\ UNCHANGED <<plan, base>> /\ Effective' = Effective
    BY <1>0, <1>4 DEF Build, Attempting, NextAttempt, Effective
  <2>2. m.id = at /\ m.dir = at /\ m.attempt = at
    BY <1>0
  <2>3. /\ DOMAIN mutants' = 1 .. Len(mutants) + 1
        /\ \A i \in 1 .. Len(mutants) : mutants'[i] = mutants[i]
        /\ mutants'[Len(mutants) + 1] = m
    <3> HIDE DEF m
    <3> QED BY <2>1 DEF TypeOK
  <2> HIDE DEF m
  <2>4. \A j \in Effective : j < at + 1 <=> j < at \/ j = at
    BY <1>0
  <2>5. \A i \in DOMAIN mutants' :
            /\ mutants'[i].id \in Effective /\ mutants'[i].id < at + 1
            /\ mutants'[i].attempt = mutants'[i].id
            /\ mutants'[i].dir = mutants'[i].id
    <3>1. \A i \in DOMAIN mutants' : mutants'[i] = IF i \in DOMAIN mutants THEN mutants[i] ELSE m
      BY <1>0, <2>3
    <3> QED BY <2>1, <2>2, <2>4, <3>1 DEF Outcomes
  <2>6. \A i, k \in DOMAIN mutants' : mutants'[i].id = mutants'[k].id => i = k
    <3>1. \A i \in DOMAIN mutants' : i \in DOMAIN mutants \/ i = Len(mutants) + 1
      BY <1>0, <2>3
    <3>2. \A i \in DOMAIN mutants : mutants'[i] = mutants[i] /\ mutants[i].id # at
      BY <1>0, <2>3 DEF Outcomes
    <3> QED BY <2>2, <2>3, <3>1, <3>2 DEF Outcomes
  <2>7. /\ \A b \in DOMAIN base : \A i \in DOMAIN mutants' : base[b] # mutants'[i].id
        /\ \A b \in DOMAIN base : base[b] < at + 1
    <3>1. \A i \in DOMAIN mutants' : mutants'[i] = IF i \in DOMAIN mutants THEN mutants[i] ELSE m
      BY <1>0, <2>3
    <3>2. \A b \in DOMAIN base : base[b] # at
      BY <1>0 DEF Outcomes
    <3> QED BY <2>2, <2>4, <3>1, <3>2 DEF Outcomes
  <2>8. ASSUME NEW j \in Effective, j < at + 1
        PROVE  \/ \E b \in DOMAIN base : base[b] = j
               \/ \E i \in DOMAIN mutants' : mutants'[i].id = j
    <3>1. CASE j = at
      BY <1>0, <2>2, <2>3, <3>1
    <3>2. CASE j < at
      BY <1>0, <2>3, <3>2 DEF Outcomes
    <3> QED BY <2>4, <2>8, <3>1, <3>2
  <2> QED BY <2>1, <2>5, <2>6, <2>7, <2>8 DEF Outcomes
<1> QED
  BY <1>1, <1>2, <1>3, <1>4
     DEF Next, NoRules, PrepareFails, Prepared, Finished

\* A mutant's directory goes with its verdict, and only its own.
LEMMA NextDirs == TypeOK /\ AtStart /\ Outcomes /\ Dirs /\ [Next]_vars => Dirs'
<1> SUFFICES ASSUME TypeOK, AtStart, Outcomes, Dirs, [Next]_vars PROVE Dirs'
  OBVIOUS
<1>0. /\ Len(plan) \in Nat /\ DOMAIN plan = 1 .. Len(plan)
      /\ at \in 1 .. Len(plan) + 1
      /\ mutants \in Seq([id : Nat, dir : Nat, attempt : DOMAIN plan])
      /\ DOMAIN mutants = 1 .. Len(mutants) /\ Len(mutants) \in Nat
  BY PlanType DEF TypeOK
<1>1. CASE UNCHANGED vars
  BY <1>1 DEF vars, Dirs, Pool!Outcomes
<1>2. CASE \E next \in {"failed", "build"} : Begin(next)
  BY <1>2 DEF Begin, Dirs
<1>3. CASE NoRules
  BY <1>0, <1>3 DEF NoRules, Begin, AtStart, Dirs
<1>4. CASE ErroredAtOnce \/ Unchanged \/ BuildFailsEarly \/ BuildFailsLate \/ FormatPanics
  BY <1>4 DEF ErroredAtOnce, Unchanged, BuildFailsEarly, BuildFailsLate, FormatPanics, Attempting, Dirs
<1>5. CASE Build
  <2> DEFINE m == [id |-> mutantSeq, dir |-> mutantSeq, attempt |-> at]
  <2>1. /\ phase = "build" /\ phase' = phase
        /\ mutants' = Append(mutants, m) /\ dirs' = dirs \cup {mutantSeq}
        /\ m.dir = mutantSeq
    BY <1>5 DEF Build, Attempting
  <2> HIDE DEF m
  <2>2. \A i \in DOMAIN mutants' : mutants'[i].dir \in dirs'
    BY <1>0, <2>1 DEF Dirs
  <2> QED BY <2>1, <2>2 DEF Dirs
<1>6. CASE StartRunner
  BY <1>0, <1>6 DEF StartRunner, Dirs
<1>7. ASSUME NEW i \in DOMAIN mutants, Execute(i) PROVE Dirs'
  <2>1. /\ phase = "run" /\ phase' = phase
        /\ UNCHANGED <<plan, keepTemp, at, mutants>>
        /\ verdict[i] = "pending"
        /\ dirs' = IF keepTemp THEN dirs ELSE dirs \ {mutants[i].dir}
        /\ \E v \in Pool!Outcomes(i) : verdict' = [verdict EXCEPT ![i] = v]
    BY <1>7 DEF Execute, Pool!Decide
  <2>2. PICK v \in Pool!Outcomes(i) : verdict' = [verdict EXCEPT ![i] = v]
    BY <2>1
  <2>3. /\ DOMAIN verdict = DOMAIN mutants /\ DOMAIN verdict' = DOMAIN mutants
        /\ verdict'[i] = v /\ v # "pending"
        /\ \A k \in DOMAIN mutants : k # i => verdict'[k] = verdict[k]
        /\ at = Len(plan) + 1
    BY <2>1, <2>2 DEF Dirs, Pool!Outcomes
  <2>4. \A k \in DOMAIN mutants : Pool!Outcomes(k)' = Pool!Outcomes(k)
    BY <2>1 DEF Pool!Outcomes
  <2>5. \A k \in DOMAIN mutants : k # i => mutants[k].dir # mutants[i].dir
    BY DEF Outcomes
  <2>6. ASSUME NEW k \in DOMAIN mutants
        PROVE  /\ mutants[k].dir \in dirs' <=> verdict'[k] = "pending" \/ keepTemp
               /\ verdict'[k] \in {"pending"} \cup Pool!Outcomes(k)
    <3>1. /\ mutants[k].dir \in dirs <=> verdict[k] = "pending" \/ keepTemp
          /\ verdict[k] \in {"pending"} \cup Pool!Outcomes(k)
      BY <2>1 DEF Dirs
    <3>2. CASE k = i
      BY <2>1, <2>2, <2>3, <3>1, <3>2
    <3>3. CASE k # i
      BY <2>1, <2>3, <2>5, <3>1, <3>3
    <3> QED BY <3>2, <3>3
  <2> QED BY <2>1, <2>3, <2>4, <2>6 DEF Dirs
<1>8. CASE Report
  <2>1. /\ phase = "run" /\ phase' = "done"
        /\ UNCHANGED <<plan, keepTemp, at, mutants, verdict, dirs>>
    BY <1>8 DEF Report
  <2>2. \A k \in DOMAIN mutants : Pool!Outcomes(k)' = Pool!Outcomes(k)
    BY <2>1 DEF Pool!Outcomes
  <2> QED BY <2>1, <2>2 DEF Dirs
<1> QED
  BY <1>1, <1>2, <1>3, <1>4, <1>5, <1>6, <1>7, <1>8 DEF Next, PrepareFails, Prepared, Finished

\* The report is composed of what the runner has decided; without rules it is
\* empty, as the lists are.
LEMMA NextReported == TypeOK /\ AtStart /\ Reported /\ [Next]_vars => Reported'
<1> SUFFICES ASSUME TypeOK, AtStart, Reported, [Next]_vars PROVE Reported'
  OBVIOUS
<1>1. CASE UNCHANGED vars
  BY <1>1 DEF vars, Reported, AllIds, Statuses, Compose, Count
<1>2. CASE NoRules
  <2>1. /\ base' = <<>> /\ mutants' = <<>> /\ verdict' = <<>> /\ report' = NoReport
    BY <1>2 DEF NoRules, Begin, AtStart
  <2>2. AllIds' = <<>> /\ Statuses' = <<>>
    <3>1. [b \in DOMAIN <<>> |-> "Errored"] = <<>>
      OBVIOUS
    <3>2. [i \in DOMAIN <<>> |-> <<>>[i].id] = <<>>
      OBVIOUS
    <3>3. <<>> \o <<>> = <<>>
      OBVIOUS
    <3> QED BY <2>1, <3>1, <3>2, <3>3 DEF AllIds, Statuses
  <2>3. \A s : Count(<<>>, s) = 0
    <3>1. \A s : {i \in DOMAIN <<>> : <<>>[i] = s} = {}
      OBVIOUS
    <3> QED BY <3>1, FS_EmptySet DEF Count
  <2>4. Compose(<<>>, <<>>) = NoReport
    BY <2>3 DEF Compose, NoReport
  <2> QED BY <2>1, <2>2, <2>4 DEF Reported
<1>3. CASE Report
  <2>1. /\ \A i \in DOMAIN verdict : verdict[i] # "pending"
        /\ report' = Compose(AllIds, Statuses)
        /\ UNCHANGED <<base, mutants, verdict>>
    BY <1>3 DEF Report, Pool!Finish, AllIds, Statuses
  <2>2. AllIds' = AllIds /\ Statuses' = Statuses
    BY <2>1 DEF AllIds, Statuses
  <2> QED BY <2>1, <2>2 DEF Reported
<1>4. CASE Next /\ ~NoRules /\ ~Report /\ ~UNCHANGED vars
  <2>1. phase' # "done"
    BY <1>4 DEF Next, PrepareFails, Prepared, Begin, Attempting, ErroredAtOnce, Unchanged,
       BuildFailsEarly, BuildFailsLate, FormatPanics, Build, StartRunner, Execute, Finished
  <2> QED BY <2>1 DEF Reported
<1> QED BY <1>1, <1>2, <1>3, <1>4

\* Every step keeps the invariant.
LEMMA NextIInv == IInv /\ [Next]_vars => IInv'
BY NextTypeOK, NextAtStart, NextOutcomes, NextDirs, NextReported DEF IInv

\* The invariant holds throughout a run.
LEMMA IInvCorrect == Spec => []IInv
BY InitIInv, NextIInv, PTL DEF Spec

\* A mutant has its directory until it is executed, and only then unless it is
\* to be kept.
THEOREM DirsCorrect == Spec => []DirsMatchMutants
<1>1. IInv => DirsMatchMutants
  BY DEF IInv, Dirs, DirsMatchMutants
<1> QED BY <1>1, IInvCorrect, PTL

-----------------------------------------------------------------------------
(***************************************************************************)
(* One outcome per attempt.                                                *)
(***************************************************************************)

\* A set whose members are all equal is empty or a singleton.
LEMMA AtMostOne ==
  ASSUME NEW S, \A x, y \in S : x = y
  PROVE  IsFiniteSet(S) /\ Cardinality(S) = IF S = {} THEN 0 ELSE 1
<1>1. CASE S = {}
  BY <1>1, FS_EmptySet
<1>2. CASE S # {}
  <2>1. PICK x \in S : S = {x}
    BY <1>2
  <2> QED BY <2>1, <1>2, FS_Singleton
<1> QED BY <1>1, <1>2

\* Every attempt made so far has exactly one outcome, an immediate result or a
\* mutant of its own, if its rule applied, and none otherwise, for any plan.
THEOREM OutcomesCorrect == Spec => []EachAttemptOnce
<1>1. ASSUME IInv PROVE EachAttemptOnce
  <2> SUFFICES ASSUME NEW j \in DOMAIN plan
               PROVE  LET errored == {b \in DOMAIN base : base[b] = j}
                          built   == {i \in DOMAIN mutants : mutants[i].id = j}
                      IN  /\ Cardinality(errored) + Cardinality(built)
                                 = IF j < at /\ plan[j].does # "same" THEN 1 ELSE 0
                          /\ \A i \in built : mutants[i].attempt = j
    BY DEF EachAttemptOnce
  <2> DEFINE errored == {b \in DOMAIN base : base[b] = j}
             built   == {i \in DOMAIN mutants : mutants[i].id = j}
  <2>0. Outcomes
    BY <1>1 DEF IInv
  <2>1. Cardinality(errored) = IF errored = {} THEN 0 ELSE 1
    <3>1. \A x, y \in errored : x = y
      BY <2>0 DEF Outcomes
    <3> QED BY <3>1, AtMostOne
  <2>2. Cardinality(built) = IF built = {} THEN 0 ELSE 1
    <3>1. \A x, y \in built : x = y
      BY <2>0 DEF Outcomes
    <3> QED BY <3>1, AtMostOne
  <2>3. errored = {} \/ built = {}
    BY <2>0 DEF Outcomes
  <2>4. CASE j < at /\ plan[j].does # "same"
    <3>1. errored # {} \/ built # {}
      BY <2>0, <2>4 DEF Outcomes, Effective
    <3> QED BY <2>0, <2>1, <2>2, <2>3, <2>4, <3>1 DEF Outcomes
  <2>5. CASE ~(j < at /\ plan[j].does # "same")
    <3>1. errored = {} /\ built = {}
      BY <2>0, <2>5 DEF Outcomes, Effective
    <3> QED BY <2>0, <2>1, <2>2, <2>5, <3>1 DEF Outcomes
  <2> QED BY <2>4, <2>5
<1> QED BY <1>1, IInvCorrect, PTL

-----------------------------------------------------------------------------
(***************************************************************************)
(* The totals.                                                             *)
(***************************************************************************)

\* A function that is one-to-one from S onto T makes them equally many.
LEMMA SameNumber ==
  ASSUME NEW S, IsFiniteSet(S), NEW T, NEW f \in [S -> T],
         \A x, y \in S : f[x] = f[y] => x = y,
         \A t \in T : \E x \in S : f[x] = t
  PROVE  IsFiniteSet(T) /\ Cardinality(T) = Cardinality(S)
<1>1. f \in Bijection(S, T)
  BY DEF Bijection, Injection, Surjection, IsInjective
<1> QED BY <1>1, FS_Bijection DEF ExistsBijection

\* The numbers up to k are k.
LEMMA UpTo ==
  ASSUME NEW k \in Nat
  PROVE  IsFiniteSet(1 .. k) /\ Cardinality(1 .. k) = k
<1>1. IsFiniteSet(1 .. k) /\ Cardinality(1 .. k) = IF 1 > k THEN 0 ELSE k - 1 + 1
  BY FS_Interval
<1> QED BY <1>1

\* What the last state of a run says of the two lists.
LEMMA Lists ==
  ASSUME IInv, phase = "done"
  PROVE  /\ Len(base) \in Nat /\ Len(mutants) \in Nat
         /\ DOMAIN base = 1 .. Len(base) /\ DOMAIN mutants = 1 .. Len(mutants)
         /\ DOMAIN verdict = 1 .. Len(mutants)
         /\ Len(AllIds) = Len(base) + Len(mutants)
         /\ DOMAIN AllIds = 1 .. Len(base) + Len(mutants)
         /\ \A i \in 1 .. Len(base) + Len(mutants) :
                AllIds[i] = IF i <= Len(base) THEN base[i] ELSE mutants[i - Len(base)].id
         /\ Len(Statuses) = Len(base) + Len(mutants)
         /\ DOMAIN Statuses = 1 .. Len(base) + Len(mutants)
         /\ \A i \in 1 .. Len(base) + Len(mutants) :
                Statuses[i] = IF i <= Len(base) THEN "Errored" ELSE verdict[i - Len(base)]
<1>1. /\ base \in Seq(Nat)
      /\ mutants \in Seq([id : Nat, dir : Nat, attempt : DOMAIN plan])
      /\ DOMAIN verdict = DOMAIN mutants
      /\ verdict \in Seq({"pending", "Killed", "Survived", "Unsupported"})
  BY DEF IInv, TypeOK, Dirs
<1>2. /\ Len(base) \in Nat /\ DOMAIN base = 1 .. Len(base)
  BY <1>1
<1>3. Len(mutants) \in Nat /\ DOMAIN mutants = 1 .. Len(mutants)
  BY <1>1
<1>4. Len(verdict) = Len(mutants) /\ DOMAIN verdict = 1 .. Len(mutants)
  BY <1>1, <1>3
<1>5. /\ AllIds \in Seq(Nat)
      /\ Len(AllIds) = Len(base) + Len(mutants)
      /\ \A i \in 1 .. Len(base) + Len(mutants) :
             AllIds[i] = IF i <= Len(base) THEN base[i] ELSE mutants[i - Len(base)].id
  <2> DEFINE ids == [i \in DOMAIN mutants |-> mutants[i].id]
  <2>1. ids \in Seq(Nat) /\ Len(ids) = Len(mutants)
    <3>1. \A i \in 1 .. Len(mutants) : mutants[i].id \in Nat
      <4> DEFINE R == [id : Nat, dir : Nat, attempt : DOMAIN plan]
      <4>1. \A i \in 1 .. Len(mutants) : mutants[i] \in R
        <5>1. mutants \in Seq(R)
          BY <1>1
        <5> HIDE DEF R
        <5> QED BY <5>1
      <4> QED BY <4>1
    <3> QED BY <1>3, <3>1
  <2>2. \A i \in DOMAIN mutants : ids[i] = mutants[i].id
    OBVIOUS
  <2>3. AllIds = base \o ids
    BY DEF AllIds
  <2> HIDE DEF ids
  <2>4. \A i \in 1 .. Len(base) + Len(mutants) : i <= Len(base) \/ i - Len(base) \in DOMAIN mutants
    BY <1>2, <1>3
  <2>5. /\ AllIds \in Seq(Nat)
        /\ Len(AllIds) = Len(base) + Len(ids)
        /\ \A i \in 1 .. Len(base) + Len(ids) :
               AllIds[i] = IF i <= Len(base) THEN base[i] ELSE ids[i - Len(base)]
    BY <1>1, <2>1, <2>3, ConcatProperties
  <2> QED BY <2>1, <2>2, <2>4, <2>5
<1>6. /\ Statuses \in Seq({"Errored", "pending", "Killed", "Survived", "Unsupported"})
      /\ Len(Statuses) = Len(base) + Len(mutants)
      /\ \A i \in 1 .. Len(base) + Len(mutants) :
             Statuses[i] = IF i <= Len(base) THEN "Errored" ELSE verdict[i - Len(base)]
  <2> DEFINE V == {"Errored", "pending", "Killed", "Survived", "Unsupported"}
             errs == [b \in DOMAIN base |-> "Errored"]
  <2>1. errs \in Seq(V) /\ Len(errs) = Len(base)
    BY <1>2
  <2>2. \A b \in 1 .. Len(base) : errs[b] = "Errored"
    BY <1>2
  <2>3. verdict \in Seq(V)
    BY <1>1
  <2>4. Statuses = errs \o verdict
    BY DEF Statuses
  <2>5. Statuses \in Seq(V) /\ Len(Statuses) = Len(base) + Len(mutants)
        /\ \A i \in 1 .. Len(base) + Len(mutants) :
             Statuses[i] = IF i <= Len(base) THEN errs[i] ELSE verdict[i - Len(base)]
    <3> HIDE DEF V, errs
    <3> QED BY <1>4, <2>1, <2>3, <2>4, ConcatProperties
  <2>6. \A i \in 1 .. Len(base) + Len(mutants) : i <= Len(base) => i \in 1 .. Len(base)
    BY <1>2, <1>3
  <2> QED
    <3> HIDE DEF errs
    <3> QED BY <2>2, <2>5, <2>6
<1>7. DOMAIN AllIds = 1 .. Len(AllIds)
  BY <1>5
<1>8. DOMAIN Statuses = 1 .. Len(Statuses)
  <2> DEFINE V == {"Errored", "pending", "Killed", "Survived", "Unsupported"}
  <2>1. Statuses \in Seq(V)
    BY <1>6
  <2> HIDE DEF V
  <2> QED BY <2>1
<1> QED BY <1>2, <1>3, <1>4, <1>5, <1>6, <1>7, <1>8

\* A column of the report other than Errored counts the executed mutants with
\* that verdict.
LEMMA ColumnOfExecuted ==
  ASSUME IInv, phase = "done", NEW s, s # "Errored"
  PROVE  Count(Statuses, s) = Count(verdict, s)
<1> DEFINE n == Len(base)
           m == Len(mutants)
           V == {i \in DOMAIN verdict : verdict[i] = s}
           S == {i \in DOMAIN Statuses : Statuses[i] = s}
           shift == [i \in V |-> i + n]
<1>1. n \in Nat /\ m \in Nat /\ V \subseteq 1 .. m
  BY Lists
<1>2. \A i \in V : i + n \in 1 .. n + m /\ ~(i + n <= n) /\ (i + n) - n = i
  <2> HIDE DEF n, m, V
  <2> QED BY <1>1
<1>3. shift \in [V -> S]
  BY <1>1, <1>2, Lists
<1>4. \A i, k \in V : shift[i] = shift[k] => i = k
  <2> HIDE DEF n, m
  <2>1. \A i \in V : i \in Int
    BY <1>1
  <2> QED BY <1>1, <2>1
<1>5. \A t \in S : \E i \in V : shift[i] = t
  <2> SUFFICES ASSUME NEW t \in S PROVE \E i \in V : shift[i] = t
    OBVIOUS
  <2>1. t \in 1 .. n + m /\ ~(t <= n) /\ Statuses[t] = s
    BY Lists
  <2>2. t - n \in 1 .. m /\ (t - n) + n = t
    BY <1>1, <2>1
  <2>3. t - n \in V
    BY <2>1, <2>2, Lists
  <2> QED BY <2>2, <2>3
<1>6. IsFiniteSet(V)
  <2> HIDE DEF V, m
  <2>1. IsFiniteSet(1 .. m)
    BY <1>1, UpTo
  <2> QED BY <1>1, <2>1, FS_Subset
<1>7. Cardinality(S) = Cardinality(V)
  <2> HIDE DEF S, V, shift
  <2> QED BY <1>3, <1>4, <1>5, <1>6, SameNumber
<1> QED BY <1>7 DEF Count

\* The Errored column counts the immediate results.
LEMMA ColumnOfErrored ==
  ASSUME IInv, phase = "done"
  PROVE  Count(Statuses, "Errored") = Len(base)
<1>1. \A i \in DOMAIN verdict : verdict[i] # "Errored"
  BY DEF IInv, Dirs, Pool!Outcomes
<1>2. {i \in DOMAIN Statuses : Statuses[i] = "Errored"} = 1 .. Len(base)
  <2>1. \A i \in 1 .. Len(base) + Len(mutants) : ~(i <= Len(base)) => i - Len(base) \in DOMAIN verdict
    BY Lists
  <2>2. \A i \in DOMAIN Statuses : Statuses[i] = "Errored" <=> i <= Len(base)
    BY <1>1, <2>1, Lists
  <2>3. \A i : i \in 1 .. Len(base) <=> i \in 1 .. Len(base) + Len(mutants) /\ i <= Len(base)
    BY Lists
  <2> QED BY <2>2, <2>3, Lists
<1>3. Cardinality(1 .. Len(base)) = Len(base)
  BY UpTo, Lists
<1> QED BY <1>2, <1>3 DEF Count

\* The IDs of the report are those of the attempts that came to something, each
\* once.
LEMMA IdsOfReport ==
  ASSUME IInv, phase = "done"
  PROVE  /\ ToSet(AllIds) = Effective
         /\ Cardinality(Effective) = Len(base) + Len(mutants)
<1> DEFINE n == Len(base)
           m == Len(mutants)
<1>0. n \in Nat /\ m \in Nat /\ DOMAIN base = 1 .. n /\ DOMAIN mutants = 1 .. m
  BY Lists
<1>1. Outcomes
  BY DEF IInv
<1>2. /\ DOMAIN AllIds = 1 .. n + m
      /\ \A i \in 1 .. n + m : AllIds[i] = IF i <= n THEN base[i] ELSE mutants[i - n].id
  BY Lists
<1>3. \A i \in 1 .. n + m : IF i <= n THEN i \in DOMAIN base ELSE i - n \in DOMAIN mutants
  <2> HIDE DEF n, m
  <2> QED BY <1>0
<1>4. /\ \A i \in DOMAIN base : i \in 1 .. n + m /\ i <= n
      /\ \A i \in DOMAIN mutants : i + n \in 1 .. n + m /\ ~(i + n <= n) /\ (i + n) - n = i
  <2> HIDE DEF n, m
  <2> QED BY <1>0
<1>5. \A j \in Effective : j < at
  BY PlanType DEF IInv, Dirs, Effective, TypeOK
<1> HIDE DEF n, m
<1>6. \A i \in 1 .. n + m : AllIds[i] \in Effective
  BY <1>1, <1>2, <1>3 DEF Outcomes
<1>7. \A j \in Effective : \E i \in 1 .. n + m : AllIds[i] = j
  <2> SUFFICES ASSUME NEW j \in Effective PROVE \E i \in 1 .. n + m : AllIds[i] = j
    OBVIOUS
  <2>1. CASE \E b \in DOMAIN base : base[b] = j
    BY <2>1, <1>2, <1>4
  <2>2. CASE \E i \in DOMAIN mutants : mutants[i].id = j
    <3>1. PICK i \in DOMAIN mutants : mutants[i].id = j
      BY <2>2
    <3>2. AllIds[i + n] = mutants[i].id
      BY <1>2, <1>4
    <3> QED BY <3>1, <3>2, <1>4
  <2> QED BY <1>1, <1>5, <2>1, <2>2 DEF Outcomes
<1>8. \A i, k \in 1 .. n + m : AllIds[i] = AllIds[k] => i = k
  <2> SUFFICES ASSUME NEW i \in 1 .. n + m, NEW k \in 1 .. n + m, AllIds[i] = AllIds[k]
               PROVE  i = k
    OBVIOUS
  <2>1. CASE i <= n /\ k <= n
    BY <2>1, <1>1, <1>2, <1>3 DEF Outcomes
  <2>2. CASE ~(i <= n) /\ ~(k <= n)
    <3>1. i - n = k - n
      BY <2>2, <1>1, <1>2, <1>3 DEF Outcomes
    <3> QED BY <3>1, <1>0
  <2>3. CASE (i <= n) # (k <= n)
    BY <2>3, <1>1, <1>2, <1>3 DEF Outcomes
  <2> QED BY <2>1, <2>2, <2>3
<1>9. ToSet(AllIds) = Effective
  BY <1>2, <1>6, <1>7 DEF ToSet
<1>10. Cardinality(Effective) = n + m
  <2> DEFINE I == 1 .. n + m
             f == [i \in I |-> AllIds[i]]
  <2>1. f \in [I -> Effective]
    BY <1>6
  <2>2. IsFiniteSet(I) /\ Cardinality(I) = n + m
    <3>1. n + m \in Nat
      BY <1>0
    <3> QED BY <3>1, UpTo
  <2>3. \A i, k \in I : f[i] = f[k] => i = k
    BY <1>8
  <2>4. \A j \in Effective : \E i \in I : f[i] = j
    BY <1>7
  <2>5. Cardinality(Effective) = Cardinality(I)
    <3> HIDE DEF I, f
    <3> QED BY <2>1, <2>2, <2>3, <2>4, SameNumber
  <2> QED BY <2>2, <2>5
<1> QED BY <1>9, <1>10 DEF n, m

\* The mutants with tests are the killed and the survived, those without the
\* unsupported.
LEMMA MutantsByTests ==
  ASSUME IInv, phase = "done"
  PROVE  LET built(tests) == {i \in DOMAIN mutants : plan[mutants[i].attempt].tests = tests}
         IN  /\ Cardinality(built(TRUE)) = Count(verdict, "Killed") + Count(verdict, "Survived")
             /\ Cardinality(built(FALSE)) = Count(verdict, "Unsupported")
<1> DEFINE built(tests) == {i \in DOMAIN mutants : plan[mutants[i].attempt].tests = tests}
           with(s) == {i \in DOMAIN verdict : verdict[i] = s}
<1>1. /\ DOMAIN verdict = DOMAIN mutants
      /\ \A i \in DOMAIN mutants :
             /\ plan[mutants[i].attempt].tests \in BOOLEAN
             /\ verdict[i] \in IF plan[mutants[i].attempt].tests THEN {"Killed", "Survived"}
                                                              ELSE {"Unsupported"}
  <2>1. \A i \in DOMAIN mutants : mutants[i].attempt \in DOMAIN plan
    BY DEF IInv, Outcomes, Effective
  <2>2. \A i \in DOMAIN mutants : plan[mutants[i].attempt].tests \in BOOLEAN
    BY <2>1, PlanType DEF IInv
  <2> QED BY <2>2 DEF IInv, Dirs, Reported, Pool!Outcomes
<1>2. built(TRUE) = with("Killed") \cup with("Survived") /\ with("Killed") \cap with("Survived") = {}
  BY <1>1
<1>3. built(FALSE) = with("Unsupported")
  BY <1>1
<1>4. \A s : IsFiniteSet(with(s)) /\ Cardinality(with(s)) \in Nat
  <2>1. IsFiniteSet(DOMAIN verdict)
    BY Lists, UpTo
  <2>2. \A s : IsFiniteSet(with(s))
    BY <2>1, FS_Subset
  <2> QED BY <2>2, FS_CardinalityType
<1>5. Cardinality(built(TRUE)) = Cardinality(with("Killed")) + Cardinality(with("Survived"))
  <2> DEFINE K == with("Killed")
             S == with("Survived")
  <2>1. /\ IsFiniteSet(K) /\ Cardinality(K) \in Nat
        /\ IsFiniteSet(S) /\ Cardinality(S) \in Nat
    BY <1>4
  <2>2. built(TRUE) = K \cup S /\ K \cap S = {}
    BY <1>2
  <2>3. Cardinality(K \cup S) = Cardinality(K) + Cardinality(S)
    <3> HIDE DEF K, S
    <3>1. Cardinality(K \cup S) = Cardinality(K) + Cardinality(S) - Cardinality(K \cap S)
      BY <2>1, FS_Union
    <3>2. Cardinality(K \cap S) = 0
      BY <2>2, FS_EmptySet
    <3> QED BY <2>1, <3>1, <3>2
  <2> QED BY <2>2, <2>3
<1> QED BY <1>3, <1>5 DEF Count

\* The report counts every attempt that came to something, each in the right
\* column, and the score is that of the mutants run against tests, for any plan.
THEOREM TotalsCorrect == Spec => []ReportAddsUp
<1>1. ASSUME IInv PROVE ReportAddsUp
  <2> SUFFICES ASSUME phase = "done"
               PROVE  LET built(tests) == {i \in DOMAIN mutants : plan[mutants[i].attempt].tests = tests}
                      IN  /\ report.total = Cardinality(Effective)
                          /\ ToSet(report.ids) = Effective
                          /\ MutationScore(report) =
                                 <<Count(verdict, "Killed"), Cardinality(built(TRUE))>>
                          /\ report.Unsupported = Cardinality(built(FALSE))
                          /\ report.Errored = report.total - Len(mutants)
    BY DEF ReportAddsUp, Effective
  <2>1. /\ report.ids = AllIds /\ report.total = Len(Statuses)
        /\ report.Killed = Count(Statuses, "Killed")
        /\ report.Survived = Count(Statuses, "Survived")
        /\ report.Unsupported = Count(Statuses, "Unsupported")
        /\ report.Errored = Count(Statuses, "Errored")
    BY <1>1 DEF IInv, Reported, Compose
  <2>2. /\ report.Killed = Count(verdict, "Killed")
        /\ report.Survived = Count(verdict, "Survived")
        /\ report.Unsupported = Count(verdict, "Unsupported")
    BY <1>1, <2>1, ColumnOfExecuted
  <2>3. /\ report.total = Len(base) + Len(mutants)
        /\ report.Errored = Len(base)
        /\ Len(base) \in Nat /\ Len(mutants) \in Nat
    BY <1>1, <2>1, ColumnOfErrored, Lists
  <2>4. report.Errored = report.total - Len(mutants)
    BY <2>3
  <2> QED BY <1>1, <2>1, <2>2, <2>3, <2>4, IdsOfReport, MutantsByTests DEF MutationScore
<1> QED BY <1>1, IInvCorrect, PTL
=============================================================================

---------------------------- MODULE RunnerProofs ----------------------------
(***************************************************************************)
(* Proofs about Runner, for every number of workers, every set of packages *)
(* and every batch.  The safety invariants are not inductive: what they    *)
(* say of a decided result was established while a worker still held it,   *)
(* so the proof carries three more facts: how the pool and the feeder      *)
(* agree and who owns which mutant (Ownership), what a worker in the loop  *)
(* of runOne has done so far and which commands run (Progress), and where  *)
(* the temp directories are (Dirs).                                        *)
(***************************************************************************)
EXTENDS Runner, TLAPS

-----------------------------------------------------------------------------
(***************************************************************************)
(* The inductive invariant.                                                *)
(***************************************************************************)
InLoop(w) == pc[w] \in {"loop", "run", "failed"}
InCmd(w)  == pc[w] \in {"run", "failed"}
Past(w)   == pc[w] \in {"cleanup", "send"}

Phases ==
    /\ main = "entry" => feeder = "off"
    /\ feeder = "off" => next = 1 /\ main # "collect"
    /\ \A w \in Worker : pc[w] = "off" <=> feeder = "off"
    /\ batch = <<>> => feeder = "off"
    /\ main = "returned" => feeder = "closed" \/ batch = <<>>
    /\ feeder \in {"wait", "closed"} => next = Len(batch) + 1
    /\ feeder = "closed" => \A w \in Worker : pc[w] = "done"
    /\ \A w \in Worker : pc[w] = "done" => feeder \in {"wait", "closed"}

Jobs ==
    \A w \in Worker :
        /\ job[w] = 0 <=> pc[w] \in {"off", "recv", "done"}
        /\ job[w] < next
        /\ res[w].mutant = job[w]

Ownership == Phases /\ Jobs /\ EachInOnePlace

\* What worker w has done of its mutant while it is in the loop.
LoopSoFar(w) ==
    /\ res[w].status = "Survived"
    /\ batch[job[w]] # {}
    /\ res[w].executed \cup todo[w] = batch[job[w]]
    /\ \A q \in todo[w] :
           /\ proc[job[w]][q] = "none"
           /\ \A r \in res[w].executed : r < q
    /\ \A q \in res[w].executed \ {cur[w]} : proc[job[w]][q] = "passed"

\* What it knows of the command it runs, or ran last.
CmdSoFar(w) ==
    /\ cur[w] \in res[w].executed
    /\ \A q \in res[w].executed : q <= cur[w]
    /\ pc[w] = "failed" =>
           /\ proc[job[w]][cur[w]] # "running"
           /\ proc[job[w]][cur[w]] = "passed" => cmdErr[w] # "nil"
    /\ cmdErr[w] = "canceled" => parent # "nil"

SoFar(w) ==
    /\ InLoop(w) => LoopSoFar(w)
    /\ InCmd(w) => CmdSoFar(w)
    /\ ~InCmd(w) => cur[w] = 0

\* No command of a mutant not yet handed out, and no command on its own.
Commands ==
    \A i \in Mutants : \A p \in Pkgs :
        /\ i >= next => proc[i][p] = "none"
        /\ proc[i][p] = "running" =>
               \E w \in Worker : pc[w] = "run" /\ job[w] = i /\ cur[w] = p

Progress == Commands /\ \A w \in Worker : SoFar(w)

Dirs ==
    /\ keepTemp => dirs = Mutants
    /\ \A i \in Mutants : i >= next => i \in dirs
    /\ \A w \in Worker : InLoop(w) \/ pc[w] = "cleanup" => job[w] \in dirs

\* The verdict of a decided result r is the right one.
Right(r) ==
    /\ r.status = "Survived" =>
           /\ r.executed = batch[r.mutant]
           /\ \A p \in batch[r.mutant] : proc[r.mutant][p] = "passed"
    /\ r.status = "Unsupported" <=> batch[r.mutant] = {}
    /\ r.status = "Killed" =>
           \E p \in r.executed :
               /\ r.executed = {q \in batch[r.mutant] : q <= p}
               /\ \A q \in batch[r.mutant] :
                      /\ q < p => proc[r.mutant][q] = "passed"
                      /\ q > p => proc[r.mutant][q] = "none"
               /\ proc[r.mutant][p] = "passed" => r.timedOut \/ parent # "nil"
               /\ proc[r.mutant][p] # "running"

Verdicted ==
    /\ \A i \in Mutants : out[i].mutant # 0 => Right(out[i])
    /\ \A w \in Worker : Past(w) => Right(res[w])

IInv == TypeOK /\ Ownership /\ Progress /\ Dirs /\ Verdicted

-----------------------------------------------------------------------------
(***************************************************************************)
(* Types.                                                                  *)
(***************************************************************************)

\* What the assumption on the batches says of one of them.
LEMMA BatchType ==
  ASSUME TypeOK
  PROVE  /\ batch \in Seq(SUBSET Pkgs)
         /\ Len(batch) \in Nat
         /\ Mutants = 1 .. Len(batch)
         /\ \A i \in 1 .. Len(batch) : batch[i] \in SUBSET Pkgs
BY BatchesAssumption DEF TypeOK, Mutants

\* The zero result and the one runOne starts from have the type of a result.
LEMMA ResultTypes ==
  ASSUME TypeOK
  PROVE  /\ ZeroResult \in Results
         /\ \A i \in Mutants : NewResult(i) \in Results
<1>1. ZeroResult \in Results
  BY BatchType DEF ZeroResult, Results
<1>2. ASSUME NEW i \in Mutants PROVE NewResult(i) \in Results
  BY BatchType DEF NewResult, Results
<1> QED BY <1>1, <1>2

\* Updating one command's state, or one field of a result, keeps the types.
LEMMA ProcUpdate ==
  ASSUME NEW f \in [Mutants -> [Pkgs -> ProcStates]],
         NEW i, NEW p, NEW s \in ProcStates
  PROVE  [f EXCEPT ![i][p] = s] \in [Mutants -> [Pkgs -> ProcStates]]
<1>1. ASSUME NEW j \in Mutants PROVE [f[j] EXCEPT ![p] = s] \in [Pkgs -> ProcStates]
  OBVIOUS
<1>2. CASE i \in Mutants
  BY <1>1, <1>2
<1>3. CASE i \notin Mutants
  BY <1>3
<1> QED BY <1>2, <1>3

LEMMA ResultUpdate ==
  ASSUME NEW r \in Results, NEW E \in SUBSET Pkgs, NEW t \in BOOLEAN
  PROVE  /\ [r EXCEPT !.executed = E] \in Results
         /\ [r EXCEPT !.status = "Killed", !.timedOut = t] \in Results
BY DEF Results

\* TypeOK is an invariant: Init establishes it and every action keeps it.
LEMMA InitTypeOK == Init => TypeOK
<1> SUFFICES ASSUME Init PROVE TypeOK
  OBVIOUS
<1>1. batch \in Seq(SUBSET Pkgs) /\ Len(batch) \in Nat
  BY BatchesAssumption DEF Init
<1>2. ZeroResult \in Results
  BY <1>1 DEF ZeroResult, Results
<1> QED
  BY <1>1, <1>2 DEF Init, TypeOK, CtxErrs, ProcStates, Mutants

\* Every step of the pool keeps the types.
LEMMA NextTypeOK == TypeOK /\ [Next]_vars => TypeOK'
<1> SUFFICES ASSUME TypeOK, [Next]_vars PROVE TypeOK'
  OBVIOUS
<1> USE DEF inputs, pool, workers
<1>0. /\ Len(batch) \in Nat
      /\ Mutants = 1 .. Len(batch)
      /\ \A i \in 1 .. Len(batch) : batch[i] \in SUBSET Pkgs
      /\ Pkgs \subseteq Nat
  BY BatchType, PkgsAssumption
<1>1. CASE ReturnEmpty
  BY <1>1 DEF ReturnEmpty, TypeOK, Results, Mutants
<1>2. CASE Start
  BY <1>2 DEF Start, TypeOK, Results, Mutants
<1>3. CASE Return
  BY <1>3 DEF Return, TypeOK, Results, Mutants
<1>4. CASE CloseJobs
  BY <1>4 DEF CloseJobs, TypeOK, Results, Mutants
<1>5. CASE CloseResults
  BY <1>5 DEF CloseResults, TypeOK, Results, Mutants
<1>6. ASSUME NEW w \in Worker, Dispatch(w) PROVE TypeOK'
  <2>1. next \in Mutants /\ NewResult(next) \in Results
    BY <1>0, <1>6, ResultTypes DEF Dispatch, TypeOK
  <2> QED BY <1>0, <1>6, <2>1 DEF Dispatch, TypeOK, Results, Mutants
<1>7. ASSUME NEW w \in Worker, NEW p \in Pkgs, StartCmd(w, p) PROVE TypeOK'
  <2>1. res[w] \in Results /\ res[w].executed \cup {p} \in SUBSET Pkgs
    BY DEF TypeOK, Results
  <2>2. res' \in [Worker -> Results]
    <3>1. [res[w] EXCEPT !.executed = res[w].executed \cup {p}] \in Results
      BY <2>1, ResultUpdate
    <3>2. res' = [res EXCEPT ![w] = [res[w] EXCEPT !.executed = res[w].executed \cup {p}]]
      BY <1>7 DEF StartCmd, BeginCmd
    <3> QED BY <3>1, <3>2 DEF TypeOK
  <2>3. proc' \in [Mutants -> [Pkgs -> ProcStates]]
    BY <1>7, ProcUpdate DEF StartCmd, TypeOK, ProcStates
  <2> QED BY <1>7, <2>2, <2>3 DEF StartCmd, BeginCmd, TypeOK, Results, Mutants
<1>8. ASSUME NEW w \in Worker, NEW p \in Pkgs, StartFails(w, p) PROVE TypeOK'
  <2>1. res[w] \in Results /\ res[w].executed \cup {p} \in SUBSET Pkgs
    BY DEF TypeOK, Results
  <2>2. res' \in [Worker -> Results]
    <3>1. [res[w] EXCEPT !.executed = res[w].executed \cup {p}] \in Results
      BY <2>1, ResultUpdate
    <3>2. res' = [res EXCEPT ![w] = [res[w] EXCEPT !.executed = res[w].executed \cup {p}]]
      BY <1>8 DEF StartFails, BeginCmd
    <3> QED BY <3>1, <3>2 DEF TypeOK
  <2> QED BY <1>8, <2>2 DEF StartFails, BeginCmd, TypeOK, Results, Mutants
<1>9. ASSUME NEW w \in Worker, WaitOK(w) PROVE TypeOK'
  BY <1>9 DEF WaitOK, TypeOK, Results, Mutants, CtxErrs
<1>10. ASSUME NEW w \in Worker, WaitErr(w) PROVE TypeOK'
  BY <1>10 DEF WaitErr, TypeOK, Results, Mutants
<1>11. ASSUME NEW w \in Worker, Classify(w) PROVE TypeOK'
  <2>1. res' \in [Worker -> Results]
    <3> DEFINE t == cmdErr[w] = "deadline"
               r == [res[w] EXCEPT !.status = "Killed", !.timedOut = t]
    <3>1. r \in Results
      BY ResultUpdate DEF TypeOK
    <3>2. res' = [res EXCEPT ![w] = r]
      BY <1>11 DEF Classify
    <3> HIDE DEF r
    <3> QED BY <3>1, <3>2 DEF TypeOK
  <2> QED BY <1>11, <2>1 DEF Classify, TypeOK, Results, Mutants, CtxErrs
<1>12. ASSUME NEW w \in Worker, LoopDone(w) PROVE TypeOK'
  BY <1>12 DEF LoopDone, TypeOK, Results, Mutants
<1>13. ASSUME NEW w \in Worker, Cleanup(w) PROVE TypeOK'
  BY <1>13 DEF Cleanup, TypeOK, Results, Mutants
<1>14. ASSUME NEW w \in Worker, Collect(w) PROVE TypeOK'
  <2>1. Results' = Results /\ Mutants' = Mutants
    BY <1>14 DEF Collect, Results, Mutants
  <2>2. out' \in [Mutants -> Results] /\ res' \in [Worker -> Results]
    BY <1>14, ResultTypes DEF Collect, TypeOK
  <2>3. pc' \in [Worker -> {"off", "recv", "loop", "run", "failed", "cleanup", "send", "done"}]
    BY <1>14 DEF Collect, TypeOK
  <2>4. job' \in [Worker -> 0 .. Len(batch)]
    BY <1>0, <1>14 DEF Collect, TypeOK
  <2> QED BY <1>14, <2>1, <2>2, <2>3, <2>4 DEF Collect, TypeOK
<1>15. ASSUME NEW w \in Worker, WorkerExit(w) PROVE TypeOK'
  BY <1>15 DEF WorkerExit, TypeOK, Results, Mutants
<1>16. ASSUME NEW w \in Worker, CmdExit(w) PROVE TypeOK'
  <2>1. proc' \in [Mutants -> [Pkgs -> ProcStates]]
    BY <1>16, ProcUpdate DEF CmdExit, TypeOK, ProcStates
  <2> QED BY <1>16, <2>1 DEF CmdExit, TypeOK, Results, Mutants
<1>17. ASSUME NEW w \in Worker, Deadline(w) PROVE TypeOK'
  BY <1>17 DEF Deadline, TypeOK, Results, Mutants, CtxErrs
<1>18. ASSUME NEW w \in Worker, Kill(w) PROVE TypeOK'
  <2>1. proc' \in [Mutants -> [Pkgs -> ProcStates]]
    BY <1>18, ProcUpdate DEF Kill, TypeOK, ProcStates
  <2> QED BY <1>18, <2>1 DEF Kill, TypeOK, Results, Mutants
<1>19. CASE ParentDone
  BY <1>19 DEF ParentDone, TypeOK, Results, Mutants, CtxErrs
<1>20. CASE UNCHANGED vars
  BY <1>20 DEF vars, TypeOK, Results, Mutants
<1> QED
  BY <1>1, <1>2, <1>3, <1>4, <1>5, <1>6, <1>7, <1>8, <1>9, <1>10, <1>11, <1>12, <1>13,
     <1>14, <1>15, <1>16, <1>17, <1>18, <1>19, <1>20
     DEF Next, RunStep, FeederStep, WorkerStep, Finished

\* Every variable keeps its type, for any number of workers and any batches.
THEOREM TypeCorrect == Spec => []TypeOK
BY InitTypeOK, NextTypeOK, PTL DEF Spec

-----------------------------------------------------------------------------
(***************************************************************************)
(* Ownership: the phases of the pool agree, and a mutant is with the       *)
(* feeder, with one worker, or collected.                                  *)
(***************************************************************************)
LEMMA InitOwnership == Init => Ownership
<1> SUFFICES ASSUME Init PROVE Ownership
  OBVIOUS
<1>1. TypeOK
  BY InitTypeOK
<1>2. Mutants = 1 .. Len(batch) /\ Len(batch) \in Nat
  BY <1>1, BatchType
<1> QED
  BY <1>2 DEF Init, Ownership, Phases, Jobs, EachInOnePlace, ZeroResult

\* Every step keeps each mutant in one place.
LEMMA NextOwnership == TypeOK /\ Ownership /\ [Next]_vars => Ownership'
<1> SUFFICES ASSUME TypeOK, Ownership, [Next]_vars PROVE Ownership'
  OBVIOUS
<1> USE DEF inputs, pool, workers
<1>0. /\ Len(batch) \in Nat
      /\ Mutants = 1 .. Len(batch)
      /\ next \in Nat /\ next <= Len(batch) + 1
      /\ job \in [Worker -> 0 .. Len(batch)]
  BY BatchType DEF TypeOK
<1>1. CASE ReturnEmpty
  BY <1>0, <1>1 DEF ReturnEmpty, Ownership, Phases, Jobs, EachInOnePlace, Mutants
<1>2. CASE Start
  BY <1>0, <1>2 DEF Start, TypeOK, Ownership, Phases, Jobs, EachInOnePlace, Mutants
<1>3. CASE Return
  BY <1>0, <1>3 DEF Return, Ownership, Phases, Jobs, EachInOnePlace, Mutants
<1>4. CASE CloseJobs
  BY <1>0, <1>4 DEF CloseJobs, Ownership, Phases, Jobs, EachInOnePlace, Mutants
<1>5. CASE CloseResults
  BY <1>0, <1>5 DEF CloseResults, Ownership, Phases, Jobs, EachInOnePlace, Mutants
<1>6. ASSUME NEW w \in Worker, Dispatch(w) PROVE Ownership'
  <2>0. /\ next \in Mutants /\ out[next].mutant = 0
        /\ \A v \in Worker : job[v] # next
        /\ job[w] = 0
    BY <1>0, <1>6 DEF Dispatch, Ownership, Jobs, EachInOnePlace
  <2>1. Phases'
    BY <1>0, <1>6 DEF Dispatch, TypeOK, Ownership, Phases
  <2>2. Jobs'
    BY <1>0, <1>6, <2>0 DEF Dispatch, TypeOK, Ownership, Jobs, NewResult
  <2>3. EachInOnePlace'
    <3>1. /\ next' = next + 1 /\ out' = out /\ Mutants' = Mutants
          /\ \A v \in Worker : job'[v] = IF v = w THEN next ELSE job[v]
      BY <1>6 DEF Dispatch, TypeOK, Mutants
    <3>2. EachInOnePlace
      BY DEF Ownership
    <3>3. ASSUME NEW i \in Mutants, i # next PROVE \A v \in Worker : job'[v] = i <=> job[v] = i
      BY <1>0, <2>0, <3>1, <3>3
    <3>4. ASSUME NEW i \in Mutants, i # next PROVE i >= next' <=> i >= next
      BY <1>0, <3>1, <3>4
    <3>5. \A v \in Worker : job'[v] = next <=> v = w
      BY <2>0, <3>1
    <3> QED BY <1>0, <2>0, <3>1, <3>2, <3>3, <3>4, <3>5 DEF EachInOnePlace
  <2> QED BY <2>1, <2>2, <2>3 DEF Ownership
<1>7. ASSUME NEW w \in Worker, NEW p \in Pkgs, StartCmd(w, p) PROVE Ownership'
  BY <1>0, <1>7
     DEF StartCmd, BeginCmd, TypeOK, Results, Ownership, Phases, Jobs, EachInOnePlace, Mutants
<1>8. ASSUME NEW w \in Worker, NEW p \in Pkgs, StartFails(w, p) PROVE Ownership'
  BY <1>0, <1>8
     DEF StartFails, BeginCmd, TypeOK, Results, Ownership, Phases, Jobs, EachInOnePlace, Mutants
<1>9. ASSUME NEW w \in Worker, WaitOK(w) PROVE Ownership'
  BY <1>0, <1>9 DEF WaitOK, TypeOK, Ownership, Phases, Jobs, EachInOnePlace, Mutants
<1>10. ASSUME NEW w \in Worker, WaitErr(w) PROVE Ownership'
  BY <1>0, <1>10 DEF WaitErr, TypeOK, Ownership, Phases, Jobs, EachInOnePlace, Mutants
<1>11. ASSUME NEW w \in Worker, Classify(w) PROVE Ownership'
  <2>1. \A v \in Worker : res'[v].mutant = res[v].mutant
    BY <1>11 DEF Classify, TypeOK, Results
  <2> QED
    BY <1>0, <1>11, <2>1 DEF Classify, TypeOK, Ownership, Phases, Jobs, EachInOnePlace, Mutants
<1>12. ASSUME NEW w \in Worker, LoopDone(w) PROVE Ownership'
  BY <1>0, <1>12 DEF LoopDone, TypeOK, Ownership, Phases, Jobs, EachInOnePlace, Mutants
<1>13. ASSUME NEW w \in Worker, Cleanup(w) PROVE Ownership'
  BY <1>0, <1>13 DEF Cleanup, TypeOK, Ownership, Phases, Jobs, EachInOnePlace, Mutants
<1>14. ASSUME NEW w \in Worker, Collect(w) PROVE Ownership'
  <2>0. /\ job[w] \in Mutants /\ job[w] < next
        /\ res[w].mutant = job[w]
    BY <1>0, <1>14 DEF Collect, Ownership, Jobs
  <2>4. \A v \in Worker : job[v] = job[w] => v = w
    BY <1>0, <2>0 DEF Ownership, EachInOnePlace
  <2>1. Phases'
    BY <1>0, <1>14 DEF Collect, TypeOK, Ownership, Phases
  <2>2. Jobs'
    BY <1>0, <1>14, <2>0 DEF Collect, TypeOK, Ownership, Jobs, ZeroResult
  <2>3. EachInOnePlace'
    <3>1. /\ next' = next /\ Mutants' = Mutants
          /\ \A v \in Worker : job'[v] = IF v = w THEN 0 ELSE job[v]
          /\ \A i \in Mutants : out'[i] = IF i = job[w] THEN res[w] ELSE out[i]
      BY <1>14 DEF Collect, TypeOK, Mutants
    <3>2. EachInOnePlace
      BY DEF Ownership
    <3>3. ASSUME NEW i \in Mutants, i # job[w]
          PROVE  /\ \A v \in Worker : job'[v] = i <=> job[v] = i
                 /\ out'[i] = out[i]
      BY <1>0, <3>1, <3>3
    <3>4. /\ \A v \in Worker : job'[v] # job[w]
          /\ out'[job[w]].mutant = job[w]
      BY <1>0, <2>0, <2>4, <3>1
    <3> QED BY <1>0, <2>0, <3>1, <3>2, <3>3, <3>4 DEF EachInOnePlace
  <2> QED BY <2>1, <2>2, <2>3 DEF Ownership
<1>15. ASSUME NEW w \in Worker, WorkerExit(w) PROVE Ownership'
  BY <1>0, <1>15 DEF WorkerExit, TypeOK, Ownership, Phases, Jobs, EachInOnePlace, Mutants
<1>16. ASSUME NEW w \in Worker, CmdExit(w) PROVE Ownership'
  BY <1>16 DEF CmdExit, Ownership, Phases, Jobs, EachInOnePlace, Mutants
<1>17. ASSUME NEW w \in Worker, Deadline(w) PROVE Ownership'
  BY <1>17 DEF Deadline, Ownership, Phases, Jobs, EachInOnePlace, Mutants
<1>18. ASSUME NEW w \in Worker, Kill(w) PROVE Ownership'
  BY <1>18 DEF Kill, Ownership, Phases, Jobs, EachInOnePlace, Mutants
<1>19. CASE ParentDone
  BY <1>19 DEF ParentDone, Ownership, Phases, Jobs, EachInOnePlace, Mutants
<1>20. CASE UNCHANGED vars
  BY <1>20 DEF vars, Ownership, Phases, Jobs, EachInOnePlace, Mutants
<1> QED
  BY <1>1, <1>2, <1>3, <1>4, <1>5, <1>6, <1>7, <1>8, <1>9, <1>10, <1>11, <1>12, <1>13,
     <1>14, <1>15, <1>16, <1>17, <1>18, <1>19, <1>20
     DEF Next, RunStep, FeederStep, WorkerStep, Finished

\* No mutant is lost, handed out twice or stored in another's slot, however
\* many workers there are and however their steps interleave.
THEOREM EachInOnePlaceCorrect == Spec => []EachInOnePlace
<1>1. Init => TypeOK /\ Ownership
  BY InitTypeOK, InitOwnership
<1>2. TypeOK /\ Ownership /\ [Next]_vars => TypeOK' /\ Ownership'
  BY NextTypeOK, NextOwnership
<1>3. TypeOK /\ Ownership => EachInOnePlace
  BY DEF Ownership
<1> QED BY <1>1, <1>2, <1>3, PTL DEF Spec

-----------------------------------------------------------------------------
(***************************************************************************)
(* Progress: what a worker has done so far, and which commands run.        *)
(***************************************************************************)

\* A worker inside runOne has a mutant to itself, handed out and not collected.
LEMMA Owner ==
  ASSUME TypeOK, Ownership, NEW w \in Worker, pc[w] \notin {"off", "recv", "done"}
  PROVE  /\ job[w] \in Mutants /\ job[w] < next
         /\ res[w].mutant = job[w]
         /\ out[job[w]].mutant = 0
         /\ \A v \in Worker : job[v] = job[w] => v = w
<1>1. /\ job[w] # 0 /\ job[w] < next /\ res[w].mutant = job[w]
  BY DEF Ownership, Jobs
<1>2. /\ job[w] \in Mutants
      /\ next \in Nat /\ job \in [Worker -> Nat]
      /\ Mutants \subseteq Nat \ {0}
  BY <1>1, BatchType DEF TypeOK
<1> QED BY <1>1, <1>2 DEF Ownership, EachInOnePlace

\* A step that leaves worker v alone, and the commands of its mutant, keeps
\* what is known of v.
LEMMA SoFarFrame ==
  ASSUME TypeOK, Ownership, NEW v \in Worker, SoFar(v),
         batch' = batch, parent = "nil" \/ parent' = parent,
         pc'[v] = pc[v], job'[v] = job[v], todo'[v] = todo[v], cur'[v] = cur[v],
         cmdErr'[v] = cmdErr[v], res'[v] = res[v],
         InLoop(v) => proc'[job[v]] = proc[job[v]]
  PROVE  SoFar(v)'
BY DEF SoFar, InLoop, InCmd, LoopSoFar, CmdSoFar

\* At first no command has run and no worker is in runOne.
LEMMA InitProgress == Init => Progress
BY DEF Init, Progress, Commands, SoFar, InLoop, InCmd

\* A step that changes no command and lets no worker leave or enter one keeps
\* what is known of the commands.
LEMMA CommandsFrame ==
  ASSUME TypeOK, Commands, batch' = batch, next' \in Nat, next <= next', proc' = proc,
         \A v \in Worker : pc[v] = "run" /\ proc[job[v]][cur[v]] = "running" =>
             pc'[v] = "run" /\ job'[v] = job[v] /\ cur'[v] = cur[v]
  PROVE  Commands'
<1> SUFFICES ASSUME NEW i \in Mutants, NEW p \in Pkgs
             PROVE  /\ i >= next' => proc[i][p] = "none"
                    /\ proc[i][p] = "running" =>
                           \E w \in Worker : pc'[w] = "run" /\ job'[w] = i /\ cur'[w] = p
  BY DEF Commands, Mutants
<1>1. i \in Nat /\ next \in Nat
  BY BatchType DEF TypeOK
<1>2. i >= next' => i >= next
  BY <1>1
<1> QED BY <1>2 DEF Commands

\* Every step keeps what is known of the commands and of each worker's loop.
LEMMA NextProgress ==
  TypeOK /\ Ownership /\ Progress /\ [Next]_vars => Progress'
<1> SUFFICES ASSUME TypeOK, Ownership, Progress, [Next]_vars PROVE Progress'
  OBVIOUS
<1> USE DEF inputs, pool, workers
<1>0. /\ Len(batch) \in Nat
      /\ Mutants = 1 .. Len(batch)
      /\ \A i \in Mutants : batch[i] \subseteq Pkgs
      /\ next \in Nat /\ next' \in Nat
      /\ Pkgs \subseteq Nat /\ 0 \notin Pkgs
      /\ TypeOK'
  BY BatchType, PkgsAssumption, NextTypeOK DEF TypeOK
<1>a. /\ Commands
       /\ \A v \in Worker : SoFar(v)
  BY DEF Progress
<1>1. CASE ReturnEmpty \/ Return \/ CloseJobs \/ CloseResults \/ UNCHANGED vars
  <2>1. batch' = batch /\ parent' = parent /\ proc' = proc /\ next' = next /\ UNCHANGED workers
    BY <1>1 DEF ReturnEmpty, Return, CloseJobs, CloseResults, vars
  <2>2. Commands'
    BY <1>0, <1>a, <2>1, CommandsFrame
  <2>3. ASSUME NEW v \in Worker PROVE SoFar(v)'
    BY <1>a, <2>1, SoFarFrame
  <2> QED BY <2>2, <2>3 DEF Progress
<1>2. CASE Start
  <2>1. \A v \in Worker : pc[v] = "off" /\ pc'[v] = "recv"
    BY <1>2 DEF Start, Ownership, Phases
  <2>2. Commands'
    BY <1>0, <1>a, <1>2, <2>1, CommandsFrame DEF Start
  <2>3. ASSUME NEW v \in Worker PROVE SoFar(v)'
    BY <1>a, <1>2, <2>1 DEF Start, SoFar, InLoop, InCmd
  <2> QED BY <2>2, <2>3 DEF Progress
<1>3. ASSUME NEW w \in Worker, Dispatch(w) PROVE Progress'
  <2>1. next \in Mutants /\ \A p \in Pkgs : proc[next][p] = "none"
    <3>1. next \in Mutants /\ next >= next
      BY <1>0, <1>3 DEF Dispatch, TypeOK
    <3> QED BY <1>a, <3>1 DEF Commands
  <2>2. Commands'
    BY <1>0, <1>a, <1>3, CommandsFrame DEF Dispatch, TypeOK
  <2>3. SoFar(w)'
    BY <1>0, <1>a, <1>3, <2>1
       DEF Dispatch, TypeOK, SoFar, InLoop, InCmd, LoopSoFar, NewResult
  <2>4. ASSUME NEW v \in Worker, v # w PROVE SoFar(v)'
    BY <1>a, <1>3, <2>4, SoFarFrame DEF Dispatch, TypeOK
  <2> QED BY <2>2, <2>3, <2>4 DEF Progress
<1>4. ASSUME NEW w \in Worker, NEW p \in Pkgs, BeginCmd(w, p, "run") \/ BeginCmd(w, p, "failed"),
             \/ parent = "nil" /\ pc'[w] = "run"
                /\ proc' = [proc EXCEPT ![job[w]][p] = "running"]
             \/ pc'[w] = "failed" /\ UNCHANGED proc
      PROVE  Progress'
  <2>1. /\ pc[w] = "loop" /\ p \in todo[w] /\ \A q \in todo[w] : p <= q
        /\ todo'[w] = todo[w] \ {p} /\ cur'[w] = p /\ job' = job
        /\ res'[w].executed = res[w].executed \cup {p}
        /\ res'[w].status = res[w].status
        /\ cmdErr'[w] = parent /\ batch' = batch /\ parent' = parent /\ next' = next
    BY <1>4 DEF BeginCmd, TypeOK, Results
  <2>2. job[w] \in Mutants /\ job[w] < next /\ \A v \in Worker : job[v] = job[w] => v = w
    BY <2>1, Owner
  <2>3. LoopSoFar(w) /\ cur[w] = 0
    BY <1>a, <2>1 DEF SoFar, InLoop, InCmd
  <2>4. /\ \A q \in Pkgs : q # p => proc'[job[w]][q] = proc[job[w]][q]
        /\ \A i \in Mutants : i # job[w] => proc'[i] = proc[i]
        /\ pc'[w] = "run" => proc'[job[w]][p] = "running"
        /\ pc'[w] = "failed" => proc'[job[w]][p] = proc[job[w]][p]
    BY <1>4, <2>2 DEF TypeOK
  <2>5. todo[w] \subseteq Pkgs /\ res[w].executed \subseteq Pkgs
    BY DEF TypeOK, Results
  <2>6. SoFar(w)'
    <3>1. LoopSoFar(w)'
      BY <1>0, <2>1, <2>2, <2>3, <2>4, <2>5 DEF LoopSoFar
    <3>2. CmdSoFar(w)'
      BY <1>0, <1>4, <2>1, <2>2, <2>3, <2>4, <2>5 DEF LoopSoFar, CmdSoFar
    <3> QED BY <1>4, <3>1, <3>2 DEF SoFar, InCmd
  <2>7. ASSUME NEW v \in Worker, v # w PROVE SoFar(v)'
    <3>1. job[v] # job[w] /\ (InLoop(v) => job[v] \in Mutants)
      BY <2>2, <2>7, Owner DEF InLoop
    <3>2. /\ pc'[v] = pc[v] /\ todo'[v] = todo[v] /\ cur'[v] = cur[v]
          /\ cmdErr'[v] = cmdErr[v] /\ res'[v] = res[v]
      BY <1>4, <2>7 DEF BeginCmd, TypeOK
    <3> QED BY <1>a, <2>1, <2>4, <3>1, <3>2, SoFarFrame
  <2>8. Commands'
    <3> SUFFICES ASSUME NEW i \in Mutants, NEW q \in Pkgs
                 PROVE  /\ i >= next => proc'[i][q] = "none"
                        /\ proc'[i][q] = "running" =>
                            \E v \in Worker : pc'[v] = "run" /\ job'[v] = i /\ cur'[v] = q
      BY <2>1 DEF Commands, Mutants
    <3>1. CASE i = job[w] /\ q = p
      <4>1. ~(i >= next)
        BY <1>0, <2>2, <3>1
      <4>2. proc[i][q] # "running"
        BY <2>1, <2>3, <3>1 DEF LoopSoFar
      <4> QED BY <1>4, <2>1, <2>4, <3>1, <4>1, <4>2
    <3>2. CASE ~(i = job[w] /\ q = p)
      <4>1. proc'[i][q] = proc[i][q]
        BY <2>4, <3>2
      <4>2. \A v \in Worker : pc[v] = "run" => pc'[v] = "run" /\ cur'[v] = cur[v]
        BY <1>4, <2>1 DEF BeginCmd, TypeOK
      <4> QED BY <1>a, <2>1, <4>1, <4>2 DEF Commands
    <3> QED BY <3>1, <3>2
  <2> QED BY <2>6, <2>7, <2>8 DEF Progress
<1>5. ASSUME NEW w \in Worker, WaitOK(w) PROVE Progress'
  <2>1. LoopSoFar(w) /\ cur[w] \in res[w].executed
    BY <1>a, <1>5 DEF WaitOK, SoFar, InLoop, InCmd, CmdSoFar
  <2>2. SoFar(w)'
    BY <1>5, <2>1 DEF WaitOK, TypeOK, SoFar, InLoop, InCmd, LoopSoFar
  <2>3. ASSUME NEW v \in Worker, v # w PROVE SoFar(v)'
    BY <1>a, <1>5, <2>3, SoFarFrame DEF WaitOK, TypeOK
  <2>4. Commands'
    BY <1>0, <1>a, <1>5, CommandsFrame DEF WaitOK, TypeOK
  <2> QED BY <2>2, <2>3, <2>4 DEF Progress
<1>6. ASSUME NEW w \in Worker, WaitErr(w) PROVE Progress'
  <2>1. LoopSoFar(w) /\ CmdSoFar(w)
    BY <1>a, <1>6 DEF WaitErr, SoFar, InLoop, InCmd
  <2>2. SoFar(w)'
    BY <1>6, <2>1 DEF WaitErr, TypeOK, SoFar, InLoop, InCmd, LoopSoFar, CmdSoFar
  <2>3. ASSUME NEW v \in Worker, v # w PROVE SoFar(v)'
    BY <1>a, <1>6, <2>3, SoFarFrame DEF WaitErr, TypeOK
  <2>4. Commands'
    BY <1>0, <1>a, <1>6, CommandsFrame DEF WaitErr, TypeOK
  <2> QED BY <2>2, <2>3, <2>4 DEF Progress
<1>7. ASSUME NEW w \in Worker,
             Classify(w) \/ LoopDone(w) \/ Cleanup(w) \/ Collect(w) \/ WorkerExit(w)
      PROVE  Progress'
  <2>1. /\ batch' = batch /\ parent' = parent /\ proc' = proc /\ next' = next
        /\ pc'[w] \in {"cleanup", "send", "recv", "done"}
        /\ cur'[w] = IF pc[w] = "failed" THEN 0 ELSE cur[w]
        /\ pc[w] # "run"
    BY <1>7 DEF Classify, LoopDone, Cleanup, Collect, WorkerExit, TypeOK
  <2>2. SoFar(w)'
    BY <1>a, <2>1 DEF SoFar, InLoop, InCmd
  <2>3. ASSUME NEW v \in Worker, v # w
        PROVE  /\ pc'[v] = pc[v] /\ job'[v] = job[v] /\ todo'[v] = todo[v]
               /\ cur'[v] = cur[v] /\ cmdErr'[v] = cmdErr[v] /\ res'[v] = res[v]
    BY <1>7, <2>3 DEF Classify, LoopDone, Cleanup, Collect, WorkerExit, TypeOK
  <2>4. ASSUME NEW v \in Worker, v # w PROVE SoFar(v)'
    BY <1>a, <2>1, <2>3, <2>4, SoFarFrame
  <2>5. Commands'
    BY <1>0, <1>a, <2>1, <2>3, CommandsFrame
  <2> QED BY <2>2, <2>4, <2>5 DEF Progress
<1>8. ASSUME NEW w \in Worker, CmdExit(w) \/ Kill(w) PROVE Progress'
  <2>1. /\ pc[w] = "run" /\ UNCHANGED <<workers, batch, parent, next>>
    BY <1>8 DEF CmdExit, Kill
  <2>2. LoopSoFar(w) /\ CmdSoFar(w)
    BY <1>a, <2>1 DEF SoFar, InLoop, InCmd
  <2>3. job[w] \in Mutants /\ job[w] < next /\ \A v \in Worker : job[v] = job[w] => v = w
    BY <2>1, Owner
  <2>4. todo[w] \subseteq Pkgs /\ res[w].executed \subseteq Pkgs /\ cur[w] \in Pkgs
    BY <2>2 DEF TypeOK, Results, CmdSoFar
  <2>5. PICK s \in ProcStates : s # "running" /\ s # "none"
                               /\ proc' = [proc EXCEPT ![job[w]][cur[w]] = s]
    BY <1>8 DEF CmdExit, Kill, ProcStates
  <2>6. /\ \A q \in Pkgs : q # cur[w] => proc'[job[w]][q] = proc[job[w]][q]
        /\ \A i \in Mutants : i # job[w] => proc'[i] = proc[i]
        /\ proc'[job[w]][cur[w]] = s
    BY <2>3, <2>4, <2>5 DEF TypeOK
  <2>7. cur[w] \notin todo[w]
    <3>1. cur[w] \in Nat \ {0}
      BY <2>4, PkgsAssumption, Zenon
    <3>2. cur[w] \in res[w].executed
      BY <2>2 DEF CmdSoFar
    <3>3. \A q \in todo[w] : \A r \in res[w].executed : r < q
      BY <2>2 DEF LoopSoFar
    <3>4. ~(cur[w] < cur[w])
      BY <3>1
    <3> QED BY <3>2, <3>3, <3>4
  <2>8. SoFar(w)'
    BY <2>1, <2>2, <2>4, <2>6, <2>7 DEF SoFar, InLoop, InCmd, LoopSoFar, CmdSoFar
  <2>9. ASSUME NEW v \in Worker, v # w PROVE SoFar(v)'
    <3>1. job[v] # job[w] /\ (InLoop(v) => job[v] \in Mutants)
      BY <2>3, <2>9, Owner DEF InLoop
    <3> QED BY <1>a, <2>1, <2>6, <3>1, SoFarFrame
  <2>10. Commands'
    <3> SUFFICES ASSUME NEW i \in Mutants, NEW q \in Pkgs
                 PROVE  /\ i >= next => proc'[i][q] = "none"
                        /\ proc'[i][q] = "running" => proc[i][q] = "running"
      BY <1>a, <2>1 DEF Commands, Mutants
    <3>1. CASE i = job[w] /\ q = cur[w]
      BY <1>0, <2>3, <2>5, <2>6, <3>1
    <3>2. CASE ~(i = job[w] /\ q = cur[w])
      BY <1>a, <2>6, <3>2 DEF Commands
    <3> QED BY <3>1, <3>2
  <2> QED BY <2>8, <2>9, <2>10 DEF Progress
<1>9. ASSUME NEW w \in Worker, Deadline(w) PROVE Progress'
  <2>1. SoFar(w)'
    BY <1>a, <1>9 DEF Deadline, TypeOK, SoFar, InLoop, InCmd, LoopSoFar, CmdSoFar
  <2>2. ASSUME NEW v \in Worker, v # w PROVE SoFar(v)'
    BY <1>a, <1>9, <2>2, SoFarFrame DEF Deadline, TypeOK
  <2>3. Commands'
    BY <1>0, <1>a, <1>9, CommandsFrame DEF Deadline
  <2> QED BY <2>1, <2>2, <2>3 DEF Progress
<1>10. CASE ParentDone
  <2>1. parent' # "nil"
    BY <1>10 DEF ParentDone
  <2>2. ASSUME NEW v \in Worker PROVE SoFar(v)'
    BY <1>a, <1>10, <2>1 DEF ParentDone, SoFar, InLoop, InCmd, LoopSoFar, CmdSoFar
  <2>3. Commands'
    BY <1>0, <1>a, <1>10, CommandsFrame DEF ParentDone
  <2> QED BY <2>2, <2>3 DEF Progress
<1>11. ASSUME NEW w \in Worker, NEW p \in Pkgs, StartCmd(w, p) \/ StartFails(w, p)
       PROVE  Progress'
  <2>1. pc'[w] = IF StartCmd(w, p) THEN "run" ELSE "failed"
    BY <1>11 DEF StartCmd, StartFails, BeginCmd, TypeOK
  <2> QED BY <1>4, <1>11, <2>1 DEF StartCmd, StartFails
<1> QED
  BY <1>1, <1>2, <1>3, <1>5, <1>6, <1>7, <1>8, <1>9, <1>10, <1>11
     DEF Next, RunStep, FeederStep, WorkerStep, Finished

-----------------------------------------------------------------------------
(***************************************************************************)
(* Temp directories.                                                       *)
(***************************************************************************)
\* At first every mutant has its temp directory.
LEMMA InitDirs == Init => Dirs
BY DEF Init, Dirs, InLoop

\* Every step keeps the directories of mutants whose commands may still run.
LEMMA NextDirs == TypeOK /\ Ownership /\ Dirs /\ [Next]_vars => Dirs'
<1> SUFFICES ASSUME TypeOK, Ownership, Dirs, [Next]_vars PROVE Dirs'
  OBVIOUS
<1> USE DEF inputs, pool, workers
<1>0. next \in Nat /\ Mutants \subseteq Nat
  BY BatchType DEF TypeOK
<1>1. CASE ReturnEmpty \/ Return \/ CloseJobs \/ CloseResults \/ UNCHANGED vars
  BY <1>1 DEF ReturnEmpty, Return, CloseJobs, CloseResults, vars, Dirs, InLoop, Mutants
<1>2. CASE Start
  BY <1>2 DEF Start, Dirs, InLoop, Mutants
<1>3. ASSUME NEW w \in Worker, Dispatch(w) PROVE Dirs'
  <2>1. next \in Mutants
    BY <1>3, BatchType DEF Dispatch, TypeOK
  <2> QED BY <1>0, <1>3, <2>1 DEF Dispatch, TypeOK, Dirs, InLoop, Mutants
<1>4. ASSUME NEW w \in Worker, NEW p \in Pkgs, StartCmd(w, p) \/ StartFails(w, p) PROVE Dirs'
  BY <1>4 DEF StartCmd, StartFails, BeginCmd, TypeOK, Dirs, InLoop, Mutants
<1>5. ASSUME NEW w \in Worker, WaitOK(w) \/ WaitErr(w) PROVE Dirs'
  BY <1>5 DEF WaitOK, WaitErr, TypeOK, Dirs, InLoop, Mutants
<1>6. ASSUME NEW w \in Worker, Classify(w) \/ LoopDone(w) PROVE Dirs'
  BY <1>6 DEF Classify, LoopDone, TypeOK, Dirs, InLoop, Mutants
<1>7. ASSUME NEW w \in Worker, Cleanup(w) PROVE Dirs'
  <2>1. job[w] \in Mutants /\ job[w] < next /\ \A v \in Worker : job[v] = job[w] => v = w
    BY <1>7, Owner DEF Cleanup
  <2>2. PICK d \in {dirs, dirs \ {job[w]}} : (keepTemp => d = dirs) /\ dirs' = d
    BY <1>7 DEF Cleanup
  <2>3. \A i \in Mutants : i >= next => i # job[w]
    BY <1>0, <2>1
  <2>4. \A v \in Worker : v # w => pc'[v] = pc[v] /\ job[v] # job[w]
    BY <1>7, <2>1 DEF Cleanup, TypeOK
  <2>5. pc'[w] = "send" /\ UNCHANGED <<keepTemp, batch, next, job>>
    BY <1>7 DEF Cleanup, TypeOK
  <2> QED BY <2>2, <2>3, <2>4, <2>5 DEF Dirs, InLoop, Mutants
<1>8. ASSUME NEW w \in Worker, Collect(w) \/ WorkerExit(w) PROVE Dirs'
  <2>1. /\ UNCHANGED <<keepTemp, batch, next, dirs>> /\ pc'[w] \in {"recv", "done"}
        /\ \A v \in Worker : v # w => pc'[v] = pc[v] /\ job'[v] = job[v]
    BY <1>8 DEF Collect, WorkerExit, TypeOK
  <2> QED BY <2>1 DEF Dirs, InLoop, Mutants
<1>9. ASSUME NEW w \in Worker, CmdExit(w) \/ Kill(w) \/ Deadline(w) PROVE Dirs'
  BY <1>9 DEF CmdExit, Kill, Deadline, Dirs, InLoop, Mutants
<1>10. CASE ParentDone
  BY <1>10 DEF ParentDone, Dirs, InLoop, Mutants
<1> QED
  BY <1>1, <1>2, <1>3, <1>4, <1>5, <1>6, <1>7, <1>8, <1>9, <1>10
     DEF Next, RunStep, FeederStep, WorkerStep, Finished

-----------------------------------------------------------------------------
(***************************************************************************)
(* Verdicts: a decided result is right when runOne leaves the loop, and    *)
(* stays so because no command of its mutant runs any more.                *)
(***************************************************************************)
\* At first no result is collected.
LEMMA InitVerdicted == Init => Verdicted
BY DEF Init, Verdicted, Past, ZeroResult

\* A step of worker w that collects nothing keeps the verdicts, if its own is
\* right when it decides one.
LEMMA VerdictedFrame ==
  ASSUME TypeOK, Ownership, Verdicted, NEW w \in Worker,
         batch' = batch, parent = "nil" \/ parent' = parent, out' = out,
         job[w] # 0 => pc[w] \notin {"off", "recv", "done"},
         \A i \in Mutants : i # job[w] => proc'[i] = proc[i],
         \A v \in Worker : v # w => pc'[v] = pc[v] /\ res'[v] = res[v],
         Past(w)' => Right(res[w])'
  PROVE  Verdicted'
<1>1. ASSUME NEW i \in Mutants, out[i].mutant # 0 PROVE Right(out[i])'
  <2>1. out[i].mutant = i /\ i # job[w]
    <3>1. i \in Nat \ {0} /\ next \in Nat
      BY BatchType DEF TypeOK
    <3>2. out[i].mutant = i
      BY <1>1, <3>1 DEF Ownership, EachInOnePlace
    <3>3. job[w] # 0 => out[job[w]].mutant = 0
      BY Owner
    <3> QED BY <1>1, <3>1, <3>2, <3>3
  <2>2. proc'[out[i].mutant] = proc[out[i].mutant]
    BY <2>1
  <2>3. Right(out[i])
    BY <1>1 DEF Verdicted
  <2> QED BY <2>2, <2>3 DEF Right
<1>2. ASSUME NEW v \in Worker, v # w, Past(v)' PROVE Right(res[v])'
  <2>1. Past(v) /\ res'[v] = res[v]
    BY <1>2 DEF Past
  <2>2. res[v].mutant \in Mutants /\ res[v].mutant # job[w]
    BY <1>2, <2>1, Owner DEF Past
  <2>3. Right(res[v])
    BY <2>1 DEF Verdicted
  <2> QED BY <2>1, <2>2, <2>3 DEF Right
<1> QED BY <1>1, <1>2 DEF Verdicted, Mutants

\* Every step keeps the verdicts of the collected results right.
LEMMA NextVerdicted ==
  TypeOK /\ Ownership /\ Progress /\ Verdicted /\ [Next]_vars => Verdicted'
<1> SUFFICES ASSUME TypeOK, Ownership, Progress, Verdicted, [Next]_vars PROVE Verdicted'
  OBVIOUS
<1> USE DEF inputs, pool, workers
<1>0. \A v \in Worker : job[v] # 0 => pc[v] \notin {"off", "recv", "done"}
  BY DEF Ownership, Jobs
<1>1. CASE ReturnEmpty \/ Return \/ CloseJobs \/ CloseResults \/ UNCHANGED vars
  <2>1. UNCHANGED <<batch, out, proc, res, pc, parent>>
    BY <1>1 DEF ReturnEmpty, Return, CloseJobs, CloseResults, vars
  <2>2. ASSUME NEW i \in Mutants, out'[i].mutant # 0 PROVE Right(out[i])'
    <3>1. Right(out[i])
      BY <2>1, <2>2 DEF Verdicted
    <3> QED BY <2>1, <3>1 DEF Right
  <2>3. ASSUME NEW v \in Worker, Past(v)' PROVE Right(res[v])'
    <3>1. Right(res[v])
      BY <2>1, <2>3 DEF Verdicted, Past
    <3> QED BY <2>1, <3>1 DEF Right
  <2> QED BY <2>1, <2>2, <2>3 DEF Verdicted, Mutants
<1>2. CASE Start
  BY <1>2 DEF Start, Verdicted, Right, Past, Mutants
<1>3. ASSUME NEW w \in Worker, Dispatch(w) PROVE Verdicted'
  <2>1. Past(w)' => batch[next] = {}
    BY <1>3 DEF Dispatch, Past, TypeOK
  <2>2. res'[w] = NewResult(next) /\ UNCHANGED <<batch, proc, out, parent>>
        /\ \A v \in Worker : v # w => pc'[v] = pc[v] /\ res'[v] = res[v]
    BY <1>3 DEF Dispatch, TypeOK
  <2>3. Past(w)' => Right(res[w])'
    BY <2>1, <2>2 DEF NewResult, Right
  <2> QED BY <1>0, <2>2, <2>3, VerdictedFrame
<1>4. ASSUME NEW w \in Worker, NEW p \in Pkgs, StartCmd(w, p) \/ StartFails(w, p)
      PROVE  Verdicted'
  <2>1. UNCHANGED <<batch, out, parent>> /\ ~Past(w)'
        /\ \A v \in Worker : v # w => pc'[v] = pc[v] /\ res'[v] = res[v]
    BY <1>4 DEF StartCmd, StartFails, BeginCmd, Past, TypeOK
  <2>2. \A i \in Mutants : i # job[w] => proc'[i] = proc[i]
    BY <1>4 DEF StartCmd, StartFails, TypeOK
  <2> QED BY <1>0, <2>1, <2>2, VerdictedFrame
<1>5. ASSUME NEW w \in Worker, WaitOK(w) \/ WaitErr(w) PROVE Verdicted'
  <2>1. UNCHANGED <<batch, out, parent, proc>> /\ ~Past(w)'
        /\ \A v \in Worker : v # w => pc'[v] = pc[v] /\ res'[v] = res[v]
    BY <1>5 DEF WaitOK, WaitErr, Past, TypeOK
  <2> QED BY <1>0, <2>1, VerdictedFrame
<1>6. ASSUME NEW w \in Worker, Classify(w) PROVE Verdicted'
  <2>1. UNCHANGED <<batch, out, parent, proc>>
        /\ \A v \in Worker : v # w => pc'[v] = pc[v] /\ res'[v] = res[v]
    BY <1>6 DEF Classify, TypeOK
  <2>2. LoopSoFar(w) /\ CmdSoFar(w) /\ pc[w] = "failed"
    BY <1>6 DEF Classify, Progress, SoFar, InLoop, InCmd
  <2>3. /\ res'[w].mutant = job[w] /\ res'[w].status = "Killed"
        /\ res'[w].executed = res[w].executed
        /\ res'[w].timedOut = (cmdErr[w] = "deadline")
    <3>1. res[w].mutant = job[w]
      BY <2>2, Owner
    <3> QED BY <1>6, <3>1 DEF Classify, TypeOK, Results
  <2>4. /\ res[w].executed \subseteq Nat /\ todo[w] \subseteq Nat /\ cur[w] \in Nat
        /\ batch[job[w]] = res[w].executed \cup todo[w] /\ batch[job[w]] # {}
    <3>1. res[w].executed \subseteq Pkgs /\ todo[w] \subseteq Pkgs
      BY DEF TypeOK, Results
    <3>2. cur[w] \in res[w].executed
      BY <2>2 DEF CmdSoFar
    <3>3. Pkgs \subseteq Nat
      BY PkgsAssumption
    <3> QED BY <2>2, <3>1, <3>2, <3>3 DEF LoopSoFar
  <2>5. \A q \in todo[w] : cur[w] < q
    BY <2>2 DEF LoopSoFar, CmdSoFar
  <2>6. cur[w] \in res[w].executed /\ \A q \in res[w].executed : q <= cur[w]
    BY <2>2 DEF CmdSoFar
  <2>7. res[w].executed = {q \in batch[job[w]] : q <= cur[w]}
    BY <2>4, <2>5, <2>6
  <2>8. \A q \in batch[job[w]] :
            /\ q < cur[w] => proc[job[w]][q] = "passed"
            /\ q > cur[w] => proc[job[w]][q] = "none"
    <3> TAKE q \in batch[job[w]]
    <3>1. CASE q \in todo[w]
      BY <2>2, <2>4, <2>5, <3>1 DEF LoopSoFar
    <3>2. CASE q \in res[w].executed
      BY <2>2, <2>4, <2>6, <3>2 DEF LoopSoFar
    <3> QED BY <2>4, <3>1, <3>2
  <2>9. /\ proc[job[w]][cur[w]] # "running"
        /\ proc[job[w]][cur[w]] = "passed" => res'[w].timedOut \/ parent # "nil"
    BY <2>2, <2>3 DEF CmdSoFar, TypeOK, CtxErrs
  <2>10. Right(res[w])'
    BY <2>1, <2>3, <2>4, <2>6, <2>7, <2>8, <2>9 DEF Right
  <2> QED BY <1>0, <2>1, <2>10, VerdictedFrame
<1>7. ASSUME NEW w \in Worker, LoopDone(w) PROVE Verdicted'
  <2>1. UNCHANGED <<batch, out, parent, proc, res>>
        /\ \A v \in Worker : v # w => pc'[v] = pc[v]
    BY <1>7 DEF LoopDone, TypeOK
  <2>2. LoopSoFar(w) /\ todo[w] = {} /\ cur[w] = 0 /\ res[w].mutant = job[w]
    BY <1>7, Owner DEF LoopDone, Progress, SoFar, InLoop, InCmd
  <2>3. res[w].executed \subseteq Pkgs /\ 0 \notin Pkgs
    BY PkgsAssumption DEF TypeOK, Results
  <2>4. Right(res[w])
    BY <2>2, <2>3 DEF LoopSoFar, Right
  <2> QED BY <1>0, <2>1, <2>4, VerdictedFrame DEF Right
<1>8. ASSUME NEW w \in Worker, Cleanup(w) PROVE Verdicted'
  <2>1. UNCHANGED <<batch, out, parent, proc, res>> /\ Past(w)
        /\ \A v \in Worker : v # w => pc'[v] = pc[v]
    BY <1>8 DEF Cleanup, TypeOK, Past
  <2>2. Right(res[w])
    BY <2>1 DEF Verdicted
  <2> QED BY <1>0, <2>1, <2>2, VerdictedFrame DEF Right
<1>9. ASSUME NEW w \in Worker, Collect(w) PROVE Verdicted'
  <2>1. UNCHANGED <<batch, parent, proc>> /\ ~Past(w)'
        /\ \A v \in Worker : v # w => pc'[v] = pc[v] /\ res'[v] = res[v]
    BY <1>9 DEF Collect, TypeOK, Past
  <2>2. \A i \in Mutants : out'[i] = out[i] \/ out'[i] = res[w]
    BY <1>9 DEF Collect, TypeOK
  <2>3. Right(res[w])
    BY <1>9 DEF Collect, Verdicted, Past
  <2>4. ASSUME NEW i \in Mutants, out'[i].mutant # 0 PROVE Right(out[i])'
    <3>1. CASE out'[i] = out[i]
      <4>1. Right(out[i])
        BY <2>4, <3>1 DEF Verdicted
      <4> QED BY <2>1, <3>1, <4>1 DEF Right
    <3>2. CASE out'[i] = res[w]
      BY <2>1, <2>3, <3>2 DEF Right
    <3> QED BY <2>2, <3>1, <3>2
  <2>5. ASSUME NEW v \in Worker, Past(v)' PROVE Right(res[v])'
    <3>1. Past(v) /\ res'[v] = res[v]
      BY <2>1, <2>5 DEF Past
    <3>2. Right(res[v])
      BY <3>1 DEF Verdicted
    <3> QED BY <2>1, <3>1, <3>2 DEF Right
  <2> QED BY <2>1, <2>4, <2>5 DEF Verdicted, Mutants
<1>10. ASSUME NEW w \in Worker, WorkerExit(w) \/ Deadline(w) PROVE Verdicted'
  <2>1. UNCHANGED <<batch, out, parent, proc, res>> /\ ~Past(w)'
        /\ \A v \in Worker : v # w => pc'[v] = pc[v]
    BY <1>10 DEF WorkerExit, Deadline, TypeOK, Past
  <2> QED BY <1>0, <2>1, VerdictedFrame
<1>11. ASSUME NEW w \in Worker, CmdExit(w) \/ Kill(w) PROVE Verdicted'
  <2>1. UNCHANGED <<batch, out, parent, workers>> /\ ~Past(w)'
        /\ \A i \in Mutants : i # job[w] => proc'[i] = proc[i]
    BY <1>11 DEF CmdExit, Kill, TypeOK, Past
  <2> QED BY <1>0, <2>1, VerdictedFrame
<1>12. CASE ParentDone
  <2>1. UNCHANGED <<batch, out, proc, res, pc>> /\ parent = "nil" /\ parent' # "nil"
    BY <1>12 DEF ParentDone
  <2>2. ASSUME NEW i \in Mutants, out'[i].mutant # 0 PROVE Right(out[i])'
    <3>1. Right(out[i])
      BY <2>1, <2>2 DEF Verdicted
    <3> QED BY <2>1, <3>1 DEF Right
  <2>3. ASSUME NEW v \in Worker, Past(v)' PROVE Right(res[v])'
    <3>1. Right(res[v])
      BY <2>1, <2>3 DEF Verdicted, Past
    <3> QED BY <2>1, <3>1 DEF Right
  <2> QED BY <2>1, <2>2, <2>3 DEF Verdicted, Mutants
<1> QED
  BY <1>1, <1>2, <1>3, <1>4, <1>5, <1>6, <1>7, <1>8, <1>9, <1>10, <1>11, <1>12
     DEF Next, RunStep, FeederStep, WorkerStep, Finished

-----------------------------------------------------------------------------
(***************************************************************************)
(* The theorems.                                                           *)
(***************************************************************************)
\* The inductive invariant holds in every behaviour.
LEMMA Invariance == Spec => []IInv
<1>1. Init => IInv
  BY InitTypeOK, InitOwnership, InitProgress, InitDirs, InitVerdicted DEF IInv
<1>2. IInv /\ [Next]_vars => IInv'
  BY NextTypeOK, NextOwnership, NextProgress, NextDirs, NextVerdicted DEF IInv
<1> QED BY <1>1, <1>2, PTL DEF Spec

\* A decided result is right.
LEMMA DecidedRight == Verdicted => \A r \in Decided : Right(r)
BY DEF Verdicted, Decided, Past

\* No mutant is reported Survived unless every selected package was run and
\* passed, however many workers and packages there are.
THEOREM SurvivedCorrect == Spec => []SurvivedMeansPassed
<1>1. IInv => SurvivedMeansPassed
  BY DecidedRight DEF IInv, SurvivedMeansPassed, Right
<1> QED BY <1>1, Invariance, PTL

\* A Killed mutant stopped at the first package that failed, in sorted order.
THEOREM KilledCorrect == Spec => []KilledAtFirstFailure
<1>1. IInv => KilledAtFirstFailure
  <2> SUFFICES ASSUME IInv, NEW r \in Decided, r.status = "Killed", Right(r)
               PROVE  \E p \in r.executed :
                        /\ r.executed = {q \in batch[r.mutant] : q <= p}
                        /\ \A q \in batch[r.mutant] :
                               /\ q < p => proc[r.mutant][q] = "passed"
                               /\ q > p => proc[r.mutant][q] = "none"
                        /\ proc[r.mutant][p] = "passed" => r.timedOut \/ parent # "nil"
                        /\ proc[r.mutant][p] # "running"
    BY DecidedRight DEF IInv, KilledAtFirstFailure
  <2> QED BY DEF Right
<1> QED BY <1>1, Invariance, PTL

\* A command never runs without its temp directory.
THEOREM DirCorrect == Spec => []DirOutlivesCommands
<1>1. IInv => DirOutlivesCommands
  BY DEF IInv, DirOutlivesCommands, Progress, Commands, Dirs, InLoop
<1> QED BY <1>1, Invariance, PTL

\* When Run returns, every slot holds its own mutant's result and nothing of
\* the pool is left running.
LEMMA Complete == IInv => CompleteAtReturn
<1>1. IInv => CompleteAtReturn
  <2> SUFFICES ASSUME IInv, main = "returned" PROVE
        /\ \A i \in Mutants :
               /\ out[i].mutant = i
               /\ \A p \in Pkgs : proc[i][p] # "running"
        /\ \A w \in Worker : pc[w] \in {"off", "done"}
    BY DEF CompleteAtReturn
  <2>1. /\ Mutants = 1 .. Len(batch) /\ Len(batch) \in Nat
        /\ Phases /\ Jobs /\ EachInOnePlace /\ Commands
    BY BatchType DEF IInv, Ownership, Progress
  <2>2. \A w \in Worker : pc[w] \in {"off", "done"}
    BY <2>1 DEF Phases
  <2>3. \A w \in Worker : job[w] = 0
    BY <2>1, <2>2 DEF Jobs
  <2>4. \A i \in Mutants : i < next
    BY <2>1 DEF Phases
  <2>5. \A i \in Mutants : out[i].mutant = i
    BY <2>1, <2>3, <2>4 DEF EachInOnePlace
  <2>6. \A i \in Mutants : \A p \in Pkgs : proc[i][p] # "running"
    BY <2>1, <2>2 DEF Commands
  <2> QED BY <2>2, <2>5, <2>6
<1> QED BY <1>1

\* That is so in every behaviour: no verdict is missing when Run returns.
THEOREM CompleteCorrect == Spec => []CompleteAtReturn
BY Complete, Invariance, PTL

-----------------------------------------------------------------------------
(***************************************************************************)
(* Refinement: collecting a result decides that mutant, returning is       *)
(* Finish, and every other step is invisible to the caller.                *)
(***************************************************************************)
Tests   == [i \in DOMAIN batch |-> batch[i] # {}]
Verdict == [i \in DOMAIN batch |-> IF out[i].mutant = 0 THEN "pending" ELSE out[i].status]

\* An initial state of the pool is one of the abstract specification.
LEMMA InitRefines == Init => V!Init
<1> SUFFICES ASSUME Init PROVE V!Init
  OBVIOUS
<1>1. batch \in Seq(SUBSET Pkgs)
  BY BatchesAssumption DEF Init
<1>2. DOMAIN batch = 1 .. Len(batch) /\ Len(batch) \in Nat
  BY <1>1
<1>3. Tests \in Seq(BOOLEAN)
  BY <1>2 DEF Tests
<1>4. Verdict = [i \in DOMAIN Tests |-> "pending"]
  BY DEF Init, Verdict, Tests, Mutants, ZeroResult
<1> QED BY <1>3, <1>4 DEF Init, V!Init, Tests, Verdict

\* A step of the pool decides a mutant, finishes, or changes nothing there.
LEMMA NextRefines == IInv /\ [Next]_vars /\ IInv' => [V!Next]_(V!vars)
<1> SUFFICES ASSUME IInv, [Next]_vars, IInv' PROVE [V!Next]_(V!vars)
  OBVIOUS
<1> USE DEF inputs, pool, workers
<1>1. ASSUME UNCHANGED <<batch, out>>, main' = "returned" <=> main = "returned"
      PROVE  UNCHANGED V!vars
  BY <1>1 DEF V!vars
<1>2. CASE Start \/ CloseJobs \/ CloseResults \/ ParentDone \/ UNCHANGED vars
  BY <1>1, <1>2 DEF Start, CloseJobs, CloseResults, ParentDone, vars
<1>3. ASSUME NEW w \in Worker, Dispatch(w) \/ WaitOK(w) \/ WaitErr(w) \/ Classify(w)
             \/ LoopDone(w) \/ Cleanup(w) \/ WorkerExit(w)
             \/ CmdExit(w) \/ Deadline(w) \/ Kill(w)
      PROVE  UNCHANGED V!vars
  BY <1>1, <1>3 DEF Dispatch, WaitOK, WaitErr, Classify, LoopDone, Cleanup, WorkerExit,
                    CmdExit, Deadline, Kill
<1>4. ASSUME NEW w \in Worker, NEW p \in Pkgs, StartCmd(w, p) \/ StartFails(w, p)
      PROVE  UNCHANGED V!vars
  BY <1>1, <1>4 DEF StartCmd, StartFails, BeginCmd
<1>5. CASE ReturnEmpty \/ Return
  <2>1. UNCHANGED <<batch, out>> /\ main # "returned" /\ main' = "returned"
    BY <1>5 DEF ReturnEmpty, Return
  <2>2. CompleteAtReturn'
    BY Complete, PTL
  <2>3. \A i \in Mutants : out[i].mutant = i
    BY <2>1, <2>2 DEF CompleteAtReturn, Mutants
  <2>4. \A i \in Mutants : i # 0 /\ out[i].status \in {"Killed", "Survived", "Unsupported"}
    BY BatchType DEF IInv, TypeOK, Results
  <2>5. \A i \in DOMAIN Verdict : Verdict[i] # "pending"
    BY <2>3, <2>4 DEF Verdict, Mutants
  <2> QED BY <2>1, <2>5 DEF V!Next, V!Finish, Verdict
<1>6. ASSUME NEW w \in Worker, Collect(w) PROVE V!Next
  <2>1. /\ job[w] \in Mutants /\ job[w] # 0
        /\ res[w].mutant = job[w] /\ out[job[w]].mutant = 0
    BY <1>6, Owner, BatchType DEF Collect, IInv
  <2>2. Right(res[w]) /\ res[w].status \in {"Killed", "Survived", "Unsupported"}
    BY <1>6 DEF Collect, IInv, Verdicted, Past, TypeOK, Results
  <2>3. /\ batch' = batch /\ main = "collect" /\ main' = "collect"
        /\ out' = [out EXCEPT ![job[w]] = res[w]]
        /\ out \in [Mutants -> Results]
    BY <1>6 DEF Collect, IInv, TypeOK
  <2>4. Verdict' = [Verdict EXCEPT ![job[w]] = res[w].status]
    BY <2>1, <2>3 DEF Verdict, Mutants
  <2>5. /\ job[w] \in DOMAIN Tests /\ Verdict[job[w]] = "pending"
        /\ res[w].status \in IF Tests[job[w]] THEN {"Killed", "Survived"} ELSE {"Unsupported"}
    BY <2>1, <2>2 DEF Tests, Verdict, Right, Mutants
  <2>6. PICK i \in DOMAIN Tests : i = job[w]
    BY <2>5
  <2>7. V!Decide(i)
    BY <2>3, <2>4, <2>5, <2>6 DEF V!Decide, V!Outcomes, Tests, Verdict
  <2> QED BY <2>7 DEF V!Next, Tests
<1> QED
  BY <1>2, <1>3, <1>4, <1>5, <1>6 DEF Next, RunStep, FeederStep, WorkerStep, Finished

\* The pool implements its abstract specification: one verdict per mutant, of
\* the right kind, never changed, and Run returns only when all are in.
THEOREM Refinement == Spec => ImplementsVerdicts
<1>1. Init => V!Init
  BY InitRefines
<1>2. IInv /\ [Next]_vars /\ IInv' => [V!Next]_(V!vars)
  BY NextRefines
<1> QED BY <1>1, <1>2, Invariance, PTL DEF Spec, ImplementsVerdicts, V!Safety
=============================================================================

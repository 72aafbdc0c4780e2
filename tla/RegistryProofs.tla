--------------------------- MODULE RegistryProofs ---------------------------
(***************************************************************************)
(* Proofs about Registry, for any number of registrations and runs and any *)
(* node types, however their critical sections interleave.                 *)
(***************************************************************************)
EXTENDS Registry, FiniteSetTheorems, SequenceTheorems, TLAPS

-----------------------------------------------------------------------------
(***************************************************************************)
(* The inductive invariant.                                                *)
(***************************************************************************)

\* The names calls have settled on.
Named ==
    /\ \A c \in Callers :
           rpc[c] # "name" =>
               IF wish[c] # 0 THEN rname[c] = wish[c] ELSE rname[c] \in 1 .. nextID
    /\ DefaultNamesDiffer

\* The registry's list has the rules of the finished calls, each once, and its
\* map the same by type.
Listed ==
    /\ \A k \in DOMAIN ordered :
           LET d == ordered[k]
           IN  d.by \in Callers /\ rpc[d.by] = "done" /\ d.name = rname[d.by] /\ d.type = target[d.by]
    /\ \A j, k \in DOMAIN ordered : ordered[j].by = ordered[k].by => j = k
    /\ \A c \in Callers : rpc[c] = "done" => \E k \in DOMAIN ordered : ordered[k].by = c

Mapped == \A t \in Types : AreOfType(heap[0][t], ordered, t)

Added == Listed /\ Mapped

\* A run that has begun has a map of its own, the one its list had then, and was
\* given the rules that are there.
Snapped ==
    \A r \in Runs :
        /\ epc[r] = "idle" => looks[r] = <<>>
        /\ epc[r] # "idle" => snap[r].map = r
        /\ epc[r] # "idle" => \A t \in Types : AreOfType(heap[r][t], snap[r].ordered, t)
        /\ \A k \in DOMAIN looks[r] :
               AreOfType(looks[r][k].rules, snap[r].ordered, looks[r][k].type)

IInv == TypeOK /\ Named /\ Added /\ Snapped

-----------------------------------------------------------------------------
(***************************************************************************)
(* The rules of one type, in order.                                        *)
(***************************************************************************)

\* An empty list has none.
LEMMA EmptyOfType == \A t : AreOfType(<<>>, <<>>, t)
<1> SUFFICES ASSUME NEW t PROVE AreOfType(<<>>, <<>>, t)
  OBVIOUS
<1>0. DOMAIN <<>> = {}
  OBVIOUS
<1>1. \E at : at \in [DOMAIN <<>> -> {k \in DOMAIN <<>> : <<>>[k].type = t}]
  <2> DEFINE S == {k \in DOMAIN <<>> : <<>>[k].type = t}
             at == [i \in {} |-> 0]
  <2>1. at \in [{} -> S]
    OBVIOUS
  <2> QED BY <1>0, <2>1
<1> QED BY <1>0, <1>1 DEF AreOfType

\* A rule of the type goes to the end of both lists.
LEMMA AppendOfType ==
  ASSUME NEW D, NEW rules \in Seq(D), NEW defs \in Seq(D), NEW d \in D, NEW t,
         d.type = t, AreOfType(rules, defs, t)
  PROVE  AreOfType(Append(rules, d), Append(defs, d), t)
<1> DEFINE n == Len(rules)
           m == Len(defs)
           more == Append(rules, d)
           all == Append(defs, d)
<1>0. /\ n \in Nat /\ DOMAIN rules = 1 .. n
      /\ m \in Nat /\ DOMAIN defs = 1 .. m
  OBVIOUS
<1>1. /\ DOMAIN more = 1 .. n + 1 /\ more[n + 1] = d
      /\ \A i \in 1 .. n : more[i] = rules[i]
  OBVIOUS
<1>2. /\ DOMAIN all = 1 .. m + 1 /\ all[m + 1] = d
      /\ \A k \in 1 .. m : all[k] = defs[k]
  OBVIOUS
<1>3. PICK at \in [1 .. n -> {k \in 1 .. m : defs[k].type = t}] :
          /\ \A i, j \in 1 .. n : i < j => at[i] < at[j]
          /\ \A k \in 1 .. m : defs[k].type = t => \E i \in 1 .. n : at[i] = k
          /\ \A i \in 1 .. n : rules[i] = defs[at[i]]
  <2> HIDE DEF n, m
  <2> QED BY <1>0 DEF AreOfType
<1> HIDE DEF n, m, more, all
<1> DEFINE at2 == [i \in 1 .. n + 1 |-> IF i = n + 1 THEN m + 1 ELSE at[i]]
<1>4. \A i \in 1 .. n + 1 : i = n + 1 \/ i \in 1 .. n
  BY <1>0
<1>5. \A i \in 1 .. n : i # n + 1 /\ i \in 1 .. n + 1 /\ at2[i] = at[i] /\ at[i] \in 1 .. m
  BY <1>0, <1>3
<1>6. n + 1 \in 1 .. n + 1 /\ at2[n + 1] = m + 1 /\ m + 1 \in 1 .. m + 1
  BY <1>0
<1>7. \A k \in 1 .. m : k \in 1 .. m + 1 /\ k < m + 1
  BY <1>0
<1>8. \A k \in 1 .. m + 1 : k = m + 1 \/ k \in 1 .. m
  BY <1>0
<1> HIDE DEF at2
<1>9. at2 \in [1 .. n + 1 -> {k \in 1 .. m + 1 : all[k].type = t}]
  <2>1. \A i \in 1 .. n + 1 : at2[i] \in {k \in 1 .. m + 1 : all[k].type = t}
    <3> SUFFICES ASSUME NEW i \in 1 .. n + 1
                 PROVE  at2[i] \in 1 .. m + 1 /\ all[at2[i]].type = t
      OBVIOUS
    <3>1. CASE i = n + 1
      BY <1>2, <1>6, <3>1
    <3>2. CASE i \in 1 .. n
      <4>1. at[i] \in 1 .. m /\ defs[at[i]].type = t
        BY <1>3, <3>2
      <4> QED BY <1>2, <1>5, <1>7, <3>2, <4>1
    <3> QED BY <1>4, <3>1, <3>2
  <2>2. at2 = [i \in 1 .. n + 1 |-> at2[i]]
    BY DEF at2
  <2> QED BY <2>1, <2>2
<1>10. \A i, j \in 1 .. n + 1 : i < j => at2[i] < at2[j]
  <2> SUFFICES ASSUME NEW i \in 1 .. n + 1, NEW j \in 1 .. n + 1, i < j PROVE at2[i] < at2[j]
    OBVIOUS
  <2>1. i \in 1 .. n
    BY <1>0
  <2> QED BY <1>3, <1>4, <1>5, <1>6, <1>7, <2>1
<1>11. \A k \in 1 .. m + 1 : all[k].type = t => \E i \in 1 .. n + 1 : at2[i] = k
  BY <1>2, <1>3, <1>5, <1>6, <1>8
<1>12. \A i \in 1 .. n + 1 : more[i] = all[at2[i]]
  BY <1>1, <1>2, <1>3, <1>4, <1>5, <1>6
<1>13. at2 \in [DOMAIN more -> {k \in DOMAIN all : all[k].type = t}]
  BY <1>1, <1>2, <1>9, Zenon
<1>14. \A i, j \in DOMAIN more : i < j => at2[i] < at2[j]
  BY <1>1, <1>10
<1>15. \A k \in DOMAIN all : all[k].type = t => \E i \in DOMAIN more : at2[i] = k
  BY <1>1, <1>2, <1>11
<1>16. \A i \in DOMAIN more : more[i] = all[at2[i]]
  BY <1>1, <1>12
<1>17. AreOfType(more, all, t)
  BY <1>13, <1>14, <1>15, <1>16 DEF AreOfType
<1> QED BY <1>17 DEF more, all

\* A rule of another type changes nothing.
LEMMA AppendOther ==
  ASSUME NEW D, NEW rules, NEW defs \in Seq(D), NEW d \in D, NEW t,
         d.type # t, AreOfType(rules, defs, t)
  PROVE  AreOfType(rules, Append(defs, d), t)
<1> DEFINE m == Len(defs)
           all == Append(defs, d)
           Of(s) == {k \in DOMAIN s : s[k].type = t}
<1>1. /\ m \in Nat /\ DOMAIN defs = 1 .. m
      /\ DOMAIN all = 1 .. m + 1 /\ all[m + 1] = d
      /\ \A k \in 1 .. m : all[k] = defs[k]
  OBVIOUS
<1> HIDE DEF m, all
<1>2. \A k \in DOMAIN all : k = m + 1 \/ k \in DOMAIN defs
  BY <1>1
<1>3. Of(all) = Of(defs) /\ \A k \in Of(defs) : all[k] = defs[k]
  <2>1. \A k \in DOMAIN defs : k \in DOMAIN all /\ all[k] = defs[k]
    BY <1>1
  <2> QED BY <1>1, <1>2, <2>1
<1>4. PICK at \in [DOMAIN rules -> Of(defs)] :
          /\ \A i, j \in DOMAIN rules : i < j => at[i] < at[j]
          /\ \A k \in DOMAIN defs : defs[k].type = t => \E i \in DOMAIN rules : at[i] = k
          /\ \A i \in DOMAIN rules : rules[i] = defs[at[i]]
  BY DEF AreOfType
<1>5. at \in [DOMAIN rules -> Of(all)]
  BY <1>3, <1>4
<1>6. \A k \in DOMAIN all : all[k].type = t => \E i \in DOMAIN rules : at[i] = k
  BY <1>3, <1>4
<1>7. \A i \in DOMAIN rules : rules[i] = all[at[i]]
  BY <1>3, <1>4
<1>8. AreOfType(rules, all, t)
  BY <1>4, <1>5, <1>6, <1>7 DEF AreOfType
<1> QED BY <1>8 DEF all

-----------------------------------------------------------------------------
(***************************************************************************)
(* The invariant.                                                          *)
(***************************************************************************)

\* The map depends on nothing but itself and the list.
LEMMA MappedFrame == Mapped /\ heap'[0] = heap[0] /\ ordered' = ordered => Mapped'
BY DEF Mapped, AreOfType

\* Nor do the snapshots on the registry.
LEMMA SnappedFrame ==
  Snapped /\ UNCHANGED <<epc, snap, looks>> /\ (\A r \in Runs : heap'[r] = heap[r]) => Snapped'
BY DEF Snapped, AreOfType

\* A call that settles on its name changes nothing of the finished ones.
LEMMA ListedFrame ==
  ASSUME TypeOK, Listed, NEW c \in Callers, rpc[c] = "name", NEW n,
         rpc' = [rpc EXCEPT ![c] = "add"], rname' = [rname EXCEPT ![c] = n],
         UNCHANGED <<target, ordered>>
  PROVE  Listed'
<1>1. /\ rpc'[c] = "add"
      /\ \A d \in Callers : d # c => rpc'[d] = rpc[d] /\ rname'[d] = rname[d]
  BY DEF TypeOK
<1>2. \A k \in DOMAIN ordered : ordered[k].by \in Callers /\ ordered[k].by # c
  BY DEF Listed
<1>3. \A k \in DOMAIN ordered :
         /\ rpc'[ordered[k].by] = "done" /\ ordered[k].name = rname'[ordered[k].by]
         /\ ordered[k].type = target[ordered[k].by]
  BY <1>1, <1>2 DEF Listed
<1>4. \A d \in Callers : rpc'[d] = "done" => \E k \in DOMAIN ordered : ordered[k].by = d
  BY <1>1 DEF Listed
<1>5. \A j, k \in DOMAIN ordered : ordered[j].by = ordered[k].by => j = k
  BY DEF Listed
<1> QED BY <1>2, <1>3, <1>4, <1>5 DEF Listed

\* The rule a call adds is a definition.
LEMMA DefType ==
  ASSUME TypeOK, Named, NEW c \in Callers, rpc[c] = "add"
  PROVE  [by |-> c, name |-> rname[c], type |-> target[c]] \in Definition
<1>1. rname[c] \in Names \cup (Nat \ {0})
  <2>1. CASE wish[c] # 0
    <3>1. rname[c] = wish[c] /\ wish[c] \in Names \cup {0}
      BY <2>1 DEF TypeOK, Named
    <3> QED BY <2>1, <3>1
  <2>2. CASE wish[c] = 0
    <3>1. rname[c] \in 1 .. nextID /\ nextID \in Nat
      BY <2>2 DEF TypeOK, Named
    <3> QED BY <3>1
  <2> QED BY <2>1, <2>2
<1>2. target[c] \in Types
  BY DEF TypeOK
<1> QED BY <1>1, <1>2 DEF Definition

\* A new registry satisfies the invariant.
LEMMA InitIInv == Init => IInv
<1> SUFFICES ASSUME Init PROVE IInv
  OBVIOUS
<1>1. EmptyMap \in [Types -> Seq(Definition)] /\ <<>> \in Seq(Definition)
  BY DEF EmptyMap
<1>2. TypeOK
  <2>1. heap \in [Runs \cup {0} -> [Types -> Seq(Definition)]]
    BY <1>1 DEF Init
  <2>2. snap \in [Runs -> [ordered : Seq(Definition), map : Runs \cup {0}]]
    BY <1>1 DEF Init, NoSnap
  <2>3. looks \in [Runs -> Seq([type : Concrete, rules : Seq(Definition)])]
    BY DEF Init
  <2> QED BY <1>1, <2>1, <2>2, <2>3 DEF Init, TypeOK
<1>3. Named
  BY DEF Init, Named, DefaultNamesDiffer
<1>4. Added
  <2>1. \A t \in Types : heap[0][t] = <<>>
    BY DEF Init, EmptyMap
  <2>2. \A t \in Types : AreOfType(heap[0][t], ordered, t)
    BY <2>1, EmptyOfType DEF Init
  <2> QED BY <2>2 DEF Init, Added, Listed, Mapped
<1>5. Snapped
  BY DEF Init, Snapped
<1> QED BY <1>2, <1>3, <1>4, <1>5 DEF IInv

\* Registrations: the number drawn is new, and what is added goes to the end.
LEMMA RegisterIInv ==
  ASSUME IInv, NEW c \in Callers, KeepName(c) \/ NextID(c) \/ Add(c)
  PROVE  IInv'
<1> USE DEF IInv
<1>1. CASE KeepName(c)
  <2>1. TypeOK'
    BY <1>1 DEF KeepName, TypeOK
  <2>2. Named'
    BY <1>1 DEF KeepName, TypeOK, Named, DefaultNamesDiffer
  <2>3. Added'
    BY <1>1, ListedFrame, MappedFrame DEF KeepName, Added
  <2>4. Snapped'
    BY <1>1, SnappedFrame DEF KeepName
  <2> QED BY <2>1, <2>2, <2>3, <2>4
<1>2. CASE NextID(c)
  <2>1. TypeOK'
    <3>1. nextID' \in Nat /\ nextID' \in Names \cup Nat
      BY <1>2 DEF NextID, TypeOK
    <3>2. rname' \in [Callers -> Names \cup Nat]
      BY <1>2, <3>1 DEF NextID, TypeOK
    <3>3. rpc' \in [Callers -> {"name", "add", "done"}]
      BY <1>2 DEF NextID, TypeOK
    <3>4. UNCHANGED <<target, wish, ordered, heap, epc, snap, looks>>
      BY <1>2 DEF NextID
    <3> QED BY <3>1, <3>2, <3>3, <3>4 DEF TypeOK
  <2>2. Named'
    <3>1. /\ nextID' = nextID + 1 /\ nextID \in Nat /\ wish' = wish
          /\ rname'[c] = nextID + 1 /\ rpc'[c] = "add" /\ wish[c] = 0 /\ rpc[c] = "name"
          /\ \A d \in Callers : d # c => rname'[d] = rname[d] /\ rpc'[d] = rpc[d]
      BY <1>2 DEF NextID, TypeOK
    <3>2. \A n \in 1 .. nextID : n \in 1 .. nextID + 1 /\ n # nextID + 1
      BY <3>1
    <3>3. nextID + 1 \in 1 .. nextID + 1
      BY <3>1
    <3>4. \A d \in Callers :
             rpc'[d] # "name" =>
                 IF wish'[d] # 0 THEN rname'[d] = wish'[d] ELSE rname'[d] \in 1 .. nextID'
      BY <3>1, <3>2, <3>3 DEF Named
    <3>5. \A d \in Callers :
             d # c /\ wish[d] = 0 /\ rpc'[d] # "name" => rname'[d] \in 1 .. nextID
      BY <3>1 DEF Named
    <3>6. DefaultNamesDiffer'
      BY <3>1, <3>2, <3>5 DEF Named, DefaultNamesDiffer
    <3> QED BY <3>4, <3>6 DEF Named
  <2>3. Added'
    BY <1>2, ListedFrame, MappedFrame DEF NextID, Added
  <2>4. Snapped'
    BY <1>2, SnappedFrame DEF NextID
  <2> QED BY <2>1, <2>2, <2>3, <2>4
<1>3. CASE Add(c)
  <2> DEFINE def == [by |-> c, name |-> rname[c], type |-> target[c]]
  <2>1. /\ rpc[c] = "add" /\ rpc' = [rpc EXCEPT ![c] = "done"]
        /\ ordered' = Append(ordered, def)
        /\ heap' = [heap EXCEPT ![0] = [heap[0] EXCEPT ![def.type] = Append(heap[0][def.type], def)]]
        /\ UNCHANGED <<target, wish, nextID, rname, epc, snap, looks>>
    BY <1>3 DEF Add
  <2>2. /\ def \in Definition /\ def.type = target[c] /\ def.type \in Types
        /\ def.by = c /\ def.name = rname[c]
    BY <2>1, DefType DEF TypeOK
  <2> HIDE DEF def
  <2>3. /\ ordered \in Seq(Definition) /\ heap \in [Runs \cup {0} -> [Types -> Seq(Definition)]]
        /\ rpc \in [Callers -> {"name", "add", "done"}]
        /\ heap[0] \in [Types -> Seq(Definition)]
    BY DEF TypeOK
  <2>4. /\ heap'[0][def.type] = Append(heap[0][def.type], def)
        /\ \A t \in Types : t # def.type => heap'[0][t] = heap[0][t]
        /\ \A r \in Runs : heap'[r] = heap[r]
    BY <2>1, <2>2, <2>3, RunsAssumption
  <2>5. TypeOK'
    <3>1. ordered' \in Seq(Definition)
      BY <2>1, <2>2, <2>3, AppendProperties
    <3>2. heap' \in [Runs \cup {0} -> [Types -> Seq(Definition)]]
      <4>1. Append(heap[0][def.type], def) \in Seq(Definition)
        BY <2>2, <2>3, AppendProperties
      <4>2. [heap[0] EXCEPT ![def.type] = Append(heap[0][def.type], def)] \in [Types -> Seq(Definition)]
        BY <2>3, <4>1
      <4> QED BY <2>1, <2>3, <4>2
    <3> QED BY <2>1, <3>1, <3>2 DEF TypeOK
  <2>6. Named'
    BY <2>1, <2>3 DEF Named, DefaultNamesDiffer
  <2>7. Added'
    <3>0. Len(ordered) \in Nat /\ DOMAIN ordered = 1 .. Len(ordered)
      BY <2>3
    <3>1. /\ DOMAIN ordered' = 1 .. Len(ordered) + 1
          /\ \A k \in DOMAIN ordered : k \in DOMAIN ordered' /\ ordered'[k] = ordered[k]
          /\ Len(ordered) + 1 \in DOMAIN ordered' /\ ordered'[Len(ordered) + 1] = def
      BY <2>1, <2>2, <2>3
    <3>2. \A k \in DOMAIN ordered' : k \in DOMAIN ordered \/ k = Len(ordered) + 1
      BY <3>0, <3>1
    <3>3. \A k \in DOMAIN ordered : ordered[k].by # c
      BY <2>1 DEF Added, Listed
    <3>4. rpc'[c] = "done" /\ \A d \in Callers : d # c => rpc'[d] = rpc[d]
      BY <2>1, <2>3
    <3>5. \A k \in DOMAIN ordered' :
              LET d == ordered'[k]
              IN  /\ d.by \in Callers /\ rpc'[d.by] = "done"
                  /\ d.name = rname'[d.by] /\ d.type = target'[d.by]
      <4>1. \A k \in DOMAIN ordered :
                /\ ordered[k].by \in Callers /\ rpc'[ordered[k].by] = "done"
                /\ ordered[k].name = rname[ordered[k].by] /\ ordered[k].type = target[ordered[k].by]
        BY <3>4 DEF Added, Listed
      <4> QED BY <2>1, <2>2, <3>1, <3>2, <3>4, <4>1
    <3>6. \A j, k \in DOMAIN ordered' : ordered'[j].by = ordered'[k].by => j = k
      BY <2>2, <3>1, <3>2, <3>3 DEF Added, Listed
    <3>7. \A d \in Callers : rpc'[d] = "done" => \E k \in DOMAIN ordered' : ordered'[k].by = d
      BY <2>2, <3>1, <3>4 DEF Added, Listed
    <3>8. ASSUME NEW t \in Types PROVE AreOfType(heap'[0][t], ordered', t)
      <4>1. AreOfType(heap[0][t], ordered, t)
        BY DEF Added, Mapped
      <4>2. CASE t = def.type
        BY <2>1, <2>2, <2>3, <2>4, <4>1, <4>2, AppendOfType
      <4>3. CASE t # def.type
        BY <2>1, <2>2, <2>3, <2>4, <4>1, <4>3, AppendOther
      <4> QED BY <4>2, <4>3
    <3>9. Mapped'
      BY <3>8 DEF Mapped, AreOfType
    <3>10. Listed'
      BY <3>5, <3>6, <3>7 DEF Listed
    <3> QED BY <3>9, <3>10 DEF Added
  <2>8. Snapped'
    BY <2>1, <2>4, SnappedFrame
  <2> QED BY <2>5, <2>6, <2>7, <2>8
<1> QED BY <1>1, <1>2, <1>3

\* Runs: a snapshot is the list and the map of one moment, and neither changes.
LEMMA RunIInv ==
  ASSUME IInv, NEW r \in Runs,
         Snapshot(r) \/ RunDone(r) \/ \E t \in Concrete : RulesFor(r, t)
  PROVE  IInv'
<1> USE DEF IInv
<1>0. UNCHANGED <<target, wish, ordered, nextID, rpc, rname>>
  BY DEF Snapshot, RunDone, RulesFor
<1>1. Named'
  BY <1>0 DEF Named, DefaultNamesDiffer
<1>2. heap'[0] = heap[0]
  BY RunsAssumption DEF Snapshot, RunDone, RulesFor, TypeOK
<1>3. Added'
  <2>1. Listed'
    BY <1>0 DEF Added, Listed
  <2> QED BY <1>0, <1>2, <2>1, MappedFrame DEF Added
<1>4. CASE Snapshot(r)
  <2>1. /\ epc[r] = "idle"
        /\ heap' = [heap EXCEPT ![r] = heap[0]]
        /\ snap' = [snap EXCEPT ![r] = [ordered |-> ordered, map |-> r]]
        /\ \E pc \in {"look", "done"} : epc' = [epc EXCEPT ![r] = pc]
        /\ looks' = looks
    BY <1>4 DEF Snapshot
  <2>2. [ordered |-> ordered, map |-> r] \in [ordered : Seq(Definition), map : Runs \cup {0}]
    BY DEF TypeOK
  <2>3. heap[0] \in [Types -> Seq(Definition)]
    BY DEF TypeOK
  <2>4. TypeOK'
    <3>1. heap' \in [Runs \cup {0} -> [Types -> Seq(Definition)]]
      BY <2>1, <2>3 DEF TypeOK
    <3>2. snap' \in [Runs -> [ordered : Seq(Definition), map : Runs \cup {0}]]
      BY <2>1, <2>2 DEF TypeOK
    <3>3. epc' \in [Runs -> {"idle", "look", "done"}]
      BY <2>1 DEF TypeOK
    <3>4. looks' = looks
      BY <2>1
    <3> QED BY <1>0, <3>1, <3>2, <3>3, <3>4 DEF TypeOK
  <2>5. Snapped'
    <3> SUFFICES ASSUME NEW q \in Runs
                 PROVE  /\ epc'[q] = "idle" => looks'[q] = <<>>
                        /\ epc'[q] # "idle" => snap'[q].map = q
                        /\ epc'[q] # "idle" =>
                               \A t \in Types : AreOfType(heap[q][t], snap[q].ordered, t)'
                        /\ \A k \in DOMAIN looks'[q] :
                               AreOfType(looks[q][k].rules, snap[q].ordered, looks[q][k].type)'
      BY DEF Snapped
    <3>1. CASE q = r
      <4>1. /\ epc'[r] # "idle" /\ heap'[r] = heap[0] /\ looks'[r] = <<>>
            /\ snap'[r].map = r /\ snap'[r].ordered = ordered
        BY <2>1 DEF TypeOK, Snapped
      <4>2. \A t \in Types : AreOfType(heap[0][t], ordered, t)
        BY DEF Added, Mapped
      <4>3. \A t \in Types : AreOfType(heap[r][t], snap[r].ordered, t)'
        BY <4>1, <4>2 DEF AreOfType
      <4> QED BY <3>1, <4>1, <4>3
    <3>2. CASE q # r
      <4>1. epc'[q] = epc[q] /\ heap'[q] = heap[q] /\ snap'[q] = snap[q] /\ looks'[q] = looks[q]
        BY <2>1, <3>2 DEF TypeOK
      <4> QED BY <4>1 DEF Snapped, AreOfType
    <3> QED BY <3>1, <3>2
  <2> QED BY <1>1, <1>3, <2>4, <2>5
<1>5. CASE RunDone(r)
  <2>1. /\ epc[r] = "look" /\ epc' = [epc EXCEPT ![r] = "done"]
        /\ UNCHANGED <<heap, snap, looks>>
    BY <1>5 DEF RunDone
  <2>2. TypeOK'
    BY <1>0, <2>1 DEF TypeOK
  <2>3. \A q \in Runs : epc'[q] = "idle" <=> epc[q] = "idle"
    BY <2>1 DEF TypeOK
  <2>4. Snapped'
    BY <2>1, <2>3 DEF Snapped, AreOfType
  <2> QED BY <1>1, <1>3, <2>2, <2>4
<1>6. ASSUME NEW t \in Concrete, RulesFor(r, t) PROVE IInv'
  <2> DEFINE L == [type : Concrete, rules : Seq(Definition)]
             look == [type |-> t, rules |-> heap[snap[r].map][t]]
  <2>1. /\ epc[r] = "look" /\ UNCHANGED <<heap, epc, snap>>
        /\ looks' = [looks EXCEPT ![r] = Append(looks[r], look)]
    BY <1>6 DEF RulesFor
  <2>2. snap[r].map = r /\ AreOfType(heap[r][t], snap[r].ordered, t)
    BY <2>1, TypesAssumption DEF Snapped
  <2>3. look \in L /\ look.type = t /\ look.rules = heap[r][t]
    <3>1. heap[r][t] \in Seq(Definition)
      BY TypesAssumption DEF TypeOK
    <3> QED BY <2>2, <3>1
  <2>4. looks \in [Runs -> Seq(L)]
    BY DEF TypeOK
  <2> HIDE DEF L, look
  <2>5. /\ DOMAIN looks'[r] = 1 .. Len(looks[r]) + 1 /\ Len(looks[r]) \in Nat
        /\ DOMAIN looks[r] = 1 .. Len(looks[r])
        /\ looks'[r][Len(looks[r]) + 1] = look
        /\ \A k \in DOMAIN looks[r] : looks'[r][k] = looks[r][k]
        /\ \A q \in Runs : q # r => looks'[q] = looks[q]
        /\ looks' \in [Runs -> Seq(L)]
    <3>1. looks[r] \in Seq(L)
      BY <2>4
    <3>2. looks'[r] = Append(looks[r], look) /\ \A q \in Runs : q # r => looks'[q] = looks[q]
      BY <2>1, <2>4
    <3>3. Append(looks[r], look) \in Seq(L)
      BY <2>3, <3>1, AppendProperties
    <3>4. looks' \in [Runs -> Seq(L)]
      BY <2>1, <2>4, <3>3
    <3> QED BY <2>3, <3>1, <3>2, <3>4
  <2>6. TypeOK'
    BY <1>0, <2>1, <2>5 DEF TypeOK, L
  <2>7. Snapped'
    <3> SUFFICES ASSUME NEW q \in Runs
                 PROVE  /\ epc'[q] = "idle" => looks'[q] = <<>>
                        /\ epc'[q] # "idle" => snap'[q].map = q
                        /\ epc'[q] # "idle" =>
                               \A u \in Types : AreOfType(heap[q][u], snap[q].ordered, u)'
                        /\ \A k \in DOMAIN looks'[q] :
                               AreOfType(looks[q][k].rules, snap[q].ordered, looks[q][k].type)'
      BY DEF Snapped
    <3>1. CASE q = r
      <4>1. \A k \in DOMAIN looks'[r] : k \in DOMAIN looks[r] \/ k = Len(looks[r]) + 1
        BY <2>5
      <4>2. ASSUME NEW k \in DOMAIN looks'[r]
            PROVE  AreOfType(looks[r][k].rules, snap[r].ordered, looks[r][k].type)'
        <5>1. CASE k \in DOMAIN looks[r]
          <6>1. looks'[r][k] = looks[r][k] /\ snap' = snap
            BY <2>1, <2>5, <5>1
          <6>2. AreOfType(looks[r][k].rules, snap[r].ordered, looks[r][k].type)
            BY <5>1 DEF Snapped
          <6> QED BY <6>1, <6>2 DEF AreOfType
        <5>2. CASE k = Len(looks[r]) + 1
          <6>1. looks'[r][k] = look /\ snap' = snap
            BY <2>1, <2>5, <5>2
          <6> QED BY <2>2, <2>3, <6>1 DEF AreOfType
        <5> QED BY <4>1, <5>1, <5>2
      <4> QED BY <2>1, <3>1, <4>2 DEF Snapped, AreOfType
    <3>2. CASE q # r
      <4>1. looks'[q] = looks[q] /\ UNCHANGED <<heap, epc, snap>>
        BY <2>1, <2>5, <3>2
      <4>2. \A u \in Types : AreOfType(heap[q][u], snap[q].ordered, u)'
                               <=> AreOfType(heap[q][u], snap[q].ordered, u)
        BY <4>1 DEF AreOfType
      <4>3. \A k \in DOMAIN looks[q] :
               AreOfType(looks[q][k].rules, snap[q].ordered, looks[q][k].type)'
        <5>1. \A k \in DOMAIN looks[q] :
                 AreOfType(looks[q][k].rules, snap[q].ordered, looks[q][k].type)
          BY DEF Snapped
        <5> QED BY <4>1, <5>1 DEF AreOfType
      <4>4. /\ epc[q] = "idle" => looks[q] = <<>>
            /\ epc[q] # "idle" => snap[q].map = q
            /\ epc[q] # "idle" => \A u \in Types : AreOfType(heap[q][u], snap[q].ordered, u)
        BY DEF Snapped
      <4> QED BY <4>1, <4>2, <4>3, <4>4
    <3> QED BY <3>1, <3>2
  <2> QED BY <1>1, <1>3, <2>6, <2>7
<1> QED BY <1>4, <1>5, <1>6

\* The invariant holds throughout.
LEMMA IInvCorrect == Spec => []IInv
<1>1. IInv /\ [Next]_vars => IInv'
  <2> SUFFICES ASSUME IInv, [Next]_vars PROVE IInv'
    OBVIOUS
  <2>1. CASE UNCHANGED vars
    <3>1. TypeOK'
      BY <2>1 DEF vars, IInv, TypeOK
    <3>2. Named'
      BY <2>1 DEF vars, IInv, Named, DefaultNamesDiffer
    <3>3. Added'
      <4>1. Listed'
        BY <2>1 DEF vars, IInv, Added, Listed
      <4> QED BY <2>1, <4>1, MappedFrame DEF vars, IInv, Added
    <3>4. Snapped'
      BY <2>1, SnappedFrame DEF vars, IInv
    <3> QED BY <3>1, <3>2, <3>3, <3>4 DEF IInv
  <2> QED BY <2>1, RegisterIInv, RunIInv DEF Next, Finished
<1> QED BY <1>1, InitIInv, PTL DEF Spec

-----------------------------------------------------------------------------
\* Every variable keeps its type.
THEOREM TypeCorrect == Spec => []TypeOK
BY IInvCorrect, PTL DEF IInv

\* No two default names are the same, for any number of concurrent calls.
THEOREM NamesCorrect == Spec => []DefaultNamesDiffer
BY IInvCorrect, PTL DEF IInv, Named

\* A run is given the rules of its snapshot, in their order, whatever is
\* registered meanwhile.
THEOREM SnapshotCorrect == Spec => []RunsSeeTheirSnapshot
<1>1. IInv => RunsSeeTheirSnapshot
  BY DEF IInv, Snapped, RunsSeeTheirSnapshot
<1> QED BY <1>1, IInvCorrect, PTL

\* Every finished call has registered its rule once, in the list and by type.
THEOREM RegisteredCorrect == Spec => []RegisteredOnce
<1>1. ASSUME IInv PROVE RegisteredOnce
  <2>0. Added
    BY <1>1 DEF IInv
  <2>1. ASSUME NEW c \in Callers
        PROVE  LET mine == {k \in DOMAIN ordered : ordered[k].by = c}
               IN  /\ Cardinality(mine) = IF rpc[c] = "done" THEN 1 ELSE 0
                   /\ \A k \in mine : ordered[k].name = rname[c] /\ ordered[k].type = target[c]
    <3> DEFINE mine == {k \in DOMAIN ordered : ordered[k].by = c}
    <3>1. CASE rpc[c] = "done"
      <4>1. PICK k \in DOMAIN ordered : ordered[k].by = c
        BY <2>0, <3>1 DEF Added, Listed
      <4>2. mine = {k}
        BY <2>0, <4>1 DEF Added, Listed
      <4>3. Cardinality(mine) = 1
        BY <4>2, FS_Singleton
      <4> QED BY <2>0, <3>1, <4>3 DEF Added, Listed
    <3>2. CASE rpc[c] # "done"
      <4>1. mine = {}
        BY <2>0, <3>2 DEF Added, Listed
      <4> QED BY <3>2, <4>1, FS_EmptySet
    <3> QED BY <3>1, <3>2
  <2> QED BY <2>0, <2>1 DEF Added, Mapped, RegisteredOnce
<1> QED BY <1>1, IInvCorrect, PTL
=============================================================================

------------------------------ MODULE Registry ------------------------------
(***************************************************************************)
(* The rule registry (internal/rule/registry.go) with the registration     *)
(* calls (rule.Register in register.go) and the Engine.Run calls that use  *)
(* it at the same time.  Every method of Registry is one critical section  *)
(* under its mutex, so one action; Register enters two of them when it has *)
(* to make a default name.                                                 *)
(*                                                                         *)
(* Go maps and slices are references.  A snapshot is a copy that a run     *)
(* keeps using without the mutex, so the registry's map of rules by type   *)
(* and each snapshot's are objects of a heap here: object 0 is the         *)
(* registry's, object r the one made for run r.                            *)
(***************************************************************************)
EXTENDS Integers, Sequences, FiniteSets, SequencesExt

CONSTANTS
    Callers,    \* the calls of Register
    Runs,       \* the calls of Engine.Run, numbered from 1
    Types,      \* node types: concrete types and interfaces such as ast.Expr
    Concrete,   \* those a node of the syntax tree can have
    Names,      \* names given by WithName
    MaxLooks    \* how many nodes a run looks rules up for

ASSUME RunsAssumption == Runs \subseteq Nat \ {0} /\ IsFiniteSet(Runs)
ASSUME TypesAssumption == Concrete \subseteq Types
ASSUME LooksAssumption == MaxLooks \in Nat

VARIABLES
    target, wish,   \* each Register call's node type, and its WithName or 0
    ordered,        \* Registry.ordered
    heap,           \* the maps by type: heap[0] is Registry.byType
    nextID,         \* Registry.nextID
    rpc, rname,     \* where a Register call is, and the name it has settled on
    epc,            \* where a run is
    snap,           \* the snapshot of a run: its ordered list and its map
    looks           \* what a run was given so far, one entry per node

vars == <<target, wish, ordered, heap, nextID, rpc, rname, epc, snap, looks>>

\* A definition, as far as anything here can tell two apart.  A default name is
\* a number from 1 on, the 7 of rule#7.
Definition == [by : Callers, name : Names \cup (Nat \ {0}), type : Types]

EmptyMap == [t \in Types |-> <<>>]
NoSnap == [ordered |-> <<>>, map |-> 0]

\* Are these rules those of a list that are for type t, in the list's order?
AreOfType(rules, defs, t) ==
    \E at \in [DOMAIN rules -> {k \in DOMAIN defs : defs[k].type = t}] :
        /\ \A i, j \in DOMAIN rules : i < j => at[i] < at[j]
        /\ \A k \in DOMAIN defs : defs[k].type = t => \E i \in DOMAIN rules : at[i] = k
        /\ \A i \in DOMAIN rules : rules[i] = defs[at[i]]

Init ==
    /\ target \in [Callers -> Types]
    /\ wish \in [Callers -> Names \cup {0}]
    /\ ordered = <<>>
    /\ heap = [o \in Runs \cup {0} |-> EmptyMap]
    /\ nextID = 0
    /\ rpc = [c \in Callers |-> "name"]
    /\ rname = [c \in Callers |-> 0]
    /\ epc = [r \in Runs |-> "idle"]
    /\ snap = [r \in Runs |-> NoSnap]
    /\ looks = [r \in Runs |-> <<>>]

-----------------------------------------------------------------------------
\* The name given by the caller is taken as it is.
KeepName(c) ==
    /\ rpc[c] = "name" /\ wish[c] # 0
    /\ rname' = [rname EXCEPT ![c] = wish[c]]
    /\ rpc' = [rpc EXCEPT ![c] = "add"]
    /\ UNCHANGED <<target, wish, ordered, heap, nextID, epc, snap, looks>>

\* Seeded bug: the number is taken from the length of the list.
BugNextID(c) ==
    /\ rpc[c] = "name" /\ wish[c] = 0
    /\ nextID' = Len(ordered) + 1
    /\ rname' = [rname EXCEPT ![c] = nextID']
    /\ rpc' = [rpc EXCEPT ![c] = "add"]
    /\ UNCHANGED <<target, wish, ordered, heap, epc, snap, looks>>

\* Seeded bug: the number before the increment is returned.
BugOldID(c) ==
    /\ rpc[c] = "name" /\ wish[c] = 0
    /\ nextID' = nextID + 1
    /\ rname' = [rname EXCEPT ![c] = nextID]
    /\ rpc' = [rpc EXCEPT ![c] = "add"]
    /\ UNCHANGED <<target, wish, ordered, heap, epc, snap, looks>>

\* Registry.NextID: without a name the call draws the next number.
NextID(c) ==
    /\ rpc[c] = "name" /\ wish[c] = 0
    /\ nextID' = nextID + 1
    /\ rname' = [rname EXCEPT ![c] = nextID']
    /\ rpc' = [rpc EXCEPT ![c] = "add"]
    /\ UNCHANGED <<target, wish, ordered, heap, epc, snap, looks>>

\* Seeded bug: a later rule of a type goes before the earlier ones.
BugAdd(c) ==
    LET def == [by |-> c, name |-> rname[c], type |-> target[c]]
    IN  /\ rpc[c] = "add"
        /\ ordered' = Append(ordered, def)
        /\ heap' = [heap EXCEPT ![0][def.type] = <<def>> \o @]
        /\ rpc' = [rpc EXCEPT ![c] = "done"]
        /\ UNCHANGED <<target, wish, nextID, rname, epc, snap, looks>>

\* Registry.Add: the definition goes to the end of the list and of its type's.
Add(c) ==
    LET def == [by |-> c, name |-> rname[c], type |-> target[c]]
    IN  /\ rpc[c] = "add"
        /\ ordered' = Append(ordered, def)
        /\ heap' = [heap EXCEPT ![0][def.type] = Append(@, def)]
        /\ rpc' = [rpc EXCEPT ![c] = "done"]
        /\ UNCHANGED <<target, wish, nextID, rname, epc, snap, looks>>

-----------------------------------------------------------------------------
\* Snapshot.TargetTypes of map object o.
TargetTypes(o) == {t \in Types : heap[o][t] # <<>>}

\* Seeded bug: the snapshot shares the registry's map.
BugSnapshot(r) ==
    /\ epc[r] = "idle"
    /\ snap' = [snap EXCEPT ![r] = [ordered |-> ordered, map |-> 0]]
    /\ epc' = [epc EXCEPT ![r] = IF TargetTypes(0) = {} THEN "done" ELSE "look"]
    /\ UNCHANGED <<target, wish, ordered, heap, nextID, rpc, rname, looks>>

\* Registry.Snapshot: the run gets a list and a map of its own.  A run with no
\* rule returns an empty report at once.
Snapshot(r) ==
    /\ epc[r] = "idle"
    /\ heap' = [heap EXCEPT ![r] = heap[0]]
    /\ snap' = [snap EXCEPT ![r] = [ordered |-> ordered, map |-> r]]
    /\ epc' = [epc EXCEPT ![r] = IF TargetTypes(0) = {} THEN "done" ELSE "look"]
    /\ UNCHANGED <<target, wish, ordered, nextID, rpc, rname, looks>>

\* Snapshot.RulesFor: the rules for a node whose type is t.  A node's type is
\* concrete, so a rule registered for an interface is never found.
RulesFor(r, t) ==
    /\ epc[r] = "look" /\ Len(looks[r]) < MaxLooks
    /\ looks' = [looks EXCEPT ![r] = Append(@, [type |-> t, rules |-> heap[snap[r].map][t]])]
    /\ UNCHANGED <<target, wish, ordered, heap, nextID, rpc, rname, epc, snap>>

\* The run has seen every point.
RunDone(r) ==
    /\ epc[r] = "look"
    /\ epc' = [epc EXCEPT ![r] = "done"]
    /\ UNCHANGED <<target, wish, ordered, heap, nextID, rpc, rname, snap, looks>>

Finished ==
    /\ \A c \in Callers : rpc[c] = "done"
    /\ \A r \in Runs : epc[r] = "done"
    /\ UNCHANGED vars

Next ==
    \/ \E c \in Callers : KeepName(c) \/ NextID(c) \/ Add(c)
    \/ \E r \in Runs : Snapshot(r) \/ RunDone(r) \/ \E t \in Concrete : RulesFor(r, t)
    \/ Finished

Spec == Init /\ [][Next]_vars

-----------------------------------------------------------------------------
\* Every variable holds a value of its kind.
TypeOK ==
    /\ target \in [Callers -> Types]
    /\ wish \in [Callers -> Names \cup {0}]
    /\ ordered \in Seq(Definition)
    /\ heap \in [Runs \cup {0} -> [Types -> Seq(Definition)]]
    /\ nextID \in Nat
    /\ rpc \in [Callers -> {"name", "add", "done"}]
    /\ rname \in [Callers -> Names \cup Nat]
    /\ epc \in [Runs -> {"idle", "look", "done"}]
    /\ snap \in [Runs -> [ordered : Seq(Definition), map : Runs \cup {0}]]
    /\ looks \in [Runs -> Seq([type : Concrete, rules : Seq(Definition)])]

\* Whatever is registered while a run goes on, each node it looks up gets the
\* rules that were there when the run began, in registration order: two nodes of
\* one type get the same rules, and a type is looked up in vain if and only if
\* no rule was there.
RunsSeeTheirSnapshot ==
    \A r \in Runs : \A k \in DOMAIN looks[r] :
        AreOfType(looks[r][k].rules, snap[r].ordered, looks[r][k].type)

\* No two rules without a name of their own get the same default name, however
\* the calls interleave.
DefaultNamesDiffer ==
    \A c, d \in Callers :
        c # d /\ wish[c] = 0 /\ wish[d] = 0 /\ rpc[c] # "name" /\ rpc[d] # "name"
            => rname[c] # rname[d]

\* Every finished call has registered its rule exactly once, under its name, and
\* an unfinished one nothing.
RegisteredOnce ==
    \A c \in Callers :
        LET mine == {k \in DOMAIN ordered : ordered[k].by = c}
        IN  /\ Cardinality(mine) = IF rpc[c] = "done" THEN 1 ELSE 0
            /\ \A k \in mine : ordered[k].name = rname[c] /\ ordered[k].type = target[c]
            /\ \A t \in Types : AreOfType(heap[0][t], ordered, t)

\* docs/rule.md:16, "Rule IDs are assigned in registration order and are used
\* for default rule names": of two default names the earlier rule has the lower.
DefaultNamesInOrder ==
    \A j, k \in DOMAIN ordered :
        j < k /\ wish[ordered[j].by] = 0 /\ wish[ordered[k].by] = 0
            => ordered[j].name < ordered[k].name
=============================================================================

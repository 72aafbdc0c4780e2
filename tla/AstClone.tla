------------------------------ MODULE AstClone ------------------------------
(***************************************************************************)
(* How mutants are cut from one loaded file: the points Collect records    *)
(* (internal/mutation/collect.go), the copy a rule's callback is given     *)
(* (prepareRuleInput, astclone.DeepCopyNode), the callback, the file with  *)
(* the callback's node in it (astclone.ClonePath), and the lookup of a     *)
(* copy's original (rule.Context.Original).  Two rules are go-graft's own: *)
(* RegisterFunctionCallSwap and RegisterMethodCallSwap (function_swap.go,  *)
(* method_swap.go), which rename the callee of a call.                     *)
(*                                                                         *)
(* An AST is a graph of pointers, and what matters here is which pointers  *)
(* the loaded tree, the copies and the callback share.  The heap is a      *)
(* sequence: a pointer is an index, allocation appends.  A node has a kind *)
(* (its Go type), a tag for all its fields that are not nodes, and its     *)
(* slots, the fields and list elements that are, in the order replaceChild *)
(* looks through them: by name of the field, a call's Args before its Fun. *)
(* A slot has the static type of its field.                                *)
(*                                                                         *)
(* A node may be in several slots.  The parser has File.Doc in the list    *)
(* File.Comments too, and so the comments of declarations; the ImportSpecs *)
(* of declarations are in File.Imports, and identifiers in Unresolved.     *)
(* ast.Walk goes into none of these three lists.                           *)
(***************************************************************************)
EXTENDS Integers, Sequences, FiniteSets, SequencesExt

CONSTANTS
    Loaded,         \* the heap after loading: the file is node 1
    Assignable,     \* [slot type -> the kinds a slot of that type accepts]
    Unwalked,       \* the slot types ast.Walk leaves out
    Releases,       \* sets of kinds: those shallowCopy may have been generated for
    Targets,        \* the kinds some rule is registered for
    Positions,      \* sequences of slot numbers, enough for every loaded node
    MaxAttempts,    \* how many rules are applied
    EditsShared,    \* may a callback edit what a shallow copy shares?
    From, To,       \* the names of the functions of a call swap
    DenotesFrom     \* the loaded identifiers that denote a function or method
                    \* From of the swap's package, and of its receiver's type
                    \* if it swaps methods, whose type is identical to To's

Kinds == (UNION {Assignable[t] : t \in DOMAIN Assignable}) \cup {"File"}
Tags == {Loaded[n].tag : n \in DOMAIN Loaded} \cup {"edited", "made", To}
Node == [kind : Kinds, tag : Tags, slots : Seq([type : DOMAIN Assignable, kid : Nat])]

\* Nodes whose slots hold nodes of kinds they accept.
IsHeap(h) ==
    /\ h \in Seq(Node)
    /\ \A n \in DOMAIN h : \A k \in DOMAIN h[n].slots :
           /\ h[n].slots[k].kid \in DOMAIN h
           /\ h[h[n].slots[k].kid].kind \in Assignable[h[n].slots[k].type]

\* A node of the loaded file is numbered after those that hold it, and only the
\* file has slots that are not walked.  (The parser has each node in one walked
\* slot; nothing here rests on that.)
ASSUME LoadedAssumption ==
    /\ IsHeap(Loaded) /\ Loaded # <<>> /\ Loaded[1].kind = "File"
    /\ \A n \in DOMAIN Loaded : \A k \in DOMAIN Loaded[n].slots :
           /\ Loaded[n].slots[k].kid > n
           /\ Loaded[n].slots[k].type \in Unwalked => n = 1

VARIABLES
    supported,  \* the kinds shallowCopy knows
    heap,
    phase,      \* "next", "deep", "callback", "clone"
    attempts,   \* how many were begun
    path,       \* pathOrig: the nodes from the file to the point
    deep,       \* has the rule WithDeepCopy?
    input,      \* the node the callback is given; 0 before there is one
    todo,       \* DeepCopyNode's traversal: <<parent, slot, node>> yet to be met
    origin,     \* Context.cloneMap: <<copy, original>> pairs
    child,      \* ClonePath: [orig, clone] of the path's last node done
    level,      \* ClonePath: the index in path of child.orig
    swapped,    \* is the callback's result that of a call swap?
    built       \* the mutated files: the point's position and the text

vars == <<supported, heap, phase, attempts, path, deep, input, todo, origin, child, level, swapped,
          built>>

NoChild == [orig |-> 0, clone |-> 0]

\* The node in a slot of node n, or 0.
Kid(h, n, k) == IF n # 0 /\ k \in DOMAIN h[n].slots THEN h[n].slots[k].kid ELSE 0

\* The nodes on the way from node n to a position below it, n first, and the
\* node at the position.
Way(h, n, pos) ==
    LET way[k \in 0 .. Len(pos)] == IF k = 0 THEN n ELSE Kid(h, way[k - 1], pos[k])
    IN  way
At(h, n, pos) == Way(h, n, pos)[Len(pos)]

\* What a file reads like: the tag of the node at each position.  (format.Node
\* prints less: of comments those in Comments, and nothing of Imports.)
Text(h, file) ==
    [pos \in Positions |-> LET n == At(h, file, pos) IN IF n = 0 THEN "" ELSE h[n].tag]

Texts == [Positions -> Tags \cup {""}]

LoadedWay == [pos \in Positions |-> Way(Loaded, 1, pos)]
LoadedAt == [pos \in Positions |-> At(Loaded, 1, pos)]
LoadedText == Text(Loaded, 1)

ASSUME PositionsAssumption ==
    /\ Positions \subseteq Seq(Nat) /\ <<>> \in Positions
    /\ \A pos \in Positions : LoadedAt[pos] # 0 =>
           \A k \in DOMAIN Loaded[LoadedAt[pos]].slots : Append(pos, k) \in Positions
ASSUME RulesAssumption ==
    /\ MaxAttempts \in Nat /\ EditsShared \in BOOLEAN
    /\ DenotesFrom \subseteq DOMAIN Loaded

\* The nodes on the way to a position, and the positions below any node.
OnTheWay == [pos \in Positions |-> Range(LoadedWay[pos])]
Below == UNION {{SubSeq(pos, k, Len(pos)) : k \in 1 .. Len(pos)} : pos \in Positions}

\* Collect: the positions of the nodes of a target kind that ast.Inspect meets,
\* with the path there.
IsWalked(slot) == slot.type \notin Unwalked
Points ==
    {pos \in Positions :
        /\ LoadedAt[pos] # 0 /\ Loaded[LoadedAt[pos]].kind \in Targets
        /\ \A k \in 1 .. Len(pos) : IsWalked(Loaded[LoadedWay[pos][k - 1]].slots[pos[k]])}

\* Seeded bug: the path begins below the file.
BugPathTo(pos) == [k \in 1 .. Len(pos) |-> LoadedWay[pos][k]]

PathTo(pos) == [k \in 1 .. Len(pos) + 1 |-> LoadedWay[pos][k - 1]]

Point == path[Len(path)]

Init ==
    /\ supported \in Releases
    /\ heap = Loaded
    /\ phase = "next" /\ attempts = 0
    /\ path = <<1>> /\ deep = FALSE /\ input = 0
    /\ todo = {} /\ origin = {}
    /\ child = NoChild /\ level = 0 /\ swapped = FALSE
    /\ built = <<>>

-----------------------------------------------------------------------------
\* Context.Original: from a copy to its original as long as there is one.  (A
\* node has one original, and there is no cycle.)
OriginalsOf(m) == {p[2] : p \in {q \in origin : q[1] = m}}
OriginalOf(m) == IF OriginalsOf(m) = {} THEN m ELSE CHOOSE o \in OriginalsOf(m) : TRUE
Original(n) ==
    LET found[k \in 0 .. Cardinality(origin)] == IF k = 0 THEN n ELSE OriginalOf(found[k - 1])
    IN  found[Cardinality(origin)]

\* sameNode, and the type assertion of replaceField and replaceSlice.
Matches(slot, old, new, h) == slot.kid = old /\ h[new].kind \in Assignable[slot.type]

\* The slots replaceChild may replace.
Slots(h, parent, old, new) ==
    {k \in DOMAIN h[parent].slots : Matches(h[parent].slots[k], old, new, h)}

SetKid(h, n, k, new) == [h EXCEPT ![n].slots[k].kid = new]

\* Seeded bug: the first slot is replaced, whatever it holds.
BugReplaceChild(h, parent, old, new) == SetKid(h, parent, 1, new)

\* replaceChild: the first of them gets the new child.
ReplaceChild(h, parent, old, new) ==
    LET slots == Slots(h, parent, old, new)
    IN  SetKid(h, parent, CHOOSE k \in slots : \A j \in slots : k =< j, new)

\* The pointer to the next node allocated.
Fresh == Len(heap) + 1

\* shallowCopy allocates a node equal to node n: the two share their children,
\* but not the slices that hold them.
ShallowCopy(h, n) == Append(h, h[n])

-----------------------------------------------------------------------------
(***************************************************************************)
(* prepareRuleInput.                                                       *)
(***************************************************************************)
Begin(pos, wantsDeep) ==
    /\ phase = "next" /\ attempts < MaxAttempts
    /\ attempts' = attempts + 1
    /\ path' = PathTo(pos)
    /\ deep' = wantsDeep
    /\ child' = NoChild /\ level' = 0 /\ swapped' = FALSE
    /\ UNCHANGED <<supported, built>>

\* The callback gets a shallow copy.
BeginShallow(pos) ==
    LET n == LoadedAt[pos]
    IN  /\ Begin(pos, FALSE)
        /\ heap[n].kind \in supported
        /\ heap' = ShallowCopy(heap, n)
        /\ input' = Fresh
        /\ origin' = {<<Fresh, n>>}
        /\ phase' = "callback"
        /\ UNCHANGED todo

\* Or the subtree is traversed to copy it.
BeginDeep(pos) ==
    /\ Begin(pos, TRUE)
    /\ todo' = {<<0, 0, LoadedAt[pos]>>}
    /\ input' = 0 /\ origin' = {}
    /\ phase' = "deep"
    /\ UNCHANGED heap

\* The node's kind is unsupported: the mutant is Errored.
BeginFails(pos) ==
    /\ Begin(pos, FALSE)
    /\ heap[LoadedAt[pos]].kind \notin supported
    /\ input' = 0 /\ origin' = {}
    /\ UNCHANGED <<heap, phase, todo>>

CloneOf(n) == (CHOOSE p \in origin : p[2] = n)[1]
Cloned(n) == \E p \in origin : p[2] = n

\* The slots of a node that ast.PreorderStack goes into, and the node that it
\* meets next.  (Nodes are numbered as it meets them.  What the copy is like does
\* not depend on the order, nor does an error.)
Visits(n) ==
    {<<n, k, heap[n].slots[k].kid>> : k \in {j \in DOMAIN heap[n].slots : IsWalked(heap[n].slots[j])}}
Visit == CHOOSE v \in todo : \A w \in todo : v[3] =< w[3]

\* The copy takes the node's place in the copy of its parent; the root has none.
HasPlace(h, parent, n, copy) == parent # 0 => Slots(h, CloneOf(parent), n, copy) # {}
Put(h, parent, n, copy) == IF parent = 0 THEN h ELSE ReplaceChild(h, CloneOf(parent), n, copy)

\* Seeded bug: the copy is not put into its parent's copy.
BugDeepVisit ==
    /\ phase = "deep" /\ todo # {}
    /\ LET parent == Visit[1]
           n == Visit[3]
       IN  /\ ~Cloned(n) /\ heap[n].kind \in supported
           /\ heap' = ShallowCopy(heap, n)
           /\ origin' = origin \cup {<<Fresh, n>>}
           /\ input' = IF parent = 0 THEN Fresh ELSE input
           /\ todo' = (todo \ {Visit}) \cup Visits(n)
    /\ UNCHANGED <<supported, phase, attempts, path, deep, child, level, swapped, built>>

\* A node is met for the first time: it is copied, and its children come next.
DeepVisit ==
    /\ phase = "deep" /\ todo # {}
    /\ LET parent == Visit[1]
           n == Visit[3]
           h == ShallowCopy(heap, n)
       IN  /\ ~Cloned(n) /\ heap[n].kind \in supported
           /\ HasPlace(h, parent, n, Fresh)
           /\ heap' = Put(h, parent, n, Fresh)
           /\ origin' = origin \cup {<<Fresh, n>>}
           /\ input' = IF parent = 0 THEN Fresh ELSE input
           /\ todo' = (todo \ {Visit}) \cup Visits(n)
    /\ UNCHANGED <<supported, phase, attempts, path, deep, child, level, swapped, built>>

\* It is met again: its copy is used again, and its children are not visited.
DeepMeet ==
    /\ phase = "deep" /\ todo # {}
    /\ LET parent == Visit[1]
           n == Visit[3]
       IN  /\ Cloned(n)
           /\ HasPlace(heap, parent, n, CloneOf(n))
           /\ heap' = Put(heap, parent, n, CloneOf(n))
           /\ todo' = todo \ {Visit}
    /\ UNCHANGED <<supported, phase, attempts, path, deep, input, origin, child, level, swapped,
                   built>>

\* It cannot be copied, or its copy has no place: the mutant is Errored.
DeepFails ==
    /\ phase = "deep" /\ todo # {}
    /\ LET parent == Visit[1]
           n == Visit[3]
       IN  ~IF Cloned(n) THEN HasPlace(heap, parent, n, CloneOf(n))
            ELSE heap[n].kind \in supported /\ HasPlace(ShallowCopy(heap, n), parent, n, Fresh)
    /\ phase' = "next"
    /\ todo' = {} /\ origin' = {} /\ input' = 0
    /\ UNCHANGED <<supported, heap, attempts, path, deep, child, level, swapped, built>>

DeepDone ==
    /\ phase = "deep" /\ todo = {}
    /\ phase' = "callback"
    /\ UNCHANGED <<supported, heap, attempts, path, deep, input, todo, origin, child, level,
                   swapped, built>>

-----------------------------------------------------------------------------
(***************************************************************************)
(* The callback: it edits the node it was given and returns it, or returns *)
(* another.  ClonePath begins with the node it returned.  (What it adds to *)
(* cloneMap reaches the context when it is done; nothing looks before.)    *)
(***************************************************************************)
Callback(returned, isSwap) ==
    /\ phase = "callback"
    /\ phase' = "clone"
    /\ swapped' = isSwap
    /\ child' = [orig |-> Point, clone |-> returned]
    /\ level' = Len(path)
    /\ origin' = {p \in origin : p[1] # returned} \cup {<<returned, Point>>}
    /\ UNCHANGED <<supported, attempts, path, deep, input, todo, built>>

EditInput ==
    /\ Callback(input, FALSE)
    /\ heap' = [heap EXCEPT ![input].tag = "edited"]

\* It edits a node below the one it was given, a copy or a node that is shared.
EditBelow ==
    /\ Callback(input, FALSE)
    /\ \E pos \in Below :
           LET n == At(heap, input, pos)
           IN  /\ n # 0 /\ (n \in DOMAIN Loaded => EditsShared)
               /\ heap' = [heap EXCEPT ![n].tag = "edited"]

\* It puts a new node into a slot of the one it was given.
EditSlot ==
    /\ Callback(input, FALSE)
    /\ \E k \in DOMAIN heap[input].slots :
           \E kind \in Assignable[heap[input].slots[k].type] :
               heap' = SetKid(Append(heap, [kind |-> kind, tag |-> "made", slots |-> <<>>]),
                              input, k, Fresh)

\* It returns a node of its own with the children of the one it was given.  A
\* rule for *ast.CallExpr can only return one, so the kind is the same.
Make ==
    /\ Callback(Fresh, FALSE)
    /\ heap' = Append(heap, [heap[input] EXCEPT !.tag = "made"])

\* It returns a node of the same kind from below the one it was given.
Hoist ==
    \E pos \in Below :
        LET n == At(heap, input, pos)
        IN  /\ Callback(n, FALSE)
            /\ n # 0 /\ heap[n].kind = heap[input].kind
            /\ UNCHANGED heap

\* It returns changed = false: there is no mutant.
Decline ==
    /\ phase = "callback"
    /\ phase' = "next"
    /\ origin' = {} /\ input' = 0
    /\ UNCHANGED <<supported, heap, attempts, path, deep, todo, child, level, swapped, built>>

(***************************************************************************)
(* The call swaps.  The callee f, x.f, f[T] or x.f[T] of a call is an      *)
(* identifier at the end of a spine: the call's last slot, behind its      *)
(* arguments, the indexed expression's last, the selector's first.         *)
(***************************************************************************)
SpineKinds == {"CallExpr", "IndexExpr", "IndexListExpr", "SelectorExpr"}
SlotToName(node) == IF node.kind = "SelectorExpr" THEN 1 ELSE Len(node.slots)
Under(h, n) == IF n # 0 /\ h[n].kind \in SpineKinds THEN Kid(h, n, SlotToName(h[n])) ELSE 0

\* The spine of a call, in a set that is empty if its callee is something else.
\* (An expression indexed twice is no function.)
Spines(h, call) ==
    LET a == Under(h, call)
        b == Under(h, a)
        c == Under(h, b)
    IN  {s \in {<<call, a>>, <<call, a, b>>, <<call, a, b, c>>} :
            /\ \A k \in DOMAIN s : s[k] # 0
            /\ h[Last(s)].kind = "Ident"
            /\ \A k \in 1 .. Len(s) - 1 :
                   /\ h[s[k]].kind \in SpineKinds /\ (h[s[k]].kind = "CallExpr" <=> k = 1)
                   /\ (h[s[k]].kind = "SelectorExpr" => k = Len(s) - 1)}

NameOf(h, spine) == h[Last(spine)].tag

\* Seeded bug: the callee's name decides.
BugMaySwap(spine) == NameOf(heap, spine) = From

\* What decides is the function the original call's callee denotes.  The copy
\* must have the same name, since another edit may have changed it.
MaySwap(spine) ==
    /\ NameOf(heap, spine) = From
    /\ heap[Original(input)].kind = "CallExpr"
    /\ \E orig \in Spines(heap, Original(input)) : Last(orig) \in DenotesFrom

\* Another call with another spine, that shares all else with the input.
Renamed(spine) ==
    [k \in DOMAIN spine |->
        IF k = Len(spine) THEN [heap[spine[k]] EXCEPT !.tag = To]
        ELSE [heap[spine[k]] EXCEPT !.slots[SlotToName(heap[spine[k]])].kid = Fresh + k]]

SwapFunction ==
    \E spine \in Spines(heap, input) :
        /\ Callback(Fresh, TRUE)
        /\ MaySwap(spine)
        /\ heap' = heap \o Renamed(spine)

\* A method is called as x.f only.
SwapMethod ==
    \E spine \in Spines(heap, input) :
        /\ Callback(Fresh, TRUE)
        /\ Len(spine) = 3 /\ heap[spine[2]].kind = "SelectorExpr"
        /\ MaySwap(spine)
        /\ heap' = heap \o Renamed(spine)

-----------------------------------------------------------------------------
(***************************************************************************)
(* ClonePath: from the point up to the file, each node on the path is      *)
(* copied and the copy gets the clone of the node below it.                *)
(***************************************************************************)
CanCloneUp ==
    /\ heap[path[level - 1]].kind \in supported
    /\ Slots(heap, path[level - 1], child.orig, child.clone) # {}

\* Seeded bug: the nodes on the path are changed in place.
BugCloneUp ==
    LET parent == path[level - 1]
    IN  /\ phase = "clone" /\ level > 1
        /\ CanCloneUp
        /\ heap' = ReplaceChild(heap, parent, child.orig, child.clone)
        /\ child' = [orig |-> parent, clone |-> parent]
        /\ level' = level - 1
        /\ UNCHANGED <<supported, phase, attempts, path, deep, input, todo, origin, swapped,
                       built>>

CloneUp ==
    LET parent == path[level - 1]
    IN  /\ phase = "clone" /\ level > 1
        /\ CanCloneUp
        /\ heap' = ReplaceChild(ShallowCopy(heap, parent), Fresh, child.orig, child.clone)
        /\ child' = [orig |-> parent, clone |-> Fresh]
        /\ level' = level - 1
        /\ origin' = origin \cup {<<Fresh, parent>>}
        /\ UNCHANGED <<supported, phase, attempts, path, deep, input, todo, swapped, built>>

\* The parent cannot be copied, or has no slot that takes the clone: the mutant
\* is Errored.
CloneFails ==
    /\ phase = "clone" /\ level > 1
    /\ ~CanCloneUp
    /\ phase' = "next"
    /\ origin' = {} /\ input' = 0
    /\ UNCHANGED <<supported, heap, attempts, path, deep, todo, child, level, swapped, built>>

\* The file is complete, and Builder.Build writes it out.
CloneDone ==
    /\ phase = "clone" /\ level = 1
    /\ heap[child.clone].kind = "File"
    /\ built' = Append(built, [path |-> path, text |-> Text(heap, child.clone),
                               swapped |-> swapped])
    /\ phase' = "next"
    /\ origin' = {} /\ input' = 0
    /\ UNCHANGED <<supported, heap, attempts, path, deep, todo, child, level, swapped>>

Finished == phase = "next" /\ attempts = MaxAttempts /\ UNCHANGED vars

Next ==
    \/ \E pos \in Points : BeginShallow(pos) \/ BeginDeep(pos) \/ BeginFails(pos)
    \/ DeepVisit \/ DeepMeet \/ DeepFails \/ DeepDone
    \/ EditInput \/ EditBelow \/ EditSlot \/ Make \/ Hoist
    \/ SwapFunction \/ SwapMethod \/ Decline
    \/ CloneUp \/ CloneFails \/ CloneDone
    \/ Finished

Spec == Init /\ [][Next]_vars

-----------------------------------------------------------------------------
\* Every variable holds a value of its kind; and since Go's types rule out
\* anything else, a slot holds a node of a kind it accepts.
TypeOK ==
    /\ supported \in Releases /\ IsHeap(heap)
    /\ phase \in {"next", "deep", "callback", "clone"}
    /\ attempts \in 0 .. MaxAttempts
    /\ path \in Seq(DOMAIN Loaded) /\ path # <<>> /\ path[1] = 1
    /\ deep \in BOOLEAN
    /\ input \in DOMAIN heap \cup {0}
    /\ todo \subseteq (DOMAIN heap \cup {0}) \X Nat \X (DOMAIN heap)
    /\ origin \subseteq (DOMAIN heap) \X (DOMAIN heap)
    /\ child \in [orig : DOMAIN heap \cup {0}, clone : DOMAIN heap \cup {0}]
    /\ level \in 0 .. Len(path) /\ swapped \in BOOLEAN
    /\ built \in Seq([path : Seq(DOMAIN Loaded), text : Texts, swapped : BOOLEAN])
    /\ Len(built) <= attempts

\* Copying and cloning share nodes with the loaded tree but write to none: it
\* stays as it was loaded, for the next attempt and for the callback's lookups.
LoadedUntouched == \A n \in DOMAIN Loaded : heap[n] = Loaded[n]

\* replaceChild fills as many of the slots that hold a node, from the first, as
\* ast.Walk meets it in.
IsFilled(n, k) ==
    LET same == {j \in DOMAIN Loaded[n].slots : Loaded[n].slots[j].kid = Loaded[n].slots[k].kid}
    IN  Cardinality({j \in same : j < k})
            < Cardinality({j \in same : IsWalked(Loaded[n].slots[j])})

\* docs/public-api.md:52, "`WithDeepCopy()` deep-copies the callback subtree and
\* enables descendant lookup": at every position below the input there is a copy
\* of what the loaded file has there, one copy of each node, and Original leads
\* from the copy back to it.  Only the copy of a file does less: Imports, Unresolved
\* and Comments keep the loaded nodes, but for the comment of Doc, whose copy takes
\* its place in Comments and leaves Doc the loaded one.
DeepCopyMirrors ==
    phase = "callback" /\ deep =>
        \A pos \in Below \cup {<<>>} :
            LET copy == At(heap, input, pos)
                orig == At(heap, Point, pos)
                isCopied == \A k \in 1 .. Len(pos) : IsFilled(Way(Loaded, Point, pos)[k - 1], pos[k])
            IN  /\ copy = 0 <=> orig = 0
                /\ orig # 0 =>
                       /\ heap[copy].kind = heap[orig].kind /\ heap[copy].tag = heap[orig].tag
                       /\ IF isCopied
                          THEN /\ copy \notin DOMAIN Loaded /\ Original(copy) = orig
                               /\ \A p \in origin : p[2] = orig => p[1] = copy
                          ELSE copy = orig /\ Loaded[Point].kind = "File"

\* docs/mutation.md:14, "One generated mutant always corresponds to one mutation
\* point and one node replacement": a mutated file reads as the loaded one
\* everywhere but at the point and below it.
OneReplacement ==
    phase = "next" => \A m \in DOMAIN built : \A pos \in Positions :
        built[m].text[pos] # LoadedText[pos] =>
            Last(built[m].path) \in OnTheWay[pos]

\* The mutant of a call swap reads as the loaded file but for one identifier,
\* which is named To and denotes, where it was loaded, a function or method From:
\* no variable or other package's function of that name is taken for it, be the
\* rule's input a shallow copy or a deep one, which has no types of its own
\* (RegisterFunctionCallSwap, RegisterMethodCallSwap).
SwapRenamesCallee ==
    \A m \in DOMAIN built : built[m].swapped =>
        \E callee \in Positions :
            /\ LoadedAt[callee] \in DenotesFrom
            /\ built[m].text = [LoadedText EXCEPT ![callee] = To]
=============================================================================

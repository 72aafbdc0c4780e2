-------------------------- MODULE AstCloneProofs --------------------------
(***************************************************************************)
(* Proofs about AstClone, for every loaded file, all sets of node kinds    *)
(* that can be copied and any number of attempts.  Base is inductive: the  *)
(* types, what is kept of the loaded file (LoadedKept), what each phase has *)
(* done (PhaseInv), the copy as far as DeepCopyNode has come (DeepInv) and *)
(* the shallow copy (ShallowInv).  DeepInv counts: of the slots that hold a *)
(* node, as many have got its copy as the walk has met it in, and they are *)
(* the first.  Where callbacks edit no node they share, CloneInv says what *)
(* is read at each position below the last clone, and BuiltInv what every  *)
(* written file reads like.                                                *)
(***************************************************************************)
EXTENDS AstClone, FunctionTheorems, SequenceTheorems, FiniteSetTheorems, WellFoundedInduction, TLAPS

-----------------------------------------------------------------------------
(***************************************************************************)
(* Ways.                                                                   *)
(***************************************************************************)
\* A set of numbers has a least one: what follows is by induction with it.
LEMMA LeastOf ==
  ASSUME NEW S, S \subseteq Nat, S # {}
  PROVE  \E n \in S : \A m \in S : n =< m
<1>1. \E n \in S : \A m \in S : ~(<<m, n>> \in OpToRel(<, Nat))
  BY NatLessThanWellFounded, WFMin
<1>2. PICK n \in S : \A m \in S : ~(<<m, n>> \in OpToRel(<, Nat))
  BY <1>1
<1>3. \A m \in S : ~(m < n)
  BY <1>2 DEF OpToRel
<1> QED BY <1>3

\* A way is a function on 0 .. Len(pos) that goes from slot to slot.
IsWay(way, h, n, pos, len) ==
    way = [k \in 0 .. len |-> IF k = 0 THEN n ELSE Kid(h, way[k - 1], pos[k])]

LEMMA WayExists ==
  ASSUME NEW h, NEW n, NEW pos, NEW len \in Nat
  PROVE  \E way : IsWay(way, h, n, pos, len)
<1> DEFINE Bad == {m \in Nat : ~\E way : IsWay(way, h, n, pos, m)}
<1> SUFFICES Bad = {}
  OBVIOUS
<1> SUFFICES ASSUME Bad # {} PROVE FALSE
  OBVIOUS
<1>1. PICK m \in Bad : \A j \in Bad : m =< j
  BY LeastOf, Bad \subseteq Nat
<1>2. CASE m = 0
  <2> DEFINE w == [k \in 0 .. 0 |-> n]
  <2>1. IsWay(w, h, n, pos, 0)
    BY DEF IsWay
  <2> QED BY <1>1, <1>2, <2>1
<1>3. CASE m # 0
  <2>1. m - 1 \in Nat /\ m - 1 \notin Bad
    BY <1>1, <1>3
  <2>2. PICK v : IsWay(v, h, n, pos, m - 1)
    BY <2>1
  <2> DEFINE w == [k \in 0 .. m |-> IF k = m THEN Kid(h, v[m - 1], pos[m]) ELSE v[k]]
  <2>3. IsWay(w, h, n, pos, m)
    <3>1. \A k \in 0 .. m : w[k] = IF k = 0 THEN n ELSE Kid(h, w[k - 1], pos[k])
      <4> TAKE k \in 0 .. m
      <4>1. CASE k = m
        BY <4>1, <2>1, <1>3
      <4>2. CASE k # m
        <5>1. k \in 0 .. m - 1 /\ w[k] = v[k] /\ (k # 0 => w[k - 1] = v[k - 1])
          BY <4>2, <2>1
        <5>2. v[k] = IF k = 0 THEN n ELSE Kid(h, v[k - 1], pos[k])
          BY <2>2, <5>1 DEF IsWay
        <5> QED BY <5>1, <5>2
      <4> QED BY <4>1, <4>2
    <3> HIDE DEF w
    <3>2. w = [k \in 0 .. m |-> w[k]]
      BY DEF w
    <3> QED BY <3>1, <3>2 DEF IsWay
  <2> QED BY <1>1, <2>3
<1> QED BY <1>2, <1>3

\* What Way yields.
LEMMA WayFacts ==
  ASSUME NEW h, NEW n, NEW pos, Len(pos) \in Nat
  PROVE  /\ DOMAIN Way(h, n, pos) = 0 .. Len(pos)
         /\ Way(h, n, pos)[0] = n
         /\ \A k \in 1 .. Len(pos) : Way(h, n, pos)[k] = Kid(h, Way(h, n, pos)[k - 1], pos[k])
<1>1. IsWay(Way(h, n, pos), h, n, pos, Len(pos))
  BY WayExists DEF Way, IsWay
<1> DEFINE w == Way(h, n, pos)
<1>2. w = [k \in 0 .. Len(pos) |-> IF k = 0 THEN n ELSE Kid(h, w[k - 1], pos[k])]
  BY <1>1 DEF IsWay
<1> HIDE DEF w
<1>3. DOMAIN w = 0 .. Len(pos) /\ \A k \in 0 .. Len(pos) : w[k] = IF k = 0 THEN n ELSE Kid(h, w[k - 1], pos[k])
  BY <1>2
<1> QED BY <1>3 DEF w

-----------------------------------------------------------------------------
(***************************************************************************)
(* Heaps, and what is done to them.                                        *)
(***************************************************************************)
Slot == [type : DOMAIN Assignable, kid : Nat]

LEMMA HeapFacts ==
  ASSUME NEW h, IsHeap(h)
  PROVE  /\ Len(h) \in Nat /\ DOMAIN h = 1 .. Len(h)
         /\ \A n \in DOMAIN h :
               /\ h[n] \in Node /\ h[n].kind \in Kinds /\ h[n].tag \in Tags
               /\ h[n].slots \in Seq(Slot) /\ Len(h[n].slots) \in Nat
               /\ DOMAIN h[n].slots = 1 .. Len(h[n].slots)
               /\ \A k \in DOMAIN h[n].slots :
                      /\ h[n].slots[k] \in Slot
                      /\ h[n].slots[k].type \in DOMAIN Assignable
                      /\ h[n].slots[k].kid \in DOMAIN h
                      /\ h[h[n].slots[k].kid].kind \in Assignable[h[n].slots[k].type]
<1>1. h \in Seq(Node)
  BY DEF IsHeap
<1>2. \A n \in DOMAIN h : h[n] \in Node
  BY <1>1
<1>3. \A x \in Node : x.kind \in Kinds /\ x.tag \in Tags /\ x.slots \in Seq(Slot)
  BY DEF Node, Slot
<1>4. \A n \in DOMAIN h : h[n].slots \in Seq(Slot)
  BY <1>2, <1>3
<1>5. \A s \in Seq(Slot) : Len(s) \in Nat /\ DOMAIN s = 1 .. Len(s) /\ \A k \in DOMAIN s : s[k] \in Slot
  OBVIOUS
<1>6. \A x \in Slot : x.type \in DOMAIN Assignable
  BY DEF Slot
<1>7. \A n \in DOMAIN h : \A k \in DOMAIN h[n].slots :
          /\ h[n].slots[k].kid \in DOMAIN h
          /\ h[h[n].slots[k].kid].kind \in Assignable[h[n].slots[k].type]
  BY DEF IsHeap
<1> QED BY <1>1, <1>2, <1>3, <1>4, <1>5, <1>6, <1>7

\* A node is allocated.
LEMMA AppendHeap ==
  ASSUME NEW h, IsHeap(h), NEW node \in Node,
         \A k \in DOMAIN node.slots :
             /\ node.slots[k].kid \in DOMAIN h
             /\ h[node.slots[k].kid].kind \in Assignable[node.slots[k].type]
  PROVE  /\ IsHeap(Append(h, node)) /\ Len(Append(h, node)) = Len(h) + 1
         /\ Append(h, node)[Len(h) + 1] = node
         /\ \A n \in DOMAIN h : n \in DOMAIN Append(h, node) /\ Append(h, node)[n] = h[n]
<1> DEFINE g == Append(h, node)
<1>1. h \in Seq(Node) /\ Len(h) \in Nat /\ DOMAIN h = 1 .. Len(h)
  BY DEF IsHeap
<1>2. /\ g \in Seq(Node) /\ Len(g) = Len(h) + 1 /\ DOMAIN g = 1 .. Len(h) + 1
      /\ g[Len(h) + 1] = node
      /\ \A n \in DOMAIN h : g[n] = h[n]
  BY <1>1
<1> HIDE DEF g
<1>3. \A n \in DOMAIN g : n \in DOMAIN h \/ n = Len(h) + 1
  BY <1>1, <1>2
<1>4. \A n \in DOMAIN g : \A k \in DOMAIN g[n].slots :
          /\ g[n].slots[k].kid \in DOMAIN h
          /\ h[g[n].slots[k].kid].kind \in Assignable[g[n].slots[k].type]
  BY <1>2, <1>3 DEF IsHeap
<1>5. \A n \in DOMAIN h : n \in DOMAIN g
  BY <1>1, <1>2
<1>6. IsHeap(g)
  BY <1>2, <1>4, <1>5 DEF IsHeap
<1> QED BY <1>2, <1>5, <1>6 DEF g

\* A node is put into a slot.
LEMMA KidSet ==
  ASSUME NEW h, IsHeap(h), NEW n \in DOMAIN h, NEW k \in DOMAIN h[n].slots, NEW new \in DOMAIN h,
         h[new].kind \in Assignable[h[n].slots[k].type],
         NEW g, g = SetKid(h, n, k, new)
  PROVE  /\ IsHeap(g) /\ Len(g) = Len(h) /\ DOMAIN g = DOMAIN h
         /\ \A m \in DOMAIN h : /\ m # n => g[m] = h[m]
                                /\ g[m].kind = h[m].kind /\ g[m].tag = h[m].tag
                                /\ DOMAIN g[m].slots = DOMAIN h[m].slots
         /\ g[n].slots[k].kid = new
         /\ \A j \in DOMAIN h[n].slots : /\ j # k => g[n].slots[j] = h[n].slots[j]
                                         /\ g[n].slots[j].type = h[n].slots[j].type
<1> DEFINE slots == [h[n].slots EXCEPT ![k] = [h[n].slots[k] EXCEPT !.kid = new]]
           node == [h[n] EXCEPT !.slots = slots]
<1>1. g = [h EXCEPT ![n] = node]
  BY DEF SetKid
<1>2. h[n] \in Node /\ h[n].slots \in Seq(Slot) /\ h[n].slots[k] \in Slot /\ new \in Nat
  BY HeapFacts
<1>3. [h[n].slots[k] EXCEPT !.kid = new] \in Slot
  BY <1>2 DEF Slot
<1>4. slots \in Seq(Slot) /\ DOMAIN slots = DOMAIN h[n].slots
  BY <1>2, <1>3
<1>5. /\ slots[k] = [h[n].slots[k] EXCEPT !.kid = new]
      /\ slots[k].kid = new /\ slots[k].type = h[n].slots[k].type
      /\ \A j \in DOMAIN h[n].slots : j # k => slots[j] = h[n].slots[j]
  BY <1>2 DEF Slot
<1> HIDE DEF slots
<1>6. node \in Node /\ node.slots = slots /\ node.kind = h[n].kind /\ node.tag = h[n].tag
  BY <1>2, <1>4 DEF Node, Slot
<1> HIDE DEF node
<1>7. h \in Seq(Node)
  BY DEF IsHeap
<1>8. g \in Seq(Node) /\ DOMAIN g = DOMAIN h /\ Len(g) = Len(h)
  BY <1>1, <1>6, <1>7
<1>9. g[n] = node /\ \A m \in DOMAIN h : m # n => g[m] = h[m]
  BY <1>1
<1>10. \A m \in DOMAIN h : g[m].kind = h[m].kind
  BY <1>6, <1>9
<1>11. \A m \in DOMAIN g : \A j \in DOMAIN g[m].slots :
           g[m].slots[j].kid \in DOMAIN g /\ g[g[m].slots[j].kid].kind \in Assignable[g[m].slots[j].type]
  <2> SUFFICES ASSUME NEW m \in DOMAIN g, NEW j \in DOMAIN g[m].slots
               PROVE  g[m].slots[j].kid \in DOMAIN g /\ g[g[m].slots[j].kid].kind \in Assignable[g[m].slots[j].type]
    OBVIOUS
  <2>1. CASE m # n
    <3>1. m \in DOMAIN h /\ g[m] = h[m]
      BY <2>1, <1>8, <1>9
    <3>2. h[m].slots[j].kid \in DOMAIN h /\ h[h[m].slots[j].kid].kind \in Assignable[h[m].slots[j].type]
      BY <3>1, HeapFacts
    <3> QED BY <3>1, <3>2, <1>8, <1>10
  <2>2. CASE m = n /\ j # k
    <3>1. j \in DOMAIN h[n].slots
      BY <2>2, <1>4, <1>6, <1>9
    <3>2. g[n].slots[j] = h[n].slots[j]
      BY <2>2, <3>1, <1>5, <1>6, <1>9
    <3>3. h[n].slots[j].kid \in DOMAIN h /\ h[h[n].slots[j].kid].kind \in Assignable[h[n].slots[j].type]
      BY <3>1, HeapFacts
    <3> QED BY <2>2, <3>2, <3>3, <1>8, <1>10
  <2>3. CASE m = n /\ j = k
    <3>1. g[n].slots[k].kid = new /\ g[n].slots[k].type = h[n].slots[k].type
      BY <1>5, <1>6, <1>9
    <3>2. new \in DOMAIN g /\ g[new].kind \in Assignable[h[n].slots[k].type]
      BY <1>8, <1>10
    <3> QED BY <2>3, <3>1, <3>2
  <2> QED BY <2>1, <2>2, <2>3
<1>12. IsHeap(g)
  BY <1>8, <1>11 DEF IsHeap
<1>13. \A m \in DOMAIN h : /\ m # n => g[m] = h[m]
                           /\ g[m].kind = h[m].kind /\ g[m].tag = h[m].tag
                           /\ DOMAIN g[m].slots = DOMAIN h[m].slots
  <2> TAKE m \in DOMAIN h
  <2>1. CASE m = n
    BY <2>1, <1>4, <1>6, <1>9
  <2>2. CASE m # n
    BY <2>2, <1>9
  <2> QED BY <2>1, <2>2
<1>14. /\ g[n].slots[k].kid = new
       /\ \A j \in DOMAIN h[n].slots : /\ j # k => g[n].slots[j] = h[n].slots[j]
                                       /\ g[n].slots[j].type = h[n].slots[j].type
  BY <1>5, <1>6, <1>9
<1> QED BY <1>8, <1>12, <1>13, <1>14

\* A node's fields are edited.
Edited(h, n, tag) == [h EXCEPT ![n].tag = tag]

LEMMA SetTag ==
  ASSUME NEW h, IsHeap(h), NEW n \in DOMAIN h, NEW tag \in Tags, NEW g, g = Edited(h, n, tag)
  PROVE  /\ IsHeap(g) /\ Len(g) = Len(h) /\ DOMAIN g = DOMAIN h
         /\ \A m \in DOMAIN h : /\ m # n => g[m] = h[m]
                                /\ g[m].kind = h[m].kind /\ g[m].slots = h[m].slots
<1>1. h \in Seq(Node) /\ h[n] \in Node
  BY HeapFacts DEF IsHeap
<1>2. [h[n] EXCEPT !.tag = tag] \in Node
  BY <1>1 DEF Node
<1>3. g \in Seq(Node) /\ DOMAIN g = DOMAIN h /\ Len(g) = Len(h)
  BY <1>1, <1>2 DEF Edited
<1>4. g[n].kind = h[n].kind /\ g[n].slots = h[n].slots
  BY <1>1 DEF Node, Edited
<1>5. \A m \in DOMAIN h : /\ m # n => g[m] = h[m]
                          /\ g[m].kind = h[m].kind /\ g[m].slots = h[m].slots
  <2>1. \A m \in DOMAIN h : m # n => g[m] = h[m]
    BY DEF Edited
  <2> TAKE m \in DOMAIN h
  <2>2. CASE m = n
    BY <1>4, <2>2
  <2>3. CASE m # n
    BY <2>1, <2>3
  <2> QED BY ONLY <2>2, <2>3
<1>6. IsHeap(g)
  <2>1. \A m \in DOMAIN g : \A k \in DOMAIN g[m].slots :
            /\ g[m].slots[k].kid \in DOMAIN g
            /\ g[g[m].slots[k].kid].kind \in Assignable[g[m].slots[k].type]
    <3>1. \A m \in DOMAIN h : \A k \in DOMAIN h[m].slots :
              /\ h[m].slots[k].kid \in DOMAIN h
              /\ h[h[m].slots[k].kid].kind \in Assignable[h[m].slots[k].type]
      BY DEF IsHeap
    <3>2. DOMAIN g = DOMAIN h /\ \A m \in DOMAIN h : g[m].kind = h[m].kind /\ g[m].slots = h[m].slots
      BY <1>3, <1>5
    <3> QED BY ONLY <3>1, <3>2
  <2> QED BY <1>3, <2>1 DEF IsHeap
<1> QED BY ONLY <1>3, <1>5, <1>6

-----------------------------------------------------------------------------
(***************************************************************************)
(* Two ways along the same slots.                                          *)
(***************************************************************************)
LEMMA UpTo ==
  ASSUME NEW n \in Nat, NEW S, 0 \in S, \A k \in 1 .. n : k - 1 \in S => k \in S
  PROVE  \A k \in 0 .. n : k \in S
<1> DEFINE Out == {k \in 0 .. n : k \notin S}
<1> SUFFICES ASSUME Out # {} PROVE FALSE
  OBVIOUS
<1>1. PICK k \in Out : \A j \in Out : k =< j
  BY LeastOf, Out \subseteq Nat
<1>2. k \in 1 .. n /\ k - 1 \in 0 .. n /\ k - 1 \notin Out
  BY <1>1
<1> QED BY <1>1, <1>2

\* Two ways stay in a relation that slots keep, as long as the first does not
\* come to some nodes.
LEMMA SideBySide ==
  ASSUME NEW h, NEW g, NEW n, NEW m, NEW pos, Len(pos) \in Nat, NEW R, NEW Avoided,
         <<n, m>> \in R,
         \A x \in R : \A k : /\ x[1] \notin Avoided /\ Kid(h, x[1], k) \notin Avoided
                             => <<Kid(h, x[1], k), Kid(g, x[2], k)>> \in R,
         \A k \in 0 .. Len(pos) : Way(h, n, pos)[k] \notin Avoided
  PROVE  \A k \in 0 .. Len(pos) : <<Way(h, n, pos)[k], Way(g, m, pos)[k]>> \in R
<1> DEFINE v == Way(h, n, pos)
           w == Way(g, m, pos)
           S == {k \in 0 .. Len(pos) : <<v[k], w[k]>> \in R}
<1>1. /\ v[0] = n /\ \A k \in 1 .. Len(pos) : v[k] = Kid(h, v[k - 1], pos[k])
      /\ w[0] = m /\ \A k \in 1 .. Len(pos) : w[k] = Kid(g, w[k - 1], pos[k])
  BY WayFacts
<1>2. \A k \in 0 .. Len(pos) : v[k] \notin Avoided
  OBVIOUS
<1> HIDE DEF v, w
<1>3. 0 \in S
  BY <1>1
<1>4. \A k \in 1 .. Len(pos) : k - 1 \in S => k \in S
  <2> SUFFICES ASSUME NEW k \in 1 .. Len(pos), <<v[k - 1], w[k - 1]>> \in R PROVE <<v[k], w[k]>> \in R
    OBVIOUS
  <2>1. k - 1 \in 0 .. Len(pos) /\ k \in 0 .. Len(pos)
    OBVIOUS
  <2>2. v[k] = Kid(h, v[k - 1], pos[k]) /\ w[k] = Kid(g, w[k - 1], pos[k])
    BY <1>1
  <2> DEFINE x == <<v[k - 1], w[k - 1]>>
  <2>3. x[1] \notin Avoided /\ Kid(h, x[1], pos[k]) \notin Avoided
    BY <1>2, <2>1, <2>2
  <2>4. <<Kid(h, x[1], pos[k]), Kid(g, x[2], pos[k])>> \in R
    BY <2>3
  <2> QED BY <2>2, <2>4
<1> HIDE DEF S
<1>5. \A k \in 0 .. Len(pos) : k \in S
  BY <1>3, <1>4, UpTo
<1> QED BY <1>5 DEF S, v, w

\* A way stays in its heap.
LEMMA WayIn ==
  ASSUME NEW h, IsHeap(h), NEW n \in DOMAIN h \cup {0}, NEW pos, Len(pos) \in Nat
  PROVE  /\ \A k \in 0 .. Len(pos) : Way(h, n, pos)[k] \in DOMAIN h \cup {0}
         /\ At(h, n, pos) \in DOMAIN h \cup {0}
<1> DEFINE R == {<<a, a>> : a \in DOMAIN h \cup {0}}
<1>1. \A x \in R : \A k : <<Kid(h, x[1], k), Kid(h, x[2], k)>> \in R
  BY HeapFacts DEF Kid
<1>2. <<n, n>> \in R
  OBVIOUS
<1>3. \A k \in 0 .. Len(pos) : <<Way(h, n, pos)[k], Way(h, n, pos)[k]>> \in R
  <2> DEFINE Avoided == {}
  <2>1. \A x \in R : \A k : x[1] \notin Avoided /\ Kid(h, x[1], k) \notin Avoided
                             => <<Kid(h, x[1], k), Kid(h, x[2], k)>> \in R
    BY <1>1
  <2>2. \A k \in 0 .. Len(pos) : Way(h, n, pos)[k] \notin Avoided
    OBVIOUS
  <2> HIDE DEF R, Avoided
  <2> QED BY <1>2, <2>1, <2>2, SideBySide
<1> QED BY <1>3 DEF At
(***************************************************************************)
(* The loaded file, and the paths to its points.                           *)
(***************************************************************************)
\* A node has another one in one of its slots, both loaded.
Holds(n, m) == \E k \in DOMAIN Loaded[n].slots : Loaded[n].slots[k].kid = m

LEMMA LoadedFacts ==
  /\ IsHeap(Loaded) /\ Len(Loaded) \in Nat \ {0} /\ DOMAIN Loaded = 1 .. Len(Loaded)
  /\ 1 \in DOMAIN Loaded /\ \A n \in DOMAIN Loaded : n # 0 /\ n \in Nat
  /\ \A n \in DOMAIN Loaded : \A m : Holds(n, m) => m \in DOMAIN Loaded /\ n < m
<1>1. Len(Loaded) \in Nat /\ DOMAIN Loaded = 1 .. Len(Loaded) /\ Loaded # <<>> /\ Loaded \in Seq(Node)
  BY HeapFacts, LoadedAssumption DEF IsHeap
<1>2. Len(Loaded) # 0
  BY <1>1
<1>3. \A n \in DOMAIN Loaded : \A m : Holds(n, m) => m \in DOMAIN Loaded
  BY HeapFacts, LoadedAssumption DEF Holds
<1>4. \A n \in DOMAIN Loaded : \A m : Holds(n, m) => n < m
  <2> SUFFICES ASSUME NEW n \in DOMAIN Loaded, NEW k \in DOMAIN Loaded[n].slots
               PROVE  n < Loaded[n].slots[k].kid
    BY DEF Holds
  <2>1. Loaded[n].slots[k].kid > n
    BY LoadedAssumption
  <2>2. Loaded[n].slots[k].kid \in Nat /\ n \in Nat
    BY <1>1, HeapFacts, LoadedAssumption
  <2> QED BY <2>1, <2>2
<1> QED BY <1>1, <1>2, <1>3, <1>4, LoadedAssumption

IsPath(p) == p \in Seq(DOMAIN Loaded) /\ p # <<>> /\ p[1] = 1

\* A way that does not end at 0 has not come to 0.
LEMMA WayNotZero ==
  ASSUME NEW h, NEW n, NEW pos, Len(pos) \in Nat, At(h, n, pos) # 0
  PROVE  \A k \in 0 .. Len(pos) : Way(h, n, pos)[k] # 0
<1> DEFINE v == Way(h, n, pos)
           S == {i \in 0 .. Len(pos) : v[Len(pos) - i] # 0}
<1>1. \A k \in 1 .. Len(pos) : v[k] = Kid(h, v[k - 1], pos[k])
  BY WayFacts
<1>2. v[Len(pos)] # 0
  BY DEF At
<1> HIDE DEF v
<1>3. 0 \in S
  BY <1>2
<1>4. \A i \in 1 .. Len(pos) : i - 1 \in S => i \in S
  <2> SUFFICES ASSUME NEW i \in 1 .. Len(pos), v[Len(pos) - (i - 1)] # 0 PROVE v[Len(pos) - i] # 0
    OBVIOUS
  <2>1. Len(pos) - (i - 1) \in 1 .. Len(pos) /\ (Len(pos) - (i - 1)) - 1 = Len(pos) - i
    OBVIOUS
  <2> QED BY <1>1, <2>1 DEF Kid
<1> HIDE DEF S
<1>5. \A i \in 0 .. Len(pos) : i \in S
  BY <1>3, <1>4, UpTo
<1>6. \A k \in 0 .. Len(pos) : Len(pos) - k \in 0 .. Len(pos) /\ Len(pos) - (Len(pos) - k) = k
  OBVIOUS
<1> QED BY <1>5, <1>6 DEF S, v

LEMMA PositionFacts == \A pos \in Positions : pos \in Seq(Nat) /\ Len(pos) \in Nat
BY PositionsAssumption

\* The path to a point.
LEMMA PointPath ==
  ASSUME NEW pos \in Points
  PROVE  /\ IsPath(PathTo(pos)) /\ PathTo(pos)[Len(PathTo(pos))] = LoadedAt[pos]
         /\ LoadedAt[pos] \in DOMAIN Loaded
<1> DEFINE v == Way(Loaded, 1, pos)
           p == PathTo(pos)
<1>1. pos \in Positions /\ Len(pos) \in Nat /\ LoadedAt[pos] # 0
  BY PositionFacts DEF Points
<1>2. LoadedAt[pos] = At(Loaded, 1, pos) /\ LoadedWay[pos] = v /\ At(Loaded, 1, pos) = v[Len(pos)]
  BY <1>1 DEF LoadedAt, LoadedWay, At
<1>3. v[0] = 1 /\ DOMAIN v = 0 .. Len(pos)
  BY <1>1, WayFacts
<1>4. \A k \in 0 .. Len(pos) : v[k] \in DOMAIN Loaded \cup {0}
  BY <1>1, WayIn, LoadedFacts
<1>5. \A k \in 0 .. Len(pos) : v[k] # 0
  BY <1>1, <1>2, WayNotZero
<1> HIDE DEF v
<1>6. p = [k \in 1 .. Len(pos) + 1 |-> v[k - 1]]
  BY <1>2 DEF PathTo
<1> HIDE DEF p
<1>7. \A k \in 1 .. Len(pos) + 1 : k - 1 \in 0 .. Len(pos) /\ v[k - 1] \in DOMAIN Loaded
  BY <1>1, <1>4, <1>5
<1>8. p \in Seq(DOMAIN Loaded) /\ Len(p) = Len(pos) + 1 /\ DOMAIN p = 1 .. Len(pos) + 1
  BY <1>1, <1>6, <1>7
<1>9. p[1] = 1 /\ p[Len(p)] = v[Len(pos)]
  BY <1>1, <1>3, <1>6, <1>8
<1>10. IsPath(p)
  BY <1>1, <1>8, <1>9 DEF IsPath
<1>11. v[Len(pos)] \in DOMAIN Loaded
  BY <1>1, <1>4, <1>5
<1> QED BY <1>2, <1>8, <1>9, <1>10, <1>11 DEF p

-----------------------------------------------------------------------------
(***************************************************************************)
(* Originals, and children replaced.                                       *)
(***************************************************************************)
\* A chain of originals with one link ends there.
LEMMA OriginalIs ==
  ASSUME TypeOK, NEW n, NEW m, <<n, m>> \in origin,
         \A p \in origin : p[1] = n => p[2] = m, \A p \in origin : p[1] # m
  PROVE  Original(n) = m
<1> DEFINE N == Cardinality(origin)
           IsFound(f) == f = [k \in 0 .. N |-> IF k = 0 THEN n ELSE OriginalOf(f[k - 1])]
           found == CHOOSE f : IsFound(f)
<1>1. N \in Nat /\ N # 0
  <2>1. IsFiniteSet(DOMAIN heap)
    BY HeapFacts, FS_Interval DEF TypeOK
  <2>2. IsFiniteSet((DOMAIN heap) \X (DOMAIN heap))
    BY <2>1, FS_Product
  <2>3. IsFiniteSet(origin)
    BY <2>2, FS_Subset DEF TypeOK
  <2> QED BY <2>3, FS_CardinalityType, FS_EmptySet
<1>2. Original(n) = found[N]
  BY DEF Original
<1>3. OriginalsOf(n) = {m} /\ OriginalsOf(m) = {}
  <2>1. \A p \in origin : p[1] = n => p[2] = m
    OBVIOUS
  <2>2. <<n, m>>[1] = n /\ <<n, m>>[2] = m
    OBVIOUS
  <2> QED BY <2>1, <2>2 DEF OriginalsOf
<1>4. OriginalOf(n) = m /\ OriginalOf(m) = m
  BY <1>3 DEF OriginalOf
<1> HIDE DEF N
<1>5. IsFound(found)
  <2> DEFINE f == [k \in 0 .. N |-> IF k = 0 THEN n ELSE m]
  <2>1. \A k \in 0 .. N : f[k] = IF k = 0 THEN n ELSE OriginalOf(f[k - 1])
    <3> TAKE k \in 0 .. N
    <3>1. k # 0 => k - 1 \in 0 .. N
      BY <1>1
    <3>2. k # 0 => f[k - 1] = n \/ f[k - 1] = m
      BY <3>1
    <3> QED BY <3>2, <1>4
  <2>2. f = [k \in 0 .. N |-> f[k]]
    OBVIOUS
  <2> HIDE DEF f
  <2>3. IsFound(f)
    BY <2>1, <2>2
  <2> QED BY <2>3
<1>6. /\ found[0] = n
      /\ \A k \in 1 .. N : found[k] = OriginalOf(found[k - 1])
  <2>1. \A k \in 0 .. N : found[k] = IF k = 0 THEN n ELSE OriginalOf(found[k - 1])
    <3> HIDE DEF found
    <3> QED BY <1>5
  <2> HIDE DEF found
  <2> QED BY <2>1, <1>1
<1> HIDE DEF found
<1> DEFINE S == {k \in 0 .. N : k = 0 \/ found[k] = m}
<1>7. \A k \in 1 .. N : k - 1 \in S => k \in S
  <2> SUFFICES ASSUME NEW k \in 1 .. N, k - 1 = 0 \/ found[k - 1] = m PROVE found[k] = m
    BY <1>1
  <2> QED BY <1>1, <1>4, <1>6
<1>8. 0 \in S
  BY <1>1
<1> HIDE DEF S
<1>9. \A k \in 0 .. N : k \in S
  BY <1>1, <1>7, <1>8, UpTo
<1>10. found[N] = m
  BY <1>1, <1>9 DEF S
<1> QED BY <1>2, <1>10

\* A child is replaced in the first slot that had it and takes the new one.
LEMMA Replaced ==
  ASSUME NEW h, IsHeap(h), NEW parent \in DOMAIN h, NEW old, NEW new \in DOMAIN h,
         Slots(h, parent, old, new) # {}
  PROVE  \E k \in DOMAIN h[parent].slots :
             /\ h[parent].slots[k].kid = old
             /\ h[new].kind \in Assignable[h[parent].slots[k].type]
             /\ \A j \in Slots(h, parent, old, new) : k =< j
             /\ ReplaceChild(h, parent, old, new) = SetKid(h, parent, k, new)
<1> DEFINE S == Slots(h, parent, old, new)
           first == CHOOSE k \in S : \A j \in S : k =< j
<1>1. S \subseteq DOMAIN h[parent].slots
  BY DEF Slots
<1>2. DOMAIN h[parent].slots \subseteq Nat
  BY HeapFacts
<1> HIDE DEF S
<1>3. \E k \in S : \A j \in S : k =< j
  BY <1>1, <1>2, LeastOf DEF S
<1>4. first \in S /\ \A j \in S : first =< j
  BY <1>3
<1>5. ReplaceChild(h, parent, old, new) = SetKid(h, parent, first, new)
  BY DEF ReplaceChild, S
<1> HIDE DEF first
<1>6. /\ first \in DOMAIN h[parent].slots
      /\ h[parent].slots[first].kid = old
      /\ h[new].kind \in Assignable[h[parent].slots[first].type]
  BY <1>4 DEF S, Slots, Matches
<1> QED BY <1>4, <1>5, <1>6 DEF S

-----------------------------------------------------------------------------
(***************************************************************************)
(* Spines, and their copies.                                               *)
(***************************************************************************)
\* The slot in which a node of a spine holds the next one.
SlotOf(h, n) == SlotToName(h[n])

IsSpine(h, s) ==
    /\ Len(s) \in 2 .. 4 /\ s \in [1 .. Len(s) -> DOMAIN h]
    /\ \A k \in 1 .. Len(s) - 1 :
           /\ SlotOf(h, s[k]) \in DOMAIN h[s[k]].slots
           /\ h[s[k]].slots[SlotOf(h, s[k])].kid = s[k + 1]

LEMMA UnderIn ==
  ASSUME NEW h, IsHeap(h), NEW n \in DOMAIN h \cup {0}
  PROVE  /\ Under(h, n) \in DOMAIN h \cup {0}
         /\ Under(h, n) # 0 => /\ n \in DOMAIN h /\ SlotOf(h, n) \in DOMAIN h[n].slots
                               /\ h[n].slots[SlotOf(h, n)].kid = Under(h, n)
BY HeapFacts DEF Under, Kid, SlotOf

LEMMA SpineFacts ==
  ASSUME NEW h, IsHeap(h), NEW call \in DOMAIN h, NEW s \in Spines(h, call)
  PROVE  IsSpine(h, s) /\ s[1] = call /\ Last(s) = s[Len(s)]
<1> DEFINE a == Under(h, call)
           b == Under(h, a)
           c == Under(h, b)
<1>1. s = <<call, a>> \/ s = <<call, a, b>> \/ s = <<call, a, b, c>>
  BY DEF Spines
<1>2. \A k \in DOMAIN s : s[k] # 0
  BY DEF Spines
<1>3. a \in DOMAIN h \cup {0} /\ b \in DOMAIN h \cup {0} /\ c \in DOMAIN h \cup {0}
  BY UnderIn
<1>4. /\ a # 0 => SlotOf(h, call) \in DOMAIN h[call].slots /\ h[call].slots[SlotOf(h, call)].kid = a
      /\ b # 0 => SlotOf(h, a) \in DOMAIN h[a].slots /\ h[a].slots[SlotOf(h, a)].kid = b
      /\ c # 0 => SlotOf(h, b) \in DOMAIN h[b].slots /\ h[b].slots[SlotOf(h, b)].kid = c
  BY <1>3, UnderIn
<1> HIDE DEF a, b, c
<1>5. CASE s = <<call, a>>
  BY <1>2, <1>3, <1>4, <1>5 DEF IsSpine, Last
<1>6. CASE s = <<call, a, b>>
  BY <1>2, <1>3, <1>4, <1>6 DEF IsSpine, Last
<1>7. CASE s = <<call, a, b, c>>
  BY <1>2, <1>3, <1>4, <1>7 DEF IsSpine, Last
<1> QED BY <1>1, <1>5, <1>6, <1>7

LEMMA NodeFacts ==
  ASSUME NEW node \in Node, NEW i \in DOMAIN node.slots, NEW kid \in Nat,
         NEW new, new = [node EXCEPT !.slots[i].kid = kid]
  PROVE  /\ new \in Node /\ new.kind = node.kind /\ new.tag = node.tag
         /\ DOMAIN new.slots = DOMAIN node.slots
         /\ new.slots[i].kid = kid /\ new.slots[i].type = node.slots[i].type
         /\ \A j \in DOMAIN node.slots : j # i => new.slots[j] = node.slots[j]
<1>1. node.slots \in Seq(Slot) /\ node.slots[i] \in Slot
  <2>1. node.slots \in Seq(Slot)
    BY DEF Node, Slot
  <2> QED BY <2>1
<1> DEFINE slot == [node.slots[i] EXCEPT !.kid = kid]
           slots == [node.slots EXCEPT ![i] = slot]
<1>2. slot \in Slot /\ slot.kid = kid /\ slot.type = node.slots[i].type
  BY <1>1 DEF Slot
<1> HIDE DEF slot
<1>3. /\ slots \in Seq(Slot) /\ DOMAIN slots = DOMAIN node.slots /\ slots[i] = slot
      /\ \A j \in DOMAIN node.slots : j # i => slots[j] = node.slots[j]
  BY <1>1, <1>2
<1>4. new = [node EXCEPT !.slots = slots]
  BY DEF slot
<1> HIDE DEF slots
<1>5. new \in Node /\ new.kind = node.kind /\ new.tag = node.tag /\ new.slots = slots
  BY <1>3, <1>4 DEF Node, Slot
<1> QED BY <1>2, <1>3, <1>5

\* The copy of a spine is a spine of its own with another name at its end.
SpineAdded(g, s) ==
    /\ IsHeap(g) /\ Len(g) = Len(heap) + Len(s)
    /\ \A n \in DOMAIN heap : n \in DOMAIN g /\ g[n] = heap[n]
    /\ \A k \in 1 .. Len(s) :
          /\ Len(heap) + k \in DOMAIN g
          /\ g[Len(heap) + k].kind = heap[s[k]].kind
          /\ DOMAIN g[Len(heap) + k].slots = DOMAIN heap[s[k]].slots
          /\ g[Len(heap) + k].tag = IF k = Len(s) THEN To ELSE heap[s[k]].tag
          /\ \A j \in DOMAIN heap[s[k]].slots :
                g[Len(heap) + k].slots[j].kid =
                    IF k < Len(s) /\ j = SlotOf(heap, s[k]) THEN Len(heap) + (k + 1)
                    ELSE heap[s[k]].slots[j].kid

LEMMA SpineCopied ==
  ASSUME IsHeap(heap), NEW s, IsSpine(heap, s), NEW g, g = heap \o Renamed(s)
  PROVE  SpineAdded(g, s)
<1> DEFINE r == Renamed(s)
           L == Len(heap)
<1>1. /\ L \in Nat /\ DOMAIN heap = 1 .. L /\ Len(s) \in 2 .. 4 /\ DOMAIN s = 1 .. Len(s)
      /\ \A k \in 1 .. Len(s) : s[k] \in DOMAIN heap /\ heap[s[k]] \in Node
  BY HeapFacts DEF IsSpine
<1>0. /\ L = Len(heap) /\ L \in Nat /\ DOMAIN heap = 1 .. L /\ Len(s) \in Nat
      /\ \A k \in 1 .. Len(s) :
             k # Len(s) => /\ k \in 1 .. Len(s) - 1 /\ k < Len(s) /\ k + 1 \in 1 .. Len(s)
                           /\ L + (k + 1) \in Nat /\ L + 1 + k = L + (k + 1)
  <2>1. L \in Nat /\ DOMAIN heap = 1 .. L /\ Len(s) \in Nat
    BY <1>1
  <2> HIDE DEF L
  <2>2. \A k \in 1 .. Len(s) :
             k # Len(s) => /\ k \in 1 .. Len(s) - 1 /\ k < Len(s) /\ k + 1 \in 1 .. Len(s)
                           /\ L + (k + 1) \in Nat /\ L + 1 + k = L + (k + 1)
    BY <2>1
  <2> QED BY <2>1, <2>2 DEF L
<1>2. \A k \in 1 .. Len(s) :
          r[k] = IF k = Len(s) THEN [heap[s[k]] EXCEPT !.tag = To]
                 ELSE [heap[s[k]] EXCEPT !.slots[SlotOf(heap, s[k])].kid = L + 1 + k]
  BY <1>1 DEF Renamed, SlotOf, Fresh
<1>3. DOMAIN r = 1 .. Len(s) /\ r = [k \in 1 .. Len(s) |-> r[k]]
  BY <1>1 DEF Renamed
<1> HIDE DEF r, L
<1>4. \A k \in 1 .. Len(s) :
          /\ r[k] \in Node /\ r[k].kind = heap[s[k]].kind
          /\ DOMAIN r[k].slots = DOMAIN heap[s[k]].slots
          /\ r[k].tag = IF k = Len(s) THEN To ELSE heap[s[k]].tag
          /\ \A j \in DOMAIN heap[s[k]].slots :
                /\ r[k].slots[j].type = heap[s[k]].slots[j].type
                /\ r[k].slots[j].kid = IF k < Len(s) /\ j = SlotOf(heap, s[k]) THEN L + (k + 1)
                                       ELSE heap[s[k]].slots[j].kid
  <2> TAKE k \in 1 .. Len(s)
  <2>1. CASE k = Len(s)
    <3>1. r[k] = [heap[s[k]] EXCEPT !.tag = To]
      BY <1>2, <2>1
    <3>2. r[k] \in Node /\ r[k].kind = heap[s[k]].kind /\ r[k].slots = heap[s[k]].slots /\ r[k].tag = To
      BY <3>1, <1>1 DEF Node, Tags
    <3> QED BY <3>2, <2>1
  <2>2. CASE k # Len(s)
    <3> DEFINE i == SlotOf(heap, s[k])
    <3>1. r[k] = [heap[s[k]] EXCEPT !.slots[i].kid = L + (k + 1)] /\ k < Len(s)
      <4>1. L + 1 + k = L + (k + 1) /\ k < Len(s)
        BY <1>0, <2>2
      <4> QED BY <1>2, <2>2, <4>1
    <3>2. i \in DOMAIN heap[s[k]].slots
      <4>1. k \in 1 .. Len(s) - 1
        BY <1>0, <2>2
      <4> QED BY <4>1 DEF IsSpine
    <3> HIDE DEF i
    <3>3. /\ r[k] \in Node /\ r[k].kind = heap[s[k]].kind /\ r[k].tag = heap[s[k]].tag
          /\ DOMAIN r[k].slots = DOMAIN heap[s[k]].slots
          /\ r[k].slots[i].kid = L + (k + 1) /\ r[k].slots[i].type = heap[s[k]].slots[i].type
          /\ \A j \in DOMAIN heap[s[k]].slots : j # i => r[k].slots[j] = heap[s[k]].slots[j]
      <4>1. L + (k + 1) \in Nat /\ heap[s[k]] \in Node
        BY <1>0, <1>1, <2>2
      <4> DEFINE kid == L + (k + 1)
                 node == heap[s[k]]
      <4>2. node \in Node /\ i \in DOMAIN node.slots /\ kid \in Nat
            /\ r[k] = [node EXCEPT !.slots[i].kid = kid]
        BY <3>1, <3>2, <4>1
      <4> HIDE DEF kid, node
      <4>3. /\ r[k] \in Node /\ r[k].kind = node.kind /\ r[k].tag = node.tag
            /\ DOMAIN r[k].slots = DOMAIN node.slots
            /\ r[k].slots[i].kid = kid /\ r[k].slots[i].type = node.slots[i].type
            /\ \A j \in DOMAIN node.slots : j # i => r[k].slots[j] = node.slots[j]
        BY <4>2, NodeFacts
      <4> QED BY <4>3 DEF kid, node
    <3>4. \A j \in DOMAIN heap[s[k]].slots :
             /\ r[k].slots[j].type = heap[s[k]].slots[j].type
             /\ r[k].slots[j].kid = IF j = i THEN L + (k + 1) ELSE heap[s[k]].slots[j].kid
      BY <3>3
    <3> QED BY <3>1, <3>3, <3>4, <2>2 DEF i
  <2> QED BY ONLY <2>1, <2>2
<1>5. r \in Seq(Node) /\ Len(r) = Len(s)
  <2>1. \A k \in 1 .. Len(s) : r[k] \in Node
    BY <1>4
  <2> QED BY <1>0, <1>3, <2>1
<1>6. heap \in Seq(Node)
  BY DEF IsHeap
<1>7. /\ g \in Seq(Node) /\ Len(g) = L + Len(s) /\ DOMAIN g = 1 .. L + Len(s)
      /\ \A n \in 1 .. L : g[n] = heap[n]
      /\ \A k \in 1 .. Len(s) : g[L + k] = r[k]
  <2>1. g = heap \o r
    BY DEF r
  <2>2. /\ g \in Seq(Node) /\ Len(g) = Len(heap) + Len(r)
        /\ \A n \in 1 .. Len(heap) + Len(r) : g[n] = IF n =< Len(heap) THEN heap[n] ELSE r[n - Len(heap)]
    <3>1. r \in Seq(Node)
      BY <1>5
    <3>2. /\ heap \o r \in Seq(Node) /\ Len(heap \o r) = Len(heap) + Len(r)
          /\ \A n \in 1 .. Len(heap) + Len(r) :
                 (heap \o r)[n] = IF n =< Len(heap) THEN heap[n] ELSE r[n - Len(heap)]
      BY ONLY <3>1, <1>6, ConcatProperties, Zenon
    <3> QED BY <2>1, <3>2
  <2>3. Len(g) = L + Len(s) /\ DOMAIN g = 1 .. L + Len(s)
    BY <1>0, <1>5, <2>2
  <2>4. \A n \in 1 .. L + Len(s) : g[n] = IF n =< L THEN heap[n] ELSE r[n - L]
    BY <1>0, <1>5, <2>2
  <2>5. \A n \in 1 .. L : n \in 1 .. L + Len(s) /\ n =< L
    BY <1>0
  <2>6. \A k \in 1 .. Len(s) : L + k \in 1 .. L + Len(s) /\ ~(L + k =< L) /\ (L + k) - L = k
    BY <1>0
  <2> QED BY <2>2, <2>3, <2>4, <2>5, <2>6
<1>8. \A n \in DOMAIN heap : n \in DOMAIN g /\ g[n] = heap[n]
  BY <1>0, <1>7
<1>9. \A k \in 1 .. Len(s) : L + k \in DOMAIN g
  BY <1>0, <1>7
<1>10. \A n \in DOMAIN g : n \in DOMAIN heap \/ \E k \in 1 .. Len(s) : n = L + k
  <2> TAKE n \in DOMAIN g
  <2>1. n \in 1 .. L \/ (n - L \in 1 .. Len(s) /\ n = L + (n - L))
    BY <1>0, <1>7
  <2> QED BY <2>1, <1>0
<1>11. \A n \in DOMAIN g : \A j \in DOMAIN g[n].slots :
           g[n].slots[j].kid \in DOMAIN g /\ g[g[n].slots[j].kid].kind \in Assignable[g[n].slots[j].type]
  <2> SUFFICES ASSUME NEW n \in DOMAIN g, NEW j \in DOMAIN g[n].slots
               PROVE  g[n].slots[j].kid \in DOMAIN g /\ g[g[n].slots[j].kid].kind \in Assignable[g[n].slots[j].type]
    OBVIOUS
  <2>1. CASE n \in DOMAIN heap
    BY <2>1, <1>8, HeapFacts
  <2>2. ASSUME NEW k \in 1 .. Len(s), n = L + k
        PROVE  g[n].slots[j].kid \in DOMAIN g /\ g[g[n].slots[j].kid].kind \in Assignable[g[n].slots[j].type]
    <3>1. g[n] = r[k] /\ j \in DOMAIN heap[s[k]].slots
      BY <2>2, <1>4, <1>7
    <3>2. /\ heap[s[k]].slots[j].kid \in DOMAIN heap
          /\ heap[heap[s[k]].slots[j].kid].kind \in Assignable[heap[s[k]].slots[j].type]
      BY <3>1, <1>1, HeapFacts
    <3>3. CASE k < Len(s) /\ j = SlotOf(heap, s[k])
      <4>0. k # Len(s)
        <5>1. \A i, m : i \in 1 .. m /\ i < m => i # m
          OBVIOUS
        <5> QED BY ONLY <5>1, <3>3, k \in 1 .. Len(s)
      <4>1. /\ k \in 1 .. Len(s) - 1 /\ k + 1 \in 1 .. Len(s)
            /\ g[n].slots[j].kid = L + (k + 1)
        <5>1. k \in 1 .. Len(s) - 1 /\ k + 1 \in 1 .. Len(s)
          BY ONLY <4>0, <1>0, k \in 1 .. Len(s)
        <5>2. r[k].slots[j].kid = IF k < Len(s) /\ j = SlotOf(heap, s[k]) THEN L + (k + 1)
                                  ELSE heap[s[k]].slots[j].kid
          BY <3>1, <1>4
        <5>3. r[k].slots[j].kid = L + (k + 1)
          BY ONLY <5>2, <3>3
        <5> QED BY ONLY <5>1, <5>3, <3>1
      <4>2. g[L + (k + 1)].kind = heap[s[k + 1]].kind /\ L + (k + 1) \in DOMAIN g
        BY <4>1, <1>4, <1>7, <1>9
      <4>3. heap[s[k]].slots[j].kid = s[k + 1]
        <5>1. heap[s[k]].slots[SlotOf(heap, s[k])].kid = s[k + 1]
          BY <4>1 DEF IsSpine
        <5> QED BY ONLY <5>1, <3>3
      <4>4. g[n].slots[j].type = heap[s[k]].slots[j].type
        BY <3>1, <1>4
      <4> QED BY <3>2, <4>1, <4>2, <4>3, <4>4
    <3>4. CASE ~(k < Len(s) /\ j = SlotOf(heap, s[k]))
      <4>1. g[n].slots[j].kid = heap[s[k]].slots[j].kid /\ g[n].slots[j].type = heap[s[k]].slots[j].type
        BY <3>1, <3>4, <1>4
      <4> QED BY <3>2, <4>1, <1>8
    <3> QED BY <3>3, <3>4
  <2> QED BY <2>1, <2>2, <1>10
<1>12. IsHeap(g)
  BY <1>7, <1>11 DEF IsHeap
<1>13. \A k \in 1 .. Len(s) :
           /\ L + k \in DOMAIN g
           /\ g[L + k].kind = heap[s[k]].kind
           /\ DOMAIN g[L + k].slots = DOMAIN heap[s[k]].slots
           /\ g[L + k].tag = IF k = Len(s) THEN To ELSE heap[s[k]].tag
           /\ \A j \in DOMAIN heap[s[k]].slots :
                 g[L + k].slots[j].kid = IF k < Len(s) /\ j = SlotOf(heap, s[k]) THEN L + (k + 1)
                                         ELSE heap[s[k]].slots[j].kid
  <2> TAKE k \in 1 .. Len(s)
  <2>1. g[L + k] = r[k] /\ L + k \in DOMAIN g
    BY <1>7, <1>9
  <2> QED BY <2>1, <1>4
<1> QED BY <1>7, <1>8, <1>12, <1>13 DEF L, SpineAdded

-----------------------------------------------------------------------------
(***************************************************************************)
(* What is kept of the loaded file, and what the phases have done.         *)
(***************************************************************************)
LoadedKept ==
    \A n \in DOMAIN Loaded :
        /\ n \in DOMAIN heap /\ heap[n].kind = Loaded[n].kind /\ heap[n].slots = Loaded[n].slots
        /\ ~EditsShared => heap[n] = Loaded[n]

PhaseInv ==
    /\ IsPath(path)
    /\ phase # "deep" => todo = {}
    /\ phase = "deep" => deep
    /\ phase # "next" => Len(built) < attempts
    /\ phase = "callback" => input \in DOMAIN heap \ DOMAIN Loaded
    /\ phase = "clone" => /\ level \in 1 .. Len(path) /\ child.orig = path[level]
                          /\ child.clone \in DOMAIN heap

\* A copy: each of its slots holds what the original's holds, or a copy of that.
IsCopy(c, n) ==
    /\ c \in DOMAIN heap \ DOMAIN Loaded /\ n \in DOMAIN Loaded
    /\ heap[c].kind = heap[n].kind /\ heap[c].tag = heap[n].tag
    /\ DOMAIN heap[c].slots = DOMAIN Loaded[n].slots
    /\ \A k \in DOMAIN Loaded[n].slots :
           \/ heap[c].slots[k].kid = Loaded[n].slots[k].kid
           \/ <<heap[c].slots[k].kid, Loaded[n].slots[k].kid>> \in origin

\* The slots of node n that hold node m; those of them that ast.Walk goes into,
\* those that it has yet to go into, and those of n's copy that hold m's.
Same(n, m) == {k \in DOMAIN Loaded[n].slots : Loaded[n].slots[k].kid = m}
Walked(n, m) == {k \in Same(n, m) : IsWalked(Loaded[n].slots[k])}
Due(n, m) == {k \in Same(n, m) : <<n, k, m>> \in todo}
Filled(c, n, m) == {k \in Same(n, m) : heap[c].slots[k].kid # m}

\* The first are filled, as many as the walk has gone into.
InOrder(c, n, m) ==
    /\ \A k \in Filled(c, n, m) : \A j \in Same(n, m) : j < k => j \in Filled(c, n, m)
    /\ Cardinality(Filled(c, n, m)) + Cardinality(Due(n, m)) = Cardinality(Walked(n, m))

Copying ==
    /\ \A p \in origin : IsCopy(p[1], p[2]) /\ \A m \in DOMAIN Loaded : InOrder(p[1], p[2], m)
    /\ \A p, q \in origin : p[1] = q[1] \/ p[2] = q[2] => p = q
    /\ IF origin = {} THEN input = 0 /\ todo = {<<0, 0, Point>>}
       ELSE /\ <<input, Point>> \in origin
            /\ \A v \in todo : v[1] \in DOMAIN Loaded /\ Cloned(v[1]) /\ v[2] \in Same(v[1], v[3])

DeepInv == deep /\ phase \in {"deep", "callback"} => Copying

ShallowInv ==
    ~deep /\ phase = "callback" => heap[input] = heap[Point] /\ origin = {<<input, Point>>}

LEMMA PointFacts ==
  ASSUME IsPath(path)
  PROVE  /\ Len(path) \in Nat \ {0} /\ DOMAIN path = 1 .. Len(path) /\ Len(path) \in DOMAIN path
         /\ \A i \in DOMAIN path : path[i] \in DOMAIN Loaded
         /\ Point \in DOMAIN Loaded
BY DEF IsPath, Point

LEMMA HeapHere ==
  ASSUME TypeOK
  PROVE  /\ IsHeap(heap) /\ Len(heap) \in Nat /\ DOMAIN heap = 1 .. Len(heap)
         /\ Fresh = Len(heap) + 1 /\ Fresh \notin DOMAIN heap
         /\ \A n \in DOMAIN heap : n # 0 /\ heap[n] \in Node
BY HeapFacts DEF TypeOK, Fresh

\* A node is copied.
LEMMA CopyMade ==
  ASSUME TypeOK, NEW n \in DOMAIN heap
  PROVE  /\ IsHeap(ShallowCopy(heap, n)) /\ Len(ShallowCopy(heap, n)) = Len(heap) + 1
         /\ Fresh \in DOMAIN ShallowCopy(heap, n) /\ ShallowCopy(heap, n)[Fresh] = heap[n]
         /\ \A m \in DOMAIN heap : m \in DOMAIN ShallowCopy(heap, n) /\ ShallowCopy(heap, n)[m] = heap[m]
<1>1. /\ IsHeap(Append(heap, heap[n])) /\ Len(Append(heap, heap[n])) = Len(heap) + 1
      /\ Append(heap, heap[n])[Len(heap) + 1] = heap[n]
      /\ \A m \in DOMAIN heap : m \in DOMAIN Append(heap, heap[n]) /\ Append(heap, heap[n])[m] = heap[m]
  BY HeapHere, HeapFacts, AppendHeap
<1>2. Fresh \in DOMAIN Append(heap, heap[n])
  BY <1>1, HeapHere, HeapFacts
<1> QED BY <1>1, <1>2, HeapHere DEF ShallowCopy

-----------------------------------------------------------------------------
(***************************************************************************)
(* DeepCopyNode's slots.                                                   *)
(***************************************************************************)
LEMMA SlotSets ==
  ASSUME NEW n \in DOMAIN Loaded, NEW m
  PROVE  /\ Same(n, m) \subseteq Nat
         /\ \A S : S \subseteq Same(n, m) => IsFiniteSet(S) /\ Cardinality(S) \in Nat
<1>1. Len(Loaded[n].slots) \in Nat /\ DOMAIN Loaded[n].slots = 1 .. Len(Loaded[n].slots)
  BY LoadedFacts, HeapFacts
<1>2. IsFiniteSet(DOMAIN Loaded[n].slots)
  BY <1>1, FS_Interval
<1>3. Same(n, m) \subseteq DOMAIN Loaded[n].slots
  BY DEF Same
<1>4. \A S : S \subseteq Same(n, m) => IsFiniteSet(S) /\ Cardinality(S) \in Nat
  BY <1>2, <1>3, FS_Subset, FS_CardinalityType
<1> QED BY <1>1, <1>3, <1>4

\* When all the walked slots have been gone into, IsFilled says which are filled.
LEMMA FilledAtLast ==
  ASSUME NEW n \in DOMAIN Loaded, NEW k \in DOMAIN Loaded[n].slots,
         NEW c, NEW m, m = Loaded[n].slots[k].kid, InOrder(c, n, m), todo = {}
  PROVE  k \in Filled(c, n, m) <=> IsFilled(n, k)
<1> DEFINE S == Same(n, m)
           D == Filled(c, n, m)
           B == {j \in S : j < k}
<1>1. k \in S /\ D \subseteq S /\ B \subseteq S /\ S \subseteq Nat
  BY SlotSets DEF Same, Filled
<1>2. /\ IsFiniteSet(D) /\ IsFiniteSet(B)
      /\ Cardinality(D) \in Nat /\ Cardinality(B) \in Nat
      /\ Cardinality(Walked(n, m)) \in Nat
  <2>1. Walked(n, m) \subseteq S
    BY DEF Walked
  <2> QED BY <1>1, <2>1, SlotSets
<1>3. Cardinality(D) = Cardinality(Walked(n, m))
  <2>1. Due(n, m) = {}
    BY DEF Due
  <2> QED BY <1>2, <2>1, FS_EmptySet DEF InOrder
<1>4. IsFilled(n, k) <=> Cardinality(B) < Cardinality(D)
  <2>1. Walked(n, m) = {j \in S : IsWalked(Loaded[n].slots[j])}
    BY DEF Walked
  <2>2. S = {j \in DOMAIN Loaded[n].slots : Loaded[n].slots[j].kid = Loaded[n].slots[k].kid}
    BY DEF Same
  <2> QED BY <1>3, <2>1, <2>2 DEF IsFilled
<1>5. \A d \in D : \A j \in S : j < d => j \in D
  BY DEF InOrder
<1> HIDE DEF S, D
<1>6. CASE k \in D
  <2>0. \A j \in S : j < k => j \in D
    BY <1>5, <1>6
  <2>1. B \subseteq D /\ k \notin B
    <3>1. k \in Nat
      BY <1>1
    <3>2. ~(k < k)
      BY <3>1
    <3> QED BY <2>0, <3>2
  <2>2. Cardinality(B) =< Cardinality(D) /\ (Cardinality(D) = Cardinality(B) => D = B)
    BY <1>2, <2>1, FS_Subset
  <2>3. Cardinality(B) < Cardinality(D)
    BY <1>2, <1>6, <2>1, <2>2
  <2> QED BY <1>4, <1>6, <2>3 DEF D
<1>7. CASE k \notin D
  <2>1. D \subseteq B
    BY <1>1, <1>5, <1>7
  <2>2. Cardinality(D) =< Cardinality(B)
    BY <1>2, <2>1, FS_Subset
  <2>3. ~(Cardinality(B) < Cardinality(D))
    BY <1>2, <2>2
  <2> QED BY <1>4, <1>7, <2>3 DEF D
<1> QED BY <1>6, <1>7

\* Heap g is heap h but for one slot of node c.
PutAt(h, g, c, i, new) ==
    /\ IsHeap(g) /\ Len(g) = Len(h) /\ DOMAIN g = DOMAIN h
    /\ \A m \in DOMAIN h : /\ m # c => g[m] = h[m]
                           /\ g[m].kind = h[m].kind /\ g[m].tag = h[m].tag
                           /\ DOMAIN g[m].slots = DOMAIN h[m].slots
    /\ g[c].slots[i].kid = new
    /\ \A j \in DOMAIN h[c].slots : j # i => g[c].slots[j] = h[c].slots[j]

LEMMA CloneIs ==
  ASSUME Copying, NEW c, NEW n, <<c, n>> \in origin
  PROVE  CloneOf(n) = c /\ Cloned(n)
<1>1. \A p \in origin : p[2] = n => p[1] = c
  BY DEF Copying
<1> QED BY <1>1 DEF CloneOf, Cloned

\* The copy of a node goes into the first slot of its parent's that has the node.
LEMMA PutFacts ==
  ASSUME TypeOK, LoadedKept, Copying, NEW parent, NEW n \in DOMAIN Loaded, NEW c, <<c, parent>> \in origin,
         NEW h, IsHeap(h), \A m \in DOMAIN heap : m \in DOMAIN h /\ h[m] = heap[m],
         NEW new \in DOMAIN h, h[new].kind = heap[n].kind, HasPlace(h, parent, n, new), parent # 0,
         NEW g, g = Put(h, parent, n, new)
  PROVE  \E i \in Same(parent, n) :
             /\ i \notin Filled(c, parent, n)
             /\ \A j \in Same(parent, n) : j \notin Filled(c, parent, n) => i =< j
             /\ PutAt(h, g, c, i, new)
<1>1. IsCopy(c, parent) /\ c \in DOMAIN h /\ h[c] = heap[c] /\ c \in DOMAIN heap
  BY DEF Copying, IsCopy
<1>2. CloneOf(parent) = c
  BY CloneIs
<1>3. Slots(h, c, n, new) # {} /\ g = ReplaceChild(h, c, n, new)
  BY <1>2 DEF HasPlace, Put
<1>4. PICK i \in DOMAIN h[c].slots :
          /\ h[c].slots[i].kid = n
          /\ h[new].kind \in Assignable[h[c].slots[i].type]
          /\ \A j \in Slots(h, c, n, new) : i =< j
          /\ g = SetKid(h, c, i, new)
  BY <1>1, <1>3, Replaced
<1>5. \A j \in DOMAIN h[c].slots :
          h[c].slots[j].kid = n <=> j \in Same(parent, n) /\ j \notin Filled(c, parent, n)
  <2> TAKE j \in DOMAIN h[c].slots
  <2>1. j \in DOMAIN Loaded[parent].slots
    BY <1>1 DEF IsCopy
  <2>2. ASSUME heap[c].slots[j].kid = n PROVE Loaded[parent].slots[j].kid = n
    <3> SUFFICES ASSUME Loaded[parent].slots[j].kid # n PROVE FALSE
      OBVIOUS
    <3>1. <<n, Loaded[parent].slots[j].kid>> \in origin
      BY <1>1, <2>1, <2>2 DEF IsCopy
    <3> QED BY <3>1 DEF Copying, IsCopy
  <2> QED BY <1>1, <2>1, <2>2 DEF Same, Filled
<1>6. \A j \in DOMAIN h[c].slots : h[c].slots[j].kid = n => j \in Slots(h, c, n, new)
  <2> SUFFICES ASSUME NEW j \in DOMAIN h[c].slots, h[c].slots[j].kid = n
               PROVE  h[new].kind \in Assignable[h[c].slots[j].type]
    BY DEF Slots, Matches
  <2>1. heap[n].kind \in Assignable[heap[c].slots[j].type]
    BY <1>1, HeapHere, HeapFacts
  <2> QED BY <1>1, <2>1
<1>7. i \in Same(parent, n) /\ i \notin Filled(c, parent, n)
  BY <1>4, <1>5
<1>8. \A j \in Same(parent, n) : j \notin Filled(c, parent, n) => i =< j
  <2> SUFFICES ASSUME NEW j \in Same(parent, n), j \notin Filled(c, parent, n) PROVE i =< j
    OBVIOUS
  <2>1. j \in DOMAIN h[c].slots
    BY <1>1 DEF IsCopy, Same
  <2>2. j \in Slots(h, c, n, new)
    BY <1>5, <1>6, <2>1
  <2> QED BY <1>4, <2>2
<1>9. PutAt(h, g, c, i, new)
  <2>1. h[new].kind \in Assignable[h[c].slots[i].type] /\ g = SetKid(h, c, i, new)
    BY <1>4
  <2> QED BY ONLY <1>1, <2>1, IsHeap(h), new \in DOMAIN h, i \in DOMAIN h[c].slots, KidSet DEF PutAt
<1> QED BY <1>7, <1>8, <1>9

\* What is true of the copies so far stays true.
LEMMA FillKeeps ==
  ASSUME TypeOK, LoadedKept, Copying, NEW v \in todo, NEW c, <<c, v[1]>> \in origin, v[1] \in DOMAIN Loaded,
         v[2] \in Same(v[1], v[3]), v[3] \in DOMAIN Loaded, v = <<v[1], v[2], v[3]>>,
         NEW h, \A m \in DOMAIN heap : m \in DOMAIN h /\ h[m] = heap[m],
         NEW new, new \notin DOMAIN Loaded, <<new, v[3]>> \in origin', origin \subseteq origin',
         NEW i \in Same(v[1], v[3]), i \notin Filled(c, v[1], v[3]),
         \A j \in Same(v[1], v[3]) : j \notin Filled(c, v[1], v[3]) => i =< j,
         PutAt(h, heap', c, i, new),
         \A w : (\E p \in origin : p[2] = w[1]) => (w \in todo' <=> w \in todo /\ w # v)
  PROVE  \A p \in origin : IsCopy(p[1], p[2])' /\ \A m \in DOMAIN Loaded : InOrder(p[1], p[2], m)'
<1> SUFFICES ASSUME NEW d, NEW l, <<d, l>> \in origin
             PROVE  IsCopy(d, l)' /\ \A m \in DOMAIN Loaded : InOrder(d, l, m)'
  BY DEF TypeOK
<1> DEFINE parent == v[1]
           n == v[3]
<1>1. IsCopy(d, l) /\ \A m \in DOMAIN Loaded : InOrder(d, l, m)
  BY DEF Copying
<1>2. /\ l \in DOMAIN Loaded /\ l \in DOMAIN heap /\ d \in DOMAIN heap /\ d \notin DOMAIN Loaded
      /\ c \notin DOMAIN Loaded /\ DOMAIN heap[d].slots = DOMAIN Loaded[l].slots
  BY <1>1 DEF IsCopy, Copying, LoadedKept
<1>3. /\ d \in DOMAIN heap' /\ heap'[d].kind = heap[d].kind /\ heap'[d].tag = heap[d].tag
      /\ DOMAIN heap'[d].slots = DOMAIN heap[d].slots /\ heap'[l] = heap[l]
      /\ d # c => heap'[d] = heap[d]
  BY <1>2 DEF PutAt
<1>4. d = c <=> l = parent
  BY DEF Copying
<1>5. \A j \in DOMAIN Loaded[l].slots :
          heap'[d].slots[j].kid = IF d = c /\ j = i THEN new ELSE heap[d].slots[j].kid
  <2> TAKE j \in DOMAIN Loaded[l].slots
  <2>1. CASE d # c
    BY <1>3, <2>1
  <2>2. CASE d = c
    <3>1. h[c] = heap[c] /\ j \in DOMAIN h[c].slots
      BY <1>2, <2>2
    <3> QED BY <2>2, <3>1 DEF PutAt
  <2> QED BY <2>1, <2>2
<1>6. IsCopy(d, l)'
  <2>1. \A j \in DOMAIN Loaded[l].slots :
           \/ heap'[d].slots[j].kid = Loaded[l].slots[j].kid
           \/ <<heap'[d].slots[j].kid, Loaded[l].slots[j].kid>> \in origin'
    <3> TAKE j \in DOMAIN Loaded[l].slots
    <3>1. CASE d = c /\ j = i
      <4>1. Loaded[l].slots[j].kid = n /\ heap'[d].slots[j].kid = new
        BY <1>4, <1>5, <3>1 DEF Same
      <4> QED BY <4>1
    <3>2. CASE ~(d = c /\ j = i)
      <4>1. heap'[d].slots[j].kid = heap[d].slots[j].kid
        BY <1>5, <3>2
      <4>2. \/ heap[d].slots[j].kid = Loaded[l].slots[j].kid
            \/ <<heap[d].slots[j].kid, Loaded[l].slots[j].kid>> \in origin
        BY <1>1 DEF IsCopy
      <4> QED BY <4>1, <4>2
    <3> QED BY <3>1, <3>2
  <2> QED BY <1>1, <1>2, <1>3, <2>1 DEF IsCopy
<1>7. \A k, m : <<l, k, m>> \in todo' <=> <<l, k, m>> \in todo /\ <<l, k, m>> # v
  <2> TAKE k, m
  <2> DEFINE w == <<l, k, m>>
  <2>1. \E p \in origin : p[2] = w[1]
    OBVIOUS
  <2> HIDE DEF w
  <2>2. w \in todo' <=> w \in todo /\ w # v
    BY <2>1
  <2> QED BY <2>2 DEF w
<1>8. ASSUME NEW m \in DOMAIN Loaded, ~(d = c /\ m = n) PROVE InOrder(d, l, m)'
  <2>1. Filled(d, l, m)' = Filled(d, l, m)
    <3>1. \A j \in Same(l, m) : heap'[d].slots[j].kid = heap[d].slots[j].kid
      <4> TAKE j \in Same(l, m)
      <4>1. j \in DOMAIN Loaded[l].slots /\ Loaded[l].slots[j].kid = m
        BY DEF Same
      <4>2. ~(d = c /\ j = i)
        BY <1>4, <1>8, <4>1 DEF Same
      <4> QED BY <1>5, <4>1, <4>2
    <3> QED BY <3>1 DEF Filled
  <2>2. Due(l, m)' = Due(l, m)
    <3>1. \A k : <<l, k, m>> # v
      BY <1>4, <1>8
    <3>2. \A k : <<l, k, m>> \in todo' <=> <<l, k, m>> \in todo
      BY <1>7, <3>1
    <3> QED BY <3>2 DEF Due
  <2>3. InOrder(d, l, m)
    BY <1>1
  <2> QED BY <2>1, <2>2, <2>3 DEF InOrder
<1>9. ASSUME d = c PROVE InOrder(d, l, n)'
  <2>1. l = parent
    BY <1>4, <1>9
  <2> DEFINE S == Same(l, n)
             D == Filled(d, l, n)
             U == Due(l, n)
  <2>2. InOrder(d, l, n) /\ n \in DOMAIN Loaded
    BY <1>1
  <2>3. Filled(d, l, n)' = D \cup {i}
    <3>1. \A j \in S : heap'[d].slots[j].kid = IF j = i THEN new ELSE heap[d].slots[j].kid
      BY <1>5, <1>9 DEF Same
    <3>2. i \in S /\ new # n
      BY <2>1
    <3> QED BY <3>1, <3>2 DEF Filled
  <2>4. Due(l, n)' = U \ {v[2]} /\ v[2] \in U
    <3>1. v = <<l, v[2], n>>
      BY <2>1
    <3>2. \A k : <<l, k, n>> \in todo' <=> <<l, k, n>> \in todo /\ k # v[2]
      BY <1>7, <3>1
    <3>3. v[2] \in Same(l, n)
      BY <2>1
    <3> QED BY <3>1, <3>2, <3>3 DEF Due
  <2>5. i \notin D /\ i \in S /\ (\A j \in S : j \notin D => i =< j) /\ D \subseteq S /\ U \subseteq S
    BY <1>9, <2>1 DEF Filled, Due
  <2>6. S \subseteq Nat /\ IsFiniteSet(D) /\ IsFiniteSet(U) /\ Cardinality(D) \in Nat /\ Cardinality(U) \in Nat
    BY <1>2, <2>5, SlotSets
  <2>7. /\ \A k \in D : \A j \in S : j < k => j \in D
        /\ Cardinality(D) + Cardinality(U) = Cardinality(Walked(l, n))
    BY <2>2 DEF InOrder
  <2>8. Cardinality(D \cup {i}) = Cardinality(D) + 1 /\ Cardinality(U \ {v[2]}) = Cardinality(U) - 1
    <3>1. IsFiniteSet(D) /\ i \notin D /\ IsFiniteSet(U) /\ v[2] \in U
      BY <2>4, <2>5, <2>6
    <3> HIDE DEF D, U
    <3>2. Cardinality(D \cup {i}) = Cardinality(D) + 1
      BY <3>1, FS_AddElement
    <3>3. Cardinality(U \ {v[2]}) = Cardinality(U) - 1
      BY <3>1, FS_RemoveElement
    <3> QED BY <3>2, <3>3
  <2>9. Cardinality(D \cup {i}) + Cardinality(U \ {v[2]}) = Cardinality(Walked(l, n))
    <3> HIDE DEF D, U
    <3> QED BY <2>6, <2>7, <2>8
  <2>10. \A k \in D \cup {i} : \A j \in S : j < k => j \in D \cup {i}
    <3> HIDE DEF D, U, S
    <3> SUFFICES ASSUME NEW k \in D \cup {i}, NEW j \in S, j < k, j \notin D PROVE FALSE
      OBVIOUS
    <3>1. k = i
      BY <2>7
    <3>2. i =< j /\ i \in Nat /\ j \in Nat
      BY <2>5, <2>6
    <3> QED BY <3>1, <3>2
  <2> QED BY <2>3, <2>4, <2>9, <2>10 DEF InOrder
<1>10. \A m \in DOMAIN Loaded : InOrder(d, l, m)'
  <2> TAKE m \in DOMAIN Loaded
  <2>1. CASE d = c /\ m = n
    <3>1. InOrder(d, l, n)'
      BY <1>9, <2>1
    <3>2. PICK x : x = n
      OBVIOUS
    <3> QED BY <2>1, <3>1, <3>2
  <2>2. CASE ~(d = c /\ m = n)
    BY <1>8, <2>2
  <2> QED BY <2>1, <2>2
<1> QED BY <1>6, <1>10

\* The node that is met next.
LEMMA VisitFacts ==
  ASSUME TypeOK, LoadedKept, PhaseInv, Copying, todo # {}
  PROVE  /\ Visit \in todo /\ Visit = <<Visit[1], Visit[2], Visit[3]>>
         /\ Visit[3] \in DOMAIN Loaded /\ Visit[3] \in DOMAIN heap /\ heap[Visit[3]].slots = Loaded[Visit[3]].slots
         /\ origin = {} => Visit[1] = 0 /\ Visit[3] = Point /\ todo = {Visit}
         /\ origin # {} => /\ Visit[1] # 0 /\ Visit[1] \in DOMAIN Loaded /\ Visit[2] \in Same(Visit[1], Visit[3])
                           /\ \E c : <<c, Visit[1]>> \in origin
<1>1. todo \subseteq (DOMAIN heap \cup {0}) \X Nat \X (DOMAIN heap)
  BY DEF TypeOK
<1>2. \A w \in todo : w = <<w[1], w[2], w[3]>> /\ w[3] \in DOMAIN heap /\ w[3] \in Nat
  <2>1. \A w \in todo : w = <<w[1], w[2], w[3]>> /\ w[3] \in DOMAIN heap
    BY <1>1
  <2>2. DOMAIN heap \subseteq Nat
    BY HeapHere
  <2> QED BY <2>1, <2>2
<1> DEFINE S == {w[3] : w \in todo}
<1>3. S \subseteq Nat /\ S # {}
  BY <1>2
<1>4. PICK n \in S : \A m \in S : n =< m
  BY <1>3, LeastOf
<1>5. \E v \in todo : \A w \in todo : v[3] =< w[3]
  BY <1>4
<1>6. Visit \in todo
  BY <1>5 DEF Visit
<1>7. CASE origin = {}
  <2>1. todo = {<<0, 0, Point>>}
    BY <1>7 DEF Copying
  <2>2. Visit = <<0, 0, Point>>
    BY <1>6, <2>1
  <2>3. Point \in DOMAIN Loaded
    BY PointFacts DEF PhaseInv
  <2> QED BY <1>2, <1>6, <1>7, <2>1, <2>2, <2>3 DEF LoadedKept
<1>8. CASE origin # {}
  <2>1. Visit[1] \in DOMAIN Loaded /\ Cloned(Visit[1]) /\ Visit[2] \in Same(Visit[1], Visit[3])
    BY <1>6, <1>8 DEF Copying
  <2>2. Visit[1] # 0 /\ Visit[3] \in DOMAIN Loaded
    <3>1. Holds(Visit[1], Visit[3])
      BY <2>1 DEF Same, Holds
    <3> QED BY <2>1, <3>1, LoadedFacts
  <2>3. \E c : <<c, Visit[1]>> \in origin
    <3>1. PICK p \in origin : p[2] = Visit[1]
      BY <2>1 DEF Cloned
    <3>2. p = <<p[1], p[2]>>
      BY DEF TypeOK
    <3> QED BY <3>1, <3>2
  <2> QED BY <1>2, <1>6, <1>8, <2>1, <2>2, <2>3 DEF LoadedKept
<1> QED BY <1>7, <1>8

\* A new copy has none of its slots filled, and the walk has yet to go into them.
LEMMA CopyBegins ==
  ASSUME TypeOK, LoadedKept, NEW n \in DOMAIN Loaded, LoadedKept',
         Fresh \in DOMAIN heap' \ DOMAIN Loaded, heap'[Fresh] = heap[n], heap'[n] = heap[n],
         \A k, m : <<n, k, m>> \in todo' <=> <<n, k, m>> \in Visits(n)
  PROVE  \A c : c = Fresh => IsCopy(c, n)' /\ \A m \in DOMAIN Loaded : InOrder(c, n, m)'
<1> SUFFICES ASSUME NEW c, c = Fresh
             PROVE  IsCopy(c, n)' /\ \A m \in DOMAIN Loaded : InOrder(c, n, m)'
  OBVIOUS
<1>0. c \in DOMAIN heap' \ DOMAIN Loaded /\ heap'[c] = heap[n] /\ heap[n].slots = Loaded[n].slots
  BY DEF LoadedKept
<1>1. IsCopy(c, n)'
  BY <1>0 DEF IsCopy
<1>2. ASSUME NEW m \in DOMAIN Loaded PROVE InOrder(c, n, m)'
  <2>1. Filled(c, n, m)' = {}
    BY <1>0 DEF Filled, Same
  <2>2. Due(n, m)' = Walked(n, m)
    <3>1. \A k \in Same(n, m) : <<n, k, m>> \in Visits(n) <=> IsWalked(Loaded[n].slots[k])
      BY <1>0 DEF Visits, Same
    <3>2. \A k \in Same(n, m) : <<n, k, m>> \in todo' <=> IsWalked(Loaded[n].slots[k])
      BY <3>1
    <3> QED BY <3>2 DEF Due, Walked
  <2>3. Cardinality({}) = 0 /\ Cardinality(Walked(n, m)) \in Nat
    <3>1. Walked(n, m) \subseteq Same(n, m)
      BY DEF Walked
    <3> QED BY <3>1, SlotSets, FS_EmptySet
  <2> QED BY <2>1, <2>2, <2>3 DEF InOrder
<1> QED BY <1>1, <1>2

\* What is needed of the heap after a step of the traversal.
HeapGrows ==
    IsHeap(heap') /\ \A m \in DOMAIN heap : m \in DOMAIN heap' /\ heap'[m].kind = heap[m].kind

LEMMA VisitKeeps ==
  ASSUME TypeOK, LoadedKept, PhaseInv, Copying, DeepVisit
  PROVE  /\ LoadedKept' /\ Copying' /\ HeapGrows
         /\ Fresh \in DOMAIN heap' /\ origin' = origin \cup {<<Fresh, Visit[3]>>}
         /\ Visit[3] \in DOMAIN heap /\ input' \in {Fresh, input}
         /\ todo' \subseteq (DOMAIN heap \cup {0}) \X Nat \X (DOMAIN heap)
<1>0. PICK parent, n : parent = Visit[1] /\ n = Visit[3]
  OBVIOUS
<1> DEFINE h == ShallowCopy(heap, n)
<1>1. /\ todo # {} /\ ~Cloned(n) /\ HasPlace(h, parent, n, Fresh)
      /\ heap' = Put(h, parent, n, Fresh) /\ origin' = origin \cup {<<Fresh, n>>}
      /\ input' = IF parent = 0 THEN Fresh ELSE input
      /\ todo' = (todo \ {Visit}) \cup Visits(n)
      /\ path' = path
  BY <1>0 DEF DeepVisit
<1>2. /\ Visit \in todo /\ Visit = <<parent, Visit[2], n>>
      /\ n \in DOMAIN Loaded /\ n \in DOMAIN heap /\ heap[n].slots = Loaded[n].slots
      /\ origin = {} => parent = 0 /\ n = Point /\ todo = {Visit}
      /\ origin # {} => /\ parent # 0 /\ parent \in DOMAIN Loaded /\ Visit[2] \in Same(parent, n)
                        /\ \E c : <<c, parent>> \in origin
  BY <1>0, <1>1, VisitFacts
<1>3. /\ IsHeap(h) /\ Fresh \in DOMAIN h /\ h[Fresh] = heap[n]
      /\ \A m \in DOMAIN heap : m \in DOMAIN h /\ h[m] = heap[m]
  BY <1>2, CopyMade
<1>4. Fresh \notin DOMAIN heap /\ Fresh \notin DOMAIN Loaded
  BY HeapHere DEF LoadedKept
<1>5. Point' = Point
  BY <1>1 DEF Point
<1>6. /\ \A w \in Visits(n) : w[1] = n /\ w[2] \in Same(n, w[3]) /\ w = <<w[1], w[2], w[3]>>
      /\ Visits(n) \subseteq (DOMAIN heap \cup {0}) \X Nat \X (DOMAIN heap)
  <2>1. \A k \in DOMAIN heap[n].slots : k \in Nat /\ heap[n].slots[k].kid \in DOMAIN heap
    BY <1>2, HeapHere, HeapFacts
  <2> QED BY <1>2, <2>1 DEF Visits, Same
<1>7. \A w \in todo : w[1] # n
  <2>1. CASE origin = {}
    BY <1>2, <2>1, LoadedFacts
  <2>2. CASE origin # {}
    BY <1>1, <2>2 DEF Copying
  <2> QED BY <2>1, <2>2
<1>8. todo' \subseteq (DOMAIN heap \cup {0}) \X Nat \X (DOMAIN heap)
  BY <1>1, <1>6 DEF TypeOK
<1>9. \A k, m : <<n, k, m>> \in todo' <=> <<n, k, m>> \in Visits(n)
  <2> TAKE k, m
  <2> DEFINE w == <<n, k, m>>
  <2>1. w[1] = n
    OBVIOUS
  <2> HIDE DEF w
  <2>2. w \notin todo
    BY <1>7, <2>1
  <2>3. w \in todo' <=> w \in Visits(n)
    BY <1>1, <2>2
  <2> QED BY <2>3 DEF w
<1>10. \A w : (\E p \in origin : p[2] = w[1]) => (w \in todo' <=> w \in todo /\ w # Visit)
  <2> TAKE w
  <2> HAVE \E p \in origin : p[2] = w[1]
  <2>1. w[1] # n
    BY <1>1 DEF Cloned
  <2>2. w \notin Visits(n)
    BY <1>6, <2>1
  <2> QED BY <1>1, <2>2
<1>11. Visit[3] \in DOMAIN heap /\ input' \in {Fresh, input}
  BY <1>0, <1>1, <1>2
<1>12. \A p, q \in origin' : p[1] = q[1] \/ p[2] = q[2] => p = q
  <2>1. \A p \in origin : p[1] # Fresh /\ p[2] # n
    <3>1. \A p \in origin : p[1] \in DOMAIN heap
      BY DEF TypeOK
    <3> QED BY <1>1, <1>4, <3>1 DEF Cloned
  <2>2. \A p, q \in origin : p[1] = q[1] \/ p[2] = q[2] => p = q
    BY DEF Copying
  <2>3. \A p \in origin' : p \in origin \/ (p = <<Fresh, n>> /\ p[1] = Fresh /\ p[2] = n)
    BY <1>1
  <2> QED BY ONLY <2>1, <2>2, <2>3
\* The root is copied first.
<1>13. CASE origin = {}
  <2>1. heap' = h /\ input' = Fresh /\ origin' = {<<Fresh, n>>} /\ todo' = Visits(n) /\ n = Point
    BY <1>1, <1>2, <1>13 DEF Put
  <2> HIDE DEF h
  <2>2. LoadedKept' /\ HeapGrows
    BY <1>3, <2>1 DEF LoadedKept, HeapGrows
  <2>3. /\ Fresh \in DOMAIN heap' \ DOMAIN Loaded /\ heap'[Fresh] = heap[n] /\ heap'[n] = heap[n]
    BY <1>2, <1>3, <1>4, <2>1
  <2>4. PICK c : c = Fresh
    OBVIOUS
  <2>5. IsCopy(c, n)' /\ \A m \in DOMAIN Loaded : InOrder(c, n, m)'
    BY <1>2, <1>9, <2>2, <2>3, <2>4, CopyBegins
  <2>6. origin' = {<<c, n>>}
    BY <2>1, <2>4
  <2>7. \A p \in origin' : IsCopy(p[1], p[2])' /\ \A m \in DOMAIN Loaded : InOrder(p[1], p[2], m)'
    BY <2>5, <2>6
  <2>8. <<input, Point>>' \in origin'
    BY <1>5, <2>1
  <2>9. \A v \in todo' : v[1] \in DOMAIN Loaded /\ Cloned(v[1])' /\ v[2] \in Same(v[1], v[3])
    BY <1>2, <1>6, <2>1 DEF Cloned
  <2>10. Copying'
    BY <1>12, <2>1, <2>7, <2>8, <2>9 DEF Copying
  <2> QED BY <1>1, <1>8, <1>11, <2>2, <2>3, <2>10, <1>0
\* A copy takes its place in the copy of its parent.
<1>14. CASE origin # {}
  <2>1. PICK c : <<c, parent>> \in origin
    BY <1>2, <1>14
  <2>2. parent # 0 /\ parent \in DOMAIN Loaded /\ Visit[2] \in Same(parent, n)
    BY <1>2, <1>14
  <2>3. h[Fresh].kind = heap[n].kind
    BY <1>3
  <2>4. PICK i \in Same(parent, n) :
             /\ i \notin Filled(c, parent, n)
             /\ \A j \in Same(parent, n) : j \notin Filled(c, parent, n) => i =< j
             /\ PutAt(h, heap', c, i, Fresh)
    <3> HIDE DEF h
    <3> QED BY <1>1, <1>2, <1>3, <2>1, <2>2, <2>3, PutFacts
  <2>5. c \in DOMAIN heap \ DOMAIN Loaded /\ c # n /\ c # Fresh
    BY <1>2, <1>4, <2>1 DEF Copying, IsCopy
  <2>6. LoadedKept' /\ HeapGrows
    <3> HIDE DEF h
    <3> QED BY <1>3, <2>4, <2>5 DEF LoadedKept, HeapGrows, PutAt
  <2>7. /\ Fresh \in DOMAIN heap' \ DOMAIN Loaded /\ heap'[Fresh] = heap[n] /\ heap'[n] = heap[n]
    <3> HIDE DEF h
    <3> QED BY <1>2, <1>3, <1>4, <2>4, <2>5 DEF PutAt
  <2>8. <<Fresh, n>> \in origin' /\ origin \subseteq origin'
    BY <1>1
  <2>9. \A p \in origin : IsCopy(p[1], p[2])' /\ \A m \in DOMAIN Loaded : InOrder(p[1], p[2], m)'
    <3> DEFINE v == Visit
    <3>1. /\ v \in todo /\ <<c, v[1]>> \in origin /\ v[1] \in DOMAIN Loaded
          /\ v[2] \in Same(v[1], v[3]) /\ v[3] \in DOMAIN Loaded /\ v = <<v[1], v[2], v[3]>>
          /\ <<Fresh, v[3]>> \in origin'
          /\ i \in Same(v[1], v[3]) /\ i \notin Filled(c, v[1], v[3])
          /\ \A j \in Same(v[1], v[3]) : j \notin Filled(c, v[1], v[3]) => i =< j
          /\ \A w : (\E p \in origin : p[2] = w[1]) => (w \in todo' <=> w \in todo /\ w # v)
      BY <1>0, <1>2, <1>10, <2>1, <2>2, <2>4, <2>8
    <3> HIDE DEF v, h
    <3> QED BY <1>3, <1>4, <2>4, <2>8, <3>1, FillKeeps
  <2> HIDE DEF h
  <2>10. PICK d : d = Fresh
    OBVIOUS
  <2>11. IsCopy(d, n)' /\ \A m \in DOMAIN Loaded : InOrder(d, n, m)'
    BY <1>2, <1>9, <2>6, <2>7, <2>10, CopyBegins
  <2>12. \A p \in origin' : IsCopy(p[1], p[2])' /\ \A m \in DOMAIN Loaded : InOrder(p[1], p[2], m)'
    <3> SUFFICES ASSUME NEW p \in origin'
                 PROVE  IsCopy(p[1], p[2])' /\ \A m \in DOMAIN Loaded : InOrder(p[1], p[2], m)'
      OBVIOUS
    <3>1. CASE p \in origin
      BY <2>9, <3>1
    <3>2. CASE p = <<d, n>>
      BY <2>11, <3>2
    <3> QED BY <1>1, <2>10, <3>1, <3>2
  <2>13. <<input, Point>>' \in origin'
    BY <1>1, <1>5, <1>14, <2>2 DEF Copying
  <2>14. \A v \in todo' : v[1] \in DOMAIN Loaded /\ Cloned(v[1])' /\ v[2] \in Same(v[1], v[3])
    <3> SUFFICES ASSUME NEW v \in todo'
                 PROVE  v[1] \in DOMAIN Loaded /\ Cloned(v[1])' /\ v[2] \in Same(v[1], v[3])
      OBVIOUS
    <3>1. CASE v \in todo
      <4>1. v[1] \in DOMAIN Loaded /\ Cloned(v[1]) /\ v[2] \in Same(v[1], v[3])
        BY <1>14, <3>1 DEF Copying
      <4> QED BY <2>8, <4>1 DEF Cloned
    <3>2. CASE v \in Visits(n)
      BY <1>2, <1>6, <2>8, <3>2 DEF Cloned
    <3> QED BY <1>1, <3>1, <3>2
  <2>15. origin' # {}
    BY <2>8
  <2>16. Copying'
    BY <1>12, <2>12, <2>13, <2>14, <2>15 DEF Copying
  <2> QED BY <1>1, <1>8, <1>11, <2>6, <2>7, <2>16, <1>0
<1> QED BY <1>13, <1>14

LEMMA MeetKeeps ==
  ASSUME TypeOK, LoadedKept, PhaseInv, Copying, DeepMeet
  PROVE  LoadedKept' /\ Copying' /\ HeapGrows
<1>0. PICK parent, n, v : parent = Visit[1] /\ n = Visit[3] /\ v = Visit
  OBVIOUS
<1>1. /\ todo # {} /\ Cloned(n) /\ HasPlace(heap, parent, n, CloneOf(n))
      /\ heap' = Put(heap, parent, n, CloneOf(n)) /\ origin' = origin
      /\ input' = input /\ todo' = todo \ {v} /\ path' = path
  BY <1>0 DEF DeepMeet
<1>2. /\ v \in todo /\ v = <<parent, v[2], n>>
      /\ n \in DOMAIN Loaded /\ n \in DOMAIN heap
      /\ origin # {} => /\ parent # 0 /\ parent \in DOMAIN Loaded /\ v[2] \in Same(parent, n)
                        /\ \E c : <<c, parent>> \in origin
  BY <1>0, <1>1, VisitFacts
<1>3. origin # {} /\ Point' = Point
  BY <1>1 DEF Cloned, Point
<1>4. PICK c : <<c, parent>> \in origin
  BY <1>2, <1>3
<1>5. PICK new : <<new, n>> \in origin
  <2>1. PICK p \in origin : p[2] = n
    BY <1>1 DEF Cloned
  <2>2. p = <<p[1], p[2]>>
    BY DEF TypeOK
  <2> QED BY <2>1, <2>2
<1>6. CloneOf(n) = new
  BY <1>5, CloneIs
<1>7. new \in DOMAIN heap \ DOMAIN Loaded /\ heap[new].kind = heap[n].kind
  BY <1>5 DEF Copying, IsCopy
<1>8. c \in DOMAIN heap \ DOMAIN Loaded
  BY <1>4 DEF Copying, IsCopy
<1>9. PICK i \in Same(parent, n) :
             /\ i \notin Filled(c, parent, n)
             /\ \A j \in Same(parent, n) : j \notin Filled(c, parent, n) => i =< j
             /\ PutAt(heap, heap', c, i, new)
  <2>1. IsHeap(heap) /\ \A m \in DOMAIN heap : m \in DOMAIN heap /\ heap[m] = heap[m]
    BY HeapHere
  <2> QED BY <1>1, <1>2, <1>3, <1>4, <1>6, <1>7, <2>1, PutFacts
<1>10. LoadedKept' /\ HeapGrows
  BY <1>8, <1>9 DEF LoadedKept, HeapGrows, PutAt
<1>11. \A p \in origin : IsCopy(p[1], p[2])' /\ \A m \in DOMAIN Loaded : InOrder(p[1], p[2], m)'
  <2>1. /\ v \in todo /\ <<c, v[1]>> \in origin /\ v[1] \in DOMAIN Loaded
        /\ v[2] \in Same(v[1], v[3]) /\ v[3] \in DOMAIN Loaded /\ v = <<v[1], v[2], v[3]>>
        /\ <<new, v[3]>> \in origin' /\ origin \subseteq origin'
        /\ i \in Same(v[1], v[3]) /\ i \notin Filled(c, v[1], v[3])
        /\ \A j \in Same(v[1], v[3]) : j \notin Filled(c, v[1], v[3]) => i =< j
    BY <1>1, <1>2, <1>3, <1>4, <1>5, <1>9
  <2>2. \A w : (\E p \in origin : p[2] = w[1]) => (w \in todo' <=> w \in todo /\ w # v)
    BY <1>1
  <2>3. \A m \in DOMAIN heap : m \in DOMAIN heap /\ heap[m] = heap[m]
    OBVIOUS
  <2> QED BY <1>7, <1>9, <2>1, <2>2, <2>3, FillKeeps
<1>12. \A p, q \in origin' : p[1] = q[1] \/ p[2] = q[2] => p = q
  BY <1>1 DEF Copying
<1>13. \A w \in todo' : w[1] \in DOMAIN Loaded /\ Cloned(w[1])' /\ w[2] \in Same(w[1], w[3])
  BY <1>1, <1>3 DEF Copying, Cloned
<1>14. <<input, Point>>' \in origin'
  BY <1>1, <1>3 DEF Copying
<1>15. Copying'
  BY <1>1, <1>3, <1>11, <1>12, <1>13, <1>14 DEF Copying
<1> QED BY <1>10, <1>15

-----------------------------------------------------------------------------
(***************************************************************************)
(* What holds in every state: the types, the loaded tree, the copies.      *)
(***************************************************************************)
Base == TypeOK /\ LoadedKept /\ PhaseInv /\ DeepInv /\ ShallowInv

\* A heap that keeps its nodes keeps the types of what points into it.
LEMMA TypesGrow ==
  ASSUME TypeOK, \A m \in DOMAIN heap : m \in DOMAIN heap'
  PROVE  /\ input \in DOMAIN heap' \cup {0}
         /\ \A s : s \subseteq (DOMAIN heap \cup {0}) \X Nat \X (DOMAIN heap)
                   => s \subseteq (DOMAIN heap' \cup {0}) \X Nat \X (DOMAIN heap')
         /\ origin \subseteq (DOMAIN heap') \X (DOMAIN heap')
         /\ child \in [orig : DOMAIN heap' \cup {0}, clone : DOMAIN heap' \cup {0}]
<1> DEFINE D == DOMAIN heap
           E == DOMAIN heap'
<1>0. D \subseteq E
  OBVIOUS
<1>1. \A s : s \subseteq (D \cup {0}) \X Nat \X D => s \subseteq (E \cup {0}) \X Nat \X E
  <2>1. (D \cup {0}) \X Nat \X D \subseteq (E \cup {0}) \X Nat \X E
    <3> HIDE DEF D, E
    <3> QED BY <1>0
  <2> QED BY <2>1
<1>2. input \in E \cup {0} /\ origin \subseteq E \X E
  BY DEF TypeOK
<1>3. child \in [orig : E \cup {0}, clone : E \cup {0}]
  BY DEF TypeOK
<1> QED BY <1>1, <1>2, <1>3

\* The path to the next point.
LEMMA BeginFacts ==
  ASSUME Base, NEW pos \in Points, NEW wantsDeep \in BOOLEAN, Begin(pos, wantsDeep)
  PROVE  /\ IsPath(path') /\ Point' = LoadedAt[pos] /\ LoadedAt[pos] \in DOMAIN Loaded
         /\ LoadedAt[pos] \in DOMAIN heap /\ todo = {}
         /\ attempts' \in 0 .. MaxAttempts
         /\ path' \in Seq(DOMAIN Loaded) /\ path' # <<>> /\ path'[1] = 1
         /\ child' \in [orig : DOMAIN heap' \cup {0}, clone : DOMAIN heap' \cup {0}]
         /\ level' \in 0 .. Len(path') /\ swapped' \in BOOLEAN /\ deep' = wantsDeep
         /\ built' = built /\ Len(built) < attempts' /\ Len(built) =< attempts'
         /\ supported' \in Releases
<1>1. /\ IsPath(PathTo(pos)) /\ PathTo(pos)[Len(PathTo(pos))] = LoadedAt[pos]
      /\ LoadedAt[pos] \in DOMAIN Loaded
  BY PointPath
<1>2. path' = PathTo(pos)
  BY DEF Begin
<1>3. IsPath(path') /\ Point' = LoadedAt[pos]
  BY <1>1, <1>2 DEF Point
<1>4. path' \in Seq(DOMAIN Loaded) /\ path' # <<>> /\ path'[1] = 1 /\ Len(path') \in Nat
  BY <1>3 DEF IsPath
<1>5. LoadedAt[pos] \in DOMAIN heap
  BY <1>1 DEF Base, LoadedKept
<1>6. todo = {}
  BY DEF Base, PhaseInv, Begin
<1>7. /\ attempts' \in 0 .. MaxAttempts /\ built' = built
      /\ Len(built) < attempts' /\ Len(built) =< attempts'
  <2>1. attempts \in 0 .. MaxAttempts /\ Len(built) \in Nat /\ Len(built) =< attempts /\ MaxAttempts \in Nat
    BY RulesAssumption DEF Base, TypeOK
  <2> QED BY <2>1 DEF Begin
<1>8. /\ child' \in [orig : DOMAIN heap' \cup {0}, clone : DOMAIN heap' \cup {0}]
      /\ level' \in 0 .. Len(path') /\ swapped' \in BOOLEAN /\ deep' = wantsDeep
  <2>1. child' = NoChild /\ level' = 0 /\ swapped' = FALSE /\ deep' = wantsDeep
    BY DEF Begin
  <2>2. deep' = wantsDeep
    BY <2>1
  <2>3. child' \in [orig : DOMAIN heap' \cup {0}, clone : DOMAIN heap' \cup {0}]
    BY <2>1 DEF NoChild
  <2>4. level' \in 0 .. Len(path') /\ swapped' \in BOOLEAN
    <3>1. Len(path') \in Nat
      BY <1>4
    <3>2. 0 \in 0 .. Len(path')
      BY <3>1
    <3> QED BY <2>1, <3>2, Zenon
  <2> QED BY ONLY <2>2, <2>3, <2>4
<1>9. supported' \in Releases
  BY DEF Base, TypeOK, Begin
<1> QED BY <1>1, <1>3, <1>4, <1>5, <1>6, <1>7, <1>8, <1>9

LEMMA BeginShallowKeeps ==
  ASSUME Base, NEW pos \in Points, BeginShallow(pos)
  PROVE  Base'
<1> DEFINE n == LoadedAt[pos]
<1>1. Begin(pos, FALSE)
  BY DEF BeginShallow
<1>2. /\ heap' = ShallowCopy(heap, n) /\ input' = Fresh /\ origin' = {<<Fresh, n>>}
      /\ phase' = "callback" /\ todo' = todo
  BY DEF BeginShallow
<1>3. /\ IsPath(path') /\ Point' = n /\ n \in DOMAIN Loaded /\ n \in DOMAIN heap /\ todo = {}
      /\ attempts' \in 0 .. MaxAttempts
      /\ path' \in Seq(DOMAIN Loaded) /\ path' # <<>> /\ path'[1] = 1
      /\ child' \in [orig : DOMAIN heap' \cup {0}, clone : DOMAIN heap' \cup {0}]
      /\ level' \in 0 .. Len(path') /\ swapped' \in BOOLEAN /\ deep' = FALSE
      /\ built' = built /\ Len(built) < attempts' /\ Len(built) =< attempts'
      /\ supported' \in Releases
  BY <1>1, BeginFacts
<1> HIDE DEF n
<1>4. /\ IsHeap(heap') /\ Fresh \in DOMAIN heap' /\ heap'[Fresh] = heap[n]
      /\ \A m \in DOMAIN heap : m \in DOMAIN heap' /\ heap'[m] = heap[m]
  BY <1>2, <1>3, CopyMade DEF Base
<1>5. Fresh \notin DOMAIN heap /\ Fresh \notin DOMAIN Loaded
  BY HeapHere DEF Base, LoadedKept
<1>6. TypeOK'
  <2>1. todo' \subseteq (DOMAIN heap' \cup {0}) \X Nat \X (DOMAIN heap')
    BY <1>2, <1>3
  <2>2. origin' \subseteq (DOMAIN heap') \X (DOMAIN heap') /\ input' \in DOMAIN heap' \cup {0}
    BY <1>2, <1>3, <1>4
  <2>3. built' \in Seq([path : Seq(DOMAIN Loaded), text : Texts, swapped : BOOLEAN])
    BY <1>3 DEF Base, TypeOK
  <2> QED BY <1>2, <1>3, <1>4, <2>1, <2>2, <2>3 DEF TypeOK
<1>7. LoadedKept'
  BY <1>4 DEF Base, LoadedKept
<1>8. PhaseInv'
  BY <1>2, <1>3, <1>4, <1>5 DEF PhaseInv
<1>9. DeepInv' /\ ShallowInv'
  BY <1>2, <1>3, <1>4 DEF DeepInv, ShallowInv
<1> QED BY <1>6, <1>7, <1>8, <1>9 DEF Base

LEMMA BeginDeepKeeps ==
  ASSUME Base, NEW pos \in Points, BeginDeep(pos)
  PROVE  Base'
<1> DEFINE n == LoadedAt[pos]
<1>1. Begin(pos, TRUE)
  BY DEF BeginDeep
<1>2. heap' = heap /\ input' = 0 /\ origin' = {} /\ phase' = "deep" /\ todo' = {<<0, 0, n>>}
  BY DEF BeginDeep
<1>3. /\ IsPath(path') /\ Point' = n /\ n \in DOMAIN heap
      /\ attempts' \in 0 .. MaxAttempts
      /\ path' \in Seq(DOMAIN Loaded) /\ path' # <<>> /\ path'[1] = 1
      /\ child' \in [orig : DOMAIN heap' \cup {0}, clone : DOMAIN heap' \cup {0}]
      /\ level' \in 0 .. Len(path') /\ swapped' \in BOOLEAN /\ deep' = TRUE
      /\ built' = built /\ Len(built) < attempts' /\ Len(built) =< attempts'
      /\ supported' \in Releases
  BY <1>1, BeginFacts
<1> HIDE DEF n
<1>4. TypeOK'
  <2>1. todo' \subseteq (DOMAIN heap' \cup {0}) \X Nat \X (DOMAIN heap')
    BY <1>2, <1>3
  <2>2. built' \in Seq([path : Seq(DOMAIN Loaded), text : Texts, swapped : BOOLEAN])
    BY <1>3 DEF Base, TypeOK
  <2>3. IsHeap(heap')
    BY <1>2 DEF Base, TypeOK
  <2> QED BY <1>2, <1>3, <2>1, <2>2, <2>3 DEF TypeOK
<1>5. LoadedKept'
  BY <1>2 DEF Base, LoadedKept
<1>6. PhaseInv' /\ ShallowInv'
  BY <1>2, <1>3 DEF PhaseInv, ShallowInv
<1>7. Copying'
  <2>1. todo' = {<<0, 0, Point>>}'
    BY <1>2, <1>3
  <2> QED BY <1>2, <1>3, <2>1 DEF Copying
<1> QED BY <1>4, <1>5, <1>6, <1>7 DEF Base, DeepInv

LEMMA BeginFailsKeeps ==
  ASSUME Base, NEW pos \in Points, BeginFails(pos)
  PROVE  Base'
<1>1. Begin(pos, FALSE)
  BY DEF BeginFails
<1>2. heap' = heap /\ input' = 0 /\ origin' = {} /\ phase' = phase /\ todo' = todo /\ phase = "next"
  BY DEF BeginFails, Begin
<1>3. /\ IsPath(path') /\ todo = {}
      /\ attempts' \in 0 .. MaxAttempts
      /\ path' \in Seq(DOMAIN Loaded) /\ path' # <<>> /\ path'[1] = 1
      /\ child' \in [orig : DOMAIN heap' \cup {0}, clone : DOMAIN heap' \cup {0}]
      /\ level' \in 0 .. Len(path') /\ swapped' \in BOOLEAN /\ deep' = FALSE
      /\ built' = built /\ Len(built) < attempts' /\ Len(built) =< attempts'
      /\ supported' \in Releases
  BY <1>1, BeginFacts
<1>4. TypeOK'
  <2>1. todo' \subseteq (DOMAIN heap' \cup {0}) \X Nat \X (DOMAIN heap')
    BY <1>2, <1>3
  <2>2. built' \in Seq([path : Seq(DOMAIN Loaded), text : Texts, swapped : BOOLEAN])
    BY <1>3 DEF Base, TypeOK
  <2>3. IsHeap(heap')
    BY <1>2 DEF Base, TypeOK
  <2> QED BY <1>2, <1>3, <2>1, <2>2, <2>3 DEF TypeOK
<1>5. LoadedKept'
  BY <1>2 DEF Base, LoadedKept
<1>6. PhaseInv' /\ DeepInv' /\ ShallowInv'
  BY <1>2, <1>3 DEF PhaseInv, DeepInv, ShallowInv
<1> QED BY <1>4, <1>5, <1>6 DEF Base

LEMMA CopyingSame ==
  ASSUME Copying, heap' = heap, todo' = todo, origin' = origin, input' = input, Point' = Point
  PROVE  Copying'
<1>1. \A c, n : IsCopy(c, n) => IsCopy(c, n)'
  BY DEF IsCopy
<1>2. \A c, n, m : InOrder(c, n, m) => InOrder(c, n, m)'
  <2> TAKE c, n, m
  <2>1. Filled(c, n, m)' = Filled(c, n, m) /\ Due(n, m)' = Due(n, m)
    BY DEF Filled, Due
  <2> QED BY <2>1 DEF InOrder
<1>3. \A p \in origin' : IsCopy(p[1], p[2])' /\ \A m \in DOMAIN Loaded : InOrder(p[1], p[2], m)'
  BY <1>1, <1>2 DEF Copying
<1>4. \A v : Cloned(v) => Cloned(v)'
  BY DEF Cloned
<1> QED BY <1>3, <1>4 DEF Copying

LEMMA DeepKeeps ==
  ASSUME Base, DeepVisit \/ DeepMeet \/ DeepFails \/ DeepDone
  PROVE  Base'
<1> USE DEF Base
<1>1. CASE DeepVisit
  <2>1. Copying /\ deep /\ phase = "deep"
    BY <1>1 DEF DeepVisit, DeepInv, PhaseInv
  <2>2. /\ LoadedKept' /\ Copying' /\ HeapGrows
        /\ Fresh \in DOMAIN heap' /\ origin' = origin \cup {<<Fresh, Visit[3]>>}
        /\ Visit[3] \in DOMAIN heap /\ input' \in {Fresh, input}
        /\ todo' \subseteq (DOMAIN heap \cup {0}) \X Nat \X (DOMAIN heap)
    BY <1>1, <2>1, VisitKeeps
  <2>3. /\ phase' = phase /\ attempts' = attempts /\ path' = path /\ deep' = deep /\ child' = child
        /\ level' = level /\ swapped' = swapped /\ built' = built /\ supported' = supported
    BY <1>1 DEF DeepVisit
  <2>4. IsHeap(heap') /\ \A m \in DOMAIN heap : m \in DOMAIN heap'
    BY <2>2 DEF HeapGrows
  <2>5. /\ input \in DOMAIN heap' \cup {0}
        /\ todo' \subseteq (DOMAIN heap' \cup {0}) \X Nat \X (DOMAIN heap')
        /\ origin \subseteq (DOMAIN heap') \X (DOMAIN heap')
        /\ child \in [orig : DOMAIN heap' \cup {0}, clone : DOMAIN heap' \cup {0}]
    BY <2>2, <2>4, TypesGrow
  <2>6. input' \in DOMAIN heap' \cup {0} /\ origin' \subseteq (DOMAIN heap') \X (DOMAIN heap')
    BY <2>2, <2>4, <2>5
  <2>7. TypeOK'
    BY <2>3, <2>4, <2>5, <2>6 DEF TypeOK
  <2>8. PhaseInv' /\ DeepInv' /\ ShallowInv'
    BY <2>1, <2>2, <2>3 DEF PhaseInv, DeepInv, ShallowInv
  <2> QED BY <2>2, <2>7, <2>8
<1>2. CASE DeepMeet
  <2>1. Copying /\ deep /\ phase = "deep"
    BY <1>2 DEF DeepMeet, DeepInv, PhaseInv
  <2>2. LoadedKept' /\ Copying' /\ HeapGrows
    BY <1>2, <2>1, MeetKeeps
  <2>3. /\ phase' = phase /\ attempts' = attempts /\ path' = path /\ deep' = deep /\ child' = child
        /\ level' = level /\ swapped' = swapped /\ built' = built /\ supported' = supported
        /\ input' = input /\ origin' = origin /\ todo' \subseteq todo
    BY <1>2 DEF DeepMeet
  <2>4. IsHeap(heap') /\ \A m \in DOMAIN heap : m \in DOMAIN heap'
    BY <2>2 DEF HeapGrows
  <2>5. todo' \subseteq (DOMAIN heap \cup {0}) \X Nat \X (DOMAIN heap)
    BY <2>3 DEF TypeOK
  <2>6. /\ input \in DOMAIN heap' \cup {0}
        /\ todo' \subseteq (DOMAIN heap' \cup {0}) \X Nat \X (DOMAIN heap')
        /\ origin \subseteq (DOMAIN heap') \X (DOMAIN heap')
        /\ child \in [orig : DOMAIN heap' \cup {0}, clone : DOMAIN heap' \cup {0}]
    BY <2>4, <2>5, TypesGrow
  <2>7. TypeOK'
    BY <2>3, <2>4, <2>6 DEF TypeOK
  <2>8. PhaseInv' /\ DeepInv' /\ ShallowInv'
    BY <2>1, <2>2, <2>3 DEF PhaseInv, DeepInv, ShallowInv
  <2> QED BY <2>2, <2>7, <2>8
<1>3. CASE DeepFails
  <2>1. /\ phase' = "next" /\ todo' = {} /\ origin' = {} /\ input' = 0
        /\ heap' = heap /\ attempts' = attempts /\ path' = path /\ deep' = deep
        /\ child' = child /\ level' = level /\ swapped' = swapped /\ built' = built
        /\ supported' = supported
    BY <1>3 DEF DeepFails
  <2>2. TypeOK'
    BY <2>1 DEF TypeOK
  <2>3. LoadedKept' /\ PhaseInv' /\ DeepInv' /\ ShallowInv'
    BY <2>1 DEF LoadedKept, PhaseInv, DeepInv, ShallowInv
  <2> QED BY <2>2, <2>3
<1>4. CASE DeepDone
  <2>1. /\ phase' = "callback" /\ todo' = todo /\ origin' = origin /\ input' = input
        /\ heap' = heap /\ attempts' = attempts /\ path' = path /\ deep' = deep
        /\ child' = child /\ level' = level /\ swapped' = swapped /\ built' = built
        /\ supported' = supported /\ phase = "deep" /\ todo = {}
    BY <1>4 DEF DeepDone
  <2>2. TypeOK'
    BY <2>1 DEF TypeOK
  <2>3. Copying /\ deep
    BY <2>1 DEF PhaseInv, DeepInv
  <2>4. <<input, Point>> \in origin
    BY <2>1, <2>3 DEF Copying
  <2>5. input \in DOMAIN heap \ DOMAIN Loaded
    BY <2>3, <2>4 DEF Copying, IsCopy
  <2>6. LoadedKept' /\ PhaseInv'
    BY <2>1, <2>5 DEF LoadedKept, PhaseInv
  <2>7. Copying'
    BY <2>1, <2>3, CopyingSame DEF Point
  <2>8. DeepInv' /\ ShallowInv'
    BY <2>1, <2>3, <2>7 DEF DeepInv, ShallowInv
  <2> QED BY <2>2, <2>6, <2>8
<1> QED BY <1>1, <1>2, <1>3, <1>4

\* What a callback does to the heap.
LoadedSame ==
    \A n \in DOMAIN Loaded :
        /\ heap'[n].kind = heap[n].kind /\ heap'[n].slots = heap[n].slots
        /\ ~EditsShared => heap'[n] = heap[n]

LEMMA CallbackKeeps ==
  ASSUME Base, NEW returned, NEW isSwap \in BOOLEAN, Callback(returned, isSwap),
         IsHeap(heap'), \A m \in DOMAIN heap : m \in DOMAIN heap', returned \in DOMAIN heap', LoadedSame
  PROVE  Base'
<1> USE DEF Base
<1>1. /\ phase' = "clone" /\ swapped' = isSwap /\ child' = [orig |-> Point, clone |-> returned]
      /\ level' = Len(path) /\ origin' = {p \in origin : p[1] # returned} \cup {<<returned, Point>>}
      /\ attempts' = attempts /\ path' = path /\ deep' = deep /\ input' = input /\ todo' = todo
      /\ built' = built /\ phase = "callback" /\ supported' = supported
  BY DEF Callback
<1>2. Len(path) \in Nat \ {0} /\ Point = path[Len(path)] /\ Point \in DOMAIN Loaded
  BY PointFacts DEF PhaseInv, Point
<1>3. Point \in DOMAIN heap'
  BY <1>2 DEF LoadedKept
<1>4. /\ input \in DOMAIN heap' \cup {0}
      /\ todo \subseteq (DOMAIN heap' \cup {0}) \X Nat \X (DOMAIN heap')
      /\ origin \subseteq (DOMAIN heap') \X (DOMAIN heap')
  <2>1. todo \subseteq (DOMAIN heap \cup {0}) \X Nat \X (DOMAIN heap)
    BY DEF TypeOK
  <2> QED BY <2>1, TypesGrow
<1>5. TypeOK'
  <2>1. child' \in [orig : DOMAIN heap' \cup {0}, clone : DOMAIN heap' \cup {0}]
    BY <1>1, <1>3
  <2>2. origin' \subseteq (DOMAIN heap') \X (DOMAIN heap')
    BY <1>1, <1>3, <1>4
  <2>3. level' \in 0 .. Len(path') /\ swapped' \in BOOLEAN
    <3>1. Len(path) \in 0 .. Len(path)
      BY <1>2
    <3> QED BY <1>1, <3>1, Zenon
  <2>4. built' = built /\ path' = path /\ attempts' = attempts /\ deep' = deep /\ phase' = "clone"
        /\ input' = input /\ todo' = todo /\ supported' = supported
    BY <1>1
  <2> QED BY <1>4, <2>1, <2>2, <2>3, <2>4 DEF TypeOK
<1>6. LoadedKept'
  BY DEF LoadedKept, LoadedSame
<1>7. PhaseInv'
  <2>1. level' \in 1 .. Len(path') /\ child'.orig = path'[level'] /\ child'.clone \in DOMAIN heap'
    BY <1>1, <1>2
  <2> QED BY <1>1, <2>1 DEF PhaseInv
<1>8. DeepInv' /\ ShallowInv'
  BY <1>1 DEF DeepInv, ShallowInv
<1> QED BY <1>5, <1>6, <1>7, <1>8

LEMMA BelowFacts == \A pos \in Below \cup {<<>>} : Len(pos) \in Nat
<1>1. \A pos \in Positions : \A k \in 1 .. Len(pos) : Len(SubSeq(pos, k, Len(pos))) \in Nat
  <2> TAKE pos \in Positions
  <2> TAKE k \in 1 .. Len(pos)
  <2>1. pos \in Seq(Nat) /\ Len(pos) \in Nat
    BY PositionFacts
  <2>2. SubSeq(pos, k, Len(pos)) \in Seq(Nat)
    BY <2>1
  <2> QED BY <2>2
<1> QED BY <1>1 DEF Below

LEMMA EditKeeps ==
  ASSUME Base, EditInput \/ EditBelow \/ Hoist
  PROVE  Base'
<1>0. phase = "callback" => /\ input \in DOMAIN heap \ DOMAIN Loaded /\ IsHeap(heap)
                            /\ input \in DOMAIN heap
  BY DEF Base, PhaseInv, TypeOK
<1>1. "edited" \in Tags
  BY DEF Tags
<1>2. CASE EditInput
  <2>1. Callback(input, FALSE) /\ phase = "callback" /\ heap' = Edited(heap, input, "edited")
    BY <1>2 DEF EditInput, Callback, Edited
  <2>2. /\ IsHeap(heap') /\ DOMAIN heap' = DOMAIN heap
        /\ \A m \in DOMAIN heap : m # input => heap'[m] = heap[m]
    BY <1>0, <1>1, <2>1, SetTag
  <2>3. LoadedSame
    BY <1>0, <2>1, <2>2 DEF LoadedSame, Base, LoadedKept
  <2> QED BY <1>0, <2>1, <2>2, <2>3, CallbackKeeps
<1>3. CASE EditBelow
  <2>1. Callback(input, FALSE) /\ phase = "callback"
    BY <1>3 DEF EditBelow, Callback
  <2>2. PICK pos \in Below : /\ At(heap, input, pos) # 0
                             /\ At(heap, input, pos) \in DOMAIN Loaded => EditsShared
                             /\ heap' = [heap EXCEPT ![At(heap, input, pos)].tag = "edited"]
    BY <1>3 DEF EditBelow
  <2> DEFINE n == At(heap, input, pos)
  <2>3. Len(pos) \in Nat
    BY BelowFacts
  <2>4. n \in DOMAIN heap
    BY <1>0, <2>1, <2>2, <2>3, WayIn
  <2>5. ~EditsShared => n \notin DOMAIN Loaded
    BY <2>2
  <2> HIDE DEF n
  <2>6. heap' = Edited(heap, n, "edited")
    BY <2>2 DEF n, Edited
  <2>7. /\ IsHeap(heap') /\ DOMAIN heap' = DOMAIN heap
        /\ \A m \in DOMAIN heap : /\ m # n => heap'[m] = heap[m]
                                  /\ heap'[m].kind = heap[m].kind /\ heap'[m].slots = heap[m].slots
    <3>1. IsHeap(heap)
      BY <1>0, <2>1
    <3> QED BY ONLY <1>1, <2>4, <2>6, <3>1, SetTag
  <2>8. LoadedSame
    BY <2>5, <2>7 DEF LoadedSame, Base, LoadedKept
  <2> QED BY <1>0, <2>1, <2>7, <2>8, CallbackKeeps
<1>4. CASE Hoist
  <2>1. PICK pos \in Below : /\ Callback(At(heap, input, pos), FALSE)
                             /\ At(heap, input, pos) # 0 /\ UNCHANGED heap
    BY <1>4 DEF Hoist
  <2>2. Len(pos) \in Nat /\ phase = "callback"
    BY <2>1, BelowFacts DEF Callback
  <2>3. At(heap, input, pos) \in DOMAIN heap
    BY <1>0, <2>1, <2>2, WayIn
  <2>4. LoadedSame
    BY <2>1 DEF LoadedSame
  <2>5. heap' = heap
    BY <2>1
  <2> DEFINE n == At(heap, input, pos)
  <2>6. Callback(n, FALSE) /\ n \in DOMAIN heap'
    BY <2>1, <2>3, <2>5
  <2> HIDE DEF n
  <2>7. IsHeap(heap') /\ \A m \in DOMAIN heap : m \in DOMAIN heap'
    BY <1>0, <2>2, <2>5
  <2> QED BY <2>4, <2>6, <2>7, CallbackKeeps
<1> QED BY <1>2, <1>3, <1>4

LEMMA EditSlotKeeps ==
  ASSUME Base, EditSlot
  PROVE  Base'
<1>1. /\ Callback(input, FALSE) /\ phase = "callback"
  BY DEF EditSlot, Callback
<1>2. input \in DOMAIN heap /\ input \notin DOMAIN Loaded /\ IsHeap(heap)
  BY <1>1 DEF Base, PhaseInv, TypeOK
<1>3. PICK k \in DOMAIN heap[input].slots, kind \in UNION {Assignable[t] : t \in DOMAIN Assignable} :
          /\ kind \in Assignable[heap[input].slots[k].type]
          /\ heap' = SetKid(Append(heap, [kind |-> kind, tag |-> "made", slots |-> <<>>]), input, k, Fresh)
  <2>1. \A k \in DOMAIN heap[input].slots : heap[input].slots[k].type \in DOMAIN Assignable
    BY <1>2, HeapFacts
  <2> QED BY <2>1 DEF EditSlot
<1> DEFINE node == [kind |-> kind, tag |-> "made", slots |-> <<>>]
           h == Append(heap, node)
<1>4. node \in Node /\ node.kind = kind /\ DOMAIN node.slots = {}
  <2>1. "made" \in Tags /\ kind \in Kinds
    BY DEF Tags, Kinds
  <2>2. DOMAIN <<>> = {} /\ <<>> \in Seq([type : DOMAIN Assignable, kid : Nat])
    OBVIOUS
  <2> QED BY <2>1, <2>2 DEF Node
<1> HIDE DEF node
<1>5. /\ IsHeap(h) /\ Len(h) = Len(heap) + 1 /\ h[Len(heap) + 1] = node
      /\ \A n \in DOMAIN heap : n \in DOMAIN h /\ h[n] = heap[n]
  BY <1>2, <1>4, AppendHeap
<1>6. Fresh = Len(heap) + 1 /\ DOMAIN h = 1 .. Len(h) /\ Len(heap) \in Nat
  BY <1>2, <1>5, HeapFacts DEF Fresh
<1>7. heap' = SetKid(h, input, k, Fresh)
  BY <1>3 DEF node
<1> HIDE DEF h
<1>8. Fresh \in DOMAIN h /\ h[Fresh].kind = kind
  BY <1>4, <1>5, <1>6
<1>9. input \in DOMAIN h /\ k \in DOMAIN h[input].slots
      /\ h[Fresh].kind \in Assignable[h[input].slots[k].type]
  BY <1>2, <1>3, <1>5, <1>8
<1>10. /\ IsHeap(heap') /\ DOMAIN heap' = DOMAIN h
       /\ \A m \in DOMAIN h : m # input => heap'[m] = h[m]
  BY ONLY <1>5, <1>7, <1>8, <1>9, KidSet
<1>11. \A m \in DOMAIN heap : m \in DOMAIN heap' /\ (m # input => heap'[m] = heap[m])
  BY <1>5, <1>10
<1>12. LoadedSame
  BY <1>2, <1>11 DEF LoadedSame, Base, LoadedKept
<1> QED BY <1>1, <1>2, <1>10, <1>11, <1>12, CallbackKeeps

LEMMA MakeKeeps ==
  ASSUME Base, Make
  PROVE  Base'
<1> DEFINE node == [heap[input] EXCEPT !.tag = "made"]
<1>1. Callback(Fresh, FALSE) /\ phase = "callback" /\ heap' = Append(heap, node)
  BY DEF Make, Callback
<1>2. input \in DOMAIN heap /\ IsHeap(heap) /\ heap[input] \in Node
  BY <1>1, HeapHere DEF Base, PhaseInv
<1>3. node \in Node /\ node.slots = heap[input].slots
  BY <1>2 DEF Node, Tags
<1> HIDE DEF node
<1>4. \A k \in DOMAIN node.slots : /\ node.slots[k].kid \in DOMAIN heap
                                  /\ heap[node.slots[k].kid].kind \in Assignable[node.slots[k].type]
  BY <1>2, <1>3, HeapFacts
<1>5. /\ IsHeap(heap') /\ Len(heap') = Len(heap) + 1
      /\ \A n \in DOMAIN heap : n \in DOMAIN heap' /\ heap'[n] = heap[n]
  BY <1>1, <1>2, <1>3, <1>4, AppendHeap
<1>6. Fresh \in DOMAIN heap'
  BY <1>2, <1>5, HeapFacts DEF Fresh
<1>7. LoadedSame
  BY <1>5 DEF LoadedSame, Base, LoadedKept
<1> QED BY <1>1, <1>5, <1>6, <1>7, CallbackKeeps

LEMMA SwapFacts ==
  ASSUME Base, SwapFunction \/ SwapMethod
  PROVE  /\ Callback(Fresh, TRUE) /\ phase = "callback" /\ input \in DOMAIN heap
         /\ \E s \in Spines(heap, input) : /\ IsSpine(heap, s) /\ s[1] = input /\ Last(s) = s[Len(s)]
                                           /\ MaySwap(s) /\ heap' = heap \o Renamed(s)
<1>1. PICK s \in Spines(heap, input) : Callback(Fresh, TRUE) /\ MaySwap(s) /\ heap' = heap \o Renamed(s)
  BY DEF SwapFunction, SwapMethod
<1>2. phase = "callback" /\ input \in DOMAIN heap
  BY <1>1 DEF Callback, Base, PhaseInv
<1>3. IsSpine(heap, s) /\ s[1] = input /\ Last(s) = s[Len(s)]
  BY <1>2, HeapHere, SpineFacts DEF Base
<1> QED BY <1>1, <1>2, <1>3

LEMMA SwapKeeps ==
  ASSUME Base, SwapFunction \/ SwapMethod
  PROVE  Base'
<1>1. Callback(Fresh, TRUE)
  BY SwapFacts
<1>2. PICK s : IsSpine(heap, s) /\ heap' = heap \o Renamed(s)
  BY SwapFacts
<1>3. /\ IsHeap(heap') /\ Len(heap') = Len(heap) + Len(s)
      /\ \A n \in DOMAIN heap : n \in DOMAIN heap' /\ heap'[n] = heap[n]
      /\ \A k \in 1 .. Len(s) : Len(heap) + k \in DOMAIN heap'
  <2>1. IsHeap(heap)
    BY HeapHere DEF Base
  <2>2. SpineAdded(heap', s)
    BY ONLY <1>2, <2>1, SpineCopied, Zenon
  <2> QED BY <2>2 DEF SpineAdded
<1>4. Fresh \in DOMAIN heap'
  BY <1>2, <1>3 DEF IsSpine, Fresh
<1>5. LoadedSame
  BY <1>3 DEF LoadedSame, Base, LoadedKept
<1> QED BY <1>1, <1>3, <1>4, <1>5, CallbackKeeps

LEMMA StutterKeeps ==
  ASSUME Base, UNCHANGED vars
  PROVE  Base'
<1>1. /\ heap' = heap /\ phase' = phase /\ attempts' = attempts /\ path' = path /\ deep' = deep
      /\ input' = input /\ todo' = todo /\ origin' = origin /\ child' = child /\ level' = level
      /\ swapped' = swapped /\ built' = built /\ supported' = supported /\ Point' = Point
  BY DEF vars, Point
<1>2. TypeOK'
  BY <1>1 DEF Base, TypeOK
<1>3. LoadedKept' /\ PhaseInv' /\ ShallowInv'
  BY <1>1 DEF Base, LoadedKept, PhaseInv, ShallowInv
<1>4. Copying => Copying'
  BY <1>1, CopyingSame
<1>5. DeepInv'
  BY <1>1, <1>4 DEF Base, DeepInv
<1> QED BY <1>2, <1>3, <1>5 DEF Base

LEMMA FailKeeps ==
  ASSUME Base, Decline \/ CloneFails \/ Finished
  PROVE  Base'
<1>1. CASE Finished
  <2>1. UNCHANGED vars
    BY <1>1 DEF Finished
  <2> QED BY <2>1, StutterKeeps
<1>2. CASE Decline \/ CloneFails
  <2>1. /\ phase' = "next" /\ todo' = todo /\ origin' = {} /\ input' = 0
        /\ heap' = heap /\ attempts' = attempts /\ path' = path /\ deep' = deep
        /\ child' = child /\ level' = level /\ built' = built /\ swapped' = swapped /\ phase # "deep"
        /\ supported' = supported
    BY <1>2 DEF Decline, CloneFails
  <2>2. TypeOK'
    BY <2>1 DEF Base, TypeOK
  <2>3. LoadedKept' /\ PhaseInv' /\ DeepInv' /\ ShallowInv'
    BY <2>1 DEF Base, LoadedKept, PhaseInv, DeepInv, ShallowInv
  <2> QED BY <2>2, <2>3 DEF Base
<1> QED BY <1>1, <1>2

\* What ClonePath does for a node of the path: the node is copied, and in the
\* copy the clone takes the place of the path's next node.
UpDone(parent, k) ==
    /\ IsHeap(heap') /\ Fresh \in DOMAIN heap'
    /\ \A m \in DOMAIN heap : m \in DOMAIN heap' /\ heap'[m] = heap[m]
    /\ heap'[Fresh].kind = heap[parent].kind /\ heap'[Fresh].tag = heap[parent].tag
    /\ DOMAIN heap'[Fresh].slots = DOMAIN Loaded[parent].slots
    /\ heap'[Fresh].slots[k].kid = child.clone
    /\ \A j \in DOMAIN Loaded[parent].slots :
           j # k => heap'[Fresh].slots[j].kid = Loaded[parent].slots[j].kid

LEMMA UpFacts ==
  ASSUME Base, CloneUp
  PROVE  /\ level \in 2 .. Len(path) /\ path[level - 1] \in DOMAIN Loaded
         /\ child.orig = path[level] /\ child.clone \in DOMAIN heap
         /\ \E k \in DOMAIN Loaded[path[level - 1]].slots :
                /\ Loaded[path[level - 1]].slots[k].kid = path[level]
                /\ UpDone(path[level - 1], k)
<1> DEFINE parent == path[level - 1]
           h == ShallowCopy(heap, parent)
<1>1. /\ level \in 1 .. Len(path) /\ level > 1 /\ child.orig = path[level] /\ child.clone \in DOMAIN heap
  BY DEF CloneUp, Base, PhaseInv
<1>2. level \in 2 .. Len(path) /\ parent \in DOMAIN Loaded
  <2>1. Len(path) \in Nat /\ \A i \in 1 .. Len(path) : path[i] \in DOMAIN Loaded
    BY PointFacts DEF Base, PhaseInv
  <2>2. level \in 2 .. Len(path) /\ level - 1 \in 1 .. Len(path)
    BY <1>1, <2>1
  <2> QED BY <2>1, <2>2
<1>3. Slots(heap, parent, child.orig, child.clone) # {}
  BY DEF CloneUp, CanCloneUp
<1>4. heap' = ReplaceChild(h, Fresh, child.orig, child.clone)
  BY DEF CloneUp
<1> HIDE DEF parent
<1>5. parent \in DOMAIN heap /\ heap[parent].slots = Loaded[parent].slots
  BY <1>2 DEF Base, LoadedKept
<1>6. /\ IsHeap(h) /\ Fresh \in DOMAIN h /\ h[Fresh] = heap[parent]
      /\ \A m \in DOMAIN heap : m \in DOMAIN h /\ h[m] = heap[m]
  BY <1>5, CopyMade DEF Base
<1> HIDE DEF h
<1>7. Slots(h, Fresh, child.orig, child.clone) # {}
  <2>1. h[child.clone] = heap[child.clone]
    BY <1>1, <1>6
  <2> QED BY <1>3, <1>6, <2>1 DEF Slots, Matches
<1>8. child.clone \in DOMAIN h
  BY <1>1, <1>6
<1>9. PICK k \in DOMAIN h[Fresh].slots :
          /\ h[Fresh].slots[k].kid = child.orig
          /\ h[child.clone].kind \in Assignable[h[Fresh].slots[k].type]
          /\ heap' = SetKid(h, Fresh, k, child.clone)
  <2>1. \E k \in DOMAIN h[Fresh].slots :
          /\ h[Fresh].slots[k].kid = child.orig
          /\ h[child.clone].kind \in Assignable[h[Fresh].slots[k].type]
          /\ ReplaceChild(h, Fresh, child.orig, child.clone) = SetKid(h, Fresh, k, child.clone)
    BY <1>6, <1>7, <1>8, Replaced
  <2> QED BY <1>4, <2>1
<1>10. /\ IsHeap(heap') /\ DOMAIN heap' = DOMAIN h
       /\ \A m \in DOMAIN h : /\ m # Fresh => heap'[m] = h[m]
                              /\ heap'[m].kind = h[m].kind /\ heap'[m].tag = h[m].tag
                              /\ DOMAIN heap'[m].slots = DOMAIN h[m].slots
       /\ heap'[Fresh].slots[k].kid = child.clone
       /\ \A j \in DOMAIN h[Fresh].slots : j # k => heap'[Fresh].slots[j] = h[Fresh].slots[j]
  <2>1. /\ h[child.clone].kind \in Assignable[h[Fresh].slots[k].type]
        /\ heap' = SetKid(h, Fresh, k, child.clone)
    BY <1>9
  <2> QED BY ONLY <1>6, <1>8, <2>1, KidSet
<1>11. Fresh \notin DOMAIN heap
  BY HeapHere DEF Base
<1>12. k \in DOMAIN Loaded[parent].slots /\ Loaded[parent].slots[k].kid = path[level]
  BY <1>1, <1>5, <1>6, <1>9
<1>13. UpDone(parent, k)
  <2>1. \A m \in DOMAIN heap : m \in DOMAIN heap' /\ heap'[m] = heap[m]
    BY <1>6, <1>10, <1>11
  <2> QED BY <1>5, <1>6, <1>10, <2>1 DEF UpDone
<1> QED BY <1>1, <1>2, <1>12, <1>13 DEF parent

LEMMA CloneUpKeeps ==
  ASSUME Base, CloneUp
  PROVE  Base'
<1> DEFINE parent == path[level - 1]
<1>1. level \in 2 .. Len(path) /\ parent \in DOMAIN Loaded
  BY UpFacts
<1>2. /\ IsHeap(heap') /\ Fresh \in DOMAIN heap'
      /\ \A m \in DOMAIN heap : m \in DOMAIN heap' /\ heap'[m] = heap[m]
  BY UpFacts DEF UpDone
<1>3. /\ child' = [orig |-> parent, clone |-> Fresh] /\ level' = level - 1
      /\ origin' = origin \cup {<<Fresh, parent>>}
      /\ phase' = phase /\ attempts' = attempts /\ path' = path /\ deep' = deep /\ input' = input
      /\ todo' = todo /\ swapped' = swapped /\ built' = built /\ phase = "clone"
      /\ supported' = supported
  BY DEF CloneUp
<1>4. parent \in DOMAIN heap'
  BY <1>1, <1>2 DEF Base, LoadedKept
<1>5. level' \in 1 .. Len(path) /\ level' \in 0 .. Len(path) /\ child'.orig = path[level']
  <2>1. Len(path) \in Nat
    BY PointFacts DEF Base, PhaseInv
  <2> QED BY <1>1, <1>3, <2>1
<1>6. /\ input \in DOMAIN heap' \cup {0}
      /\ todo \subseteq (DOMAIN heap' \cup {0}) \X Nat \X (DOMAIN heap')
      /\ origin \subseteq (DOMAIN heap') \X (DOMAIN heap')
  <2>1. todo \subseteq (DOMAIN heap \cup {0}) \X Nat \X (DOMAIN heap) /\ TypeOK
    BY DEF Base, TypeOK
  <2> QED BY <1>2, <2>1, TypesGrow
<1> HIDE DEF parent
<1>7. TypeOK'
  <2>1. child' \in [orig : DOMAIN heap' \cup {0}, clone : DOMAIN heap' \cup {0}]
    BY <1>2, <1>3, <1>4
  <2>2. origin' \subseteq (DOMAIN heap') \X (DOMAIN heap')
    BY <1>2, <1>3, <1>4, <1>6
  <2>3. built' = built /\ path' = path /\ attempts' = attempts /\ deep' = deep /\ phase' = phase
        /\ input' = input /\ todo' = todo /\ swapped' = swapped /\ supported' = supported
    BY <1>3
  <2> QED BY <1>2, <1>5, <1>6, <2>1, <2>2, <2>3 DEF Base, TypeOK
<1>8. LoadedKept'
  BY <1>2 DEF Base, LoadedKept
<1>9. PhaseInv'
  <2>1. level' \in 1 .. Len(path') /\ child'.orig = path'[level'] /\ child'.clone \in DOMAIN heap'
    BY <1>2, <1>3, <1>5
  <2> QED BY <1>3, <2>1 DEF Base, PhaseInv
<1>10. DeepInv' /\ ShallowInv'
  BY <1>3 DEF DeepInv, ShallowInv
<1> QED BY <1>7, <1>8, <1>9, <1>10 DEF Base

\* What is printed of a file.
LEMMA TextFacts ==
  ASSUME Base, NEW file \in DOMAIN heap
  PROVE  Text(heap, file) \in Texts
<1>1. \A pos \in Positions : At(heap, file, pos) \in DOMAIN heap \cup {0}
  BY PositionFacts, HeapHere, WayIn DEF Base
<1>2. \A n \in DOMAIN heap : heap[n].tag \in Tags
  BY HeapHere, HeapFacts DEF Base
<1> QED BY <1>1, <1>2 DEF Text, Texts

LEMMA CloneDoneKeeps ==
  ASSUME Base, CloneDone
  PROVE  Base'
<1>1. /\ phase' = "next" /\ todo' = todo /\ origin' = {} /\ input' = 0
      /\ heap' = heap /\ attempts' = attempts /\ path' = path /\ deep' = deep
      /\ child' = child /\ level' = level /\ swapped' = swapped /\ phase = "clone" /\ supported' = supported
      /\ built' = Append(built, [path |-> path, text |-> Text(heap, child.clone), swapped |-> swapped])
  BY DEF CloneDone
<1>2. child.clone \in DOMAIN heap
  BY <1>1 DEF Base, PhaseInv
<1> DEFINE file == [path |-> path, text |-> Text(heap, child.clone), swapped |-> swapped]
           Files == [path : Seq(DOMAIN Loaded), text : Texts, swapped : BOOLEAN]
<1>3. file \in Files
  <2>1. Text(heap, child.clone) \in Texts
    BY <1>2, TextFacts
  <2>2. path \in Seq(DOMAIN Loaded) /\ swapped \in BOOLEAN
    BY DEF Base, TypeOK
  <2> QED BY <2>1, <2>2
<1>4. built \in Seq(Files) /\ Len(built) < attempts /\ attempts \in 0 .. MaxAttempts
  BY <1>1 DEF Base, TypeOK, PhaseInv
<1>5. built' = Append(built, file)
  BY <1>1
<1> HIDE DEF file, Files
<1>6. built' \in Seq(Files) /\ Len(built') =< attempts
  <2>1. built' \in Seq(Files) /\ Len(built') = Len(built) + 1 /\ Len(built) \in Nat
    BY <1>3, <1>4, <1>5
  <2>2. attempts \in Nat /\ Len(built) < attempts
    BY <1>4, RulesAssumption
  <2> QED BY <2>1, <2>2
<1>7. TypeOK'
  BY <1>1, <1>6 DEF Base, TypeOK, Files
<1>8. LoadedKept' /\ PhaseInv' /\ DeepInv' /\ ShallowInv'
  BY <1>1 DEF Base, LoadedKept, PhaseInv, DeepInv, ShallowInv
<1> QED BY <1>7, <1>8 DEF Base

LEMMA BaseInit ==
  ASSUME Init
  PROVE  Base
<1>1. /\ heap = Loaded /\ phase = "next" /\ attempts = 0 /\ path = <<1>> /\ deep = FALSE /\ input = 0
      /\ todo = {} /\ origin = {} /\ child = NoChild /\ level = 0 /\ swapped = FALSE /\ built = <<>>
      /\ supported \in Releases
  BY DEF Init
<1>2. IsHeap(heap) /\ 1 \in DOMAIN Loaded
  BY <1>1, LoadedAssumption, LoadedFacts
<1>3. path \in Seq(DOMAIN Loaded) /\ path # <<>> /\ path[1] = 1 /\ Len(path) = 1
  BY <1>1, <1>2
<1>4. IsPath(path)
  BY <1>3 DEF IsPath
<1>5. TypeOK
  <2>1. attempts \in 0 .. MaxAttempts /\ level \in 0 .. Len(path)
    BY <1>1, <1>3, RulesAssumption
  <2>2. /\ child \in [orig : DOMAIN heap \cup {0}, clone : DOMAIN heap \cup {0}]
        /\ origin \subseteq (DOMAIN heap) \X (DOMAIN heap) /\ input \in DOMAIN heap \cup {0}
    BY <1>1 DEF NoChild
  <2>3. todo \subseteq (DOMAIN heap \cup {0}) \X Nat \X (DOMAIN heap)
    BY <1>1
  <2>4. /\ built \in Seq([path : Seq(DOMAIN Loaded), text : Texts, swapped : BOOLEAN])
        /\ Len(built) =< attempts
    BY <1>1
  <2>5. phase = "next" /\ deep \in BOOLEAN /\ swapped \in BOOLEAN /\ supported \in Releases
    BY <1>1
  <2> QED BY <1>2, <1>3, <2>1, <2>2, <2>3, <2>4, <2>5 DEF TypeOK
<1>6. LoadedKept /\ PhaseInv /\ DeepInv /\ ShallowInv
  BY <1>1, <1>4 DEF LoadedKept, PhaseInv, DeepInv, ShallowInv
<1> QED BY <1>5, <1>6 DEF Base

LEMMA BaseStep ==
  ASSUME Base, [Next]_vars
  PROVE  Base'
<1>1. CASE UNCHANGED vars
  BY <1>1, StutterKeeps
<1>2. ASSUME NEW pos \in Points, BeginShallow(pos) PROVE Base'
  BY <1>2, BeginShallowKeeps
<1>3. ASSUME NEW pos \in Points, BeginDeep(pos) PROVE Base'
  BY <1>3, BeginDeepKeeps
<1>4. ASSUME NEW pos \in Points, BeginFails(pos) PROVE Base'
  BY <1>4, BeginFailsKeeps
<1>5. CASE DeepVisit \/ DeepMeet \/ DeepFails \/ DeepDone
  BY <1>5, DeepKeeps
<1>6. CASE EditInput \/ EditBelow \/ Hoist
  BY <1>6, EditKeeps
<1>7. CASE EditSlot
  BY <1>7, EditSlotKeeps
<1>8. CASE Make
  BY <1>8, MakeKeeps
<1>9. CASE SwapFunction \/ SwapMethod
  BY <1>9, SwapKeeps
<1>10. CASE Decline \/ CloneFails \/ Finished
  BY <1>10, FailKeeps
<1>11. CASE CloneUp
  BY <1>11, CloneUpKeeps
<1>12. CASE CloneDone
  BY <1>12, CloneDoneKeeps
<1> QED BY <1>1, <1>2, <1>3, <1>4, <1>5, <1>6, <1>7, <1>8, <1>9, <1>10, <1>11, <1>12 DEF Next

LEMMA BaseHolds == Spec => []Base
<1>1. Init => Base
  BY BaseInit
<1>2. Base /\ [Next]_vars => Base'
  BY BaseStep
<1> QED BY <1>1, <1>2, PTL DEF Spec

\* Every variable holds a value of its kind, and a slot of a node of the heap
\* holds a node of a kind it accepts, however the copies and the callbacks change it.
THEOREM TypeCorrect == Spec => []TypeOK
<1>1. Base => TypeOK
  BY DEF Base
<1> QED BY <1>1, BaseHolds, PTL

\* Copying a subtree, the callback and cloning the path write to no node that was
\* loaded, unless a callback edits what its shallow copy shares.
THEOREM UntouchedCorrect ==
  ASSUME ~EditsShared
  PROVE  Spec => []LoadedUntouched
<1>1. Base => LoadedUntouched
  BY DEF Base, LoadedKept, LoadedUntouched
<1> QED BY <1>1, BaseHolds, PTL

-----------------------------------------------------------------------------
(***************************************************************************)
(* What the callback's node is a copy of.                                  *)
(***************************************************************************)
\* Nodes of the loaded file, with the nodes the callback meets in their places.
Related == {<<p[2], p[1]>> : p \in origin} \cup {<<n, n>> : n \in DOMAIN Loaded \cup {0}}

LEMMA CopiesHere ==
  ASSUME Base, phase = "callback"
  PROVE  /\ <<input, Point>> \in origin /\ todo = {} /\ Point \in DOMAIN Loaded
         /\ \A p \in origin : p = <<p[1], p[2]>> /\ IsCopy(p[1], p[2])
         /\ \A p, q \in origin : p[1] = q[1] \/ p[2] = q[2] => p = q
         /\ deep => Copying
<1> USE DEF Base
<1>1. todo = {} /\ Point \in DOMAIN Loaded /\ \A p \in origin : p = <<p[1], p[2]>>
  BY PointFacts DEF PhaseInv, TypeOK
<1>2. CASE deep
  BY <1>1, <1>2 DEF DeepInv, Copying
<1>3. CASE ~deep
  <2>1. heap[input] = heap[Point] /\ origin = {<<input, Point>>}
    BY <1>3 DEF ShallowInv
  <2>2. heap[Point].slots = Loaded[Point].slots /\ input \in DOMAIN heap \ DOMAIN Loaded
    BY <1>1 DEF LoadedKept, PhaseInv
  <2>3. IsCopy(input, Point)
    BY <1>1, <2>1, <2>2 DEF IsCopy
  <2> QED BY <1>1, <1>3, <2>1, <2>3
<1> QED BY <1>2, <1>3

LEMMA RelatedFacts ==
  ASSUME Base, phase = "callback", NEW x \in Related
  PROVE  /\ x = <<x[1], x[2]>> /\ x[1] \in DOMAIN Loaded \cup {0} /\ x[2] \in DOMAIN heap \cup {0}
         /\ x[1] = 0 <=> x[2] = 0
         /\ x[1] # 0 => /\ heap[x[2]].kind = heap[x[1]].kind /\ heap[x[2]].tag = heap[x[1]].tag
                        /\ heap[x[2]].kind = Loaded[x[1]].kind
                        /\ ~EditsShared => heap[x[2]].tag = Loaded[x[1]].tag
                        /\ Len(heap[x[2]].slots) = Len(Loaded[x[1]].slots)
         /\ \A k : /\ <<Kid(heap, x[1], k), Kid(heap, x[2], k)>> \in Related
                   /\ <<Kid(Loaded, x[1], k), Kid(heap, x[2], k)>> \in Related
<1> USE DEF Base
<1>1. PICK n, c : /\ x = <<n, c>>
                  /\ (c = n /\ n \in DOMAIN Loaded \cup {0}) \/ <<c, n>> \in origin
  <2>1. CASE x \in {<<n, n>> : n \in DOMAIN Loaded \cup {0}}
    BY <2>1
  <2>2. ASSUME NEW p \in origin, x = <<p[2], p[1]>>
        PROVE  \E n, c : x = <<n, c>> /\ <<c, n>> \in origin
    <3>1. p = <<p[1], p[2]>>
      BY DEF TypeOK
    <3> QED BY <2>2, <3>1
  <2> QED BY <2>1, <2>2 DEF Related
<1>2. IsHeap(Loaded) /\ IsHeap(heap) /\ 0 \notin DOMAIN heap /\ 0 \notin DOMAIN Loaded
  BY HeapHere, LoadedFacts
<1>3. \A m \in DOMAIN Loaded : /\ m \in DOMAIN heap /\ heap[m].kind = Loaded[m].kind
                               /\ heap[m].slots = Loaded[m].slots
                               /\ ~EditsShared => heap[m].tag = Loaded[m].tag
  BY DEF LoadedKept
<1>4. \A m \in DOMAIN Loaded : \A k \in DOMAIN Loaded[m].slots : Loaded[m].slots[k].kid \in DOMAIN Loaded
  BY <1>2, HeapFacts
<1>5. \A m \in DOMAIN Loaded \cup {0} : <<m, m>> \in Related
  BY DEF Related
<1>6. \A k : Kid(heap, n, k) = Kid(Loaded, n, k) /\ Kid(Loaded, n, k) \in DOMAIN Loaded \cup {0}
  <2>1. n \in DOMAIN Loaded \cup {0}
    BY <1>1, CopiesHere DEF IsCopy
  <2> QED BY <2>1, <1>2, <1>3, <1>4 DEF Kid
<1>7. CASE c = n /\ n \in DOMAIN Loaded \cup {0}
  <2>1. \A k : <<Kid(Loaded, n, k), Kid(heap, n, k)>> \in Related
    BY <1>5, <1>6
  <2>2. n # 0 => heap[n].kind = Loaded[n].kind /\ heap[n].slots = Loaded[n].slots /\ n \in DOMAIN heap
                 /\ (~EditsShared => heap[n].tag = Loaded[n].tag)
    BY <1>3, <1>7
  <2> QED BY <1>1, <1>6, <1>7, <2>1, <2>2
<1>8. CASE <<c, n>> \in origin
  <2>1. IsCopy(c, n)
    BY <1>8, CopiesHere
  <2>2. /\ n # 0 /\ c # 0 /\ n \in DOMAIN Loaded /\ c \in DOMAIN heap
        /\ heap[c].kind = heap[n].kind /\ heap[c].tag = heap[n].tag
        /\ DOMAIN heap[c].slots = DOMAIN Loaded[n].slots
    BY <2>1, <1>2 DEF IsCopy
  <2>3. Len(heap[c].slots) = Len(Loaded[n].slots)
    <3>1. /\ Len(heap[c].slots) \in Nat /\ DOMAIN heap[c].slots = 1 .. Len(heap[c].slots)
          /\ Len(Loaded[n].slots) \in Nat /\ DOMAIN Loaded[n].slots = 1 .. Len(Loaded[n].slots)
      BY <1>2, <2>2, HeapFacts
    <3>2. \A a, b \in Nat : 1 .. a = 1 .. b => a = b
      OBVIOUS
    <3> QED BY <2>2, <3>1, <3>2
  <2>4. \A k : <<Kid(Loaded, n, k), Kid(heap, c, k)>> \in Related
    <3> TAKE k
    <3>1. CASE k \in DOMAIN Loaded[n].slots
      <4>1. /\ Kid(Loaded, n, k) = Loaded[n].slots[k].kid /\ Kid(heap, c, k) = heap[c].slots[k].kid
            /\ Loaded[n].slots[k].kid \in DOMAIN Loaded
        BY <1>4, <2>2, <3>1 DEF Kid
      <4>2. CASE heap[c].slots[k].kid = Loaded[n].slots[k].kid
        BY <1>5, <4>1, <4>2
      <4>3. CASE <<heap[c].slots[k].kid, Loaded[n].slots[k].kid>> \in origin
        <5> DEFINE q == <<heap[c].slots[k].kid, Loaded[n].slots[k].kid>>
        <5>1. <<q[2], q[1]>> \in Related
          BY <4>3 DEF Related
        <5> QED BY <4>1, <5>1
      <4> QED BY <2>1, <3>1, <4>2, <4>3 DEF IsCopy
    <3>2. CASE k \notin DOMAIN Loaded[n].slots
      <4>1. Kid(Loaded, n, k) = 0 /\ Kid(heap, c, k) = 0
        BY <2>2, <3>2 DEF Kid
      <4> QED BY <1>5, <4>1
    <3> QED BY <3>1, <3>2
  <2>5. heap[n].kind = Loaded[n].kind /\ (~EditsShared => heap[n].tag = Loaded[n].tag)
    BY <1>3, <2>2
  <2> QED BY <1>1, <1>6, <2>2, <2>3, <2>4, <2>5
<1> QED BY <1>1, <1>7, <1>8

\* Positions lead to related nodes.
LEMMA RelatedAt ==
  ASSUME Base, phase = "callback", NEW pos, Len(pos) \in Nat
  PROVE  /\ <<At(heap, Point, pos), At(heap, input, pos)>> \in Related
         /\ \A k \in 0 .. Len(pos) : Way(heap, Point, pos)[k] = Way(Loaded, Point, pos)[k]
<1> DEFINE Avoided == {}
           Ident == {<<n, n>> : n \in DOMAIN Loaded \cup {0}}
<1>1. <<Point, input>> \in Related /\ <<Point, Point>> \in Ident
  <2>1. <<input, Point>> \in origin /\ Point \in DOMAIN Loaded
    BY CopiesHere
  <2> DEFINE p == <<input, Point>>
  <2>2. <<p[2], p[1]>> \in Related
    BY <2>1 DEF Related
  <2> QED BY <2>1, <2>2
<1>2. \A x \in Related : \A k : <<Kid(heap, x[1], k), Kid(heap, x[2], k)>> \in Related
  BY RelatedFacts
<1>3. \A k \in 0 .. Len(pos) : <<Way(heap, Point, pos)[k], Way(heap, input, pos)[k]>> \in Related
  <2>1. \A x \in Related : \A k : x[1] \notin Avoided /\ Kid(heap, x[1], k) \notin Avoided
                                   => <<Kid(heap, x[1], k), Kid(heap, x[2], k)>> \in Related
    BY <1>2
  <2>2. \A k \in 0 .. Len(pos) : Way(heap, Point, pos)[k] \notin Avoided
    OBVIOUS
  <2> HIDE DEF Avoided
  <2> QED BY <1>1, <2>1, <2>2, SideBySide
<1>4. \A x \in Ident : \A k : <<Kid(heap, x[1], k), Kid(Loaded, x[2], k)>> \in Ident
  <2>1. \A m \in DOMAIN Loaded : heap[m].slots = Loaded[m].slots
    BY DEF Base, LoadedKept
  <2>2. \A m \in DOMAIN Loaded : \A k \in DOMAIN Loaded[m].slots : Loaded[m].slots[k].kid \in DOMAIN Loaded
    BY LoadedFacts, HeapFacts
  <2> QED BY <2>1, <2>2 DEF Kid
<1>5. \A k \in 0 .. Len(pos) : <<Way(heap, Point, pos)[k], Way(Loaded, Point, pos)[k]>> \in Ident
  <2>1. \A x \in Ident : \A k : x[1] \notin Avoided /\ Kid(heap, x[1], k) \notin Avoided
                                 => <<Kid(heap, x[1], k), Kid(Loaded, x[2], k)>> \in Ident
    BY <1>4
  <2>2. \A k \in 0 .. Len(pos) : Way(heap, Point, pos)[k] \notin Avoided
    OBVIOUS
  <2> HIDE DEF Avoided, Ident
  <2> QED BY <1>1, <2>1, <2>2, SideBySide
<1>6. \A k \in 0 .. Len(pos) : Way(heap, Point, pos)[k] = Way(Loaded, Point, pos)[k]
  BY <1>5
<1> QED BY <1>3, <1>6 DEF At

\* Only the file has slots that stay unfilled.
LEMMA UnfilledFacts ==
  ASSUME NEW n \in DOMAIN Loaded, NEW k \in DOMAIN Loaded[n].slots, ~IsFilled(n, k)
  PROVE  n = 1
<1> DEFINE m == Loaded[n].slots[k].kid
           B == {j \in Same(n, m) : j < k}
<1>1. ~(Cardinality(B) < Cardinality(Walked(n, m)))
  BY DEF IsFilled, Same, Walked
<1>2. SUFFICES ASSUME Walked(n, m) = Same(n, m) PROVE FALSE
  <2>1. PICK j \in Same(n, m) : ~IsWalked(Loaded[n].slots[j])
    BY <1>2 DEF Walked
  <2> QED BY <2>1, LoadedAssumption DEF Same, IsWalked
<1>3. k \in Same(n, m) /\ B \subseteq Same(n, m) /\ Same(n, m) \subseteq Nat
  BY SlotSets DEF Same
<1>4. k \notin B
  BY <1>3
<1>5. /\ IsFiniteSet(B) /\ IsFiniteSet(Same(n, m))
      /\ Cardinality(B) \in Nat /\ Cardinality(Same(n, m)) \in Nat
  BY <1>3, SlotSets
<1> HIDE DEF m, B
<1>6. Cardinality(B) =< Cardinality(Same(n, m))
      /\ (Cardinality(Same(n, m)) = Cardinality(B) => B = Same(n, m))
  BY <1>3, <1>5, FS_Subset
<1> QED BY <1>1, <1>2, <1>3, <1>4, <1>5, <1>6

\* Where all the slots on the way are filled, there is a copy.
LEMMA CopiedAt ==
  ASSUME Base, phase = "callback", deep, NEW pos, Len(pos) \in Nat, At(heap, Point, pos) # 0,
         \A k \in 1 .. Len(pos) : IsFilled(Way(Loaded, Point, pos)[k - 1], pos[k])
  PROVE  <<At(heap, input, pos), At(heap, Point, pos)>> \in origin
<1> DEFINE v == Way(heap, Point, pos)
           w == Way(heap, input, pos)
           S == {k \in 0 .. Len(pos) : <<w[k], v[k]>> \in origin}
<1>1. /\ v[0] = Point /\ \A k \in 1 .. Len(pos) : v[k] = Kid(heap, v[k - 1], pos[k])
      /\ w[0] = input /\ \A k \in 1 .. Len(pos) : w[k] = Kid(heap, w[k - 1], pos[k])
  BY WayFacts
<1>2. \A k \in 0 .. Len(pos) : v[k] = Way(Loaded, Point, pos)[k] /\ v[k] # 0
  <2>1. \A k \in 0 .. Len(pos) : Way(heap, Point, pos)[k] # 0
    BY WayNotZero
  <2>2. \A k \in 0 .. Len(pos) : Way(heap, Point, pos)[k] = Way(Loaded, Point, pos)[k]
    BY RelatedAt
  <2> QED BY ONLY <2>1, <2>2
<1>3. \A k \in 1 .. Len(pos) : IsFilled(v[k - 1], pos[k])
  <2>1. \A k \in 1 .. Len(pos) : k - 1 \in 0 .. Len(pos)
    OBVIOUS
  <2> QED BY <1>2, <2>1
<1> HIDE DEF v, w
<1>4. 0 \in S
  BY <1>1, CopiesHere
<1>5. \A k \in 1 .. Len(pos) : k - 1 \in S => k \in S
  <2> SUFFICES ASSUME NEW k \in 1 .. Len(pos), <<w[k - 1], v[k - 1]>> \in origin
               PROVE  <<w[k], v[k]>> \in origin
    OBVIOUS
  <2> DEFINE c == w[k - 1]
             n == v[k - 1]
             m == Loaded[n].slots[pos[k]].kid
  <2>1. Copying /\ IsCopy(c, n) /\ todo = {}
    BY CopiesHere
  <2>2. v[k] = Kid(heap, n, pos[k]) /\ w[k] = Kid(heap, c, pos[k]) /\ v[k] # 0 /\ IsFilled(n, pos[k])
    BY <1>1, <1>2, <1>3
  <2> HIDE DEF n, c
  <2>3. /\ n \in DOMAIN Loaded /\ heap[n].slots = Loaded[n].slots /\ n # 0
        /\ c \in DOMAIN heap /\ c # 0 /\ DOMAIN heap[c].slots = DOMAIN Loaded[n].slots
    BY <2>1, HeapHere, LoadedFacts DEF IsCopy, Base, LoadedKept
  <2>4. pos[k] \in DOMAIN Loaded[n].slots /\ v[k] = m /\ w[k] = heap[c].slots[pos[k]].kid
    BY <2>2, <2>3 DEF Kid
  <2>5. m \in DOMAIN Loaded
    BY <2>3, <2>4, HeapFacts, LoadedFacts
  <2>6. InOrder(c, n, m)
    <3> HIDE DEF m
    <3> DEFINE p == <<c, n>>
    <3>1. p \in origin /\ p[1] = c /\ p[2] = n
      BY DEF c, n
    <3> QED BY <2>1, <2>5, <3>1 DEF Copying
  <2>7. pos[k] \in Filled(c, n, m)
    BY <2>1, <2>2, <2>3, <2>4, <2>6, FilledAtLast
  <2>8. heap[c].slots[pos[k]].kid # m
    BY <2>7 DEF Filled
  <2>9. <<heap[c].slots[pos[k]].kid, m>> \in origin
    BY <2>1, <2>4, <2>8 DEF IsCopy
  <2> QED BY <2>4, <2>9
<1> HIDE DEF S
<1>6. Len(pos) \in S
  <2>1. \A k \in 0 .. Len(pos) : k \in S
    BY <1>4, <1>5, UpTo
  <2> QED BY <2>1
<1> QED BY <1>6 DEF S, v, w, At

\* Where one is not, the point is the file, and the copy holds what the file does.
LEMMA SharedAt ==
  ASSUME Base, phase = "callback", deep, NEW pos, Len(pos) \in Nat, At(heap, Point, pos) # 0,
         NEW k \in 1 .. Len(pos), ~IsFilled(Way(Loaded, Point, pos)[k - 1], pos[k])
  PROVE  At(heap, input, pos) = At(heap, Point, pos) /\ Loaded[Point].kind = "File"
<1> DEFINE v == Way(heap, Point, pos)
           w == Way(heap, input, pos)
<1>1. /\ v[0] = Point /\ \A j \in 1 .. Len(pos) : v[j] = Kid(heap, v[j - 1], pos[j])
      /\ w[0] = input /\ \A j \in 1 .. Len(pos) : w[j] = Kid(heap, w[j - 1], pos[j])
  BY WayFacts
<1>2. /\ \A j \in 0 .. Len(pos) : v[j] = Way(Loaded, Point, pos)[j] /\ v[j] # 0
      /\ k - 1 \in 0 .. Len(pos) /\ v[Len(pos)] = At(heap, Point, pos) /\ w[Len(pos)] = At(heap, input, pos)
  <2>1. \A j \in 0 .. Len(pos) : Way(heap, Point, pos)[j] # 0
    BY WayNotZero
  <2>2. \A j \in 0 .. Len(pos) : Way(heap, Point, pos)[j] = Way(Loaded, Point, pos)[j]
    BY RelatedAt
  <2>3. k - 1 \in 0 .. Len(pos)
    OBVIOUS
  <2>4. v[Len(pos)] = At(heap, Point, pos) /\ w[Len(pos)] = At(heap, input, pos)
    BY DEF At
  <2> QED BY <2>1, <2>2, <2>3, <2>4
<1>3. ~IsFilled(v[k - 1], pos[k])
  BY <1>2
<1> HIDE DEF v, w
\* The nodes on the way grow.
<1>4. \A j \in 0 .. Len(pos) : v[j] \in DOMAIN Loaded /\ v[j] \in Nat /\ Point \in Nat \ {0} /\ Point + j =< v[j]
  <2> DEFINE S == {j \in 0 .. Len(pos) : v[j] \in DOMAIN Loaded /\ v[j] \in Nat /\ Point + j =< v[j]}
  <2>1. Point \in DOMAIN Loaded /\ Point \in Nat \ {0}
    BY CopiesHere, LoadedFacts
  <2>2. 0 \in S
    BY <1>1, <2>1
  <2>3. \A j \in 1 .. Len(pos) : j - 1 \in S => j \in S
    <3> SUFFICES ASSUME NEW j \in 1 .. Len(pos), j - 1 \in S PROVE j \in S
      OBVIOUS
    <3>1. /\ v[j - 1] \in DOMAIN Loaded /\ v[j - 1] \in Nat /\ Point + (j - 1) =< v[j - 1]
          /\ v[j] = Kid(heap, v[j - 1], pos[j]) /\ v[j] # 0
      BY <1>1, <1>2
    <3>2. Holds(v[j - 1], v[j])
      <4>1. heap[v[j - 1]].slots = Loaded[v[j - 1]].slots
        BY <3>1 DEF Base, LoadedKept
      <4> QED BY <3>1, <4>1 DEF Kid, Holds
    <3>3. v[j] \in DOMAIN Loaded /\ v[j] \in Nat /\ v[j - 1] < v[j]
      BY <3>1, <3>2, LoadedFacts
    <3>4. \A a, b, p, i \in Nat : p + (i - 1) =< a /\ a < b => p + i =< b
      OBVIOUS
    <3> QED BY <2>1, <3>1, <3>3, <3>4
  <2> HIDE DEF S
  <2>4. \A j \in 0 .. Len(pos) : j \in S
    BY <2>2, <2>3, UpTo
  <2> QED BY <2>1, <2>4 DEF S
<1>5. \A j \in 1 .. Len(pos) : j - 1 \in 0 .. Len(pos) /\ pos[j] \in DOMAIN Loaded[v[j - 1]].slots
                              /\ v[j] = Loaded[v[j - 1]].slots[pos[j]].kid
  <2> TAKE j \in 1 .. Len(pos)
  <2>1. j - 1 \in 0 .. Len(pos)
    OBVIOUS
  <2>2. v[j] = Kid(heap, v[j - 1], pos[j]) /\ v[j] # 0 /\ v[j - 1] \in DOMAIN Loaded
    BY <1>1, <1>2, <1>4, <2>1
  <2>3. heap[v[j - 1]].slots = Loaded[v[j - 1]].slots
    BY <2>2 DEF Base, LoadedKept
  <2> QED BY <2>1, <2>2, <2>3 DEF Kid
<1>6. k = 1 /\ Point = 1
  <2>1. v[k - 1] = 1
    BY <1>2, <1>3, <1>4, <1>5, UnfilledFacts
  <2>2. Point + (k - 1) =< 1 /\ Point \in Nat \ {0}
    BY <1>2, <1>4, <2>1
  <2> QED BY <2>2
<1>7. w[1] = v[1] /\ Len(pos) >= 1
  <2> DEFINE i == pos[1]
             m == Loaded[Point].slots[i].kid
  <2>1. v[0] = Point /\ ~IsFilled(Point, i) /\ 1 \in 1 .. Len(pos)
    BY <1>1, <1>3, <1>6
  <2>2. i \in DOMAIN Loaded[Point].slots /\ v[1] = m /\ w[1] = Kid(heap, input, i)
    BY <1>1, <1>5, <2>1
  <2> HIDE DEF i
  <2>3. Copying /\ <<input, Point>> \in origin /\ todo = {} /\ Point \in DOMAIN Loaded /\ IsCopy(input, Point)
    <3> DEFINE p == <<input, Point>>
    <3>1. p \in origin => IsCopy(p[1], p[2])
      BY CopiesHere
    <3> QED BY <3>1, CopiesHere
  <2>4. m \in DOMAIN Loaded
    BY <2>2, <2>3, HeapFacts, LoadedFacts
  <2>5. InOrder(input, Point, m)
    <3> HIDE DEF m
    <3> DEFINE p == <<input, Point>>
    <3>1. p \in origin /\ p[1] = input /\ p[2] = Point
      BY <2>3
    <3> QED BY <2>3, <2>4, <3>1 DEF Copying
  <2>6. i \notin Filled(input, Point, m)
    BY <2>1, <2>2, <2>3, <2>5, FilledAtLast
  <2>7. heap[input].slots[i].kid = m
    BY <2>2, <2>6 DEF Filled, Same
  <2>8. input # 0 /\ i \in DOMAIN heap[input].slots
    BY <2>2, <2>3, HeapHere DEF Base, IsCopy
  <2> QED BY <2>1, <2>2, <2>7, <2>8 DEF Kid
<1>8. w[Len(pos)] = v[Len(pos)]
  <2> DEFINE S == {j \in 0 .. Len(pos) - 1 : w[j + 1] = v[j + 1]}
  <2>1. 0 \in S /\ Len(pos) - 1 \in Nat
    BY <1>7
  <2>2. \A j \in 1 .. Len(pos) - 1 : j - 1 \in S => j \in S
    <3> SUFFICES ASSUME NEW j \in 1 .. Len(pos) - 1, w[(j - 1) + 1] = v[(j - 1) + 1] PROVE w[j + 1] = v[j + 1]
      OBVIOUS
    <3>1. (j - 1) + 1 = j /\ (j + 1) - 1 = j /\ j + 1 \in 1 .. Len(pos)
      OBVIOUS
    <3> QED BY <1>1, <3>1
  <2> HIDE DEF S
  <2>3. \A j \in 0 .. Len(pos) - 1 : j \in S
    BY <2>1, <2>2, UpTo
  <2>4. Len(pos) - 1 \in S /\ (Len(pos) - 1) + 1 = Len(pos)
    BY <2>1, <2>3
  <2> QED BY <2>4 DEF S
<1>9. Loaded[Point].kind = "File"
  BY <1>6, LoadedAssumption
<1> QED BY <1>2, <1>8, <1>9

\* What the callback of a rule with a deep copy is given, whichever nodes are in
\* several slots and whichever slots ast.Walk leaves out of a file: at each
\* position below the point there is a copy of what the loaded file has there, one
\* copy of each node, that Original leads back from; but what replaceChild did not
\* fill of a file (Imports, Unresolved, Comments, or Doc as its comment is found in
\* Comments first) holds the loaded node.
THEOREM DeepCopyCorrect == Spec => []DeepCopyMirrors
<1>1. ASSUME Base PROVE DeepCopyMirrors
  <2> SUFFICES ASSUME phase = "callback", deep, NEW pos \in Below \cup {<<>>}
               PROVE  LET copy == At(heap, input, pos)
                          orig == At(heap, Point, pos)
                          isCopied == \A k \in 1 .. Len(pos) :
                                          IsFilled(Way(Loaded, Point, pos)[k - 1], pos[k])
                      IN  /\ copy = 0 <=> orig = 0
                          /\ orig # 0 =>
                                 /\ heap[copy].kind = heap[orig].kind /\ heap[copy].tag = heap[orig].tag
                                 /\ IF isCopied
                                    THEN /\ copy \notin DOMAIN Loaded /\ Original(copy) = orig
                                         /\ \A p \in origin : p[2] = orig => p[1] = copy
                                    ELSE copy = orig /\ Loaded[Point].kind = "File"
    BY DEF DeepCopyMirrors
  <2> DEFINE copy == At(heap, input, pos)
             orig == At(heap, Point, pos)
             isCopied == \A k \in 1 .. Len(pos) : IsFilled(Way(Loaded, Point, pos)[k - 1], pos[k])
  <2>1. Len(pos) \in Nat
    BY BelowFacts
  <2>2. /\ copy = 0 <=> orig = 0
        /\ orig # 0 => heap[copy].kind = heap[orig].kind /\ heap[copy].tag = heap[orig].tag
    <3> DEFINE x == <<orig, copy>>
    <3>1. x \in Related /\ x[1] = orig /\ x[2] = copy
      BY <1>1, <2>1, RelatedAt
    <3> HIDE DEF x, orig, copy
    <3> QED BY <1>1, <3>1, RelatedFacts
  <2>3. ASSUME orig # 0, isCopied
        PROVE  /\ copy \notin DOMAIN Loaded /\ Original(copy) = orig
               /\ \A p \in origin : p[2] = orig => p[1] = copy
    <3>1. <<copy, orig>> \in origin
      BY <1>1, <2>1, <2>3, CopiedAt
    <3> HIDE DEF copy, orig, isCopied
    <3>2. /\ \A p \in origin : p[1] \notin DOMAIN Loaded /\ p[2] \in DOMAIN Loaded
          /\ \A p, q \in origin : p[1] = q[1] \/ p[2] = q[2] => p = q
      BY <1>1, CopiesHere DEF IsCopy
    <3> DEFINE q == <<copy, orig>>
    <3>3. q \in origin /\ q[1] = copy /\ q[2] = orig
      BY <3>1
    <3>4. /\ \A p \in origin : p[1] = copy => p[2] = orig
          /\ \A p \in origin : p[2] = orig => p[1] = copy
          /\ \A p \in origin : p[1] # orig
          /\ copy \notin DOMAIN Loaded
      BY <3>2, <3>3
    <3>5. Original(copy) = orig
      BY <1>1, <3>1, <3>4, OriginalIs DEF Base
    <3> QED BY <3>4, <3>5
  <2>4. ASSUME orig # 0, ~isCopied PROVE copy = orig /\ Loaded[Point].kind = "File"
    BY <1>1, <2>1, <2>4, SharedAt
  <2> QED BY <2>2, <2>3, <2>4
<1> QED BY <1>1, BaseHolds, PTL

-----------------------------------------------------------------------------
(***************************************************************************)
(* What is read at the positions below a node.                             *)
(***************************************************************************)
Reads(h, n, pos) == IF At(h, n, pos) = 0 THEN "" ELSE h[At(h, n, pos)].tag

\* The first slot, and the rest of a position.
LEMMA Positional ==
  ASSUME NEW pos \in Seq(Nat)
  PROVE  /\ Len(pos) \in Nat
         /\ pos # <<>> => /\ Len(pos) # 0 /\ Tail(pos) \in Seq(Nat) /\ Len(Tail(pos)) = Len(pos) - 1
                          /\ \A j \in 1 .. Len(pos) - 1 : Tail(pos)[j] = pos[j + 1]
OBVIOUS

LEMMA SameSeq ==
  ASSUME NEW p \in Seq(Nat), NEW q \in Seq(Nat), Len(p) = Len(q), \A i \in 1 .. Len(p) : p[i] = q[i]
  PROVE  p = q
<1>1. p = [i \in 1 .. Len(p) |-> p[i]] /\ q = [i \in 1 .. Len(q) |-> q[i]]
  OBVIOUS
<1> QED BY <1>1

LEMMA Prefixed ==
  ASSUME NEW k \in Nat, NEW q \in Seq(Nat)
  PROVE  \E r \in Seq(Nat) : /\ r # <<>> /\ r[1] = k /\ Tail(r) = q
                             /\ \A pos \in Seq(Nat) : pos = r <=> pos # <<>> /\ pos[1] = k /\ Tail(pos) = q
<1> DEFINE r == [i \in 1 .. Len(q) + 1 |-> IF i = 1 THEN k ELSE q[i - 1]]
<1>1. Len(q) \in Nat /\ q = [i \in 1 .. Len(q) |-> q[i]] /\ \A i \in 1 .. Len(q) : q[i] \in Nat
  OBVIOUS
<1>2. r \in Seq(Nat) /\ Len(r) = Len(q) + 1 /\ r # <<>> /\ r[1] = k
      /\ \A i \in 2 .. Len(q) + 1 : r[i] = q[i - 1]
  <2>1. \A i \in 1 .. Len(q) + 1 : r[i] \in Nat
    <3> TAKE i \in 1 .. Len(q) + 1
    <3>1. i = 1 \/ i - 1 \in 1 .. Len(q)
      BY <1>1
    <3> QED BY <1>1, <3>1
  <2>2. 1 \in 1 .. Len(q) + 1 /\ Len(q) + 1 \in Nat
    BY <1>1
  <2>3. r[1] = k /\ \A i \in 2 .. Len(q) + 1 : i \in 1 .. Len(q) + 1 /\ r[i] = q[i - 1]
    BY <1>1, <2>2
  <2>4. r = [i \in 1 .. Len(q) + 1 |-> r[i]]
    OBVIOUS
  <2> HIDE DEF r
  <2>5. r \in Seq(Nat) /\ Len(r) = Len(q) + 1
    BY <2>1, <2>2, <2>4
  <2> QED BY <2>2, <2>3, <2>5
<1> HIDE DEF r
<1>3. ASSUME NEW pos \in Seq(Nat), pos # <<>>
      PROVE  /\ Len(pos) \in Nat \ {0} /\ Tail(pos) \in Seq(Nat) /\ Len(Tail(pos)) = Len(pos) - 1
             /\ \A j \in 1 .. Len(pos) - 1 : Tail(pos)[j] = pos[j + 1]
  BY <1>3, Positional
<1>4. Tail(r) = q
  <2>1. Tail(r) \in Seq(Nat) /\ Len(Tail(r)) = Len(q)
    BY <1>1, <1>2, <1>3
  <2>2. \A j \in 1 .. Len(q) : Tail(r)[j] = q[j]
    <3> TAKE j \in 1 .. Len(q)
    <3>1. j + 1 \in 2 .. Len(q) + 1 /\ (j + 1) - 1 = j /\ Len(r) - 1 = Len(q)
      BY <1>1, <1>2
    <3>2. Tail(r)[j] = r[j + 1]
      BY <1>2, <1>3, <3>1
    <3> QED BY <1>2, <3>1, <3>2
  <2> QED BY <2>1, <2>2, SameSeq
<1>5. ASSUME NEW pos \in Seq(Nat), pos # <<>>, pos[1] = k, Tail(pos) = q PROVE pos = r
  <2>1. Len(pos) = Len(r) /\ Len(pos) = Len(q) + 1 /\ Len(pos) \in Nat
    BY <1>1, <1>2, <1>3, <1>5
  <2>2. \A i \in 1 .. Len(pos) : pos[i] = r[i]
    <3> TAKE i \in 1 .. Len(pos)
    <3>1. CASE i = 1
      BY <1>2, <1>5, <3>1
    <3>2. CASE i # 1
      <4>1. i - 1 \in 1 .. Len(pos) - 1 /\ (i - 1) + 1 = i /\ i \in 2 .. Len(q) + 1
        BY <1>1, <2>1, <3>2
      <4>2. Tail(pos)[i - 1] = pos[(i - 1) + 1]
        BY <1>3, <1>5, <4>1
      <4> QED BY <1>2, <1>5, <4>1, <4>2
    <3> QED BY <3>1, <3>2
  <2> QED BY <1>2, <2>1, <2>2, SameSeq
<1> QED BY <1>2, <1>4, <1>5

\* A way goes to the node in its first slot, and on from there.
LEMMA WayStep ==
  ASSUME NEW h, NEW n, NEW pos \in Seq(Nat), pos # <<>>
  PROVE  /\ At(h, n, pos) = At(h, Kid(h, n, pos[1]), Tail(pos))
         /\ \A j \in 0 .. Len(Tail(pos)) :
                /\ j + 1 \in 0 .. Len(pos)
                /\ Way(h, n, pos)[j + 1] = Way(h, Kid(h, n, pos[1]), Tail(pos))[j]
<1> DEFINE rest == Tail(pos)
           v == Way(h, n, pos)
           w == Way(h, Kid(h, n, pos[1]), rest)
           S == {j \in 0 .. Len(rest) : v[j + 1] = w[j]}
<1>1. /\ Len(pos) \in Nat /\ Len(pos) # 0 /\ Len(rest) = Len(pos) - 1 /\ Len(rest) \in Nat
      /\ \A j \in 1 .. Len(rest) : rest[j] = pos[j + 1]
  BY Positional
<1>2. /\ v[0] = n /\ \A k \in 1 .. Len(pos) : v[k] = Kid(h, v[k - 1], pos[k])
      /\ w[0] = Kid(h, n, pos[1]) /\ \A k \in 1 .. Len(rest) : w[k] = Kid(h, w[k - 1], rest[k])
  <2> DEFINE m == Kid(h, n, pos[1])
  <2> HIDE DEF rest, m
  <2>1. v[0] = n /\ \A k \in 1 .. Len(pos) : v[k] = Kid(h, v[k - 1], pos[k])
    BY <1>1, WayFacts
  <2>2. w[0] = m /\ \A k \in 1 .. Len(rest) : w[k] = Kid(h, w[k - 1], rest[k])
    <3>1. /\ Way(h, m, rest)[0] = m
          /\ \A k \in 1 .. Len(rest) : Way(h, m, rest)[k] = Kid(h, Way(h, m, rest)[k - 1], rest[k])
      BY <1>1, WayFacts
    <3> QED BY <3>1 DEF m
  <2> QED BY <2>1, <2>2 DEF m
<1>3. At(h, n, pos) = v[Len(pos)] /\ At(h, Kid(h, n, pos[1]), rest) = w[Len(rest)]
  BY DEF At
<1> HIDE DEF rest, v, w
<1>4. 0 \in S
  <2>1. 1 \in 1 .. Len(pos)
    BY <1>1
  <2> QED BY <1>1, <1>2, <2>1
<1>5. \A j \in 1 .. Len(rest) : j - 1 \in S => j \in S
  <2> SUFFICES ASSUME NEW j \in 1 .. Len(rest), v[(j - 1) + 1] = w[j - 1] PROVE v[j + 1] = w[j]
    OBVIOUS
  <2>1. (j - 1) + 1 = j /\ (j + 1) - 1 = j /\ j + 1 \in 1 .. Len(pos)
    BY <1>1
  <2> QED BY <1>1, <1>2, <2>1
<1> HIDE DEF S
<1>6. \A j \in 0 .. Len(rest) : j \in S
  BY <1>1, <1>4, <1>5, UpTo
<1>7. \A j \in 0 .. Len(rest) : j + 1 \in 0 .. Len(pos) /\ v[j + 1] = w[j]
  BY <1>1, <1>6 DEF S
<1>8. v[Len(pos)] = w[Len(rest)]
  <2>1. Len(rest) \in 0 .. Len(rest) /\ Len(rest) + 1 = Len(pos)
    BY <1>1
  <2>2. v[Len(rest) + 1] = w[Len(rest)]
    BY <1>7, <2>1
  <2> QED BY <2>1, <2>2
<1> QED BY <1>3, <1>7, <1>8 DEF rest, v, w

LEMMA ReadsStep ==
  ASSUME NEW h, NEW n
  PROVE  /\ Reads(h, n, <<>>) = IF n = 0 THEN "" ELSE h[n].tag
         /\ \A pos \in Seq(Nat) : pos # <<>> => Reads(h, n, pos) = Reads(h, Kid(h, n, pos[1]), Tail(pos))
<1>1. At(h, n, <<>>) = n
  <2> DEFINE pos == <<>>
  <2>1. Len(pos) = 0
    OBVIOUS
  <2> HIDE DEF pos
  <2>2. At(h, n, pos) = n
    BY <2>1, WayFacts DEF At
  <2> QED BY <2>2 DEF pos
<1>2. \A pos \in Seq(Nat) : pos # <<>> => At(h, n, pos) = At(h, Kid(h, n, pos[1]), Tail(pos))
  BY WayStep
<1> QED BY <1>1, <1>2 DEF Reads

\* A heap that keeps its nodes reads the same below them.
LEMMA ReadsKept ==
  ASSUME NEW h, IsHeap(h), NEW g, \A m \in DOMAIN h : g[m] = h[m],
         NEW n \in DOMAIN h \cup {0}, NEW pos \in Seq(Nat)
  PROVE  Reads(g, n, pos) = Reads(h, n, pos)
<1> DEFINE Same2 == {<<m, m>> : m \in DOMAIN h \cup {0}}
           Avoided == {}
<1>1. <<n, n>> \in Same2 /\ Len(pos) \in Nat
  OBVIOUS
<1>2. \A x \in Same2 : \A k : <<Kid(h, x[1], k), Kid(g, x[2], k)>> \in Same2
  <2>1. \A m \in DOMAIN h : \A k \in DOMAIN h[m].slots : h[m].slots[k].kid \in DOMAIN h
    BY HeapFacts
  <2> QED BY <2>1 DEF Kid
<1>3. \A k \in 0 .. Len(pos) : <<Way(h, n, pos)[k], Way(g, n, pos)[k]>> \in Same2
  <2>1. \A x \in Same2 : \A k : x[1] \notin Avoided /\ Kid(h, x[1], k) \notin Avoided
                                 => <<Kid(h, x[1], k), Kid(g, x[2], k)>> \in Same2
    BY <1>2
  <2>2. \A k \in 0 .. Len(pos) : Way(h, n, pos)[k] \notin Avoided
    OBVIOUS
  <2> HIDE DEF Avoided, Same2
  <2> QED BY <1>1, <2>1, <2>2, SideBySide
<1>4. <<At(h, n, pos), At(g, n, pos)>> \in Same2
  BY <1>1, <1>3 DEF At
<1>5. At(g, n, pos) = At(h, n, pos) /\ At(h, n, pos) \in DOMAIN h \cup {0}
  BY <1>4
<1> QED BY <1>5 DEF Reads

\* A copy of node n with another node in slot k, in a heap that keeps its nodes.
OneSlot(h, g, n, new, k) ==
    /\ IsHeap(h) /\ \A m \in DOMAIN h : g[m] = h[m]
    /\ n \in DOMAIN h /\ n # 0 /\ new # 0
    /\ DOMAIN g[new].slots = DOMAIN h[n].slots /\ g[new].tag = h[n].tag
    /\ k \in DOMAIN h[n].slots /\ k \in Nat
    /\ \A j \in DOMAIN h[n].slots : j # k => g[new].slots[j].kid = h[n].slots[j].kid

\* It reads the same but behind that slot.
LEMMA ReadsPut ==
  ASSUME NEW h, NEW g, NEW n, NEW new, NEW k, OneSlot(h, g, n, new, k), NEW pos \in Seq(Nat)
  PROVE  /\ pos # <<>> /\ pos[1] = k =>
                /\ Reads(g, new, pos) = Reads(g, g[new].slots[k].kid, Tail(pos))
                /\ Reads(h, n, pos) = Reads(h, h[n].slots[k].kid, Tail(pos))
         /\ ~(pos # <<>> /\ pos[1] = k) => Reads(g, new, pos) = Reads(h, n, pos)
<1> USE DEF OneSlot
<1>1. CASE pos = <<>>
  <2>1. Reads(g, new, <<>>) = g[new].tag /\ Reads(h, n, <<>>) = h[n].tag
    BY ReadsStep
  <2> QED BY <1>1, <2>1
<1>2. CASE pos # <<>>
  <2>1. /\ Reads(g, new, pos) = Reads(g, Kid(g, new, pos[1]), Tail(pos))
        /\ Reads(h, n, pos) = Reads(h, Kid(h, n, pos[1]), Tail(pos))
        /\ Tail(pos) \in Seq(Nat)
    <3>1. Reads(g, new, pos) = Reads(g, Kid(g, new, pos[1]), Tail(pos))
      BY <1>2, ReadsStep, Zenon
    <3>2. Reads(h, n, pos) = Reads(h, Kid(h, n, pos[1]), Tail(pos))
      BY <1>2, ReadsStep, Zenon
    <3> QED BY <1>2, <3>1, <3>2, Positional
  <2>2. CASE pos[1] = k
    BY <1>2, <2>1, <2>2 DEF Kid
  <2>3. CASE pos[1] # k
    <3>1. Kid(g, new, pos[1]) = Kid(h, n, pos[1]) /\ Kid(h, n, pos[1]) \in DOMAIN h \cup {0}
      BY <2>3, HeapFacts DEF Kid
    <3>2. Reads(g, Kid(h, n, pos[1]), Tail(pos)) = Reads(h, Kid(h, n, pos[1]), Tail(pos))
      BY <2>1, <3>1, ReadsKept
    <3> QED BY <2>1, <2>3, <3>1, <3>2
  <2> QED BY <2>2, <2>3
<1> QED BY <1>1, <1>2

-----------------------------------------------------------------------------
(***************************************************************************)
(* The callback's node, and the spine of a call.                           *)
(***************************************************************************)
\* The callback's node reads like the point.
LEMMA InputReads ==
  ASSUME Base, ~EditsShared, phase = "callback", NEW pos \in Seq(Nat)
  PROVE  Reads(heap, input, pos) = Reads(Loaded, Point, pos)
<1>1. Len(pos) \in Nat
  OBVIOUS
<1> DEFINE v == At(Loaded, Point, pos)
           w == At(heap, input, pos)
           x == <<v, w>>
<1>2. x \in Related
  <2>1. /\ <<At(heap, Point, pos), At(heap, input, pos)>> \in Related
        /\ \A k \in 0 .. Len(pos) : Way(heap, Point, pos)[k] = Way(Loaded, Point, pos)[k]
    BY <1>1, RelatedAt
  <2>2. At(heap, Point, pos) = At(Loaded, Point, pos)
    BY <1>1, <2>1 DEF At
  <2> QED BY <2>1, <2>2
<1>3. /\ w = 0 => Reads(heap, input, pos) = ""
      /\ w # 0 => Reads(heap, input, pos) = heap[w].tag
      /\ v = 0 => Reads(Loaded, Point, pos) = ""
      /\ v # 0 => Reads(Loaded, Point, pos) = Loaded[v].tag
  BY DEF Reads
<1>4. x[1] = v /\ x[2] = w
  OBVIOUS
<1> HIDE DEF x, v, w
<1>5. (v = 0 <=> w = 0) /\ (v # 0 => heap[w].tag = Loaded[v].tag)
  BY <1>2, <1>4, RelatedFacts
<1>6. CASE v = 0
  <2>1. w = 0
    BY <1>5, <1>6
  <2> QED BY <1>3, <1>6, <2>1, Zenon
<1>7. CASE v # 0
  <2>1. w # 0 /\ heap[w].tag = Loaded[v].tag
    BY <1>5, <1>7
  <2> QED BY <1>3, <1>7, <2>1, Zenon
<1> QED BY <1>6, <1>7, Zenon

\* The callback's input leads back to its point.
LEMMA InputOriginal ==
  ASSUME Base, phase = "callback"
  PROVE  Original(input) = Point
<1>1. /\ <<input, Point>> \in origin /\ Point \in DOMAIN Loaded
      /\ \A p \in origin : p[1] \notin DOMAIN Loaded
      /\ \A p, q \in origin : p[1] = q[1] \/ p[2] = q[2] => p = q
  BY CopiesHere DEF IsCopy
<1> DEFINE q == <<input, Point>>
<1>2. q \in origin /\ q[1] = input /\ q[2] = Point
  BY <1>1
<1>3. \A p \in origin : p[1] = input => p[2] = Point
  BY <1>1, <1>2
<1>4. \A p \in origin : p[1] # Point
  BY <1>1
<1> QED BY <1>1, <1>3, <1>4, OriginalIs DEF Base

\* What is under related nodes is related.
LEMMA UnderRelated ==
  ASSUME Base, phase = "callback", NEW n, NEW c, <<n, c>> \in Related
  PROVE  /\ <<Under(heap, n), Under(heap, c)>> \in Related
         /\ n = 0 <=> c = 0
         /\ n # 0 => /\ heap[c].kind = heap[n].kind /\ SlotOf(heap, c) = SlotOf(heap, n)
                     /\ n \in DOMAIN Loaded
<1> DEFINE x == <<n, c>>
<1>1. x \in Related /\ x[1] = n /\ x[2] = c
  OBVIOUS
<1> HIDE DEF x
<1>2. /\ n \in DOMAIN Loaded \cup {0} /\ (n = 0 <=> c = 0)
      /\ n # 0 => heap[c].kind = heap[n].kind /\ Len(heap[c].slots) = Len(Loaded[n].slots)
      /\ \A k : <<Kid(heap, n, k), Kid(heap, c, k)>> \in Related
  BY <1>1, RelatedFacts
<1>3. n # 0 => n \in DOMAIN Loaded /\ heap[n].slots = Loaded[n].slots
  BY <1>2 DEF Base, LoadedKept
<1>4. n # 0 => SlotOf(heap, c) = SlotOf(heap, n)
  BY <1>2, <1>3 DEF SlotOf, SlotToName
<1>5. <<0, 0>> \in Related
  BY DEF Related
<1>6. <<Under(heap, n), Under(heap, c)>> \in Related
  <2>1. CASE n # 0 /\ heap[n].kind \in SpineKinds
    BY <1>2, <1>4, <2>1 DEF Under, SlotOf
  <2>2. CASE ~(n # 0 /\ heap[n].kind \in SpineKinds)
    BY <1>2, <1>5, <2>2 DEF Under
  <2> QED BY <2>1, <2>2
<1> QED BY <1>2, <1>3, <1>4, <1>6

\* The callee's identifier has nothing under it.
LEMMA NothingUnder == \A n : heap[n].kind = "Ident" => Under(heap, n) = 0
BY DEF Under, SpineKinds

\* The spine of the copied call and the spine of the original call are one.
LEMMA SpinesFollow ==
  ASSUME Base, phase = "callback", NEW s \in Spines(heap, input), NEW o \in Spines(heap, Point)
  PROVE  /\ Len(s) = Len(o) /\ IsSpine(heap, s) /\ IsSpine(heap, o)
         /\ s[1] = input /\ o[1] = Point /\ Last(o) = o[Len(o)]
         /\ \A k \in 1 .. Len(s) : <<o[k], s[k]>> \in Related
<1> DEFINE a == Under(heap, Point)
           b == Under(heap, a)
           c == Under(heap, b)
           x == Under(heap, input)
           y == Under(heap, x)
           z == Under(heap, y)
<1>1. <<Point, input>> \in Related /\ input \in DOMAIN heap /\ Point \in DOMAIN heap
  <2>1. <<input, Point>> \in origin /\ Point \in DOMAIN Loaded
    BY CopiesHere
  <2> DEFINE p == <<input, Point>>
  <2>2. <<p[2], p[1]>> \in Related
    BY <2>1 DEF Related
  <2> QED BY <2>1, <2>2 DEF Base, PhaseInv, LoadedKept
<1>2. <<a, x>> \in Related /\ <<b, y>> \in Related /\ <<c, z>> \in Related
  <2>1. <<a, x>> \in Related
    BY <1>1, UnderRelated
  <2>2. <<b, y>> \in Related
    <3> HIDE DEF a, x
    <3> QED BY <2>1, UnderRelated
  <2>3. <<c, z>> \in Related
    <3> HIDE DEF b, y
    <3> QED BY <2>2, UnderRelated
  <2> QED BY <2>1, <2>2, <2>3
<1>3. /\ s = <<input, x>> \/ s = <<input, x, y>> \/ s = <<input, x, y, z>>
      /\ o = <<Point, a>> \/ o = <<Point, a, b>> \/ o = <<Point, a, b, c>>
      /\ \A k \in DOMAIN s : s[k] # 0
      /\ \A k \in DOMAIN o : o[k] # 0
      /\ heap[Last(s)].kind = "Ident" /\ heap[Last(o)].kind = "Ident"
  BY DEF Spines
<1>4. /\ IsSpine(heap, s) /\ s[1] = input /\ Last(s) = s[Len(s)]
      /\ IsSpine(heap, o) /\ o[1] = Point /\ Last(o) = o[Len(o)]
  <2>1. IsHeap(heap)
    BY HeapHere DEF Base
  <2> QED BY <1>1, <2>1, SpineFacts
<1>5. /\ a # 0 => heap[x].kind = heap[a].kind
      /\ b # 0 => heap[y].kind = heap[b].kind
      /\ heap[a].kind = "Ident" => b = 0
      /\ heap[b].kind = "Ident" => c = 0
      /\ heap[x].kind = "Ident" => y = 0
      /\ heap[y].kind = "Ident" => z = 0
  <2>1. a # 0 => heap[x].kind = heap[a].kind
    BY <1>2, UnderRelated
  <2>2. b # 0 => heap[y].kind = heap[b].kind
    BY <1>2, UnderRelated
  <2> QED BY <2>1, <2>2, NothingUnder
<1> HIDE DEF a, b, c, x, y, z
<1>6. /\ s = <<input, x>> => Len(s) = 2 /\ Last(s) = x
      /\ s = <<input, x, y>> => Len(s) = 3 /\ Last(s) = y /\ s[2] = x /\ s[3] = y
      /\ s = <<input, x, y, z>> => Len(s) = 4 /\ s[2] = x /\ s[3] = y /\ s[4] = z
      /\ o = <<Point, a>> => Len(o) = 2 /\ Last(o) = a
      /\ o = <<Point, a, b>> => Len(o) = 3 /\ Last(o) = b /\ o[2] = a /\ o[3] = b
      /\ o = <<Point, a, b, c>> => Len(o) = 4 /\ o[2] = a /\ o[3] = b /\ o[4] = c
  BY <1>4
<1>7. /\ DOMAIN s = 1 .. Len(s) /\ DOMAIN o = 1 .. Len(o)
  BY <1>4 DEF IsSpine
<1>8. CASE s = <<input, x>>
  <2>1. heap[x].kind = "Ident" /\ o = <<Point, a>>
    <3>1. heap[x].kind = "Ident"
      BY <1>3, <1>6, <1>8
    <3>2. 2 \in DOMAIN o /\ a # 0
      BY <1>3, <1>6, <1>7
    <3>3. b = 0
      BY <1>5, <3>1, <3>2
    <3>4. o # <<Point, a, b>> /\ o # <<Point, a, b, c>>
      BY <1>3, <1>6, <1>7, <3>3
    <3> QED BY <1>3, <3>1, <3>4
  <2> QED BY <1>1, <1>2, <1>4, <1>6, <1>8, <2>1
<1>9. CASE s = <<input, x, y>>
  <2>1. heap[y].kind = "Ident" /\ y # 0 /\ x # 0
    BY <1>3, <1>6, <1>7, <1>9
  <2>2. a # 0 /\ heap[x].kind # "Ident"
    BY <1>3, <1>5, <1>6, <1>7, <2>1
  <2>3. o # <<Point, a>>
    <3>1. heap[a].kind # "Ident"
      BY <1>5, <2>2
    <3> QED BY <1>3, <1>6, <3>1
  <2>4. b # 0
    BY <1>3, <1>6, <1>7, <2>3
  <2>5. c = 0
    BY <1>5, <2>1, <2>4
  <2>6. o = <<Point, a, b>>
    BY <1>3, <1>6, <1>7, <2>3, <2>5
  <2> QED BY <1>1, <1>2, <1>4, <1>6, <1>9, <2>6
<1>10. CASE s = <<input, x, y, z>>
  <2>1. x # 0 /\ y # 0 /\ z # 0
    BY <1>3, <1>6, <1>7, <1>10
  <2>2. a # 0 /\ heap[x].kind # "Ident" /\ heap[y].kind # "Ident"
    BY <1>3, <1>5, <1>6, <1>7, <2>1
  <2>3. o # <<Point, a>>
    <3>1. heap[a].kind # "Ident"
      BY <1>5, <2>2
    <3> QED BY <1>3, <1>6, <3>1
  <2>4. b # 0
    BY <1>3, <1>6, <1>7, <2>3
  <2>5. o # <<Point, a, b>>
    <3>1. heap[b].kind # "Ident"
      BY <1>5, <2>2, <2>4
    <3> QED BY <1>3, <1>6, <3>1
  <2>6. o = <<Point, a, b, c>>
    BY <1>3, <2>3, <2>5
  <2> QED BY <1>1, <1>2, <1>4, <1>6, <1>10, <2>6
<1> QED BY <1>3, <1>8, <1>9, <1>10

\* From two nodes the same is read but at one position, where one reads To.
OneChange(g, m, h, n, r) ==
    \A pos \in Seq(Nat) : Reads(g, m, pos) = IF pos = r THEN To ELSE Reads(h, n, pos)

\* If that is so behind a slot, it is so from above.
LEMMA ReadsPrefixed ==
  ASSUME NEW h, NEW g, NEW n, NEW new, NEW k, OneSlot(h, g, n, new, k),
         NEW below \in Seq(Nat), OneChange(g, g[new].slots[k].kid, h, h[n].slots[k].kid, below)
  PROVE  \E r \in Seq(Nat) : /\ r # <<>> /\ r[1] = k /\ Tail(r) = below
                             /\ OneChange(g, new, h, n, r)
<1>1. PICK r \in Seq(Nat) : /\ r # <<>> /\ r[1] = k /\ Tail(r) = below
                            /\ \A pos \in Seq(Nat) : pos = r <=> pos # <<>> /\ pos[1] = k /\ Tail(pos) = below
  <2>1. k \in Nat
    BY DEF OneSlot
  <2> QED BY <2>1, Prefixed
<1>2. ASSUME NEW pos \in Seq(Nat)
      PROVE  Reads(g, new, pos) = IF pos = r THEN To ELSE Reads(h, n, pos)
  <2> DEFINE a == Reads(g, new, pos)
             b == Reads(h, n, pos)
             c == Reads(g, g[new].slots[k].kid, Tail(pos))
             d == Reads(h, h[n].slots[k].kid, Tail(pos))
  <2>1. /\ pos # <<>> /\ pos[1] = k => a = c /\ b = d
        /\ ~(pos # <<>> /\ pos[1] = k) => a = b
    BY ReadsPut
  <2>2. pos # <<>> => c = IF Tail(pos) = below THEN To ELSE d
    BY Positional DEF OneChange
  <2>3. pos = r <=> pos # <<>> /\ pos[1] = k /\ Tail(pos) = below
    BY <1>1
  <2> HIDE DEF a, b, c, d
  <2>4. a = IF pos = r THEN To ELSE b
    <3>1. CASE pos # <<>> /\ pos[1] = k
      BY <2>1, <2>2, <2>3, <3>1
    <3>2. CASE ~(pos # <<>> /\ pos[1] = k)
      BY <2>1, <2>3, <3>2
    <3> QED BY <3>1, <3>2
  <2> QED BY <2>4 DEF a, b
<1> QED BY <1>1, <1>2 DEF OneChange

\* A call swap's node reads like its input but at the callee's position.
LEMMA SpineReads ==
  ASSUME Base, ~EditsShared, phase = "callback",
         NEW s \in Spines(heap, input), NEW o \in Spines(heap, Point),
         NEW g, SpineAdded(g, s)
  PROVE  \E r \in Seq(Nat) :
             /\ At(Loaded, Point, r) = Last(o) /\ OneChange(g, Len(heap) + 1, heap, input, r)
<1> DEFINE n == Len(s)
           L == Len(heap)
           Good(k, r) == At(Loaded, o[k], r) = o[n] /\ OneChange(g, L + k, heap, s[k], r)
           S == {i \in 0 .. n - 1 : \E r \in Seq(Nat) : Good(n - i, r)}
<1>1. /\ n = Len(o) /\ IsSpine(heap, s) /\ IsSpine(heap, o)
      /\ s[1] = input /\ o[1] = Point /\ Last(o) = o[n]
      /\ \A k \in 1 .. n : <<o[k], s[k]>> \in Related
  BY SpinesFollow
<1>2. /\ n \in 2 .. 4 /\ \A k \in 1 .. n : s[k] \in DOMAIN heap /\ s[k] # 0 /\ o[k] \in DOMAIN heap /\ o[k] # 0
      /\ IsHeap(heap) /\ L \in Nat /\ DOMAIN heap = 1 .. L
  BY <1>1, HeapHere DEF Base, IsSpine
<1>3. /\ \A m \in DOMAIN heap : g[m] = heap[m]
      /\ \A k \in 1 .. n :
             /\ DOMAIN g[L + k].slots = DOMAIN heap[s[k]].slots
             /\ g[L + k].tag = IF k = n THEN To ELSE heap[s[k]].tag
             /\ \A j \in DOMAIN heap[s[k]].slots :
                    g[L + k].slots[j].kid =
                        IF k < n /\ j = SlotOf(heap, s[k]) THEN L + (k + 1)
                        ELSE heap[s[k]].slots[j].kid
  BY DEF SpineAdded
<1> HIDE DEF n, L
<1>4. 0 \in S
  <2>1. n \in 1 .. n /\ n - 0 = n /\ L + n # 0 /\ 0 \in 0 .. n - 1
    BY <1>2
  <2>2. /\ DOMAIN g[L + n].slots = DOMAIN heap[s[n]].slots /\ g[L + n].tag = To
        /\ \A j \in DOMAIN heap[s[n]].slots : g[L + n].slots[j].kid = heap[s[n]].slots[j].kid
    BY <1>3, <2>1
  <2>3. PICK r : r = <<>>
    OBVIOUS
  <2>4. At(Loaded, o[n], r) = o[n] /\ r \in Seq(Nat)
    <3>1. Len(r) = 0 /\ r \in Seq(Nat)
      BY <2>3
    <3> QED BY <3>1, WayFacts DEF At
  <2>5. ASSUME NEW pos \in Seq(Nat)
        PROVE  Reads(g, L + n, pos) = IF pos = r THEN To ELSE Reads(heap, s[n], pos)
    <3>1. CASE pos = r
      <4>1. Reads(g, L + n, <<>>) = g[L + n].tag
        BY <2>1, ReadsStep
      <4> QED BY <2>2, <2>3, <3>1, <4>1
    <3>2. CASE pos # r
      <4>1. Reads(g, L + n, pos) = Reads(g, Kid(g, L + n, pos[1]), Tail(pos))
        BY <2>3, <3>2, ReadsStep, Zenon
      <4>2. Reads(heap, s[n], pos) = Reads(heap, Kid(heap, s[n], pos[1]), Tail(pos))
        BY <2>3, <3>2, ReadsStep, Zenon
      <4>3. Kid(g, L + n, pos[1]) = Kid(heap, s[n], pos[1]) /\ Kid(heap, s[n], pos[1]) \in DOMAIN heap \cup {0}
        BY <1>2, <2>1, <2>2, HeapFacts DEF Kid
      <4>4. Reads(g, Kid(heap, s[n], pos[1]), Tail(pos)) = Reads(heap, Kid(heap, s[n], pos[1]), Tail(pos))
        <5>1. Tail(pos) \in Seq(Nat)
          BY <2>3, <3>2, Positional
        <5> QED BY <1>2, <1>3, <4>3, <5>1, ReadsKept
      <4>5. Reads(g, L + n, pos) = Reads(heap, s[n], pos)
        BY <4>1, <4>2, <4>3, <4>4
      <4> QED BY <3>2, <4>5
    <3> QED BY <3>1, <3>2
  <2>6. Good(n, r)
    BY <2>4, <2>5 DEF OneChange
  <2> HIDE DEF Good
  <2> QED BY <2>1, <2>4, <2>6
<1>5. \A i \in 1 .. n - 1 : i - 1 \in S => i \in S
  <2> SUFFICES ASSUME NEW i \in 1 .. n - 1, i - 1 \in S PROVE \E r \in Seq(Nat) : Good(n - i, r)
    BY <1>2
  <2> DEFINE k == n - i
  <2>1. k \in 1 .. n - 1 /\ k \in 1 .. n /\ k + 1 \in 1 .. n /\ n - (i - 1) = k + 1 /\ k < n /\ L + k # 0
    BY <1>2
  <2>2. PICK below \in Seq(Nat) : Good(k + 1, below)
    <3> HIDE DEF Good, k
    <3> QED BY <2>1
  <2> HIDE DEF k
  <2>3. PICK t : t = SlotOf(heap, s[k])
    OBVIOUS
  <2>4. /\ t \in DOMAIN heap[s[k]].slots /\ heap[s[k]].slots[t].kid = s[k + 1]
        /\ SlotOf(heap, o[k]) \in DOMAIN heap[o[k]].slots
        /\ heap[o[k]].slots[SlotOf(heap, o[k])].kid = o[k + 1]
    BY <1>1, <2>1, <2>3 DEF IsSpine, n
  <2>5. t \in Nat /\ s[k] \in DOMAIN heap /\ s[k] # 0
    <3> DEFINE m == s[k]
    <3>1. m \in DOMAIN heap /\ m # 0 /\ t \in DOMAIN heap[m].slots
      BY <1>2, <2>1, <2>4
    <3> HIDE DEF m
    <3>2. DOMAIN heap[m].slots = 1 .. Len(heap[m].slots) /\ Len(heap[m].slots) \in Nat
      BY <1>2, <3>1, HeapFacts
    <3>3. t \in Nat
      BY <3>1, <3>2
    <3> QED BY <3>1, <3>3 DEF m
  <2>6. Kid(Loaded, o[k], t) = o[k + 1]
    <3>1. <<o[k], s[k]>> \in Related /\ o[k] # 0
      BY <1>1, <1>2, <2>1
    <3>2. SlotOf(heap, s[k]) = SlotOf(heap, o[k]) /\ o[k] \in DOMAIN Loaded
      BY <3>1, UnderRelated
    <3>3. heap[o[k]].slots = Loaded[o[k]].slots
      BY <3>2 DEF Base, LoadedKept
    <3> QED BY <2>3, <2>4, <3>1, <3>2, <3>3 DEF Kid
  <2>7. /\ DOMAIN g[L + k].slots = DOMAIN heap[s[k]].slots /\ g[L + k].tag = heap[s[k]].tag
        /\ g[L + k].slots[t].kid = L + (k + 1)
        /\ \A j \in DOMAIN heap[s[k]].slots : j # t => g[L + k].slots[j].kid = heap[s[k]].slots[j].kid
    BY <1>3, <2>1, <2>3, <2>4
  <2>8. OneChange(g, g[L + k].slots[t].kid, heap, heap[s[k]].slots[t].kid, below)
    BY <2>2, <2>4, <2>7
  <2>9. PICK r \in Seq(Nat) : /\ r # <<>> /\ r[1] = t /\ Tail(r) = below
                              /\ OneChange(g, L + k, heap, s[k], r)
    <3>1. OneSlot(heap, g, s[k], L + k, t)
      BY <1>2, <1>3, <2>1, <2>4, <2>5, <2>7 DEF OneSlot
    <3> QED BY <2>8, <3>1, ReadsPrefixed
  <2>10. At(Loaded, o[k], r) = o[n]
    <3>1. At(Loaded, o[k], r) = At(Loaded, Kid(Loaded, o[k], r[1]), Tail(r))
      BY <2>9, WayStep
    <3> QED BY <2>2, <2>6, <2>9, <3>1
  <2>11. Good(k, r)
    BY <2>9, <2>10
  <2> HIDE DEF Good
  <2> QED BY <2>11 DEF k
<1>6. n - 1 \in S
  <2> HIDE DEF S
  <2>1. n - 1 \in Nat /\ n - 1 \in 0 .. n - 1
    BY <1>2
  <2>2. \A i \in 0 .. n - 1 : i \in S
    BY <1>4, <1>5, <2>1, UpTo
  <2> QED BY <2>1, <2>2
<1>7. PICK r \in Seq(Nat) : Good(1, r)
  <2>1. n - (n - 1) = 1
    BY <1>2
  <2> HIDE DEF Good
  <2> QED BY <1>6, <2>1
<1> QED BY <1>1, <1>7 DEF L

-----------------------------------------------------------------------------
(***************************************************************************)
(* What the clones made from the point up to the file read like.           *)
(***************************************************************************)
\* The way to a position below node n does not come to the point.
Avoids(n, pos) == \A k \in 0 .. Len(pos) : Way(Loaded, n, pos)[k] # Point

\* The clone made last reads like its original wherever the point is not on the way.
ReadsAside ==
    \A pos \in Seq(Nat) :
        Avoids(path[level], pos) => Reads(heap, child.clone, pos) = Reads(Loaded, path[level], pos)

\* It reads like its original but for one function's or method's name.
Renames(r) ==
    /\ At(Loaded, path[level], r) \in DenotesFrom
    /\ OneChange(heap, child.clone, Loaded, path[level], r)

CloneInv == phase = "clone" => ReadsAside /\ (swapped => \E r \in Seq(Nat) : Renames(r))

FileOK(file) ==
    /\ \A pos \in Positions :
           file.text[pos] # LoadedText[pos] => Last(file.path) \in OnTheWay[pos]
    /\ file.swapped => \E callee \in Positions :
                           /\ LoadedAt[callee] \in DenotesFrom
                           /\ file.text = [LoadedText EXCEPT ![callee] = To]

BuiltInv == \A m \in DOMAIN built : FileOK(built[m])

\* The callback's node takes the place of the point, which no way below it avoids.
LEMMA ReturnedAside ==
  ASSUME Base, NEW returned, NEW isSwap, Callback(returned, isSwap)
  PROVE  /\ ReadsAside' /\ swapped' = isSwap
         /\ path'[level'] = Point /\ child'.clone = returned
<1>1. /\ path' = path /\ level' = Len(path) /\ swapped' = isSwap
      /\ child' = [orig |-> Point, clone |-> returned]
  BY DEF Callback
<1>2. path'[level'] = Point /\ Point' = Point /\ child'.clone = returned
  BY <1>1 DEF Point
<1>3. \A pos \in Seq(Nat) : ~Avoids(path[level], pos)'
  <2> TAKE pos \in Seq(Nat)
  <2>1. Len(pos) \in Nat /\ 0 \in 0 .. Len(pos)
    OBVIOUS
  <2>2. PICK n : n = path'[level']
    OBVIOUS
  <2>3. Way(Loaded, n, pos)[0] = n
    BY <2>1, WayFacts
  <2> QED BY <1>2, <2>1, <2>2, <2>3 DEF Avoids
<1>4. ReadsAside'
  BY <1>3 DEF ReadsAside
<1> QED BY <1>1, <1>2, <1>4

LEMMA SwapRenames ==
  ASSUME Base, ~EditsShared, SwapFunction \/ SwapMethod
  PROVE  (\E r \in Seq(Nat) : Renames(r))'
<1>1. /\ Callback(Fresh, TRUE) /\ phase = "callback" /\ input \in DOMAIN heap
      /\ \E s \in Spines(heap, input) : IsSpine(heap, s) /\ MaySwap(s) /\ heap' = heap \o Renamed(s)
  BY SwapFacts
<1>2. PICK s \in Spines(heap, input) : IsSpine(heap, s) /\ MaySwap(s) /\ heap' = heap \o Renamed(s)
  BY <1>1
<1>3. PICK o \in Spines(heap, Point) : Last(o) \in DenotesFrom
  <2>1. Original(input) = Point
    BY <1>1, InputOriginal
  <2>2. \E o \in Spines(heap, Original(input)) : Last(o) \in DenotesFrom
    BY <1>2 DEF MaySwap
  <2> QED BY <2>1, <2>2
<1>4. PICK g, c, p : g = heap' /\ c = Fresh /\ p = Point
  OBVIOUS
<1>5. SpineAdded(g, s)
  <2>1. IsHeap(heap) /\ g = heap \o Renamed(s)
    BY <1>2, <1>4, HeapHere DEF Base
  <2> QED BY <1>2, <2>1, SpineCopied
<1>6. PICK r \in Seq(Nat) : At(Loaded, Point, r) = Last(o) /\ OneChange(g, Len(heap) + 1, heap, input, r)
  BY <1>1, <1>5, SpineReads
<1>7. OneChange(g, c, Loaded, p, r)
  <2>1. \A pos \in Seq(Nat) : Reads(heap, input, pos) = Reads(Loaded, Point, pos)
    BY <1>1, InputReads
  <2>2. OneChange(g, c, heap, input, r)
    BY <1>4, <1>6 DEF Fresh
  <2> QED BY <1>4, <2>1, <2>2 DEF OneChange
<1>8. path'[level'] = p /\ child'.clone = c
  <2>1. path'[level'] = Point /\ child'.clone = Fresh
    <3> DEFINE returned == c
    <3>1. Callback(returned, TRUE)
      BY <1>1, <1>4
    <3> HIDE DEF returned
    <3>2. path'[level'] = Point /\ child'.clone = returned
      BY <3>1, ReturnedAside
    <3> QED BY <1>4, <3>2 DEF returned
  <2> QED BY <1>4, <2>1
<1>9. At(Loaded, p, r) \in DenotesFrom
  BY <1>3, <1>4, <1>6
<1>10. Renames(r)'
  <2>1. At(Loaded, path'[level'], r) \in DenotesFrom /\ OneChange(heap', child'.clone, Loaded, path'[level'], r)
    BY <1>4, <1>7, <1>8, <1>9
  <2> QED BY <2>1 DEF Renames
<1> QED BY <1>10

\* The clone of the node above.
LEMMA UpSlot ==
  ASSUME Base, ~EditsShared, CloneUp
  PROVE  \E g, new, parent, k :
             /\ g = heap' /\ parent = path'[level'] /\ new = child'.clone /\ Point' = Point /\ parent # 0
             /\ OneSlot(Loaded, g, parent, new, k) /\ Kid(Loaded, parent, k) = path[level]
             /\ g[new].slots[k].kid = child.clone
             /\ Loaded[parent].slots[k].kid = path[level]
             /\ \A pos \in Seq(Nat) : Reads(g, child.clone, pos) = Reads(heap, child.clone, pos)
<1>1. /\ level \in 2 .. Len(path) /\ path[level - 1] \in DOMAIN Loaded
      /\ child.orig = path[level] /\ child.clone \in DOMAIN heap
      /\ \E k \in DOMAIN Loaded[path[level - 1]].slots :
             /\ Loaded[path[level - 1]].slots[k].kid = path[level]
             /\ UpDone(path[level - 1], k)
  BY UpFacts
<1>2. PICK g, new, parent : g = heap' /\ new = Fresh /\ parent = path[level - 1]
  OBVIOUS
<1>3. PICK k \in DOMAIN Loaded[parent].slots : Loaded[parent].slots[k].kid = path[level] /\ UpDone(parent, k)
  BY <1>1, <1>2
<1>4. /\ IsHeap(heap) /\ \A m \in DOMAIN heap : g[m] = heap[m]
      /\ \A m \in DOMAIN Loaded : m \in DOMAIN heap /\ heap[m] = Loaded[m]
      /\ new \in DOMAIN g /\ new # 0
      /\ parent \in DOMAIN Loaded /\ parent # 0
  <2>1. IsHeap(heap) /\ Len(heap) \in Nat /\ Fresh = Len(heap) + 1
    BY HeapHere DEF Base
  <2>2. \A m \in DOMAIN heap : heap'[m] = heap[m]
    BY <1>3 DEF UpDone
  <2>3. Fresh \in DOMAIN heap'
    BY <1>3 DEF UpDone
  <2>4. parent \in DOMAIN Loaded /\ parent # 0
    BY <1>1, <1>2, LoadedFacts
  <2> QED BY <1>2, <2>1, <2>2, <2>3, <2>4 DEF Base, LoadedKept
<1>5. /\ g[new].tag = heap[parent].tag /\ DOMAIN g[new].slots = DOMAIN Loaded[parent].slots
      /\ g[new].slots[k].kid = child.clone
      /\ \A j \in DOMAIN Loaded[parent].slots : j # k => g[new].slots[j].kid = Loaded[parent].slots[j].kid
  BY <1>2, <1>3 DEF UpDone
<1>6. OneSlot(Loaded, g, parent, new, k)
  <2>1. k \in Nat
    <3>1. DOMAIN Loaded[parent].slots = 1 .. Len(Loaded[parent].slots) /\ Len(Loaded[parent].slots) \in Nat
      BY <1>4, HeapFacts, LoadedFacts
    <3> QED BY <3>1
  <2>2. \A m \in DOMAIN Loaded : g[m] = Loaded[m]
    BY <1>4
  <2>3. g[new].tag = Loaded[parent].tag
    BY <1>4, <1>5
  <2> QED BY <1>4, <1>5, <2>1, <2>2, <2>3, LoadedFacts DEF OneSlot
<1>7. ASSUME NEW pos \in Seq(Nat) PROVE Reads(g, child.clone, pos) = Reads(heap, child.clone, pos)
  BY <1>1, <1>4, ReadsKept
<1>8. parent = path'[level'] /\ new = child'.clone /\ Point' = Point
  <2>1. path' = path /\ level' = level - 1 /\ child' = [orig |-> path[level - 1], clone |-> Fresh]
    BY DEF CloneUp
  <2> QED BY <1>2, <2>1 DEF Point
<1>9. Kid(Loaded, parent, k) = path[level]
  BY <1>3, <1>4 DEF Kid
<1> QED BY <1>2, <1>3, <1>4, <1>5, <1>6, <1>7, <1>8, <1>9

LEMMA UpAside ==
  ASSUME Base, ~EditsShared, CloneUp, ReadsAside
  PROVE  ReadsAside'
<1>1. PICK g, new, parent, k :
          /\ g = heap' /\ parent = path'[level'] /\ new = child'.clone /\ Point' = Point
          /\ OneSlot(Loaded, g, parent, new, k) /\ Kid(Loaded, parent, k) = path[level]
          /\ g[new].slots[k].kid = child.clone
          /\ Loaded[parent].slots[k].kid = path[level]
          /\ \A pos \in Seq(Nat) : Reads(g, child.clone, pos) = Reads(heap, child.clone, pos)
  BY UpSlot
<1>2. ASSUME NEW pos \in Seq(Nat), \A i \in 0 .. Len(pos) : Way(Loaded, parent, pos)[i] # Point
      PROVE  Reads(g, new, pos) = Reads(Loaded, parent, pos)
  <2>1. CASE pos # <<>> /\ pos[1] = k
    <3> DEFINE rest == Tail(pos)
    <3>1. rest \in Seq(Nat)
      BY <2>1, Positional
    <3>2. Reads(g, new, pos) = Reads(g, child.clone, rest) /\ Reads(Loaded, parent, pos) = Reads(Loaded, path[level], rest)
      BY <1>1, <2>1, ReadsPut
    <3>3. \A j \in 0 .. Len(rest) :
             j + 1 \in 0 .. Len(pos) /\ Way(Loaded, parent, pos)[j + 1] = Way(Loaded, path[level], rest)[j]
      <4>1. \A j \in 0 .. Len(Tail(pos)) :
                /\ j + 1 \in 0 .. Len(pos)
                /\ Way(Loaded, parent, pos)[j + 1] = Way(Loaded, Kid(Loaded, parent, pos[1]), Tail(pos))[j]
        BY <2>1, WayStep
      <4> QED BY <1>1, <2>1, <4>1
    <3> HIDE DEF rest
    <3>4. Avoids(path[level], rest)
      BY <1>2, <3>3 DEF Avoids
    <3>5. Reads(heap, child.clone, rest) = Reads(Loaded, path[level], rest)
      BY <3>1, <3>4 DEF ReadsAside
    <3>6. Reads(g, child.clone, rest) = Reads(heap, child.clone, rest)
      BY <1>1, <3>1
    <3> QED BY <3>2, <3>5, <3>6
  <2>2. CASE ~(pos # <<>> /\ pos[1] = k)
    BY <1>1, <2>2, ReadsPut
  <2> QED BY <2>1, <2>2
<1>3. \A pos \in Seq(Nat) : Avoids(path[level], pos)' =>
          \A i \in 0 .. Len(pos) : Way(Loaded, parent, pos)[i] # Point
  BY <1>1 DEF Avoids
<1>4. \A pos \in Seq(Nat) : Avoids(path[level], pos)' =>
          Reads(heap', child'.clone, pos) = Reads(Loaded, path'[level'], pos)
  BY <1>1, <1>2, <1>3
<1> QED BY <1>4 DEF ReadsAside

LEMMA UpRenames ==
  ASSUME Base, ~EditsShared, CloneUp, NEW r \in Seq(Nat), Renames(r)
  PROVE  (\E q \in Seq(Nat) : Renames(q))'
<1>1. PICK g, new, parent, k :
          /\ g = heap' /\ parent = path'[level'] /\ new = child'.clone /\ Point' = Point
          /\ OneSlot(Loaded, g, parent, new, k) /\ Kid(Loaded, parent, k) = path[level]
          /\ g[new].slots[k].kid = child.clone
          /\ Loaded[parent].slots[k].kid = path[level]
          /\ \A pos \in Seq(Nat) : Reads(g, child.clone, pos) = Reads(heap, child.clone, pos)
  BY UpSlot
<1>2. OneChange(g, g[new].slots[k].kid, Loaded, Loaded[parent].slots[k].kid, r)
  <2>1. OneChange(heap, child.clone, Loaded, path[level], r)
    BY DEF Renames
  <2>2. OneChange(g, child.clone, Loaded, path[level], r)
    BY <1>1, <2>1 DEF OneChange
  <2> QED BY <1>1, <2>2
<1>3. PICK q \in Seq(Nat) : q # <<>> /\ q[1] = k /\ Tail(q) = r /\ OneChange(g, new, Loaded, parent, q)
  BY <1>1, <1>2, ReadsPrefixed
<1>4. At(Loaded, parent, q) \in DenotesFrom
  <2>1. At(Loaded, parent, q) = At(Loaded, Kid(Loaded, parent, q[1]), Tail(q))
    BY <1>3, WayStep
  <2> QED BY <1>1, <1>3, <2>1 DEF Renames
<1>5. Renames(q)'
  <2>1. At(Loaded, path'[level'], q) \in DenotesFrom /\ OneChange(heap', child'.clone, Loaded, path'[level'], q)
    BY <1>1, <1>3, <1>4
  <2> QED BY <2>1 DEF Renames
<1> QED BY <1>5

LEMMA CloneInvStep ==
  ASSUME Base, ~EditsShared, CloneInv, [Next]_vars
  PROVE  CloneInv'
<1> SUFFICES ASSUME phase' = "clone" PROVE CloneInv'
  BY DEF CloneInv
<1>1. CASE EditInput \/ EditBelow \/ EditSlot \/ Make \/ Hoist
  <2>1. PICK returned : Callback(returned, FALSE)
    BY <1>1 DEF EditInput, EditBelow, EditSlot, Make, Hoist
  <2>2. ReadsAside' /\ ~swapped'
    BY <2>1, ReturnedAside
  <2> QED BY <2>2 DEF CloneInv
<1>2. CASE SwapFunction \/ SwapMethod
  <2>1. PICK returned, isSwap : Callback(returned, isSwap)
    BY <1>2, SwapFacts
  <2>2. ReadsAside'
    BY <2>1, ReturnedAside
  <2>3. (\E r \in Seq(Nat) : Renames(r))'
    BY <1>2, SwapRenames
  <2> QED BY <2>2, <2>3 DEF CloneInv
<1>3. CASE CloneUp
  <2>1. phase = "clone" /\ swapped' = swapped
    BY <1>3 DEF CloneUp
  <2>2. ReadsAside'
    BY <1>3, <2>1, UpAside DEF CloneInv
  <2>3. swapped' => (\E r \in Seq(Nat) : Renames(r))'
    BY <1>3, <2>1, UpRenames DEF CloneInv
  <2> QED BY <2>2, <2>3 DEF CloneInv
<1>4. CASE UNCHANGED vars
  <2>1. /\ heap' = heap /\ phase' = phase /\ path' = path /\ child' = child /\ level' = level
        /\ swapped' = swapped /\ Point' = Point
    BY <1>4 DEF vars, Point
  <2>2. ReadsAside => ReadsAside'
    BY <2>1 DEF ReadsAside, Avoids
  <2>3. \A r \in Seq(Nat) : Renames(r) => Renames(r)'
    BY <2>1 DEF Renames
  <2> QED BY <2>1, <2>2, <2>3 DEF CloneInv
<1>5. CASE \/ \E pos \in Points : BeginShallow(pos) \/ BeginDeep(pos) \/ BeginFails(pos)
           \/ DeepVisit \/ DeepMeet \/ DeepFails \/ DeepDone \/ Decline \/ CloneFails \/ CloneDone
  BY <1>5 DEF BeginShallow, BeginDeep, BeginFails, Begin, DeepVisit, DeepMeet, DeepFails, DeepDone,
              Decline, CloneFails, CloneDone
<1>6. CASE Finished
  BY <1>4, <1>6 DEF Finished
<1> QED BY <1>1, <1>2, <1>3, <1>4, <1>5, <1>6 DEF Next

-----------------------------------------------------------------------------
(***************************************************************************)
(* The files that are written.                                             *)
(***************************************************************************)
\* The way to the beginning of a position is the beginning of the way there.
LEMMA WayBegins ==
  ASSUME NEW h, NEW n, NEW p, NEW q, Len(p) \in Nat, Len(q) \in Nat, Len(p) =< Len(q),
         \A k \in 1 .. Len(p) : p[k] = q[k]
  PROVE  At(h, n, p) = Way(h, n, q)[Len(p)]
<1> DEFINE v == Way(h, n, p)
           w == Way(h, n, q)
           S == {k \in 0 .. Len(p) : v[k] = w[k]}
<1>1. /\ v[0] = n /\ \A k \in 1 .. Len(p) : v[k] = Kid(h, v[k - 1], p[k])
      /\ w[0] = n /\ \A k \in 1 .. Len(q) : w[k] = Kid(h, w[k - 1], q[k])
      /\ At(h, n, p) = v[Len(p)]
  BY WayFacts DEF At
<1> HIDE DEF v, w
<1>2. 0 \in S
  BY <1>1
<1>3. \A k \in 1 .. Len(p) : k - 1 \in S => k \in S
  <2> TAKE k \in 1 .. Len(p)
  <2>1. k \in 1 .. Len(q) /\ k \in 0 .. Len(p)
    OBVIOUS
  <2> QED BY <1>1, <2>1
<1> HIDE DEF S
<1>4. \A k \in 0 .. Len(p) : k \in S
  BY <1>2, <1>3, UpTo
<1> QED BY <1>1, <1>4 DEF S, w

\* Where there is a loaded node there is a position.
LEMMA InPositions ==
  ASSUME NEW pos \in Seq(Nat), At(Loaded, 1, pos) # 0
  PROVE  pos \in Positions
<1> DEFINE v == Way(Loaded, 1, pos)
           Pre(k) == [i \in 1 .. k |-> pos[i]]
           S == {k \in 0 .. Len(pos) : Pre(k) \in Positions}
<1>1. Len(pos) \in Nat /\ \A k \in 1 .. Len(pos) : pos[k] \in Nat
  OBVIOUS
<1>2. /\ \A k \in 0 .. Len(pos) : v[k] # 0
      /\ \A k \in 1 .. Len(pos) : v[k] = Kid(Loaded, v[k - 1], pos[k])
  BY <1>1, WayFacts, WayNotZero
<1>3. \A k \in 0 .. Len(pos) : Pre(k) \in Seq(Nat) /\ Len(Pre(k)) = k
  <2> TAKE k \in 0 .. Len(pos)
  <2>1. \A i \in 1 .. k : pos[i] \in Nat
    BY <1>1
  <2> QED BY <2>1
<1>4. \A k \in 0 .. Len(pos) : At(Loaded, 1, Pre(k)) = v[k]
  <2> TAKE k \in 0 .. Len(pos)
  <2> DEFINE p == Pre(k)
  <2>1. Len(p) = k /\ Len(p) \in Nat /\ Len(p) =< Len(pos) /\ \A i \in 1 .. Len(p) : p[i] = pos[i]
    BY <1>1, <1>3
  <2> HIDE DEF p
  <2>2. At(Loaded, 1, p) = v[k]
    BY <1>1, <2>1, WayBegins
  <2> QED BY <2>2 DEF p
<1> HIDE DEF v
<1>5. 0 \in S
  <2>1. Pre(0) = <<>>
    BY <1>1, <1>3
  <2> QED BY <1>1, <2>1, PositionsAssumption
<1>6. \A k \in 1 .. Len(pos) : k - 1 \in S => k \in S
  <2> SUFFICES ASSUME NEW k \in 1 .. Len(pos), Pre(k - 1) \in Positions PROVE Pre(k) \in Positions
    OBVIOUS
  <2> DEFINE p == Pre(k - 1)
  <2>1. k - 1 \in 0 .. Len(pos) /\ k \in 0 .. Len(pos)
    OBVIOUS
  <2>2. Pre(k) = Append(p, pos[k])
    <3>1. p \in Seq(Nat) /\ Len(p) = k - 1 /\ \A i \in 1 .. k - 1 : p[i] = pos[i]
      BY <1>3, <2>1
    <3> DEFINE a == Pre(k)
               b == Append(p, pos[k])
    <3>2. a \in Seq(Nat) /\ Len(a) = k /\ \A i \in 1 .. k : a[i] = pos[i]
      BY <1>3, <2>1
    <3> HIDE DEF p, a
    <3>3. b \in Seq(Nat) /\ Len(b) = k /\ \A i \in 1 .. k : b[i] = pos[i]
      BY <1>1, <3>1
    <3> HIDE DEF b
    <3>4. a = b
      BY <3>2, <3>3, SameSeq
    <3> QED BY <3>4 DEF a, b, p
  <2>3. p \in Positions /\ LoadedAt[p] = v[k - 1]
    BY <1>4, <2>1 DEF LoadedAt
  <2> HIDE DEF p, Pre
  <2>4. pos[k] \in DOMAIN Loaded[v[k - 1]].slots /\ v[k - 1] # 0
    BY <1>2, <2>1 DEF Kid
  <2> QED BY <2>2, <2>3, <2>4, PositionsAssumption
<1>7. Len(pos) \in S
  <2> HIDE DEF S
  <2>1. \A k \in 0 .. Len(pos) : k \in S
    BY <1>1, <1>5, <1>6, UpTo
  <2> QED BY <1>1, <2>1
<1>8. Pre(Len(pos)) = pos
  OBVIOUS
<1> QED BY <1>7, <1>8

LEMMA FileWritten ==
  ASSUME Base, CloneInv, phase = "clone", level = 1
  PROVE  FileOK([path |-> path, text |-> Text(heap, child.clone), swapped |-> swapped])
<1> DEFINE file == [path |-> path, text |-> Text(heap, child.clone), swapped |-> swapped]
<1>1. file.path = path /\ file.text = Text(heap, child.clone) /\ file.swapped = swapped
  OBVIOUS
<1>2. Last(path) = Point /\ path[level] = 1
  BY DEF Last, Point, Base, PhaseInv, IsPath
<1>3. ReadsAside /\ (swapped => \E r \in Seq(Nat) : Renames(r))
  BY DEF CloneInv
<1>4. ASSUME NEW pos \in Positions
      PROVE  /\ pos \in Seq(Nat) /\ Len(pos) \in Nat
             /\ Text(heap, child.clone)[pos] = Reads(heap, child.clone, pos)
             /\ LoadedText[pos] = Reads(Loaded, 1, pos)
  BY PositionFacts DEF LoadedText, Text, Reads
<1>5. ASSUME NEW pos \in Positions, Text(heap, child.clone)[pos] # LoadedText[pos]
      PROVE  Point \in OnTheWay[pos]
  <2>1. ~Avoids(1, pos)
    BY <1>2, <1>3, <1>4, <1>5 DEF ReadsAside
  <2>2. PICK k \in 0 .. Len(pos) : Way(Loaded, 1, pos)[k] = Point
    BY <2>1 DEF Avoids
  <2>3. OnTheWay[pos] = {Way(Loaded, 1, pos)[j] : j \in 0 .. Len(pos)}
    <3>1. DOMAIN Way(Loaded, 1, pos) = 0 .. Len(pos)
      BY <1>4, WayFacts
    <3> QED BY <3>1 DEF OnTheWay, LoadedWay, Range
  <2> QED BY <2>2, <2>3
<1>6. ASSUME swapped
      PROVE  \E callee \in Positions : /\ LoadedAt[callee] \in DenotesFrom
                                       /\ Text(heap, child.clone) = [LoadedText EXCEPT ![callee] = To]
  <2>1. PICK r \in Seq(Nat) : Renames(r)
    BY <1>3, <1>6
  <2>2. At(Loaded, 1, r) \in DenotesFrom /\ OneChange(heap, child.clone, Loaded, 1, r)
    BY <1>2, <2>1 DEF Renames
  <2>3. At(Loaded, 1, r) # 0
    BY <2>2, RulesAssumption, LoadedFacts
  <2>4. r \in Positions /\ LoadedAt[r] = At(Loaded, 1, r)
    BY <2>3, InPositions DEF LoadedAt
  <2>5. ASSUME NEW pos \in Positions
        PROVE  Text(heap, child.clone)[pos] = IF pos = r THEN To ELSE LoadedText[pos]
    BY <1>4, <2>2 DEF OneChange
  <2>6. /\ DOMAIN Text(heap, child.clone) = Positions /\ DOMAIN LoadedText = Positions
        /\ Text(heap, child.clone) = [pos \in Positions |-> Text(heap, child.clone)[pos]]
    BY DEF Text, LoadedText
  <2>7. Text(heap, child.clone) = [LoadedText EXCEPT ![r] = To]
    BY <2>5, <2>6
  <2> QED BY <2>2, <2>4, <2>7
<1> HIDE DEF file
<1>7. FileOK(file)
  BY <1>1, <1>2, <1>5, <1>6 DEF FileOK
<1> QED BY <1>7 DEF file

LEMMA BuiltInvStep ==
  ASSUME Base, CloneInv, BuiltInv, [Next]_vars
  PROVE  BuiltInv'
<1>1. CASE built' = built
  BY <1>1 DEF BuiltInv
<1>2. CASE CloneDone
  <2> DEFINE file == [path |-> path, text |-> Text(heap, child.clone), swapped |-> swapped]
  <2>1. phase = "clone" /\ level = 1 /\ built' = Append(built, file)
    BY <1>2 DEF CloneDone
  <2>2. FileOK(file)
    BY <2>1, FileWritten
  <2> HIDE DEF file
  <2>3. PICK Files : built \in Seq(Files)
    BY DEF Base, TypeOK
  <2>4. \A m \in DOMAIN built' : (m \in DOMAIN built /\ built'[m] = built[m]) \/ built'[m] = file
    BY <2>1, <2>3
  <2> QED BY <2>2, <2>4 DEF BuiltInv
<1>3. built' = built \/ CloneDone
  <2>1. CASE UNCHANGED vars \/ Finished
    BY <2>1 DEF Finished, vars
  <2>2. CASE \E pos \in Points : BeginShallow(pos) \/ BeginDeep(pos) \/ BeginFails(pos)
    BY <2>2 DEF BeginShallow, BeginDeep, BeginFails, Begin
  <2>3. CASE DeepVisit \/ DeepMeet \/ DeepFails \/ DeepDone \/ Decline \/ CloneUp \/ CloneFails
    BY <2>3 DEF DeepVisit, DeepMeet, DeepFails, DeepDone, Decline, CloneUp, CloneFails
  <2>4. CASE EditInput \/ EditBelow \/ EditSlot \/ Make \/ Hoist \/ SwapFunction \/ SwapMethod
    BY <2>4 DEF EditInput, EditBelow, EditSlot, Make, Hoist, SwapFunction, SwapMethod, Callback
  <2> QED BY <2>1, <2>2, <2>3, <2>4 DEF Next
<1> QED BY <1>1, <1>2, <1>3

LEMMA InvHolds ==
  ASSUME ~EditsShared
  PROVE  Spec => [](Base /\ CloneInv /\ BuiltInv)
<1>1. Init => Base /\ CloneInv /\ BuiltInv
  <2> SUFFICES ASSUME Init PROVE Base /\ CloneInv /\ BuiltInv
    OBVIOUS
  <2>1. phase # "clone" /\ built = <<>>
    BY DEF Init
  <2> QED BY <2>1, BaseInit DEF CloneInv, BuiltInv
<1>2. (Base /\ CloneInv /\ BuiltInv) /\ [Next]_vars => (Base /\ CloneInv /\ BuiltInv)'
  BY BaseStep, CloneInvStep, BuiltInvStep
<1> QED BY <1>1, <1>2, PTL DEF Spec

\* A mutated file reads as the loaded one but at its point and below, for every
\* rule, on a file too, whose callback edits nothing that its copy shares with the
\* loaded file; though nodes be in several slots.
THEOREM OneReplacementCorrect ==
  ASSUME ~EditsShared
  PROVE  Spec => []OneReplacement
<1>1. BuiltInv => OneReplacement
  BY DEF BuiltInv, FileOK, OneReplacement
<1> QED BY <1>1, InvHolds, PTL

\* The mutant of a call swap differs from the loaded file in one identifier, which
\* denotes From where it was loaded and is named To in the mutant, be the rule's
\* input a shallow copy or a deep one.
THEOREM SwapCorrect ==
  ASSUME ~EditsShared
  PROVE  Spec => []SwapRenamesCallee
<1>1. BuiltInv => SwapRenamesCallee
  BY DEF BuiltInv, FileOK, SwapRenamesCallee
<1> QED BY <1>1, InvHolds, PTL
=============================================================================

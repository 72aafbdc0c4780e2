--------------------------- MODULE PrepareProofs ---------------------------
(***************************************************************************)
(* Proofs about Prepare, for whatever go/packages returns: the loader and  *)
(* discovery in DiscoverProofs, the collection of mutation points here,    *)
(* and then what holds of all three.                                       *)
(***************************************************************************)
EXTENDS Prepare, DiscoverProofs

-----------------------------------------------------------------------------
(***************************************************************************)
(* The two stacks of a walk over a tree.                                   *)
(***************************************************************************)

\* After n nodes of a tree the stack has the last node of every depth up to its
\* own length, and the next node is a child of one of them.
IsStack(nodes, n, path) ==
    /\ n \in 0 .. Len(nodes) /\ path \in Seq(1 .. n)
    /\ \A d \in 1 .. Len(path) : nodes[path[d]].depth = d
    /\ \A d \in 1 .. Len(path) : \A m \in 1 .. n : nodes[m].depth = d => m =< path[d]
    /\ \A d, e \in 1 .. Len(path) : d < e => path[d] < path[e]
    /\ n < Len(nodes) => nodes[n + 1].depth \in 1 .. Len(path) + 1

\* The function declarations on the stack, in their order.
IsFuncStack(nodes, path, funcs) ==
    /\ funcs \in Seq(Nat)
    /\ \A j, k \in 1 .. Len(funcs) : j < k => funcs[j] < funcs[k]
    /\ Range(funcs) = {m \in Range(path) : nodes[m].type = FuncDecl}

LEMMA FrontFacts ==
  ASSUME NEW T, NEW s \in Seq(T), s # <<>>
  PROVE  /\ Front(s) \in Seq(T) /\ Len(s) \in Nat \ {0} /\ Len(Front(s)) = Len(s) - 1
         /\ \A k \in 1 .. Len(s) - 1 : Front(s)[k] = s[k]
BY DEF Front

\* What remains of an ascending list without its last is all but that.
LEMMA FrontRange ==
  ASSUME NEW s \in Seq(Nat), s # <<>>, \A j, k \in 1 .. Len(s) : j < k => s[j] < s[k]
  PROVE  /\ Range(Front(s)) = Range(s) \ {s[Len(s)]}
         /\ s[Len(s)] \in Range(s) /\ \A m \in Range(s) : m =< s[Len(s)]
<1>1. /\ Front(s) \in Seq(Nat) /\ Len(s) \in Nat \ {0} /\ Len(Front(s)) = Len(s) - 1
      /\ \A k \in 1 .. Len(s) - 1 : Front(s)[k] = s[k]
  BY FrontFacts
<1>2. DOMAIN s = 1 .. Len(s) /\ DOMAIN Front(s) = 1 .. Len(s) - 1
  BY <1>1
<1>3. \A k \in 1 .. Len(s) : s[k] \in Nat
  OBVIOUS
<1>4. 1 .. Len(s) = (1 .. Len(s) - 1) \cup {Len(s)}
  BY <1>1
<1>5. \A k \in 1 .. Len(s) - 1 : s[k] < s[Len(s)]
  <2>1. \A k \in 1 .. Len(s) - 1 : k \in 1 .. Len(s) /\ Len(s) \in 1 .. Len(s) /\ k < Len(s)
    BY <1>1
  <2> QED BY <2>1
<1>6. s[Len(s)] \in Range(s) /\ \A m \in Range(s) : m =< s[Len(s)]
  BY <1>2, <1>3, <1>4, <1>5 DEF Range
<1>7. Range(Front(s)) = {s[k] : k \in 1 .. Len(s) - 1} /\ Range(s) = {s[k] : k \in 1 .. Len(s)}
  BY <1>1, <1>2 DEF Range
<1>8. s[Len(s)] \notin {s[k] : k \in 1 .. Len(s) - 1}
  BY <1>3, <1>4, <1>5
<1>9. Range(Front(s)) = Range(s) \ {s[Len(s)]}
  BY <1>4, <1>7, <1>8
<1> QED BY <1>6, <1>9

\* The greatest of a set is the one that is.
LEMMA MaxIs ==
  ASSUME NEW S, S \subseteq Nat, NEW x \in S, \A y \in S : y =< x
  PROVE  Max(S) = x
<1>1. \A y \in S : x >= y
  OBVIOUS
<1>2. Max(S) \in S /\ \A y \in S : Max(S) >= y
  BY <1>1 DEF Max
<1>3. Max(S) \in Nat /\ x \in Nat /\ Max(S) >= x /\ Max(S) =< x
  BY <1>2
<1> QED BY <1>3

LEMMA DepthType ==
  ASSUME NEW nodes, IsPreorder(nodes), NEW n \in 1 .. Len(nodes)
  PROVE  nodes[n].depth \in Nat \ {0} /\ (n > 1 => nodes[n].depth >= 2)
<1>1. CASE n = 1
  BY <1>1 DEF IsPreorder
<1>2. CASE n # 1
  <2>1. n \in 2 .. Len(nodes)
    BY <1>2 DEF IsPreorder
  <2>2. nodes[n].depth \in 2 .. nodes[n - 1].depth + 1
    BY <2>1 DEF IsPreorder
  <2> QED BY <2>2
<1> QED BY <1>1, <1>2

\* A walk begins with empty stacks.
LEMMA StacksStart ==
  ASSUME NEW nodes, IsPreorder(nodes)
  PROVE  IsStack(nodes, 0, <<>>) /\ IsFuncStack(nodes, <<>>, <<>>)
<1>1. <<>> \in Seq(1 .. 0) /\ <<>> \in Seq(Nat) /\ Len(<<>>) = 0 /\ DOMAIN <<>> = {}
  OBVIOUS
<1>2. nodes[1].depth = 1 /\ Len(nodes) \in Nat \ {0}
  BY DEF IsPreorder
<1>3. IsStack(nodes, 0, <<>>)
  BY <1>1, <1>2 DEF IsStack
<1>4. Range(<<>>) = {}
  BY <1>1 DEF Range
<1>5. IsFuncStack(nodes, <<>>, <<>>)
  BY <1>1, <1>4 DEF IsFuncStack
<1> QED BY <1>3, <1>5

\* A child that is entered is on top, and the stack is the path to it.
LEMMA StackEnter ==
  ASSUME NEW nodes, IsPreorder(nodes), NEW n \in Nat, n < Len(nodes), NEW path,
         IsStack(nodes, n, path), nodes[n + 1].depth = Len(path) + 1
  PROVE  /\ IsStack(nodes, n + 1, Append(path, n + 1))
         /\ PathTo(nodes, n + 1) = Append(path, n + 1)
<1> DEFINE l == Len(path)
           N == Len(nodes)
           more == Append(path, n + 1)
<1>1. /\ path \in Seq(1 .. n) /\ N \in Nat
      /\ \A d \in 1 .. l : nodes[path[d]].depth = d
      /\ \A d \in 1 .. l : \A m \in 1 .. n : nodes[m].depth = d => m =< path[d]
      /\ \A d, e \in 1 .. l : d < e => path[d] < path[e]
  BY DEF IsStack, IsPreorder
<1>2. l \in Nat /\ Len(more) = l + 1 /\ more[l + 1] = n + 1
      /\ \A d \in 1 .. l : more[d] = path[d] /\ path[d] \in 1 .. n
  <2>1. path \in Seq(1 .. n)
    BY <1>1
  <2> QED BY <2>1
<1>3. more \in Seq(1 .. n + 1)
  <2>1. path \in Seq(1 .. n + 1)
    <3>1. path \in [1 .. l -> 1 .. n + 1]
      BY <1>1, <1>2
    <3> QED BY <1>2, <3>1
  <2> QED BY <2>1
<1>4. DOMAIN more = 1 .. l + 1 /\ more \in [1 .. l + 1 -> 1 .. n + 1]
  <2>1. more \in [1 .. Len(more) -> 1 .. n + 1]
    <3> HIDE DEF more
    <3> QED BY <1>3
  <2> HIDE DEF more
  <2> QED BY <1>2, <2>1
<1> HIDE DEF l, N, more
<1>5. 1 .. l + 1 = (1 .. l) \cup {l + 1} /\ 1 .. n + 1 = (1 .. n) \cup {n + 1}
  BY <1>2
<1>6. nodes[n + 1].depth = l + 1
  BY DEF l
<1>7. \A d \in 1 .. l + 1 : nodes[more[d]].depth = d
  BY <1>1, <1>2, <1>5, <1>6
<1>8. \A d \in 1 .. l + 1 : \A m \in 1 .. n + 1 : nodes[m].depth = d => m =< more[d]
  <2> SUFFICES ASSUME NEW d \in 1 .. l + 1, NEW m \in 1 .. n + 1, nodes[m].depth = d
               PROVE  m =< more[d]
    OBVIOUS
  <2>1. CASE d = l + 1
    BY <1>2, <2>1
  <2>2. CASE d # l + 1
    <3>1. d \in 1 .. l /\ m # n + 1 /\ m \in 1 .. n
      BY <1>5, <1>6, <2>2
    <3> QED BY <1>1, <1>2, <3>1
  <2> QED BY <2>1, <2>2
<1>9. \A d, e \in 1 .. l + 1 : d < e => more[d] < more[e]
  <2> SUFFICES ASSUME NEW d \in 1 .. l + 1, NEW e \in 1 .. l + 1, d < e PROVE more[d] < more[e]
    OBVIOUS
  <2>1. d \in 1 .. l
    BY <1>2
  <2>2. CASE e = l + 1
    BY <1>2, <2>1, <2>2
  <2>3. CASE e # l + 1
    BY <1>1, <1>2, <1>5, <2>1, <2>3
  <2> QED BY <2>2, <2>3
<1>10. n + 1 < N => nodes[(n + 1) + 1].depth \in 1 .. (l + 1) + 1
  <2> SUFFICES ASSUME n + 1 < N PROVE nodes[n + 2].depth \in 1 .. l + 2
    BY <1>2
  <2>1. n + 2 \in 2 .. N /\ (n + 2) - 1 = n + 1
    BY <1>1
  <2>2. nodes[n + 2].depth \in 2 .. nodes[n + 1].depth + 1
    BY <2>1 DEF IsPreorder, N
  <2> QED BY <1>2, <1>6, <2>2
<1>11. n + 1 \in 0 .. N
  BY <1>1 DEF N
<1>12. IsStack(nodes, n + 1, more)
  BY <1>2, <1>3, <1>7, <1>8, <1>9, <1>10, <1>11 DEF IsStack, N, l
<1>13. \A d \in 1 .. l + 1 : Ancestor(nodes, n + 1, d) = more[d]
  <2> SUFFICES ASSUME NEW d \in 1 .. l + 1 PROVE Ancestor(nodes, n + 1, d) = more[d]
    OBVIOUS
  <2> DEFINE S == {m \in 1 .. n + 1 : nodes[m].depth = d}
  <2>1. more[d] \in S /\ S \subseteq Nat /\ \A m \in S : m =< more[d]
    BY <1>4, <1>7, <1>8
  <2>2. Max(S) = more[d]
    <3> HIDE DEF S
    <3> QED BY <2>1, MaxIs
  <2> QED BY <2>2 DEF Ancestor
<1>14. PathTo(nodes, n + 1) = more
  BY <1>4, <1>6, <1>13 DEF PathTo
<1> QED BY <1>12, <1>14 DEF more

\* When a node is left, because what comes next is no child of it, the stack is
\* one of the nodes around it.
LEMMA StackLeave ==
  ASSUME NEW nodes, IsPreorder(nodes), NEW n \in Nat, NEW path, path # <<>>,
         IsStack(nodes, n, path), ~(n < Len(nodes) /\ nodes[n + 1].depth = Len(path) + 1)
  PROVE  IsStack(nodes, n, Front(path))
<1> DEFINE l == Len(path)
           rest == Front(path)
<1>1. /\ path \in Seq(1 .. n)
      /\ \A d \in 1 .. l : nodes[path[d]].depth = d
      /\ \A d \in 1 .. l : \A m \in 1 .. n : nodes[m].depth = d => m =< path[d]
      /\ \A d, e \in 1 .. l : d < e => path[d] < path[e]
      /\ n < Len(nodes) => nodes[n + 1].depth \in 1 .. l + 1
  BY DEF IsStack
<1>2. /\ rest \in Seq(1 .. n) /\ l \in Nat \ {0} /\ Len(rest) = l - 1
      /\ \A d \in 1 .. l - 1 : rest[d] = path[d]
  BY <1>1, FrontFacts
<1>3. n < Len(nodes) => nodes[n + 1].depth # l + 1
  OBVIOUS
<1> HIDE DEF l, rest
<1>4. \A d \in 1 .. l - 1 : d \in 1 .. l
  BY <1>2
<1>5. n < Len(nodes) => nodes[n + 1].depth \in 1 .. (l - 1) + 1
  BY <1>1, <1>2, <1>3
<1>6. \A d \in 1 .. l - 1 : /\ nodes[rest[d]].depth = d
                           /\ \A m \in 1 .. n : nodes[m].depth = d => m =< rest[d]
                           /\ \A e \in 1 .. l - 1 : d < e => rest[d] < rest[e]
  BY <1>1, <1>2, <1>4
<1>7. n \in 0 .. Len(nodes)
  BY DEF IsStack
<1>8. IsStack(nodes, n, rest)
  BY <1>2, <1>5, <1>6, <1>7 DEF IsStack
<1> QED BY <1>8 DEF rest

\* At the end of a walk all nodes were entered.
LEMMA StackEnd ==
  ASSUME NEW nodes, IsPreorder(nodes), NEW n \in Nat \ {0}, IsStack(nodes, n, <<>>)
  PROVE  n = Len(nodes)
<1> DEFINE N == Len(nodes)
<1>1. N \in Nat /\ n \in 0 .. N /\ (n < N => nodes[n + 1].depth \in 1 .. 1)
  BY DEF IsStack, IsPreorder
<1>2. n < N => nodes[n + 1].depth >= 2
  <2> SUFFICES ASSUME n < N PROVE nodes[n + 1].depth >= 2
    OBVIOUS
  <2>1. n + 1 \in 1 .. N /\ n + 1 > 1
    BY <1>1
  <2> QED BY <2>1, DepthType
<1> HIDE DEF N
<1>3. n = N
  BY <1>1, <1>2
<1> QED BY <1>3 DEF N

\* The stack of functions follows that of nodes.
LEMMA FuncEnter ==
  ASSUME NEW nodes, NEW n \in Nat, NEW path, NEW funcs,
         IsStack(nodes, n, path), IsFuncStack(nodes, path, funcs)
  PROVE  IsFuncStack(nodes, Append(path, n + 1),
                     IF nodes[n + 1].type = FuncDecl THEN Append(funcs, n + 1) ELSE funcs)
<1>1. path \in Seq(1 .. n) /\ Range(path) \subseteq 1 .. n
  <2>1. path \in Seq(1 .. n)
    BY DEF IsStack
  <2> QED BY <2>1, RangeFinite
<1>2. /\ funcs \in Seq(Nat) /\ \A j, k \in 1 .. Len(funcs) : j < k => funcs[j] < funcs[k]
      /\ Range(funcs) = {m \in Range(path) : nodes[m].type = FuncDecl}
  BY DEF IsFuncStack
<1>3. Range(Append(path, n + 1)) = Range(path) \cup {n + 1}
  BY <1>1, AppendRange
<1>4. CASE nodes[n + 1].type # FuncDecl
  <2>1. Range(funcs) = {m \in Range(path) \cup {n + 1} : nodes[m].type = FuncDecl}
    BY <1>2, <1>4
  <2> QED BY <1>2, <1>3, <1>4, <2>1 DEF IsFuncStack
<1>5. CASE nodes[n + 1].type = FuncDecl
  <2> DEFINE more == Append(funcs, n + 1)
             l == Len(funcs)
  <2>1. /\ more \in Seq(Nat) /\ l \in Nat /\ Len(more) = l + 1 /\ more[l + 1] = n + 1
        /\ \A k \in 1 .. l : more[k] = funcs[k] /\ funcs[k] \in Nat
    <3>1. funcs \in Seq(Nat)
      BY <1>2
    <3> QED BY <3>1
  <2>2. Range(more) = Range(funcs) \cup {n + 1}
    BY <1>2, AppendRange
  <2>3. \A k \in 1 .. l : funcs[k] < n + 1
    <3>1. \A k \in 1 .. l : funcs[k] \in Range(funcs)
      BY <1>2 DEF Range
    <3>2. \A m \in Range(funcs) : m \in 1 .. n
      BY <1>1, <1>2
    <3> HIDE DEF l
    <3> QED BY <3>1, <3>2
  <2>4. Range(more) = {m \in Range(path) \cup {n + 1} : nodes[m].type = FuncDecl}
    BY <1>2, <1>5, <2>2
  <2>5. \A j, k \in 1 .. l : j < k => funcs[j] < funcs[k]
    BY <1>2
  <2> HIDE DEF more, l
  <2>6. \A j, k \in 1 .. l + 1 : j < k => more[j] < more[k]
    <3> SUFFICES ASSUME NEW j \in 1 .. l + 1, NEW k \in 1 .. l + 1, j < k PROVE more[j] < more[k]
      OBVIOUS
    <3>1. j \in 1 .. l
      BY <2>1
    <3>2. CASE k = l + 1
      BY <2>1, <2>3, <3>1, <3>2
    <3>3. CASE k # l + 1
      <4>1. k \in 1 .. l
        BY <2>1, <3>3
      <4> QED BY <2>1, <2>5, <3>1, <4>1
    <3> QED BY <3>2, <3>3
  <2>7. IsFuncStack(nodes, Append(path, n + 1), more)
    BY <1>3, <2>1, <2>4, <2>6 DEF IsFuncStack
  <2> QED BY <1>5, <2>7 DEF more
<1> QED BY <1>4, <1>5

LEMMA FuncLeave ==
  ASSUME NEW nodes, NEW n \in Nat, NEW path, path # <<>>, NEW funcs,
         IsStack(nodes, n, path), IsFuncStack(nodes, path, funcs)
  PROVE  IsFuncStack(nodes, Front(path),
                     IF nodes[path[Len(path)]].type = FuncDecl /\ funcs # <<>> THEN Front(funcs)
                     ELSE funcs)
<1> DEFINE last == path[Len(path)]
<1>1. path \in Seq(Nat) /\ \A j, k \in 1 .. Len(path) : j < k => path[j] < path[k]
  <2>1. path \in Seq(1 .. n) /\ \A j, k \in 1 .. Len(path) : j < k => path[j] < path[k]
    BY DEF IsStack
  <2>2. path \in Seq(Nat)
    <3>1. path \in [1 .. Len(path) -> Nat] /\ Len(path) \in Nat
      BY <2>1
    <3> QED BY <3>1
  <2> QED BY <2>1, <2>2
<1>2. /\ Range(Front(path)) = Range(path) \ {last}
      /\ last \in Range(path) /\ \A m \in Range(path) : m =< last
  BY <1>1, FrontRange
<1>3. /\ funcs \in Seq(Nat) /\ \A j, k \in 1 .. Len(funcs) : j < k => funcs[j] < funcs[k]
      /\ Range(funcs) = {m \in Range(path) : nodes[m].type = FuncDecl}
  BY DEF IsFuncStack
<1> HIDE DEF last
<1>4. CASE nodes[last].type # FuncDecl
  <2>1. Range(funcs) = {m \in Range(Front(path)) : nodes[m].type = FuncDecl}
    BY <1>2, <1>3, <1>4
  <2> QED BY <1>3, <1>4, <2>1 DEF IsFuncStack, last
<1>5. CASE nodes[last].type = FuncDecl
  <2>1. last \in Range(funcs)
    BY <1>2, <1>3, <1>5
  <2>2. funcs # <<>>
    BY <2>1 DEF Range
  <2>3. /\ Range(Front(funcs)) = Range(funcs) \ {funcs[Len(funcs)]}
        /\ funcs[Len(funcs)] \in Range(funcs) /\ \A m \in Range(funcs) : m =< funcs[Len(funcs)]
    BY <1>3, <2>2, FrontRange
  <2>4. funcs[Len(funcs)] = last
    <3>1. funcs[Len(funcs)] \in Range(path) /\ Range(path) \subseteq Nat
      BY <1>1, <1>3, <2>3, RangeFinite
    <3>2. /\ last =< funcs[Len(funcs)] /\ funcs[Len(funcs)] =< last
          /\ last \in Nat /\ funcs[Len(funcs)] \in Nat
      BY <1>2, <2>1, <2>3, <3>1
    <3> QED BY <3>2
  <2>5. Range(Front(funcs)) = {m \in Range(Front(path)) : nodes[m].type = FuncDecl}
    BY <1>2, <1>3, <2>3, <2>4
  <2>6. /\ Front(funcs) \in Seq(Nat) /\ Len(funcs) \in Nat /\ Len(Front(funcs)) = Len(funcs) - 1
        /\ \A k \in 1 .. Len(funcs) - 1 : Front(funcs)[k] = funcs[k]
    BY <1>3, <2>2, FrontFacts
  <2>7. \A j, k \in 1 .. Len(Front(funcs)) : j < k => Front(funcs)[j] < Front(funcs)[k]
    <3>1. \A k \in 1 .. Len(funcs) - 1 : k \in 1 .. Len(funcs)
      BY <2>6
    <3> QED BY <1>3, <2>6, <3>1
  <2>8. IsFuncStack(nodes, Front(path), Front(funcs))
    BY <2>5, <2>6, <2>7 DEF IsFuncStack
  <2> QED BY <1>5, <2>2, <2>8 DEF last
<1> QED BY <1>4, <1>5

\* The function around a node is the last of the stack.
LEMMA FuncOnTop ==
  ASSUME NEW nodes, NEW n, NEW path, NEW funcs,
         IsFuncStack(nodes, path, funcs), PathTo(nodes, n) = path
  PROVE  FuncAround(nodes, n) = IF funcs = <<>> THEN NoFunc ELSE nodes[funcs[Len(funcs)]].name
<1>1. /\ funcs \in Seq(Nat) /\ \A j, k \in 1 .. Len(funcs) : j < k => funcs[j] < funcs[k]
      /\ Range(funcs) = {m \in Range(PathTo(nodes, n)) : nodes[m].type = FuncDecl}
  BY DEF IsFuncStack
<1>2. CASE funcs = <<>>
  <2>1. Range(funcs) = {}
    BY <1>2 DEF Range
  <2> QED BY <1>1, <1>2, <2>1 DEF FuncAround
<1>3. CASE funcs # <<>>
  <2>1. funcs[Len(funcs)] \in Range(funcs) /\ \A m \in Range(funcs) : m =< funcs[Len(funcs)]
    BY <1>1, <1>3, FrontRange
  <2>2. Range(funcs) \subseteq Nat
    BY <1>1, RangeFinite
  <2>3. Max(Range(funcs)) = funcs[Len(funcs)] /\ Range(funcs) # {}
    BY <2>1, <2>2, MaxIs
  <2> QED BY <1>1, <1>3, <2>3 DEF FuncAround
<1> QED BY <1>2, <1>3

-----------------------------------------------------------------------------
(***************************************************************************)
(* The walk over the files.                                                *)
(***************************************************************************)

\* The places of the files to walk.
Walk ==
    UNION {{<<k, f>> : f \in {g \in DOMAIN pkgs[k].files : ~FileAt(<<k, g>>).test}} : k \in DOMAIN pkgs}

\* The point that a node of a file gives, and the points of its first n nodes.
PointAt(at, n) ==
    [id |-> pkgs[at[1]].id, file |-> FileAt(at).file, compiled |-> FileAt(at).compiled,
     node |-> n, path |-> PathTo(FileAt(at).nodes, n), func |-> FuncAround(FileAt(at).nodes, n)]
Due(at, n) == {PointAt(at, m) : m \in {j \in 1 .. n : FileAt(at).nodes[j].type \in targetTypes}}
DueIn(at) == Due(at, Len(FileAt(at).nodes))

\* i files are walked: what is left are the others, and the points are those of
\* these files and of the nodes that were entered of the next.
Walked(i) ==
    /\ Len(files) = Len(FilesToWalk) - i /\ \A k \in DOMAIN files : files[k] = FilesToWalk[i + k]
    /\ Range(points) = (UNION {DueIn(FilesToWalk[k]) : k \in 1 .. i})
                       \cup (IF walking THEN Due(Head(files), node) ELSE {})

\* The points of a package are in the order of its files and of their nodes.
Precedes(p, q) ==
    p.id = q.id => \/ p.file < q.file
                   \/ p.file = q.file /\ p.node < q.node

Walking == {"walk", "prepared"}

CollectInv ==
    /\ targetTypes \subseteq Types
    /\ files \in Seq(Walk) /\ points \in Seq(UNION {DueIn(at) : at \in Walk})
    /\ stage \notin Walking => files = <<>> /\ points = <<>>
    /\ stage \in Walking => \E i \in 0 .. Len(FilesToWalk) : Walked(i)
    /\ stage = "prepared" => files = <<>>
    /\ walking => /\ stage = "walk" /\ files # <<>>
                  /\ IsStack(Nodes, node, pathStack) /\ IsFuncStack(Nodes, pathStack, funcStack)
    /\ \A j, k \in DOMAIN points : j < k => Precedes(points[j], points[k])

\* The packages, when there are any: each is built from a raw one that is kept.
LEMMA PackagesKept ==
  ASSUME LoadInv
  PROVE  /\ \A k \in DOMAIN pkgs : \E m \in DOMAIN loaded :
                IsKept(loaded[m]) /\ IsRaw(loaded[m]) /\ pkgs[k] = BuildPackage(loaded[m])
         /\ stage \notin {"load", "failed"} =>
                \A m \in DOMAIN loaded :
                    IsKept(loaded[m]) => \E k \in DOMAIN pkgs : pkgs[k] = BuildPackage(loaded[m])
<1>1. CASE stage \in {"load", "failed"}
  BY <1>1 DEF LoadInv
<1>2. CASE stage \notin {"load", "failed"}
  <2>1. pkgs = [k \in DOMAIN Kept |-> BuildPackage(loaded[Kept[k]])] /\ loaded \in Loads
    BY <1>2 DEF LoadInv, LoadedPackages
  <2>2. \A k \in DOMAIN Kept : Kept[k] \in DOMAIN loaded /\ IsKept(loaded[Kept[k]])
    BY <2>1, KeptIsList DEF IsListOf
  <2>3. \A m \in DOMAIN loaded : IsKept(loaded[m]) => \E k \in DOMAIN Kept : Kept[k] = m
    BY <2>1, KeptIsList DEF IsListOf
  <2>4. \A m \in DOMAIN loaded : IsRaw(loaded[m])
    BY <2>1, LoadsAssumption
  <2> QED BY <2>1, <2>2, <2>3, <2>4
<1> QED BY <1>1, <1>2

\* The files of a package, by their indices.
LEMMA FilesBuilt ==
  ASSUME LoadInv, NEW k \in DOMAIN pkgs
  PROVE  /\ k \in Nat /\ Len(pkgs[k].files) \in Nat
         /\ DOMAIN pkgs[k].files = 1 .. Len(pkgs[k].files)
         /\ \A f \in DOMAIN pkgs[k].files : IsPreorder(pkgs[k].files[f].nodes)
         /\ \A f, g \in DOMAIN pkgs[k].files : f < g => pkgs[k].files[f].file < pkgs[k].files[g].file
         /\ \A f \in DOMAIN pkgs[k].files : pkgs[k].files[f].file \in Nat
<1>1. PICK m \in DOMAIN loaded : IsRaw(loaded[m]) /\ pkgs[k] = BuildPackage(loaded[m])
  BY PackagesBuilt
<1> DEFINE raw == loaded[m]
<1>2. /\ Len(pkgs[k].files) \in Nat /\ DOMAIN pkgs[k].files = 1 .. Len(pkgs[k].files)
      /\ \A f \in DOMAIN pkgs[k].files : /\ pkgs[k].files[f].file \in Shown(raw)
                                        /\ pkgs[k].files[f] = FileOf(raw, pkgs[k].files[f].file)
      /\ \A f, g \in DOMAIN pkgs[k].files : f < g => pkgs[k].files[f].file < pkgs[k].files[g].file
  BY <1>1, BuiltFiles
<1>3. ASSUME NEW f \in DOMAIN pkgs[k].files
      PROVE  IsPreorder(pkgs[k].files[f].nodes) /\ pkgs[k].files[f].file \in Nat
  <2> DEFINE file == pkgs[k].files[f].file
  <2>1. file \in Shown(raw) /\ pkgs[k].files[f] = FileOf(raw, file)
    BY <1>2
  <2>2. PICK t \in DOMAIN raw.syntax : TreeOf(raw, file) = raw.syntax[t]
    BY <1>1, <2>1, TreeIsOne
  <2>3. FileOf(raw, file).nodes = raw.syntax[t].nodes
    BY <2>2 DEF FileOf
  <2>4. IsPreorder(raw.syntax[t].nodes)
    BY NodesAssumption DEF LoadInv
  <2>5. pkgs[k].files[f].nodes = raw.syntax[t].nodes
    BY <2>1, <2>3
  <2>6. file \in Nat
    <3>1. Range(raw.goFiles) \subseteq DOMAIN BaseOf
      BY <1>1, RangeFinite DEF IsRaw
    <3> QED BY <2>1, <3>1, FilesAssumption DEF Shown
  <2> QED BY <2>4, <2>5, <2>6
<1>4. k \in Nat
  BY PackagesBuilt
<1> QED BY <1>2, <1>3, <1>4

LEMMA WalkFacts ==
  ASSUME LoadInv, NEW at \in Walk
  PROVE  /\ at \in Nat \X Nat /\ at[1] \in DOMAIN pkgs /\ at[2] \in DOMAIN pkgs[at[1]].files
         /\ FileAt(at) = pkgs[at[1]].files[at[2]] /\ ~FileAt(at).test
         /\ IsPreorder(FileAt(at).nodes)
<1>1. PICK k \in DOMAIN pkgs : \E f \in DOMAIN pkgs[k].files : at = <<k, f>> /\ ~FileAt(<<k, f>>).test
  BY DEF Walk
<1>2. PICK f \in DOMAIN pkgs[k].files : at = <<k, f>> /\ ~FileAt(<<k, f>>).test
  BY <1>1
<1>3. at[1] = k /\ at[2] = f /\ k \in Nat /\ f \in Nat
  BY <1>2, FilesBuilt
<1>4. at \in Nat \X Nat
  BY <1>2, <1>3
<1>5. FileAt(at) = pkgs[k].files[f]
  BY <1>3 DEF FileAt
<1> QED BY <1>2, <1>3, <1>4, <1>5, FilesBuilt

LEMMA WalkFinite ==
  ASSUME LoadInv
  PROVE  IsFiniteSet(Walk)
<1> DEFINE Of(k) == {<<k, f>> : f \in {g \in DOMAIN pkgs[k].files : ~FileAt(<<k, g>>).test}}
           sets == {Of(k) : k \in DOMAIN pkgs}
           h == [k \in DOMAIN pkgs |-> Of(k)]
<1>1. ASSUME NEW k \in DOMAIN pkgs PROVE IsFiniteSet(Of(k))
  <2> DEFINE D == DOMAIN pkgs[k].files
             E == {g \in D : ~FileAt(<<k, g>>).test}
             g == [f \in E |-> <<k, f>>]
  <2>1. IsFiniteSet(D)
    BY FilesBuilt, FS_Interval
  <2>2. IsFiniteSet(E)
    <3>1. E \in SUBSET D
      OBVIOUS
    <3> HIDE DEF D, E
    <3> QED BY <2>1, <3>1, FS_Subset
  <2>3. g \in Surjection(E, Of(k))
    BY DEF Surjection
  <2> HIDE DEF D, E, g, Of
  <2> QED BY <2>2, <2>3, FS_Surjection
<1>2. IsFiniteSet(DOMAIN pkgs)
  BY PackagesBuilt, FS_Interval
<1>3. h \in Surjection(DOMAIN pkgs, sets)
  <2> HIDE DEF Of
  <2> QED BY DEF Surjection
<1>4. \A T \in sets : IsFiniteSet(T)
  BY <1>1
<1>5. Walk = UNION sets
  BY DEF Walk
<1> HIDE DEF h, sets, Of
<1> QED BY <1>2, <1>3, <1>4, <1>5, FS_Surjection, FS_UNION

\* The list of the files to walk has each once, in the order of the loops.
LEMMA WalkList ==
  ASSUME LoadInv
  PROVE  /\ Len(FilesToWalk) \in Nat /\ DOMAIN FilesToWalk = 1 .. Len(FilesToWalk)
         /\ FilesToWalk \in Seq(Walk)
         /\ Walk = {FilesToWalk[k] : k \in 1 .. Len(FilesToWalk)}
         /\ \A j, k \in 1 .. Len(FilesToWalk) : j < k => Earlier(FilesToWalk[j], FilesToWalk[k])
<1>1. Walk \subseteq Nat \X Nat
  BY WalkFacts
<1>2. FilesToWalk = InLoopOrder(Walk)
  BY DEF FilesToWalk, Walk
<1>3. /\ IsListOf(FilesToWalk, Walk)
      /\ \A j, k \in DOMAIN FilesToWalk : j < k => Earlier(FilesToWalk[j], FilesToWalk[k])
  BY <1>1, <1>2, WalkFinite, LoopOrderIsList
<1>4. /\ Len(FilesToWalk) \in Nat /\ FilesToWalk \in [1 .. Len(FilesToWalk) -> Walk]
      /\ Walk = {FilesToWalk[k] : k \in DOMAIN FilesToWalk}
  BY <1>3 DEF IsListOf
<1>5. DOMAIN FilesToWalk = 1 .. Len(FilesToWalk) /\ FilesToWalk \in Seq(Walk)
  BY <1>4
<1> QED BY <1>3, <1>4, <1>5

\* All that is said of the files depends on the packages and the target types.
LEMMA FilesOnly ==
  ASSUME pkgs' = pkgs, targetTypes' = targetTypes
  PROVE  /\ FilesToWalk' = FilesToWalk /\ Walk' = Walk
         /\ \A at : FileAt(at)' = FileAt(at) /\ DueIn(at)' = DueIn(at)
         /\ \A at, n : Due(at, n)' = Due(at, n) /\ PointAt(at, n)' = PointAt(at, n)
<1>1. \A at : FileAt(at)' = FileAt(at)
  BY DEF FileAt
<1>2. \A at, n : PointAt(at, n)' = PointAt(at, n)
  BY <1>1 DEF PointAt
<1>3. \A at, n : Due(at, n)' = Due(at, n)
  BY <1>1, <1>2 DEF Due
<1>4. \A at : DueIn(at)' = DueIn(at)
  BY <1>1, <1>3 DEF DueIn
<1>5. FilesToWalk' = FilesToWalk /\ Walk' = Walk
  BY DEF FilesToWalk, Walk, FileAt
<1> QED BY <1>1, <1>2, <1>3, <1>4, <1>5

\* The next file to walk.
LEMMA NextFile ==
  ASSUME LoadInv, files \in Seq(Walk), files # <<>>, NEW i \in 0 .. Len(FilesToWalk), Walked(i)
  PROVE  /\ i + 1 \in 1 .. Len(FilesToWalk)
         /\ Head(files) = FilesToWalk[i + 1] /\ Head(files) \in Walk
         /\ Tail(files) \in Seq(Walk) /\ Len(Tail(files)) = Len(FilesToWalk) - (i + 1)
         /\ \A k \in DOMAIN Tail(files) : Tail(files)[k] = FilesToWalk[i + 1 + k]
<1> DEFINE W == FilesToWalk
           L == Len(W)
           l == Len(files)
<1>1. L \in Nat /\ l = L - i /\ \A k \in DOMAIN files : files[k] = W[i + k]
  BY WalkList DEF Walked
<1>2. /\ l \in Nat \ {0} /\ DOMAIN files = 1 .. l /\ Head(files) = files[1] /\ files[1] \in Walk
      /\ Tail(files) \in Seq(Walk) /\ Len(Tail(files)) = l - 1 /\ DOMAIN Tail(files) = 1 .. l - 1
      /\ \A k \in 1 .. l - 1 : Tail(files)[k] = files[k + 1]
  OBVIOUS
<1> HIDE DEF L, l, W
<1>3. i + 1 \in 1 .. L
  BY <1>1, <1>2 DEF L, W
<1>4. Head(files) = W[i + 1]
  <2>1. 1 \in DOMAIN files
    BY <1>2
  <2> QED BY <1>1, <1>2, <2>1
<1>5. ASSUME NEW k \in 1 .. l - 1 PROVE Tail(files)[k] = W[i + 1 + k]
  <2>1. k + 1 \in DOMAIN files /\ i + (k + 1) = i + 1 + k
    BY <1>2 DEF L, W
  <2> QED BY <1>1, <1>2, <2>1
<1>6. l - 1 = L - (i + 1)
  BY <1>1, <1>2 DEF L, W
<1> QED BY <1>2, <1>3, <1>4, <1>5, <1>6 DEF L, W

LEMMA PointFacts ==
  ASSUME NEW at, NEW n, NEW p \in Due(at, n)
  PROVE  \E m \in 1 .. n : /\ p = PointAt(at, m) /\ p.id = pkgs[at[1]].id
                           /\ p.file = FileAt(at).file /\ p.node = m
<1>1. PICK m \in 1 .. n : p = PointAt(at, m)
  BY DEF Due
<1>2. /\ PointAt(at, m).id = pkgs[at[1]].id /\ PointAt(at, m).file = FileAt(at).file
      /\ PointAt(at, m).node = m
  BY DEF PointAt
<1> QED BY <1>1, <1>2

\* The points of an earlier file precede those of a later one, and those of a
\* file are in the order of its nodes.
LEMMA EarlierPrecedes ==
  ASSUME LoadInv, NEW a \in Walk, NEW b \in Walk, Earlier(a, b),
         NEW m, NEW n, NEW p \in Due(a, m), NEW q \in Due(b, n)
  PROVE  Precedes(p, q)
<1> SUFFICES ASSUME p.id = q.id PROVE p.file < q.file
  BY DEF Precedes
<1>1. /\ a \in Nat \X Nat /\ a[1] \in DOMAIN pkgs /\ a[2] \in DOMAIN pkgs[a[1]].files
      /\ FileAt(a) = pkgs[a[1]].files[a[2]]
  BY WalkFacts
<1>2. /\ b \in Nat \X Nat /\ b[1] \in DOMAIN pkgs /\ b[2] \in DOMAIN pkgs[b[1]].files
      /\ FileAt(b) = pkgs[b[1]].files[b[2]]
  BY WalkFacts
<1>3. pkgs[a[1]].id = pkgs[b[1]].id /\ p.file = FileAt(a).file /\ q.file = FileAt(b).file
  BY PointFacts
<1>4. a[1] = b[1]
  BY <1>1, <1>2, <1>3, PackagesBuilt, SamePackage
<1>5. a[2] < b[2]
  <2>1. a[1] \in Nat
    BY <1>1
  <2> QED BY <1>1, <1>2, <1>4, <2>1, EarlierPair
<1> QED BY <1>1, <1>2, <1>3, <1>4, <1>5, FilesBuilt

LEMMA NodesPrecede ==
  ASSUME LoadInv, NEW at \in Walk, NEW n \in Nat, NEW p \in Due(at, n)
  PROVE  Precedes(p, PointAt(at, n + 1))
<1>1. PICK m \in 1 .. n : p.file = FileAt(at).file /\ p.node = m
  BY PointFacts
<1>2. PointAt(at, n + 1).file = FileAt(at).file /\ PointAt(at, n + 1).node = n + 1
  BY DEF PointAt
<1>3. m < n + 1
  OBVIOUS
<1> QED BY <1>1, <1>2, <1>3 DEF Precedes

\* One more node gives one more point, or none.
LEMMA DueNext ==
  ASSUME NEW at, NEW n \in Nat
  PROVE  Due(at, n + 1) = Due(at, n) \cup (IF FileAt(at).nodes[n + 1].type \in targetTypes
                                          THEN {PointAt(at, n + 1)} ELSE {})
<1>1. 1 .. n + 1 = (1 .. n) \cup {n + 1}
  OBVIOUS
<1> QED BY <1>1 DEF Due

\* The points so far are some of those of all files.
LEMMA DueSome ==
  ASSUME NEW at \in Walk, NEW n \in Nat, n =< Len(FileAt(at).nodes), Len(FileAt(at).nodes) \in Nat
  PROVE  Due(at, n) \subseteq DueIn(at)
<1>1. 1 .. n \subseteq 1 .. Len(FileAt(at).nodes)
  OBVIOUS
<1> QED BY <1>1 DEF Due, DueIn

LEMMA AppendPrecedes ==
  ASSUME NEW T, NEW s \in Seq(T), NEW e, \A x \in Range(s) : Precedes(x, e),
         \A j, k \in DOMAIN s : j < k => Precedes(s[j], s[k])
  PROVE  \A j, k \in DOMAIN Append(s, e) : j < k => Precedes(Append(s, e)[j], Append(s, e)[k])
<1> DEFINE more == Append(s, e)
           l == Len(s)
<1>1. /\ l \in Nat /\ DOMAIN s = 1 .. l /\ DOMAIN more = 1 .. l + 1
      /\ more[l + 1] = e /\ \A k \in 1 .. l : more[k] = s[k]
  OBVIOUS
<1>2. \A k \in 1 .. l : s[k] \in Range(s)
  BY <1>1 DEF Range
<1> HIDE DEF more, l
<1>3. ASSUME NEW j \in DOMAIN more, NEW k \in DOMAIN more, j < k PROVE Precedes(more[j], more[k])
  <2>1. j \in 1 .. l /\ (k \in 1 .. l \/ k = l + 1)
    BY <1>1, <1>3
  <2>2. CASE k = l + 1
    <3>1. more[j] = s[j] /\ more[k] = e
      BY <1>1, <2>1, <2>2
    <3> QED BY <1>2, <2>1, <3>1
  <2>3. CASE k \in 1 .. l
    <3>1. more[j] = s[j] /\ more[k] = s[k]
      BY <1>1, <2>1, <2>3
    <3> QED BY <1>1, <1>3, <2>1, <2>3, <3>1
  <2> QED BY <2>1, <2>2, <2>3
<1> QED BY <1>3 DEF more

AllDue == UNION {DueIn(at) : at \in Walk}

\* The next node of a file: what is entered, and the point it may give.
LEMMA Entered ==
  ASSUME LoadInv, CollectInv, Enter
  PROVE  \E more \in SUBSET {PointAt(Head(files), node + 1)} :
            /\ Head(files) \in Walk /\ node \in Nat
            /\ more \subseteq AllDue
            /\ Due(Head(files), node + 1) = Due(Head(files), node) \cup more
            /\ points' = IF more = {} THEN points ELSE Append(points, PointAt(Head(files), node + 1))
            /\ IsStack(Nodes, node + 1, pathStack') /\ IsFuncStack(Nodes, pathStack', funcStack')
<1> DEFINE at == Head(files)
           n == node + 1
           path == Append(pathStack, n)
           funcs == IF Nodes[n].type = FuncDecl THEN Append(funcStack, n) ELSE funcStack
           more == IF Nodes[n].type \in targetTypes THEN {PointAt(at, n)} ELSE {}
<1>1. /\ walking /\ node < Len(Nodes) /\ Nodes[n].depth = Len(pathStack) + 1
      /\ pathStack' = path /\ funcStack' = funcs
      /\ points' = IF Nodes[n].type \in targetTypes THEN Append(points, Point(n, path, funcs))
                   ELSE points
  BY DEF Enter, AtChild
<1>2. /\ stage = "walk" /\ files # <<>> /\ files \in Seq(Walk)
      /\ IsStack(Nodes, node, pathStack) /\ IsFuncStack(Nodes, pathStack, funcStack)
  BY <1>1 DEF CollectInv
<1>3. at \in Walk
  BY <1>2
<1>4. Nodes = FileAt(at).nodes /\ IsPreorder(Nodes) /\ Len(Nodes) \in Nat
  BY <1>3, WalkFacts DEF Nodes, IsPreorder
<1>5. node \in Nat
  BY <1>2, <1>4 DEF IsStack
<1> HIDE DEF at
<1>6. IsStack(Nodes, n, path) /\ PathTo(Nodes, n) = path
  BY <1>1, <1>2, <1>4, <1>5, StackEnter
<1>7. IsFuncStack(Nodes, path, funcs)
  BY <1>2, <1>5, FuncEnter
<1> HIDE DEF path, funcs
<1>8. FuncAround(Nodes, n) = IF funcs = <<>> THEN NoFunc ELSE Nodes[funcs[Len(funcs)]].name
  <2> HIDE DEF n
  <2> QED BY <1>6, <1>7, FuncOnTop
<1>9. Point(n, path, funcs) = PointAt(at, n)
  BY <1>4, <1>6, <1>8 DEF Point, PointAt, at
<1>10. Due(at, n) = Due(at, node) \cup more
  BY <1>4, <1>5, DueNext
<1>11. points' = IF more = {} THEN points ELSE Append(points, PointAt(at, n))
  BY <1>1, <1>9
<1>12. more \subseteq AllDue
  <2>1. n \in Nat /\ n =< Len(FileAt(at).nodes) /\ Len(FileAt(at).nodes) \in Nat
    BY <1>1, <1>4, <1>5
  <2>2. Due(at, n) \subseteq DueIn(at)
    <3> HIDE DEF n
    <3> QED BY <1>3, <2>1, DueSome
  <2> QED BY <1>3, <1>10, <2>2 DEF AllDue
<1>13. more \in SUBSET {PointAt(at, n)}
  OBVIOUS
<1> HIDE DEF more
<1> QED BY <1>1, <1>3, <1>5, <1>6, <1>7, <1>10, <1>11, <1>12, <1>13 DEF at

NextCollectInv == CollectInv'

LEMMA EnterKeeps ==
  ASSUME LoadInv, CollectInv, Enter
  PROVE  NextCollectInv
<1> DEFINE at == Head(files)
<1>1. /\ walking /\ walking' = walking /\ stage' = stage /\ pkgs' = pkgs /\ node' = node + 1
      /\ files' = files /\ targetTypes' = targetTypes
  BY DEF Enter, loadVars
<1>2. PICK more \in SUBSET {PointAt(at, node + 1)} :
         /\ at \in Walk /\ node \in Nat
         /\ more \subseteq AllDue
         /\ Due(at, node + 1) = Due(at, node) \cup more
         /\ points' = IF more = {} THEN points ELSE Append(points, PointAt(at, node + 1))
         /\ IsStack(Nodes, node + 1, pathStack') /\ IsFuncStack(Nodes, pathStack', funcStack')
  BY Entered
<1>3. /\ stage = "walk" /\ files # <<>> /\ files \in Seq(Walk) /\ points \in Seq(AllDue)
      /\ targetTypes \subseteq Types
      /\ \A j, k \in DOMAIN points : j < k => Precedes(points[j], points[k])
  BY <1>1 DEF CollectInv, AllDue
<1>4. PICK i \in 0 .. Len(FilesToWalk) : Walked(i)
  BY <1>3 DEF CollectInv, Walking
<1>5. /\ FilesToWalk' = FilesToWalk /\ Walk' = Walk
      /\ \A a : FileAt(a)' = FileAt(a) /\ DueIn(a)' = DueIn(a)
      /\ \A a, n : Due(a, n)' = Due(a, n) /\ PointAt(a, n)' = PointAt(a, n)
  BY <1>1, FilesOnly
<1>6. Nodes' = Nodes
  BY <1>1 DEF Nodes, FileAt
<1>7. AllDue' = AllDue
  BY <1>5 DEF AllDue
<1>8. Range(points) = (UNION {DueIn(FilesToWalk[k]) : k \in 1 .. i}) \cup Due(at, node)
  BY <1>1, <1>4 DEF Walked
<1>9. Range(points') = Range(points) \cup more
  <2>1. CASE more = {}
    BY <1>2, <2>1
  <2>2. CASE more # {}
    <3>1. more = {PointAt(at, node + 1)}
      BY <2>2
    <3> QED BY <1>2, <1>3, <2>2, <3>1, AppendRange
  <2> QED BY <2>1, <2>2
<1>10. points' \in Seq(AllDue)
  <2>1. CASE more = {}
    BY <1>2, <1>3, <2>1
  <2>2. CASE more # {}
    <3>1. PointAt(at, node + 1) \in AllDue
      BY <1>2, <2>2
    <3> QED BY <1>2, <1>3, <2>2, <3>1
  <2> QED BY <2>1, <2>2
<1>11. ASSUME more # {}, NEW x \in Range(points) PROVE Precedes(x, PointAt(at, node + 1))
  <2>1. CASE x \in Due(at, node)
    BY <1>2, <2>1, NodesPrecede
  <2>2. CASE x \notin Due(at, node)
    <3>1. PICK k \in 1 .. i : x \in DueIn(FilesToWalk[k])
      <4> HIDE DEF at
      <4>1. x \in UNION {DueIn(FilesToWalk[k]) : k \in 1 .. i}
        BY <1>8, <1>11, <2>2
      <4> QED BY <4>1
    <3>2. i + 1 \in 1 .. Len(FilesToWalk) /\ at = FilesToWalk[i + 1]
      BY <1>3, <1>4, NextFile
    <3>3. k \in 1 .. Len(FilesToWalk) /\ k < i + 1
      BY <1>4, WalkList
    <3>4. Earlier(FilesToWalk[k], at) /\ FilesToWalk[k] \in Walk
      BY <3>2, <3>3, WalkList
    <3>5. x \in Due(FilesToWalk[k], Len(FileAt(FilesToWalk[k]).nodes))
      BY <3>1 DEF DueIn
    <3>6. PointAt(at, node + 1) \in Due(at, node + 1)
      BY <1>2, <1>11
    <3> HIDE DEF at
    <3> QED BY <1>2, <3>4, <3>5, <3>6, EarlierPrecedes
  <2> QED BY <2>1, <2>2
<1>12. \A j, k \in DOMAIN points' : j < k => Precedes(points'[j], points'[k])
  <2>1. CASE more = {}
    BY <1>2, <1>3, <2>1
  <2>2. CASE more # {}
    <3>1. points' = Append(points, PointAt(at, node + 1))
      BY <1>2, <2>2
    <3>2. \A x \in Range(points) : Precedes(x, PointAt(at, node + 1))
      BY <1>11, <2>2
    <3> HIDE DEF at
    <3> QED BY <1>3, <3>1, <3>2, AppendPrecedes
  <2> QED BY <2>1, <2>2
<1>13. Walked(i)'
  <2>1. Range(points') = (UNION {DueIn(FilesToWalk[k]) : k \in 1 .. i}) \cup Due(at, node + 1)
    <3> HIDE DEF at
    <3> QED BY <1>2, <1>8, <1>9
  <2>2. Len(files) = Len(FilesToWalk) - i /\ \A k \in DOMAIN files : files[k] = FilesToWalk[i + k]
    BY <1>4 DEF Walked
  <2>3. (UNION {DueIn(FilesToWalk[k]) : k \in 1 .. i})' = UNION {DueIn(FilesToWalk[k]) : k \in 1 .. i}
    BY <1>5
  <2> QED BY <1>1, <1>5, <2>1, <2>2, <2>3 DEF Walked
<1>14. (UNION {DueIn(a) : a \in Walk})' = AllDue
  BY <1>7 DEF AllDue
<1>15. /\ IsStack(Nodes', node', pathStack') /\ IsFuncStack(Nodes', pathStack', funcStack')
  BY <1>1, <1>2, <1>6
<1>16. i \in 0 .. Len(FilesToWalk')
  BY <1>5
<1> HIDE DEF at
<1> QED
  BY <1>1, <1>3, <1>5, <1>10, <1>12, <1>13, <1>14, <1>15, <1>16
  DEF CollectInv, NextCollectInv, Walking, Precedes

LEMMA CloseKeeps ==
  ASSUME LoadInv, CollectInv, CloseFile
  PROVE  NextCollectInv
<1>1. /\ walking /\ ~walking' /\ stage' = stage /\ pkgs' = pkgs /\ points' = points
      /\ node > 0 /\ pathStack = <<>> /\ files' = Tail(files) /\ targetTypes' = targetTypes
  BY DEF CloseFile, loadVars
<1>2. /\ stage = "walk" /\ files # <<>> /\ files \in Seq(Walk) /\ points \in Seq(AllDue)
      /\ targetTypes \subseteq Types /\ IsStack(Nodes, node, <<>>)
      /\ \A j, k \in DOMAIN points : j < k => Precedes(points[j], points[k])
  BY <1>1 DEF CollectInv, AllDue
<1>3. PICK i \in 0 .. Len(FilesToWalk) : Walked(i)
  BY <1>2 DEF CollectInv, Walking
<1>4. /\ i + 1 \in 1 .. Len(FilesToWalk)
      /\ Head(files) = FilesToWalk[i + 1] /\ Head(files) \in Walk
      /\ Tail(files) \in Seq(Walk) /\ Len(Tail(files)) = Len(FilesToWalk) - (i + 1)
      /\ \A k \in DOMAIN Tail(files) : Tail(files)[k] = FilesToWalk[i + 1 + k]
  BY <1>2, <1>3, NextFile
<1>5. /\ FilesToWalk' = FilesToWalk /\ Walk' = Walk
      /\ \A a : FileAt(a)' = FileAt(a) /\ DueIn(a)' = DueIn(a)
      /\ AllDue' = AllDue
  <2>1. /\ FilesToWalk' = FilesToWalk /\ Walk' = Walk
        /\ \A a : FileAt(a)' = FileAt(a) /\ DueIn(a)' = DueIn(a)
    BY <1>1, FilesOnly
  <2> QED BY <2>1 DEF AllDue
<1>6. Due(Head(files), node) = DueIn(Head(files))
  <2>1. Nodes = FileAt(Head(files)).nodes /\ IsPreorder(Nodes) /\ Len(Nodes) \in Nat
    BY <1>4, WalkFacts DEF Nodes, IsPreorder
  <2>2. node \in Nat \ {0}
    BY <1>1, <1>2, <2>1 DEF IsStack
  <2>3. node = Len(Nodes)
    BY <1>2, <2>1, <2>2, StackEnd
  <2> QED BY <2>1, <2>3 DEF DueIn
<1>7. Range(points) = UNION {DueIn(FilesToWalk[k]) : k \in 1 .. i + 1}
  <2>1. Range(points) = (UNION {DueIn(FilesToWalk[k]) : k \in 1 .. i}) \cup DueIn(FilesToWalk[i + 1])
    BY <1>1, <1>3, <1>4, <1>6 DEF Walked
  <2>2. 1 .. i + 1 = (1 .. i) \cup {i + 1}
    OBVIOUS
  <2> QED BY <2>1, <2>2
<1>8. Walked(i + 1)'
  <2>1. (UNION {DueIn(FilesToWalk[k]) : k \in 1 .. i + 1})' = UNION {DueIn(FilesToWalk[k]) : k \in 1 .. i + 1}
    BY <1>5
  <2> QED BY <1>1, <1>4, <1>5, <1>7, <2>1 DEF Walked
<1>9. (UNION {DueIn(a) : a \in Walk})' = AllDue
  BY <1>5 DEF AllDue
<1>10. i + 1 \in 0 .. Len(FilesToWalk')
  BY <1>4, <1>5, WalkList
<1> QED BY <1>1, <1>2, <1>4, <1>5, <1>8, <1>9, <1>10 DEF CollectInv, NextCollectInv, Walking, Precedes

\* The steps that only open a file or leave a node.
LEMMA SameFileKeeps ==
  ASSUME LoadInv, CollectInv, OpenFile \/ Leave
  PROVE  NextCollectInv
<1>1. /\ walking' /\ stage' = stage /\ pkgs' = pkgs /\ points' = points
      /\ files' = files /\ targetTypes' = targetTypes /\ stage = "walk" /\ files # <<>>
  BY DEF OpenFile, Leave, loadVars, CollectInv
<1>2. /\ files \in Seq(Walk) /\ points \in Seq(AllDue) /\ targetTypes \subseteq Types
      /\ \A j, k \in DOMAIN points : j < k => Precedes(points[j], points[k])
  BY DEF CollectInv, AllDue
<1>3. PICK i \in 0 .. Len(FilesToWalk) : Walked(i)
  BY <1>1 DEF CollectInv, Walking
<1>4. /\ FilesToWalk' = FilesToWalk /\ Walk' = Walk
      /\ \A a : FileAt(a)' = FileAt(a) /\ DueIn(a)' = DueIn(a)
      /\ \A a, n : Due(a, n)' = Due(a, n)
      /\ AllDue' = AllDue
  <2>1. /\ FilesToWalk' = FilesToWalk /\ Walk' = Walk
        /\ \A a : FileAt(a)' = FileAt(a) /\ DueIn(a)' = DueIn(a)
        /\ \A a, n : Due(a, n)' = Due(a, n)
    BY <1>1, FilesOnly
  <2> QED BY <2>1 DEF AllDue
<1>5. Nodes' = Nodes
  BY <1>1 DEF Nodes, FileAt
<1>6. Nodes = FileAt(Head(files)).nodes /\ IsPreorder(Nodes)
  BY <1>1, <1>2, WalkFacts DEF Nodes
<1>7. /\ IsStack(Nodes, node', pathStack') /\ IsFuncStack(Nodes, pathStack', funcStack')
      /\ (IF walking THEN Due(Head(files), node) ELSE {}) = Due(Head(files), node')
  <2>1. CASE OpenFile
    <3>1. node' = 0 /\ pathStack' = <<>> /\ funcStack' = <<>> /\ ~walking
      BY <2>1 DEF OpenFile
    <3>2. Due(Head(files), 0) = {}
      BY DEF Due
    <3> QED BY <1>6, <3>1, <3>2, StacksStart
  <2>2. CASE Leave
    <3>1. /\ walking /\ ~(node < Len(Nodes) /\ Nodes[node + 1].depth = Len(pathStack) + 1)
          /\ pathStack # <<>> /\ node' = node /\ pathStack' = Front(pathStack)
          /\ funcStack' = IF Nodes[pathStack[Len(pathStack)]].type = FuncDecl /\ funcStack # <<>>
                          THEN Front(funcStack) ELSE funcStack
      BY <2>2 DEF Leave, AtChild
    <3>2. IsStack(Nodes, node, pathStack) /\ IsFuncStack(Nodes, pathStack, funcStack)
      BY <3>1 DEF CollectInv
    <3>3. node \in Nat
      BY <1>6, <3>2 DEF IsStack, IsPreorder
    <3>4. IsStack(Nodes, node, pathStack')
      BY <1>6, <3>1, <3>2, <3>3, StackLeave
    <3>5. IsFuncStack(Nodes, pathStack', funcStack')
      BY <3>1, <3>2, <3>3, FuncLeave
    <3> QED BY <3>1, <3>4, <3>5
  <2> QED BY <2>1, <2>2
<1>8. Walked(i)'
  <2>1. (UNION {DueIn(FilesToWalk[k]) : k \in 1 .. i})' = UNION {DueIn(FilesToWalk[k]) : k \in 1 .. i}
    BY <1>4
  <2>2. /\ Len(files) = Len(FilesToWalk) - i /\ \A k \in DOMAIN files : files[k] = FilesToWalk[i + k]
        /\ Range(points) = (UNION {DueIn(FilesToWalk[k]) : k \in 1 .. i}) \cup Due(Head(files), node')
    BY <1>3, <1>7 DEF Walked
  <2> QED BY <1>1, <1>4, <2>1, <2>2 DEF Walked
<1>9. (UNION {DueIn(a) : a \in Walk})' = AllDue
  BY <1>4 DEF AllDue
<1>10. i \in 0 .. Len(FilesToWalk') /\ IsStack(Nodes', node', pathStack') /\ IsFuncStack(Nodes', pathStack', funcStack')
  BY <1>4, <1>5, <1>7
<1> QED BY <1>1, <1>2, <1>4, <1>8, <1>9, <1>10 DEF CollectInv, NextCollectInv, Walking, Precedes

LEMMA BeginKeeps ==
  ASSUME LoadInv, CollectInv, BeginCollect
  PROVE  NextCollectInv
<1>1. /\ stage = "collect" /\ stage' = "walk" /\ pkgs' = pkgs /\ points' = points
      /\ files' = (IF targetTypes = {} THEN <<>> ELSE FilesToWalk)
      /\ walking' = walking /\ targetTypes' = targetTypes
  BY DEF BeginCollect
<1>2. /\ points = <<>> /\ ~walking /\ targetTypes \subseteq Types
  BY <1>1 DEF CollectInv, Walking
<1>3. /\ FilesToWalk' = FilesToWalk /\ Walk' = Walk
      /\ \A a : FileAt(a)' = FileAt(a) /\ DueIn(a)' = DueIn(a)
  BY <1>1, FilesOnly
<1>4. /\ Len(FilesToWalk) \in Nat /\ DOMAIN FilesToWalk = 1 .. Len(FilesToWalk)
      /\ FilesToWalk \in Seq(Walk)
  BY WalkList
<1>5. Range(<<>>) = {}
  BY DEF Range
<1>6. files' \in Seq(Walk)' /\ points' \in Seq(UNION {DueIn(a) : a \in Walk})'
  <2>1. \A T : <<>> \in Seq(T)
    OBVIOUS
  <2> QED BY <1>1, <1>2, <1>3, <1>4, <2>1
<1>7. \E i \in 0 .. Len(FilesToWalk') : Walked(i)'
  <2>1. CASE targetTypes = {}
    <3> DEFINE L == Len(FilesToWalk)
    <3>1. \A a : DueIn(a) = {}
      BY <2>1 DEF DueIn, Due
    <3>2. UNION {DueIn(FilesToWalk[k]) : k \in 1 .. L} = {}
      BY <3>1
    <3>3. (UNION {DueIn(FilesToWalk[k]) : k \in 1 .. L})' = UNION {DueIn(FilesToWalk[k]) : k \in 1 .. L}
      BY <1>3
    <3>4. files' = <<>> /\ Len(files') = L - L /\ DOMAIN files' = {}
      <4>1. L \in Nat /\ files' = <<>>
        BY <1>1, <1>4, <2>1
      <4> HIDE DEF L
      <4> QED BY <4>1
    <3>5. L' = L
      BY <1>3
    <3> HIDE DEF L
    <3>6. Walked(L)'
      BY <1>1, <1>2, <1>3, <1>5, <3>2, <3>3, <3>4, <3>5 DEF Walked, L
    <3>7. L \in 0 .. Len(FilesToWalk')
      BY <1>3, <1>4 DEF L
    <3> QED BY <3>5, <3>6, <3>7
  <2>2. CASE targetTypes # {}
    <3>1. files' = FilesToWalk' /\ Len(FilesToWalk') = Len(FilesToWalk') - 0
          /\ \A k \in DOMAIN files' : files'[k] = FilesToWalk'[0 + k]
      BY <1>1, <1>3, <1>4, <2>2
    <3>2. (UNION {DueIn(FilesToWalk[k]) : k \in 1 .. 0})' = {}
      OBVIOUS
    <3>3. Walked(0)'
      BY <1>1, <1>2, <1>5, <3>1, <3>2 DEF Walked
    <3> QED BY <1>3, <1>4, <3>3
  <2> QED BY <2>1, <2>2
<1> QED BY <1>1, <1>2, <1>6, <1>7 DEF CollectInv, NextCollectInv, Walking

LEMMA DoneKeeps ==
  ASSUME LoadInv, CollectInv, CollectDone
  PROVE  NextCollectInv
<1>1. /\ stage = "walk" /\ files = <<>> /\ stage' = "prepared" /\ pkgs' = pkgs
      /\ UNCHANGED <<targetTypes, files, walking, node, pathStack, funcStack, points>>
  BY DEF CollectDone, collectVars
<1>2. ~walking
  BY <1>1 DEF CollectInv
<1>3. /\ FilesToWalk' = FilesToWalk /\ Walk' = Walk
      /\ \A a : FileAt(a)' = FileAt(a) /\ DueIn(a)' = DueIn(a)
  BY <1>1, FilesOnly
<1>4. PICK i \in 0 .. Len(FilesToWalk) : Walked(i)
  BY <1>1 DEF CollectInv, Walking
<1>5. Walked(i)'
  BY <1>1, <1>2, <1>3, <1>4 DEF Walked
<1>6. (UNION {DueIn(a) : a \in Walk})' = UNION {DueIn(a) : a \in Walk}
  BY <1>3
<1> QED BY <1>1, <1>2, <1>3, <1>4, <1>5, <1>6 DEF CollectInv, NextCollectInv, Walking, Precedes

\* Before the walk there is nothing to lose.
LEMMA NothingWalked ==
  ASSUME CollectInv, UNCHANGED collectVars, stage \notin Walking, stage' \notin Walking
  PROVE  NextCollectInv
<1>1. /\ files = <<>> /\ points = <<>> /\ ~walking /\ targetTypes \subseteq Types
      /\ files' = <<>> /\ points' = <<>> /\ ~walking' /\ targetTypes' = targetTypes
  BY DEF CollectInv, collectVars, Walking
<1>2. /\ files' \in Seq(Walk)' /\ points' \in Seq(UNION {DueIn(a) : a \in Walk})'
  <2>1. \A T : <<>> \in Seq(T)
    OBVIOUS
  <2> QED BY <1>1, <2>1
<1> QED BY <1>1, <1>2 DEF CollectInv, NextCollectInv, Walking

LEMMA NothingHappens ==
  ASSUME CollectInv, UNCHANGED <<loaded, stage, pkgs, collectVars>>
  PROVE  NextCollectInv
<1>1. /\ stage' = stage /\ pkgs' = pkgs
      /\ UNCHANGED <<targetTypes, files, walking, node, pathStack, funcStack, points>>
  BY DEF collectVars
<1>2. /\ FilesToWalk' = FilesToWalk /\ Walk' = Walk
      /\ \A a : FileAt(a)' = FileAt(a) /\ DueIn(a)' = DueIn(a)
      /\ \A a, n : Due(a, n)' = Due(a, n)
  BY <1>1, FilesOnly
<1>3. \A i : Walked(i)' = Walked(i)
  BY <1>1, <1>2 DEF Walked
<1>4. Nodes' = Nodes
  BY <1>1 DEF Nodes, FileAt
<1>5. (UNION {DueIn(a) : a \in Walk})' = UNION {DueIn(a) : a \in Walk}
  BY <1>2
<1> QED BY <1>1, <1>2, <1>3, <1>4, <1>5 DEF CollectInv, NextCollectInv, Walking, Precedes

-----------------------------------------------------------------------------
(***************************************************************************)
(* What the walk has found at its end.                                     *)
(***************************************************************************)

\* A file of a package gives the points that its raw package should give.
LEMMA DueIsPointsOf ==
  ASSUME LoadInv, NEW at \in Walk, NEW raw, IsRaw(raw), pkgs[at[1]] = BuildPackage(raw)
  PROVE  FileAt(at).file \in Shown(raw) \ TestFiles /\ DueIn(at) = PointsOf(raw, FileAt(at).file)
<1> DEFINE file == FileAt(at).file
<1>1. /\ at[1] \in DOMAIN pkgs /\ at[2] \in DOMAIN pkgs[at[1]].files
      /\ FileAt(at) = pkgs[at[1]].files[at[2]] /\ ~FileAt(at).test
      /\ IsPreorder(FileAt(at).nodes)
  BY WalkFacts
<1>2. file \in Shown(raw) /\ FileAt(at) = FileOf(raw, file)
  BY <1>1, BuiltFiles
<1> HIDE DEF file
<1>3. /\ FileAt(at).nodes = TreeOf(raw, file).nodes
      /\ FileAt(at).compiled = CompiledFile(CleanAbsPaths(raw.compiled), file)
      /\ file \notin TestFiles /\ pkgs[at[1]].id = raw.id
  <2>1. FileOf(raw, file).test = (file \in TestFiles)
    BY DEF FileOf
  <2>2. file \notin TestFiles
    BY <1>1, <1>2, <2>1
  <2> QED BY <1>2, <2>2, BuiltFields DEF FileOf
<1>4. DOMAIN FileAt(at).nodes = 1 .. Len(FileAt(at).nodes)
  BY <1>1 DEF IsPreorder
<1> DEFINE nodes == FileAt(at).nodes
<1>5. \A n : PointAt(at, n) =
                 [id |-> raw.id, file |-> file, compiled |-> CompiledFile(CleanAbsPaths(raw.compiled), file),
                  node |-> n, path |-> PathTo(nodes, n), func |-> FuncAround(nodes, n)]
  BY <1>3 DEF PointAt, file
<1>6. PointsOf(raw, file) =
          {[id |-> raw.id, file |-> file, compiled |-> CompiledFile(CleanAbsPaths(raw.compiled), file),
            node |-> n, path |-> PathTo(nodes, n), func |-> FuncAround(nodes, n)] :
              n \in {m \in DOMAIN nodes : nodes[m].type \in targetTypes}}
  BY <1>3 DEF PointsOf, TreeOf
<1>7. DueIn(at) = {PointAt(at, n) : n \in {m \in DOMAIN nodes : nodes[m].type \in targetTypes}}
  BY <1>4 DEF DueIn, Due
<1>8. DueIn(at) = PointsOf(raw, file)
  BY <1>5, <1>6, <1>7
<1> QED BY <1>2, <1>3, <1>8 DEF file

\* The files that are walked are those to be mutated.
LEMMA WalkIsMutated ==
  ASSUME LoadInv, stage = "prepared"
  PROVE  UNION {DueIn(at) : at \in Walk} =
             UNION {UNION {PointsOf(raw, f) : f \in MutatedFiles(raw)} : raw \in Range(loaded)}
<1>1. ASSUME NEW at \in Walk
      PROVE  \E raw \in Range(loaded) : \E f \in MutatedFiles(raw) : DueIn(at) = PointsOf(raw, f)
  <2>1. at[1] \in DOMAIN pkgs
    BY WalkFacts
  <2>2. PICK m \in DOMAIN loaded : IsKept(loaded[m]) /\ IsRaw(loaded[m]) /\ pkgs[at[1]] = BuildPackage(loaded[m])
    BY <2>1, PackagesKept
  <2>3. /\ FileAt(at).file \in Shown(loaded[m]) \ TestFiles
        /\ DueIn(at) = PointsOf(loaded[m], FileAt(at).file)
    BY <2>2, DueIsPointsOf
  <2>4. FileAt(at).file \in MutatedFiles(loaded[m])
    BY <2>2, <2>3 DEF MutatedFiles, Shown, IsKept
  <2>5. loaded[m] \in Range(loaded)
    BY DEF Range
  <2> QED BY <2>3, <2>4, <2>5
<1>2. ASSUME NEW raw \in Range(loaded), NEW f \in MutatedFiles(raw)
      PROVE  \E at \in Walk : DueIn(at) = PointsOf(raw, f)
  <2>1. PICK m \in DOMAIN loaded : raw = loaded[m]
    BY DEF Range
  <2>2. IsRaw(raw)
    BY <2>1, LoadsAssumption DEF LoadInv
  <2>3. raw.main /\ f \in Shown(raw) /\ f \notin TestFiles /\ f \in Range(raw.goFiles)
    BY DEF MutatedFiles, Shown
  <2>4. raw.goFiles # <<>>
    BY <2>3 DEF Range
  <2>5. PICK k \in DOMAIN pkgs : pkgs[k] = BuildPackage(raw)
    BY <2>1, <2>3, <2>4, PackagesKept DEF IsKept
  <2>6. PICK g \in DOMAIN pkgs[k].files : pkgs[k].files[g].file = f /\ pkgs[k].files[g] = FileOf(raw, f)
    BY <2>2, <2>3, <2>5, BuiltFiles
  <2>7. FileAt(<<k, g>>) = pkgs[k].files[g]
    BY DEF FileAt
  <2>8. FileOf(raw, f).test = (f \in TestFiles)
    BY DEF FileOf
  <2>9. ~FileAt(<<k, g>>).test
    BY <2>3, <2>6, <2>7, <2>8
  <2>10. <<k, g>> \in Walk
    BY <2>9 DEF Walk
  <2>11. DueIn(<<k, g>>) = PointsOf(raw, f)
    <3> DEFINE at == <<k, g>>
    <3>1. at \in Walk /\ pkgs[at[1]] = BuildPackage(raw) /\ FileAt(at).file = f
      BY <2>5, <2>6, <2>7, <2>10
    <3> HIDE DEF at
    <3>2. DueIn(at) = PointsOf(raw, f)
      BY <2>2, <3>1, DueIsPointsOf
    <3> QED BY <3>2 DEF at
  <2> QED BY <2>10, <2>11
<1> QED BY <1>1, <1>2

LEMMA AllCollected == LoadInv /\ CollectInv => CollectsExactly
<1> SUFFICES ASSUME LoadInv, CollectInv, stage = "prepared"
             PROVE  /\ Range(points) = UNION {UNION {PointsOf(raw, f) : f \in MutatedFiles(raw)} :
                                              raw \in Range(loaded)}
                    /\ \A j, k \in DOMAIN points : j < k => Precedes(points[j], points[k])
  BY DEF CollectsExactly, Precedes
<1>1. /\ files = <<>> /\ ~walking
      /\ \A j, k \in DOMAIN points : j < k => Precedes(points[j], points[k])
  BY DEF CollectInv
<1>2. PICK i \in 0 .. Len(FilesToWalk) : Walked(i)
  BY DEF CollectInv, Walking
<1> DEFINE L == Len(FilesToWalk)
<1>3. i = L
  <2>1. L \in Nat /\ 0 = L - i
    BY <1>1, <1>2, WalkList DEF Walked
  <2> HIDE DEF L
  <2> QED BY <2>1
<1>4. Range(points) = UNION {DueIn(FilesToWalk[k]) : k \in 1 .. L}
  BY <1>1, <1>2, <1>3 DEF Walked
<1>5. Walk = {FilesToWalk[k] : k \in 1 .. L}
  BY WalkList
<1>6. Range(points) = UNION {DueIn(at) : at \in Walk}
  BY <1>4, <1>5
<1> QED BY <1>1, <1>6, WalkIsMutated

-----------------------------------------------------------------------------
(***************************************************************************)
(* All of Prepare.                                                         *)
(***************************************************************************)

Stages == {"load", "failed", "discover", "decide", "collect", "walk", "prepared"}

IInv == stage \in Stages /\ LoadInv /\ DiscoverInv /\ CollectInv

LEMMA InitIInv == Init => IInv
<1> SUFFICES ASSUME Init PROVE IInv
  OBVIOUS
<1>1. LoadInv /\ DiscoverInv /\ stage = "load"
  BY DiscoverStarts DEF Init, LoadInit
<1>2. CollectInv
  <2>1. \A T : <<>> \in Seq(T)
    OBVIOUS
  <2>2. files = <<>> /\ points = <<>> /\ ~walking /\ targetTypes \subseteq Types
    BY DEF Init, CollectInit
  <2> QED BY <1>1, <2>1, <2>2 DEF CollectInv, Walking
<1> QED BY <1>1, <1>2 DEF IInv, Stages

LEMMA LoadKeeps ==
  IInv /\ (LoadFails \/ LoadOK) /\ UNCHANGED <<discoverVars, collectVars>> => IInv'
<1> SUFFICES ASSUME IInv, LoadFails \/ LoadOK, UNCHANGED discoverVars, UNCHANGED collectVars
             PROVE  IInv'
  OBVIOUS
<1>1. stage = "load" /\ stage' \in {"failed", "discover"}
  BY DEF LoadFails, LoadOK
<1>2. NextDiscoverInv
  BY LoadSteps DEF IInv
<1>3. NextCollectInv
  BY <1>1, NothingWalked DEF IInv, Walking
<1> QED BY <1>1, <1>2, <1>3 DEF IInv, Stages, NextDiscoverInv, NextCollectInv

LEMMA DiscoverKeeps == IInv /\ DiscoverNext /\ UNCHANGED collectVars => IInv'
<1> SUFFICES ASSUME IInv, DiscoverNext, UNCHANGED collectVars PROVE IInv'
  OBVIOUS
<1>1. stage \in {"discover", "decide"} /\ stage' \in {"decide", "collect"}
  <2>1. searching => stage = "decide"
    BY DEF IInv, DiscoverInv, SplitInv
  <2> QED
    BY <2>1 DEF DiscoverNext, FindTests, IncludeByDirective, ExcludeByDirective, BeginSearch, Visit,
                ReachesRun, DoesNotReachRun, DiscoverDone, Deciding, loadVars
<1>2. NextDiscoverInv
  BY DiscoverSteps DEF IInv
<1>3. NextCollectInv
  BY <1>1, NothingWalked DEF IInv, Walking
<1> QED BY <1>1, <1>2, <1>3 DEF IInv, Stages, NextDiscoverInv, NextCollectInv

LEMMA CollectKeeps == IInv /\ CollectNext /\ UNCHANGED discoverVars => IInv'
<1> SUFFICES ASSUME IInv, CollectNext, UNCHANGED discoverVars PROVE IInv'
  OBVIOUS
<1>1. /\ UNCHANGED <<loaded, pkgs, discoverVars>> /\ stage' \in Stages
      /\ \/ stage' = stage
         \/ stage \in {"collect", "walk"} /\ stage' \in {"walk", "prepared"}
  BY DEF CollectNext, BeginCollect, OpenFile, Enter, Leave, CloseFile, CollectDone, loadVars,
         IInv, Stages
<1>2. NextDiscoverInv
  BY <1>1, OtherSteps DEF IInv
<1>3. NextCollectInv
  BY BeginKeeps, SameFileKeeps, EnterKeeps, CloseKeeps, DoneKeeps DEF IInv, CollectNext
<1> QED BY <1>1, <1>2, <1>3 DEF IInv, NextDiscoverInv, NextCollectInv

LEMMA StutterKeeps == IInv /\ UNCHANGED vars => IInv'
<1> SUFFICES ASSUME IInv, UNCHANGED <<loaded, stage, pkgs, discoverVars, collectVars>> PROVE IInv'
  BY DEF vars, loadVars
<1>1. NextDiscoverInv
  BY OtherSteps DEF IInv
<1>2. NextCollectInv
  BY NothingHappens DEF IInv
<1> QED BY <1>1, <1>2 DEF IInv, NextDiscoverInv, NextCollectInv

LEMMA NextIInv == IInv /\ [Next]_vars => IInv'
BY LoadKeeps, DiscoverKeeps, CollectKeeps, StutterKeeps DEF Next, Step, Finished

LEMMA IInvCorrect == Spec => []IInv
BY InitIInv, NextIInv, PTL DEF Spec

\* Every variable always holds a value of its kind.  In particular the packages
\* that Load makes of what go/packages returns are what Selection assumes of
\* packages: their IDs differ, their files are numbered from one and what a file
\* imports its package imports (TypeOK).
THEOREM TypeCorrect == Spec => []TypeOK
<1>1. IInv => TypeOK
  <2> SUFFICES ASSUME IInv PROVE TypeOK
    OBVIOUS
  <2>1. ArePackages(pkgs)
    BY PackagesBuilt DEF IInv
  <2>2. DiscoverTypeOK
    BY DiscoverTypes DEF IInv
  <2>3. CollectTypeOK
    <3>1. targetTypes \subseteq Types /\ (walking => files # <<>>)
      BY DEF IInv, CollectInv
    <3>2. ASSUME walking
          PROVE  /\ node \in 0 .. Len(Nodes)
                 /\ \A k \in DOMAIN pathStack : Nodes[pathStack[k]].depth = k
                 /\ Range(funcStack) \subseteq Range(pathStack)
      <4>1. IsStack(Nodes, node, pathStack) /\ IsFuncStack(Nodes, pathStack, funcStack)
        BY <3>2 DEF IInv, CollectInv
      <4>2. pathStack \in Seq(1 .. node) /\ node \in 0 .. Len(Nodes)
        BY <4>1 DEF IsStack
      <4>3. DOMAIN pathStack = 1 .. Len(pathStack)
        BY <4>2
      <4> QED BY <4>1, <4>2, <4>3 DEF IsStack, IsFuncStack
    <3> QED BY <3>1, <3>2 DEF CollectTypeOK
  <2> QED BY <2>1, <2>2, <2>3 DEF IInv, Stages, TypeOK
<1> QED BY <1>1, IInvCorrect, PTL

\* Every test of every variant is included or excluded, once, and both lists are
\* in the order in which the tests were found (DiscoverDetailed).
THEOREM EachTestCorrect == Spec => []EachTestDecided
<1>1. IInv => EachTestDecided
  BY EachDecided DEF IInv
<1> QED BY <1>1, IInvCorrect, PTL

\* No test that is included reaches Engine.Run through calls of functions, other
\* than by a directive (ResolveFunctionCall, buildCalls, reachesEngineRun).
THEOREM NoNestedRunCorrect == Spec => []NoNestedRun
<1>1. IInv => NoNestedRun
  BY NoneNested DEF IInv
<1> QED BY <1>1, IInvCorrect, PTL

\* A test is excluded only by a directive or because calls that have the names of
\* what they lead to lead from it to one of Engine.Run (DiscoverDetailed,
\* reachesEngineRun).
THEOREM ForCauseCorrect == Spec => []ExcludedForCause
<1>1. IInv => ExcludedForCause
  BY AllForCause DEF IInv
<1> QED BY <1>1, IInvCorrect, PTL

\* The points are those of the nodes of the target types in the files to be
\* mutated, each with the path to it and the function around it, and those of a
\* package are in the order of its files and nodes (Collect, cleanAbsPaths,
\* buildPackage).
THEOREM CollectsCorrect == Spec => []CollectsExactly
<1>1. IInv => CollectsExactly
  BY AllCollected DEF IInv
<1> QED BY <1>1, IInvCorrect, PTL
=============================================================================

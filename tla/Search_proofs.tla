---------------------------- MODULE Search_proofs ----------------------------
(***************************************************************************)
(* What search_graph_ppr reaches: the distances it computes are those from *)
(* its seeds, for any edges, weights, limits and threads.                  *)
(***************************************************************************)
EXTENDS Graph_proofs, WellFoundedInduction

\* Induction, over the numbers in a set.
LEMMA Climb ==
  ASSUME NEW S, 0 \in S, \A n \in Nat : n \in S => n + 1 \in S
  PROVE  Nat \subseteq S
<1> DEFINE T == Nat \ S
<1> SUFFICES ASSUME T # {} PROVE FALSE
  OBVIOUS
<1>1. PICK x \in T : \A y \in T : <<y, x>> \notin OpToRel(<, Nat)
  <2> HIDE DEF T
  <2>1. T \subseteq Nat
    BY DEF T
  <2> QED BY <2>1, NatLessThanWellFounded, WFMin
<1>2. x # 0 /\ x - 1 \in Nat /\ (x - 1) + 1 = x
  OBVIOUS
<1>3. x - 1 \notin S
  BY <1>2
<1>4. <<x - 1, x>> \in OpToRel(<, Nat)
  BY <1>2 DEF OpToRel
<1> QED BY <1>1, <1>2, <1>3, <1>4

\* A set of numbers that is not empty has a least one.
LEMMA Least ==
  ASSUME NEW S \in SUBSET Nat, S # {}
  PROVE  \E x \in S : \A y \in S : x <= y
<1>1. PICK x \in S : \A y \in S : <<y, x>> \notin OpToRel(<, Nat)
  BY NatLessThanWellFounded, WFMin
<1>2. ASSUME NEW y \in S PROVE x <= y
  <2>1. ~(y < x)
    BY <1>1 DEF OpToRel
  <2> QED BY <2>1
<1> QED BY <1>2

-----------------------------------------------------------------------------
(***************************************************************************)
(* Walks.                                                                  *)
(***************************************************************************)
\* W is the walks of 0 to n edges.
IsWalks(W, E, p, n) ==
  W = [d \in 0..n |-> IF d = 0 THEN {<<p, 0>>} ELSE Further(E, W[d - 1])]

\* The recursive query has an answer, one level after the other.
LEMMA SomeWalks ==
  ASSUME NEW E, NEW p, NEW n \in Nat
  PROVE  \E W : IsWalks(W, E, p, n)
<1> DEFINE S == {m \in Nat : \E W : IsWalks(W, E, p, m)}
<1>1. 0 \in S
  <2> DEFINE W == [d \in 0..0 |-> {<<p, 0>>}]
  <2>1. IsWalks(W, E, p, 0)
    BY DEF IsWalks
  <2> QED BY <2>1
<1>2. ASSUME NEW m \in Nat, m \in S PROVE m + 1 \in S
  <2>1. PICK W : IsWalks(W, E, p, m)
    BY <1>2
  <2> DEFINE V == [d \in 0..(m + 1) |->
                     IF d = m + 1 THEN Further(E, W[m]) ELSE W[d]]
  <2>2. ASSUME NEW d \in 0..(m + 1)
        PROVE  V[d] = IF d = 0 THEN {<<p, 0>>} ELSE Further(E, V[d - 1])
    <3>1. CASE d = 0
      <4>1. V[0] = W[0] /\ W[0] = {<<p, 0>>}
        BY <2>1 DEF IsWalks
      <4> QED BY <3>1, <4>1
    <3>2. CASE d = m + 1
      <4>1. d - 1 = m /\ V[d - 1] = W[m] /\ V[d] = Further(E, W[m])
        BY <3>2
      <4> HIDE DEF V
      <4> QED BY <3>2, <4>1
    <3>3. CASE d # 0 /\ d # m + 1
      <4>1. d \in 0..m /\ d - 1 \in 0..m
        BY <3>3
      <4>2. V[d] = W[d] /\ V[d - 1] = W[d - 1]
        BY <4>1
      <4>3. W[d] = Further(E, W[d - 1])
        BY <2>1, <3>3, <4>1 DEF IsWalks
      <4> HIDE DEF V
      <4> QED BY <3>3, <4>2, <4>3
    <3> QED BY <3>1, <3>2, <3>3
  <2>3. V = [d \in 0..(m + 1) |-> V[d]]
    OBVIOUS
  <2> HIDE DEF V
  <2>4. IsWalks(V, E, p, m + 1)
    BY <2>2, <2>3 DEF IsWalks
  <2> QED BY <2>4
<1> HIDE DEF S
<1>3. n \in S
  BY <1>1, <1>2, Climb
<1> QED BY <1>3 DEF S

LEMMA WalksLevel ==
  ASSUME NEW E, NEW p
  PROVE  /\ Walks(E, p)[0] = {<<p, 0>>}
         /\ \A d \in 1..Hops : Walks(E, p)[d] = Further(E, Walks(E, p)[d - 1])
<1>1. Hops \in Nat
  BY HopsAssumption
<1>2. Walks(E, p) = CHOOSE W : IsWalks(W, E, p, Hops)
  BY DEF Walks, IsWalks
<1>3. IsWalks(Walks(E, p), E, p, Hops)
  BY <1>1, <1>2, SomeWalks
<1> PICK W : W = Walks(E, p)
  OBVIOUS
<1>4. W = [d \in 0..Hops |->
             IF d = 0 THEN {<<p, 0>>} ELSE Further(E, W[d - 1])]
  BY <1>3 DEF IsWalks
<1>5. W[0] = {<<p, 0>>}
  BY <1>1, <1>4
<1>6. ASSUME NEW d \in 1..Hops PROVE W[d] = Further(E, W[d - 1])
  <2>1. d \in 0..Hops /\ d # 0
    BY <1>1
  <2> QED BY <1>4, <2>1
<1> QED BY <1>5, <1>6

\* A step of a walk.
LEMMA WalkGoesOn ==
  ASSUME NEW E, NEW p, NEW d \in 1..Hops, NEW w
  PROVE  w \in Walks(E, p)[d] <=>
           \E e \in E : \E v \in Walks(E, p)[d - 1] :
             /\ v[1] \in {e.src, e.tgt}
             /\ w = <<OtherEnd(e, v[1]), v[2] + 100 - e.weight>>
             /\ w[2] <= MaxCost
  BY WalksLevel DEF Further

\* The edges are such that no walk costs too much.
Cheap(E) == \A e \in E : Hops * (100 - e.weight) <= MaxCost

LEMMA Affordable ==
  ASSUME NEW H \in Nat, NEW M \in Nat, NEW d \in Nat, NEW c \in Int,
         NEW g \in Int, d < H, H * c <= d * M, H * g <= M
  PROVE  H * (c + g) <= (d + 1) * M /\ c + g <= M
<1>1. H * (c + g) = H * c + H * g
  OBVIOUS
<1>2. (d + 1) * M = d * M + M
  OBVIOUS
<1>3. H * c \in Int /\ H * g \in Int /\ d * M \in Int
  OBVIOUS
<1>4. H * (c + g) <= (d + 1) * M
  BY <1>1, <1>2, <1>3
<1>5. (d + 1) * M <= H * M
  <2>1. PICK k \in Nat : H = d + 1 + k
    <3>1. H - (d + 1) \in Nat /\ H = d + 1 + (H - (d + 1))
      OBVIOUS
    <3> QED BY <3>1
  <2>2. H * M = (d + 1) * M + k * M
    BY <2>1
  <2>3. k * M \in Nat /\ (d + 1) * M \in Nat
    OBVIOUS
  <2> QED BY <2>2, <2>3
<1>6. ASSUME c + g > M PROVE FALSE
  <2>1. PICK k \in Nat : c + g = M + 1 + k
    <3>1. c + g - (M + 1) \in Nat /\ c + g = M + 1 + (c + g - (M + 1))
      BY <1>6
    <3> QED BY <3>1
  <2>2. H * (c + g) = H * M + H + H * k
    BY <2>1
  <2>3. H * k \in Nat /\ H * M \in Nat /\ H > 0
    OBVIOUS
  <2>4. H * (c + g) <= H * M
    BY <1>3, <1>4, <1>5, <2>3
  <2> QED BY <2>2, <2>3, <2>4
<1> QED BY <1>4, <1>6

\* Walks lead from id to id, and cheap ones lack their share of MaxCost.
LEMMA WalkCosts ==
  ASSUME NEW E \in SUBSET Edge, NEW p \in Ids, NEW d \in 0..Hops,
         NEW w \in Walks(E, p)[d]
  PROVE  w \in Ids \X Int /\ (Cheap(E) => Hops * w[2] <= d * MaxCost)
<1> DEFINE Fine(n) == \A x \in Walks(E, p)[n] :
             x \in Ids \X Int /\ (Cheap(E) => Hops * x[2] <= n * MaxCost)
           S == {n \in Nat : n \in 0..Hops => Fine(n)}
<1>0. Hops \in Nat /\ MaxCost \in Nat
  BY HopsAssumption, WeightAssumption
<1>1. 0 \in S
  <2>1. Walks(E, p)[0] = {<<p, 0>>}
    BY WalksLevel
  <2>2. Hops * 0 <= 0 * MaxCost
    BY <1>0
  <2> QED BY <2>1, <2>2
<1>2. ASSUME NEW n \in Nat, n \in S PROVE n + 1 \in S
  <2> SUFFICES ASSUME n + 1 \in 0..Hops, NEW x \in Walks(E, p)[n + 1]
               PROVE  /\ x \in Ids \X Int
                      /\ Cheap(E) => Hops * x[2] <= (n + 1) * MaxCost
    OBVIOUS
  <2>1. n + 1 \in 1..Hops /\ (n + 1) - 1 = n /\ n \in 0..Hops /\ n < Hops
    BY <1>0
  <2>2. PICK e \in E, v \in Walks(E, p)[n] :
          /\ v[1] \in {e.src, e.tgt}
          /\ x = <<OtherEnd(e, v[1]), v[2] + 100 - e.weight>>
    BY <2>1, WalkGoesOn
  <2>3. /\ v \in Ids \X Int
        /\ Cheap(E) => Hops * v[2] <= n * MaxCost
    BY <1>2, <2>1
  <2> PICK c \in Int : c = v[2]
    BY <2>3
  <2> PICK g \in Int : g = 100 - e.weight
    BY DEF Edge
  <2>4. OtherEnd(e, v[1]) \in Ids
    BY DEF OtherEnd, Edge
  <2>5. x[2] = c + g /\ x[2] \in Int /\ x \in Ids \X Int
    BY <2>2, <2>4 DEF Edge
  <2>6. ASSUME Cheap(E) PROVE Hops * x[2] <= (n + 1) * MaxCost
    <3>1. Hops * g <= MaxCost /\ Hops * c <= n * MaxCost
      BY <2>3, <2>6 DEF Cheap
    <3>2. Hops * (c + g) <= (n + 1) * MaxCost
      BY <1>0, <2>1, <3>1, Affordable
    <3> QED BY <2>5, <3>2
  <2> QED BY <2>5, <2>6
<1> HIDE DEF S
<1>3. d \in S /\ d \in Nat
  BY <1>0, <1>1, <1>2, Climb
<1> QED BY <1>3 DEF S

-----------------------------------------------------------------------------
(***************************************************************************)
(* Distances from one seed.                                                *)
(***************************************************************************)
\* A walk of d edges gets to n.
Gets(E, p, d, n) == \E w \in Walks(E, p)[d] : w[1] = n

\* MIN(depth) is the least number of edges of a walk that gets there, and more
\* than Hops if none does.
LEMMA LeastDepth ==
  ASSUME NEW E, NEW p, NEW n \in Ids
  PROVE  /\ Traversed(E, p)[n] \in 0..(Hops + 1)
         /\ \A d \in 0..Hops : Gets(E, p, d, n) => Traversed(E, p)[n] <= d
         /\ Traversed(E, p)[n] <= Hops => Gets(E, p, Traversed(E, p)[n], n)
<1> DEFINE D == {d \in 0..Hops :
                   \A c \in 0..d : \A w \in Walks(E, p)[c] : w[1] # n}
           G == {d \in 0..Hops : Gets(E, p, d, n)}
<1>0. Hops \in Nat
  BY HopsAssumption
<1>1. Traversed(E, p)[n] = Cardinality(D)
  BY DEF Traversed
<1>2. D = {d \in 0..Hops : \A c \in 0..d : ~Gets(E, p, c, n)}
  BY DEF Gets
<1> HIDE DEF D
<1>3. CASE G = {}
  <2>1. D = 0..Hops
    <3>1. ASSUME NEW d \in 0..Hops, NEW c \in 0..d PROVE ~Gets(E, p, c, n)
      <4>1. c \in 0..Hops
        BY <1>0
      <4> QED BY <1>3, <4>1
    <3> QED BY <1>2, <3>1
  <2>2. Cardinality(D) = Hops + 1
    BY <1>0, <2>1, FS_Interval
  <2> QED BY <1>0, <1>1, <1>3, <2>2
<1>4. CASE G # {}
  <2>1. PICK k \in G : \A j \in G : k <= j
    <3>1. G \in SUBSET Nat
      BY <1>0
    <3> HIDE DEF G
    <3> QED BY <1>4, <3>1, Least
  <2>2. k \in 0..Hops /\ k \in Nat /\ Gets(E, p, k, n)
    BY <1>0, <2>1
  <2>3. \A j \in 0..Hops : Gets(E, p, j, n) => k <= j
    BY <2>1
  <2> HIDE DEF G
  <2>4. D = 0..(k - 1)
    <3>1. ASSUME NEW d \in D PROVE d \in 0..(k - 1)
      <4>1. d \in 0..Hops /\ \A c \in 0..d : ~Gets(E, p, c, n)
        BY <1>2
      <4>2. k \notin 0..d
        BY <2>2, <4>1
      <4> QED BY <1>0, <2>2, <4>1, <4>2
    <3>2. ASSUME NEW d \in 0..(k - 1) PROVE d \in D
      <4>1. d \in 0..Hops
        BY <1>0, <2>2
      <4>2. ASSUME NEW c \in 0..d PROVE ~Gets(E, p, c, n)
        <5>1. c \in 0..Hops /\ ~(k <= c)
          BY <1>0, <2>2
        <5> QED BY <2>3, <5>1
      <4> QED BY <1>2, <4>1, <4>2
    <3> QED BY <3>1, <3>2
  <2>5. Cardinality(D) = k
    <3>1. CASE k = 0
      BY <2>2, <2>4, <3>1, FS_Interval
    <3>2. CASE k # 0
      BY <2>2, <2>4, <3>2, FS_Interval
    <3> QED BY <3>1, <3>2
  <2> QED BY <1>0, <1>1, <2>2, <2>3, <2>5
<1> QED BY <1>3, <1>4

\* The seed is at distance 0, and nothing else is.
LEMMA SeedDepth ==
  ASSUME NEW E, NEW p \in Ids, NEW n \in Ids
  PROVE  Traversed(E, p)[n] = 0 <=> n = p
<1>0. Hops \in Nat /\ 0 \in 0..Hops
  BY HopsAssumption
<1>1. Gets(E, p, 0, n) <=> n = p
  <2>1. Walks(E, p)[0] = {<<p, 0>>}
    BY WalksLevel
  <2> QED BY <2>1 DEF Gets
<1> PICK k : k = Traversed(E, p)[n]
  OBVIOUS
<1>2. /\ k \in 0..(Hops + 1)
      /\ \A d \in 0..Hops : Gets(E, p, d, n) => k <= d
      /\ k <= Hops => Gets(E, p, k, n)
  BY LeastDepth
<1>3. ASSUME k = 0 PROVE n = p
  BY <1>0, <1>1, <1>2, <1>3
<1>4. ASSUME n = p PROVE k = 0
  BY <1>0, <1>1, <1>2, <1>4
<1> QED BY <1>3, <1>4

\* The end of an edge is one step from the other, from either.
LEMMA OtherEnds ==
  ASSUME NEW E \in SUBSET Edge, NEW e \in E, NEW n \in {e.src, e.tgt}
  PROVE  /\ n \in Ids /\ OtherEnd(e, n) \in Ids
         /\ OtherEnd(e, n) \in {e.src, e.tgt}
         /\ OtherEnd(e, OtherEnd(e, n)) = n
  BY DEF OtherEnd, Edge

\* An edge spans one level at most, if walks are cheap.
LEMMA EdgeSpans ==
  ASSUME NEW E \in SUBSET Edge, NEW p \in Ids, Cheap(E), NEW e \in E,
         NEW n \in {e.src, e.tgt}
  PROVE  Traversed(E, p)[n] <= Traversed(E, p)[OtherEnd(e, n)] + 1
<1> PICK m : m = OtherEnd(e, n)
  OBVIOUS
<1> PICK k : k = Traversed(E, p)[m]
  OBVIOUS
<1>0. /\ Hops \in Nat /\ MaxCost \in Nat /\ n \in Ids /\ m \in Ids
      /\ m \in {e.src, e.tgt} /\ OtherEnd(e, m) = n
  BY HopsAssumption, WeightAssumption, OtherEnds
<1>1. k \in 0..(Hops + 1) /\ (k <= Hops => Gets(E, p, k, m))
  BY <1>0, LeastDepth
<1>2. /\ Traversed(E, p)[n] \in 0..(Hops + 1)
      /\ \A d \in 0..Hops : Gets(E, p, d, n) => Traversed(E, p)[n] <= d
  BY <1>0, LeastDepth
<1>3. CASE k < Hops
  <2>1. PICK v \in Walks(E, p)[k] : v[1] = m
    BY <1>0, <1>1, <1>3 DEF Gets
  <2>2. k \in 0..Hops /\ k + 1 \in 1..Hops /\ (k + 1) - 1 = k /\ k \in Nat
    BY <1>0, <1>1, <1>3
  <2>3. v[2] \in Int /\ Hops * v[2] <= k * MaxCost
    BY <2>2, WalkCosts
  <2>4. 100 - e.weight \in Int /\ Hops * (100 - e.weight) <= MaxCost
    BY DEF Cheap, Edge
  <2>5. v[2] + (100 - e.weight) <= MaxCost
    BY <1>0, <1>3, <2>2, <2>3, <2>4, Affordable
  <2>6. v[2] + (100 - e.weight) = v[2] + 100 - e.weight
    BY <2>3 DEF Edge
  <2> DEFINE w == <<OtherEnd(e, v[1]), v[2] + 100 - e.weight>>
  <2>7. w[1] = n /\ w[2] <= MaxCost
    BY <1>0, <2>1, <2>5, <2>6
  <2>8. w \in Walks(E, p)[k + 1]
    <3>1. /\ v[1] \in {e.src, e.tgt}
          /\ w = <<OtherEnd(e, v[1]), v[2] + 100 - e.weight>>
          /\ v \in Walks(E, p)[(k + 1) - 1]
      BY <1>0, <2>1, <2>2
    <3> HIDE DEF w
    <3> QED BY <2>2, <2>7, <3>1, WalkGoesOn
  <2> HIDE DEF w
  <2>9. Gets(E, p, k + 1, n)
    BY <2>7, <2>8 DEF Gets
  <2> QED BY <1>0, <1>2, <2>2, <2>9
<1>4. CASE ~(k < Hops)
  BY <1>0, <1>1, <1>2, <1>4
<1> QED BY <1>3, <1>4

\* Whatever else is reached has a neighbour that is nearer.
LEMMA Neighbour ==
  ASSUME NEW E \in SUBSET Edge, NEW p \in Ids, NEW n \in Ids,
         Traversed(E, p)[n] \in 1..Hops
  PROVE  \E e \in E : /\ n \in {e.src, e.tgt}
                      /\ Traversed(E, p)[OtherEnd(e, n)] < Traversed(E, p)[n]
<1> PICK k : k = Traversed(E, p)[n]
  OBVIOUS
<1>0. Hops \in Nat /\ k \in 1..Hops /\ k - 1 \in 0..Hops /\ k \in 0..Hops
  BY HopsAssumption
<1>1. PICK w \in Walks(E, p)[k] : w[1] = n
  BY <1>0, LeastDepth DEF Gets
<1>2. PICK e \in E, v \in Walks(E, p)[k - 1] :
        /\ v[1] \in {e.src, e.tgt}
        /\ w = <<OtherEnd(e, v[1]), v[2] + 100 - e.weight>>
  BY <1>0, <1>1, WalkGoesOn
<1>3. n = OtherEnd(e, v[1])
  BY <1>1, <1>2
<1>4. n \in {e.src, e.tgt} /\ OtherEnd(e, n) = v[1] /\ v[1] \in Ids
  BY <1>2, <1>3, OtherEnds
<1>5. Gets(E, p, k - 1, v[1])
  BY DEF Gets
<1>6. Traversed(E, p)[v[1]] \in 0..(Hops + 1) /\ Traversed(E, p)[v[1]] <= k - 1
  BY <1>0, <1>4, <1>5, LeastDepth
<1> QED BY <1>0, <1>4, <1>6

-----------------------------------------------------------------------------
(***************************************************************************)
(* A search.                                                               *)
(***************************************************************************)
\* Which steps of a thread lead into the search.
LEMMA SearchLands ==
  ASSUME TInv, NEW t \in Threads, Call(t) \/ Continue(t)
  PROVE  /\ pc'[t] = "seeds" => EdgesSynced(t)
         /\ pc'[t] = "traverse" => Seeds(t) \/ Traverse(t)
<1> DEFINE Other == pc'[t] \notin {"seeds", "traverse"}
<1> USE DEF Return
<1>0. /\ \A step : (\E l : Goto(t, step, l)) => pc'[t] = step
      /\ {"seeds", "traverse"} \cap (WriteSteps \cup BuildSteps) = {}
  BY GotoMoves DEF WriteSteps, BuildSteps
<1>1. Marks(t) => Other
  BY <1>0 DEF Marks, StartWrite
<1>2. ASSUME Builds(t) PROVE Other
  <2>1. ASSUME NEW l, Build(t, l) PROVE Other
    BY <1>0, <2>1 DEF Build
  <2>2. ASSUME BuildNodes(t) \/ BuildEdges(t) \/ StoreGraph(t)
                 \/ StoreClean(t)
        PROVE  Other
    BY <1>0, <2>2 DEF BuildNodes, BuildEdges, StoreGraph, StoreClean, BuildStep
  <2>3. ASSUME StoreDirected(t) PROVE Other
    BY <1>0, <2>3 DEF StoreDirected
  <2> QED BY <1>2, <2>1, <2>2, <2>3 DEF Builds
<1>3. Commits(t) => Other
  BY <1>0, CommitKind
<1>4. ASSUME Call(t) PROVE Other
  <2>1. ASSUME NodeOp(t) \/ EdgeOp(t) \/ StartDecay(t) PROVE Other
    <3>1. \E step \in WriteSteps : \E l : StartWrite(t, step, l)
      BY <2>1 DEF NodeOp, EdgeOp, StartAddNodes, StartDeleteNode,
                  StartUpdateNode, StartAddEdge, StartDeleteEdge,
                  StartUpdateEdge, StartDecay, WriteSteps
    <3> QED BY <1>1, <3>1 DEF Marks
  <2>2. ASSUME NEW op, StartSync(t, op) PROVE Other
    BY <1>0, <2>2 DEF StartSync
  <2>3. ASSUME pc[t] = "idle", pc' = pc PROVE Other
    BY <2>3
  <2>4. ASSUME NEW p, NEW v, PutRow(t, p, v) PROVE Other
    BY <2>3, <2>4 DEF PutRow, Begin
  <2>5. ASSUME NEW rule, Register(t, rule) PROVE Other
    BY <2>3, <2>5 DEF Register, Begin
  <2>6. ASSUME Restore(t) PROVE Other
    BY <2>3, <2>6 DEF Restore, Begin
  <2>7. ASSUME NEW directed, StartBuild(t, directed) PROVE Other
    BY <1>0, <2>7 DEF StartBuild, Build
  <2> HIDE DEF Other
  <2> QED BY <1>4, <2>1, <2>2, <2>4, <2>5, <2>6, <2>7 DEF Call
<1>5. ASSUME UpdateNode(t) \/ SyncRow(t) \/ Ghosts(t) \/ Ghost(t)
               \/ NodesSynced(t) \/ Join(t) \/ Pair(t)
      PROVE  Other
  <2>1. \/ \E step \in {"idle", "merge_node", "sync_row", "ghost", "join",
                        "pair"} : \E l : Goto(t, step, l)
        \/ \E step \in WriteSteps : \E l : StartWrite(t, step, l)
    BY <1>5 DEF UpdateNode, SyncRow, Ghosts, Ghost, NodesSynced, Join, Pair,
                WriteSteps
  <2> QED BY <1>0, <1>1, <2>1 DEF Marks
<1>6. ASSUME DecayRead(t) \/ Decay(t) \/ DecayDone(t) \/ Fetch(t) \/ Rank(t)
      PROVE  Other
  <2>1. \/ \E step \in {"idle", "decay", "prune", "found", "nx_nodes"} :
             \E l : Goto(t, step, l)
        \/ \E step \in WriteSteps : \E l : StartWrite(t, step, l)
    BY <1>6 DEF DecayRead, Decay, DecayDone, Fetch, Rank, Build, WriteSteps
  <2> QED BY <1>0, <1>1, <2>1 DEF Marks
<1>7. EdgesSynced(t) => pc'[t] # "traverse"
  BY <1>0 DEF EdgesSynced, StartWrite
<1>8. Seeds(t) \/ Traverse(t) => pc'[t] # "seeds"
  BY <1>0 DEF Seeds, Traverse
<1>9. CASE Continue(t)
  BY <1>2, <1>3, <1>5, <1>6, <1>7, <1>8, <1>9 DEF Continue, Commits, Builds
<1> QED BY <1>4, <1>9

\* What a search that is still alone has found out: its seeds are at distance
\* 0, no distance is more than that from a seed it has traversed, and each but
\* the greatest is that from one of these.
SearchSees(t) ==
  LET depth == local[t].depth
      seeds == local[t].seeds
      done  == seeds \ local[t].ids IN
  alone[t] =>
    /\ pc[t] = "seeds" => depth = Beyond
    /\ pc[t] = "traverse" =>
         /\ local[t].ids \subseteq seeds
         /\ \A n \in Ids : depth[n] \in 0..(Hops + 1)
         /\ \A n \in seeds : depth[n] = 0
         /\ \A p \in done : \A n \in Ids : depth[n] <= Traversed(edges, p)[n]
         /\ \A n \in Ids :
              \/ n \in seeds \/ depth[n] = Hops + 1
              \/ \E p \in done : depth[n] = Traversed(edges, p)[n]

LEMMA SeedsSeen ==
  ASSUME TInv, NEW t \in Threads, SearchSees(t), alone'[t],
         pc'[t] = "traverse", Seeds(t)
  PROVE  SearchSees(t)'
<1>1. PICK S \in SUBSET Ids :
        /\ local'[t] = [local[t] EXCEPT
             !.ids = S, !.seeds = S,
             !.depth = [n \in Ids |-> IF n \in S THEN 0 ELSE @[n]]]
  <2>1. PICK S \in SUBSET (IF "node" \in rules THEN PK \cap mix.ids ELSE {}) :
          IF S = {} THEN Goto(t, "idle", Blank)
          ELSE Goto(t, "traverse",
                 [local[t] EXCEPT
                    !.ids = S, !.seeds = S,
                    !.depth = [n \in Ids |-> IF n \in S THEN 0 ELSE @[n]]])
    BY DEF Seeds, Return
  <2>2. S \in SUBSET Ids
    BY DEF Ids
  <2> QED BY <2>1, <2>2, GotoMoves
<1>2. pc[t] = "seeds" /\ alone[t]
  BY DEF Seeds, Quiet
<1>3. local[t].depth = Beyond /\ local[t] \in Local
  BY <1>2, HeldType DEF SearchSees
<1>4. /\ local'[t].ids = S /\ local'[t].seeds = S
      /\ local'[t].depth = [n \in Ids |-> IF n \in S THEN 0 ELSE Hops + 1]
  BY <1>1, <1>3 DEF Local, Beyond
<1>5. Hops \in Nat
  BY HopsAssumption
<1>6. \A n \in Ids : local'[t].depth[n] = IF n \in S THEN 0 ELSE Hops + 1
  BY <1>4
<1> QED BY <1>4, <1>5, <1>6 DEF SearchSees

LEMMA TraverseSeen ==
  ASSUME TInv, NEW t \in Threads, SearchSees(t), alone'[t],
         pc'[t] = "traverse", Traverse(t)
  PROVE  SearchSees(t)'
<1> PICK p : p = First(local[t].ids)
  OBVIOUS
<1> PICK l : l = local[t]
  OBVIOUS
<1> PICK far : far = Traversed(edges, p)
  OBVIOUS
<1>1. /\ pc[t] = "traverse" /\ alone[t] /\ edges' = edges /\ l \in Local
      /\ p \in l.ids
      /\ local'[t] = [l EXCEPT !.ids = l.ids \ {p},
                               !.depth = NearerDepth(l.depth, far)]
  <2>1. /\ pc[t] = "traverse" /\ local[t].ids # {} /\ Quiet
        /\ local'[t] = [local[t] EXCEPT
             !.ids = @ \ {p},
             !.depth = NearerDepth(@, Traversed(edges, p))]
    BY GotoMoves DEF Traverse
  <2>2. l \in Local
    BY HeldType
  <2> QED BY <2>1, <2>2, FirstIn DEF Quiet, tables, Local
<1> PICK new : new = NearerDepth(l.depth, far)
  OBVIOUS
<1>2. local'[t].ids = l.ids \ {p} /\ local'[t].seeds = l.seeds
      /\ local'[t].depth = new
  BY <1>1 DEF Local
<1>3. p \in Ids /\ Hops \in Nat
  BY <1>1, HopsAssumption DEF Local
<1>4. \A n \in Ids : far[n] \in 0..(Hops + 1)
  BY LeastDepth
<1>5. /\ l.ids \subseteq l.seeds
      /\ \A n \in Ids : l.depth[n] \in 0..(Hops + 1)
      /\ \A n \in l.seeds : l.depth[n] = 0
      /\ \A q \in l.seeds \ l.ids : \A n \in Ids :
           l.depth[n] <= Traversed(edges, q)[n]
      /\ \A n \in Ids :
           \/ n \in l.seeds \/ l.depth[n] = Hops + 1
           \/ \E q \in l.seeds \ l.ids : l.depth[n] = Traversed(edges, q)[n]
  BY <1>1 DEF SearchSees
<1>6. \A n \in Ids :
        new[n] = IF far[n] < l.depth[n] THEN far[n] ELSE l.depth[n]
  BY DEF NearerDepth
<1> PICK done : done = l.seeds \ (l.ids \ {p})
  OBVIOUS
<1>7. l.seeds \subseteq Ids
  BY <1>1 DEF Local
<1>8. ASSUME NEW n \in Ids
      PROVE  /\ new[n] \in 0..(Hops + 1) /\ new[n] <= l.depth[n]
             /\ new[n] <= far[n] /\ (new[n] = far[n] \/ new[n] = l.depth[n])
  BY <1>3, <1>4, <1>5, <1>6
<1>9. ASSUME NEW n \in l.seeds PROVE new[n] = 0
  BY <1>3, <1>5, <1>7, <1>8
<1>10. ASSUME NEW q \in done, NEW n \in Ids
       PROVE  new[n] <= Traversed(edges, q)[n]
  <2>1. CASE q = p
    BY <1>8, <2>1
  <2>2. CASE q # p
    <3>1. l.depth[n] <= Traversed(edges, q)[n]
      BY <1>5, <2>2
    <3> QED BY <1>3, <1>5, <1>8, <3>1, LeastDepth
  <2> QED BY <2>1, <2>2
<1>11. ASSUME NEW n \in Ids
       PROVE  \/ n \in l.seeds \/ new[n] = Hops + 1
              \/ \E q \in done : new[n] = Traversed(edges, q)[n]
  <2>1. CASE new[n] = far[n]
    BY <1>1, <1>5, <2>1
  <2>2. CASE new[n] = l.depth[n]
    <3>1. l.seeds \ l.ids \subseteq done
      OBVIOUS
    <3> QED BY <1>5, <2>2, <3>1
  <2> QED BY <1>8, <2>1, <2>2
<1> QED BY <1>1, <1>2, <1>5, <1>8, <1>9, <1>10, <1>11 DEF SearchSees

LEMMA SearchSeesNext ==
  ASSUME TInv, NEW t \in Threads, SearchSees(t), [Next]_vars
  PROVE  SearchSees(t)'
<1>1. CASE ~(alone'[t] /\ pc'[t] \in {"seeds", "traverse"})
  BY <1>1 DEF SearchSees
<1>2. CASE alone'[t] /\ pc'[t] = "seeds" /\ (Call(t) \/ Continue(t))
  <2>1. EdgesSynced(t)
    BY <1>2, SearchLands
  <2>2. local'[t] = Does("ppr")
    BY <1>2, <2>1, GotoMoves DEF EdgesSynced, StartWrite, Return
  <2>3. local'[t].depth = Beyond
    BY <2>2 DEF Does, Blank
  <2>4. Beyond' = Beyond
    BY DEF Beyond
  <2> QED BY <1>2, <2>3, <2>4 DEF SearchSees
<1>3. CASE alone'[t] /\ pc'[t] = "traverse" /\ (Call(t) \/ Continue(t))
  BY <1>3, SearchLands, SeedsSeen, TraverseSeen
<1>4. CASE /\ alone'[t] /\ pc'[t] \in {"seeds", "traverse"}
           /\ ~(Call(t) \/ Continue(t))
  <2>1. /\ edges' = edges /\ alone[t] /\ pc'[t] = pc[t]
        /\ local'[t] = local[t]
    BY <1>4, Undisturbed
  <2> QED BY <1>4, <2>1 DEF SearchSees
<1> QED BY <1>1, <1>2, <1>3, <1>4

\* A search that nobody disturbs has its seeds at distance 0; an edge spans one
\* level at most, unless walks may cost too much; and whatever else it reaches
\* has a neighbour that is nearer.
THEOREM SearchAlwaysReaches == Spec => []SearchReaches
<1> DEFINE SInv == TInv /\ \A t \in Threads : SearchSees(t)
<1>1. Init => SInv
  BY TInvInit DEF Init, SearchSees
<1>2. SInv /\ [Next]_vars => SInv'
  BY TInvNext, SearchSeesNext
<1>3. ASSUME SInv PROVE SearchReaches
  <2> SUFFICES ASSUME NEW t \in Threads, alone[t], pc[t] = "traverse",
                      local[t].ids = {}
               PROVE  LET depth == local[t].depth IN
                 /\ {n \in Ids : depth[n] = 0} = local[t].seeds
                 /\ (\A e \in edges : Hops * (100 - e.weight) <= MaxCost) =>
                      \A e \in edges : \A n \in {e.src, e.tgt} :
                        depth[n] <= depth[OtherEnd(e, n)] + 1
                 /\ \A n \in Ids :
                      depth[n] \in 1..Hops =>
                        \E e \in edges : /\ n \in {e.src, e.tgt}
                                         /\ depth[OtherEnd(e, n)] < depth[n]
    BY DEF SearchReaches
  <2> PICK depth : depth = local[t].depth
    OBVIOUS
  <2> PICK seeds : seeds = local[t].seeds
    OBVIOUS
  <2>1. /\ \A n \in Ids : depth[n] \in 0..(Hops + 1)
        /\ \A n \in seeds : depth[n] = 0
        /\ \A p \in seeds : \A n \in Ids : depth[n] <= Traversed(edges, p)[n]
        /\ \A n \in Ids :
             \/ n \in seeds \/ depth[n] = Hops + 1
             \/ \E p \in seeds : depth[n] = Traversed(edges, p)[n]
    <3>1. SearchSees(t) /\ seeds \ local[t].ids = seeds
      BY <1>3
    <3> QED BY <3>1 DEF SearchSees
  <2>2. seeds \in SUBSET Ids /\ edges \in SUBSET Edge /\ Hops \in Nat
    BY <1>3, HeldType, HopsAssumption DEF Local
  <2>3. ASSUME NEW n \in Ids PROVE depth[n] = 0 <=> n \in seeds
    <3>1. CASE \E p \in seeds : depth[n] = Traversed(edges, p)[n]
      BY <2>1, <2>2, <3>1, SeedDepth
    <3>2. CASE n \in seeds \/ depth[n] = Hops + 1
      BY <2>1, <2>2, <3>2
    <3> QED BY <2>1, <3>1, <3>2
  <2>4. ASSUME Cheap(edges), NEW e \in edges, NEW n \in {e.src, e.tgt}
        PROVE  depth[n] <= depth[OtherEnd(e, n)] + 1
    <3> PICK m : m = OtherEnd(e, n)
      OBVIOUS
    <3>1. n \in Ids /\ m \in Ids
      BY <2>2, OtherEnds
    <3>2. CASE depth[m] = Hops + 1
      BY <2>1, <2>2, <3>1, <3>2
    <3>3. ASSUME NEW p \in seeds, depth[m] = Traversed(edges, p)[m]
          PROVE  depth[n] <= depth[m] + 1
      <4>1. Traversed(edges, p)[n] <= Traversed(edges, p)[m] + 1
        BY <2>2, <2>4, EdgeSpans
      <4>2. Traversed(edges, p)[n] \in 0..(Hops + 1)
        BY <3>1, LeastDepth
      <4>3. depth[n] <= Traversed(edges, p)[n]
        BY <2>1, <3>1
      <4> QED BY <2>1, <2>2, <3>1, <3>3, <4>1, <4>2, <4>3
    <3>4. CASE m \in seeds
      <4>1. depth[m] = Traversed(edges, m)[m]
        BY <2>1, <3>1, <3>4, SeedDepth
      <4> QED BY <3>3, <3>4, <4>1
    <3> QED BY <2>1, <3>1, <3>2, <3>3, <3>4
  <2>5. ASSUME NEW n \in Ids, depth[n] \in 1..Hops
        PROVE  \E e \in edges : /\ n \in {e.src, e.tgt}
                                /\ depth[OtherEnd(e, n)] < depth[n]
    <3>1. PICK p \in seeds : depth[n] = Traversed(edges, p)[n]
      BY <2>1, <2>2, <2>5
    <3>2. PICK e \in edges :
            /\ n \in {e.src, e.tgt}
            /\ Traversed(edges, p)[OtherEnd(e, n)] < Traversed(edges, p)[n]
      BY <2>2, <2>5, <3>1, Neighbour
    <3> PICK m : m = OtherEnd(e, n)
      OBVIOUS
    <3>3. m \in Ids
      BY <2>2, <3>2, OtherEnds
    <3>4. Traversed(edges, p)[m] \in 0..(Hops + 1)
      BY <3>3, LeastDepth
    <3>5. depth[m] <= Traversed(edges, p)[m]
      BY <2>1, <3>3
    <3>6. depth[m] < depth[n]
      BY <2>1, <2>2, <3>1, <3>2, <3>3, <3>4, <3>5
    <3> QED BY <3>2, <3>6
  <2> QED BY <2>2, <2>3, <2>4, <2>5 DEF Cheap
<1> QED BY <1>1, <1>2, <1>3, PTL DEF Spec
=============================================================================

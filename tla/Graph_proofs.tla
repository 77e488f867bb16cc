---------------------------- MODULE Graph_proofs ----------------------------
(***************************************************************************)
(* Theorems about Graph, for every table, every set of ids, every set of   *)
(* threads and every mix of operations.                                    *)
(***************************************************************************)
EXTENDS Graph, FiniteSetTheorems, TLAPS

\* What a thread may hold where it stands.
Holds(step, l) ==
  /\ step = "write_edge" => l.op \in {"weight", "valid_until", "target_id"}
  /\ step \in {"sync_row", "sync_add", "sync_update", "ghost", "sync_ghost",
              "pair", "rule_edge"} => l.ids \subseteq PK
  /\ step \in {"sync_add", "sync_update", "sync_ghost", "rule_edge"} =>
       l.ids # {}
  /\ step \in {"pair", "rule_edge"} => \A p \in l.ids : l.rows[p] \in PK
  /\ step = "decay_edge" => l.edges # {}
  /\ step = "join" => l.ids = {}
  /\ step \in {"update_node", "merge_node"} =>
       l.node \in Node /\ \E n : l.ids = {n}

TInv == TypeOK /\ \A t \in Threads : Holds(pc[t], local[t])

-----------------------------------------------------------------------------
(***************************************************************************)
(* Types.                                                                  *)
(***************************************************************************)
MaybeNode == Node \cup {NoNode}

LEMMA BlankType == Blank \in Local
<1>1. NoNodes \in [Ids -> MaybeNode] /\ NoRows \in [PK -> Val \cup {NoRow}]
  BY DEF NoNodes, NoRows, MaybeNode
<1>2. Beyond \in [Ids -> Nat]
  BY HopsAssumption DEF Beyond
<1> QED BY <1>1, <1>2, Zenon
        DEF Blank, Local, NoGraph, GraphOf, AllOps, MaybeNode

LEMMA DoesType ==
  ASSUME NEW op \in AllOps \cup {"weight", "valid_until", "target_id"}
  PROVE  /\ Does(op) \in Local
         /\ Does(op).op = op /\ Does(op).ids = {} /\ Does(op).edges = {}
  BY BlankType DEF Does, Local, Blank

LEMMA LocalWith ==
  ASSUME NEW l \in Local
  PROVE  /\ \A S \in SUBSET Ids : [l EXCEPT !.ids = S] \in Local
         /\ \A E \in SUBSET Edge : [l EXCEPT !.edges = E] \in Local
         /\ \A n \in Node \cup {NoNode} : [l EXCEPT !.node = n] \in Local
         /\ \A r \in [PK -> Val \cup {NoRow}] :
              [l EXCEPT !.rows = r] \in Local
         /\ \A b \in BOOLEAN : [l EXCEPT !.graph.directed = b] \in Local
         /\ \A S \in SUBSET Ids : [l EXCEPT !.seeds = S] \in Local
         /\ \A d \in [Ids -> Nat] : [l EXCEPT !.depth = d] \in Local
         /\ \A g \in [nodes : [Ids -> Node \cup {NoNode}], edges : SUBSET Edge,
                      directed : BOOLEAN] : [l EXCEPT !.graph = g] \in Local
<1>1. \A S \in SUBSET Ids : [l EXCEPT !.ids = S] \in Local
  BY DEF Local
<1>2. \A E \in SUBSET Edge : [l EXCEPT !.edges = E] \in Local
  BY DEF Local
<1>3. \A n \in Node \cup {NoNode} : [l EXCEPT !.node = n] \in Local
  BY DEF Local
<1>4. \A r \in [PK -> Val \cup {NoRow}] : [l EXCEPT !.rows = r] \in Local
  BY DEF Local
<1>5. ASSUME NEW b \in BOOLEAN PROVE [l EXCEPT !.graph.directed = b] \in Local
  <2>1. [l.graph EXCEPT !.directed = b] \in
          [nodes : [Ids -> Node \cup {NoNode}], edges : SUBSET Edge,
           directed : BOOLEAN]
    BY DEF Local
  <2> QED BY <2>1 DEF Local
<1>6. \A S \in SUBSET Ids : [l EXCEPT !.seeds = S] \in Local
  BY DEF Local
<1>7. \A d \in [Ids -> Nat] : [l EXCEPT !.depth = d] \in Local
  BY DEF Local
<1>8. \A g \in [nodes : [Ids -> Node \cup {NoNode}], edges : SUBSET Edge,
               directed : BOOLEAN] : [l EXCEPT !.graph = g] \in Local
  BY DEF Local
<1> QED BY <1>1, <1>2, <1>3, <1>4, <1>5, <1>6, <1>7, <1>8, Zenon

\* A copy with other ids.
LEMMA IdsOf ==
  ASSUME NEW l \in Local, NEW S \in SUBSET Ids
  PROVE  /\ [l EXCEPT !.ids = S] \in Local
         /\ [l EXCEPT !.ids = S].ids = S
         /\ [l EXCEPT !.ids = S].rows = l.rows
  BY DEF Local

LEMMA RowsOf ==
  ASSUME NEW l \in Local, NEW r \in [PK -> Val \cup {NoRow}]
  PROVE  [l EXCEPT !.rows = r] \in Local /\ [l EXCEPT !.rows = r].rows = r
  BY DEF Local

LEMMA FirstIn ==
  ASSUME NEW S, S # {}
  PROVE  First(S) \in S
  BY DEF First

LEMMA RenderedType ==
  ASSUME NEW v \in Val \cup {NoRow}
  PROVE  Rendered(v) \in Node
  BY DEF Rendered, Node, Source, Label

LEMMA EdgeType ==
  ASSUME NEW s \in Ids, NEW g \in Ids, NEW w \in Int, NEW x \in BOOLEAN,
         UnusedIds # {}
  PROVE  NewEdge(s, g, w, x) \in Edge
  BY DEF NewEdge, NewId, UnusedIds, Edge

\* A thread that moves keeps the types of what all threads hold.
LEMMA GotoKeeps ==
  ASSUME TInv, NEW t \in Threads, NEW step \in Steps, NEW l \in Local,
         Goto(t, step, l), Holds(step, l)
  PROVE  /\ pc' \in [Threads -> Steps] /\ local' \in [Threads -> Local]
         /\ \A u \in Threads : Holds(pc'[u], local'[u])
<1>1. pc' \in [Threads -> Steps] /\ local' \in [Threads -> Local]
  BY DEF Goto, TInv, TypeOK
<1>2. pc'[t] = step /\ local'[t] = l
  BY DEF Goto, TInv, TypeOK
<1>3. \A u \in Threads \ {t} : pc'[u] = pc[u] /\ local'[u] = local[u]
  BY DEF Goto, TInv, TypeOK
<1> QED BY <1>1, <1>2, <1>3 DEF TInv

\* The three ways a thread moves on keep all types.
LEMMA QuietKeeps ==
  ASSUME TInv, NEW t \in Threads, NEW step \in Steps, NEW l \in Local,
         Goto(t, step, l), Holds(step, l), Quiet
  PROVE  TInv'
<1>1. /\ pc' \in [Threads -> Steps] /\ local' \in [Threads -> Local]
      /\ \A u \in Threads : Holds(pc'[u], local'[u])
  BY GotoKeeps
<1>2. UNCHANGED <<mix, rows, nodes, edges, rules, cache, alone, raced>>
  BY DEF Quiet, tables
<1> QED BY <1>1, <1>2, Zenon DEF TInv, TypeOK

LEMMA StartWriteKeeps ==
  ASSUME TInv, NEW t \in Threads, NEW step \in Steps, NEW l \in Local,
         StartWrite(t, step, l), Holds(step, l)
  PROVE  TInv'
<1>1. /\ pc' \in [Threads -> Steps] /\ local' \in [Threads -> Local]
      /\ \A u \in Threads : Holds(pc'[u], local'[u])
  BY GotoKeeps DEF StartWrite
<1>2. UNCHANGED <<mix, rows, nodes, edges, rules>>
  BY DEF StartWrite, tables
<1>3. /\ cache' = [cache EXCEPT !.dirty = TRUE]
      /\ raced' \in BOOLEAN
  BY DEF StartWrite, Invalidate
<1>4. alone' \in [Threads -> BOOLEAN]
  BY DEF StartWrite, TInv, TypeOK
<1>5. cache' \in [graph : [nodes : [Ids -> Node \cup {NoNode}],
                         edges : SUBSET Edge, directed : BOOLEAN],
                 dirty : BOOLEAN, directed : BOOLEAN]
  BY <1>3 DEF TInv, TypeOK
<1> QED BY <1>1, <1>2, <1>3, <1>4, <1>5, Zenon DEF TInv, TypeOK

LEMMA CommittedType ==
  ASSUME TInv, NEW t \in Threads, Committed(t)
  PROVE  alone' \in [Threads -> BOOLEAN]
  BY DEF Committed, TInv, TypeOK

LEMMA WriteKeeps ==
  ASSUME TInv, NEW t \in Threads, NEW step \in Steps, NEW l \in Local,
         NEW N \in [Ids -> Node \cup {NoNode}], NEW E \in SUBSET Edge,
         Write(t, N, E), Goto(t, step, l), Holds(step, l)
  PROVE  TInv'
<1>1. /\ pc' \in [Threads -> Steps] /\ local' \in [Threads -> Local]
      /\ \A u \in Threads : Holds(pc'[u], local'[u])
  BY GotoKeeps
<1>2. /\ UNCHANGED <<mix, rows, rules, cache, raced>>
      /\ nodes' = N /\ edges' = E
  BY DEF Write
<1>3. alone' \in [Threads -> BOOLEAN]
  BY CommittedType DEF Write
<1> QED BY <1>1, <1>2, <1>3, Zenon DEF TInv, TypeOK

\* What a thread holds when it holds nothing.
LEMMA BlankHolds == "idle" \in Steps /\ Holds("idle", Blank)
  BY DEF Steps, Holds

LEMMA StepNames ==
  WriteSteps \cup SyncSteps \cup BuildSteps \cup FindSteps \subseteq Steps
  BY DEF Steps

LEMMA HeldType ==
  ASSUME TInv, NEW t \in Threads
  PROVE  /\ local[t] \in Local /\ pc[t] \in Steps /\ Holds(pc[t], local[t])
         /\ nodes \in [Ids -> Node \cup {NoNode}] /\ edges \in SUBSET Edge
         /\ \A e \in local[t].edges : e \in Edge
         /\ \A p \in PK : local[t].rows[p] \in Val \cup {NoRow}
         /\ local[t].ids \subseteq Ids
         /\ local[t].op \in AllOps \cup {"weight", "valid_until", "target_id"}
  BY DEF TInv, TypeOK, Local

\* A mix names operations, ids and weights there are.
LEMMA MixType ==
  ASSUME TInv
  PROVE  mix.ops \subseteq AllOps /\ mix.ids \subseteq Ids
         /\ mix.weights \subseteq Int
  BY MixAssumption DEF TInv, TypeOK, Ids

LEMMA BuildKeeps ==
  ASSUME TInv, NEW t \in Threads, NEW l \in Local, Build(t, l)
  PROVE  TInv'
<1>1. "nx_nodes" \in Steps /\ Holds("nx_nodes", l)
  BY StepNames DEF BuildSteps, Holds
<1>2. /\ pc' \in [Threads -> Steps] /\ local' \in [Threads -> Local]
      /\ \A u \in Threads : Holds(pc'[u], local'[u])
  BY <1>1, GotoKeeps DEF Build
<1>3. raced' \in BOOLEAN
  BY DEF Build, TInv, TypeOK
<1>4. UNCHANGED <<mix, rows, nodes, edges, rules, cache, alone>>
  BY DEF Build, tables
<1> QED BY <1>2, <1>3, <1>4, Zenon DEF TInv, TypeOK

LEMMA NodeOpTypes ==
  ASSUME TInv, NEW t \in Threads, NodeOp(t)
  PROVE  TInv'
<1> USE StepNames DEF WriteSteps
<1>1. ASSUME NEW S \in SUBSET mix.ids, StartAddNodes(t, S)
      PROVE  TInv'
  <2> DEFINE l == [Does("add_nodes") EXCEPT !.ids = S]
  <2>1. l \in Local
    BY DoesType, LocalWith, MixType DEF AllOps
  <2>2. Holds("add_nodes", l)
    BY DEF Holds
  <2>3. StartWrite(t, "add_nodes", l)
    BY <1>1 DEF StartAddNodes
  <2> HIDE DEF l
  <2> QED BY <2>1, <2>2, <2>3, StartWriteKeeps
<1>2. ASSUME NEW n \in mix.ids, StartDeleteNode(t, n)
      PROVE  TInv'
  <2> DEFINE l == [Does("delete_node") EXCEPT !.ids = {n}]
  <2>0. {n} \in SUBSET Ids
    BY MixType
  <2>1. l \in Local
    BY <2>0, DoesType, LocalWith DEF AllOps
  <2>2. Holds("delete_node", l)
    BY DEF Holds
  <2>3. StartWrite(t, "delete_node", l)
    BY <1>2 DEF StartDeleteNode
  <2> HIDE DEF l
  <2> QED BY <2>1, <2>2, <2>3, StartWriteKeeps
<1>3. ASSUME NEW n \in mix.ids, NEW k \in Prop, StartUpdateNode(t, n, {k})
      PROVE  TInv'
  <2> DEFINE given == [source |-> "inferred", label |-> NoRow, props |-> {k}]
             l == [Does("update_node") EXCEPT !.ids = {n}, !.node = given]
  <2>1. given \in Node
    BY DEF Node, Source, Label
  <2>0. {n} \in SUBSET Ids
    BY MixType
  <2>2. l \in Local
    <3>1. [Does("update_node") EXCEPT !.ids = {n}] \in Local
      BY <2>0, DoesType, LocalWith DEF AllOps
    <3> QED BY <2>1, <3>1, LocalWith
  <2>3. Holds("update_node", l)
    <3>1. l.node = given /\ l.ids = {n}
      BY DoesType DEF Local, AllOps
    <3> QED BY <2>1, <3>1 DEF Holds
  <2>4. StartWrite(t, "update_node", l)
    BY <1>3 DEF StartUpdateNode
  <2> HIDE DEF l
  <2> QED BY <2>2, <2>3, <2>4, StartWriteKeeps
<1> QED BY <1>1, <1>2, <1>3 DEF NodeOp

LEMMA EdgeOpTypes ==
  ASSUME TInv, NEW t \in Threads, EdgeOp(t)
  PROVE  TInv'
<1> USE StepNames DEF WriteSteps
<1>1. ASSUME NEW e \in Edge, StartAddEdge(t, e)
      PROVE  TInv'
  <2> DEFINE l == [Does("add_edge") EXCEPT !.edges = {e}]
  <2>1. l \in Local
    BY DoesType, LocalWith DEF AllOps
  <2>2. Holds("add_edges", l)
    BY DEF Holds
  <2>3. StartWrite(t, "add_edges", l)
    BY <1>1 DEF StartAddEdge
  <2> HIDE DEF l
  <2> QED BY <2>1, <2>2, <2>3, StartWriteKeeps
<1>2. ASSUME NEW e \in Edge, StartDeleteEdge(t, e)
      PROVE  TInv'
  <2> DEFINE l == [Does("delete_edge") EXCEPT !.edges = {e}]
  <2>1. l \in Local
    BY DoesType, LocalWith DEF AllOps
  <2>2. Holds("delete_edge", l)
    BY DEF Holds
  <2>3. StartWrite(t, "delete_edge", l)
    BY <1>2 DEF StartDeleteEdge
  <2> HIDE DEF l
  <2> QED BY <2>1, <2>2, <2>3, StartWriteKeeps
<1>3. ASSUME NEW e \in Edge,
             NEW field \in {"weight", "valid_until", "target_id"},
             StartUpdateEdge(t, e, field)
      PROVE  TInv'
  <2> DEFINE l == [Does(field) EXCEPT !.edges = {e}]
  <2>1. l \in Local
    BY DoesType, LocalWith DEF AllOps
  <2>2. Holds("write_edge", l)
    BY DoesType DEF Holds, Local
  <2>3. StartWrite(t, "write_edge", l)
    BY <1>3 DEF StartUpdateEdge
  <2> HIDE DEF l
  <2> QED BY <2>1, <2>2, <2>3, StartWriteKeeps
<1>4. \A s, g \in mix.ids, w \in mix.weights, x \in Expiries :
        UnusedIds # {} => NewEdge(s, g, w, x) \in Edge
  BY MixType, EdgeType DEF Expiries
<1>5. \A e \in edges :
        /\ e \in Edge
        /\ \A s, g \in mix.ids : [e EXCEPT !.src = s, !.tgt = g] \in Edge
        /\ \A w \in mix.weights : [e EXCEPT !.weight = w] \in Edge
        /\ \A x \in Expiries : [e EXCEPT !.expired = x] \in Edge
        /\ \A g \in mix.ids : [e EXCEPT !.tgt = g] \in Edge
  BY MixType DEF TInv, TypeOK, Edge, Expiries
<1> QED BY <1>1, <1>2, <1>3, <1>4, <1>5 DEF EdgeOp

LEMMA CallTypes ==
  ASSUME TInv, NEW t \in Threads, Call(t)
  PROVE  TInv'
<1> USE StepNames
<1>1. ASSUME NEW p \in PK \cap mix.ids, NEW v \in Val \cup {NoRow},
             PutRow(t, p, v)
      PROVE  TInv'
  <2>1. rows' \in [PK -> Val \cup {NoRow}]
    BY <1>1 DEF PutRow, TInv, TypeOK
  <2>2. alone' \in [Threads -> BOOLEAN]
    BY <1>1, CommittedType DEF PutRow
  <2> QED BY <1>1, <2>1, <2>2, Zenon DEF PutRow, TInv, TypeOK
<1>2. ASSUME NEW rule \in {"node", "edge"}, Register(t, rule)
      PROVE  TInv'
  <2>1. rules' \subseteq {"node", "edge"}
    BY <1>2 DEF Register, TInv, TypeOK
  <2>2. alone' \in [Threads -> BOOLEAN]
    BY <1>2, CommittedType DEF Register
  <2> QED BY <1>2, <2>1, <2>2, Zenon DEF Register, tables, TInv, TypeOK
<1>3. ASSUME NEW op \in mix.ops, StartSync(t, op)
      PROVE  TInv'
  <2> DEFINE l == [Does(op) EXCEPT !.rows = rows, !.ids = Present(rows)]
  <2>1. op \in AllOps /\ Does(op) \in Local /\ Does(op).ids = {}
    BY DoesType, MixType
  <2>2. l \in Local /\ l.ids \subseteq PK
    BY <2>1 DEF Local, TInv, TypeOK, Present, Ids
  <2>3. Holds("sync_row", l) /\ Holds("join", Does(op))
    BY <2>1, <2>2 DEF Holds
  <2>4. \E step \in {"sync_row", "join"}, h \in {l, Does(op)} :
          Goto(t, step, h) /\ Holds(step, h)
    <3>1. CASE "node" \in rules
      <4>1. Goto(t, "sync_row", l)
        BY <1>3, <3>1 DEF StartSync
      <4> QED BY <4>1, <2>3
    <3>2. CASE "node" \notin rules
      BY <1>3, <2>3, <3>2 DEF StartSync
    <3> QED BY <3>1, <3>2
  <2> HIDE DEF l
  <2>5. /\ pc' \in [Threads -> Steps] /\ local' \in [Threads -> Local]
        /\ \A u \in Threads : Holds(pc'[u], local'[u])
    BY <2>1, <2>2, <2>4, GotoKeeps DEF SyncSteps
  <2>6. alone' \in [Threads -> BOOLEAN]
    BY <1>3 DEF StartSync, TInv, TypeOK
  <2> QED BY <1>3, <2>5, <2>6, Zenon DEF StartSync, tables, TInv, TypeOK
<1>4. ASSUME StartDecay(t)
      PROVE  TInv'
  <2>1. Does("decay") \in Local /\ Holds("decay_read", Does("decay"))
    BY DoesType DEF Holds, AllOps
  <2>2. StartWrite(t, "decay_read", Does("decay")) /\ "decay_read" \in Steps
    BY <1>4 DEF StartDecay, WriteSteps
  <2> QED BY <2>1, <2>2, StartWriteKeeps
<1>5. ASSUME NEW directed \in BOOLEAN, StartBuild(t, directed)
      PROVE  TInv'
  <2> DEFINE l == [Does("nx") EXCEPT !.graph.directed = directed]
  <2>1. l \in Local
    BY DoesType, LocalWith DEF AllOps
  <2>2. Build(t, l)
    BY <1>5 DEF StartBuild
  <2> HIDE DEF l
  <2> QED BY <2>1, <2>2, BuildKeeps
<1>6. ASSUME Restore(t)
      PROVE  TInv'
  <2>1. /\ rows' \in [PK -> Val \cup {NoRow}]
        /\ nodes' \in [Ids -> Node \cup {NoNode}]
        /\ edges' \subseteq Edge /\ rules' \subseteq {"node", "edge"}
        /\ raced' \in BOOLEAN
    BY <1>6 DEF Restore, NoRows, NoNodes
  <2>2. alone' \in [Threads -> BOOLEAN]
    BY <1>6, CommittedType DEF Restore
  <2> QED BY <1>6, <2>1, <2>2, Zenon DEF Restore, TInv, TypeOK
<1> QED BY <1>1, <1>2, <1>3, <1>4, <1>5, <1>6, NodeOpTypes, EdgeOpTypes
        DEF Call

\* A thread that is about to merge holds a node.
LEMMA HoldsNode ==
  ASSUME TInv, NEW t \in Threads, pc[t] \in {"update_node", "merge_node"}
  PROVE  local[t].node \in Node
  BY DEF TInv, Holds

LEMMA DeleteKeeps ==
  ASSUME TInv, NEW t \in Threads, NEW step \in Steps, NEW l \in Local,
         NEW n, Delete(t, n), Goto(t, step, l), Holds(step, l)
  PROVE  TInv'
<1>1. [nodes EXCEPT ![n] = NoNode] \in [Ids -> Node \cup {NoNode}]
  BY HeldType
<1>2. EdgesWithout(n) \in SUBSET Edge
  BY HeldType DEF EdgesWithout
<1>3. Write(t, [nodes EXCEPT ![n] = NoNode], EdgesWithout(n))
  BY DEF Delete
<1> QED BY <1>1, <1>2, <1>3, WriteKeeps

\* The steps of writes to nodes and edges.
LEMMA WriteStepTypes ==
  ASSUME TInv, NEW t \in Threads,
         AddNodes(t) \/ UpdateNode(t) \/ MergeNode(t) \/ DeleteNode(t)
           \/ AddEdge(t) \/ WriteEdge(t) \/ DeleteEdge(t)
  PROVE  TInv'
<1> USE BlankType, BlankHolds, HeldType DEF Return
<1> DEFINE fresh == [source |-> "inferred", label |-> NoRow, props |-> {}]
<1>1. CASE AddNodes(t)
  <2> DEFINE N == [n \in Ids |-> IF n \in local[t].ids THEN fresh ELSE nodes[n]]
  <2>1. fresh \in Node
    BY DEF Node, Source, Label
  <2>2. N \in [Ids -> Node \cup {NoNode}]
    BY <2>1
  <2>3. Write(t, N, edges)
    BY <1>1 DEF AddNodes
  <2> HIDE DEF N
  <2> QED BY <1>1, <2>2, <2>3, WriteKeeps DEF AddNodes
<1>2. CASE UpdateNode(t)
  <2> DEFINE merged(n) == [local[t] EXCEPT
               !.node.props = Merged(nodes[n], local[t].node.props)]
  <2>1. PICK n \in local[t].ids :
          IF nodes[n] = NoNode THEN Return(t)
          ELSE Goto(t, "merge_node", merged(n))
    BY <1>2 DEF UpdateNode
  <2>2. Quiet
    BY <1>2 DEF UpdateNode
  <2>3. CASE nodes[n] = NoNode
    BY <2>1, <2>2, <2>3, QuietKeeps
  <2>4. CASE nodes[n] # NoNode
    <3>1. n \in Ids /\ nodes[n] \in Node
      BY <2>4
    <3>2. local[t].node \in Node \cup {NoNode}
      BY DEF Local
    <3>3. CASE local[t].node \in Node
      <4>1. Merged(nodes[n], local[t].node.props) \in SUBSET Prop
        BY <3>1, <3>3 DEF Merged, Node
      <4>2. [local[t].node EXCEPT
               !.props = Merged(nodes[n], local[t].node.props)] \in Node
        BY <3>3, <4>1 DEF Node
      <4>3. merged(n) \in Local
        BY <4>2, LocalWith
      <4>4. merged(n).node \in Node /\ \E k : merged(n).ids = {k}
        BY <1>2, <4>2 DEF Local, UpdateNode, TInv, Holds
      <4>5. Holds("merge_node", merged(n)) /\ "merge_node" \in Steps
        BY <4>4, StepNames DEF Holds, WriteSteps
      <4> HIDE DEF merged
      <4> QED BY <2>1, <2>2, <2>4, <4>3, <4>5, QuietKeeps
    <3> QED BY <1>2, <3>2, <3>3, HoldsNode DEF UpdateNode
  <2> QED BY <2>3, <2>4
<1>3. CASE MergeNode(t)
  <2> DEFINE N == [n \in Ids |->
                     IF n \in local[t].ids /\ nodes[n] # NoNode
                     THEN [nodes[n] EXCEPT !.props = local[t].node.props]
                     ELSE nodes[n]]
  <2>1. local[t].node \in Node
    BY <1>3, HoldsNode DEF MergeNode
  <2>2. \A n \in Ids : nodes[n] # NoNode =>
          [nodes[n] EXCEPT !.props = local[t].node.props] \in Node
    BY <2>1 DEF Node
  <2>3. N \in [Ids -> Node \cup {NoNode}]
    BY <2>2
  <2>4. Write(t, N, edges)
    BY <1>3 DEF MergeNode
  <2> HIDE DEF N
  <2> QED BY <1>3, <2>3, <2>4, WriteKeeps DEF MergeNode
<1>4. CASE DeleteNode(t)
  <2>1. PICK n \in local[t].ids : Delete(t, n)
    BY <1>4 DEF DeleteNode
  <2> QED BY <1>4, <2>1, DeleteKeeps DEF DeleteNode
<1>5. CASE AddEdge(t)
  <2>1. PICK e \in local[t].edges :
          IF HasEnds(e) THEN Write(t, nodes, Replaced(edges, e)) ELSE Quiet
    BY <1>5 DEF AddEdge
  <2>2. e \in Edge /\ Replaced(edges, e) \in SUBSET Edge
    BY DEF Replaced
  <2>3. CASE HasEnds(e)
    BY <1>5, <2>1, <2>2, <2>3, WriteKeeps DEF AddEdge
  <2>4. CASE ~HasEnds(e)
    BY <1>5, <2>1, <2>4, QuietKeeps DEF AddEdge
  <2> QED BY <2>3, <2>4
<1>6. CASE WriteEdge(t)
  <2> DEFINE E(e) == {IF x.id = e.id THEN Updated(x, e, local[t].op) ELSE x :
                        x \in edges}
  <2>1. PICK e \in local[t].edges :
          IF CanUpdate(e, local[t].op) THEN Write(t, nodes, E(e)) ELSE Quiet
    BY <1>6 DEF WriteEdge
  <2>2. local[t].op \in {"weight", "valid_until", "target_id"}
    BY <1>6 DEF WriteEdge, Holds
  <2>3. E(e) \in SUBSET Edge
    BY <2>2 DEF Updated, Edge
  <2> HIDE DEF E
  <2>4. CASE CanUpdate(e, local[t].op)
    BY <1>6, <2>1, <2>3, <2>4, WriteKeeps DEF WriteEdge
  <2>5. CASE ~CanUpdate(e, local[t].op)
    BY <1>6, <2>1, <2>5, QuietKeeps DEF WriteEdge
  <2> QED BY <2>4, <2>5
<1>7. CASE DeleteEdge(t)
  <2> DEFINE E == {x \in edges : \A e \in local[t].edges : x.id # e.id}
  <2>1. E \in SUBSET Edge /\ Write(t, nodes, E)
    BY <1>7 DEF DeleteEdge
  <2> HIDE DEF E
  <2> QED BY <1>7, <2>1, WriteKeeps DEF DeleteEdge
<1> QED BY <1>1, <1>2, <1>3, <1>4, <1>5, <1>6, <1>7

LEMMA JoinHolds ==
  ASSUME TInv, NEW t \in Threads, pc[t] = "join"
  PROVE  local[t].ids = {}
  BY DEF TInv, Holds

\* The steps of a synchronisation.
LEMMA SyncStepTypes ==
  ASSUME TInv, NEW t \in Threads,
         SyncRow(t) \/ SyncWrite(t) \/ Ghosts(t) \/ Ghost(t) \/ SyncGhost(t)
           \/ NodesSynced(t) \/ Join(t) \/ Pair(t) \/ RuleEdge(t)
           \/ EdgesSynced(t)
  PROVE  TInv'
<1> USE BlankType, BlankHolds, HeldType, StepNames DEF Return
<1> DEFINE p == First(local[t].ids)
           rest == [local[t] EXCEPT !.ids = @ \ {p}]
<1>0. /\ rest \in Local /\ rest.ids = local[t].ids \ {p}
      /\ rest.rows = local[t].rows
  <2>1. rest = [local[t] EXCEPT !.ids = local[t].ids \ {p}]
    BY DEF Local
  <2>2. local[t].ids \ {p} \in SUBSET Ids
    OBVIOUS
  <2> HIDE DEF p
  <2> QED BY <2>1, <2>2, IdsOf
<1>1. CASE SyncRow(t)
  <2>1. /\ pc[t] = "sync_row" /\ local[t].ids # {} /\ local[t].ids \subseteq PK
        /\ \/ Goto(t, "sync_row", rest) /\ Quiet
           \/ StartWrite(t, "sync_add", local[t])
           \/ StartWrite(t, "sync_update", local[t])
    BY <1>1 DEF SyncRow, Holds
  <2>2. Holds("sync_row", rest)
    BY <1>0, <2>1 DEF Holds
  <2>3. Holds("sync_add", local[t]) /\ Holds("sync_update", local[t])
    BY <2>1 DEF Holds
  <2>4. {"sync_row", "sync_add", "sync_update"} \subseteq Steps
    BY DEF WriteSteps, SyncSteps
  <2> HIDE DEF rest
  <2> QED BY <1>0, <2>1, <2>2, <2>3, <2>4, QuietKeeps, StartWriteKeeps
<1>2. CASE SyncWrite(t)
  <2> DEFINE N == [nodes EXCEPT ![p] =
                     IF pc[t] = "sync_add" THEN Rendered(local[t].rows[p])
                     ELSE IF @ = NoNode THEN NoNode
                     ELSE [@ EXCEPT !.source = "auto_sync",
                                    !.label = local[t].rows[p]]]
  <2>1. /\ local[t].ids # {} /\ local[t].ids \subseteq PK /\ p \in PK
        /\ local[t].rows[p] \in Val \cup {NoRow}
    BY <1>2, FirstIn DEF SyncWrite, Holds
  <2>2. Rendered(local[t].rows[p]) \in Node
    BY <2>1, RenderedType
  <2>3. \A n \in Node : [n EXCEPT !.source = "auto_sync",
                                  !.label = local[t].rows[p]] \in Node
    BY <2>1 DEF Node, Source, Label
  <2>4. N \in [Ids -> Node \cup {NoNode}]
    BY <2>2, <2>3
  <2>5. Write(t, N, edges) /\ Goto(t, "sync_row", rest)
    BY <1>2 DEF SyncWrite
  <2>6. Holds("sync_row", rest) /\ "sync_row" \in Steps
    BY <1>0, <2>1 DEF Holds, SyncSteps
  <2> HIDE DEF N, rest
  <2> QED BY <1>0, <2>4, <2>5, <2>6, WriteKeeps
<1>3. CASE Ghosts(t)
  <2> DEFINE l == [local[t] EXCEPT !.ids = GhostIds(local[t].rows)]
  <2>1. GhostIds(local[t].rows) \subseteq PK
    BY DEF GhostIds
  <2>2. l \in Local /\ l.ids \subseteq PK
    <3>1. GhostIds(local[t].rows) \in SUBSET Ids
      BY <2>1 DEF Ids
    <3> QED BY <2>1, <3>1, IdsOf
  <2>3. Goto(t, "ghost", l) /\ Quiet
    BY <1>3 DEF Ghosts
  <2>4. Holds("ghost", l) /\ "ghost" \in Steps
    BY <2>2 DEF Holds, SyncSteps
  <2> HIDE DEF l
  <2> QED BY <2>2, <2>3, <2>4, QuietKeeps
<1>4. CASE Ghost(t)
  <2>1. Holds("sync_ghost", local[t]) /\ "sync_ghost" \in Steps
    BY <1>4 DEF Ghost, Holds, WriteSteps
  <2> QED BY <1>4, <2>1, StartWriteKeeps DEF Ghost
<1>5. CASE SyncGhost(t)
  <2>1. Holds("ghost", rest) /\ "ghost" \in Steps
    BY <1>0, <1>5 DEF SyncGhost, Holds, SyncSteps
  <2>2. Delete(t, p) /\ Goto(t, "ghost", rest)
    BY <1>5 DEF SyncGhost
  <2> HIDE DEF rest, p
  <2> QED BY <1>0, <2>1, <2>2, DeleteKeeps
<1>6. CASE NodesSynced(t)
  <2> DEFINE l == [local[t] EXCEPT !.rows = NoRows]
  <2>1. l \in Local /\ l.ids = local[t].ids
    <3>1. NoRows \in [PK -> Val \cup {NoRow}]
      BY DEF NoRows
    <3>2. l \in Local
      BY <3>1, LocalWith
    <3> QED BY <3>2 DEF Local
  <2>2. /\ Quiet /\ local[t].ids = {}
        /\ Goto(t, "idle", Blank) \/ Goto(t, "join", l)
    BY <1>6 DEF NodesSynced
  <2>3. Holds("join", l) /\ "join" \in Steps
    BY <2>1, <2>2 DEF Holds, SyncSteps
  <2> HIDE DEF l
  <2> QED BY <2>1, <2>2, <2>3, QuietKeeps
<1>7. CASE Join(t)
  <2> DEFINE S == {x \in PK : \E y \in PK : <<x, y>> \in Joined(rows)}
             l == [local[t] EXCEPT !.rows = rows, !.ids = S]
  <2>1. rows \in [PK -> Val \cup {NoRow}] /\ S \in SUBSET Ids
    BY DEF TInv, TypeOK, Ids
  <2>2. l \in Local /\ l.ids = S /\ l.rows = rows
    <3> DEFINE r == [local[t] EXCEPT !.rows = rows]
    <3>1. r \in Local /\ r.rows = rows
      BY <2>1, RowsOf
    <3> HIDE DEF S
    <3>2. l = [r EXCEPT !.ids = S]
      OBVIOUS
    <3> HIDE DEF r, l
    <3> QED BY <2>1, <3>1, <3>2, IdsOf
  <2>3. \A x \in S : rows[x] \in PK
    BY DEF Joined
  <2>4. Holds("pair", l) /\ "pair" \in Steps
    BY <2>2, <2>3 DEF Holds, SyncSteps
  <2>5. CASE "edge" \in rules
    <3>1. Quiet /\ Goto(t, "pair", l)
      BY <1>7, <2>5 DEF Join
    <3> HIDE DEF l
    <3> QED BY <2>2, <2>4, <3>1, QuietKeeps
  <2>6. CASE "edge" \notin rules
    <3>1. Quiet /\ Goto(t, "pair", local[t])
      BY <1>7, <2>6 DEF Join
    <3>2. local[t].ids = {}
      BY <1>7, JoinHolds DEF Join
    <3>3. Holds("pair", local[t])
      BY <3>2 DEF Holds
    <3> QED BY <2>4, <3>1, <3>3, QuietKeeps
  <2> QED BY <2>5, <2>6
<1>8. CASE Pair(t)
  <2>1. Holds("rule_edge", local[t]) /\ "rule_edge" \in Steps
    BY <1>8 DEF Pair, Holds, WriteSteps
  <2> QED BY <1>8, <2>1, StartWriteKeeps DEF Pair
<1>9. CASE RuleEdge(t)
  <2> DEFINE e == NewEdge(p, local[t].rows[p], DefaultWeight, FALSE)
             none == [local[t] EXCEPT !.ids = {}]
  <2>1. p \in local[t].ids /\ p \in PK /\ local[t].rows[p] \in PK
    BY <1>9, FirstIn DEF RuleEdge, Holds
  <2>2. e \in Edge
    BY <1>9, <2>1, EdgeType, WeightAssumption DEF RuleEdge, Ids
  <2>3. Replaced(edges, e) \in SUBSET Edge
    BY <2>2 DEF Replaced
  <2>4. /\ Holds("pair", rest) /\ Holds("pair", none) /\ "pair" \in Steps
        /\ none \in Local
    <3>1. none \in Local /\ none.ids = {} /\ {} \in SUBSET Ids
      BY IdsOf
    <3> HIDE DEF none, rest
    <3> QED BY <1>0, <1>9, <3>1 DEF RuleEdge, Holds, SyncSteps
  <2>5. \/ Write(t, nodes, Replaced(edges, e)) /\ Goto(t, "pair", rest)
        \/ Goto(t, "pair", none) /\ Quiet
    BY <1>9 DEF RuleEdge
  <2> HIDE DEF e, none, rest
  <2> QED BY <1>0, <2>3, <2>4, <2>5, WriteKeeps, QuietKeeps
<1>10. CASE EdgesSynced(t)
  <2>1. Does("reconcile") \in Local /\ Holds("decay_read", Does("reconcile"))
    BY DoesType DEF Holds, AllOps
  <2>2. "decay_read" \in Steps
    BY DEF WriteSteps
  <2>3. \/ StartWrite(t, "decay_read", Does("reconcile"))
        \/ Goto(t, "seeds", Does("ppr")) /\ Quiet
        \/ Goto(t, "idle", Blank) /\ Quiet
    BY <1>10 DEF EdgesSynced
  <2>4. /\ Does("ppr") \in Local /\ Holds("seeds", Does("ppr"))
        /\ "seeds" \in Steps
    BY DoesType DEF Holds, AllOps, FindSteps
  <2> QED BY <2>1, <2>2, <2>3, <2>4, StartWriteKeeps, QuietKeeps
<1> QED BY <1>1, <1>2, <1>3, <1>4, <1>5, <1>6, <1>7, <1>8, <1>9, <1>10

\* The steps of a decay.
LEMMA DecayStepTypes ==
  ASSUME TInv, NEW t \in Threads,
         DecayRead(t) \/ Decay(t) \/ DecayEdge(t) \/ DecayDone(t) \/ Prune(t)
  PROVE  TInv'
<1> USE BlankType, BlankHolds, HeldType, StepNames DEF Return
<1>0. {"decay", "decay_edge", "prune"} \subseteq Steps
  BY DEF WriteSteps
<1>1. CASE DecayRead(t)
  <2> DEFINE l == [local[t] EXCEPT !.edges = {e \in edges : e.expired}]
  <2>1. l \in Local
    BY LocalWith
  <2>2. Holds("decay", l) /\ Goto(t, "decay", l) /\ Quiet
    BY <1>1 DEF DecayRead, Holds
  <2> HIDE DEF l
  <2> QED BY <1>0, <2>1, <2>2, QuietKeeps
<1>2. CASE Decay(t)
  <2>1. Holds("decay_edge", local[t])
    BY <1>2 DEF Decay, Holds
  <2> QED BY <1>0, <1>2, <2>1, StartWriteKeeps DEF Decay
<1>3. CASE DecayEdge(t)
  <2> DEFINE e == First(local[t].edges)
             l == [local[t] EXCEPT !.edges = @ \ {e}]
  <2>1. e \in Edge
    BY <1>3, FirstIn DEF DecayEdge, Holds
  <2>2. Decayed(edges, e) \in SUBSET Edge
    BY <2>1, WeightAssumption DEF Decayed, Edge
  <2>3. l \in Local
    <3>1. local[t].edges \ {e} \in SUBSET Edge
      OBVIOUS
    <3>2. l = [local[t] EXCEPT !.edges = local[t].edges \ {e}]
      BY DEF Local
    <3> QED BY <3>1, <3>2, LocalWith
  <2>4. Holds("decay", l)
    BY DEF Holds
  <2>5. Write(t, nodes, Decayed(edges, e)) /\ Goto(t, "decay", l)
    BY <1>3 DEF DecayEdge
  <2> HIDE DEF e, l
  <2> QED BY <1>0, <2>2, <2>3, <2>4, <2>5, WriteKeeps
<1>4. CASE DecayDone(t)
  <2>1. Quiet /\ (Goto(t, "prune", local[t]) \/ Goto(t, "idle", Blank))
    BY <1>4 DEF DecayDone
  <2>2. Holds("prune", local[t])
    BY DEF Holds
  <2> QED BY <1>0, <2>1, <2>2, QuietKeeps
<1>5. CASE Prune(t)
  <2> DEFINE E == {e \in edges : e.weight >= Floor}
  <2>1. E \in SUBSET Edge /\ Write(t, nodes, E)
    BY <1>5 DEF Prune
  <2> HIDE DEF E
  <2> QED BY <1>5, <2>1, WriteKeeps DEF Prune
<1> QED BY <1>1, <1>2, <1>3, <1>4, <1>5

\* The steps of to_networkx.
LEMMA BuildStepTypes ==
  ASSUME TInv, NEW t \in Threads,
         BuildNodes(t) \/ BuildEdges(t) \/ StoreGraph(t) \/ StoreClean(t)
           \/ StoreDirected(t)
  PROVE  TInv'
<1> DEFINE Graphs == [nodes : [Ids -> Node \cup {NoNode}],
                      edges : SUBSET Edge, directed : BOOLEAN]
           Caches == [graph : Graphs, dirty : BOOLEAN, directed : BOOLEAN]
<1> USE BlankType, BlankHolds, HeldType
<1>1. local[t].graph \in Graphs /\ cache \in Caches /\ NoGraph \in Graphs
  BY BlankType DEF TInv, TypeOK, Local, Blank
<1>2. ASSUME NEW step, NEW next \in BuildSteps, NEW g \in Graphs,
             NEW c \in Caches, BuildStep(t, step, next, g, c)
      PROVE  TInv'
  <2>1. [local[t] EXCEPT !.graph = g] \in Local
    BY DEF Local
  <2>2. Holds(next, [local[t] EXCEPT !.graph = g])
    BY DEF Holds, BuildSteps
  <2>3. /\ pc' \in [Threads -> Steps] /\ local' \in [Threads -> Local]
        /\ \A u \in Threads : Holds(pc'[u], local'[u])
    BY <1>2, <2>1, <2>2, StepNames, GotoKeeps DEF BuildStep
  <2>4. cache' = c /\ UNCHANGED <<mix, rows, nodes, edges, rules, alone, raced>>
    BY <1>2 DEF BuildStep, tables
  <2> QED BY <2>3, <2>4, Zenon DEF TInv, TypeOK
<1>3. CASE BuildNodes(t)
  <2>1. [local[t].graph EXCEPT !.nodes = nodes] \in Graphs
    BY <1>1
  <2> QED BY <1>1, <1>2, <1>3, <2>1 DEF BuildNodes, BuildSteps
<1>4. CASE BuildEdges(t)
  <2>1. [local[t].graph EXCEPT !.edges = edges] \in Graphs
    BY <1>1
  <2> QED BY <1>1, <1>2, <1>4, <2>1 DEF BuildEdges, BuildSteps
<1>5. CASE StoreGraph(t)
  <2>1. /\ (IF local[t].op = "ppr" THEN local[t].graph
            ELSE [NoGraph EXCEPT !.directed = local[t].graph.directed])
              \in Graphs
        /\ [cache EXCEPT !.graph = local[t].graph] \in Caches
    BY <1>1
  <2> QED BY <1>2, <1>5, <2>1 DEF StoreGraph, BuildSteps
<1>6. CASE StoreClean(t)
  <2>1. [cache EXCEPT !.dirty = FALSE] \in Caches
    BY <1>1
  <2> QED BY <1>1, <1>2, <1>6, <2>1 DEF StoreClean, BuildSteps
<1>7. CASE StoreDirected(t)
  <2>1. [cache EXCEPT !.directed = local[t].graph.directed] \in Caches
    BY <1>1
  <2>2. /\ pc' \in [Threads -> Steps] /\ local' \in [Threads -> Local]
        /\ \A u \in Threads : Holds(pc'[u], local'[u])
    <3>1. Goto(t, "found", local[t]) \/ Goto(t, "idle", Blank)
      BY <1>7 DEF StoreDirected, Return
    <3>2. "found" \in Steps /\ Holds("found", local[t])
      BY StepNames DEF FindSteps, Holds
    <3> QED BY <3>1, <3>2, GotoKeeps
  <2>3. /\ cache' \in Caches
        /\ UNCHANGED <<mix, rows, nodes, edges, rules, alone, raced>>
    BY <1>7, <2>1 DEF StoreDirected, tables
  <2> QED BY <2>2, <2>3, Zenon DEF TInv, TypeOK
<1> QED BY <1>3, <1>4, <1>5, <1>6, <1>7

LEMMA TraversedType ==
  ASSUME NEW E, NEW p
  PROVE  Traversed(E, p) \in [Ids -> Nat]
<1>1. ASSUME NEW n \in Ids
      PROVE  Cardinality({d \in 0..Hops : \A c \in 0..d :
               \A w \in Walks(E, p)[c] : w[1] # n}) \in Nat
  <2> DEFINE D == {d \in 0..Hops : \A c \in 0..d :
                     \A w \in Walks(E, p)[c] : w[1] # n}
  <2>1. IsFiniteSet(0..Hops) /\ D \subseteq 0..Hops
    BY HopsAssumption, FS_Interval
  <2> HIDE DEF D
  <2>2. IsFiniteSet(D)
    BY <2>1, FS_Subset
  <2>3. Cardinality(D) \in Nat
    BY <2>2, FS_CardinalityType
  <2> QED BY <2>3 DEF D
<1> QED BY <1>1 DEF Traversed

LEMMA NearerType ==
  ASSUME NEW d \in [Ids -> Nat], NEW e \in [Ids -> Nat]
  PROVE  NearerDepth(d, e) \in [Ids -> Nat]
  BY DEF NearerDepth

\* The steps of search_graph_ppr.
LEMMA FindStepTypes ==
  ASSUME TInv, NEW t \in Threads,
         Seeds(t) \/ Traverse(t) \/ Fetch(t) \/ Rank(t)
  PROVE  TInv'
<1> USE BlankType, BlankHolds, HeldType DEF Return
<1>0. {"traverse", "found"} \subseteq Steps
  BY StepNames DEF FindSteps
<1>1. CASE Seeds(t)
  <2> DEFINE l(S) == [local[t] EXCEPT
               !.ids = S, !.seeds = S,
               !.depth = [n \in Ids |-> IF n \in S THEN 0 ELSE @[n]]]
  <2>1. PICK S \in SUBSET (IF "node" \in rules THEN PK \cap mix.ids ELSE {}) :
          Goto(t, "idle", Blank) \/ Goto(t, "traverse", l(S))
    BY <1>1 DEF Seeds
  <2>2. S \in SUBSET Ids
    BY DEF Ids
  <2>3. [n \in Ids |-> IF n \in S THEN 0 ELSE local[t].depth[n]] \in [Ids -> Nat]
    BY DEF Local
  <2>4. l(S) \in Local
    BY <2>2, <2>3 DEF Local
  <2>5. Holds("traverse", l(S)) /\ Quiet
    BY <1>1 DEF Seeds, Holds
  <2> HIDE DEF l
  <2> QED BY <1>0, <2>1, <2>4, <2>5, QuietKeeps
<1>2. CASE Traverse(t)
  <2> DEFINE p == First(local[t].ids)
             d == NearerDepth(local[t].depth, Traversed(edges, p))
             l == [local[t] EXCEPT !.ids = @ \ {p},
                     !.depth = NearerDepth(@, Traversed(edges, p))]
  <2>1. d \in [Ids -> Nat]
    BY TraversedType, NearerType DEF Local
  <2>2. l = [[local[t] EXCEPT !.ids = local[t].ids \ {p}] EXCEPT !.depth = d]
    BY DEF Local
  <2>3. l \in Local
    BY <2>1, <2>2, LocalWith
  <2>4. Holds("traverse", l) /\ Goto(t, "traverse", l) /\ Quiet
    BY <1>2 DEF Traverse, Holds
  <2> HIDE DEF l
  <2> QED BY <1>0, <2>3, <2>4, QuietKeeps
<1>3. CASE Fetch(t)
  <2> DEFINE l == [local[t] EXCEPT !.graph = cache.graph]
  <2>1. l \in Local
    BY LocalWith DEF TInv, TypeOK
  <2>2. Holds("found", l)
    BY DEF Holds
  <2>3. \/ Goto(t, "found", l) /\ Quiet
        \/ Build(t, local[t])
    BY <1>3 DEF Fetch
  <2> HIDE DEF l
  <2> QED BY <1>0, <2>1, <2>2, <2>3, QuietKeeps, BuildKeeps
<1>4. CASE Rank(t)
  BY <1>4, QuietKeeps DEF Rank
<1> QED BY <1>1, <1>2, <1>3, <1>4

LEMMA TInvInit == Init => TInv
<1> SUFFICES ASSUME Init PROVE TInv
  OBVIOUS
<1>1. NoGraph \in [nodes : [Ids -> Node \cup {NoNode}], edges : SUBSET Edge,
                   directed : BOOLEAN]
  BY BlankType DEF Local, Blank
<1>2. pc \in [Threads -> Steps] /\ local \in [Threads -> Local]
  BY BlankType, BlankHolds DEF Init
<1>3. \A t \in Threads : Holds(pc[t], local[t])
  BY BlankHolds DEF Init
<1>4. /\ rows \in [PK -> Val \cup {NoRow}]
      /\ nodes \in [Ids -> Node \cup {NoNode}]
  BY DEF Init, NoRows, NoNodes
<1> QED BY <1>1, <1>2, <1>3, <1>4 DEF Init, TInv, TypeOK

LEMMA TInvNext == TInv /\ [Next]_vars => TInv'
<1> SUFFICES ASSUME TInv, [Next]_vars PROVE TInv'
  OBVIOUS
<1>1. CASE Restart
  <2>1. NoGraph \in [nodes : [Ids -> Node \cup {NoNode}], edges : SUBSET Edge,
                     directed : BOOLEAN]
    BY BlankType DEF Local, Blank
  <2>2. /\ pc' \in [Threads -> Steps] /\ local' \in [Threads -> Local]
        /\ \A t \in Threads : Holds(pc'[t], local'[t])
    BY <1>1, BlankType, BlankHolds DEF Restart
  <2>3. /\ cache' \in [graph : [nodes : [Ids -> Node \cup {NoNode}],
                                edges : SUBSET Edge, directed : BOOLEAN],
                       dirty : BOOLEAN, directed : BOOLEAN]
        /\ alone' \in [Threads -> BOOLEAN] /\ raced' \in BOOLEAN
    BY <1>1, <2>1 DEF Restart
  <2> QED BY <1>1, <2>2, <2>3, Zenon DEF Restart, tables, TInv, TypeOK
<1>2. ASSUME NEW t \in Threads, Call(t) PROVE TInv'
  BY <1>2, CallTypes
<1>3. ASSUME NEW t \in Threads, Continue(t) PROVE TInv'
  BY <1>3, WriteStepTypes, SyncStepTypes, DecayStepTypes, BuildStepTypes,
         FindStepTypes
     DEF Continue
<1>4. CASE UNCHANGED vars
  BY <1>4, Zenon DEF vars, tables, TInv, TypeOK
<1> QED BY <1>1, <1>2, <1>3, <1>4 DEF Next

\* Whatever threads do, every variable has its type, and every thread holds
\* what its next step works on.
THEOREM GraphTypes == Spec => []TypeOK
<1>1. TInv => TypeOK
  BY DEF TInv
<1> QED BY <1>1, TInvInit, TInvNext, PTL DEF Spec

-----------------------------------------------------------------------------
(***************************************************************************)
(* Kinds of steps: those that commit to the graph, those that mark the     *)
(* cache and are about to write, those that only move a thread, those of a *)
(* build, and those that touch neither graph, cache nor thread.            *)
(***************************************************************************)
Commits(t) ==
  \/ AddNodes(t) \/ MergeNode(t) \/ DeleteNode(t)
  \/ AddEdge(t) \/ WriteEdge(t) \/ DeleteEdge(t)
  \/ SyncWrite(t) \/ SyncGhost(t) \/ RuleEdge(t) \/ DecayEdge(t) \/ Prune(t)

Marks(t) == \E step \in WriteSteps : \E l : StartWrite(t, step, l)

Moves(t) ==
  /\ ~Building(t) /\ UNCHANGED <<nodes, edges, cache, raced>>
  /\ \E step \in Steps \ BuildSteps : \E l :
       Goto(t, step, l) /\ (step \in WriteSteps => Writing(t))

Builds(t) ==
  \/ ~Building(t) /\ ~Writing(t) /\ \E l : Build(t, l)
  \/ BuildNodes(t) \/ BuildEdges(t) \/ StoreGraph(t)
  \/ StoreClean(t) \/ StoreDirected(t)

Elsewhere == UNCHANGED <<nodes, edges, cache, pc, local, raced>>

LEMMA CallKinds ==
  ASSUME TInv, NEW t \in Threads, Call(t)
  PROVE  Marks(t) \/ Moves(t) \/ Builds(t) \/ Restore(t) \/ Elsewhere
<1>1. ASSUME NEW p, NEW v, PutRow(t, p, v)
      PROVE  Elsewhere
  BY <1>1 DEF PutRow, Elsewhere
<1>2. ASSUME NEW rule, Register(t, rule)
      PROVE  Elsewhere
  BY <1>2 DEF Register, tables, Elsewhere
<1>3. CASE NodeOp(t)
  BY <1>3 DEF NodeOp, StartAddNodes, StartDeleteNode, StartUpdateNode, Marks,
              WriteSteps
<1>4. CASE EdgeOp(t)
  BY <1>4 DEF EdgeOp, StartAddEdge, StartDeleteEdge, StartUpdateEdge, Marks,
              WriteSteps
<1>5. ASSUME NEW op, StartSync(t, op)
      PROVE  Moves(t)
  <2>1. \E step \in {"sync_row", "join"} : \E l : Goto(t, step, l)
    BY <1>5 DEF StartSync
  <2>2. pc[t] = "idle" /\ UNCHANGED <<nodes, edges, cache, raced>>
    BY <1>5 DEF StartSync, Begin, tables
  <2> QED BY <2>1, <2>2 DEF Moves, Steps, SyncSteps, BuildSteps, WriteSteps, Building
<1>6. CASE StartDecay(t)
  BY <1>6 DEF StartDecay, Marks, WriteSteps
<1>7. ASSUME NEW directed, StartBuild(t, directed)
      PROVE  Builds(t)
  BY <1>7 DEF StartBuild, Begin, Builds, Building, Writing, BuildSteps,
              WriteSteps
<1> QED BY <1>1, <1>2, <1>3, <1>4, <1>5, <1>6, <1>7 DEF Call

LEMMA ContinueKinds ==
  ASSUME TInv, NEW t \in Threads, Continue(t)
  PROVE  Commits(t) \/ Marks(t) \/ Moves(t) \/ Builds(t)
<1>0. Quiet => UNCHANGED <<nodes, edges, cache, raced>>
  BY DEF Quiet, tables
<1> USE DEF Moves, Steps, SyncSteps, BuildSteps, FindSteps, WriteSteps, Return,
           Writing, Building
<1>1. ASSUME UpdateNode(t) PROVE Moves(t)
  <2>1. \E step \in {"idle", "merge_node"} : \E l : Goto(t, step, l)
    BY <1>1 DEF UpdateNode
  <2> QED BY <1>0, <1>1, <2>1 DEF UpdateNode
<1>2. ASSUME SyncRow(t) PROVE Marks(t) \/ Moves(t)
  <2>1. /\ pc[t] = "sync_row"
        /\ \/ \E l : Goto(t, "sync_row", l) /\ Quiet
           \/ \E step \in {"sync_add", "sync_update"} :
                StartWrite(t, step, local[t])
    BY <1>2 DEF SyncRow
  <2> QED BY <1>0, <2>1 DEF Marks
<1>3. ASSUME Ghosts(t) PROVE Moves(t)
  BY <1>0, <1>3 DEF Ghosts
<1>4. ASSUME Ghost(t) PROVE Marks(t)
  BY <1>4 DEF Ghost, Marks
<1>5. ASSUME NodesSynced(t) PROVE Moves(t)
  <2>1. \E step \in {"idle", "join"} : \E l : Goto(t, step, l)
    BY <1>5 DEF NodesSynced
  <2> QED BY <1>0, <1>5, <2>1 DEF NodesSynced
<1>6. ASSUME Join(t) PROVE Moves(t)
  BY <1>0, <1>6 DEF Join
<1>7. ASSUME Pair(t) PROVE Marks(t)
  BY <1>7 DEF Pair, Marks
<1>8. ASSUME EdgesSynced(t) PROVE Marks(t) \/ Moves(t)
  <2>1. /\ pc[t] = "pair"
        /\ \/ StartWrite(t, "decay_read", Does("reconcile"))
           \/ \E step \in {"seeds", "idle"} : \E l : Goto(t, step, l) /\ Quiet
    BY <1>8 DEF EdgesSynced
  <2> QED BY <1>0, <2>1 DEF Marks
<1>9. ASSUME DecayRead(t) PROVE Moves(t)
  BY <1>0, <1>9 DEF DecayRead
<1>10. ASSUME Decay(t) PROVE Marks(t)
  BY <1>10 DEF Decay, Marks
<1>11. ASSUME DecayDone(t) PROVE Moves(t)
  <2>1. \E step \in {"idle", "prune"} : \E l : Goto(t, step, l)
    BY <1>11 DEF DecayDone
  <2> QED BY <1>0, <1>11, <2>1 DEF DecayDone
<1>12. ASSUME Seeds(t) \/ Traverse(t) \/ Rank(t) PROVE Moves(t)
  <2>1. /\ pc[t] \in FindSteps /\ Quiet
        /\ \E step \in {"idle", "traverse"} : \E l : Goto(t, step, l)
    BY <1>12 DEF Seeds, Traverse, Rank
  <2> QED BY <1>0, <2>1
<1>13. ASSUME Fetch(t) PROVE Moves(t) \/ Builds(t)
  <2>1. /\ pc[t] = "traverse"
        /\ \/ \E l : Goto(t, "found", l) /\ Quiet
           \/ Build(t, local[t])
    BY <1>13 DEF Fetch
  <2> QED BY <1>0, <2>1 DEF Builds
<1> HIDE DEF Moves
<1> QED BY <1>1, <1>2, <1>3, <1>4, <1>5, <1>6, <1>7, <1>8, <1>9, <1>10, <1>11,
           <1>12, <1>13
        DEF Continue, Commits, Builds

-----------------------------------------------------------------------------
(***************************************************************************)
(* Edges.                                                                  *)
(***************************************************************************)
LEMMA DeleteSound ==
  ASSUME TInv, EdgesSound, NEW t, NEW n, Delete(t, n)
  PROVE  EdgesSound'
<1>1. nodes' = [nodes EXCEPT ![n] = NoNode] /\ edges' = EdgesWithout(n)
  BY DEF Delete, Write
<1>2. edges' \subseteq edges /\ \A e \in edges' : e.src # n /\ e.tgt # n
  BY <1>1 DEF EdgesWithout
<1>3. \A e \in edges' : nodes'[e.src] = nodes[e.src] /\ nodes'[e.tgt] = nodes[e.tgt]
  BY <1>1, <1>2 DEF TInv, TypeOK
<1> QED BY <1>2, <1>3 DEF EdgesSound, HasEnds

LEMMA ReplacedSound ==
  ASSUME EdgesSound, NEW e, HasEnds(e), UNCHANGED nodes,
         edges' = Replaced(edges, e)
  PROVE  EdgesSound'
<1>1. \A f \in edges' : nodes'[f.src] # NoNode /\ nodes'[f.tgt] # NoNode
  BY DEF EdgesSound, HasEnds, Replaced
<1>2. ASSUME NEW f \in edges', NEW g \in edges',
             f.id = g.id \/ <<f.src, f.tgt>> = <<g.src, g.tgt>>
      PROVE  f = g
  BY <1>2 DEF EdgesSound, Replaced
<1> QED BY <1>1, <1>2 DEF EdgesSound, HasEnds

LEMMA SoundNext ==
  ASSUME TInv, EdgesSound, [Next]_vars
  PROVE  EdgesSound'
<1>0. UNCHANGED <<nodes, edges>> => EdgesSound'
  BY DEF EdgesSound, HasEnds
<1>1. ASSUME NEW t \in Threads, AddNodes(t) PROVE EdgesSound'
  <2> DEFINE fresh == [source |-> "inferred", label |-> NoRow, props |-> {}]
  <2>1. fresh # NoNode
    <3>1. fresh \in Node
      BY DEF Node, Source, Label
    <3> QED BY <3>1, NoNodeAssumption
  <2>2. /\ edges' = edges
        /\ nodes' = [n \in Ids |-> IF n \in local[t].ids THEN fresh ELSE nodes[n]]
    BY <1>1 DEF AddNodes, Write
  <2>3. \A e \in edges : e.src \in Ids /\ e.tgt \in Ids
    BY DEF TInv, TypeOK, Edge
  <2> HIDE DEF fresh
  <2> QED BY <2>1, <2>2, <2>3 DEF EdgesSound, HasEnds
<1>2. ASSUME NEW t \in Threads, MergeNode(t) PROVE EdgesSound'
  <2>1. /\ edges' = edges
        /\ nodes' = [n \in Ids |->
             IF n \in local[t].ids /\ nodes[n] # NoNode
             THEN [nodes[n] EXCEPT !.props = local[t].node.props] ELSE nodes[n]]
    BY <1>2 DEF MergeNode, Write
  <2>2. ASSUME NEW n \in Ids, nodes[n] # NoNode PROVE nodes'[n] # NoNode
    <3>1. nodes[n] \in Node /\ local[t].node \in Node
      BY <1>2, <2>2, HoldsNode DEF TInv, TypeOK, MergeNode
    <3>2. [nodes[n] EXCEPT !.props = local[t].node.props] \in Node
      BY <3>1 DEF Node
    <3> QED BY <2>1, <2>2, <3>2, NoNodeAssumption
  <2>3. \A e \in edges : e.src \in Ids /\ e.tgt \in Ids
    BY DEF TInv, TypeOK, Edge
  <2> QED BY <2>1, <2>2, <2>3 DEF EdgesSound, HasEnds
<1>3. ASSUME NEW t \in Threads, DeleteNode(t) PROVE EdgesSound'
  BY <1>3, DeleteSound DEF DeleteNode
<1>4. ASSUME NEW t \in Threads, AddEdge(t) PROVE EdgesSound'
  <2>1. PICK e \in local[t].edges :
          IF HasEnds(e) THEN Write(t, nodes, Replaced(edges, e)) ELSE Quiet
    BY <1>4 DEF AddEdge
  <2> QED BY <1>0, <2>1, ReplacedSound DEF Write, Quiet, tables
<1>5. ASSUME NEW t \in Threads, WriteEdge(t) PROVE EdgesSound'
  <2> DEFINE U(x, e) == IF x.id = e.id THEN Updated(x, e, local[t].op) ELSE x
  <2>1. PICK e \in local[t].edges :
          IF CanUpdate(e, local[t].op)
          THEN Write(t, nodes, {U(x, e) : x \in edges})
          ELSE Quiet
    BY <1>5 DEF WriteEdge
  <2>2. CASE ~CanUpdate(e, local[t].op)
    BY <1>0, <2>1, <2>2 DEF Quiet, tables
  <2>3. CASE CanUpdate(e, local[t].op)
    <3>1. nodes' = nodes /\ edges' = {U(x, e) : x \in edges}
      BY <2>1, <2>3 DEF Write
    <3>2. local[t].op \in {"weight", "valid_until", "target_id"}
      BY <1>5 DEF WriteEdge, TInv, Holds
    <3>3. ASSUME NEW x \in edges
          PROVE  /\ U(x, e).id = x.id /\ U(x, e).src = x.src
                 /\ IF local[t].op = "target_id" /\ x.id = e.id
                    THEN U(x, e).tgt = e.tgt ELSE U(x, e).tgt = x.tgt
      <4>1. x \in Edge
        BY DEF TInv, TypeOK
      <4> QED BY <3>2, <4>1 DEF Updated, Edge
    <3> HIDE DEF U
    <3>4. \A x \in edges : nodes'[U(x, e).src] # NoNode /\ nodes'[U(x, e).tgt] # NoNode
      BY <2>3, <3>1, <3>3 DEF EdgesSound, HasEnds, CanUpdate
    <3>5. ASSUME NEW x \in edges, NEW y \in edges,
                 \/ U(x, e).id = U(y, e).id
                 \/ /\ U(x, e).src = U(y, e).src
                    /\ U(x, e).tgt = U(y, e).tgt
          PROVE  x = y
      <4>1. CASE U(x, e).id = U(y, e).id
        BY <3>3, <4>1 DEF EdgesSound
      <4>2. CASE U(x, e).src = U(y, e).src /\ U(x, e).tgt = U(y, e).tgt
        <5>1. x.src = y.src
          BY <3>3, <4>2
        <5>2. CASE local[t].op # "target_id"
          BY <3>3, <4>2, <5>1, <5>2 DEF EdgesSound
        <5>3. CASE local[t].op = "target_id"
          <6>1. \A v, w \in edges : v.id = e.id /\ w.src = v.src /\ w.tgt = e.tgt
                                      => w.id = v.id
            BY <2>3, <5>3 DEF CanUpdate
          <6>2. x.id = e.id /\ y.id # e.id => y.tgt = e.tgt
            BY <3>3, <4>2, <5>3
          <6>3. y.id = e.id /\ x.id # e.id => x.tgt = e.tgt
            BY <3>3, <4>2, <5>3
          <6>4. x.id = e.id <=> y.id = e.id
            BY <5>1, <6>1, <6>2, <6>3
          <6>5. x.id # e.id => x.tgt = y.tgt
            BY <3>3, <4>2, <6>4
          <6> QED BY <5>1, <6>4, <6>5 DEF EdgesSound
        <5> QED BY <5>2, <5>3
      <4> QED BY <3>5, <4>1, <4>2
    <3> QED BY <3>1, <3>4, <3>5 DEF EdgesSound, HasEnds
  <2> QED BY <2>2, <2>3
<1>6. ASSUME NEW t \in Threads, DeleteEdge(t) PROVE EdgesSound'
  BY <1>6 DEF DeleteEdge, Write, EdgesSound, HasEnds
<1>7. ASSUME NEW t \in Threads, SyncWrite(t) PROVE EdgesSound'
  <2> DEFINE p == First(local[t].ids)
             v == local[t].rows[p]
  <2>1. /\ edges' = edges
        /\ nodes' = [nodes EXCEPT ![p] =
             IF pc[t] = "sync_add" THEN Rendered(v)
             ELSE IF @ = NoNode THEN NoNode
             ELSE [@ EXCEPT !.source = "auto_sync", !.label = v]]
    BY <1>7 DEF SyncWrite, Write
  <2>2. v \in Val \cup {NoRow}
    BY <1>7, FirstIn, HeldType DEF SyncWrite, Holds
  <2>3. Rendered(v) # NoNode
    BY <2>2, RenderedType, NoNodeAssumption
  <2>4. \A n \in Node : [n EXCEPT !.source = "auto_sync", !.label = v] # NoNode
    <3>1. \A n \in Node : [n EXCEPT !.source = "auto_sync", !.label = v] \in Node
      BY <2>2 DEF Node, Source, Label
    <3> QED BY <3>1, NoNodeAssumption
  <2>5. nodes \in [Ids -> Node \cup {NoNode}]
    BY DEF TInv, TypeOK
  <2> HIDE DEF p, v
  <2>6. \A n \in Ids : nodes[n] # NoNode => nodes'[n] # NoNode
    BY <2>1, <2>3, <2>4, <2>5
  <2>7. \A e \in edges : e.src \in Ids /\ e.tgt \in Ids
    BY DEF TInv, TypeOK, Edge
  <2> QED BY <2>1, <2>6, <2>7 DEF EdgesSound, HasEnds
<1>8. ASSUME NEW t \in Threads, SyncGhost(t) PROVE EdgesSound'
  BY <1>8, DeleteSound DEF SyncGhost
<1>9. ASSUME NEW t \in Threads, RuleEdge(t) PROVE EdgesSound'
  <2> DEFINE e == NewEdge(First(local[t].ids), local[t].rows[First(local[t].ids)],
                          DefaultWeight, FALSE)
  <2>1. \/ HasEnds(e) /\ Write(t, nodes, Replaced(edges, e))
        \/ Quiet
    BY <1>9 DEF RuleEdge
  <2> HIDE DEF e
  <2> QED BY <1>0, <2>1, ReplacedSound DEF Write, Quiet, tables
<1>10. ASSUME NEW t \in Threads, DecayEdge(t) PROVE EdgesSound'
  <2> DEFINE e == First(local[t].edges)
             w == e.weight - DecayStep
  <2>1. nodes' = nodes /\ edges' = Decayed(edges, e)
    BY <1>10 DEF DecayEdge, Write
  <2>2. CASE w <= Floor
    <3>1. edges' \subseteq edges
      BY <2>1, <2>2 DEF Decayed
    <3> QED BY <2>1, <3>1 DEF EdgesSound, HasEnds
  <2>3. CASE ~(w <= Floor)
    <3> DEFINE U(x) == IF x.id = e.id THEN [x EXCEPT !.weight = w] ELSE x
    <3>1. edges' = {U(x) : x \in edges}
      BY <2>1, <2>3 DEF Decayed
    <3>2. \A x \in edges : x \in Edge
      BY DEF TInv, TypeOK
    <3> HIDE DEF w, e
    <3>3. \A x \in edges :
            U(x).id = x.id /\ U(x).src = x.src /\ U(x).tgt = x.tgt
      BY <3>2 DEF Edge
    <3> HIDE DEF U
    <3> QED BY <2>1, <3>1, <3>3 DEF EdgesSound, HasEnds
  <2> QED BY <2>2, <2>3
<1>11. ASSUME NEW t \in Threads, Prune(t) PROVE EdgesSound'
  BY <1>11 DEF Prune, Write, EdgesSound, HasEnds
<1>12. ASSUME NEW t \in Threads, Commits(t) PROVE EdgesSound'
  BY <1>1, <1>2, <1>3, <1>4, <1>5, <1>6, <1>7, <1>8, <1>9, <1>10, <1>11, <1>12
     DEF Commits
<1>13. ASSUME NEW t \in Threads, Marks(t) PROVE EdgesSound'
  BY <1>0, <1>13 DEF Marks, StartWrite, tables
<1>14. ASSUME NEW t \in Threads, Moves(t) PROVE EdgesSound'
  BY <1>0, <1>14 DEF Moves
<1>15. ASSUME NEW t \in Threads, Builds(t) PROVE EdgesSound'
  BY <1>0, <1>15 DEF Builds, Build, BuildNodes, BuildEdges, StoreGraph,
                     StoreClean, StoreDirected, BuildStep, tables
<1>16. ASSUME NEW t \in Threads, Restore(t) PROVE EdgesSound'
  BY <1>16 DEF Restore, EdgesSound
<1>17. Elsewhere => EdgesSound'
  BY <1>0 DEF Elsewhere
<1>18. CASE Restart
  BY <1>0, <1>18 DEF Restart, tables
<1>19. CASE UNCHANGED vars
  BY <1>0, <1>19 DEF vars, tables
<1> QED BY <1>12, <1>13, <1>14, <1>15, <1>16, <1>17, <1>18, <1>19, CallKinds,
           ContinueKinds DEF Next

\* Whatever interleaves, an edge has both its ends, and neither its name nor
\* its pair of ends is taken twice: ON DELETE CASCADE, INSERT OR REPLACE and
\* the constraints on UPDATE are enough.
THEOREM EdgesStaySound == Spec => []EdgesSound
<1>1. Init => EdgesSound
  BY DEF Init, EdgesSound
<1>2. TInv /\ EdgesSound /\ [Next]_vars => (TInv /\ EdgesSound)'
  BY TInvNext, SoundNext
<1> QED BY <1>1, <1>2, TInvInit, PTL DEF Spec

-----------------------------------------------------------------------------
(***************************************************************************)
(* The networkx cache.                                                     *)
(***************************************************************************)
\* As long as nothing has overlapped a build, there is no build beside a write
\* or another build, and a write keeps the cache dirty until it has committed.
Apart ==
  ~raced =>
    /\ \A t, u \in Threads :
         Building(t) /\ (Building(u) \/ Writing(u)) => t = u
    /\ \A t \in Threads : Writing(t) => cache.dirty

\* What a build holds and what it has stored.
BuildSees(t) ==
  LET graph == local[t].graph IN
  /\ pc[t] \in {"nx_edges", "nx_graph"} => graph.nodes = nodes
  /\ pc[t] = "nx_graph" => graph.edges = edges
  /\ pc[t] \in {"nx_clean", "nx_directed"} =>
       /\ cache.graph.nodes = nodes /\ cache.graph.edges = edges
       /\ cache.graph.directed = graph.directed
       /\ local[t].op = "ppr" => graph.nodes = nodes

CInv ==
  /\ TInv /\ Apart /\ CacheCurrent
  /\ ~raced => \A t \in Threads : BuildSees(t)

LEMMA StepKinds ==
  /\ \A step \in WriteSteps : step \notin BuildSteps
  /\ {"idle", "found"} \cap (WriteSteps \cup BuildSteps) = {}
  BY DEF WriteSteps, BuildSteps

LEMMA CInvInit == Init => CInv
<1> SUFFICES ASSUME Init PROVE CInv
  OBVIOUS
<1>1. \A t \in Threads : pc[t] = "idle"
  BY DEF Init
<1>2. ~raced => \A t \in Threads : BuildSees(t)
  BY <1>1 DEF BuildSees
<1>3. Apart /\ CacheCurrent
  BY <1>1, StepKinds DEF Apart, CacheCurrent, Building, Writing, Init
<1> QED BY <1>2, <1>3, TInvInit DEF CInv

\* A commit to the graph ends a write, or prepares the next.
LEMMA CommitKind ==
  ASSUME TInv, NEW t \in Threads, Commits(t)
  PROVE  /\ Writing(t) /\ UNCHANGED <<cache, raced>>
         /\ \E step \in {"idle", "sync_row", "ghost", "pair", "decay"} : \E l :
              Goto(t, step, l)
<1> USE DEF Return, Writing, WriteSteps, Write, Quiet, tables
<1>1. ASSUME AddNodes(t) \/ MergeNode(t) \/ DeleteNode(t) \/ DeleteEdge(t)
               \/ Prune(t)
      PROVE  Writing(t) /\ UNCHANGED <<cache, raced>> /\ Goto(t, "idle", Blank)
  BY <1>1 DEF AddNodes, MergeNode, DeleteNode, Delete, DeleteEdge, Prune
<1>2. ASSUME AddEdge(t) \/ WriteEdge(t)
      PROVE  Writing(t) /\ UNCHANGED <<cache, raced>> /\ Goto(t, "idle", Blank)
  BY <1>2 DEF AddEdge, WriteEdge
<1>3. ASSUME SyncWrite(t)
      PROVE  /\ Writing(t) /\ UNCHANGED <<cache, raced>>
             /\ \E l : Goto(t, "sync_row", l)
  BY <1>3 DEF SyncWrite
<1>4. ASSUME SyncGhost(t)
      PROVE  /\ Writing(t) /\ UNCHANGED <<cache, raced>>
             /\ \E l : Goto(t, "ghost", l)
  BY <1>4 DEF SyncGhost, Delete
<1>5. ASSUME RuleEdge(t)
      PROVE  /\ Writing(t) /\ UNCHANGED <<cache, raced>>
             /\ \E l : Goto(t, "pair", l)
  BY <1>5 DEF RuleEdge
<1>6. ASSUME DecayEdge(t)
      PROVE  /\ Writing(t) /\ UNCHANGED <<cache, raced>>
             /\ \E l : Goto(t, "decay", l)
  BY <1>6 DEF DecayEdge
<1> QED BY <1>1, <1>2, <1>3, <1>4, <1>5, <1>6 DEF Commits

LEMMA GotoMoves ==
  ASSUME TInv, NEW t \in Threads, NEW step, NEW l, Goto(t, step, l)
  PROVE  /\ pc'[t] = step /\ local'[t] = l
         /\ \A u \in Threads \ {t} : pc'[u] = pc[u] /\ local'[u] = local[u]
  BY DEF Goto, TInv, TypeOK

LEMMA BuildsKeep ==
  ASSUME CInv, TInv', NEW t \in Threads, Builds(t)
  PROVE  CInv'
<1>0. TInv /\ UNCHANGED <<nodes, edges>>
  BY DEF CInv, Builds, Build, BuildNodes, BuildEdges, StoreGraph,
         StoreClean, StoreDirected, BuildStep, tables
<1>1. cache \in [graph : [nodes : [Ids -> Node \cup {NoNode}],
                          edges : SUBSET Edge, directed : BOOLEAN],
                 dirty : BOOLEAN, directed : BOOLEAN]
      /\ local[t].graph \in [nodes : [Ids -> Node \cup {NoNode}],
                             edges : SUBSET Edge, directed : BOOLEAN]
      /\ local[t] \in Local
  BY <1>0, HeldType DEF TInv, TypeOK, Local
<1>2. ASSUME NEW step, NEW l, Goto(t, step, l), step \in BuildSteps \cup {"idle", "found"}
      PROVE  /\ pc'[t] = step /\ local'[t] = l
             /\ \A u \in Threads \ {t} :
                  /\ pc'[u] = pc[u] /\ local'[u] = local[u]
                  /\ Building(u)' <=> Building(u)
                  /\ Writing(u)' <=> Writing(u)
             /\ ~Writing(t)'
  BY <1>0, <1>2, GotoMoves, StepKinds DEF Building, Writing
<1>3. ASSUME NEW l, Build(t, l), ~Building(t), ~Writing(t) PROVE CInv'
  <2>1. Goto(t, "nx_nodes", l)
    BY <1>3 DEF Build
  <2>2. /\ pc[t] \notin BuildSteps /\ pc'[t] = "nx_nodes" /\ ~Writing(t)'
        /\ \A u \in Threads \ {t} :
             /\ pc'[u] = pc[u] /\ local'[u] = local[u]
             /\ Building(u)' <=> Building(u)
             /\ Writing(u)' <=> Writing(u)
    BY <1>2, <1>3, <2>1 DEF Building, BuildSteps
  <2>3. /\ cache' = cache
        /\ ~raced' => /\ ~raced
                      /\ \A u \in Threads \ {t} : ~Writing(u) /\ ~Building(u)
    BY <1>3 DEF Build
  <2>4. Apart'
    BY <2>2, <2>3 DEF Apart
  <2>5. ~raced' => \A u \in Threads : BuildSees(u)'
    BY <1>0, <2>2, <2>3 DEF BuildSees, CInv
  <2>6. CacheCurrent'
    BY <1>0, <2>2, <2>3 DEF CInv, CacheCurrent, BuildSteps
  <2> QED BY <2>4, <2>5, <2>6 DEF CInv
<1>4. ASSUME Building(t), raced' = raced, ~raced,
             \A u \in Threads \ {t} :
               /\ pc'[u] = pc[u] /\ local'[u] = local[u]
               /\ Building(u)' <=> Building(u)
               /\ Writing(u)' <=> Writing(u),
             ~Writing(t)', BuildSees(t)', CacheCurrent'
      PROVE  CInv'
  <2>1. \A u \in Threads \ {t} : ~Building(u) /\ ~Writing(u)
    BY <1>4 DEF CInv, Apart
  <2>2. Apart'
    BY <1>4, <2>1 DEF Apart
  <2>3. \A u \in Threads \ {t} : BuildSees(u)'
    BY <1>4, <2>1 DEF BuildSees, Building, BuildSteps
  <2> QED BY <1>4, <2>2, <2>3 DEF CInv
<1>5. ASSUME NEW step \in BuildSteps, NEW next \in BuildSteps, NEW g, NEW c,
             BuildStep(t, step, next, g, c)
      PROVE  /\ Building(t) /\ raced' = raced /\ cache' = c
             /\ pc[t] = step /\ pc'[t] = next
             /\ local'[t] = [local[t] EXCEPT !.graph = g]
             /\ local'[t].graph = g /\ local'[t].op = local[t].op
             /\ \A u \in Threads \ {t} :
                  /\ pc'[u] = pc[u] /\ local'[u] = local[u]
                  /\ Building(u)' <=> Building(u)
                  /\ Writing(u)' <=> Writing(u)
             /\ ~Writing(t)'
  <2>1. Goto(t, next, [local[t] EXCEPT !.graph = g])
    BY <1>5 DEF BuildStep
  <2>2. /\ [local[t] EXCEPT !.graph = g].graph = g
        /\ [local[t] EXCEPT !.graph = g].op = local[t].op
    BY <1>1 DEF Local
  <2> QED BY <1>2, <1>5, <2>1, <2>2 DEF BuildStep, Building
<1>6. CASE BuildNodes(t)
  <2> DEFINE g == [local[t].graph EXCEPT !.nodes = nodes]
  <2>1. BuildStep(t, "nx_nodes", "nx_edges", g, cache)
    BY <1>6 DEF BuildNodes
  <2>2. g.nodes = nodes
    BY <1>1
  <2> HIDE DEF g
  <2>3. /\ BuildSees(t)'
        /\ ~raced => CacheCurrent'
    <3>1. /\ pc[t] = "nx_nodes" /\ pc'[t] = "nx_edges" /\ cache' = cache
          /\ local'[t].graph = g
      <4>1. "nx_nodes" \in BuildSteps /\ "nx_edges" \in BuildSteps
        BY DEF BuildSteps
      <4> QED BY <1>5, <2>1, <4>1
    <3>2. BuildSees(t)'
      BY <1>0, <2>2, <3>1 DEF BuildSees
    <3>3. ~raced => CacheCurrent'
      <4>1. \A u \in Threads : u # t => pc'[u] = pc[u]
        BY <1>5, <2>1 DEF BuildSteps
      <4>2. \A u \in Threads :
              pc[u] \in {"nx_clean", "nx_directed"} => pc'[u] = pc[u]
        BY <3>1, <4>1
      <4> QED BY <1>0, <3>1, <4>2 DEF CInv, CacheCurrent
    <3> QED BY <3>2, <3>3
  <2>4. CASE raced
    BY <1>5, <2>1, <2>4 DEF CInv, Apart, CacheCurrent, BuildSteps
  <2> QED BY <1>4, <1>5, <2>1, <2>3, <2>4 DEF BuildSteps
<1>7. CASE BuildEdges(t)
  <2> DEFINE g == [local[t].graph EXCEPT !.edges = edges]
  <2>1. BuildStep(t, "nx_edges", "nx_graph", g, cache)
    BY <1>7 DEF BuildEdges
  <2>2. g.nodes = local[t].graph.nodes /\ g.edges = edges
    BY <1>1
  <2> HIDE DEF g
  <2>3. ~raced => BuildSees(t)' /\ CacheCurrent'
    <3>1. /\ pc[t] = "nx_edges" /\ pc'[t] = "nx_graph" /\ cache' = cache
          /\ local'[t].graph = g
      <4>1. "nx_edges" \in BuildSteps /\ "nx_graph" \in BuildSteps
        BY DEF BuildSteps
      <4> QED BY <1>5, <2>1, <4>1
    <3>2. ~raced => local[t].graph.nodes = nodes
      BY <3>1 DEF CInv, BuildSees
    <3>3. ~raced => BuildSees(t)'
      BY <1>0, <2>2, <3>1, <3>2 DEF BuildSees
    <3>4. ~raced => CacheCurrent'
      <4>1. \A u \in Threads : u # t => pc'[u] = pc[u]
        BY <1>5, <2>1 DEF BuildSteps
      <4>2. \A u \in Threads :
              pc[u] \in {"nx_clean", "nx_directed"} => pc'[u] = pc[u]
        BY <3>1, <4>1
      <4> QED BY <1>0, <3>1, <4>2 DEF CInv, CacheCurrent
    <3> QED BY <3>3, <3>4
  <2>4. CASE raced
    BY <1>5, <2>1, <2>4 DEF CInv, Apart, CacheCurrent, BuildSteps
  <2> QED BY <1>4, <1>5, <2>1, <2>3, <2>4 DEF BuildSteps
<1>8. CASE StoreGraph(t)
  <2> DEFINE g == IF local[t].op = "ppr" THEN local[t].graph
                  ELSE [NoGraph EXCEPT !.directed = local[t].graph.directed]
             c == [cache EXCEPT !.graph = local[t].graph]
  <2>1. BuildStep(t, "nx_graph", "nx_clean", g, c)
    BY <1>8 DEF StoreGraph
  <2>2. /\ g.directed = local[t].graph.directed
        /\ local[t].op = "ppr" => g = local[t].graph
        /\ c.graph = local[t].graph
    BY <1>1 DEF NoGraph, GraphOf
  <2> HIDE DEF g, c
  <2>3. ~raced => BuildSees(t)' /\ CacheCurrent'
    <3>1. /\ pc[t] = "nx_graph" /\ pc'[t] = "nx_clean" /\ cache' = c
          /\ local'[t].graph = g /\ local'[t].op = local[t].op
      <4>1. "nx_graph" \in BuildSteps /\ "nx_clean" \in BuildSteps
        BY DEF BuildSteps
      <4> QED BY <1>5, <2>1, <4>1
    <3>2. ~raced => /\ local[t].graph.nodes = nodes
                    /\ local[t].graph.edges = edges
      BY <3>1 DEF CInv, BuildSees
    <3>3. ~raced => BuildSees(t)'
      BY <1>0, <2>2, <3>1, <3>2 DEF BuildSees
    <3> QED BY <1>0, <2>2, <3>1, <3>2, <3>3 DEF CacheCurrent
  <2>4. CASE raced
    BY <1>5, <2>1, <2>4 DEF CInv, Apart, CacheCurrent, BuildSteps
  <2> QED BY <1>4, <1>5, <2>1, <2>3, <2>4 DEF BuildSteps
<1>9. CASE StoreClean(t)
  <2> DEFINE c == [cache EXCEPT !.dirty = FALSE]
  <2>1. BuildStep(t, "nx_clean", "nx_directed", local[t].graph, c)
    BY <1>9 DEF StoreClean
  <2>2. c.graph = cache.graph
    BY <1>1
  <2> HIDE DEF c
  <2>3. ~raced => BuildSees(t)' /\ CacheCurrent'
    <3>1. /\ pc[t] = "nx_clean" /\ pc'[t] = "nx_directed" /\ cache' = c
          /\ local'[t].graph = local[t].graph /\ local'[t].op = local[t].op
      <4>1. "nx_clean" \in BuildSteps /\ "nx_directed" \in BuildSteps
        BY DEF BuildSteps
      <4> QED BY <1>5, <2>1, <4>1
    <3>2. ~raced => /\ cache.graph.nodes = nodes /\ cache.graph.edges = edges
                    /\ cache.graph.directed = local[t].graph.directed
                    /\ local[t].op = "ppr" => local[t].graph.nodes = nodes
      BY <3>1 DEF CInv, BuildSees
    <3> QED BY <1>0, <2>2, <3>1, <3>2 DEF BuildSees, CacheCurrent
  <2>4. CASE raced
    BY <1>5, <2>1, <2>4 DEF CInv, Apart, CacheCurrent, BuildSteps
  <2> QED BY <1>4, <1>5, <2>1, <2>3, <2>4 DEF BuildSteps
<1>10. CASE StoreDirected(t)
  <2>1. /\ pc[t] = "nx_directed" /\ Building(t) /\ raced' = raced
        /\ \E step \in {"idle", "found"} : \E l : Goto(t, step, l)
        /\ cache' = [cache EXCEPT !.directed = local[t].graph.directed]
    BY <1>10 DEF StoreDirected, Return, Building, BuildSteps
  <2>2. /\ cache'.graph = cache.graph /\ cache'.dirty = cache.dirty
        /\ cache'.directed = local[t].graph.directed
    BY <1>1, <2>1
  <2>3. /\ pc'[t] \in {"idle", "found"}
        /\ \A u \in Threads \ {t} :
             /\ pc'[u] = pc[u] /\ local'[u] = local[u]
             /\ Building(u)' <=> Building(u)
             /\ Writing(u)' <=> Writing(u)
        /\ ~Writing(t)'
    BY <1>2, <2>1
  <2>4. ~raced => BuildSees(t)' /\ CacheCurrent'
    BY <1>0, <2>1, <2>2, <2>3 DEF BuildSees, CacheCurrent, CInv
  <2>5. CASE raced
    BY <2>1, <2>5 DEF CInv, Apart, CacheCurrent
  <2> QED BY <1>4, <2>1, <2>3, <2>4, <2>5
<1> QED BY <1>3, <1>6, <1>7, <1>8, <1>9, <1>10 DEF Builds

LEMMA CInvNext == CInv /\ [Next]_vars => CInv'
<1> SUFFICES ASSUME CInv, [Next]_vars PROVE CInv'
  OBVIOUS
<1>0. TInv /\ TInv'
  BY TInvNext DEF CInv
<1>1. ASSUME NEW t \in Threads, Commits(t) PROVE CInv'
  <2>1. /\ Writing(t) /\ cache' = cache /\ raced' = raced
        /\ \E step \in {"idle", "sync_row", "ghost", "pair", "decay"} : \E l :
             Goto(t, step, l)
    BY <1>0, <1>1, CommitKind
  <2>2. PICK step \in {"idle", "sync_row", "ghost", "pair", "decay"} :
          \E l : Goto(t, step, l)
    BY <2>1
  <2>3. /\ pc'[t] = step
        /\ \A u \in Threads \ {t} : pc'[u] = pc[u] /\ local'[u] = local[u]
    BY <1>0, <2>2, GotoMoves
  <2>4. step \notin BuildSteps
    BY DEF BuildSteps
  <2>5. CASE raced
    BY <1>0, <2>1, <2>5 DEF CInv, Apart, CacheCurrent
  <2>6. CASE ~raced
    <3>1. cache.dirty /\ \A u \in Threads : ~Building(u)
      BY <2>1, <2>6, StepKinds DEF CInv, Apart, Building, Writing
    <3>2. \A u \in Threads : pc'[u] \notin BuildSteps
      BY <2>3, <2>4, <3>1 DEF Building
    <3>3. \A u \in Threads : BuildSees(u)'
      BY <3>2 DEF BuildSees, BuildSteps
    <3>4. Apart'
      BY <2>1, <3>1, <3>2 DEF Apart, Building
    <3>5. CacheCurrent'
      BY <2>1, <3>1 DEF CacheCurrent
    <3> QED BY <1>0, <3>3, <3>4, <3>5 DEF CInv
  <2> QED BY <2>5, <2>6
<1>2. ASSUME NEW t \in Threads, Marks(t) PROVE CInv'
  <2>1. PICK step \in WriteSteps : \E l : StartWrite(t, step, l)
    BY <1>2 DEF Marks
  <2>2. /\ pc'[t] = step
        /\ \A u \in Threads \ {t} : pc'[u] = pc[u] /\ local'[u] = local[u]
    BY <1>0, <2>1, GotoMoves DEF StartWrite
  <2>3. /\ cache'.dirty
        /\ raced' = \E u \in Threads \ {t} : Building(u)
    BY <1>0, <2>1 DEF StartWrite, Invalidate, TInv, TypeOK
  <2>4. ~raced' => \A u \in Threads : pc'[u] \notin BuildSteps
    BY <2>2, <2>3, StepKinds DEF Building
  <2>5. ~raced' => \A u \in Threads : BuildSees(u)'
    BY <2>4 DEF BuildSees, BuildSteps
  <2>6. Apart'
    BY <2>3, <2>4 DEF Apart, Building
  <2>7. CacheCurrent'
    BY <2>3 DEF CacheCurrent
  <2> QED BY <1>0, <2>5, <2>6, <2>7 DEF CInv
<1>3. ASSUME NEW t \in Threads, Moves(t) PROVE CInv'
  <2>1. PICK step \in Steps \ BuildSteps :
          \E l : Goto(t, step, l) /\ (step \in WriteSteps => Writing(t))
    BY <1>3 DEF Moves
  <2>2. /\ pc'[t] = step /\ (step \in WriteSteps => Writing(t))
        /\ \A u \in Threads \ {t} : pc'[u] = pc[u] /\ local'[u] = local[u]
    BY <1>0, <2>1, GotoMoves
  <2>3. UNCHANGED <<nodes, edges, cache, raced>>
    BY <1>3 DEF Moves
  <2>4. \A u \in Threads : /\ Building(u)' => Building(u) /\ u # t
                           /\ Writing(u)' => Writing(u)
    BY <2>1, <2>2 DEF Building, Writing
  <2>5. Apart'
    BY <2>3, <2>4 DEF CInv, Apart
  <2>6. ~raced => \A u \in Threads : BuildSees(u)'
    <3>1. ASSUME NEW u \in Threads, ~raced PROVE BuildSees(u)'
      <4>1. CASE u = t
        BY <2>1, <2>2, <4>1 DEF BuildSees, BuildSteps
      <4>2. CASE u # t
        <5>1. BuildSees(u)
          BY <3>1 DEF CInv
        <5>2. pc'[u] = pc[u] /\ local'[u] = local[u]
          BY <2>2, <4>2
        <5> QED BY <2>3, <5>1, <5>2 DEF BuildSees
      <4> QED BY <4>1, <4>2
    <3> QED BY <3>1
  <2>7. CacheCurrent'
    <3>1. CASE pc[t] \in {"nx_clean", "nx_directed"}
      BY <1>3, <3>1 DEF Moves, Building, BuildSteps
    <3>2. CASE pc[t] \notin {"nx_clean", "nx_directed"}
      <4>1. \A u \in Threads : pc[u] \in {"nx_clean", "nx_directed"} =>
                                 pc'[u] = pc[u]
        BY <2>2, <3>2
      <4> QED BY <2>3, <4>1 DEF CInv, CacheCurrent
    <3> QED BY <3>1, <3>2
  <2> QED BY <1>0, <2>3, <2>5, <2>6, <2>7 DEF CInv
<1>4. ASSUME NEW t \in Threads, Builds(t) PROVE CInv'
  BY <1>0, <1>4, BuildsKeep
<1>5. ASSUME NEW t \in Threads, Restore(t) PROVE CInv'
  BY <1>0, <1>5 DEF Restore, CInv, Apart, CacheCurrent
<1>6. ASSUME Elsewhere PROVE CInv'
  <2>1. Apart' /\ CacheCurrent'
    BY <1>6 DEF Elsewhere, CInv, Apart, CacheCurrent, Building, Writing
  <2>2. ~raced' => \A u \in Threads : BuildSees(u)'
    BY <1>6 DEF Elsewhere, CInv, BuildSees
  <2> QED BY <1>0, <2>1, <2>2 DEF CInv
<1>7. CASE Restart
  <2>1. /\ \A t \in Threads : pc'[t] = "idle"
        /\ cache'.dirty
    BY <1>7 DEF Restart
  <2>2. Apart' /\ CacheCurrent' /\ \A u \in Threads : BuildSees(u)'
    BY <2>1, StepKinds DEF Apart, CacheCurrent, BuildSees, Building, Writing
  <2> QED BY <1>0, <2>2 DEF CInv
<1>8. CASE UNCHANGED vars
  BY <1>6, <1>8 DEF vars, tables, Elsewhere
<1> QED BY <1>0, <1>1, <1>2, <1>3, <1>4, <1>5, <1>6, <1>7, <1>8, CallKinds,
           ContinueKinds DEF Next

\* Whatever interleaves, a networkx graph that is served from the cache is the
\* graph of the tables, unless a build has overlapped a write or a build, or a
\* backup has been restored.
THEOREM CacheStaysCurrent == Spec => []CacheCurrent
<1>1. CInv => CacheCurrent
  BY DEF CInv
<1> QED BY <1>1, CInvInit, CInvNext, PTL DEF Spec

\* What a search ranks is what _graph_nodes holds, of the nodes it has reached,
\* when it gets its graph of networkx, from the cache or built, unless a build
\* has overlapped a write or a build, or a backup has been restored.
THEOREM SearchSeesNodes == Spec => SearchFinds
<1> DEFINE Sees(t) ==
      (Fetch(t) \/ StoreDirected(t)) /\ pc'[t] = "found" /\ ~raced =>
        Found(t)' = {n \in Nodes : local[t].depth[n] <= Hops}
<1>1. ASSUME CInv, [Next]_vars, NEW t \in Threads
      PROVE  Sees(t)
  <2>1. TInv /\ TInv'
    BY <1>1, TInvNext DEF CInv
  <2>2. local[t] \in Local
    BY <2>1, HeldType
  <2>3. ASSUME local'[t].graph.nodes = nodes, local'[t].depth = local[t].depth
        PROVE  Found(t)' = {n \in Nodes : local[t].depth[n] <= Hops}
    BY <2>3 DEF Found, Nodes
  <2>4. CASE Fetch(t) /\ pc'[t] = "found" /\ ~raced
    <3>1. Hit(FALSE)
      <4>1. ASSUME Build(t, local[t]) PROVE FALSE
        <5>1. pc'[t] = "nx_nodes"
          BY <2>1, <4>1, GotoMoves DEF Build
        <5> QED BY <2>4, <5>1
      <4> QED BY <2>4, <4>1 DEF Fetch
    <3>2. cache.graph.nodes = nodes
      BY <1>1, <2>4, <3>1 DEF CInv, CacheCurrent, Hit
    <3>3. local'[t] = [local[t] EXCEPT !.graph = cache.graph]
      BY <2>1, <2>4, <3>1, GotoMoves DEF Fetch
    <3>4. local'[t].graph = cache.graph /\ local'[t].depth = local[t].depth
      BY <2>2, <3>3 DEF Local
    <3> QED BY <2>3, <3>2, <3>4
  <2>5. CASE StoreDirected(t) /\ pc'[t] = "found" /\ ~raced
    <3>1. local[t].op = "ppr" /\ local'[t] = local[t]
      <4>1. pc'[t] = "idle" \/ (local[t].op = "ppr" /\ local'[t] = local[t])
        BY <2>1, <2>5, GotoMoves DEF StoreDirected, Return
      <4> QED BY <2>5, <4>1
    <3>2. local[t].graph.nodes = nodes
      BY <1>1, <2>5, <3>1 DEF CInv, BuildSees, StoreDirected
    <3> QED BY <2>3, <3>1, <3>2
  <2> QED BY <2>4, <2>5
<1>2. CInv /\ [Next]_vars => [\A t \in Threads : Sees(t)]_vars
  BY <1>1
<1> QED BY <1>2, CInvInit, CInvNext, PTL DEF Spec, SearchFinds

-----------------------------------------------------------------------------
(***************************************************************************)
(* What a thread that nobody disturbs has achieved.                        *)
(***************************************************************************)
\* A thread is alone only as long as nobody else changes the tables.
LEMMA OthersQuiet ==
  ASSUME TInv, NEW t \in Threads, NEW u \in Threads, t # u,
         Call(u) \/ Continue(u), pc[t] # "idle", alone'[t]
  PROVE  /\ UNCHANGED <<rows, nodes, edges, rules>> /\ alone[t]
         /\ pc'[t] = pc[t] /\ local'[t] = local[t]
<1>1. ASSUME Committed(u) PROVE FALSE
  BY <1>1 DEF Committed
<1>2. ASSUME NEW step, NEW l, Goto(u, step, l)
      PROVE  pc'[t] = pc[t] /\ local'[t] = local[t]
  BY <1>2, GotoMoves
<1>3. ASSUME NEW step, NEW l, StartWrite(u, step, l)
      PROVE  /\ UNCHANGED <<rows, nodes, edges, rules>> /\ alone[t]
             /\ pc'[t] = pc[t] /\ local'[t] = local[t]
  <2>1. alone' = [alone EXCEPT ![u] = @ \/ pc[u] = "idle"]
    BY <1>3 DEF StartWrite
  <2>2. alone'[t] = alone[t]
    BY <2>1 DEF TInv, TypeOK
  <2> QED BY <1>2, <1>3, <2>2 DEF StartWrite, tables
<1>4. ASSUME Quiet
      PROVE  UNCHANGED <<rows, nodes, edges, rules>> /\ alone[t]
  BY <1>4 DEF Quiet, tables
<1>5. ASSUME NEW l, Build(u, l)
      PROVE  /\ UNCHANGED <<rows, nodes, edges, rules>> /\ alone[t]
             /\ pc'[t] = pc[t] /\ local'[t] = local[t]
  BY <1>2, <1>5 DEF Build, tables
<1>6. CASE Call(u)
  <2>1. ASSUME NEW p, NEW v, PutRow(u, p, v) PROVE FALSE
    BY <1>1, <2>1 DEF PutRow
  <2>2. ASSUME NEW rule, Register(u, rule) PROVE FALSE
    BY <1>1, <2>2 DEF Register
  <2>3. ASSUME NodeOp(u) \/ EdgeOp(u) \/ StartDecay(u)
        PROVE  \E step, l : StartWrite(u, step, l)
    BY <2>3, Zenon DEF NodeOp, EdgeOp, StartAddNodes, StartDeleteNode, StartUpdateNode,
           StartAddEdge, StartDeleteEdge, StartUpdateEdge, StartDecay
  <2>4. ASSUME NEW op, StartSync(u, op)
        PROVE  /\ UNCHANGED <<rows, nodes, edges, rules>> /\ alone[t]
               /\ pc'[t] = pc[t] /\ local'[t] = local[t]
    <3>1. \E step, l : Goto(u, step, l)
      BY <2>4 DEF StartSync
    <3>2. alone'[t] = alone[t]
      BY <2>4 DEF StartSync, TInv, TypeOK
    <3> QED BY <1>2, <2>4, <3>1, <3>2 DEF StartSync, tables
  <2>5. ASSUME Restore(u) PROVE FALSE
    BY <1>1, <2>5 DEF Restore
  <2> QED BY <1>3, <1>5, <1>6, <2>1, <2>2, <2>3, <2>4, <2>5
          DEF Call, StartBuild
<1>7. CASE Continue(u)
  <2>1. ASSUME Commits(u)
        PROVE  Quiet /\ \E step, l : Goto(u, step, l)
    <3>1. ASSUME NEW N, NEW E, Write(u, N, E) PROVE FALSE
      BY <1>1, <3>1 DEF Write
    <3>2. ASSUME AddEdge(u) \/ WriteEdge(u) \/ RuleEdge(u) PROVE Quiet
      BY <3>1, <3>2 DEF AddEdge, WriteEdge, RuleEdge
    <3>3. \E step, l : Goto(u, step, l)
      BY <2>1, CommitKind
    <3> QED BY <2>1, <3>1, <3>2, <3>3
            DEF Commits, AddNodes, MergeNode, DeleteNode, DeleteEdge, Delete,
                SyncWrite, SyncGhost, DecayEdge, Prune
  <2>2. ASSUME UpdateNode(u) \/ SyncRow(u) \/ Ghosts(u) \/ Ghost(u)
                 \/ NodesSynced(u) \/ Join(u) \/ Pair(u) \/ EdgesSynced(u)
                 \/ DecayRead(u) \/ Decay(u) \/ DecayDone(u)
                 \/ Seeds(u) \/ Traverse(u) \/ Fetch(u) \/ Rank(u)
        PROVE  \/ Quiet /\ \E step, l : Goto(u, step, l)
               \/ \E step, l : StartWrite(u, step, l)
               \/ \E l : Build(u, l)
    <3>1. CASE UpdateNode(u) \/ SyncRow(u) \/ Ghosts(u) \/ Ghost(u)
                 \/ NodesSynced(u) \/ Join(u)
      BY <3>1, Zenon DEF UpdateNode, SyncRow, Ghosts, Ghost, NodesSynced, Join, Return
    <3>2. CASE Pair(u) \/ EdgesSynced(u) \/ DecayRead(u) \/ Decay(u) \/ DecayDone(u)
      BY <3>2, Zenon DEF Pair, EdgesSynced, DecayRead, Decay, DecayDone, Return
    <3>3. CASE Seeds(u) \/ Traverse(u) \/ Fetch(u) \/ Rank(u)
      BY <3>3, Zenon DEF Seeds, Traverse, Fetch, Rank, Return
    <3> QED BY <2>2, <3>1, <3>2, <3>3
  <2>3. ASSUME NEW step, NEW next, NEW g, NEW c, BuildStep(u, step, next, g, c)
        PROVE  /\ UNCHANGED <<rows, nodes, edges, rules>> /\ alone[t]
               /\ pc'[t] = pc[t] /\ local'[t] = local[t]
    BY <1>2, <2>3 DEF BuildStep, tables
  <2>4. ASSUME StoreDirected(u)
        PROVE  /\ UNCHANGED <<rows, nodes, edges, rules>> /\ alone[t]
               /\ pc'[t] = pc[t] /\ local'[t] = local[t]
    <3>1. \E step, l : Goto(u, step, l)
      BY <2>4 DEF StoreDirected, Return
    <3> QED BY <1>2, <2>4, <3>1 DEF StoreDirected, tables
  <2> QED BY <1>2, <1>3, <1>4, <1>5, <1>7, <2>1, <2>2, <2>3, <2>4
          DEF Continue, Commits, BuildNodes, BuildEdges, StoreGraph, StoreClean
<1> QED BY <1>6, <1>7

\* Which steps of a thread lead where.
LEMMA Lands ==
  ASSUME TInv, NEW t \in Threads, Call(t) \/ Continue(t), pc'[t] # "idle"
  PROVE  /\ pc'[t] = "merge_node" => UpdateNode(t)
         /\ pc'[t] \in {"decay", "decay_edge", "prune"} =>
              DecayRead(t) \/ Decay(t) \/ DecayEdge(t) \/ DecayDone(t)
         /\ pc'[t] \in {"sync_row", "sync_add", "sync_update"} =>
              \/ \E op : StartSync(t, op)
              \/ SyncRow(t) \/ SyncWrite(t)
         /\ pc'[t] \in {"ghost", "sync_ghost"} =>
              Ghosts(t) \/ Ghost(t) \/ SyncGhost(t)
         /\ pc'[t] \in {"join", "pair", "rule_edge"} =>
              \/ \E op : StartSync(t, op)
              \/ NodesSynced(t) \/ Join(t) \/ Pair(t) \/ RuleEdge(t)
<1> DEFINE Apart0 == {"add_nodes", "update_node", "delete_node", "add_edges",
                      "write_edge", "delete_edge", "decay_read", "seeds",
                      "traverse", "found"} \cup BuildSteps
<1> USE DEF Return
<1>1. \A step : (\E l : Goto(t, step, l)) => pc'[t] = step
  BY GotoMoves
<1>2. \A step : (\E l : StartWrite(t, step, l)) => pc'[t] = step
  BY <1>1 DEF StartWrite
<1>3. ASSUME NodeOp(t) \/ EdgeOp(t) \/ StartDecay(t) PROVE pc'[t] \in Apart0
  <2>1. \E step \in {"add_nodes", "update_node", "delete_node", "add_edges",
                     "write_edge", "delete_edge", "decay_read"} :
          \E l : StartWrite(t, step, l)
    BY <1>3 DEF NodeOp, EdgeOp, StartAddNodes, StartDeleteNode,
                StartUpdateNode, StartAddEdge, StartDeleteEdge,
                StartUpdateEdge, StartDecay
  <2> QED BY <1>2, <2>1
<1>4. ASSUME NEW l, Build(t, l) PROVE pc'[t] \in Apart0
  BY <1>1, <1>4 DEF Build, BuildSteps
<1>5. ASSUME Call(t)
      PROVE  (\E op : StartSync(t, op)) \/ pc'[t] \in Apart0
  <2>1. ASSUME NEW q, NEW v, PutRow(t, q, v) PROVE pc'[t] = "idle"
    BY <2>1 DEF PutRow, Begin
  <2>2. ASSUME NEW rule, Register(t, rule) PROVE pc'[t] = "idle"
    BY <2>2 DEF Register, Begin
  <2>3. ASSUME Restore(t) PROVE pc'[t] = "idle"
    BY <2>3 DEF Restore, Begin
  <2> HIDE DEF Apart0
  <2> QED BY <1>3, <1>4, <1>5, <2>1, <2>2, <2>3 DEF Call, StartBuild
<1>6. ASSUME AddNodes(t) \/ MergeNode(t) \/ DeleteNode(t) \/ AddEdge(t)
               \/ WriteEdge(t) \/ DeleteEdge(t) \/ Prune(t) \/ Rank(t)
      PROVE  FALSE
  <2>1. Goto(t, "idle", Blank)
    BY <1>6 DEF AddNodes, MergeNode, DeleteNode, AddEdge, WriteEdge,
                DeleteEdge, Prune, Rank
  <2> QED BY <1>1, <2>1
<1>7. /\ UpdateNode(t) => pc'[t] = "merge_node"
      /\ SyncRow(t) => pc'[t] \in {"sync_row", "sync_add", "sync_update"}
      /\ SyncWrite(t) => pc'[t] = "sync_row"
      /\ Ghosts(t) => pc'[t] = "ghost"
      /\ Ghost(t) => pc'[t] = "sync_ghost"
      /\ SyncGhost(t) => pc'[t] = "ghost"
  BY <1>1, <1>2 DEF UpdateNode, SyncRow, SyncWrite, Ghosts, Ghost, SyncGhost
<1>8. /\ NodesSynced(t) => pc'[t] = "join"
      /\ Join(t) => pc'[t] = "pair"
      /\ Pair(t) => pc'[t] = "rule_edge"
      /\ RuleEdge(t) => pc'[t] = "pair"
      /\ EdgesSynced(t) => pc'[t] \in Apart0
  BY <1>1, <1>2 DEF NodesSynced, Join, Pair, RuleEdge, EdgesSynced
<1>9. /\ DecayRead(t) => pc'[t] = "decay"
      /\ Decay(t) => pc'[t] = "decay_edge"
      /\ DecayEdge(t) => pc'[t] = "decay"
      /\ DecayDone(t) => pc'[t] = "prune"
  BY <1>1, <1>2 DEF DecayRead, Decay, DecayEdge, DecayDone
<1>10. /\ BuildNodes(t) \/ BuildEdges(t) \/ StoreGraph(t) \/ StoreClean(t) =>
            pc'[t] \in Apart0
       /\ StoreDirected(t) => pc'[t] \in Apart0
       /\ Seeds(t) \/ Traverse(t) \/ Fetch(t) => pc'[t] \in Apart0
  <2>1. ASSUME BuildNodes(t) \/ BuildEdges(t) \/ StoreGraph(t) \/ StoreClean(t)
        PROVE  pc'[t] \in Apart0
    <3>1. \E step \in BuildSteps : \E l : Goto(t, step, l)
      BY <2>1 DEF BuildNodes, BuildEdges, StoreGraph, StoreClean, BuildStep,
                  BuildSteps
    <3> QED BY <1>1, <3>1
  <2>2. ASSUME StoreDirected(t) PROVE pc'[t] \in Apart0
    BY <1>1, <2>2 DEF StoreDirected
  <2>3. ASSUME Seeds(t) \/ Traverse(t) \/ Fetch(t) PROVE pc'[t] \in Apart0
    BY <1>1, <1>4, <2>3 DEF Seeds, Traverse, Fetch
  <2> QED BY <2>1, <2>2, <2>3
<1>11. \A step \in Apart0 : step \notin {"merge_node", "decay", "decay_edge",
         "prune", "sync_row", "sync_add", "sync_update", "ghost",
         "sync_ghost", "join", "pair", "rule_edge"}
  BY DEF BuildSteps
<1> HIDE DEF Apart0
<1>12. CASE Call(t)
  <2>1. ASSUME NEW op, StartSync(t, op) PROVE pc'[t] \in {"sync_row", "join"}
    BY <1>1, <2>1 DEF StartSync
  <2> QED BY <1>5, <1>11, <1>12, <2>1
<1>13. CASE Continue(t)
  BY <1>6, <1>7, <1>8, <1>9, <1>10, <1>11, <1>13 DEF Continue
<1> QED BY <1>12, <1>13

\* What somebody holds who is about to merge contains what is there.
MergeSees(t) ==
  alone[t] /\ pc[t] = "merge_node" =>
    \A n \in local[t].ids :
      nodes[n] # NoNode => nodes[n].props \subseteq local[t].node.props

\* A decay has still before it every expired edge that is at the floor.
DecaySees(t) ==
  alone[t] /\ pc[t] \in {"decay", "decay_edge", "prune"} =>
    \A e \in edges : e.expired =>
      \/ e.weight > Floor
      \/ pc[t] # "prune" /\ e \in local[t].edges

\* A step of one thread leaves the others where they are.
LEMMA OthersStay ==
  ASSUME TInv, NEW t \in Threads, NEW u \in Threads, t # u,
         Call(u) \/ Continue(u)
  PROVE  pc'[t] = pc[t]
<1>1. ASSUME NEW step, NEW l, Goto(u, step, l) PROVE pc'[t] = pc[t]
  BY <1>1, GotoMoves
<1>2. ASSUME Commits(u) PROVE pc'[t] = pc[t]
  BY <1>1, <1>2, CommitKind
<1>3. ASSUME Builds(u) PROVE pc'[t] = pc[t]
  <2>1. \E step, l : Goto(u, step, l)
    BY <1>3 DEF Builds, Build, BuildNodes, BuildEdges, StoreGraph, StoreClean,
                BuildStep, StoreDirected, Return
  <2> QED BY <1>1, <2>1
<1> QED BY <1>1, <1>2, <1>3, CallKinds, ContinueKinds
        DEF Marks, Moves, StartWrite, Restore, Elsewhere

\* A thread at work that is still alone has made the step, or the tables and
\* what it holds are as they were.
LEMMA Undisturbed ==
  ASSUME TInv, NEW t \in Threads, [Next]_vars, pc'[t] # "idle", alone'[t]
  PROVE  \/ Call(t) \/ Continue(t)
         \/ /\ UNCHANGED <<rows, nodes, edges, rules>> /\ alone[t]
            /\ pc'[t] = pc[t] /\ local'[t] = local[t]
<1>1. CASE Restart
  BY <1>1 DEF Restart
<1>2. ASSUME NEW u \in Threads, t # u, Call(u) \/ Continue(u)
      PROVE  /\ UNCHANGED <<rows, nodes, edges, rules>> /\ alone[t]
             /\ pc'[t] = pc[t] /\ local'[t] = local[t]
  BY <1>2, OthersStay, OthersQuiet
<1>3. CASE UNCHANGED vars
  BY <1>3 DEF vars, tables
<1> QED BY <1>1, <1>2, <1>3 DEF Next

LEMMA MergeSeesNext ==
  ASSUME TInv, NEW t \in Threads, MergeSees(t), [Next]_vars
  PROVE  MergeSees(t)'
<1> SUFFICES ASSUME alone'[t], pc'[t] = "merge_node", NEW n \in local'[t].ids,
                    nodes'[n] # NoNode
             PROVE  nodes'[n].props \subseteq local'[t].node.props
  BY DEF MergeSees
<1>1. CASE Call(t) \/ Continue(t)
  <2>1. UpdateNode(t)
    BY <1>1, Lands
  <2>2. PICK k \in local[t].ids :
          local'[t] = [local[t] EXCEPT
            !.node.props = Merged(nodes[k], local[t].node.props)]
    BY <2>1, GotoMoves DEF UpdateNode, Return
  <2>3. local[t] \in Local /\ local[t].node \in Node /\ nodes' = nodes
    BY <2>1, HeldType, HoldsNode DEF UpdateNode, Quiet, tables
  <2>4. /\ local'[t].ids = local[t].ids
        /\ local'[t].node.props = nodes[k].props \cup local[t].node.props
    BY <2>2, <2>3 DEF Local, Node, Merged
  <2>5. n = k
    BY <1>1, <2>1, <2>2, <2>4 DEF UpdateNode, TInv, Holds
  <2> QED BY <2>3, <2>4, <2>5
<1>2. CASE ~(Call(t) \/ Continue(t))
  BY <1>2, Undisturbed DEF MergeSees
<1> QED BY <1>1, <1>2

LEMMA DecaySeesNext ==
  ASSUME TInv, NEW t \in Threads, DecaySees(t), [Next]_vars
  PROVE  DecaySees(t)'
<1> SUFFICES ASSUME alone'[t], pc'[t] \in {"decay", "decay_edge", "prune"},
                    NEW x \in edges', x.expired, ~(x.weight > Floor)
             PROVE  pc'[t] # "prune" /\ x \in local'[t].edges
  BY DEF DecaySees
<1>1. CASE Call(t) \/ Continue(t)
  <2>0. local[t] \in Local /\ edges \in SUBSET Edge
    BY HeldType
  <2>1. CASE DecayRead(t)
    <3>1. pc'[t] = "decay" /\ edges' = edges
          /\ local'[t] = [local[t] EXCEPT !.edges = {e \in edges : e.expired}]
      BY <2>1, GotoMoves DEF DecayRead, Quiet, tables
    <3> QED BY <2>0, <3>1 DEF Local
  <2>2. CASE Decay(t)
    <3>1. pc[t] = "decay" /\ pc'[t] = "decay_edge" /\ edges' = edges
          /\ local'[t] = local[t] /\ alone'[t] = alone[t]
      BY <2>2, GotoMoves DEF Decay, StartWrite, tables, TInv, TypeOK
    <3> QED BY <3>1 DEF DecaySees
  <2>3. CASE DecayEdge(t)
    <3> DEFINE e == First(local[t].edges)
               w == e.weight - DecayStep
    <3>1. /\ pc[t] = "decay_edge" /\ pc'[t] = "decay"
          /\ edges' = Decayed(edges, e)
          /\ local'[t] = [local[t] EXCEPT !.edges = @ \ {e}]
      BY <2>3, GotoMoves DEF DecayEdge, Write
    <3>2. alone[t]
      BY <2>3, <3>1 DEF DecayEdge, Write, Committed
    <3>3. local'[t].edges = local[t].edges \ {e}
      BY <2>0, <3>1 DEF Local
    <3>4. e \in Edge /\ w \in Int /\ Floor \in Int
      <4>1. e \in local[t].edges
        BY <2>3, FirstIn DEF DecayEdge, TInv, Holds
      <4> QED BY <4>1, HeldType, WeightAssumption DEF Edge
    <3> HIDE DEF e
    <3>5. x \in edges /\ x.id # e.id
      <4>1. CASE w <= Floor
        BY <3>1, <4>1 DEF Decayed
      <4>2. CASE ~(w <= Floor)
        <5>1. PICK y \in edges :
                x = IF y.id = e.id THEN [y EXCEPT !.weight = w] ELSE y
          BY <3>1, <4>2 DEF Decayed
        <5>2. y \in Edge
          BY <2>0
        <5>3. CASE y.id = e.id
          <6>1. x.weight = w
            BY <5>1, <5>2, <5>3 DEF Edge
          <6> QED BY <3>4, <4>2, <6>1
        <5>4. CASE y.id # e.id
          BY <5>1, <5>4
        <5> QED BY <5>3, <5>4
      <4> QED BY <4>1, <4>2
    <3> QED BY <3>1, <3>2, <3>3, <3>5 DEF DecaySees
  <2>4. CASE DecayDone(t)
    <3>1. pc[t] = "decay" /\ local[t].edges = {} /\ edges' = edges
          /\ alone' = alone
      BY <2>4 DEF DecayDone, Quiet, tables
    <3> QED BY <3>1 DEF DecaySees
  <2> QED BY <1>1, <2>1, <2>2, <2>3, <2>4, Lands
<1>2. CASE ~(Call(t) \/ Continue(t))
  BY <1>2, Undisturbed DEF DecaySees
<1> QED BY <1>1, <1>2

\* update_node loses no property that was there, unless somebody else wrote
\* between its read and its write.
THEOREM UpdatesAlwaysMerge == Spec => UpdatesMerge
<1> DEFINE MInv == TInv /\ \A t \in Threads : MergeSees(t)
           Keeps(t) == MergeNode(t) /\ alone[t] =>
             \A n \in Nodes : nodes[n].props \subseteq nodes'[n].props
<1>1. Init => MInv
  BY TInvInit DEF Init, MergeSees
<1>2. MInv /\ [Next]_vars => MInv'
  BY TInvNext, MergeSeesNext
<1>3. ASSUME MInv, NEW t \in Threads PROVE Keeps(t)
  <2> SUFFICES ASSUME MergeNode(t), alone[t], NEW n \in Nodes
               PROVE  nodes[n].props \subseteq nodes'[n].props
    OBVIOUS
  <2>1. nodes' = [m \in Ids |->
                    IF m \in local[t].ids /\ nodes[m] # NoNode
                    THEN [nodes[m] EXCEPT !.props = local[t].node.props]
                    ELSE nodes[m]]
    BY DEF MergeNode, Write
  <2>2. n \in Ids /\ nodes[n] \in Node
    BY <1>3, HeldType DEF Nodes
  <2>3. CASE n \in local[t].ids
    <3>1. nodes[n].props \subseteq local[t].node.props
      BY <1>3, <2>2, <2>3 DEF MergeSees, MergeNode, Nodes
    <3>2. nodes'[n].props = local[t].node.props
      BY <2>1, <2>2, <2>3 DEF Node, Nodes
    <3> QED BY <3>1, <3>2
  <2>4. CASE n \notin local[t].ids
    BY <2>1, <2>2, <2>4
  <2> QED BY <2>3, <2>4
<1>4. MInv /\ [Next]_vars => [\A t \in Threads : Keeps(t)]_vars
  BY <1>3
<1> QED BY <1>1, <1>2, <1>4, PTL DEF Spec, UpdatesMerge

\* When a decay that nobody disturbs is through, no expired edge is left at or
\* below the floor.
THEOREM DecayAlwaysClears == Spec => []DecayClears
<1> DEFINE DInv == TInv /\ \A t \in Threads : DecaySees(t)
<1>1. Init => DInv
  BY TInvInit DEF Init, DecaySees
<1>2. DInv /\ [Next]_vars => DInv'
  BY TInvNext, DecaySeesNext
<1>3. DInv => DecayClears
  BY DEF DecaySees, DecayClears
<1> QED BY <1>1, <1>2, <1>3, PTL DEF Spec

\* What a synchronisation has behind it: rows that have their node, ghosts that
\* have gone, pairs that have their edge.
RowsSynced(S) == \A p \in S : rows[p] # NoRow => InSync(p, rows[p])

PairSynced(pair) ==
  \E e \in edges : /\ e.src = pair[1] /\ e.tgt = pair[2]
                   /\ e.weight = DefaultWeight /\ ~e.expired

SyncSees(t) ==
  LET ids == local[t].ids IN
  alone[t] =>
    /\ pc[t] \in {"sync_row", "sync_add", "sync_update"} =>
         /\ local[t].rows = rows /\ ids \subseteq Present(rows)
         /\ RowsSynced(PK \ ids)
         /\ pc[t] = "sync_update" => nodes[First(ids)] # NoNode
    /\ pc[t] \in {"ghost", "sync_ghost"} =>
         /\ RowsSynced(PK) /\ GhostIds(rows) \subseteq ids
         /\ ids \cap Present(rows) = {}
    /\ pc[t] \in {"join", "pair", "rule_edge"} /\ "node" \in rules =>
         RowsSynced(PK) /\ GhostIds(rows) = {}
    /\ pc[t] \in {"pair", "rule_edge"} /\ {"node", "edge"} \subseteq rules =>
         /\ local[t].rows = rows
         /\ \A p \in ids : \E q \in PK : <<p, q>> \in Joined(rows)
         /\ \A pair \in Joined(rows) : pair[1] \in ids \/ PairSynced(pair)

LEMMA SyncRowsNext ==
  ASSUME TInv, NEW t \in Threads, SyncSees(t), alone'[t],
         pc'[t] \in {"sync_row", "sync_add", "sync_update"},
         Call(t) \/ Continue(t)
  PROVE  SyncSees(t)'
<1> PICK p : p = First(local[t].ids)
  OBVIOUS
<1> PICK ids : ids = local[t].ids
  OBVIOUS
<1> PICK rest : rest = [local[t] EXCEPT !.ids = @ \ {p}]
  OBVIOUS
<1>0. /\ local[t] \in Local /\ rest \in Local /\ rest.rows = local[t].rows
      /\ rest.ids = ids \ {p} /\ nodes \in [Ids -> Node \cup {NoNode}]
  <2>1. rest = [local[t] EXCEPT !.ids = local[t].ids \ {p}]
    BY HeldType DEF Local
  <2>2. local[t].ids \ {p} \in SUBSET Ids
    BY HeldType
  <2> QED BY <2>1, <2>2, IdsOf, HeldType
<1>1. SUFFICES
        /\ local'[t].rows = rows' /\ local'[t].ids \subseteq Present(rows')
        /\ \A k \in PK : k \notin local'[t].ids /\ rows'[k] # NoRow =>
             /\ nodes'[k] # NoNode /\ nodes'[k].source = "auto_sync"
             /\ nodes'[k].label = rows'[k]
        /\ pc'[t] = "sync_update" => nodes'[First(local'[t].ids)] # NoNode
  BY DEF SyncSees, RowsSynced, InSync
<1>2. ASSUME NEW op, StartSync(t, op)
      PROVE  /\ local'[t].rows = rows' /\ local'[t].ids \subseteq Present(rows')
             /\ \A k \in PK : k \notin local'[t].ids => rows'[k] = NoRow
             /\ pc'[t] = "sync_update" => nodes'[First(local'[t].ids)] # NoNode
  <2>1. pc'[t] = "sync_row" /\ rows' = rows
        /\ local'[t] = [Does(op) EXCEPT !.rows = rows, !.ids = Present(rows)]
    BY <1>2, GotoMoves DEF StartSync, tables
  <2>2. Does(op) \in Local
    BY <1>2, DoesType, MixType DEF StartSync, Begin
  <2>3. local'[t].rows = rows /\ local'[t].ids = Present(rows)
    BY <2>1, <2>2 DEF Local
  <2> QED BY <2>1, <2>3 DEF Present
<1>3. CASE SyncRow(t)
  <2>1. /\ pc[t] = "sync_row" /\ ids # {} /\ UNCHANGED <<rows, nodes>>
        /\ alone[t]
    BY <1>3 DEF SyncRow, Quiet, StartWrite, tables, TInv, TypeOK
  <2>2. /\ local[t].rows = rows /\ ids \subseteq Present(rows)
        /\ RowsSynced(PK \ ids)
    BY <2>1 DEF SyncSees
  <2>3. p \in ids
    BY <2>1, FirstIn
  <2>4. CASE InSync(p, local[t].rows[p])
    <3>1. pc'[t] = "sync_row" /\ local'[t] = rest
      BY <1>3, <2>4, GotoMoves DEF SyncRow
    <3>2. InSync(p, rows[p])
      BY <2>2, <2>4
    <3> QED BY <1>0, <2>1, <2>2, <3>1, <3>2 DEF RowsSynced, InSync, Present
  <2>5. CASE ~InSync(p, local[t].rows[p])
    <3>1. local'[t] = local[t]
          /\ pc'[t] = (IF nodes[p] = NoNode THEN "sync_add" ELSE "sync_update")
      BY <1>3, <2>5, GotoMoves DEF SyncRow, StartWrite
    <3>2. pc'[t] = "sync_update" => nodes'[First(local'[t].ids)] # NoNode
      BY <2>1, <3>1
    <3> QED BY <2>1, <2>2, <3>1, <3>2 DEF RowsSynced, InSync
  <2> QED BY <2>4, <2>5
<1>4. CASE SyncWrite(t)
  <2> PICK v : v = local[t].rows[p]
    OBVIOUS
  <2>1. /\ pc[t] \in {"sync_add", "sync_update"} /\ rows' = rows /\ alone[t]
        /\ nodes' = [nodes EXCEPT ![p] =
             IF pc[t] = "sync_add" THEN Rendered(v)
             ELSE IF @ = NoNode THEN NoNode
             ELSE [@ EXCEPT !.source = "auto_sync", !.label = v]]
        /\ pc'[t] = "sync_row" /\ local'[t] = rest
    BY <1>4, GotoMoves DEF SyncWrite, Write, Committed
  <2>2. /\ local[t].rows = rows /\ ids \subseteq Present(rows)
        /\ RowsSynced(PK \ ids) /\ p \in ids
        /\ pc[t] = "sync_update" => nodes[p] # NoNode
    BY <2>1, FirstIn DEF SyncSees, TInv, Holds
  <2>3. p \in Ids /\ v = rows[p] /\ v \in Val \cup {NoRow}
    BY <2>2, HeldType DEF Present, Ids
  <2>4. /\ nodes'[p] # NoNode /\ nodes'[p].source = "auto_sync"
        /\ nodes'[p].label = rows[p]
    <3>1. CASE pc[t] = "sync_add"
      <4>1. nodes'[p] = Rendered(v) /\ Rendered(v) # NoNode
        BY <1>0, <2>1, <2>3, <3>1, RenderedType, NoNodeAssumption
      <4> QED BY <2>3, <4>1 DEF Rendered
    <3>2. CASE pc[t] = "sync_update"
      <4> DEFINE new == [nodes[p] EXCEPT !.source = "auto_sync", !.label = v]
      <4>1. nodes[p] \in Node
        BY <1>0, <2>2, <2>3, <3>2
      <4>2. new \in Node /\ new.source = "auto_sync" /\ new.label = v
        BY <2>3, <4>1 DEF Node, Source, Label
      <4>3. nodes'[p] = new
        BY <1>0, <2>1, <2>2, <2>3, <3>2
      <4> HIDE DEF new
      <4> QED BY <2>3, <4>2, <4>3, NoNodeAssumption
    <3> QED BY <2>1, <3>1, <3>2
  <2>5. \A n \in Ids : n # p => nodes'[n] = nodes[n]
    BY <1>0, <2>1
  <2>6. ASSUME NEW k \in PK, k \notin rest.ids, rows[k] # NoRow
        PROVE  /\ nodes'[k] # NoNode /\ nodes'[k].source = "auto_sync"
               /\ nodes'[k].label = rows[k]
    <3>1. CASE k = p
      BY <2>4, <3>1
    <3>2. CASE k # p
      <4>1. InSync(k, rows[k]) /\ nodes'[k] = nodes[k] /\ rows' = rows
        BY <1>0, <2>1, <2>2, <2>5, <2>6, <3>2 DEF RowsSynced, Ids
      <4> QED BY <4>1 DEF InSync
    <3> QED BY <3>1, <3>2
  <2> QED BY <1>0, <2>1, <2>2, <2>6 DEF Present
<1> QED BY <1>1, <1>2, <1>3, <1>4, Lands

LEMMA SyncGhostsNext ==
  ASSUME TInv, NEW t \in Threads, SyncSees(t), alone'[t],
         pc'[t] \in {"ghost", "sync_ghost"}, Call(t) \/ Continue(t)
  PROVE  SyncSees(t)'
<1> PICK p : p = First(local[t].ids)
  OBVIOUS
<1> PICK ids : ids = local[t].ids
  OBVIOUS
<1>0. /\ local[t] \in Local /\ ids \subseteq Ids /\ rows \in [PK -> Label]
      /\ nodes \in [Ids -> Node \cup {NoNode}]
  BY HeldType DEF TInv, TypeOK, Label
<1>1. SUFFICES
        /\ \A k \in PK : rows'[k] # NoRow =>
             /\ nodes'[k] # NoNode /\ nodes'[k].source = "auto_sync"
             /\ nodes'[k].label = rows'[k]
        /\ \A k \in PK : /\ rows'[k] = NoRow /\ nodes'[k] # NoNode
                         /\ nodes'[k].source = "auto_sync"
                         => k \in local'[t].ids
        /\ \A k \in local'[t].ids : k \in PK => rows'[k] = NoRow
  BY DEF SyncSees, RowsSynced, InSync, GhostIds, Present
<1>2. CASE Ghosts(t)
  <2>1. /\ pc[t] = "sync_row" /\ ids = {} /\ UNCHANGED <<rows, nodes, alone>>
        /\ local'[t] = [local[t] EXCEPT !.ids = GhostIds(local[t].rows)]
    BY <1>2, GotoMoves DEF Ghosts, Quiet, tables
  <2>2. local[t].rows = rows /\ RowsSynced(PK)
    <3>1. RowsSynced(PK \ ids) /\ local[t].rows = rows
      BY <2>1 DEF SyncSees
    <3> QED BY <2>1, <3>1
  <2>3. GhostIds(rows) \in SUBSET Ids
    BY DEF GhostIds, Ids
  <2>4. local'[t].ids = GhostIds(rows)
    BY <1>0, <2>1, <2>2, <2>3, IdsOf
  <2> QED BY <2>1, <2>2, <2>4 DEF RowsSynced, InSync, GhostIds
<1>3. CASE Ghost(t)
  <2>1. /\ pc[t] = "ghost" /\ local'[t] = local[t]
        /\ UNCHANGED <<rows, nodes>> /\ alone[t]
    BY <1>3, GotoMoves DEF Ghost, StartWrite, tables, TInv, TypeOK
  <2> QED BY <2>1 DEF SyncSees, RowsSynced, InSync, GhostIds, Present
<1>4. CASE SyncGhost(t)
  <2>1. /\ pc[t] = "sync_ghost" /\ rows' = rows /\ alone[t]
        /\ nodes' = [nodes EXCEPT ![p] = NoNode]
        /\ local'[t] = [local[t] EXCEPT !.ids = @ \ {p}]
    BY <1>4, GotoMoves DEF SyncGhost, Delete, Write, Committed
  <2>2. /\ RowsSynced(PK) /\ GhostIds(rows) \subseteq ids
        /\ ids \cap Present(rows) = {} /\ p \in ids /\ ids \subseteq PK
    BY <2>1, FirstIn DEF SyncSees, TInv, Holds
  <2>3. local'[t].ids = ids \ {p}
    <3>1. local'[t] = [local[t] EXCEPT !.ids = ids \ {p}]
      BY <1>0, <2>1
    <3> QED BY <1>0, <3>1, IdsOf
  <2>4. rows[p] = NoRow
    BY <2>2 DEF Present
  <2>5. nodes'[p] = NoNode /\ \A k \in PK : k # p => nodes'[k] = nodes[k]
    BY <1>0, <2>1, <2>2 DEF Ids
  <2> QED BY <2>1, <2>2, <2>3, <2>4, <2>5
          DEF RowsSynced, InSync, GhostIds, Present
<1> QED BY <1>1, <1>2, <1>3, <1>4, Lands

LEMMA SyncEdgesNext ==
  ASSUME TInv, NEW t \in Threads, SyncSees(t), alone'[t],
         pc'[t] \in {"join", "pair", "rule_edge"}, Call(t) \/ Continue(t)
  PROVE  SyncSees(t)'
<1> DEFINE NodesDone == "node" \in rules => RowsSynced(PK) /\ GhostIds(rows) = {}
           EdgesDone == {"node", "edge"} \subseteq rules =>
             /\ local[t].rows = rows
             /\ \A k \in local[t].ids : \E q \in PK : <<k, q>> \in Joined(rows)
             /\ \A pair \in Joined(rows) :
                  pair[1] \in local[t].ids \/ PairSynced(pair)
<1>0. local[t] \in Local /\ rows \in [PK -> Val \cup {NoRow}]
  BY HeldType DEF TInv, TypeOK
<1>1. SUFFICES NodesDone' /\ (pc'[t] # "join" => EdgesDone')
  BY DEF SyncSees
<1>2. pc[t] \in {"join", "pair", "rule_edge"} /\ alone[t] => NodesDone
  BY DEF SyncSees
<1>3. pc[t] \in {"pair", "rule_edge"} /\ alone[t] => EdgesDone
  BY DEF SyncSees
<1>4. ASSUME UNCHANGED <<rows, nodes>>, rules' = rules, NodesDone
      PROVE  NodesDone'
  BY <1>4 DEF RowsSynced, InSync, GhostIds
<1>5. CASE \E op : StartSync(t, op)
  <2>1. "node" \notin rules /\ rules' = rules /\ pc'[t] = "join"
    BY <1>5, GotoMoves DEF StartSync
  <2> QED BY <1>1, <2>1
<1>6. CASE NodesSynced(t)
  <2>1. /\ pc[t] = "ghost" /\ local[t].ids = {} /\ pc'[t] = "join" /\ alone[t]
        /\ UNCHANGED <<rows, nodes>> /\ rules' = rules
    BY <1>6, GotoMoves DEF NodesSynced, Return, Quiet, tables
  <2>2. NodesDone
    BY <2>1 DEF SyncSees
  <2> QED BY <1>1, <1>4, <2>1, <2>2
<1>7. CASE Join(t)
  <2>1. /\ pc[t] = "join" /\ alone[t] /\ UNCHANGED <<rows, nodes, edges, rules>>
        /\ "edge" \in rules =>
             local'[t] = [local[t] EXCEPT !.rows = rows,
                            !.ids = {k \in PK : \E q \in PK :
                                       <<k, q>> \in Joined(rows)}]
    BY <1>7, GotoMoves DEF Join, Quiet, tables
  <2>2. ASSUME "edge" \in rules
        PROVE  /\ local'[t].rows = rows
               /\ local'[t].ids =
                    {k \in PK : \E q \in PK : <<k, q>> \in Joined(rows)}
    <3> DEFINE S == {k \in PK : \E q \in PK : <<k, q>> \in Joined(rows)}
               r == [local[t] EXCEPT !.rows = rows]
    <3>1. r \in Local /\ r.rows = rows
      BY <1>0, RowsOf
    <3>2. S \in SUBSET Ids
      BY DEF Ids
    <3>3. local'[t] = [r EXCEPT !.ids = S]
      BY <2>1, <2>2
    <3> HIDE DEF S, r
    <3>4. local'[t].rows = rows /\ local'[t].ids = S
      BY <3>1, <3>2, <3>3, IdsOf
    <3> QED BY <3>4 DEF S
  <2>3. \A pair \in Joined(rows) : \E q \in PK : <<pair[1], q>> \in Joined(rows)
    BY DEF Joined
  <2>4. \A pair \in Joined(rows) : pair[1] \in PK
    BY DEF Joined
  <2>5. EdgesDone'
    BY <2>1, <2>2, <2>3, <2>4 DEF Joined
  <2> QED BY <1>1, <1>2, <1>4, <2>1, <2>5
<1>8. CASE Pair(t)
  <2>1. /\ pc[t] = "pair" /\ alone[t] /\ UNCHANGED <<rows, nodes, edges, rules>>
        /\ local'[t] = local[t]
    BY <1>8, GotoMoves DEF Pair, StartWrite, tables, TInv, TypeOK
  <2>2. EdgesDone'
    BY <1>3, <2>1 DEF Joined, PairSynced
  <2> QED BY <1>1, <1>2, <1>4, <2>1, <2>2
<1>9. CASE RuleEdge(t)
  <2> PICK p : p = First(local[t].ids)
    OBVIOUS
  <2> PICK q : q = local[t].rows[p]
    OBVIOUS
  <2> PICK e : e = NewEdge(p, q, DefaultWeight, FALSE)
    OBVIOUS
  <2>1. /\ pc[t] = "rule_edge" /\ UNCHANGED <<rows, nodes, rules>> /\ alone[t]
        /\ pc'[t] = "pair" /\ p \in local[t].ids /\ p \in PK /\ q \in PK
        /\ e.src = p /\ e.tgt = q /\ e.weight = DefaultWeight /\ e.expired = FALSE
    <3>1. /\ pc[t] = "rule_edge" /\ UNCHANGED <<rows, nodes, rules>> /\ alone[t]
          /\ pc'[t] = "pair"
      BY <1>9, GotoMoves DEF RuleEdge, Write, Committed, Quiet, tables
    <3> QED BY <3>1, FirstIn DEF TInv, Holds, NewEdge
  <2>2. NodesDone'
    BY <1>2, <1>4, <2>1
  <2>3. ASSUME {"node", "edge"} \subseteq rules
        PROVE  /\ local'[t].rows = rows'
               /\ \A k \in local'[t].ids : \E m \in PK : <<k, m>> \in Joined(rows')
               /\ \A pair \in Joined(rows') :
                    pair[1] \in local'[t].ids \/ PairSynced(pair)'
    <3>1. /\ local[t].rows = rows
          /\ \A k \in local[t].ids : \E m \in PK : <<k, m>> \in Joined(rows)
          /\ \A pair \in Joined(rows) :
               pair[1] \in local[t].ids \/ PairSynced(pair)
          /\ RowsSynced(PK)
      BY <1>2, <1>3, <2>1, <2>3
    <3>2. rows[p] = q /\ rows[q] # NoRow /\ rows[p] # NoRow
      <4>1. rows[p] = q
        BY <3>1
      <4>2. PICK m \in PK : <<p, m>> \in Joined(rows)
        BY <2>1, <3>1
      <4>3. rows[p] = m /\ rows[m] # NoRow
        BY <4>2 DEF Joined
      <4> QED BY <2>1, <4>1, <4>3, KeyAssumption
    <3>3. HasEnds(e)
      BY <2>1, <3>1, <3>2 DEF RowsSynced, InSync, HasEnds
    <3>4. /\ edges' = Replaced(edges, e)
          /\ local'[t] = [local[t] EXCEPT !.ids = @ \ {p}]
      BY <1>9, <3>3, GotoMoves DEF RuleEdge, Write
    <3>5. local'[t].rows = rows /\ local'[t].ids = local[t].ids \ {p}
      <4>1. local'[t] = [local[t] EXCEPT !.ids = local[t].ids \ {p}]
        BY <1>0, <3>4
      <4>2. local[t].ids \ {p} \in SUBSET Ids
        BY HeldType
      <4> QED BY <1>0, <3>1, <4>1, <4>2, IdsOf
    <3>6. ASSUME NEW pair \in Joined(rows)
          PROVE  pair[1] \in local'[t].ids \/ PairSynced(pair)'
      <4>1. pair = <<pair[1], pair[2]>> /\ rows[pair[1]] = pair[2]
        BY DEF Joined
      <4>2. CASE pair[1] = p
        <5>1. e \in edges'
          BY <3>4 DEF Replaced
        <5> QED BY <2>1, <3>2, <4>1, <4>2, <5>1 DEF PairSynced
      <4>3. CASE pair[1] # p /\ pair[1] \notin local[t].ids
        <5>1. PICK x \in edges : /\ x.src = pair[1] /\ x.tgt = pair[2]
                                 /\ x.weight = DefaultWeight /\ ~x.expired
          BY <3>1, <4>3 DEF PairSynced
        <5>2. x.id # e.id
          <6>1. UnusedIds # {} /\ e.id = NewId
            BY <1>9 DEF RuleEdge, NewEdge
          <6> QED BY <6>1 DEF NewId, UnusedIds
        <5>3. x \in edges'
          BY <2>1, <3>4, <4>3, <5>1, <5>2 DEF Replaced
        <5> QED BY <5>1, <5>3 DEF PairSynced
      <4> QED BY <3>5, <4>2, <4>3
    <3> QED BY <2>1, <3>1, <3>5, <3>6 DEF Joined
  <2>4. EdgesDone'
    BY <2>1, <2>3
  <2> QED BY <1>1, <2>2, <2>4
<1> QED BY <1>5, <1>6, <1>7, <1>8, <1>9, Lands

LEMMA SyncSeesNext ==
  ASSUME TInv, NEW t \in Threads, SyncSees(t), [Next]_vars
  PROVE  SyncSees(t)'
<1> DEFINE Synced == {"sync_row", "sync_add", "sync_update", "ghost",
                      "sync_ghost", "join", "pair", "rule_edge"}
<1>1. CASE ~(alone'[t] /\ pc'[t] \in Synced)
  BY <1>1 DEF SyncSees
<1>2. CASE alone'[t] /\ pc'[t] \in Synced /\ (Call(t) \/ Continue(t))
  BY <1>2, SyncRowsNext, SyncGhostsNext, SyncEdgesNext
<1>3. CASE alone'[t] /\ pc'[t] \in Synced /\ ~(Call(t) \/ Continue(t))
  <2>1. /\ UNCHANGED <<rows, nodes, edges, rules>> /\ alone[t]
        /\ pc'[t] = pc[t] /\ local'[t] = local[t]
    BY <1>3, Undisturbed
  <2> QED BY <2>1 DEF SyncSees, RowsSynced, InSync, GhostIds, Present, Joined,
                      PairSynced
<1> QED BY <1>1, <1>2, <1>3

\* A synchronisation that nobody disturbs leaves a node with its label for
\* every row, and none of its own for a key without one, and an edge in full
\* weight for every pair of rows that join.
THEOREM SyncAlwaysAligns == Spec => []SyncAligns
<1> DEFINE SInv == TInv /\ \A t \in Threads : SyncSees(t)
<1>1. Init => SInv
  BY TInvInit DEF Init, SyncSees
<1>2. SInv /\ [Next]_vars => SInv'
  BY TInvNext, SyncSeesNext
<1>3. ASSUME TInv, RowsSynced(PK), GhostIds(rows) = {}
      PROVE  NodesAligned
  <2> SUFFICES ASSUME NEW p \in PK
               PROVE  IF rows[p] # NoRow
                      THEN \E P \in SUBSET Prop :
                             nodes[p] = [Rendered(rows[p]) EXCEPT !.props = P]
                      ELSE nodes[p] # NoNode => nodes[p].source # "auto_sync"
    BY DEF NodesAligned
  <2>1. CASE rows[p] = NoRow
    BY <1>3, <2>1 DEF GhostIds
  <2>2. CASE rows[p] # NoRow
    <3>1. /\ nodes[p] \in Node /\ nodes[p].source = "auto_sync"
          /\ nodes[p].label = rows[p]
      BY <1>3, <2>2 DEF RowsSynced, InSync, TInv, TypeOK, Ids
    <3>2. nodes[p] = [Rendered(rows[p]) EXCEPT !.props = nodes[p].props]
      BY <3>1 DEF Node, Rendered
    <3>3. nodes[p].props \in SUBSET Prop
      BY <3>1 DEF Node
    <3> QED BY <2>2, <3>2, <3>3
  <2> QED BY <2>1, <2>2
<1>4. ASSUME SInv PROVE SyncAligns
  <2> SUFFICES ASSUME NEW t \in Threads, alone[t], "node" \in rules,
                      local[t].ids = {}
               PROVE  /\ pc[t] = "ghost" => NodesAligned
                      /\ pc[t] = "pair" /\ "edge" \in rules =>
                           NodesAligned /\ EdgesAligned
    BY DEF SyncAligns
  <2>1. SyncSees(t)
    BY <1>4
  <2>2. ASSUME pc[t] = "ghost" PROVE NodesAligned
    <3>1. RowsSynced(PK) /\ GhostIds(rows) = {}
      BY <2>1, <2>2 DEF SyncSees
    <3> QED BY <1>3, <1>4, <3>1
  <2>3. ASSUME pc[t] = "pair", "edge" \in rules
        PROVE  NodesAligned /\ EdgesAligned
    <3>1. /\ RowsSynced(PK) /\ GhostIds(rows) = {}
          /\ \A pair \in Joined(rows) : PairSynced(pair)
      BY <2>1, <2>3 DEF SyncSees
    <3>2. \A pair \in Joined(rows) : pair = <<pair[1], pair[2]>>
      BY DEF Joined
    <3> QED BY <1>3, <1>4, <3>1, <3>2 DEF PairSynced, EdgesAligned
  <2> QED BY <2>2, <2>3
<1> QED BY <1>1, <1>2, <1>4, PTL DEF Spec
=============================================================================

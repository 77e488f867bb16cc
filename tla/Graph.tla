------------------------------- MODULE Graph -------------------------------
(***************************************************************************)
(* The knowledge graph (graph.py) over one application table: nodes and    *)
(* edges in SQLite, the rules that derive them from rows, the decay of     *)
(* expired edges, and the networkx copy that algorithms run on.            *)
(*                                                                         *)
(* Every method is a chain of short transactions, and every write marks    *)
(* the networkx cache dirty before its own transaction begins.  An action  *)
(* is one transaction, one assignment to the cache, or one lookup with     *)
(* what it decides.                                                        *)
(*                                                                         *)
(* A row is what its reference column holds, which is also what the label  *)
(* template renders; the node of row p is p, where the code writes         *)
(* "table:p".  There is one edge type, so an edge has one name and one     *)
(* pair of ends.  Weights are in hundredths.  The properties of edges,     *)
(* domains and confidences are left out.                                   *)
(***************************************************************************)
EXTENDS Integers, FiniteSets

CONSTANTS
  Threads,
  PK,            \* keys of the table
  Val,           \* what the reference column of a row can hold
  NoRow,         \* there is no row under a key
  Own,           \* ids of nodes that no row accounts for
  NoNode,        \* there is no node under an id
  Prop,          \* keys of node properties
  EdgeIds,       \* names of edges
  DefaultWeight, \* weight of an edge that add_edge is given none for: 100
  DecayStep,     \* 15
  Floor,         \* 5
  Hops,          \* hop_expansion of a search: 2
  MaxCost,       \* what the edges of a walk may lack in weight together: 300
  Mixes          \* what an application may confine itself to

AllOps == {"put_row", "register", "add_nodes", "update_node", "delete_node",
           "add_edge", "update_edge", "delete_edge", "valid_until", "sync",
           "search", "ppr", "reconcile", "decay", "nx", "restore", "restart"}

ASSUME KeyAssumption == PK \cap Own = {} /\ NoRow \notin Val \cup PK
ASSUME WeightAssumption ==
  {DefaultWeight, DecayStep, Floor} \subseteq Int /\ MaxCost \in Nat
\* traverse refuses more than 10.
ASSUME HopsAssumption == Hops \in 0..10

\* A mix: the threads of an application, the operations it uses ("valid_until"
\* being edges that expire), the keys and ids it uses them on and the weights
\* it gives.
ASSUME MixAssumption ==
  Mixes \subseteq [threads : SUBSET Threads, ops : SUBSET AllOps,
                  ids : SUBSET (PK \cup Own), weights : SUBSET Int]

Ids    == PK \cup Own
Label  == Val \cup {NoRow}   \* NoRow: a label no row was rendered into
Source == {"auto_sync", "inferred"}
Node   == [source : Source, label : Label, props : SUBSET Prop]
Edge   == [id : EdgeIds, src : Ids, tgt : Ids, weight : Int,
           expired : BOOLEAN]

ASSUME NoNodeAssumption == NoNode \notin Node

VARIABLES
  mix,       \* what this application confines itself to
  rows,      \* the table
  nodes,     \* _graph_nodes
  edges,     \* _graph_edges
  rules,     \* which of the two rules is registered: _graph_sync, _edge_rules
  cache,     \* _nx_cache: the graph, dirty, and the directed flag beside it
  pc, local, \* per thread: the operation in progress and what it holds
  alone,     \* auxiliary: no other thread has written since it began
  raced      \* auxiliary: a build and a write, or two builds, overlapped

tables == <<rows, nodes, edges>>
vars   == <<mix, rows, nodes, edges, rules, cache, pc, local, alone, raced>>

\* A graph of networkx.  That there is none yet is told by `dirty` alone.
GraphOf(N, E, directed) == [nodes |-> N, edges |-> E, directed |-> directed]

NoNodes == [n \in Ids |-> NoNode]
NoRows  == [p \in PK |-> NoRow]
NoGraph == GraphOf(NoNodes, {}, FALSE)

Beyond  == [n \in Ids |-> Hops + 1]

Blank == [op |-> "sync", rows |-> NoRows, ids |-> {}, node |-> NoNode,
          edges |-> {}, graph |-> NoGraph, seeds |-> {},
          depth |-> Beyond]

Init ==
  /\ mix \in Mixes
  /\ rows = NoRows
  /\ nodes = NoNodes
  /\ edges = {}
  /\ rules = {}
  /\ cache = [graph |-> NoGraph, dirty |-> TRUE, directed |-> FALSE]
  /\ pc = [t \in Threads |-> "idle"]
  /\ local = [t \in Threads |-> Blank]
  /\ alone = [t \in Threads |-> TRUE]
  /\ raced = FALSE

-----------------------------------------------------------------------------
(***************************************************************************)
(* The tables.                                                             *)
(***************************************************************************)
Present(table) == {p \in PK : table[p] # NoRow}

Nodes == {n \in Ids : nodes[n] # NoNode}

\* What the rule makes of a row.
Rendered(v) == [source |-> "auto_sync", label |-> v, props |-> {}]

\* Seeded bug: a node that is there is left as it is.
IsThere(p, v) == nodes[p] # NoNode

InSync(p, v) ==
  nodes[p] # NoNode /\ nodes[p].source = "auto_sync" /\ nodes[p].label = v

\* The rows that join: source_table.source_column = target_table.target_column.
Joined(table) ==
  {pair \in PK \X PK : table[pair[1]] = pair[2] /\ table[pair[2]] # NoRow}

\* Seeded bug: only the edges that leave the node go with it.
EdgesNotFrom(n) == {e \in edges : n # e.src}

\* ON DELETE CASCADE.
EdgesWithout(n) == {e \in edges : n \notin {e.src, e.tgt}}

\* INSERT OR REPLACE: the primary key and the unique pair of ends.
Replaced(E, e) ==
  {x \in E : x.id # e.id /\ <<x.src, x.tgt>> # <<e.src, e.tgt>>} \cup {e}

\* A uuid: an id that nothing refers to.
UnusedIds ==
  {i \in EdgeIds :
     \A e \in edges \cup UNION {local[t].edges : t \in Threads} : e.id # i}

NewId == CHOOSE i \in UnusedIds : TRUE

NewEdge(s, g, w, x) ==
  [id |-> NewId, src |-> s, tgt |-> g, weight |-> w, expired |-> x]

-----------------------------------------------------------------------------
(***************************************************************************)
(* Threads.  A write is in progress from the moment it marks the cache     *)
(* dirty to its commit; reconcile ends with a DELETE that marks nothing,   *)
(* so all of its decay counts as one write.                                *)
(***************************************************************************)
WriteSteps == {"add_nodes", "update_node", "merge_node", "delete_node",
               "add_edges", "write_edge", "delete_edge",
               "sync_add", "sync_update", "sync_ghost", "rule_edge",
               "decay_read", "decay", "decay_edge", "prune"}
SyncSteps  == {"sync_row", "ghost", "join", "pair"}
BuildSteps == {"nx_nodes", "nx_edges", "nx_graph", "nx_clean", "nx_directed"}
FindSteps  == {"seeds", "traverse", "found"}
Steps      ==
  {"idle"} \cup WriteSteps \cup SyncSteps \cup BuildSteps \cup FindSteps

Writing(t)  == pc[t] \in WriteSteps
Building(t) == pc[t] \in BuildSteps

Goto(t, step, l) ==
  /\ pc' = [pc EXCEPT ![t] = step]
  /\ local' = [local EXCEPT ![t] = l]

Return(t) == Goto(t, "idle", Blank)

\* Nothing but the thread has changed.
Quiet == UNCHANGED <<mix, tables, rules, cache, alone, raced>>

Begin(t, op) == t \in mix.threads /\ pc[t] = "idle" /\ op \in mix.ops

Does(op) == [Blank EXCEPT !.op = op]

\* Seeded bug: the cache is not marked dirty.
Unmarked(t) == UNCHANGED <<cache, raced>>

\* _invalidate_nx_cache.  A build in progress may undo it; otherwise nothing
\* cached is served any more, and no overlap of the past matters.
Invalidate(t) ==
  /\ cache' = [cache EXCEPT !.dirty = TRUE]
  /\ raced' = \E u \in Threads \ {t} : Building(u)

\* A commit: whoever else is at work is not alone any more.
Committed(t) ==
  alone' = [u \in Threads |-> pc[u] = "idle" \/ (u = t /\ alone[u])]

\* A write that marks the cache and holds what it is going to write.
StartWrite(t, step, l) ==
  /\ Invalidate(t)
  /\ Goto(t, step, l)
  /\ alone' = [alone EXCEPT ![t] = @ \/ pc[t] = "idle"]
  /\ UNCHANGED <<mix, tables, rules>>

\* A commit to the graph.
Write(t, N, E) ==
  /\ nodes' = N /\ edges' = E
  /\ Committed(t)
  /\ UNCHANGED <<mix, rows, rules, cache, raced>>

-----------------------------------------------------------------------------
(***************************************************************************)
(* The application: rows, nodes, edges.                                    *)
(***************************************************************************)
PutRow(t, p, v) ==
  /\ Begin(t, "put_row")
  /\ rows[p] # v
  /\ rows' = [rows EXCEPT ![p] = v]
  /\ Committed(t)
  /\ UNCHANGED <<mix, nodes, edges, rules, cache, pc, local, raced>>

Register(t, rule) ==
  /\ Begin(t, "register")
  /\ rules' = rules \cup {rule}
  /\ Committed(t)
  /\ UNCHANGED <<mix, tables, cache, pc, local, raced>>

\* add_node, add_nodes: upserts in one transaction; edges stay.
StartAddNodes(t, S) ==
  /\ Begin(t, "add_nodes") /\ S # {}
  /\ StartWrite(t, "add_nodes", [Does("add_nodes") EXCEPT !.ids = S])

AddNodes(t) ==
  /\ pc[t] = "add_nodes"
  /\ Write(t, [n \in Ids |-> IF n \in local[t].ids
                             THEN [source |-> "inferred", label |-> NoRow,
                                   props |-> {}]
                             ELSE nodes[n]], edges)
  /\ Return(t)

StartUpdateNode(t, n, P) ==
  /\ Begin(t, "update_node")
  /\ StartWrite(t, "update_node",
                [Does("update_node") EXCEPT
                   !.ids = {n},
                   !.node = [source |-> "inferred", label |-> NoRow,
                             props |-> P]])

\* Seeded bug: the properties given become one property.
Nested(node, given) == node.props \cup {given}

\* Seeded bug: the properties given replace those there.
MergedOver(node, given) == given

Merged(node, given) == node.props \cup given

\* get_node, whose properties the given ones are merged into.
UpdateNode(t) ==
  /\ pc[t] = "update_node"
  /\ \E n \in local[t].ids :
       IF nodes[n] = NoNode
       THEN Return(t)
       ELSE Goto(t, "merge_node",
                 [local[t] EXCEPT
                    !.node.props = Merged(nodes[n], local[t].node.props)])
  /\ Quiet

\* UPDATE: a node that has gone is not brought back.
MergeNode(t) ==
  /\ pc[t] = "merge_node"
  /\ Write(t, [n \in Ids |->
                 IF n \in local[t].ids /\ nodes[n] # NoNode
                 THEN [nodes[n] EXCEPT !.props = local[t].node.props]
                 ELSE nodes[n]], edges)
  /\ Return(t)

StartDeleteNode(t, n) ==
  /\ Begin(t, "delete_node")
  /\ StartWrite(t, "delete_node", [Does("delete_node") EXCEPT !.ids = {n}])

Delete(t, n) == Write(t, [nodes EXCEPT ![n] = NoNode], EdgesWithout(n))

DeleteNode(t) ==
  /\ pc[t] = "delete_node"
  /\ \E n \in local[t].ids : Delete(t, n)
  /\ Return(t)

\* add_edge, add_edges: with a name of the caller's or a new one.
StartAddEdge(t, e) ==
  /\ Begin(t, "add_edge")
  /\ StartWrite(t, "add_edges", [Does("add_edge") EXCEPT !.edges = {e}])

HasEnds(e) == nodes[e.src] # NoNode /\ nodes[e.tgt] # NoNode

\* A missing end is an IntegrityError, and nothing is written.
AddEdge(t) ==
  /\ pc[t] = "add_edges"
  /\ \E e \in local[t].edges :
       IF HasEnds(e)
       THEN Write(t, nodes, Replaced(edges, e))
       ELSE Quiet
  /\ Return(t)

\* update_edge: one field of an edge.  get_edge only tells whether it is there.
StartUpdateEdge(t, e, field) ==
  /\ Begin(t, "update_edge")
  /\ StartWrite(t, "write_edge", [Does(field) EXCEPT !.edges = {e}])

Updated(x, e, field) ==
  CASE field = "weight"      -> [x EXCEPT !.weight = e.weight]
    [] field = "valid_until" -> [x EXCEPT !.expired = e.expired]
    [] field = "target_id"   -> [x EXCEPT !.tgt = e.tgt]

\* An end that is missing, or a pair that is taken, is an IntegrityError.
CanUpdate(e, field) ==
  field = "target_id" =>
    /\ nodes[e.tgt] # NoNode
    /\ \A x, y \in edges : x.id = e.id /\ y.src = x.src /\ y.tgt = e.tgt
                             => y.id = x.id

WriteEdge(t) ==
  /\ pc[t] = "write_edge"
  /\ \E e \in local[t].edges :
       IF CanUpdate(e, local[t].op)
       THEN Write(t, nodes, {IF x.id = e.id THEN Updated(x, e, local[t].op)
                             ELSE x : x \in edges})
       ELSE Quiet
  /\ Return(t)

StartDeleteEdge(t, e) ==
  /\ Begin(t, "delete_edge")
  /\ StartWrite(t, "delete_edge", [Does("delete_edge") EXCEPT !.edges = {e}])

DeleteEdge(t) ==
  /\ pc[t] = "delete_edge"
  /\ Write(t, nodes,
           {x \in edges : \A e \in local[t].edges : x.id # e.id})
  /\ Return(t)

-----------------------------------------------------------------------------
(***************************************************************************)
(* sync_graph_nodes ("sync"); search_graph and search_graph_ppr, which go  *)
(* on to the edges; and reconcile, which then decays them.                 *)
(***************************************************************************)
\* The next in the order of SQLite, whatever that is.
First(S) == CHOOSE x \in S : TRUE

\* The rules, then the rows.
StartSync(t, op) ==
  /\ Begin(t, op) /\ op \in {"sync", "search", "ppr", "reconcile"}
  /\ alone' = [alone EXCEPT ![t] = TRUE]
  /\ IF "node" \in rules
     THEN Goto(t, "sync_row", [Does(op) EXCEPT !.rows = rows,
                                               !.ids = Present(rows)])
     ELSE op # "sync" /\ Goto(t, "join", Does(op))
  /\ UNCHANGED <<mix, tables, rules, cache, raced>>

\* get_node says what is to be done with the node of the next row.
SyncRow(t) ==
  LET p == First(local[t].ids) IN
  /\ pc[t] = "sync_row" /\ local[t].ids # {}
  /\ IF InSync(p, local[t].rows[p])
     THEN /\ Goto(t, "sync_row", [local[t] EXCEPT !.ids = @ \ {p}])
          /\ Quiet
     ELSE StartWrite(t, IF nodes[p] = NoNode THEN "sync_add"
                        ELSE "sync_update", local[t])

\* add_node and update_node: the second keeps properties, and does nothing
\* for a node that has gone.
SyncWrite(t) ==
  LET p == First(local[t].ids)
      v == local[t].rows[p] IN
  /\ pc[t] \in {"sync_add", "sync_update"}
  /\ Write(t, [nodes EXCEPT ![p] =
                 IF pc[t] = "sync_add" THEN Rendered(v)
                 ELSE IF @ = NoNode THEN NoNode
                 ELSE [@ EXCEPT !.source = "auto_sync", !.label = v]], edges)
  /\ Goto(t, "sync_row", [local[t] EXCEPT !.ids = @ \ {p}])

\* Seeded bug: ids of nodes are compared with keys of rows as they are, and so
\* every node looks like a ghost.
NotNamespaced(table) ==
  {p \in PK : nodes[p] # NoNode /\ nodes[p].source = "auto_sync"}

\* The auto_sync nodes of the table without a row.
GhostIds(table) ==
  {p \in PK : /\ nodes[p] # NoNode /\ nodes[p].source = "auto_sync"
              /\ table[p] = NoRow}

\* The rows are those that were read in the beginning.
Ghosts(t) ==
  /\ pc[t] = "sync_row" /\ local[t].ids = {}
  /\ Goto(t, "ghost", [local[t] EXCEPT !.ids = GhostIds(local[t].rows)])
  /\ Quiet

Ghost(t) ==
  /\ pc[t] = "ghost" /\ local[t].ids # {}
  /\ StartWrite(t, "sync_ghost", local[t])

SyncGhost(t) ==
  LET p == First(local[t].ids) IN
  /\ pc[t] = "sync_ghost"
  /\ Delete(t, p)
  /\ Goto(t, "ghost", [local[t] EXCEPT !.ids = @ \ {p}])

NodesSynced(t) ==
  /\ pc[t] = "ghost" /\ local[t].ids = {}
  /\ IF local[t].op = "sync" THEN Return(t)
     ELSE Goto(t, "join", [local[t] EXCEPT !.rows = NoRows])
  /\ Quiet

\* One SELECT joins the table with itself.
Join(t) ==
  /\ pc[t] = "join"
  /\ Goto(t, "pair",
          IF "edge" \in rules
          THEN [local[t] EXCEPT !.rows = rows,
                                !.ids = {p \in PK : \E q \in PK :
                                           <<p, q>> \in Joined(rows)}]
          ELSE local[t])
  /\ Quiet

Pair(t) ==
  /\ pc[t] = "pair" /\ local[t].ids # {}
  /\ StartWrite(t, "rule_edge", local[t])

\* add_edge with the defaults, whatever became of the edge meanwhile.  A
\* missing node ends the rule.
RuleEdge(t) ==
  LET p == First(local[t].ids)
      q == local[t].rows[p] IN
  /\ pc[t] = "rule_edge"
  /\ UnusedIds # {}
  /\ IF HasEnds(NewEdge(p, q, DefaultWeight, FALSE))
     THEN /\ Write(t, nodes,
                   Replaced(edges, NewEdge(p, q, DefaultWeight, FALSE)))
          /\ Goto(t, "pair", [local[t] EXCEPT !.ids = @ \ {p}])
     ELSE /\ Goto(t, "pair", [local[t] EXCEPT !.ids = {}])
          /\ Quiet

EdgesSynced(t) ==
  /\ pc[t] = "pair" /\ local[t].ids = {}
  /\ \/ /\ local[t].op = "reconcile"
        /\ StartWrite(t, "decay_read", Does("reconcile"))
     \/ /\ local[t].op = "ppr"
        /\ Goto(t, "seeds", Does("ppr")) /\ Quiet
     \/ /\ local[t].op \notin {"reconcile", "ppr"}
        /\ Return(t) /\ Quiet

-----------------------------------------------------------------------------
(***************************************************************************)
(* decay_edges, and the DELETE that reconcile adds to it.                  *)
(***************************************************************************)
StartDecay(t) ==
  /\ Begin(t, "decay")
  /\ StartWrite(t, "decay_read", Does("decay"))

DecayRead(t) ==
  /\ pc[t] = "decay_read"
  /\ Goto(t, "decay",
          [local[t] EXCEPT !.edges = {e \in edges : e.expired}])
  /\ Quiet

Decay(t) ==
  /\ pc[t] = "decay" /\ local[t].edges # {}
  /\ StartWrite(t, "decay_edge", local[t])

\* Seeded bug: an edge that comes to the floor exactly is kept.
DecayedTo(E, e) ==
  LET w == e.weight - DecayStep IN
  IF w < Floor
  THEN {x \in E : x.id # e.id}
  ELSE {IF x.id = e.id THEN [x EXCEPT !.weight = w] ELSE x : x \in E}

\* Seeded bug: an edge at the floor is kept there for good.
DecayedKept(E, e) ==
  LET w == IF e.weight - DecayStep > Floor THEN e.weight - DecayStep
           ELSE Floor IN
  {IF x.id = e.id THEN [x EXCEPT !.weight = w] ELSE x : x \in E}

\* The weight is computed from the one that was read.
Decayed(E, e) ==
  LET w == e.weight - DecayStep IN
  IF w <= Floor
  THEN {x \in E : x.id # e.id}
  ELSE {IF x.id = e.id THEN [x EXCEPT !.weight = w] ELSE x : x \in E}

DecayEdge(t) ==
  LET e == First(local[t].edges) IN
  /\ pc[t] = "decay_edge"
  /\ Write(t, nodes, Decayed(edges, e))
  /\ Goto(t, "decay", [local[t] EXCEPT !.edges = @ \ {e}])

DecayDone(t) ==
  /\ pc[t] = "decay" /\ local[t].edges = {}
  /\ IF local[t].op = "reconcile" THEN Goto(t, "prune", local[t])
     ELSE Return(t)
  /\ Quiet

Prune(t) ==
  /\ pc[t] = "prune"
  /\ Write(t, nodes, {e \in edges : e.weight >= Floor})
  /\ Return(t)

-----------------------------------------------------------------------------
(***************************************************************************)
(* to_networkx: the graph in the cache, or one built from two queries and  *)
(* stored in three assignments.                                            *)
(***************************************************************************)
Hit(directed) == ~cache.dirty /\ cache.directed = directed

Build(t, l) ==
  /\ raced' = (raced \/ \E u \in Threads \ {t} : Writing(u) \/ Building(u))
  /\ Goto(t, "nx_nodes", l)
  /\ UNCHANGED <<mix, tables, rules, cache, alone>>

StartBuild(t, directed) ==
  /\ Begin(t, "nx") /\ ~Hit(directed)
  /\ Build(t, [Does("nx") EXCEPT !.graph.directed = directed])

BuildStep(t, step, next, graph, newCache) ==
  /\ pc[t] = step
  /\ Goto(t, next, [local[t] EXCEPT !.graph = graph])
  /\ cache' = newCache
  /\ UNCHANGED <<mix, tables, rules, alone, raced>>

BuildNodes(t) == BuildStep(t, "nx_nodes", "nx_edges",
                           [local[t].graph EXCEPT !.nodes = nodes], cache)

BuildEdges(t) == BuildStep(t, "nx_edges", "nx_graph",
                           [local[t].graph EXCEPT !.edges = edges], cache)

StoreGraph(t) ==
  BuildStep(t, "nx_graph", "nx_clean",
            IF local[t].op = "ppr" THEN local[t].graph
            ELSE [NoGraph EXCEPT !.directed = local[t].graph.directed],
            [cache EXCEPT !.graph = local[t].graph])

StoreClean(t) == BuildStep(t, "nx_clean", "nx_directed", local[t].graph,
                           [cache EXCEPT !.dirty = FALSE])

StoreDirected(t) ==
  /\ pc[t] = "nx_directed"
  /\ cache' = [cache EXCEPT !.directed = local[t].graph.directed]
  /\ IF local[t].op = "ppr" THEN Goto(t, "found", local[t]) ELSE Return(t)
  /\ UNCHANGED <<mix, tables, rules, alone, raced>>

-----------------------------------------------------------------------------
(***************************************************************************)
(* search_graph_ppr: rows that are near the query, the nodes around theirs *)
(* in the edges of SQLite, and a graph of networkx cut down to those nodes,*)
(* which it ranks.                                                         *)
(***************************************************************************)
\* The vector search of _find_seed_nodes may find any key, of a row that has
\* gone too, if the table has a rule.
Seeds(t) ==
  /\ pc[t] = "seeds"
  /\ \E S \in SUBSET (IF "node" \in rules THEN PK \cap mix.ids ELSE {}) :
       IF S = {} THEN Return(t)
       ELSE Goto(t, "traverse",
                 [local[t] EXCEPT
                    !.ids = S, !.seeds = S,
                    !.depth = [n \in Ids |-> IF n \in S THEN 0 ELSE @[n]]])
  /\ Quiet

OtherEnd(e, n) == IF e.src = n THEN e.tgt ELSE e.src

\* Walks, each given by its end and by what its edges lack in weight, with one
\* edge more, taken either way, as long as they lack at most MaxCost.
Further(E, W) ==
  UNION {{w \in {<<OtherEnd(e, v[1]), v[2] + 100 - e.weight>> :
                   v \in {v \in W : v[1] \in {e.src, e.tgt}}} :
            w[2] <= MaxCost} : e \in E}

\* The walks of d edges from p.
Walks(E, p) ==
  LET W[d \in 0..Hops] == IF d = 0 THEN {<<p, 0>>} ELSE Further(E, W[d - 1])
  IN  W

\* MIN(depth) of traverse: so many lengths of walks, 0 and up, do not get
\* there.
Traversed(E, p) ==
  [n \in Ids |-> Cardinality({d \in 0..Hops :
                    \A c \in 0..d : \A w \in Walks(E, p)[c] : w[1] # n})]

\* Seeded bug: the seed traversed last decides.
LastDepth(depth, other) ==
  [n \in Ids |-> IF other[n] <= Hops THEN other[n] ELSE depth[n]]

NearerDepth(depth, other) ==
  [n \in Ids |-> IF other[n] < depth[n] THEN other[n] ELSE depth[n]]

Traverse(t) ==
  LET p == First(local[t].ids) IN
  /\ pc[t] = "traverse" /\ local[t].ids # {}
  /\ Goto(t, "traverse",
          [local[t] EXCEPT !.ids = @ \ {p},
                           !.depth = NearerDepth(@, Traversed(edges, p))])
  /\ Quiet

Fetch(t) ==
  /\ pc[t] = "traverse" /\ local[t].ids = {}
  /\ IF Hit(FALSE)
     THEN Goto(t, "found", [local[t] EXCEPT !.graph = cache.graph]) /\ Quiet
     ELSE Build(t, local[t])

\* The subgraph, every node of which is ranked and returned.
Found(t) ==
  {n \in Ids : local[t].graph.nodes[n] # NoNode /\ local[t].depth[n] <= Hops}

Rank(t) ==
  /\ pc[t] = "found"
  /\ Return(t)
  /\ Quiet

-----------------------------------------------------------------------------
(***************************************************************************)
(* restore brings back a backup, here one of the empty database, and leaves*)
(* the cache as it is.  A restart begins with an empty cache.              *)
(***************************************************************************)
Restore(t) ==
  /\ Begin(t, "restore")
  /\ rows' = NoRows /\ nodes' = NoNodes /\ edges' = {} /\ rules' = {}
  /\ raced' = TRUE
  /\ Committed(t)
  /\ UNCHANGED <<mix, cache, pc, local>>

Restart ==
  /\ "restart" \in mix.ops
  /\ cache' = [graph |-> NoGraph, dirty |-> TRUE, directed |-> FALSE]
  /\ pc' = [t \in Threads |-> "idle"]
  /\ local' = [t \in Threads |-> Blank]
  /\ alone' = [t \in Threads |-> TRUE]
  /\ raced' = FALSE
  /\ UNCHANGED <<mix, tables, rules>>

-----------------------------------------------------------------------------
NodeOp(t) ==
  \/ \E S \in SUBSET mix.ids : StartAddNodes(t, S)
  \/ \E n \in mix.ids :
       \/ StartDeleteNode(t, n)
       \/ \E k \in Prop : StartUpdateNode(t, n, {k})

Expiries == {x \in BOOLEAN : x => "valid_until" \in mix.ops}

EdgeOp(t) ==
  \/ \E s, g \in mix.ids, w \in mix.weights, x \in Expiries :
       UnusedIds # {} /\ StartAddEdge(t, NewEdge(s, g, w, x))
  \/ \E e \in edges :
       \/ StartDeleteEdge(t, e)
       \/ \E s, g \in mix.ids :
            StartAddEdge(t, [e EXCEPT !.src = s, !.tgt = g])
       \/ \E w \in mix.weights \ {e.weight} :
            StartUpdateEdge(t, [e EXCEPT !.weight = w], "weight")
       \/ \E x \in Expiries \ {e.expired} :
            StartUpdateEdge(t, [e EXCEPT !.expired = x], "valid_until")
       \/ \E g \in mix.ids \ {e.tgt} :
            StartUpdateEdge(t, [e EXCEPT !.tgt = g], "target_id")

Call(t) ==
  \/ \E p \in PK \cap mix.ids, v \in Val \cup {NoRow} : PutRow(t, p, v)
  \/ \E rule \in {"node", "edge"} : Register(t, rule)
  \/ NodeOp(t) \/ EdgeOp(t)
  \/ \E op \in mix.ops : StartSync(t, op)
  \/ StartDecay(t)
  \/ \E directed \in BOOLEAN : StartBuild(t, directed)
  \/ Restore(t)

\* What a thread does next in an operation it has begun.
Continue(t) ==
  \/ AddNodes(t) \/ UpdateNode(t) \/ MergeNode(t) \/ DeleteNode(t)
  \/ AddEdge(t) \/ WriteEdge(t) \/ DeleteEdge(t)
  \/ SyncRow(t) \/ SyncWrite(t) \/ Ghosts(t) \/ Ghost(t) \/ SyncGhost(t)
  \/ NodesSynced(t) \/ Join(t) \/ Pair(t) \/ RuleEdge(t) \/ EdgesSynced(t)
  \/ DecayRead(t) \/ Decay(t) \/ DecayEdge(t) \/ DecayDone(t) \/ Prune(t)
  \/ BuildNodes(t) \/ BuildEdges(t) \/ StoreGraph(t) \/ StoreClean(t)
  \/ StoreDirected(t)
  \/ Seeds(t) \/ Traverse(t) \/ Fetch(t) \/ Rank(t)

Next == Restart \/ \E t \in Threads : Call(t) \/ Continue(t)

Spec == Init /\ [][Next]_vars

\* Operations in progress go on, and the application synchronises and decays
\* again and again.
Fairness ==
  /\ \A t \in Threads : WF_vars(Continue(t))
  /\ SF_vars(\E t \in Threads, op \in mix.ops : StartSync(t, op))
  /\ SF_vars(\E t \in Threads : StartDecay(t))

LiveSpec == Spec /\ Fairness

-----------------------------------------------------------------------------
(***************************************************************************)
(* Properties.                                                             *)
(***************************************************************************)
Local == [op : AllOps \cup {"weight", "valid_until", "target_id"},
          rows : [PK -> Val \cup {NoRow}], ids : SUBSET Ids,
          node : Node \cup {NoNode}, edges : SUBSET Edge,
          graph : [nodes : [Ids -> Node \cup {NoNode}], edges : SUBSET Edge,
                   directed : BOOLEAN],
          seeds : SUBSET Ids, depth : [Ids -> Nat]]

\* Every variable has its type.
TypeOK ==
  /\ mix \in Mixes
  /\ rows \in [PK -> Val \cup {NoRow}]
  /\ nodes \in [Ids -> Node \cup {NoNode}]
  /\ edges \subseteq Edge
  /\ rules \subseteq {"node", "edge"}
  /\ cache \in [graph : [nodes : [Ids -> Node \cup {NoNode}],
                         edges : SUBSET Edge, directed : BOOLEAN],
                dirty : BOOLEAN, directed : BOOLEAN]
  /\ pc \in [Threads -> Steps]
  /\ local \in [Threads -> Local]
  /\ alone \in [Threads -> BOOLEAN]
  /\ raced \in BOOLEAN

\* Whatever adds, updates and deletions of nodes and edges interleave: an edge
\* has both its ends, and neither its name nor its pair of ends is taken twice.
EdgesSound ==
  /\ \A e \in edges : HasEnds(e)
  /\ \A e, f \in edges :
       e.id = f.id \/ <<e.src, e.tgt>> = <<f.src, f.tgt>> => e = f

\* A cache that is not dirty holds the graph of the tables, of the kind it
\* says, whatever wrote to them, unless a build overlapped a write or another
\* build, or a backup was restored, since the cache was last marked dirty.
CacheCurrent ==
  ~cache.dirty /\ ~raced =>
    /\ cache.graph.nodes = nodes /\ cache.graph.edges = edges
    /\ \/ cache.graph.directed = cache.directed
       \/ \E t \in Threads : pc[t] \in {"nx_clean", "nx_directed"}

\* A synchronisation that nobody disturbs leaves a node with its label for
\* every row, and none of its own for a key without one ...
NodesAligned ==
  \A p \in PK :
    IF rows[p] # NoRow
    THEN \E P \in SUBSET Prop :
           nodes[p] = [Rendered(rows[p]) EXCEPT !.props = P]
    ELSE nodes[p] # NoNode => nodes[p].source # "auto_sync"

\* ... and an edge in full weight for every pair of rows that join.
EdgesAligned ==
  \A pair \in Joined(rows) :
    \E e \in edges : /\ <<e.src, e.tgt>> = pair
                     /\ e.weight = DefaultWeight /\ ~e.expired

SyncAligns ==
  \A t \in Threads :
    alone[t] /\ "node" \in rules /\ local[t].ids = {} =>
      /\ pc[t] = "ghost" => NodesAligned
      /\ pc[t] = "pair" /\ "edge" \in rules => NodesAligned /\ EdgesAligned

\* When a decay that nobody disturbs is through, no expired edge is left at or
\* below the floor.
DecayClears ==
  \A t \in Threads :
    alone[t] /\ pc[t] = "prune" =>
      \A e \in edges : e.expired => e.weight > Floor

\* A search that nobody disturbs puts every node at its distance in edges from
\* the rows it starts from: these are the first level, an edge spans one level
\* at most, unless walks may cost too much, and whatever else is reached has a
\* neighbour that is nearer, whatever walks cost.
SearchReaches ==
  \A t \in Threads :
    LET depth == local[t].depth IN
    alone[t] /\ pc[t] = "traverse" /\ local[t].ids = {} =>
      /\ {n \in Ids : depth[n] = 0} = local[t].seeds
      /\ (\A e \in edges : Hops * (100 - e.weight) <= MaxCost) =>
           \A e \in edges : \A n \in {e.src, e.tgt} :
             depth[n] <= depth[OtherEnd(e, n)] + 1
      /\ \A n \in Ids :
           depth[n] \in 1..Hops =>
             \E e \in edges : /\ n \in {e.src, e.tgt}
                             /\ depth[OtherEnd(e, n)] < depth[n]

\* What a search ranks is what _graph_nodes holds when it gets its graph of
\* networkx, of the nodes it has reached, unless a build overlapped a write or
\* another build, or a backup was restored, since the cache was last marked
\* dirty.
SearchFinds ==
  [][\A t \in Threads :
       (Fetch(t) \/ StoreDirected(t)) /\ pc'[t] = "found" /\ ~raced =>
         Found(t)' = {n \in Nodes : local[t].depth[n] <= Hops}]_vars

\* update_node loses no property that was there, unless somebody else wrote
\* between its read and its write.
UpdatesMerge ==
  [][\A t \in Threads :
       MergeNode(t) /\ alone[t] =>
         \A n \in Nodes : nodes[n].props \subseteq nodes'[n].props]_vars

\* Once a row is no longer written its node becomes and stays what the rule
\* makes of it, however synchronisations overlap, if nobody else touches it.
SettledRowsGetNodes ==
  /\ "sync" \in mix.ops
  /\ mix.ops \cap {"add_nodes", "update_node", "delete_node", "restore",
                  "restart"} = {}
  =>
    \A p \in PK, v \in Val \cup {NoRow} :
      <>[](rows[p] = v /\ "node" \in rules) =>
        <>[](nodes[p] = IF v = NoRow THEN NoNode ELSE Rendered(v))

\* An edge does not outlive its time for good, however decays overlap, unless
\* somebody goes on writing to it.
ExpiredEdgesGo ==
  "decay" \in mix.ops /\ "restart" \notin mix.ops =>
    \A i \in EdgeIds :
      <>[](\E e \in edges : e.id = i /\ e.expired) =>
        []<><<\E t \in Threads : WriteEdge(t) \/ AddEdge(t)>>_vars
=============================================================================

------------------------------ MODULE MCGraph ------------------------------
(***************************************************************************)
(* Instances of Graph for TLC.                                             *)
(***************************************************************************)
EXTENDS Graph

CONSTANT u  \* a node that no row accounts for

MCOwn == {u}

AThread == CHOOSE t \in Threads : TRUE

Mix(threads, ops, ids, weights) ==
  [threads |-> threads, ops |-> ops, ids |-> ids, weights |-> weights]

\* Each behaviour confines itself to one of these.
MCMixes ==
  {Mix(Threads, {"put_row", "register", "sync"}, {1, 2}, {}),
   Mix(Threads, {"put_row", "register", "search", "add_nodes", "delete_node",
                 "restart"}, {1}, {}),
   Mix({AThread}, {"put_row", "register", "ppr"}, {1, 2}, {}),
   Mix(Threads, {"register", "add_nodes", "ppr"}, {1}, {}),
   Mix(Threads, {"put_row", "register", "reconcile", "update_edge",
                 "valid_until"}, {1}, {3}),
   Mix(Threads, {"add_nodes", "add_edge", "update_edge", "valid_until",
                 "decay"}, {u}, {35}),
   Mix(Threads, {"add_nodes", "update_node"}, {u}, {}),
   Mix(Threads, {"add_nodes", "delete_node", "add_edge", "update_edge",
                 "delete_edge"}, {1, u}, {35}),
   Mix(Threads, {"add_nodes", "nx", "restore"}, {u}, {}),
   Mix(Threads, {"add_nodes", "add_edge", "reconcile", "nx"}, {u}, {3})}
=============================================================================

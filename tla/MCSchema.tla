------------------------------ MODULE MCSchema ------------------------------
(***************************************************************************)
(* Instances of Schema for TLC.                                            *)
(***************************************************************************)
EXTENDS Schema

CONSTANTS t1, t2,
          a, b,  \* names of columns
          n      \* a name for a column that is not LONGTEXT

AddCol(c, kind)  == [op |-> "add", col |-> c, to |-> c, kind |-> kind]
DropCol(c)       == [op |-> "drop", col |-> c, to |-> c, kind |-> "INTEGER"]
RenameCol(c, to) == [op |-> "rename", col |-> c, to |-> to, kind |-> "INTEGER"]

Declared(longtext, integer) ==
  [c \in Col |-> IF c \in longtext THEN "LONGTEXT"
                 ELSE IF c \in integer THEN "INTEGER" ELSE "none"]

App(threads, ops, changes, keys, docs, longtext, integer, implicit) ==
  [threads |-> threads, ops |-> ops, changes |-> changes, keys |-> keys,
   docs |-> docs, declared |-> Declared(longtext, integer),
   implicit |-> implicit]

\* Each behaviour confines itself to one of these.
MCMixes ==
  {\* the column of a document is renamed while entries are pending
   App({t1}, {"insert", "update", "delete", "process"},
       {RenameCol(a, b), RenameCol(b, a)}, {1}, {1, 2}, {a}, {}, FALSE),
   \* a column of documents comes and goes
   App({t1}, {"insert", "delete", "process", "create", "fail"},
       {AddCol(b, "LONGTEXT"), DropCol(b)}, {1}, {1}, {a}, {}, FALSE),
   \* a column that a search filters by is renamed and dropped
   App({t1}, {"insert", "update", "delete", "process"},
       {RenameCol(n, b), DropCol(n), DropCol(b), AddCol(n, "INTEGER")},
       {1}, {1, Null}, {a}, {n}, FALSE),
   \* the key is the implicit id
   App({t1}, {"insert", "delete", "process", "reindex"},
       {DropCol(n), DropCol(b)}, {1, 2}, {1}, {a}, {b, n}, TRUE),
   \* rebuilding
   App({t1, t2}, {"insert", "delete", "process", "reindex", "restart"},
       {AddCol(b, "LONGTEXT"), DropCol(a)}, {1}, {1}, {a}, {n}, FALSE),
   \* two changes run into each other
   App({t1, t2}, {"insert", "update", "process"},
       {AddCol(b, "INTEGER"), DropCol(n), RenameCol(n, b)},
       {1}, {1}, {a}, {n}, FALSE),
   \* what breaks off halfway
   App({t1}, {"insert", "process", "fail", "restart", "create", "reindex"},
       {RenameCol(a, b), DropCol(n)}, {1}, {1}, {a}, {n}, FALSE)}
=============================================================================

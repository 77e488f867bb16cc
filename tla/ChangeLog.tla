----------------------------- MODULE ChangeLog -----------------------------
(***************************************************************************)
(* The events of a versioned table, and what a log of them says.           *)
(*                                                                         *)
(* A row of `<table>__history` records one change of one row: the kind of  *)
(* change, the primary key and a post-image (for a delete: a tombstone     *)
(* carrying the last known row).  The state at a log position is, per      *)
(* primary key, the latest post-image at or before that position.          *)
(***************************************************************************)
EXTENDS Integers, Sequences, FiniteSets

CONSTANTS
  PK,       \* the primary keys rows can have; integers, so that they sort
  Values,   \* the contents a row can have, primary key excluded
  NoRow     \* the table has no row under a key

ASSUME PKAssumption == PK \subseteq Int /\ IsFiniteSet(PK)
ASSUME NoRowAssumption == NoRow \notin Values

Content == Values \cup {NoRow}
Table   == [PK -> Content]
Empty   == [p \in PK |-> NoRow]

Change == [op : {"insert", "update", "delete"}, pk : PK, row : Values]

Ins(p, v) == [op |-> "insert", pk |-> p, row |-> v]
Upd(p, v) == [op |-> "update", pk |-> p, row |-> v]
Del(p, v) == [op |-> "delete", pk |-> p, row |-> v]

Present(table) == {p \in PK : table[p] # NoRow}

\* What a change leaves under its key.
Post(c) == IF c.op = "delete" THEN NoRow ELSE c.row

\* ROW_NUMBER() OVER (PARTITION BY pk ORDER BY _seq DESC) = 1.
IsLatest(log, p, i) ==
  log[i].pk = p /\ \A j \in i + 1 .. Len(log) : log[j].pk # p

\* The table a log describes, starting from no rows.
Replay(log) ==
  [p \in PK |->
     IF \E i \in 1 .. Len(log) : IsLatest(log, p, i)
     THEN Post(log[CHOOSE i \in 1 .. Len(log) : IsLatest(log, p, i)])
     ELSE NoRow]

\* The keys of S in the order the code visits them.  It sorts them as text;
\* any fixed total order serves, and here it is that of the integers.
Ascending(S) ==
  {s \in [1 .. Cardinality(S) -> S] :
     \A i, j \in 1 .. Cardinality(S) : i < j => s[i] < s[j]}
=============================================================================

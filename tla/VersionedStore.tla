--------------------------- MODULE VersionedStore ---------------------------
(***************************************************************************)
(* What a versioned table promises, with no hash chain, no transaction and *)
(* no thread: a table, and a log in which every change of the table is     *)
(* recorded, in order and once.  A change is recorded only where it is a   *)
(* change: an insert of an absent row, an update or a delete of a present  *)
(* one.                                                                    *)
(***************************************************************************)
EXTENDS ChangeLog

VARIABLES
  table,      \* the current rows
  recording,  \* the table is versioned
  log         \* every change since it became so

vars == <<table, recording, log>>

Init ==
  /\ table = Empty
  /\ recording = FALSE
  /\ log = <<>>

\* Before versioning a write leaves no trace.
Load ==
  /\ ~recording
  /\ table' \in Table
  /\ UNCHANGED <<recording, log>>

\* Versioning starts with an insert for each row already there.
StartRecording ==
  /\ ~recording /\ recording'
  /\ \A i \in DOMAIN log' : log'[i].op = "insert"
  /\ Len(log') = Cardinality(Present(table))
  /\ Replay(log') = table
  /\ UNCHANGED table

\* A row that moves to another key is a delete and an update, side by side
\* and with the same content.
IsMove(cs, i) ==
  /\ i > 1
  /\ cs[i - 1] = Del(cs[i - 1].pk, cs[i].row)
  /\ cs[i].op = "update"

Legal(cs) ==
  /\ \A i, j \in DOMAIN cs : cs[i].pk = cs[j].pk => i = j
  /\ \A i \in DOMAIN cs :
       IF cs[i].op = "insert" \/ IsMove(cs, i)
       THEN table[cs[i].pk] = NoRow
       ELSE table[cs[i].pk] # NoRow

\* One transaction: some changes, each of another row.
Record ==
  LET new == SubSeq(log', Len(log) + 1, Len(log')) IN
  /\ recording
  /\ Len(log') > Len(log)
  /\ SubSeq(log', 1, Len(log)) = log
  /\ Legal(new)
  /\ table' = Replay(log')
  /\ UNCHANGED recording

Next == Load \/ StartRecording \/ Record

Spec == Init /\ [][Next]_vars
=============================================================================

------------------------------ MODULE Journal ------------------------------
(***************************************************************************)
(* The self-healing journal of one table with one LONGTEXT column          *)
(* (journal.py, crud.py, maintenance.py, analytics.py).                    *)
(*                                                                         *)
(* A write commits the row and its journal entries in one SQLite           *)
(* transaction; `_process_journal` later applies the entries, oldest       *)
(* first, to the Chroma collection and to the DuckDB mirror, and removes   *)
(* them.  Chroma and DuckDB do not share the transaction.  An action is    *)
(* one critical section of the instance's RLock; reconcile, which does not *)
(* hold it while it talks to Chroma, is a chain of four.                   *)
(*                                                                         *)
(* The collection is keyed by the primary key (the scheme of collections   *)
(* created since 0.7).  Embeddings and metadata are left out: a vector is  *)
(* the document it was made from.                                          *)
(***************************************************************************)
EXTENDS Integers, Sequences, FiniteSets

CONSTANTS
  Threads,      \* the threads that use the instance
  Reconcilers,  \* those among them that call reconcile
  PK,           \* primary keys
  IntegerKey,   \* TRUE: INTEGER PRIMARY KEY, an alias of rowid; FALSE: TEXT
  RowIds,       \* the rowids SQLite hands out
  Doc, NoDoc,   \* documents; no row, or no vector, under a key
  DuckStarts,   \* what _init_duckdb can come to: TRUE a connection, FALSE None
  ChromaStarts, \* what _init_chroma can come to: TRUE a client, FALSE None
  BatchLimit,   \* batch_limit of _process_journal
  Cap,          \* JOURNAL_CAP
  MaxPending    \* bound: no write that would leave more entries than this

ASSUME ReconcilersAssumption == Reconcilers \subseteq Threads
ASSUME KeyAssumption ==
  /\ IntegerKey \in BOOLEAN
  /\ PK \subseteq Int /\ RowIds \subseteq Nat \ {0}
  /\ IntegerKey => RowIds = PK
ASSUME NoDocAssumption == NoDoc \notin Doc
ASSUME SwitchAssumption ==
  \A starts \in {DuckStarts, ChromaStarts} :
    starts \subseteq BOOLEAN /\ starts # {}
ASSUME BoundAssumption ==
  BatchLimit \in Nat \ {0} /\ Cap \in Nat /\ MaxPending \in Nat

VARIABLES
  rows,          \* the table
  rowid,         \* the rowid of the row of a key, 0 if there is none
  journal,       \* _journal, in id order
  chroma,        \* the collection
  up,            \* this instance has a Chroma client
  duckUp,        \* this instance has a DuckDB connection
  mirrored,      \* the table is in _duckdb_sync of analytics.duckdb
  mirror,        \* the DuckDB table
  disabled,      \* _hybrid_disabled of the table
  pc, local,     \* per thread: the operation in progress and what it holds
  lost,          \* auxiliary: Chroma keys with an entry dropped in an outage
  lostMirror     \* auxiliary: rows DuckDB failed to copy, or could not

sqlite == <<rows, rowid>>
duck   == <<duckUp, mirrored, mirror, lostMirror>>
vector == <<chroma, up, lost>>
thread == <<pc, local>>
vars   == <<rows, rowid, journal, chroma, up, duckUp, mirrored, mirror,
            disabled, pc, local, lost, lostMirror>>

Keys    == PK \cup RowIds
Content == Doc \cup {NoDoc}
Present(table) == {p \in PK : table[p] # NoDoc}
NoRows  == [p \in PK |-> NoDoc]

-----------------------------------------------------------------------------
(***************************************************************************)
(* Journal entries.  `at` is row_id for adds and updates and, for deletes, *)
(* the primary key that `data` carries; `doc` is the `data` of an add or   *)
(* update of the column.  A row_ entry is for the mirror and names a row.  *)
(***************************************************************************)
VectorOps == {"add", "update", "delete"}
RowOps    == {"row_add", "row_update", "row_delete"}
Entry     == [op : VectorOps \cup RowOps, at : Keys, doc : Content]

VectorEntry(op, at, doc) == [op |-> op, at |-> at, doc |-> doc]
RowEntry(op, at)         == [op |-> op, at |-> at, doc |-> NoDoc]

\* Seeded bug: the rowid is read before the row is inserted.
AddEntriesEarly(r, d) == <<VectorEntry("add", 0, d), RowEntry("row_add", 0)>>

AddEntries(r, d) == <<VectorEntry("add", r, d), RowEntry("row_add", r)>>

UpdateEntries(r, d) ==
  <<VectorEntry("update", r, d), RowEntry("row_update", r)>>

DeleteEntries(p) ==
  <<VectorEntry("delete", p, NoDoc), RowEntry("row_delete", p)>>

\* Seeded bug: the old key is left where it is.
MoveEntriesAddOnly(p, r, d) == AddEntries(r, d)

\* A change of primary key: the old key goes, the row is added again.
MoveEntries(p, r, d) ==
  <<VectorEntry("delete", p, NoDoc), VectorEntry("add", r, d),
    RowEntry("row_delete", p), RowEntry("row_add", r)>>

\* The Chroma key of an entry, resolved when the entry is applied: an add or
\* update whose row is gone falls back to the rowid itself.
KeyOf(e) ==
  IF e.op # "delete" /\ \E p \in Present(rows) : rowid[p] = e.at
  THEN CHOOSE p \in Present(rows) : rowid[p] = e.at
  ELSE e.at

Touches(e, k) == e.op \in VectorOps /\ KeyOf(e) = k

Touched(batch) == {k \in Keys : \E i \in DOMAIN batch : Touches(batch[i], k)}

\* Seeded bug: the oldest entry of a key decides, not the newest.
DecidesFirst(batch, k, i) ==
  /\ Touches(batch[i], k)
  /\ \A j \in 1 .. i - 1 : ~Touches(batch[j], k)

\* Last-op-wins per resolved key.
Decides(batch, k, i) ==
  /\ Touches(batch[i], k)
  /\ \A j \in i + 1 .. Len(batch) : ~Touches(batch[j], k)

\* The collection after a batch: what _apply_chroma_entries leaves.
ChromaAfter(batch) ==
  [k \in Keys |->
     IF k \in Touched(batch)
     THEN batch[CHOOSE i \in DOMAIN batch : Decides(batch, k, i)].doc
     ELSE chroma[k]]

\* The deletes come before the upserts; a failure between leaves this.
ChromaDeletesOnly(batch) ==
  [k \in Keys |-> IF k \in Touched(batch) /\ ChromaAfter(batch)[k] = NoDoc
                  THEN NoDoc ELSE chroma[k]]

\* The rows a batch adds or updates, as far as they are still there, and the
\* keys of those it deletes.
Refreshed(batch) ==
  {p \in Present(rows) :
     \E i \in DOMAIN batch :
       batch[i].op \in {"row_add", "row_update"} /\ batch[i].at = rowid[p]}

Dropped(batch) ==
  {p \in PK : \E i \in DOMAIN batch :
                batch[i].op = "row_delete" /\ batch[i].at = p}

\* Seeded bug: the deletes come after the inserts.
MirrorAfterDeletesLast(batch) ==
  [p \in PK |-> IF p \in Dropped(batch) THEN NoDoc
                ELSE IF p \in Refreshed(batch) THEN rows[p]
                ELSE mirror[p]]

\* The mirror after a batch: the deletes, then copies of the current rows.
MirrorAfter(batch) ==
  [p \in PK |-> IF p \in Refreshed(batch) THEN rows[p]
                ELSE IF p \in Dropped(batch) THEN NoDoc
                ELSE mirror[p]]

-----------------------------------------------------------------------------
(***************************************************************************)
(* Threads.  `drain` says that the batch in progress is one of those       *)
(* insert_batch runs until the journal is empty; `ids` and `docs` are what *)
(* reconcile has read.                                                     *)
(***************************************************************************)
Steps == {"idle", "process", "drain", "recheck", "clear",
          "rc_rows", "rc_ghosts", "rc_missing"}

Locals == [drain : BOOLEAN, ids : SUBSET Keys, docs : [PK -> Content]]

Blank == [drain |-> FALSE, ids |-> {}, docs |-> NoRows]

Goto(t, step, l) ==
  /\ pc' = [pc EXCEPT ![t] = step]
  /\ local' = [local EXCEPT ![t] = l]

\* Seeded bug: insert_batch processes one batch and returns.
ReturnOnce(t) == Goto(t, "idle", Blank)

Return(t) == Goto(t, IF local[t].drain THEN "drain" ELSE "idle", Blank)

Init ==
  /\ rows = NoRows
  /\ rowid = [p \in PK |-> 0]
  /\ journal = <<>>
  /\ chroma = [k \in Keys |-> NoDoc]
  /\ up \in ChromaStarts
  /\ duckUp \in DuckStarts
  /\ mirrored = FALSE
  /\ mirror = NoRows
  /\ disabled = FALSE
  /\ pc = [t \in Threads |-> "idle"]
  /\ local = [t \in Threads |-> Blank]
  /\ lost = {}
  /\ lostMirror = {}

-----------------------------------------------------------------------------
(***************************************************************************)
(* Writes: the row and its entries in one transaction, then, with          *)
(* sync=True, a call of _process_journal.                                  *)
(***************************************************************************)
Commit(t, entries, after) ==
  /\ pc[t] = "idle"
  /\ Len(journal) + Len(entries) <= MaxPending
  /\ journal' = journal \o entries
  /\ Goto(t, after, Blank)
  /\ UNCHANGED <<vector, duck, disabled>>

\* An INTEGER primary key is the rowid; otherwise SQLite takes one more than
\* the largest rowid in use.
IsNewRowId(p, r) ==
  IF IntegerKey THEN r = p
  ELSE /\ \A q \in PK : rowid[q] < r
       /\ r = 1 \/ \E q \in PK : rowid[q] = r - 1

Insert(t, p, d, after) ==
  /\ rows[p] = NoDoc
  /\ rows' = [rows EXCEPT ![p] = d]
  /\ \E r \in RowIds :
       /\ IsNewRowId(p, r)
       /\ rowid' = [rowid EXCEPT ![p] = r]
       /\ Commit(t, AddEntries(r, d), after)

InsertBatch(t, p, q, d, after) ==
  /\ p # q /\ rows[p] = NoDoc /\ rows[q] = NoDoc
  /\ rows' = [rows EXCEPT ![p] = d, ![q] = d]
  /\ \E r, s \in RowIds :
       /\ IsNewRowId(p, r)
       /\ IF IntegerKey THEN s = q ELSE s = r + 1
       /\ rowid' = [rowid EXCEPT ![p] = r, ![q] = s]
       /\ Commit(t, AddEntries(r, d) \o AddEntries(s, d), after)

Update(t, p, d, after) ==
  /\ rows[p] # NoDoc
  /\ rows' = [rows EXCEPT ![p] = d]
  /\ UNCHANGED rowid
  /\ Commit(t, UpdateEntries(rowid[p], d), after)

\* The rowid moves with an INTEGER primary key and stays with a TEXT one.
ChangeKey(t, p, q, d, after) ==
  LET r == IF IntegerKey THEN q ELSE rowid[p] IN
  /\ p # q /\ rows[p] # NoDoc /\ rows[q] = NoDoc
  /\ rows' = [rows EXCEPT ![p] = NoDoc, ![q] = d]
  /\ rowid' = [rowid EXCEPT ![p] = 0, ![q] = r]
  /\ Commit(t, MoveEntries(p, r, d), after)

Delete(t, p, after) ==
  /\ rows[p] # NoDoc
  /\ rows' = [rows EXCEPT ![p] = NoDoc]
  /\ rowid' = [rowid EXCEPT ![p] = 0]
  /\ Commit(t, DeleteEntries(p), after)

-----------------------------------------------------------------------------
(***************************************************************************)
(* _process_journal: called by a synchronous write, in a loop by           *)
(* insert_batch, and at any time by a search or process_journal().         *)
(***************************************************************************)
Batch == SubSeq(journal, 1, IF BatchLimit < Len(journal)
                            THEN BatchLimit ELSE Len(journal))

Callable(t) == pc[t] \in {"idle", "process", "drain"} /\ journal # <<>>

FlagOverflow == disabled' = (disabled \/ Len(journal) > Cap)

\* Without a client every entry of the collection is passed over.
ApplyToChroma(batch) ==
  /\ IF up
     THEN chroma' = ChromaAfter(batch) /\ lost' = lost \ Touched(batch)
     ELSE UNCHANGED chroma /\ lost' = lost \cup Touched(batch)
  /\ UNCHANGED up

RowsOf(batch) == Refreshed(batch) \cup Dropped(batch)

\* The DELETE of a batch was executed, the INSERT not.
MirrorHalfway(batch) ==
  [p \in PK |-> IF p \in RowsOf(batch) THEN NoDoc ELSE mirror[p]]

\* Without a connection nothing is applied; an exception out of DuckDB is
\* logged and no more.
ApplyToMirror(batch) ==
  /\ UNCHANGED <<duckUp, mirrored>>
  /\ \/ /\ mirrored /\ duckUp
        /\ mirror' = MirrorAfter(batch)
        /\ lostMirror' = lostMirror \ RowsOf(batch)
     \/ /\ mirrored
        /\ mirror' \in {mirror} \cup (IF duckUp THEN {MirrorHalfway(batch)}
                                    ELSE {})
        /\ lostMirror' = lostMirror \cup RowsOf(batch)
     \/ ~mirrored /\ UNCHANGED <<mirror, lostMirror>>

\* Seeded bug: whatever the journal holds is removed, applied or not.
RestAll == <<>>

\* The entries that stay: those of the batch are removed by their ids.
Rest == SubSeq(journal, Len(Batch) + 1, Len(journal))

Process(t) ==
  /\ Callable(t)
  /\ FlagOverflow
  /\ ApplyToChroma(Batch)
  /\ ApplyToMirror(Batch)
  /\ journal' = Rest
  /\ Goto(t, "recheck", [Blank EXCEPT !.drain = pc[t] = "drain"])
  /\ UNCHANGED sqlite

\* Nothing pending: _process_journal returns 0, insert_batch returns.
ProcessNothing(t) ==
  /\ pc[t] \in {"process", "drain"} /\ journal = <<>>
  /\ Goto(t, "idle", Blank)
  /\ UNCHANGED <<sqlite, journal, vector, duck, disabled>>

\* Chroma or the embedding function raises: the exception reaches the
\* caller, the entries stay, what Chroma did stays too.
ProcessRaises(t) ==
  /\ Callable(t) /\ up
  /\ FlagOverflow
  /\ chroma' \in {chroma, ChromaDeletesOnly(Batch), ChromaAfter(Batch)}
  /\ Goto(t, "idle", Blank)
  /\ UNCHANGED <<sqlite, journal, up, lost, duck>>

\* Seeded bug: the flag is looked at again only when nothing is pending.
RecoveredEmpty == disabled /\ journal = <<>>

Recovered == disabled /\ Len(journal) <= Cap

\* The pending entries are counted again in a transaction of its own, and the
\* flag is removed after it.
Recheck(t) ==
  /\ pc[t] = "recheck"
  /\ IF Recovered THEN Goto(t, "clear", local[t]) ELSE Return(t)
  /\ UNCHANGED <<sqlite, journal, vector, duck, disabled>>

Clear(t) ==
  /\ pc[t] = "clear"
  /\ disabled' = FALSE
  /\ Return(t)
  /\ UNCHANGED <<sqlite, journal, vector, duck>>

-----------------------------------------------------------------------------
(***************************************************************************)
(* reconcile: the ids of the collection, then the rows, then the ghosts    *)
(* are deleted, then the missing documents added.                          *)
(***************************************************************************)
ReconcileIds(t) ==
  /\ pc[t] = "idle" /\ t \in Reconcilers /\ up
  /\ Goto(t, "rc_rows",
          [Blank EXCEPT !.ids = {k \in Keys : chroma[k] # NoDoc}])
  /\ UNCHANGED <<sqlite, journal, vector, duck, disabled>>

ReconcileRows(t) ==
  /\ pc[t] = "rc_rows"
  /\ Goto(t, "rc_ghosts", [local[t] EXCEPT !.docs = rows])
  /\ UNCHANGED <<sqlite, journal, vector, duck, disabled>>

Ghosts(l) == l.ids \ Present(l.docs)

\* Seeded bug: the two sets of ids are of different types and never differ.
MissingNone(l) == {}

Missing(l) == Present(l.docs) \ l.ids

ReconcileGhosts(t) ==
  /\ pc[t] = "rc_ghosts"
  /\ chroma' = [k \in Keys |-> IF k \in Ghosts(local[t]) THEN NoDoc
                               ELSE chroma[k]]
  /\ lost' = lost \ Ghosts(local[t])
  /\ Goto(t, "rc_missing", local[t])
  /\ UNCHANGED <<sqlite, journal, up, duck, disabled>>

ReconcileMissing(t) ==
  /\ pc[t] = "rc_missing"
  /\ chroma' = [k \in Keys |-> IF k \in Missing(local[t])
                               THEN local[t].docs[k] ELSE chroma[k]]
  /\ lost' = lost \ Missing(local[t])
  /\ disabled' = FALSE
  /\ Goto(t, "idle", Blank)
  /\ UNCHANGED <<sqlite, journal, up, duck>>

\* An exception between the steps is logged; reconcile returns as usual.
ReconcileRaises(t) ==
  /\ pc[t] \in {"rc_rows", "rc_ghosts", "rc_missing"}
  /\ Goto(t, "idle", Blank)
  /\ UNCHANGED <<sqlite, journal, vector, duck, disabled>>

\* analytics() registers a table with a full copy; sync_duckdb_table empties
\* the mirror and copies again.
SyncMirror(t) ==
  /\ pc[t] = "idle" /\ duckUp
  /\ mirrored' = TRUE
  /\ mirror' = rows
  /\ lostMirror' = {}
  /\ UNCHANGED <<sqlite, journal, vector, duckUp, disabled, thread>>

\* It raises between the DELETE and the INSERT: the mirror is registered and
\* empty, and analytics() does not copy it again.
SyncMirrorFails(t) ==
  /\ pc[t] = "idle" /\ duckUp
  /\ mirrored' = TRUE
  /\ mirror' = NoRows
  /\ lostMirror' = PK
  /\ UNCHANGED <<sqlite, journal, vector, duckUp, disabled, thread>>

DropMirror ==
  mirrored' = FALSE /\ mirror' = NoRows /\ lostMirror' = {}

\* unregister_duckdb_table.
UnregisterMirror(t) ==
  /\ pc[t] = "idle" /\ duckUp /\ mirrored
  /\ DropMirror
  /\ UNCHANGED <<sqlite, journal, vector, duckUp, disabled, thread>>

(***************************************************************************)
(* The process dies and the database is opened again.  The journal is not  *)
(* looked at.  Mirrors are kept in a file; one that cannot be read is      *)
(* dropped, and registered anew by the next analytics().                   *)
(***************************************************************************)
Reopen ==
  /\ up' \in ChromaStarts
  /\ duckUp' \in DuckStarts
  /\ disabled' = FALSE
  /\ pc' = [t \in Threads |-> "idle"]
  /\ local' = [t \in Threads |-> Blank]
  /\ UNCHANGED <<sqlite, journal, lost>>

Restart ==
  /\ Reopen
  /\ UNCHANGED chroma
  /\ \/ UNCHANGED <<mirrored, mirror, lostMirror>>
     \/ mirrored /\ duckUp' /\ DropMirror

\* It dies in _process_journal: what Chroma and DuckDB did stays, the
\* transaction that removes the entries is rolled back.
ProcessDies(t) ==
  /\ Callable(t)
  /\ chroma' = IF up THEN ChromaAfter(Batch) ELSE chroma
  /\ mirror' \in {mirror} \cup (IF duckUp /\ mirrored
                               THEN {MirrorHalfway(Batch), MirrorAfter(Batch)}
                               ELSE {})
  /\ Reopen
  /\ UNCHANGED <<mirrored, lostMirror>>

-----------------------------------------------------------------------------
Writes(t) ==
  \/ \E after \in {"idle", "process"}, p \in PK :
       \/ \E d \in Doc : Insert(t, p, d, after) \/ Update(t, p, d, after)
       \/ \E q \in PK, d \in Doc : ChangeKey(t, p, q, d, after)
       \/ Delete(t, p, after)
  \/ \E after \in {"idle", "drain"}, p, q \in PK, d \in Doc :
       InsertBatch(t, p, q, d, after)

\* What a thread does next in an operation it has begun.
Continue(t) ==
  \/ ProcessNothing(t) \/ Recheck(t) \/ Clear(t)
  \/ ReconcileRows(t) \/ ReconcileGhosts(t) \/ ReconcileMissing(t)

ThreadStep(t) ==
  \/ Writes(t) \/ Process(t) \/ ProcessRaises(t)
  \/ Continue(t)
  \/ ReconcileIds(t) \/ ReconcileRaises(t)
  \/ SyncMirror(t) \/ SyncMirrorFails(t) \/ UnregisterMirror(t)
  \/ ProcessDies(t)

Next == Restart \/ \E t \in Threads : ThreadStep(t)

Spec == Init /\ [][Next]_vars

\* Operations in progress go on, and the application keeps searching or
\* calling process_journal, now and then without an exception.
Fairness ==
  /\ \A t \in Threads : WF_vars(Continue(t))
  /\ SF_vars(\E t \in Threads : Process(t))

LiveSpec == Spec /\ Fairness

-----------------------------------------------------------------------------
(***************************************************************************)
(* Properties.                                                             *)
(***************************************************************************)

\* Every variable has its type.
TypeOK ==
  /\ rows \in [PK -> Content]
  /\ rowid \in [PK -> RowIds \cup {0}]
  /\ journal \in Seq(Entry)
  /\ chroma \in [Keys -> Content]
  /\ up \in BOOLEAN
  /\ duckUp \in BOOLEAN
  /\ mirrored \in BOOLEAN
  /\ mirror \in [PK -> Content]
  /\ disabled \in BOOLEAN
  /\ pc \in [Threads -> Steps]
  /\ local \in [Threads -> Locals]
  /\ lost \subseteq Keys
  /\ lostMirror \subseteq PK

RowDoc(k) == IF k \in PK THEN rows[k] ELSE NoDoc

\* Whatever was interrupted, repeated, cut into batches or reconciled: the
\* pending entries are exactly what Chroma lacks.  Only keys whose entries
\* were dropped for want of a client are excepted.
JournalClosesGap ==
  \A k \in Keys \ lost : ChromaAfter(journal)[k] = RowDoc(k)

\* The same of the DuckDB mirror, which is told only which rows to copy, and
\* may copy them before all their entries are there: only rows whose entries
\* were dropped without a connection or by an exception are excepted.
MirrorClosesGap ==
  mirrored => \A p \in PK \ lostMirror : MirrorAfter(journal)[p] = rows[p]

\* "Now ChromaDB is consistent with SQLite": no pending entry, no drift.
DrainedMeansInSync ==
  up /\ journal = <<>> => \A k \in Keys : chroma[k] = RowDoc(k)

\* Hybrid search is off only while too much is pending, or a thread is about
\* to count again: no interleaving leaves it off for good.
OffOnlyInOverflow ==
  disabled => \/ Len(journal) > Cap
              \/ \E t \in Threads : pc[t] \in {"recheck", "clear"}

\* A reconcile that nobody disturbs leaves a vector under the key of every
\* row and under no other, whatever was lost before.
ReconcileAligns ==
  [][\A t \in Threads : ReconcileMissing(t) =>
       \A k \in Keys : chroma'[k] # NoDoc <=> RowDoc(k) # NoDoc]_vars

\* insert_batch(sync=True) returns with Chroma current, whatever backlog it
\* found and whoever else processed part of it.
BatchReturnsCurrent ==
  [][\A t \in Threads :
       Continue(t) /\ (pc[t] = "drain" \/ local[t].drain) /\ pc'[t] = "idle"
         => \A k \in Keys \ lost : chroma[k] = RowDoc(k)]_vars

\* Once a row is no longer written, its vector becomes and stays that of its
\* document, however often processing raises or the process dies.
SettledRowsGetIndexed ==
  \A p \in PK, d \in Doc :
    <>[](rows[p] = d) => <>[](chroma[p] = d \/ p \in lost)
=============================================================================

------------------------------- MODULE Schema -------------------------------
(***************************************************************************)
(* Schema changes (schema.py) of one table while its journal holds entries:*)
(* add_column, drop_column and rename_column, what they do to the table,   *)
(* to its registration in _schema and to the collections, one per LONGTEXT *)
(* column, and the meta_update entries by which the journal brings the     *)
(* metadata of vectors up to date.                                         *)
(*                                                                         *)
(* A change reads the registration in one transaction and writes in        *)
(* another.  Python's sqlite3 opens a transaction at the first INSERT:     *)
(* what ALTER TABLE and CREATE TABLE do before it stays, whatever becomes  *)
(* of the rest.                                                            *)
(*                                                                         *)
(* Keys are INTEGER, so a rowid is a key.  A column that is not LONGTEXT   *)
(* is INTEGER, and of the metadata of a vector only the names are kept.    *)
(* The journal is processed as in Journal, which has its failures; the     *)
(* DuckDB mirror and versioned tables, whose schema is fixed, are left     *)
(* out.  The full-text index of a LONGTEXT column is a table of its own    *)
(* that triggers keep up with the rows; a keyword is a whole document.     *)
(***************************************************************************)
EXTENDS Integers, FiniteSets, Sequences

CONSTANTS
  Threads,
  Col,           \* names of columns
  PK,            \* keys
  Doc,           \* what a column of a row can hold
  Null,          \* NULL
  NoRow,         \* there is no row under a key
  NoVec,         \* there is no vector under a key
  BatchLimit,    \* entries that _process_journal takes: 5000
  MaxPending,    \* bound on the journal
  Mixes          \* what an application may confine itself to

Kind == {"LONGTEXT", "INTEGER"}

\* _schema: the kind of every registered column.
Registry == [Col -> Kind \cup {"none"}]
Row      == [Col -> Doc \cup {Null}]
Rows     == [PK -> Row \cup {NoRow}]
Table    == [there : BOOLEAN, cols : SUBSET Col, rows : Rows]

\* A vector: the document it was made from, the names of its metadata.
Vec      == [doc : Doc \cup {Null}, meta : SUBSET Col]
Vectors  == [PK -> Vec \cup {NoVec}]
Change   == [op : {"add", "drop", "rename"}, col : Col, to : Col, kind : Kind]

\* The full-text index of a column: what it has for a key, where its triggers
\* are, if there are any, and the column that they read.
Index    == [there : BOOLEAN, docs : [PK -> Doc \cup {Null}],
             on : {"none", "table", "old"}, reads : Col]
Entry    == [op : {"add", "update", "delete", "meta_update"}, col : Col,
             at : PK \cup {0}, doc : Doc \cup {Null}, meta : SUBSET Col]

Steps == {"idle", "add", "drop", "rename", "reindex", "reindex_write"}
Local == [change : Change, meta : Registry, cols : SUBSET Col, rows : Rows]

AllOps == {"insert", "update", "delete", "process", "create", "reindex",
           "fail", "restart"}

\* A mix: the threads, operations and schema changes an application uses, the
\* keys and contents of its rows, the schema it passes to create_table, and
\* whether that leaves the key to be the implicit id.
Mix == [threads : SUBSET Threads, ops : SUBSET AllOps,
        changes : SUBSET Change, keys : SUBSET PK,
        docs : SUBSET (Doc \cup {Null}), declared : Registry,
        implicit : BOOLEAN]

ASSUME KeyAssumption   == PK # {} /\ IsFiniteSet(PK) /\ PK = 1 .. Cardinality(PK)
ASSUME ColAssumption   == Col # {} /\ IsFiniteSet(Col)
ASSUME NullAssumption  == Null \notin Doc /\ NoRow \notin Row /\ NoVec \notin Vec
ASSUME LimitAssumption == BatchLimit \in Nat \ {0} /\ MaxPending \in Nat
ASSUME MixAssumption   == Mixes \subseteq Mix

VARIABLES
  mix,       \* what this application confines itself to
  table,     \* the table
  old,       \* _t_old, to which drop_column moves the table
  registry,  \* its row of _schema
  fts,       \* the full-text indexes, by name of column
  journal,   \* _journal, pending entries
  chroma,    \* the collections, by name of column; none is an empty one
  pc, local, \* per thread: what is in progress and what it holds
  alone,     \* auxiliary: no other thread has done anything since it began
  drift,     \* auxiliary: something happened that the journal cannot repair
  torn,      \* auxiliary: a change ran into another or broke off
  had        \* auxiliary: names that rows under a key have given to metadata
             \* since they were last made anew or nothing was left of any

sqlite == <<table, old, registry, fts>>
flaws  == <<drift, torn>>
vars   == <<mix, sqlite, journal, chroma, pc, local, alone, flaws, had>>

NoRows    == [k \in PK |-> NoRow]
NoVectors == [k \in PK |-> NoVec]
Gone      == [there |-> FALSE, cols |-> {}, rows |-> NoRows]

Present(rows) == {k \in PK : rows[k] # NoRow}
Named(reg)    == {c \in Col : reg[c] # "none"}
LongText(reg) == {c \in Col : reg[c] = "LONGTEXT"}

NoDocs     == [k \in PK |-> Null]
NoIndex(c) == [there |-> FALSE, docs |-> NoDocs, on |-> "none", reads |-> c]

Blank == [change |-> [op |-> "add", col |-> CHOOSE c \in Col : TRUE,
                      to |-> CHOOSE c \in Col : TRUE, kind |-> "INTEGER"],
          meta |-> [c \in Col |-> "none"], cols |-> {}, rows |-> NoRows]

Init ==
  /\ mix \in Mixes
  /\ table = [there |-> TRUE, cols |-> Named(mix.declared), rows |-> NoRows]
  /\ old = Gone
  /\ registry = mix.declared
  /\ fts = [c \in Col |->
              [NoIndex(c) EXCEPT
                 !.there = c \in LongText(registry),
                 !.on = IF c \in LongText(registry) THEN "table" ELSE "none"]]
  /\ journal = <<>>
  /\ chroma = [c \in Col |-> NoVectors]
  /\ pc = [t \in Threads |-> "idle"]
  /\ local = [t \in Threads |-> Blank]
  /\ alone = [t \in Threads |-> TRUE]
  /\ drift = FALSE
  /\ torn = FALSE
  /\ had = [k \in PK |-> {}]

-----------------------------------------------------------------------------
(***************************************************************************)
(* Threads.                                                                *)
(***************************************************************************)
Goto(t, step, l) ==
  /\ pc' = [pc EXCEPT ![t] = step]
  /\ local' = [local EXCEPT ![t] = l]
  /\ alone' = [u \in Threads |-> u = t /\ (alone[t] \/ pc[t] = "idle")]
  /\ UNCHANGED mix

Return(t) == Goto(t, "idle", Blank)

Begin(t, op) == pc[t] = "idle" /\ op \in mix.ops

-----------------------------------------------------------------------------
(***************************************************************************)
(* Vectors and their metadata.                                             *)
(***************************************************************************)
\* _row_to_metadata: the columns of a row that are not LONGTEXT and not NULL.
Meta(row) == {c \in Col : registry[c] = "INTEGER" /\ row[c] # Null}

Names(row) == IF row = NoRow THEN {} ELSE Meta(row)

\* Chroma refuses metadata without a name.  A declared key is always one.
Refused(row) == mix.implicit /\ Meta(row) = {}

\* Seeded bug: the names given become one name.
UpsertedNested(v, doc, names) ==
  [doc |-> doc, meta |-> IF v = NoVec THEN names ELSE v.meta \cup {names}]

\* An upsert replaces the document and merges the metadata.
Upserted(v, doc, names) ==
  [doc |-> doc, meta |-> IF v = NoVec THEN names ELSE v.meta \cup names]

\* The last entry of a batch for a vector decides, if there is one.
Matching(batch, c, k) ==
  {i \in DOMAIN batch : /\ batch[i].op # "meta_update"
                        /\ batch[i].col = c /\ batch[i].at = k}

Last(batch, c, k) ==
  {i \in Matching(batch, c, k) : \A j \in Matching(batch, c, k) : j <= i}

Applied(batch) ==
  [c \in Col |-> [k \in PK |->
     IF Last(batch, c, k) = {} THEN chroma[c][k]
     ELSE LET entry == batch[CHOOSE i \in DOMAIN batch : i \in Last(batch, c, k)]
          IN  IF entry.op = "delete" THEN NoVec
              ELSE Upserted(chroma[c][k], entry.doc, entry.meta)]]

\* Seeded bug: rows without a vector are passed over.
MetaUpdatedOnly(vectors, c) ==
  [k \in PK |-> IF table.rows[k] = NoRow \/ vectors[k] = NoVec THEN vectors[k]
                ELSE [vectors[k] EXCEPT !.meta = Meta(table.rows[k])]]

\* Seeded bug: the metadata are upserted, and so merged.
MetaMerged(vectors, c) ==
  [k \in PK |-> IF table.rows[k] = NoRow THEN vectors[k]
                ELSE Upserted(vectors[k], table.rows[k][c],
                              Meta(table.rows[k]))]

\* _process_meta_update: the vectors of rows are deleted and added again, and
\* then those made that are missing.  What is refused is not added, nor
\* anything with it or after it.
MetaUpdated(vectors, c) ==
  LET have == {k \in Present(table.rows) : vectors[k] # NoVec}
      lack == Present(table.rows) \ have
      bad(S) == \E k \in S : Refused(table.rows[k]) IN
  [k \in PK |->
     IF k \in have
     THEN IF bad(have) THEN NoVec
          ELSE [vectors[k] EXCEPT !.meta = Meta(table.rows[k])]
     ELSE IF k \in lack /\ c \in table.cols /\ ~bad(have) /\ ~bad(lack)
     THEN [doc |-> table.rows[k][c], meta |-> Meta(table.rows[k])]
     ELSE vectors[k]]

MetaPending(batch, c) ==
  \E i \in DOMAIN batch : batch[i].op = "meta_update" /\ batch[i].col = c

\* The meta_updates of a batch come after everything else.
ChromaAfter(batch) ==
  [c \in Col |-> IF MetaPending(batch, c) THEN MetaUpdated(Applied(batch)[c], c)
                 ELSE Applied(batch)[c]]

\* A meta_update that will be refused something.
Loses(batch) ==
  /\ \E c \in Col : MetaPending(batch, c)
  /\ \E k \in Present(table.rows) : Refused(table.rows[k])

\* One that passes over a vector whose deletion is in a later batch: its old
\* metadata are merged with those of the row that is inserted in its place.
PassesOver(batch) ==
  \E c \in Col, k \in PK : /\ MetaPending(batch, c)
                           /\ table.rows[k] = NoRow
                           /\ ChromaAfter(batch)[c][k] # NoVec

-----------------------------------------------------------------------------
(***************************************************************************)
(* Full-text indexes (_create_fts5, _drop_fts5, _rebuild_all_fts5) and the *)
(* keyword search in them.                                                 *)
(***************************************************************************)
Docs(rows, c) == [k \in PK |-> IF rows[k] = NoRow THEN Null ELSE rows[k][c]]

\* CREATE ... IF NOT EXISTS: triggers that are there stay where they are.
Made(F, c) ==
  [F EXCEPT ![c] = [F[c] EXCEPT !.there = TRUE,
                                !.on = IF @ = "none" THEN "table" ELSE @]]

\* Seeded bug: an index that is created is not filled from the rows there.
MadeOnly(F, c, rows) == Made(F, c)

\* ... and it is filled from the rows.
Built(F, c, rows) == [Made(F, c) EXCEPT ![c].docs = Docs(rows, c)]

Dropped(F, c) == [F EXCEPT ![c] = NoIndex(c)]

\* It is dropped and created again.
Rebuilt(F, C, rows) ==
  [c \in Col |-> IF c \in C
                 THEN [there |-> TRUE, docs |-> Docs(rows, c), on |-> "table",
                       reads |-> c]
                 ELSE F[c]]

\* Python's sqlite3 opens the transaction when the first index is filled: what
\* a call that breaks off leaves of it is there, and not filled.
Started(F, c) == {F, [F EXCEPT ![c].there = TRUE], Made(F, c)}

\* The triggers of the table follow a write.
Fired(k, row) ==
  [c \in Col |->
     IF fts[c].on # "table" THEN fts[c]
     ELSE [fts[c] EXCEPT !.docs[k] = IF row = NoRow THEN Null
                                     ELSE row[fts[c].reads]]]

\* A trigger reads a column that the table does not have: nothing is written
\* or renamed any more.
Jammed(F, cols) == \E c \in Col : F[c].on = "table" /\ F[c].reads \notin cols

\* ALTER TABLE moves the triggers with the table, and rewrites them when it
\* renames a column.
MovedTriggers ==
  [c \in Col |-> IF fts[c].on = "table" THEN [fts[c] EXCEPT !.on = "old"]
                 ELSE fts[c]]

RenamedTriggers(from, to) ==
  [c \in Col |-> IF fts[c].on = "table" /\ fts[c].reads = from
                 THEN [fts[c] EXCEPT !.reads = to] ELSE fts[c]]

\* The triggers of a table that is dropped go with it.
WithoutTriggers ==
  [c \in Col |-> IF fts[c].on = "table"
                 THEN [fts[c] EXCEPT !.on = "none", !.reads = c]
                 ELSE fts[c]]

\* _fts_search: the index, joined with the table, or LIKE without an index.
KeywordSearch(c, d) ==
  IF ~table.there \/ registry[c] # "LONGTEXT" THEN {}
  ELSE IF fts[c].there
  THEN {k \in Present(table.rows) : fts[c].docs[k] = d}
  ELSE {k \in Present(table.rows) : c \in table.cols /\ table.rows[k][c] = d}

-----------------------------------------------------------------------------
(***************************************************************************)
(* Rows and their journal.                                                 *)
(***************************************************************************)
\* The members of S in a sequence.
Listed(S) ==
  CHOOSE f \in [1 .. Cardinality(S) -> S] :
    \A i, j \in DOMAIN f : f[i] = f[j] => i = j

\* The entries, one for each column of DOMAIN entry, are appended.
Journaled(entry) ==
  LET columns == Listed(DOMAIN entry) IN
  /\ Len(journal) + Len(columns) <= MaxPending
  /\ journal' = journal \o [i \in DOMAIN columns |-> entry[columns[i]]]

\* No vector and no entry is left of the rows that were under a key.
NothingLeft(k) ==
  \A c \in LongText(registry) :
    chroma[c][k] = NoVec /\ Matching(journal, c, k) = {}

WriteRow(t, op, k, row) ==
  /\ ~Jammed(fts, table.cols)
  /\ table' = [table EXCEPT !.rows[k] = row]
  /\ fts' = Fired(k, row)
  /\ Journaled([c \in LongText(registry) |->
                  [op |-> op, col |-> c, at |-> k,
                   doc  |-> IF row = NoRow THEN Null ELSE row[c],
                   meta |-> Names(row)]])
  /\ had' = [had EXCEPT ![k] = (IF NothingLeft(k) THEN {} ELSE @)
                                 \cup Names(row)]
  /\ Return(t)
  /\ UNCHANGED <<old, registry, chroma, flaws>>

\* An INSERT or UPDATE that names a column the table does not have raises, and
\* a column that is not registered cannot be named.
Writable(row) ==
  \A c \in Col : /\ row[c] \in mix.docs \cup {Null}
                 /\ row[c] # Null => c \in Named(registry) \cap table.cols

Insert(t, k, row) ==
  /\ Begin(t, "insert")
  /\ table.there /\ table.rows[k] = NoRow
  /\ Writable(row) /\ \A c \in Named(registry) : row[c] \in mix.docs
  /\ WriteRow(t, "add", k, row)

\* update reads the registration in a transaction of its own; a column that
\* goes in between makes it raise.
Update(t, k, c, d) ==
  /\ Begin(t, "update")
  /\ table.there /\ table.rows[k] # NoRow
  /\ c \in Named(registry) \cap table.cols /\ d \in mix.docs
  /\ WriteRow(t, "update", k, [table.rows[k] EXCEPT ![c] = d])

Delete(t, k) ==
  /\ Begin(t, "delete")
  /\ table.there /\ table.rows[k] # NoRow
  /\ WriteRow(t, "delete", k, NoRow)

Batch == SubSeq(journal, 1, IF Len(journal) < BatchLimit THEN Len(journal)
                            ELSE BatchLimit)

\* _process_journal.  Without the table the keys of its rows cannot be looked
\* up, and the batch stays.
Process(t) ==
  /\ Begin(t, "process")
  /\ journal # <<>>
  /\ \/ table.there
     \/ \A i \in DOMAIN Batch : Batch[i].op \notin {"add", "update"}
  /\ chroma' = ChromaAfter(Batch)
  /\ journal' = SubSeq(journal, Len(Batch) + 1, Len(journal))
  /\ drift' = (drift \/ Loses(Batch) \/ PassesOver(Batch))
  /\ Return(t)
  /\ UNCHANGED <<sqlite, torn, had>>

-----------------------------------------------------------------------------
(***************************************************************************)
(* A schema change reads the registration ...                              *)
(***************************************************************************)
StartChange(t, change) ==
  /\ pc[t] = "idle"
  /\ change.op # "add" => registry[change.col] # "none"
  /\ Goto(t, change.op, [Blank EXCEPT !.change = change, !.meta = registry])
  /\ UNCHANGED <<sqlite, journal, chroma, flaws, had>>

Overlapped(t) == registry # local[t].meta

\* A SQL statement raises that has nothing to undo.
Raise(t) == Return(t) /\ UNCHANGED <<sqlite, journal, chroma, flaws, had>>

\* Pending entries for the rows of a column.
Pending(c) == {i \in DOMAIN journal : /\ journal[i].op # "meta_update"
                                      /\ journal[i].col = c}

\* What an earlier column of this name has left behind.
Leftover(c) == Pending(c) # {} \/ \E k \in PK : chroma[c][k] # NoVec

\* What has been in the metadata is over.
NamesNow == [k \in PK |-> Names(table.rows[k])]
MadeAnew == had' = NamesNow'

MetaUpdates(reg) ==
  /\ Journaled([c \in LongText(reg) |->
                  [op |-> "meta_update", col |-> c, at |-> 0,
                   doc |-> Null, meta |-> {}]])
  /\ MadeAnew

\* ... and add_column writes.  No row is journaled.
Add(t) ==
  LET c == local[t].change.col
      kind == local[t].change.kind IN
  /\ pc[t] = "add"
  /\ IF ~table.there \/ c \in table.cols
     THEN Raise(t)
     ELSE /\ table' = [table EXCEPT !.cols = @ \cup {c}]
          /\ registry' = [local[t].meta EXCEPT ![c] = kind]
          /\ fts' = IF kind = "LONGTEXT" THEN Built(fts, c, table'.rows)
                    ELSE fts
          /\ drift' = (\/ drift \/ Overlapped(t)
                       \/ kind = "LONGTEXT" /\ Leftover(c))
          /\ torn' = (torn \/ Overlapped(t))
          /\ Return(t)
          /\ UNCHANGED <<old, journal, chroma, had>>

\* It fails, or the process dies, after ALTER TABLE.
AddHalf(t) ==
  /\ pc[t] = "add" /\ "fail" \in mix.ops
  /\ table.there /\ local[t].change.col \notin table.cols
  /\ table' = [table EXCEPT !.cols = @ \cup {local[t].change.col}]
  /\ IF local[t].change.kind = "LONGTEXT"
     THEN fts' \in Started(fts, local[t].change.col)
     ELSE UNCHANGED fts
  /\ Return(t)
  /\ UNCHANGED <<old, registry, journal, chroma, flaws, had>>

\* drop_column makes the table anew from the registered columns that stay.
\* The implicit id is not registered: the rows are numbered from 1 again.
Renumbered(rows) ==
  IF ~mix.implicit THEN rows
  ELSE LET Nth(k) == {p \in Present(rows) :
                        Cardinality({q \in Present(rows) : q <= p}) = k} IN
       [k \in PK |-> IF Nth(k) = {} THEN NoRow
                     ELSE rows[CHOOSE p \in PK : p \in Nth(k)]]

Kept(t) == Named(local[t].meta) \ {local[t].change.col}

Copied(t) ==
  [there |-> TRUE, cols |-> Kept(t),
   rows |-> [k \in PK |->
               IF Renumbered(table.rows)[k] = NoRow THEN NoRow
               ELSE [c \in Col |-> IF c \in Kept(t)
                                   THEN Renumbered(table.rows)[k][c]
                                   ELSE Null]]]

\* INSERT ... SELECT names every column that stays, and at least one.
CanCopy(t) ==
  Kept(t) \subseteq table.cols /\ ~(mix.implicit /\ Kept(t) = {})

\* ALTER TABLE ... RENAME TO.
CanMove == table.there /\ ~old.there /\ ~Jammed(fts, table.cols)

\* delete_collection, for a column that was LONGTEXT.
Cleared(t) ==
  LET c == local[t].change.col IN
  IF local[t].meta[c] = "LONGTEXT" THEN [chroma EXCEPT ![c] = NoVectors]
  ELSE chroma

Drop(t) ==
  LET c == local[t].change.col IN
  /\ pc[t] = "drop"
  /\ IF ~CanMove
     THEN Raise(t)
     ELSE /\ CanCopy(t)
          /\ table' = Copied(t)
          /\ registry' = [local[t].meta EXCEPT ![c] = "none"]
          /\ fts' = Rebuilt(IF local[t].meta[c] = "LONGTEXT"
                            THEN Dropped(WithoutTriggers, c)
                            ELSE WithoutTriggers,
                            LongText(registry'), table'.rows)
          /\ MetaUpdates(registry')
          /\ \/ chroma' = Cleared(t)
             \/ "fail" \in mix.ops /\ UNCHANGED chroma
          /\ drift' = (\/ drift \/ Overlapped(t)
                       \/ Present(table'.rows) # Present(table.rows))
          /\ torn' = (torn \/ Overlapped(t))
          /\ Return(t)
          /\ UNCHANGED old

\* Seeded bug: the table is dropped, not renamed.
SetAside(new) == table' = new /\ UNCHANGED old

\* The table is _t_old now, and another may be in its place.
MovedAway(new) == table' = new /\ old' = table

\* It fails, or the process dies, after ALTER TABLE or after CREATE TABLE: the
\* rows stay in _t_old, and the collection may be gone.
DropHalf(t) ==
  /\ pc[t] = "drop" /\ CanMove
  /\ "fail" \in mix.ops \/ ~CanCopy(t)
  /\ \/ "fail" \in mix.ops /\ MovedAway(Gone) /\ UNCHANGED chroma
     \/ /\ MovedAway([there |-> TRUE, cols |-> Kept(t), rows |-> NoRows])
        /\ \/ UNCHANGED chroma
           \/ CanCopy(t) /\ chroma' = Cleared(t)
  /\ fts' = MovedTriggers
  /\ drift' = TRUE /\ torn' = TRUE
  /\ Return(t)
  /\ UNCHANGED <<registry, journal, had>>

\* rename_column copies the vectors and deletes the old collection.  What
\* Chroma raises, before the copy or after it, is passed over.
Carried(c, d) ==
  [k \in PK |-> IF chroma[c][k] = NoVec THEN chroma[d][k]
                ELSE Upserted(chroma[d][k], chroma[c][k].doc, chroma[c][k].meta)]

Carry(t) ==
  LET c == local[t].change.col
      d == local[t].change.to IN
  \/ chroma' = IF local[t].meta[c] = "LONGTEXT"
               THEN [chroma EXCEPT ![d] = Carried(c, d), ![c] = NoVectors]
               ELSE chroma
  \/ /\ "fail" \in mix.ops /\ local[t].meta[c] = "LONGTEXT"
     /\ \/ UNCHANGED chroma
        \/ chroma' = [chroma EXCEPT ![d] = Carried(c, d)]

CanRename(t) ==
  /\ table.there /\ local[t].change.col \in table.cols
  /\ local[t].change.to \notin table.cols
  /\ ~Jammed(fts, table.cols)

Renamed(t) ==
  LET c == local[t].change.col
      d == local[t].change.to IN
  [table EXCEPT
     !.cols = (@ \ {c}) \cup {d},
     !.rows = [k \in PK |-> LET row == table.rows[k] IN
                 IF row = NoRow THEN NoRow
                 ELSE [row EXCEPT ![d] = row[c], ![c] = Null]]]

\* Seeded bug: the registration is saved as it was read.
RegistryAsRead(t, kind) == local[t].meta

\* A registration under the new name, if there is one, may be the one kept.
RenamedRegistry(t, kind) ==
  [local[t].meta EXCEPT ![local[t].change.col] = "none",
                        ![local[t].change.to] = kind]

\* Entries for the rows stay under the old name, where they reach no vector of
\* the new one: the meta_update makes it good for a row without a vector only.
Misses(t) ==
  LET c == local[t].change.col IN
  /\ local[t].meta[c] = "LONGTEXT"
  /\ \/ Leftover(local[t].change.to)
     \/ \E i \in Pending(c) : chroma[c][journal[i].at] # NoVec

\* A column that create_table has made INTEGER may have an index still, which
\* stays under the old name.
KeepsIndex(t) ==
  local[t].meta[local[t].change.col] # "LONGTEXT"
    /\ fts[local[t].change.col].on # "none"

Rename(t) ==
  LET c == local[t].change.col
      d == local[t].change.to IN
  /\ pc[t] = "rename"
  /\ IF ~CanRename(t)
     THEN Raise(t)
     ELSE /\ table' = Renamed(t)
          /\ \E kind \in {local[t].meta[c], local[t].meta[d]} \ {"none"} :
               registry' = RenamedRegistry(t, kind)
          /\ fts' = IF local[t].meta[c] = "LONGTEXT"
                    THEN Built(Dropped(RenamedTriggers(c, d), c), d, table'.rows)
                    ELSE RenamedTriggers(c, d)
          /\ MetaUpdates(registry')
          /\ Carry(t)
          /\ drift' = (drift \/ Overlapped(t) \/ Misses(t))
          /\ torn' = (torn \/ Overlapped(t) \/ KeepsIndex(t))
          /\ Return(t)
          /\ UNCHANGED old

\* It fails, or the process dies, after ALTER TABLE.
RenameHalf(t) ==
  LET c == local[t].change.col
      d == local[t].change.to IN
  /\ pc[t] = "rename" /\ "fail" \in mix.ops
  /\ CanRename(t)
  /\ table' = Renamed(t)
  /\ \/ fts' = RenamedTriggers(c, d)
     \/ /\ local[t].meta[c] = "LONGTEXT"
        /\ fts' \in Started(Dropped(RenamedTriggers(c, d), c), d)
  /\ Carry(t)
  /\ drift' = TRUE /\ torn' = TRUE
  /\ Return(t)
  /\ UNCHANGED <<old, registry, journal, had>>

-----------------------------------------------------------------------------
(***************************************************************************)
(* create_table and reindex.                                               *)
(***************************************************************************)
\* create_table adds the columns that are neither registered nor there, and
\* registers what it is given and nothing else.
Created ==
  IF ~table.there
  THEN [there |-> TRUE, cols |-> Named(mix.declared), rows |-> NoRows]
  ELSE [table EXCEPT !.cols = @ \cup (Named(mix.declared) \ Named(registry))]

\* A column of the table that is forgotten or taken up, or one that comes back.
Unforeseen(c) ==
  /\ registry[c] # mix.declared[c]
  /\ c \in table.cols \/ (mix.declared[c] = "LONGTEXT" /\ Leftover(c))

\* Every index that is declared.
AllBuilt(F, rows) ==
  [c \in Col |-> IF c \in LongText(mix.declared) THEN Built(F, c, rows)[c]
                 ELSE F[c]]

CreateTable(t) ==
  /\ Begin(t, "create")
  /\ table' = Created
  /\ \/ \* the indexes need their columns
        /\ LongText(mix.declared) \subseteq table'.cols
        /\ registry' = mix.declared
        /\ fts' = AllBuilt(fts, table'.rows)
        /\ drift' = (\/ drift
                     \/ ~(Named(registry') \subseteq table'.cols)
                     \/ \E c \in Col : Unforeseen(c))
        /\ torn' = (torn \/ ~(Named(registry') \subseteq table'.cols))
     \/ \* it fails, or the process dies, after the last ALTER TABLE
        /\ \/ "fail" \in mix.ops
           \/ ~(LongText(mix.declared) \subseteq table'.cols)
        /\ \E c \in LongText(mix.declared) : fts' \in Started(fts, c)
        /\ torn' = (torn \/ Jammed(fts', table'.cols))
        /\ UNCHANGED <<registry, drift>>
  /\ Return(t)
  /\ UNCHANGED <<old, journal, chroma, had>>

\* Every trigger reads the column of its index.
Sound(F, cols) ==
  /\ Named(registry) \subseteq cols
  /\ \A c \in Col : /\ F[c].on # "old"
                    /\ F[c].on = "table" => F[c].reads = c /\ c \in cols

\* reindex builds the full-text indexes first, and so it needs the table and its
\* columns.
CanReindex == table.there /\ LongText(registry) \subseteq table.cols

StartReindex(t) ==
  /\ Begin(t, "reindex")
  /\ CanReindex /\ LongText(registry) # {}
  /\ fts' = Rebuilt(fts, LongText(registry), table.rows)
  /\ Goto(t, "reindex", [Blank EXCEPT !.cols = LongText(registry)])
  /\ drift' = TRUE
  /\ torn' = ~Sound(fts', table.cols)
  /\ UNCHANGED <<table, old, registry, journal, chroma, had>>

\* It fails, or the process dies, before the last index is filled: what it has
\* filled is rolled back, and the first one is left empty.
ReindexHalf(t) ==
  /\ Begin(t, "reindex")
  /\ "fail" \in mix.ops \/ ~CanReindex
  /\ \E c \in LongText(registry) :
       fts' \in IF table.there THEN Started(Dropped(fts, c), c)
               ELSE Started(Dropped(fts, c), c) \ {Made(Dropped(fts, c), c)}
  /\ Return(t)
  /\ drift' = TRUE /\ torn' = TRUE
  /\ UNCHANGED <<table, old, registry, journal, chroma, had>>

\* A column: its collection is deleted and the rows are read, in one step here
\* and all at once.
ReindexRead(t, c) ==
  /\ pc[t] = "reindex" /\ c \in local[t].cols
  /\ chroma' = [chroma EXCEPT ![c] = NoVectors]
  /\ IF ~table.there \/ (c \notin table.cols /\ Present(table.rows) # {})
     THEN Return(t)
     ELSE Goto(t, "reindex_write",
               [local[t] EXCEPT !.change.col = c, !.rows = table.rows])
  /\ drift' = TRUE
  /\ UNCHANGED <<sqlite, journal, torn, had>>

ReindexWrite(t) ==
  LET c    == local[t].change.col
      rows == local[t].rows IN
  /\ pc[t] = "reindex_write"
  /\ IF \E k \in Present(rows) : Refused(rows[k])
     THEN Return(t) /\ UNCHANGED chroma
     ELSE /\ chroma' = [chroma EXCEPT ![c] = [k \in PK |->
                          IF rows[k] = NoRow THEN chroma[c][k]
                          ELSE Upserted(chroma[c][k], rows[k][c], Meta(rows[k]))]]
          /\ Goto(t, "reindex",
                  [local[t] EXCEPT !.cols = @ \ {c}, !.rows = NoRows])
  /\ drift' = TRUE
  /\ UNCHANGED <<sqlite, journal, torn, had>>

\* What it has rebuilt alone, with no entry pending, is as it should be.
ReindexDone(t) ==
  /\ pc[t] = "reindex" /\ local[t].cols = {}
  /\ drift' = ~(/\ alone[t] /\ journal = <<>>
                /\ table.there /\ Named(registry) \subseteq table.cols)
  /\ Return(t)
  /\ UNCHANGED <<sqlite, journal, chroma, torn>>
  /\ MadeAnew

\* The process dies and another opens the directory.
Restart ==
  /\ "restart" \in mix.ops
  /\ \E t \in Threads : pc[t] # "idle"
  /\ pc' = [t \in Threads |-> "idle"]
  /\ local' = [t \in Threads |-> Blank]
  /\ alone' = [t \in Threads |-> TRUE]
  /\ UNCHANGED <<mix, sqlite, journal, chroma, flaws, had>>

-----------------------------------------------------------------------------
Step(t) ==
  \/ \E k \in mix.keys, row \in Row : Insert(t, k, row)
  \/ \E k \in mix.keys, c \in Col, d \in mix.docs : Update(t, k, c, d)
  \/ \E k \in mix.keys : Delete(t, k)
  \/ Process(t)
  \/ \E change \in mix.changes : StartChange(t, change)
  \/ Add(t) \/ AddHalf(t)
  \/ Drop(t) \/ DropHalf(t)
  \/ Rename(t) \/ RenameHalf(t)
  \/ CreateTable(t)
  \/ StartReindex(t) \/ ReindexHalf(t)
  \/ \E c \in Col : ReindexRead(t, c)
  \/ ReindexWrite(t)
  \/ ReindexDone(t)

Next == Restart \/ \E t \in mix.threads : Step(t)

Spec == Init /\ [][Next]_vars

-----------------------------------------------------------------------------
(***************************************************************************)
(* Properties.                                                             *)
(***************************************************************************)
\* Every variable has its type: tables, vectors and entries are whole.
TypeOK ==
  /\ mix \in Mixes
  /\ table \in Table /\ old \in Table
  /\ registry \in Registry
  /\ fts \in [Col -> Index]
  /\ journal \in Seq(Entry)
  /\ chroma \in [Col -> Vectors]
  /\ pc \in [Threads -> Steps] /\ local \in [Threads -> Local]
  /\ alone \in [Threads -> BOOLEAN]
  /\ drift \in BOOLEAN /\ torn \in BOOLEAN
  /\ had \in [PK -> SUBSET Col]

\* Whatever columns have been added, dropped, renamed and created, the table is
\* there and has every column that _schema registers for it and that a trigger
\* reads, so that rows can be written; a change that ran into another or broke
\* off aside, until a reindex that is through with the indexes.
SchemaIsTable ==
  ~torn => /\ table.there /\ Named(registry) \subseteq table.cols
           /\ ~Jammed(fts, table.cols)

\* ... and a keyword search in a LONGTEXT column answers with the rows that hold
\* the document, no matter when the column was created, renamed or rebuilt, and
\* on which table its triggers were.
KeywordSearchFinds ==
  ~torn => \A c \in LongText(registry), d \in Doc :
             KeywordSearch(c, d) = {k \in Present(table.rows) :
                                      table.rows[k][c] = d}

\* Once the journal is processed the vectors of a LONGTEXT column are those of
\* the rows: none for a key without a row, one for every row with a document,
\* and made from the document the row has; whatever changed the schema while
\* entries were pending.
VectorsFollow ==
  ~drift /\ ~Loses(journal) =>
    \A c \in LongText(registry), k \in PK :
      LET v   == ChromaAfter(journal)[c][k]
          row == table.rows[k] IN
      IF row = NoRow THEN v = NoVec
      ELSE /\ row[c] # Null => v # NoVec
           /\ v # NoVec => v.doc = row[c]

\* Names that an earlier content of the row under a key gave to its metadata,
\* and the row that is there now does not.
Lost(k) == had[k] \ Names(table.rows[k])

\* ... and their metadata have the names of the columns that the row holds a
\* value in and a search may filter by, and no others: none of a column that has
\* been dropped or is called something else now.  The exception is a name that
\* the row had before it was set to NULL, or another row under its key had: an
\* upsert merges metadata (journal.py:173), and so the name stays, which
\* docs/spec.md:239 says is omitted, until a change of the schema or a reindex
\* makes the metadata anew.
MetadataFollows ==
  ~drift /\ ~Loses(journal) =>
    \A c \in LongText(registry), k \in PK :
      LET v   == ChromaAfter(journal)[c][k]
          row == table.rows[k] IN
      row # NoRow /\ v # NoVec =>
        /\ v.meta \ Lost(k) = Meta(row)
        /\ \A d \in v.meta : registry[d] = "INTEGER"

Changing(t) == pc[t] \in {"add", "drop", "rename"} /\ pc'[t] = "idle"

\* The columns of a row under the names they have after a change.
Stays(t, row, new) ==
  LET change == local[t].change IN
  /\ \A c \in (Named(registry) \cap table.cols) \ {change.col} :
       new[c] = row[c]
  /\ change.op = "rename" => new[change.to] = row[change.col]

\* No schema change loses a row or what it holds in another column, even if it
\* breaks off: the row is in the table under its key or the table is _t_old,
\* and a _t_old that is there already is not touched.
RowsSurvive ==
  [][\A t \in Threads : Changing(t) /\ ~Overlapped(t) =>
       /\ old.there => old' = old
       /\ ~mix.implicit =>
            \/ table' = table \/ old' = table
            \/ \A k \in Present(table.rows) :
                 /\ table'.rows[k] # NoRow
                 /\ Stays(t, table.rows[k], table'.rows[k])]_vars
=============================================================================

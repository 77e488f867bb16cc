# A verification development for HybridDB

HybridDB is a Python library that keeps one database in several engines: SQLite
holds the truth, FTS5 a keyword index, ChromaDB a vector per document, DuckDB an
optional columnar mirror, and networkx a cached graph. The engines share no
transaction. This directory holds TLA+ models of the parts where that is hard,
the TLC configurations that check them on small instances, and proofs, checked
by TLAPS, of what holds for every instance.

Paths are those of the repository, without `src/`.

## 1. Inventory

One class, `HybridDB`, is assembled from mixins; every mixin shares its state
and its re-entrant lock `_db_lock`, which `_connect` holds from the opening of a
SQLite connection to its commit. An instance may be used by several threads, and
several instances of one process may open the same directory.

| Component | State | Operations | Talks to |
|---|---|---|---|
| row writes, `crud.py` | app tables, FTS5 (triggers) | insert, insert_batch, update, upsert, delete | writes journal and history rows in its own transaction, then calls the journal |
| journal, `journal.py` | `_journal`, `_hybrid_disabled` | `_process_journal` in batches, overflow flag | reads SQLite, writes Chroma and the mirror |
| reconcile, `maintenance.py` | none | compare ids, delete ghosts, add the missing | SQLite and Chroma, without the lock |
| DuckDB mirror, `analytics.py` | `analytics.duckdb`, `_duckdb_synced_tables` | register, full copy, incremental sync | called by the journal, `analytics()` and schema changes |
| versioned tables, `versioning.py` | `<t>__history`, `_chain_anchors`, `_version_checkpoints`, `_versioned_tables` | recording, as_of/diff/history, checkpoint, rollback, prune, verify_chain, archive | called by every write of `crud.py`; rollback writes tables and journal |
| Chroma client pool, `db.py`, `maintenance.py` | `_chroma_client_pool`, `_chroma_path_holders`, `_chroma_evict_pending`, per-path locks; `_chroma`, `_chroma_stale` per instance | attach, release, sweep, drain, evict, rebuild, restore | process-wide, all instances of a path; chromadb's own System cache |
| schema changes, `schema.py` | `_schema`, table layouts | create_table, add/drop/rename_column | journal (`meta_update`), mirror, versioning |
| knowledge graph, `graph.py` | `_graph_nodes`, `_graph_edges`, sync rules, `_nx_cache` | node and edge CRUD, sync, decay, traversal, to_networkx | called by writes (sync rules) |
| search, `search.py` | none | keyword, vector and fused search | processes the journal first |
| backup, check, reindex, `maintenance.py` | none | copies of the directory, reports, rebuild from SQLite | journal, Chroma, mirror |
| export/import, async wrapper, facades, chunking, embeddings, scripts | none | | |

What is hard here:

* **No common transaction.** A row and its journal entries commit together; the
  other engines follow later, in batches, and any batch may be cut off by an
  exception or by the death of the process, and is then repeated.
* **Several transactions per operation.** upsert, rollback, prune,
  `_process_journal` (its flag) and reconcile read in one and write in another.
* **A process-wide registry.** Instances share one Chroma client per path; opens,
  closes, collections by the garbage collector and directory swaps meet in it,
  under two locks that are not always taken in one order.
* **Identity.** A journal entry names a rowid, a vector a primary key; the mapping
  is resolved when the entry is applied, not when it is written.

What makes each part correct: the pending journal entries are exactly what the
engines lack; entries are neither lost nor left for good; the overflow flag does
not stick; the history describes the table, its chain is intact, a checkpoint
names the rows it was set on and a rollback brings them back; nobody's client is
stopped while it is counted on, and no System is forgotten. `PROJECT.json` lists
the hazards line by line, with the properties that answer them.

## 2. Modules

| Module | What it is |
|---|---|
| `ChangeLog` | events of a versioned table, the state a log describes |
| `VersionedStore` | what a versioned table promises: a table and a log of its changes |
| `VersionedTable` | one versioned table: rows, history, hash chain, anchors, checkpoints, threads |
| `VersionedTable_proofs` | its inductive invariant and five theorems |
| `VersionedLog_proofs` | what its log says of its rows, and the refinement: five theorems |
| `Journal` | one table, its journal, its collection, its mirror; threads, outages, deaths |
| `Journal_proofs` | the gaps of Chroma and of the mirror, the overflow flag, what insert_batch returns with and what reconcile leaves: seven theorems |
| `ChromaPool` | the client of one vector path and the instances that share it |
| `ChromaPool_proofs` | its inductive invariant and seven theorems, one for each property |
| `Graph` | nodes, edges, the rules that derive them from one table, decay, the networkx cache, the search that walks it; threads |
| `Graph_proofs` | types, the constraints of edges, the cache, and what undisturbed operations achieve: seven theorems |
| `Search_proofs` | the walks of a search and the distances they give: one theorem |
| `Schema` | the columns of one table, its registration, full-text indexes, collections and pending entries; threads |
| `Schema_proofs` | types, the columns a table has, keyword search, the rows a change keeps: four theorems |
| `Vectors_proofs` | what the vectors and their metadata follow, whatever the schema went through: two theorems |
| `MC...` | the same for TLC (symmetry; the mixes of `Graph` and `Schema`) |

`ChangeLog`, `VersionedTable` and `VersionedStore` compose by EXTENDS and by the
refinement `ImplementsStore`. `Journal` and `VersionedTable` model the same writes
from two sides: a write of `crud.py` inserts history rows and journal rows in one
transaction, so each module has the whole transaction as far as its own tables go.

### VersionedTable

An action is one SQLite transaction. `rows` is the table as a function from keys
to contents; `hist[i]` is the history row with `_seq = cut + i`; `anchors` and
`checkpoints` are the tables of those names. `pc` and `local` are what a thread
carries from one transaction of upsert, rollback or prune to the next. SHA-256 is
taken as ideal: a hash is the list of changes before it. `past` (every change ever
recorded) and `goal` (the rows when a label was set) are auxiliary.

rollback is `RollbackBegin`, `RollbackTarget`, `RollbackCurrent`,
`RollbackRemove`, `RollbackRestore` in this order, with `RollbackFail` for the
`KeyError` and the `IntegrityError` its two write phases can meet; prune is
`PruneBegin`, `PruneDelete`; upsert is `UpsertLook`, then `UpsertWrite` or
`UpsertMiss`. `Crash` loses what threads carry and nothing else.

The order in which rollback visits keys is that of their text in the code and
that of the integers in the model; only that it is a fixed order matters.

### Journal

An action is one critical section of the instance's lock. `journal` is `_journal`
in id order; an entry names a rowid (adds, updates) or a key (deletes), as in the
code, and `KeyOf` resolves it when it is applied. `chroma` and `mirror` map keys to
documents. `Process` is `_process_journal` up to its commit; the recount and the
reset of the flag after it are steps of their own (`Recheck`, `Clear`), because
other threads run in between. `ProcessRaises` stops in or after Chroma with the
entries kept; `ProcessDies` stops anywhere before the commit and reopens; `Restart`
reopens. `up` and `duckUp` say whether this session has a Chroma client and a
DuckDB connection, and reopening draws them anew. The mirror is a file and survives
a restart; a mirror that cannot be read is dropped by `_init_duckdb`. reconcile is
four steps without the lock. `lost` and `lostMirror` are auxiliary: keys whose
entries were removed unapplied.

`IntegerKey` selects INTEGER primary keys (aliases of the rowid) or TEXT keys
(the rowid is SQLite's own). Only the collection scheme keyed by primary key,
the one of collections made since 0.7, is modelled.

### ChromaPool

A client is identified with its chromadb System, a natural number. `live` are the
started Systems, `current` those bound to the directory that is at the path now;
a client works when it is both. An action is what a thread does under
`_chroma_pool_lock`, or between two such sections. `pathLock` and `dbLock` are the
per-path lock and the instances' `_db_lock`, which are held over several steps.
Names of Systems are reused once nothing refers to them, which keeps the state
finite. Two auxiliaries: `exposed` remembers that operations overlapped, or that a
restore began under other holders.

Opening (`open_lock` to `attach_check`) is `_init_chroma_locked`; closing is the
release, the stale flag, the sweep and drain; rebuild is count, lock, copy, mark,
evict, move, attach; restore is lock, move, mark, evict, attach. `AttachFails`,
`RebuildCopyFails` and `RebuildFails` are the exceptions. An application closes an
instance, or lets it be collected, when none of its threads uses it.

### Graph

Every method of `graph.py` is a chain of short transactions, and an action is one
of them, one assignment to `_nx_cache`, or one lookup with what it decides. A write
is two steps, `StartWrite` (`_invalidate_nx_cache`) and its commit, so that a build
of the networkx graph can fall between them; `update_node` has its lookup besides.
`StartSync` to `NodesSynced` is `_auto_sync_graph_nodes`, whose rows are those read
in the beginning; `Join` to `EdgesSynced` the edges; `StartDecay` to `DecayDone`
is `decay_edges`; `Prune` the DELETE that only reconcile adds. `StartBuild` to
`StoreDirected` is `to_networkx`: two queries and three assignments, none of them
under the lock.

`search_graph_ppr` synchronises like the others ("ppr" of `StartSync`) and then takes
what it returns from three places: its seeds from the vectors (`Seeds`: any set of
keys, also of rows that have gone, since which rows are near is not modelled), the
distances from SQLite, one `traverse` per seed (`Traverse`; `Walks` is the recursive
query, with the cost an edge adds and both limits, and `Traversed` its MIN(depth)),
and the nodes it ranks from a networkx graph, cached or built (`Fetch`, `Found`). The
scores are left out: every node of the subgraph gets one.

There is one table, one rule of each kind and one edge type. A row is what its
reference column holds, which the label template renders and the edge rule joins
on. SQLite's constraints are in the writes: `EdgesWithout` is ON DELETE CASCADE,
`Replaced` is INSERT OR REPLACE under the primary key and the unique pair of ends,
`HasEnds` and `CanUpdate` are the foreign keys, whose failure writes nothing, and
ends an edge rule. `mix` is what an application confines itself to: it bounds a
behaviour to some operations on some keys by some threads, and the theorems hold
for any. `alone`
and `raced` are auxiliary: no other thread has written since a thread began; a
build has overlapped a write, or another build, since the cache was marked dirty.

### Schema

A schema change is `StartChange`, which reads `_schema`, and one step that writes, for
the second transaction holds `_db_lock` throughout. The step has a second form,
`AddHalf`, `DropHalf`, `RenameHalf`, for a failure or a death on the way: sqlite3
opens its transaction at the first INSERT, so the ALTER and CREATE statements before
it stay while everything after it is rolled back. Of `drop_column` that leaves the
rows in `_t_old` (`MovedAway`). `Copied` is the new table: the registered columns that
remain, and rows numbered anew if the key is the implicit id, which is not registered
(`Renumbered`). `Carry` is what rename_column does to the collections, with the
exception it swallows.

`MetaUpdated` is `_process_meta_update`: vectors that have a row are deleted and added
again, since Chroma merges metadata on upsert (`Upserted`), and those that are missing
are made from the rows. A table with an implicit id and nothing but LONGTEXT columns
has no metadata to give, and Chroma refuses empty ones (`Refused`): the vectors are then
deleted and not added. The journal is `Journal`'s, reduced to what schema changes meet:
a batch is applied at once and does not fail, and a rowid is a key.

A full-text index (`Index`) is a table that triggers keep up with the rows: for every key
what it has, on which table its triggers are and which column they read. `Built`,
`Dropped` and `Rebuilt` are `_create_fts5`, `_drop_fts5` and `_rebuild_all_fts5`, and
`Fired` is what the triggers do at a write. ALTER TABLE takes triggers along
(`MovedTriggers`, `RenamedTriggers`); since the new ones are made IF NOT EXISTS, those
that `drop_column` left on `_t_old` when it broke off stay there and new rows are not
indexed. Triggers that read a column the table lacks stop every write and rename
(`Jammed`). The DROP and CREATE statements of a rebuild come before the transaction
opens, so a rebuild that breaks off leaves an index that is not filled (`Started`,
`ReindexHalf`). A keyword is a whole document, since the properties tell rows apart and
not words. `KeywordSearch` is `_fts_search`: the index joined with the table, or LIKE
on the rows where the index is missing.

`torn` is auxiliary: a change ran into another, or broke off where the table, `_schema`
and the indexes do not belong together; or create_table registered what the table does
not have; or a column with an index that is no longer LONGTEXT was renamed. A reindex
that is through with the indexes ends it.

`drift` is auxiliary and names every case in which the code promises nothing the
journal could repair:

* a change was computed from a registration that another change has replaced;
* a change broke off so that `_schema` and the table differ;
* an added or renamed LONGTEXT column takes a name whose collection or entries are
  still there;
* a renamed LONGTEXT column has pending entries for vectors that move with it;
* drop_column gave a row another key;
* create_table was called with another schema for columns that are there;
* Chroma refused metadata, or a meta_update passed over a vector whose deletion
  was in a later batch;
* reindex was at work.

Each of them is real, and a hazard of `PROJECT.json`; for the vectors the properties
say that there are no others. For the metadata there is one more. `had`, auxiliary too,
remembers which names rows under a key have given to metadata since these were last
made anew (`MadeAnew`, by the meta_updates of a drop or rename, or by reindex) or nothing was left of them
(`NothingLeft`), and `Lost` is what of that the row does not give now. When a filter
column is set to NULL, the entry no longer names it (`Meta`), but Chroma merges metadata
on upsert (`Upserted`; `journal.py:160`, and the docstring at `journal.py:173`), so the
name stays, with the old value: a vector search that filters by it still gets the row,
which takes one of the places and is dropped when the row itself is looked at
(`search.py:73`). The same happens when a row is deleted and inserted again in one
batch. `docs/spec.md:239` says that the key of a NULL column is omitted: the code does
that for the entry and not for a vector that had it. `MetadataFollows` says that the
metadata have the row's names and, but for `Lost`, no others; without the exception TLC
finds it violated by an insert, a processed journal and an update to NULL.

reindex ends `drift` if it worked alone, with no entry pending, on a table
that has its columns.

## 3. Runs

| Run | Instance | Shows |
|---|---|---|
| `VersionedSeq` | 1 thread, 2 keys, 2 values, 1 label, 4 events | types; the table is the replay of its log; checkpoints name their state until something is pruned; rollback ends with its target; VersionedStore is implemented |
| `VersionedConc` | 2 threads, 2 keys, 2 values, 3 events | the chain is valid and never rewritten; no row without its event; as_of reads are sound |
| `VersionedRecreate` | 1 thread, 2 keys | refutes the intact chain when create_table(versioned=True) is repeated |
| `VersionedPrune` | 1 thread | refutes that keep_checkpoints protects checkpoints |
| `VersionedRace` | 2 threads, 1 key | refutes that the log records what happened, when a rollback races a delete |
| `JournalSeq` | 1 thread, 2 keys, 2 documents, DuckDB, reconcile, outages; batches of 3, cap 2, 4 pending | types; pending entries are exactly the gap of Chroma and of the mirror; reconcile aligns keys |
| `JournalConc` | 2 threads, no DuckDB; batches of 2, cap 2, 4 pending | the overflow flag does not stick; insert_batch returns with Chroma current; settled rows get indexed |
| `JournalTextKey` | 1 thread, TEXT keys | refutes that a drained journal means consistency, with a ghost vector under a rowid |
| `PoolConc` | 2 threads, 2 instances, all operations | see below |
| `PoolStrand` | 2 threads, 2 instances, open, close, search | refutes that nobody's client is stopped under it |
| `GraphConc` | 2 threads, 2 rows, 3 nodes, 3 edges, 10 mixes of operations | see below |
| `SchemaConc` | 2 threads, 3 columns, 2 rows, 2 documents; batches of 2, 3 pending; 7 mixes | see below |

`PoolConc` shows: as long as operations do not overlap, no client is stranded,
and a path nobody holds is released before it is attached to again; however they
overlap, the System that chromadb would hand out works, no running System is
forgotten, an instance with a client is counted as a holder, and the two locks
can block each other only over an instance whose client is stale. The run does
not check for deadlock because the code has one: a thread that re-attaches a
stale instance takes the path lock and then `_db_lock` (`db.py:384`), a thread that
processes the journal of the same instance takes them in the other order.
`InversionNeedsStale` says how far that goes.

`GraphConc` shows: however writes, synchronisations and decays overlap, edges have
their ends and their names and pairs of ends are unique; a clean networkx cache is
that of the tables unless a build overlapped a write or a build (both are real: the
cache is then stale until the next write); an undisturbed synchronisation aligns
nodes and edges with the rows, and an undisturbed decay leaves no expired edge at
the floor; an undisturbed search has every node at its distance from the seeds
(`SearchReaches`: the seeds are the first level, an edge spans one level at most, and
whatever else is reached has a neighbour that is nearer), and a search ranks the nodes that are
there when it gets its graph, of those it has reached, unless builds and writes
overlapped; `update_node` loses no property unless somebody wrote in between; a row
that is no longer written gets and keeps its node although synchronisations of old
rows delete it as a ghost on the way; an expired edge goes although overlapping
decays and updates lose each other's weights.

`SchemaConc` shows: but for the cases of `torn`, a table has the columns that are
registered for it or read by its triggers, and a keyword search in a LONGTEXT column
finds the rows that hold the document and no others. But for those of `drift`, once the
journal is processed a LONGTEXT column has a vector for every document, made from it,
none for a key without a row; its metadata have exactly the names the row gives, but
for those of `Lost` (a value set to NULL, contrary to `docs/spec.md:239`), and none of a
column that is gone; and a change that nobody overlapped loses no row and nothing of another registered
column, even if it breaks off. reindex brings all of that back.

Each refutation is a finding in `PROJECT.json`, with the line of the code and the
sentence of the documentation or of a comment it contradicts.

### Bounds

* Two keys are what moves, batches and races between rows need; one key more adds
  no kind of interaction. Two contents tell an old post-image from a new one.
* `MaxEvents` bounds a history. Three events suffice for an event before, at and
  after a cut; four let a rollback follow a move. Writes that would exceed it
  are disabled, nothing else is.
* `MaxPending` bounds the journal. It exceeds `BatchLimit`, so that entries of
  one write fall in different batches, and `Cap`, so that the flag goes up and down.
* `BatchLimit` and `Cap` stand for 5000 and 50000.
* Two threads suffice for every pair of critical sections to interleave. The
  theorems hold for any number.
* Each mix of `GraphConc` joins the operations of one hazard, with the keys and
  weights it needs: weights 35, 20 and 5 come to the floor exactly, 3 is
  below it. Three names of edges let both pairs of two rows have
  their edges and still leave a name for the next. What two mixes could do together
  only the theorems cover. Distances are checked on two nodes and two seeds, with
  `Hops` 2 and a `MaxCost` that two edges of the default weight just meet: walks that
  are cut by their cost, and distances beyond one, are not reached.
* The mixes of `SchemaConc` likewise: renaming and re-creating a LONGTEXT column,
  renaming and dropping a filter column, the implicit id (two keys, so that dropping
  renumbers), two changes at once, failures, and rebuilding. A batch is smaller than the
  journal, so that an entry and the meta_update behind it can be processed apart.
* `Systems` has enough names that one is always unused (`SystemsAssumption`).

`JournalConc` and `GraphConc` use no symmetry, since they check liveness, nor does
`SchemaConc`, whose mixes name threads; the other runs with two threads permute them.

### Fairness

`JournalConc` and `GraphConc` assume some. In `JournalConc`, operations in progress go on (weak fairness of
`Continue`), which Python's scheduler gives each thread, and processing is not
raising for ever: whenever some thread could process again and again, some thread
at some time does (`SF` of `Process`). The second is what an application that keeps
searching or writing provides, since search calls `_process_journal` first; nothing
in the library processes the journal by itself, neither a thread nor the
constructor. `Restart`, `ProcessRaises` and `ProcessDies` may happen for ever.

In `GraphConc`, operations in progress go on (weak fairness of `Continue` per
thread), and an application that has "sync" or "decay" in its mix keeps calling it,
as one that searches and reconciles does (`SF` of `StartSync` and of `StartDecay`).
`SettledRowsGetNodes` and `ExpiredEdgesGo` speak of such applications, without
restarts, which would be free to cut off every call.

## 4. Proofs

`VersionedTable_proofs` proves, for any set of threads and labels, any finite set
of integer keys, any values and any bound:

* `TypeCorrect`: `Spec => []TypeOK`;
* `ChainAlwaysValid`: `Spec => []ChainValid`;
* `AsOfAlwaysSound`: `Spec => []AsOfSound`;
* `ChainNeverRewritten`: `Spec => ChainNeverRewinds`.

All rest on `IInvAlways`, the invariance of `IInv`. `ChainValid` is not inductive:
a write extends the chain from the hash of its last event, so the history must be
known to be empty before versioning starts (`NoHistoryBefore`); `AsOfSound` needs
that the history is the tail of everything recorded (`HistoryIsTail`); and a thread
that will write what it carries must carry a row (`UpsertContent`). The argument:
`ChainIsThreaded` says that a batch continues the hash it is given and is threaded
within; `RecordKeepsLog` that appending such a batch keeps the log in order;
`PruneKeepsStore` that a cut leaves a tail whose first event continues the new
anchor; then one step per action. `EventsStay`, the body of `ChainNeverRewinds`, is
proved along the way, from the same lemmas.

The assumptions are those of the modules: keys are integers and finitely many,
`NoRow` is no value, there is a key, `Keep` holds Booleans. The hash is ideal by
definition of the model, not by assumption.

`VersionedLog_proofs` builds on it:

* `RowsAlwaysLogged`: `Spec => []RowsAreLogged`, for any threads;
* for one thread (`OneThread`; `VersionedRace` refutes the first of these for two):
  `TableAlwaysReplay`: `Spec => []TableIsReplay`, `RollbackAlwaysRestores`:
  `Spec => RollbackRestores`, `CheckpointsNameStates`: `Spec => []CheckpointNamesState`,
  and the refinement, `StoreIsImplemented`: `Spec => ImplementsStore`.

The argument goes key by key. A mentioned key has a latest change
(`LargestPosition`), so a batch either decides what the log says of a key or leaves it
as it was (`ReplayOfMore`); every write's batch mentions the keys it changes, all of
them and each once (`AscendingVisits`), with what it leaves there (`Told`). The one
exception is an update that phase 2 of a rollback records for a row that has vanished:
there is no row under its key then, which is why `RowsAreLogged` holds for any threads
although `TableIsReplay` does not. With one thread nothing vanishes: `SoleRollback` says
that what a rollback read in one phase is still so in the next (`NothingVanished`).
Checkpoints need that the rows at a label are the replay of the log up to it
(`GoalsLogged`), which a log that only grows keeps. In the refinement a write is a
`Record` of the store with its batch, or a `Load`, and the batches are legal: no key
twice, inserts of absent rows, updates and deletes of present ones, moves apart.

`Journal_proofs` proves, for any threads, documents, limits and bounds:

* `TypesAlways`: `Spec => []TypeOK`;
* `SearchNotLeftOff`: `Spec => []OffOnlyInOverflow`;
* `MirrorGapClosed`: `Spec => []MirrorClosesGap`, for either kind of key and
  whoever reconciles;
* `ReconcileAlwaysAligns`: `Spec => ReconcileAligns`, for either kind of key and
  `Undisturbed`;
* `GapClosed`: `Spec => []JournalClosesGap`, for INTEGER keys and `Undisturbed`:
  a thread that reconciles is the only one;
* `BatchAlwaysReturnsCurrent`: `Spec => BatchReturnsCurrent`, under the same
  conditions;
* `DrainedInSync`: `Spec => []DrainedMeansInSync`, if besides every session has a
  Chroma client. `JournalTextKey` drops the first of these conditions and refutes
  it. The last is needed too: without a client `_get_collection` returns None, the
  entries are skipped (`journal.py:94`) and deleted with the batch, where
  `docs/spec.md:566` has them "piling up".

Types need that a row has a rowid (`RowsHaveIds`). `OffOnlyInOverflow` is inductive
with the types: whoever shortens the journal counts again afterwards.

`JournalClosesGap` is not inductive, since it says nothing of a key given up in an
outage, which a later batch takes back; `EntriesLeadToRows` adds the keys with a
pending entry. With INTEGER keys the rowid is the key (`RowIdIsKey`), so what a
sequence of entries leaves under a key no longer depends on the rows: `Leaves`. A
set of positions has a largest one (`Largest`, from the well-foundedness of the
naturals), so the last entry for a key exists; `LeavesConcat` says that a journal
may be cut anywhere and applied in two parts. A write appends entries that leave
what it wrote (`WritesMatch`), a processed batch moves the cut, and a batch that is
applied and kept changes only keys that still have an entry (`RepeatKeepsGap`).
Reconcile holds ids and rows it has read earlier: `ReconcileInv` says that they are
still those of Chroma and SQLite, which is true only while no other thread writes
between its steps, and then each of them brings keys to their rows.

A mirror entry copies the row as it is when the entry is applied, possibly before
a later entry for it. What makes a cut harmless is an order: while the row is there,
a delete of its key in the journal has a refresh of the row behind it
(`DropsFollowed` in `PresentRowsCopied`).

`ChromaPool_proofs` proves every property of `PoolConc` for any number of threads and
instances, from one inductive invariant, `PInv`, in four parts beside the types:

* `Control`: a thread is in the path lock exactly at the steps of `PathSteps`, a
  `_db_lock` is with a thread at work on that instance, and nobody else works on an
  instance that is opened or closed;
* `SystemsInv`: a running System is the cached one, or held by a thread that is about
  to stop it, and not both; the cached one runs and is bound to the directory, but
  between a restore's move and its eviction. That a new System is none of those that
  somebody refers to (`SomeUnused`) is counted: this is what `SystemsAssumption` is for;
* `ClientsInv`: a client that is not stale is a holder's, or that of a thread about to
  become one; who attaches has no client yet and is stale;
* `SerialInv`: if no operations overlapped, the clients that are not stale are those
  of the pool, nothing but the step that does it stands between the last holder and
  the eviction, and when it comes there is no client left.

`SystemsNeverLeak`, `CachedAlwaysWorks`, `ClientsAlwaysHeld` and `InversionAlwaysStale`
follow from the first three, which are inductive however operations overlap;
`SerialNeverStrands` and `UnheldAlwaysReleased` need the last.

`Graph_proofs` proves, for any threads, keys, names, weights and mixes:

* `GraphTypes`: `Spec => []TypeOK`;
* `EdgesStaySound`: `Spec => []EdgesSound`, inductive with the types: every commit
  to the edges is a subset, a `Replaced` with both ends, or an update that keeps
  names and pairs apart;
* `CacheStaysCurrent`: `Spec => []CacheCurrent`. The invariant adds what a build in
  progress has read (`BuildSees`: unless raced, the nodes and edges it holds are
  still those of the tables) and that without a race nobody writes while somebody
  builds, nor do two build (`Apart`);
* `SearchSeesNodes`: `Spec => SearchFinds`, from the same invariant: what a search
  ranks is the cached graph, or the one it has built itself;
* `UpdatesAlwaysMerge`: `Spec => UpdatesMerge`, `DecayAlwaysClears`:
  `Spec => []DecayClears`, and `SyncAlwaysAligns`: `Spec => []SyncAligns`. Each has an
  invariant of one thread that says what it has achieved so far: `MergeSees` that the
  properties it holds contain the node's, `DecaySees` that every expired edge at the
  floor is still before it, `SyncSees` which rows have their node, which ghosts are
  gone and which pairs have their edge. A step of another thread keeps them because
  whoever is still alone finds the tables as they were (`Undisturbed`), and a step
  of its own is one of a few (`Lands`). That no pair of joining rows is passed over
  needs that the rule never meets a missing node, which follows from the nodes being
  aligned when the edges' turn comes.

`Schema_proofs` proves, for any columns, keys, threads and mixes:

* `SchemaTypes`: `Spec => []TypeOK`. Types need more than themselves: a thread in a
  change knows which one it is in (`Knows`);
* `TableHasItsColumns`: `Spec => []SchemaIsTable`, and
  `KeywordSearchAlwaysFinds`: `Spec => []KeywordSearchFinds`. Both follow from `Fits`:
  unless `torn`, every trigger is on the table and reads the column of its index, and
  the index of every registered LONGTEXT column has triggers and the documents of the
  rows. Neither property is inductive alone: a search says nothing of the next write
  without the triggers, and the columns that triggers read are safe from a rename only
  because each index has its own. With the types goes that an index without triggers
  would get them for its own column (`Indexes`), torn or not;
* `RowsAlwaysSurvive`: `Spec => RowsSurvive`. A change ends only by a step of its own
  thread or with the process (`ChangeEnds`), so the theorem is one lemma per change,
  and a copied or renamed row is a row, never `NoRow`.

`Vectors_proofs` proves, for any columns, keys, threads, mixes and batch sizes:

* `VectorsAlwaysFollow`: `Spec => []VectorsFollow`, and
  `MetadataAlwaysFollows`: `Spec => []MetadataFollows`.

Both speak of what Chroma will hold once the journal is processed, so neither is
inductive: the next batch may cut the journal anywhere, and the next schema change
reads vectors that have entries before them. `VInv` says it per column and key
(`Column`): the entry that decides follows the row or, if there is none, the vector
does; and metadata name what they should, and nothing that is not in `had`, unless a
meta_update for the column comes after them. That the names which a vector and the
entries of its key hold are all in `had` is `Remembered`: a write adds the names
it gives, and forgets only where no vector and no entry is left. The lemmas are about journals: a batch may be cut (`LastOfConcat`,
`MetaOfConcat`, `AfterBatch`), a write appends exactly one entry per column
(`ListedOnto`, `WriteRowColumn`), a column is not touched by what is done to another
(`KeptColumn`), and a new one has neither entries nor vectors (`NewColumn`,
`FreshColumn`). `CarriedColumn` is rename_column's move of the vectors. With an implicit
id, drop_column numbers the rows anew; that rows which keep their keys keep their
contents (`RenumberedSame`) is an argument about ranks by a minimal counterexample.
A reindex is in steps, and what it has done so far stands only as long as it is alone
(`ReindexSees`). The cases in which none of this holds are those of `drift`.

`Search_proofs` proves, for any edges, weights, seeds, threads and limits:

* `SearchAlwaysReaches`: `Spec => []SearchReaches`.

`Walks` is a recursive function, as the query of `traverse` is recursive, and that it
exists is proved first (`SomeWalks`, level by level: induction over the numbers in a
set, `Climb`). `LeastDepth` says that `Traversed`, a count, is the least length of a
walk that gets there; `EdgeSpans` that a walk can be extended by an edge, since d edges
lack at most d shares of `MaxCost` if each lacks at most one (`WalkCosts`); and
`Neighbour` that the last edge of a shortest walk comes from somewhere nearer. Nearer
by one edge is more than can be said: with three hops, a node may be three edges away
on cheap edges while its only neighbour is one expensive edge away, from where the walk
would cost too much (nothing confines a weight to 0..1; within it this takes more hops). The thread's invariant is `SearchSees`: the distances found so
far are the least of those from the seeds that have been traversed.

The assumptions are that `Hops` is at most 10, which is what `traverse` accepts, and
that `MaxCost`, whose default 3.0 the search never overrides, is not negative.

Only model-checked: liveness (`SettledRowsGetIndexed`, `SettledRowsGetNodes`,
`ExpiredEdgesGo`), which is out of the prover's reach. Every other property that a
passing run checks is a theorem.

## 5. Not modelled

* archive and migrate_vector_identity; disabling versioning.
* Values of metadata, embeddings, chunking: a vector is the document it was made from
  and, in `Schema`, the names of its metadata.
* Types of columns other than LONGTEXT and not LONGTEXT; changes of the key column;
  a `_process_journal` that raises half way because the table is gone.
* FTS5 beyond which rows an index has: tokens, ranking, the indexes of TEXT columns
  (made and dropped by the same calls) and those of tables that nobody alters, whose
  triggers run in the transaction of the write.
* Collections keyed by rowid (made before 0.7).
* search ranking, fusion and filters; PageRank and the other algorithms of networkx;
  `neighbors` and the lists of nodes and edges, which read in one query; edge
  properties, several tables and edge types of the graph; backup, export and import: see the plan.
* `force=True` of the rebuild, which announces that it strands other holders.
* Failures of SQLite itself, and a second process on the same directory, which
  `docs/API.md` rules out.

## 6. Plan

In this order:

1. done: versioned tables, journal with mirror and reconcile, client pool; proofs
   of all of the first, of the gaps, the flag and the batches of the second, and of all
   of the third.
2. done: the proofs of `Journal` for a single thread that reconciles. Left: what a
   reconcile may leave behind when other threads write beside it.
3. done: the graph with its search, and proofs of its safety properties. Left: several
   tables and edge types; a run with three nodes in a row.
4. `VersionedTable`: archive; rollback together with the journal entries it writes.
5. done: schema changes with pending entries; reindex; full-text indexes; proofs of
   their safety properties. Left: the full-text indexes of TEXT columns.
6. Fusion of search results as operators against a reference definition.
7. done: the refinement of `VersionedStore`, proved for one thread.

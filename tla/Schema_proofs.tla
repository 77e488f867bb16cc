---------------------------- MODULE Schema_proofs ----------------------------
(***************************************************************************)
(* Theorems about Schema, for every set of columns, keys and threads and   *)
(* every mix of operations.                                                *)
(***************************************************************************)
EXTENDS Schema, FunctionTheorems, FiniteSetTheorems, SequenceTheorems, TLAPS

Changes == {"add", "drop", "rename"}

\* A thread that is in a schema change knows which.
Knows(step, l) == step \in Changes => l.change.op = step

\* Indexes without triggers, when they get them, read their own column.
Indexes == {F \in [Col -> Index] :
              \A c \in Col : F[c].on = "none" => F[c].reads = c}

Stored ==
  /\ table \in Table /\ old \in Table
  /\ registry \in Registry
  /\ fts \in Indexes
  /\ journal \in Seq(Entry)
  /\ chroma \in [Col -> Vectors]
  /\ drift \in BOOLEAN /\ torn \in BOOLEAN
  /\ had \in [PK -> SUBSET Col]

TInv ==
  /\ TypeOK /\ fts \in Indexes
  /\ \A t \in Threads : Knows(pc[t], local[t])

-----------------------------------------------------------------------------
(***************************************************************************)
(* Types.                                                                  *)
(***************************************************************************)
LEMMA EmptyTypes ==
  /\ NoRows \in Rows /\ NoVectors \in Vectors
  /\ Gone \in Table /\ Blank \in Local
<1>1. NoRows \in Rows /\ NoVectors \in Vectors
  BY DEF NoRows, Rows, NoVectors, Vectors
<1>2. Gone \in Table
  BY <1>1 DEF Gone, Table
<1> DEFINE c == CHOOSE c \in Col : TRUE
<1>3. c \in Col
  BY ColAssumption
<1>4. Blank.change \in Change /\ Blank.meta \in Registry
  <2>1. /\ Blank.change = [op |-> "add", col |-> c, to |-> c, kind |-> "INTEGER"]
        /\ Blank.meta = [d \in Col |-> "none"]
    BY DEF Blank
  <2> HIDE DEF c
  <2> QED BY <1>3, <2>1 DEF Change, Kind, Registry
<1>5. Blank = [change |-> Blank.change, meta |-> Blank.meta, cols |-> {},
               rows |-> NoRows]
  BY DEF Blank
<1>6. ASSUME NEW ch \in Change, NEW m \in Registry, NEW r \in Rows
      PROVE  [change |-> ch, meta |-> m, cols |-> {}, rows |-> r] \in Local
  BY DEF Local
<1>7. Blank \in Local
  BY <1>1, <1>4, <1>5, <1>6, Zenon
<1> QED BY <1>1, <1>2, <1>7

LEMMA MixType ==
  ASSUME TInv
  PROVE  /\ mix.threads \subseteq Threads /\ mix.changes \subseteq Change
         /\ mix.keys \subseteq PK /\ mix.docs \subseteq Doc \cup {Null}
         /\ mix.declared \in Registry /\ mix.implicit \in BOOLEAN
<1>1. mix \in Mix
  BY MixAssumption DEF TInv, TypeOK
<1> QED BY <1>1 DEF Mix

-----------------------------------------------------------------------------
(***************************************************************************)
(* Full-text indexes.                                                      *)
(***************************************************************************)
LEMMA DocsType ==
  ASSUME NEW rows \in Rows, NEW c \in Col
  PROVE  Docs(rows, c) \in [PK -> Doc \cup {Null}]
<1>1. ASSUME NEW k \in PK PROVE Docs(rows, c)[k] \in Doc \cup {Null}
  BY DEF Docs, Rows, Row
<1> QED BY <1>1 DEF Docs

LEMMA MadeValue ==
  ASSUME NEW F \in Indexes, NEW c \in Col
  PROVE  /\ Made(F, c) \in Indexes
         /\ Made(F, c)[c].there /\ Made(F, c)[c].docs = F[c].docs
         /\ Made(F, c)[c].on = IF F[c].on = "none" THEN "table" ELSE F[c].on
         /\ Made(F, c)[c].reads = F[c].reads
         /\ \A d \in Col : d # c => Made(F, c)[d] = F[d]
<1> DEFINE new == [F[c] EXCEPT !.there = TRUE,
                              !.on = IF @ = "none" THEN "table" ELSE @]
<1>1. F[c] \in Index /\ F \in [Col -> Index]
  BY DEF Indexes
<1>2. /\ new \in Index /\ new.there /\ new.docs = F[c].docs
      /\ new.on = IF F[c].on = "none" THEN "table" ELSE F[c].on
      /\ new.reads = F[c].reads
  <2> DEFINE on == IF F[c].on = "none" THEN "table" ELSE F[c].on
  <2>1. on \in {"none", "table", "old"}
    BY <1>1 DEF Index
  <2>2. new = [F[c] EXCEPT !.there = TRUE, !.on = on]
    BY <1>1 DEF Index
  <2> HIDE DEF on, new
  <2>3. new \in Index /\ new.there /\ new.docs = F[c].docs /\ new.on = on
        /\ new.reads = F[c].reads
    BY <1>1, <2>1, <2>2 DEF Index
  <2> QED BY <2>3 DEF on
<1>3. Made(F, c) = [F EXCEPT ![c] = new]
  BY <1>1 DEF Made
<1> HIDE DEF new
<1> QED BY <1>1, <1>2, <1>3 DEF Indexes

LEMMA BuiltValue ==
  ASSUME NEW F \in Indexes, NEW c \in Col, NEW rows \in Rows
  PROVE  /\ Built(F, c, rows) \in Indexes
         /\ Built(F, c, rows)[c].there
         /\ Built(F, c, rows)[c].docs = Docs(rows, c)
         /\ Built(F, c, rows)[c].on =
              IF F[c].on = "none" THEN "table" ELSE F[c].on
         /\ Built(F, c, rows)[c].reads = F[c].reads
         /\ \A d \in Col : d # c => Built(F, c, rows)[d] = F[d]
<1> DEFINE made == Made(F, c)
           new  == [made[c] EXCEPT !.docs = Docs(rows, c)]
<1>1. made \in Indexes /\ made \in [Col -> Index] /\ made[c] \in Index
  BY MadeValue DEF Indexes
<1>2. Docs(rows, c) \in [PK -> Doc \cup {Null}]
  BY DocsType
<1>3. Built(F, c, rows) = [made EXCEPT ![c] = new]
  BY <1>1 DEF Built
<1>4. /\ new \in Index /\ new.there = made[c].there /\ new.docs = Docs(rows, c)
      /\ new.on = made[c].on /\ new.reads = made[c].reads
  BY <1>1, <1>2 DEF Index
<1>5. Built(F, c, rows)[c] = new /\ \A d \in Col : d # c =>
                                     Built(F, c, rows)[d] = made[d]
  BY <1>1, <1>3, Zenon
<1>6. /\ made[c].there
      /\ made[c].on = IF F[c].on = "none" THEN "table" ELSE F[c].on
      /\ made[c].reads = F[c].reads
      /\ \A d \in Col : d # c => made[d] = F[d]
  BY MadeValue
<1> HIDE DEF new, made
<1>7. Built(F, c, rows) \in Indexes
  BY <1>1, <1>3, <1>4 DEF Indexes
<1> QED BY <1>4, <1>5, <1>6, <1>7

LEMMA StartedType ==
  ASSUME NEW F \in Indexes, NEW c \in Col
  PROVE  /\ Started(F, c) \subseteq Indexes
         /\ Dropped(F, c) \in Indexes
<1>1. [F EXCEPT ![c].there = TRUE] \in Indexes
  <2>1. F[c] \in Index /\ F \in [Col -> Index]
    BY DEF Indexes
  <2>2. /\ [F[c] EXCEPT !.there = TRUE] \in Index
        /\ [F[c] EXCEPT !.there = TRUE].on = F[c].on
        /\ [F[c] EXCEPT !.there = TRUE].reads = F[c].reads
    BY <2>1 DEF Index
  <2> QED BY <2>1, <2>2 DEF Indexes
<1>2. NoIndex(c) \in Index /\ NoIndex(c).reads = c
  BY DEF NoIndex, NoDocs, Index
<1>3. Dropped(F, c) \in Indexes
  BY <1>2 DEF Dropped, Indexes
<1> QED BY <1>1, <1>3, MadeValue DEF Started

LEMMA RebuiltType ==
  ASSUME NEW F \in Indexes, NEW C, NEW rows \in Rows
  PROVE  Rebuilt(F, C, rows) \in Indexes
<1>1. ASSUME NEW c \in Col
      PROVE  /\ Rebuilt(F, C, rows)[c] \in Index
             /\ Rebuilt(F, C, rows)[c].on = "none" =>
                  Rebuilt(F, C, rows)[c].reads = c
  BY DocsType DEF Rebuilt, Indexes, Index
<1> QED BY <1>1 DEF Rebuilt, Indexes

LEMMA TriggersType ==
  ASSUME fts \in Indexes
  PROVE  /\ MovedTriggers \in Indexes /\ WithoutTriggers \in Indexes
         /\ \A from, to \in Col : RenamedTriggers(from, to) \in Indexes
<1>1. MovedTriggers \in Indexes
  BY DEF MovedTriggers, Indexes, Index
<1>2. WithoutTriggers \in Indexes
  BY DEF WithoutTriggers, Indexes, Index
<1>3. ASSUME NEW from \in Col, NEW to \in Col
      PROVE  RenamedTriggers(from, to) \in Indexes
  BY DEF RenamedTriggers, Indexes, Index
<1> QED BY <1>1, <1>2, <1>3

LEMMA FiredType ==
  ASSUME fts \in Indexes, NEW k \in PK, NEW row \in Row \cup {NoRow}
  PROVE  Fired(k, row) \in Indexes
<1>1. ASSUME NEW c \in Col
      PROVE  /\ Fired(k, row)[c] \in Index
             /\ Fired(k, row)[c].on = fts[c].on
             /\ Fired(k, row)[c].reads = fts[c].reads
  BY DEF Fired, Indexes, Index, Row
<1> QED BY <1>1 DEF Fired, Indexes

LEMMA AllBuiltType ==
  ASSUME NEW F \in Indexes, NEW rows \in Rows
  PROVE  AllBuilt(F, rows) \in Indexes
<1>1. ASSUME NEW c \in Col
      PROVE  Built(F, c, rows) \in Indexes
  BY BuiltValue
<1>2. ASSUME NEW c \in Col
      PROVE  /\ AllBuilt(F, rows)[c] \in Index
             /\ AllBuilt(F, rows)[c].on = "none" =>
                  AllBuilt(F, rows)[c].reads = c
  BY <1>1 DEF AllBuilt, Indexes
<1> QED BY <1>2 DEF AllBuilt, Indexes

-----------------------------------------------------------------------------
\* What is stored and where the threads stand make up the invariant.
LEMMA GotoKeeps ==
  ASSUME TInv, NEW t \in Threads, NEW step \in Steps, NEW l \in Local,
         Knows(step, l), Goto(t, step, l), Stored'
  PROVE  TInv'
<1>1. /\ pc' \in [Threads -> Steps] /\ local' \in [Threads -> Local]
      /\ alone' \in [Threads -> BOOLEAN]
  BY DEF Goto, TInv, TypeOK
<1>2. \A u \in Threads : Knows(pc'[u], local'[u])
  BY DEF Goto, TInv, TypeOK, Knows
<1>3. mix' \in Mixes
  BY DEF Goto, TInv, TypeOK
<1>4. fts' \in [Col -> Index]
  BY DEF Stored, Indexes
<1> QED BY <1>1, <1>2, <1>3, <1>4, Zenon DEF Stored, TInv, TypeOK

LEMMA ReturnKeeps ==
  ASSUME TInv, NEW t \in Threads, Return(t), Stored'
  PROVE  TInv'
<1>1. Knows("idle", Blank) /\ "idle" \in Steps
  BY DEF Knows, Changes, Steps
<1> QED BY <1>1, EmptyTypes, GotoKeeps DEF Return

LEMMA ListedType ==
  ASSUME NEW S \in SUBSET Col
  PROVE  /\ Cardinality(S) \in Nat
         /\ Listed(S) \in [1 .. Cardinality(S) -> S]
<1>1. Cardinality(S) \in Nat /\ ExistsBijection(1 .. Cardinality(S), S)
  BY ColAssumption, FS_Subset, FS_CardinalityType
<1>2. \E f \in [1 .. Cardinality(S) -> S] :
        \A i, j \in DOMAIN f : f[i] = f[j] => i = j
  BY <1>1 DEF ExistsBijection, Bijection, Injection, IsInjective
<1> QED BY <1>1, <1>2 DEF Listed

LEMMA JournaledType ==
  ASSUME NEW C \in SUBSET Col, NEW entry \in [C -> Entry],
         journal \in Seq(Entry), Journaled(entry)
  PROVE  journal' \in Seq(Entry)
<1> DEFINE columns == Listed(C)
           entries == [i \in DOMAIN columns |-> entry[columns[i]]]
<1>1. Cardinality(C) \in Nat /\ columns \in [1 .. Cardinality(C) -> C]
  BY ListedType
<1>2. entries \in [1 .. Cardinality(C) -> Entry]
  BY <1>1
<1>3. entries \in Seq(Entry)
  BY <1>1, <1>2
<1>4. journal' = journal \o entries
  BY DEF Journaled
<1> HIDE DEF entries
<1> QED BY <1>3, <1>4, ConcatProperties

LEMMA UpsertedType ==
  ASSUME NEW v \in Vec \cup {NoVec}, NEW doc \in Doc \cup {Null},
         NEW names \in SUBSET Col
  PROVE  Upserted(v, doc, names) \in Vec
<1>1. (IF v = NoVec THEN names ELSE v.meta \cup names) \in SUBSET Col
  BY DEF Vec
<1> QED BY <1>1 DEF Upserted, Vec

LEMMA MetaType == \A row : Meta(row) \in SUBSET Col
  BY DEF Meta

LEMMA NamesType ==
  /\ \A row : Names(row) \in SUBSET Col
  /\ NamesNow \in [PK -> SUBSET Col]
  BY MetaType DEF Names, NamesNow

\* Metadata that are made anew have names of columns.
LEMMA MadeAnewType == MadeAnew => had' \in [PK -> SUBSET Col]
<1>1. ASSUME NEW k \in PK PROVE NamesNow'[k] \in SUBSET Col
  BY DEF NamesNow, Names, Meta
<1>2. NamesNow' = [k \in PK |-> NamesNow'[k]]
  BY DEF NamesNow
<1> QED BY <1>1, <1>2 DEF MadeAnew

LEMMA BatchType ==
  ASSUME journal \in Seq(Entry)
  PROVE  /\ Batch \in Seq(Entry) /\ Len(Batch) \in Nat
         /\ SubSeq(journal, Len(Batch) + 1, Len(journal)) \in Seq(Entry)
<1>1. Len(journal) \in Nat /\ \A i \in 1 .. Len(journal) : journal[i] \in Entry
  OBVIOUS
<1> DEFINE n == IF Len(journal) < BatchLimit THEN Len(journal) ELSE BatchLimit
<1>2. n \in Nat /\ n <= Len(journal)
  BY <1>1, LimitAssumption
<1>3. Batch = SubSeq(journal, 1, n)
  BY DEF Batch
<1> HIDE DEF n
<1>4. Batch \in Seq(Entry)
  BY <1>1, <1>2, <1>3, SubSeqProperties
<1>5. Len(Batch) \in Nat
  BY <1>4
<1>6. \A i \in Len(Batch) + 1 .. Len(journal) : journal[i] \in Entry
  BY <1>1, <1>5
<1>7. SubSeq(journal, Len(Batch) + 1, Len(journal)) \in Seq(Entry)
  BY <1>1, <1>5, <1>6, SubSeqProperties
<1> QED BY <1>4, <1>5, <1>7

LEMMA AppliedType ==
  ASSUME TInv, NEW batch \in Seq(Entry)
  PROVE  Applied(batch) \in [Col -> Vectors]
<1>1. ASSUME NEW c \in Col, NEW k \in PK
      PROVE  Applied(batch)[c][k] \in Vec \cup {NoVec}
  <2> DEFINE entry == batch[CHOOSE i \in DOMAIN batch : i \in Last(batch, c, k)]
  <2>1. chroma[c][k] \in Vec \cup {NoVec}
    BY DEF TInv, TypeOK, Vectors
  <2>2. CASE Last(batch, c, k) # {}
    <3>1. \E i \in DOMAIN batch : i \in Last(batch, c, k)
      BY <2>2 DEF Last, Matching
    <3>2. entry \in Entry
      BY <3>1
    <3>3. entry.doc \in Doc \cup {Null} /\ entry.meta \in SUBSET Col
      BY <3>2 DEF Entry
    <3>4. Upserted(chroma[c][k], entry.doc, entry.meta) \in Vec
      BY <2>1, <3>3, UpsertedType
    <3> QED BY <2>2, <3>4 DEF Applied
  <2> QED BY <2>1, <2>2 DEF Applied
<1> QED BY <1>1 DEF Applied, Vectors

LEMMA MetaUpdatedType ==
  ASSUME TInv, NEW vectors \in Vectors, NEW c \in Col
  PROVE  MetaUpdated(vectors, c) \in Vectors
<1>1. ASSUME NEW k \in PK
      PROVE  MetaUpdated(vectors, c)[k] \in Vec \cup {NoVec}
  <2> DEFINE row == table.rows[k]
  <2>1. vectors[k] \in Vec \cup {NoVec} /\ row \in Row \cup {NoRow}
    BY DEF Vectors, TInv, TypeOK, Table, Rows
  <2>2. vectors[k] # NoVec => [vectors[k] EXCEPT !.meta = Meta(row)] \in Vec
    BY <2>1, MetaType DEF Vec
  <2>3. row # NoRow => [doc |-> row[c], meta |-> Meta(row)] \in Vec
    BY <2>1, MetaType DEF Vec, Row
  <2> QED BY <2>1, <2>2, <2>3 DEF MetaUpdated, Present
<1>2. MetaUpdated(vectors, c) = [k \in PK |-> MetaUpdated(vectors, c)[k]]
  BY DEF MetaUpdated
<1> QED BY <1>1, <1>2 DEF Vectors

LEMMA ChromaAfterType ==
  ASSUME TInv, NEW batch \in Seq(Entry)
  PROVE  ChromaAfter(batch) \in [Col -> Vectors]
<1>1. \A c \in Col : Applied(batch)[c] \in Vectors
  BY AppliedType
<1>2. \A c \in Col : MetaUpdated(Applied(batch)[c], c) \in Vectors
  BY <1>1, MetaUpdatedType
<1> QED BY <1>1, <1>2 DEF ChromaAfter

\* Every part of what is stored is at hand in each case below.
LEMMA StoredNow == TInv => Stored
  BY DEF TInv, TypeOK, Stored

LEMMA WriteRowKeeps ==
  ASSUME TInv, NEW t \in Threads, NEW op \in {"add", "update", "delete"},
         NEW k \in PK, NEW row \in Row \cup {NoRow}, WriteRow(t, op, k, row)
  PROVE  TInv'
<1> DEFINE entry == [c \in LongText(registry) |->
                       [op |-> op, col |-> c, at |-> k,
                        doc  |-> IF row = NoRow THEN Null ELSE row[c],
                        meta |-> Names(row)]]
<1>1. LongText(registry) \in SUBSET Col
  BY DEF LongText
<1>2. entry \in [LongText(registry) -> Entry]
  <2>1. ASSUME NEW c \in LongText(registry) PROVE entry[c] \in Entry
    BY <1>1, NamesType DEF Entry, Row
  <2> QED BY <2>1
<1>3. journal' \in Seq(Entry)
  BY <1>1, <1>2, JournaledType DEF WriteRow, TInv, TypeOK
<1>4. table' \in Table
  BY DEF WriteRow, TInv, TypeOK, Table, Rows
<1>5. fts' \in Indexes
  BY FiredType, StoredNow DEF WriteRow, Stored
<1>6. had' \in [PK -> SUBSET Col]
  BY NamesType DEF WriteRow, TInv, TypeOK
<1>7. Stored'
  BY <1>3, <1>4, <1>5, <1>6, StoredNow DEF WriteRow, flaws, Stored
<1> QED BY <1>7, ReturnKeeps DEF WriteRow

LEMMA RowOpsKeep ==
  ASSUME TInv, NEW t \in Threads,
         \/ \E k \in mix.keys, row \in Row : Insert(t, k, row)
         \/ \E k \in mix.keys, c \in Col, d \in mix.docs : Update(t, k, c, d)
         \/ \E k \in mix.keys : Delete(t, k)
  PROVE  TInv'
<1>1. ASSUME NEW k \in mix.keys, NEW row \in Row, Insert(t, k, row)
      PROVE  TInv'
  BY <1>1, MixType, WriteRowKeeps DEF Insert
<1>2. ASSUME NEW k \in mix.keys, NEW c \in Col, NEW d \in mix.docs,
             Update(t, k, c, d)
      PROVE  TInv'
  <2>1. k \in PK /\ d \in Doc \cup {Null}
    BY MixType
  <2>2. table.rows[k] \in Row
    BY <1>2, <2>1 DEF Update, TInv, TypeOK, Table, Rows
  <2>3. [table.rows[k] EXCEPT ![c] = d] \in Row
    BY <2>1, <2>2 DEF Row
  <2> QED BY <1>2, <2>1, <2>3, WriteRowKeeps DEF Update
<1>3. ASSUME NEW k \in mix.keys, Delete(t, k)
      PROVE  TInv'
  BY <1>3, MixType, WriteRowKeeps DEF Delete
<1> QED BY <1>1, <1>2, <1>3

LEMMA ProcessKeeps ==
  ASSUME TInv, NEW t \in Threads, Process(t)
  PROVE  TInv'
<1>1. journal \in Seq(Entry)
  BY DEF TInv, TypeOK
<1>2. chroma' \in [Col -> Vectors] /\ journal' \in Seq(Entry)
  BY <1>1, BatchType, ChromaAfterType DEF Process
<1>3. drift' \in BOOLEAN
  BY DEF Process, TInv, TypeOK
<1>4. Stored'
  BY <1>2, <1>3, StoredNow DEF Process, sqlite, Stored
<1> QED BY <1>4, ReturnKeeps DEF Process

LEMMA StartChangeKeeps ==
  ASSUME TInv, NEW t \in Threads, NEW change \in mix.changes,
         StartChange(t, change)
  PROVE  TInv'
<1> DEFINE l == [Blank EXCEPT !.change = change, !.meta = registry]
<1>1. change \in Change /\ registry \in Registry /\ Blank \in Local
  BY MixType, EmptyTypes DEF TInv, TypeOK
<1>2. l \in Local /\ l.change = change
  BY <1>1 DEF Local
<1>3. change.op \in Steps /\ Knows(change.op, l)
  BY <1>1, <1>2 DEF Change, Steps, Knows
<1>4. Goto(t, change.op, l)
  BY DEF StartChange
<1>5. Stored'
  BY StoredNow DEF StartChange, sqlite, flaws, Stored
<1> HIDE DEF l
<1> QED BY <1>2, <1>3, <1>4, <1>5, GotoKeeps

LEMMA RaiseKeeps ==
  ASSUME TInv, NEW t \in Threads, Raise(t)
  PROVE  TInv'
<1>1. Stored'
  BY StoredNow DEF Raise, sqlite, flaws, Stored
<1> QED BY <1>1, ReturnKeeps DEF Raise

\* What a thread in a change holds.
LEMMA HeldChange ==
  ASSUME TInv, NEW t \in Threads
  PROVE  /\ local[t].change \in Change /\ local[t].meta \in Registry
         /\ local[t].change.col \in Col /\ local[t].change.to \in Col
         /\ local[t].change.kind \in Kind
         /\ local[t].cols \subseteq Col /\ local[t].rows \in Rows
         /\ local[t] \in Local
         /\ Kept(t) \subseteq Col
<1>1. local[t] \in Local
  BY DEF TInv, TypeOK
<1> QED BY <1>1 DEF Local, Change, Kept, Named

LEMMA AddKeeps ==
  ASSUME TInv, NEW t \in Threads, Add(t) \/ AddHalf(t)
  PROVE  TInv'
<1> DEFINE c == local[t].change.col
<1>1. [table EXCEPT !.cols = @ \cup {c}] \in Table
  BY HeldChange DEF TInv, TypeOK, Table
<1>2. [local[t].meta EXCEPT ![c] = local[t].change.kind] \in Registry
  BY HeldChange DEF Registry
<1>3. CASE Add(t) /\ ~(~table.there \/ c \in table.cols)
  <2>1. /\ Return(t) /\ UNCHANGED <<old, journal, chroma, had>>
        /\ table' = [table EXCEPT !.cols = @ \cup {c}]
        /\ registry' = [local[t].meta EXCEPT ![c] = local[t].change.kind]
        /\ fts' \in {Built(fts, c, table'.rows), fts}
    BY <1>3 DEF Add
  <2>2. drift' \in BOOLEAN /\ torn' \in BOOLEAN
    BY <1>3 DEF Add, TInv, TypeOK
  <2>3. table'.rows \in Rows
    BY <1>1, <2>1 DEF Table
  <2>4. fts' \in Indexes
    BY <2>1, <2>3, BuiltValue, HeldChange DEF TInv
  <2>5. Stored'
    BY <1>1, <1>2, <2>1, <2>2, <2>4, StoredNow DEF Stored
  <2> QED BY <2>1, <2>5, ReturnKeeps
<1>4. CASE Add(t) /\ (~table.there \/ c \in table.cols)
  BY <1>4, RaiseKeeps DEF Add
<1>5. CASE AddHalf(t)
  <2>1. /\ Return(t) /\ UNCHANGED <<old, registry, journal, chroma, flaws, had>>
        /\ table' = [table EXCEPT !.cols = @ \cup {c}]
        /\ fts' \in Started(fts, c) \cup {fts}
    BY <1>5 DEF AddHalf
  <2>2. fts' \in Indexes
    BY <2>1, StartedType, HeldChange DEF TInv
  <2>3. Stored'
    BY <1>1, <2>1, <2>2, StoredNow DEF flaws, Stored
  <2> QED BY <2>1, <2>3, ReturnKeeps
<1> QED BY <1>3, <1>4, <1>5

LEMMA MetaUpdatesType ==
  ASSUME NEW reg, journal \in Seq(Entry), MetaUpdates(reg)
  PROVE  journal' \in Seq(Entry) /\ had' \in [PK -> SUBSET Col]
<1> DEFINE entry == [c \in LongText(reg) |->
                       [op |-> "meta_update", col |-> c, at |-> 0,
                        doc |-> Null, meta |-> {}]]
<1>1. LongText(reg) \in SUBSET Col
  BY DEF LongText
<1>2. ASSUME NEW c \in LongText(reg) PROVE entry[c] \in Entry
  BY <1>1 DEF Entry
<1>3. entry \in [LongText(reg) -> Entry]
  BY <1>2
<1>4. journal' \in Seq(Entry)
  BY <1>1, <1>3, JournaledType DEF MetaUpdates
<1> QED BY <1>4, MadeAnewType DEF MetaUpdates

LEMMA RenumberedType ==
  ASSUME NEW rows \in Rows
  PROVE  Renumbered(rows) \in Rows
<1> DEFINE Nth(k) == {p \in Present(rows) :
                        Cardinality({q \in Present(rows) : q <= p}) = k}
<1>1. ASSUME NEW k, Nth(k) # {}
      PROVE  rows[CHOOSE p \in PK : p \in Nth(k)] \in Row \cup {NoRow}
  <2>1. \E p \in PK : p \in Nth(k)
    BY <1>1 DEF Present
  <2>2. (CHOOSE p \in PK : p \in Nth(k)) \in PK
    BY <2>1
  <2> HIDE DEF Nth
  <2> QED BY <2>2 DEF Rows
<1>2. ~mix.implicit => Renumbered(rows) = rows
  BY DEF Renumbered
<1>3. mix.implicit =>
        Renumbered(rows) = [k \in PK |-> IF Nth(k) = {} THEN NoRow
                              ELSE rows[CHOOSE p \in PK : p \in Nth(k)]]
  BY DEF Renumbered
<1> HIDE DEF Nth
<1> QED BY <1>1, <1>2, <1>3 DEF Rows

LEMMA CopiedType ==
  ASSUME TInv, NEW t \in Threads
  PROVE  Copied(t) \in Table
<1> DEFINE rows == Renumbered(table.rows)
           copy == [k \in PK |-> IF rows[k] = NoRow THEN NoRow
                                 ELSE [c \in Col |-> IF c \in Kept(t)
                                                     THEN rows[k][c] ELSE Null]]
<1>1. rows \in Rows
  BY RenumberedType DEF TInv, TypeOK, Table
<1>2. ASSUME NEW k \in PK PROVE copy[k] \in Row \cup {NoRow}
  <2>1. rows[k] \in Row \cup {NoRow}
    BY <1>1 DEF Rows
  <2> HIDE DEF rows
  <2> QED BY <2>1 DEF Row
<1>3. copy \in Rows
  BY <1>2 DEF Rows
<1>4. Copied(t) = [there |-> TRUE, cols |-> Kept(t), rows |-> copy]
  BY DEF Copied
<1> HIDE DEF copy
<1> QED BY <1>3, <1>4, HeldChange DEF Table

LEMMA ClearedType ==
  ASSUME TInv, NEW t \in Threads
  PROVE  Cleared(t) \in [Col -> Vectors]
<1>1. chroma \in [Col -> Vectors] /\ NoVectors \in Vectors
  BY EmptyTypes DEF TInv, TypeOK
<1> QED BY <1>1 DEF Cleared

LEMMA DropKeeps ==
  ASSUME TInv, NEW t \in Threads, Drop(t)
  PROVE  TInv'
<1>1. CASE ~CanMove
  BY <1>1, RaiseKeeps DEF Drop
<1>2. CASE CanMove
  <2> DEFINE c == local[t].change.col
             F == IF local[t].meta[c] = "LONGTEXT"
                  THEN Dropped(WithoutTriggers, c) ELSE WithoutTriggers
  <2>1. /\ table' = Copied(t) /\ UNCHANGED old /\ Return(t)
        /\ registry' = [local[t].meta EXCEPT ![c] = "none"]
        /\ fts' = Rebuilt(F, LongText(registry'), table'.rows)
        /\ MetaUpdates(registry')
        /\ chroma' = Cleared(t) \/ chroma' = chroma
    BY <1>2 DEF Drop
  <2>2. drift' \in BOOLEAN /\ torn' \in BOOLEAN
    BY <1>2 DEF Drop, TInv, TypeOK
  <2>3. registry' \in Registry
    BY <2>1, HeldChange DEF Registry
  <2>4. journal' \in Seq(Entry) /\ had' \in [PK -> SUBSET Col]
    BY <2>1, MetaUpdatesType DEF TInv, TypeOK
  <2>5. table' \in Table /\ chroma' \in [Col -> Vectors]
    BY <2>1, CopiedType, ClearedType DEF TInv, TypeOK
  <2>6. F \in Indexes
    BY TriggersType, StartedType, HeldChange DEF TInv
  <2>7. fts' \in Indexes
    BY <2>1, <2>5, <2>6, RebuiltType DEF Table
  <2>8. Stored'
    BY <2>1, <2>2, <2>3, <2>4, <2>5, <2>7, StoredNow DEF Stored
  <2> QED BY <2>1, <2>8, ReturnKeeps
<1> QED BY <1>1, <1>2

LEMMA DropHalfKeeps ==
  ASSUME TInv, NEW t \in Threads, DropHalf(t)
  PROVE  TInv'
<1> DEFINE empty == [there |-> TRUE, cols |-> Kept(t), rows |-> NoRows]
<1>1. empty \in Table /\ Gone \in Table
  BY HeldChange, EmptyTypes DEF Table
<1>2. /\ table' \in {Gone, empty} /\ old' = table
      /\ chroma' = Cleared(t) \/ chroma' = chroma
      /\ fts' = MovedTriggers /\ drift' = TRUE /\ torn' = TRUE
      /\ Return(t) /\ UNCHANGED <<registry, journal, had>>
  BY DEF DropHalf, MovedAway
<1>3. fts' \in Indexes
  BY <1>2, TriggersType DEF TInv
<1> HIDE DEF empty
<1>4. Stored'
  BY <1>1, <1>2, <1>3, ClearedType, StoredNow DEF Stored
<1> QED BY <1>2, <1>4, ReturnKeeps

LEMMA CarriedType ==
  ASSUME TInv, NEW c \in Col, NEW d \in Col
  PROVE  Carried(c, d) \in Vectors
<1>1. ASSUME NEW k \in PK PROVE Carried(c, d)[k] \in Vec \cup {NoVec}
  <2>1. chroma[c][k] \in Vec \cup {NoVec} /\ chroma[d][k] \in Vec \cup {NoVec}
    BY DEF TInv, TypeOK, Vectors
  <2>2. chroma[c][k] # NoVec =>
          Upserted(chroma[d][k], chroma[c][k].doc, chroma[c][k].meta) \in Vec
    BY <2>1, UpsertedType DEF Vec
  <2> QED BY <2>1, <2>2 DEF Carried
<1> QED BY <1>1 DEF Carried, Vectors

LEMMA CarryType ==
  ASSUME TInv, NEW t \in Threads, Carry(t)
  PROVE  chroma' \in [Col -> Vectors]
<1> DEFINE c == local[t].change.col
           d == local[t].change.to
<1>1. /\ c \in Col /\ d \in Col /\ Carried(c, d) \in Vectors
      /\ NoVectors \in Vectors /\ chroma \in [Col -> Vectors]
  BY HeldChange, CarriedType, EmptyTypes DEF TInv, TypeOK
<1>2. \/ chroma' = chroma
      \/ chroma' = [chroma EXCEPT ![d] = Carried(c, d), ![c] = NoVectors]
      \/ chroma' = [chroma EXCEPT ![d] = Carried(c, d)]
  BY DEF Carry
<1> HIDE DEF c, d
<1> QED BY <1>1, <1>2

LEMMA RenamedType ==
  ASSUME TInv, NEW t \in Threads
  PROVE  Renamed(t) \in Table
<1> DEFINE c == local[t].change.col
           d == local[t].change.to
           new == [k \in PK |-> LET row == table.rows[k] IN
                     IF row = NoRow THEN NoRow
                     ELSE [row EXCEPT ![d] = row[c], ![c] = Null]]
<1>1. c \in Col /\ d \in Col /\ table \in Table
  BY HeldChange DEF TInv, TypeOK
<1>2. Renamed(t) = [table EXCEPT !.cols = (@ \ {c}) \cup {d}, !.rows = new]
  BY DEF Renamed
<1> HIDE DEF c, d
<1>3. ASSUME NEW k \in PK PROVE new[k] \in Row \cup {NoRow}
  <2>1. table.rows[k] \in Row \cup {NoRow}
    BY <1>1 DEF Table, Rows
  <2> QED BY <1>1, <2>1 DEF Row
<1>4. new \in Rows
  BY <1>3 DEF Rows
<1> HIDE DEF new
<1> QED BY <1>1, <1>2, <1>4 DEF Table

LEMMA RenameKeeps ==
  ASSUME TInv, NEW t \in Threads, Rename(t)
  PROVE  TInv'
<1>1. CASE ~CanRename(t)
  BY <1>1, RaiseKeeps DEF Rename
<1>2. CASE CanRename(t)
  <2> DEFINE c == local[t].change.col
             d == local[t].change.to
  <2>1. /\ table' = Renamed(t) /\ UNCHANGED old /\ Return(t) /\ Carry(t)
        /\ \E kind \in {local[t].meta[c], local[t].meta[d]} \ {"none"} :
             registry' = RenamedRegistry(t, kind)
        /\ fts' \in {Built(Dropped(RenamedTriggers(c, d), c), d, table'.rows),
                    RenamedTriggers(c, d)}
        /\ MetaUpdates(registry')
    BY <1>2 DEF Rename
  <2>2. drift' \in BOOLEAN /\ torn' \in BOOLEAN
    BY <1>2 DEF Rename, TInv, TypeOK
  <2>3. ASSUME NEW kind \in {local[t].meta[c], local[t].meta[d]} \ {"none"}
        PROVE  RenamedRegistry(t, kind) \in Registry
    BY HeldChange DEF RenamedRegistry, Registry
  <2>4. registry' \in Registry
    BY <2>1, <2>3
  <2>5. journal' \in Seq(Entry) /\ had' \in [PK -> SUBSET Col]
    BY <2>1, MetaUpdatesType DEF TInv, TypeOK
  <2>6. table' \in Table /\ chroma' \in [Col -> Vectors]
    BY <2>1, RenamedType, CarryType
  <2>7. c \in Col /\ d \in Col /\ table'.rows \in Rows
    BY <2>6, HeldChange DEF Table
  <2>8. RenamedTriggers(c, d) \in Indexes
    BY <2>7, TriggersType DEF TInv
  <2>9. Dropped(RenamedTriggers(c, d), c) \in Indexes
    BY <2>7, <2>8, StartedType
  <2>10. Built(Dropped(RenamedTriggers(c, d), c), d, table'.rows) \in Indexes
    BY <2>7, <2>9, BuiltValue
  <2>11. Stored'
    BY <2>1, <2>2, <2>4, <2>5, <2>6, <2>8, <2>10, StoredNow DEF Stored
  <2> QED BY <2>1, <2>11, ReturnKeeps
<1> QED BY <1>1, <1>2

LEMMA RenameHalfKeeps ==
  ASSUME TInv, NEW t \in Threads, RenameHalf(t)
  PROVE  TInv'
<1> DEFINE c == local[t].change.col
           d == local[t].change.to
           F == RenamedTriggers(c, d)
<1>1. table' \in Table /\ chroma' \in [Col -> Vectors]
  BY RenamedType, CarryType DEF RenameHalf
<1>2. c \in Col /\ d \in Col /\ F \in Indexes
  BY HeldChange, TriggersType DEF TInv
<1>3. fts' = F \/ fts' \in Started(Dropped(F, c), d)
  BY DEF RenameHalf
<1> HIDE DEF c, d, F
<1>4. fts' \in Indexes
  BY <1>2, <1>3, StartedType
<1>5. /\ Return(t) /\ UNCHANGED <<old, registry, journal, had>>
      /\ drift' = TRUE /\ torn' = TRUE
  BY DEF RenameHalf
<1>6. Stored'
  BY <1>1, <1>4, <1>5, StoredNow DEF Stored
<1> QED BY <1>5, <1>6, ReturnKeeps

LEMMA CreatedType == TInv => Created \in Table
<1> SUFFICES ASSUME TInv PROVE Created \in Table
  OBVIOUS
<1>1. table \in Table /\ Named(mix.declared) \subseteq Col /\ NoRows \in Rows
  BY EmptyTypes DEF TInv, TypeOK, Named
<1> QED BY <1>1 DEF Created, Table

LEMMA CreateKeeps ==
  ASSUME TInv, NEW t \in Threads, CreateTable(t)
  PROVE  TInv'
<1>1. /\ table' = Created /\ Return(t) /\ UNCHANGED <<old, journal, chroma, had>>
      /\ registry' \in {registry, mix.declared}
      /\ \/ fts' = AllBuilt(fts, table'.rows)
         \/ \E c \in LongText(mix.declared) : fts' \in Started(fts, c)
  BY DEF CreateTable
<1>2. drift' \in BOOLEAN /\ torn' \in BOOLEAN
  BY DEF CreateTable, TInv, TypeOK
<1>3. table' \in Table /\ table'.rows \in Rows
  BY <1>1, CreatedType DEF Table
<1>4. fts' \in Indexes
  BY <1>1, <1>3, AllBuiltType, StartedType DEF TInv, LongText
<1>5. Stored'
  BY <1>1, <1>2, <1>3, <1>4, MixType, StoredNow DEF Stored
<1> QED BY <1>1, <1>5, ReturnKeeps

LEMMA ReindexKeeps ==
  ASSUME TInv, NEW t \in Threads,
         \/ StartReindex(t) \/ ReindexHalf(t)
         \/ \E c \in Col : ReindexRead(t, c)
         \/ ReindexWrite(t) \/ ReindexDone(t)
  PROVE  TInv'
<1>0. chroma \in [Col -> Vectors] /\ NoVectors \in Vectors /\ Blank \in Local
  BY EmptyTypes DEF TInv, TypeOK
<1>1. \A l : Knows("reindex", l) /\ Knows("reindex_write", l)
  BY DEF Knows, Changes
<1>2. "reindex" \in Steps /\ "reindex_write" \in Steps
  BY DEF Steps
<1>3. CASE StartReindex(t)
  <2> DEFINE l == [Blank EXCEPT !.cols = LongText(registry)]
  <2>1. l \in Local
    BY <1>0 DEF Local, LongText
  <2>2. Goto(t, "reindex", l) /\ drift' = TRUE /\ torn' \in BOOLEAN
        /\ fts' = Rebuilt(fts, LongText(registry), table.rows)
        /\ UNCHANGED <<table, old, registry, journal, chroma, had>>
    BY <1>3 DEF StartReindex, Sound
  <2>3. fts' \in Indexes
    BY <2>2, RebuiltType DEF TInv, TypeOK, Table
  <2>4. Stored'
    BY <2>2, <2>3, StoredNow DEF Stored
  <2> HIDE DEF l
  <2> QED BY <1>1, <1>2, <2>1, <2>2, <2>4, GotoKeeps
<1>4. ASSUME NEW c \in Col, ReindexRead(t, c) PROVE TInv'
  <2> DEFINE l == [local[t] EXCEPT !.change.col = c, !.rows = table.rows]
  <2>1. table.rows \in Rows /\ local[t] \in Local
    BY HeldChange DEF TInv, TypeOK, Table
  <2>2. [local[t].change EXCEPT !.col = c] \in Change
    BY HeldChange DEF Change
  <2>3. l \in Local
    BY <2>1, <2>2 DEF Local
  <2>4. /\ chroma' = [chroma EXCEPT ![c] = NoVectors] /\ drift' = TRUE
        /\ UNCHANGED <<sqlite, journal, torn, had>>
        /\ Return(t) \/ Goto(t, "reindex_write", l)
    BY <1>4 DEF ReindexRead
  <2>5. Stored'
    BY <1>0, <2>4, StoredNow DEF sqlite, Stored
  <2> HIDE DEF l
  <2> QED BY <1>1, <1>2, <2>3, <2>4, <2>5, GotoKeeps, ReturnKeeps
<1>5. CASE ReindexWrite(t)
  <2> DEFINE c    == local[t].change.col
             rows == local[t].rows
             l    == [local[t] EXCEPT !.cols = @ \ {c}, !.rows = NoRows]
             made == [k \in PK |->
                        IF rows[k] = NoRow THEN chroma[c][k]
                        ELSE Upserted(chroma[c][k], rows[k][c], Meta(rows[k]))]
  <2>1. c \in Col /\ rows \in Rows /\ local[t] \in Local /\ NoRows \in Rows
    BY HeldChange, EmptyTypes
  <2>2. l \in Local
    BY <2>1 DEF Local
  <2>3. ASSUME NEW k \in PK PROVE made[k] \in Vec \cup {NoVec}
    <3>1. chroma[c][k] \in Vec \cup {NoVec} /\ rows[k] \in Row \cup {NoRow}
      BY <1>0, <2>1 DEF Vectors, Rows
    <3>2. rows[k] # NoRow =>
            Upserted(chroma[c][k], rows[k][c], Meta(rows[k])) \in Vec
      BY <2>1, <3>1, UpsertedType, MetaType DEF Row
    <3> QED BY <3>1, <3>2
  <2>4. made \in Vectors
    BY <2>3 DEF Vectors
  <2>5. /\ \/ Return(t) /\ UNCHANGED chroma
           \/ Goto(t, "reindex", l) /\ chroma' = [chroma EXCEPT ![c] = made]
        /\ drift' = TRUE /\ UNCHANGED <<sqlite, journal, torn, had>>
    BY <1>5 DEF ReindexWrite
  <2> HIDE DEF made, c, l
  <2>6. Stored'
    BY <1>0, <2>1, <2>4, <2>5, StoredNow DEF sqlite, Stored
  <2> QED BY <1>1, <1>2, <2>2, <2>5, <2>6, GotoKeeps, ReturnKeeps
<1>6. CASE ReindexDone(t)
  <2>1. Stored'
    BY <1>6, MadeAnewType, StoredNow DEF ReindexDone, sqlite, Stored
  <2> QED BY <1>6, <2>1, ReturnKeeps DEF ReindexDone
<1>7. CASE ReindexHalf(t)
  <2>1. /\ Return(t) /\ drift' = TRUE /\ torn' = TRUE
        /\ UNCHANGED <<table, old, registry, journal, chroma, had>>
        /\ \E c \in LongText(registry) : fts' \in Started(Dropped(fts, c), c)
    BY <1>7 DEF ReindexHalf
  <2>2. fts' \in Indexes
    BY <2>1, StartedType DEF TInv, LongText
  <2>3. Stored'
    BY <2>1, <2>2, StoredNow DEF Stored
  <2> QED BY <2>1, <2>3, ReturnKeeps
<1> QED BY <1>3, <1>4, <1>5, <1>6, <1>7

LEMMA RestartKeeps ==
  ASSUME TInv, Restart
  PROVE  TInv'
<1>1. /\ pc' \in [Threads -> Steps] /\ local' \in [Threads -> Local]
      /\ alone' \in [Threads -> BOOLEAN]
  BY EmptyTypes DEF Restart, Steps
<1>2. \A u \in Threads : Knows(pc'[u], local'[u])
  BY DEF Restart, Knows, Changes
<1>3. Stored' /\ mix' \in Mixes
  BY StoredNow DEF Restart, sqlite, flaws, Stored, TInv, TypeOK
<1>4. fts' \in [Col -> Index]
  BY <1>3 DEF Stored, Indexes
<1> QED BY <1>1, <1>2, <1>3, <1>4, Zenon DEF Stored, TInv, TypeOK

LEMMA InitTInv == Init => TInv
<1> SUFFICES ASSUME Init PROVE TInv
  OBVIOUS
<1>1. mix.declared \in Registry
  BY MixAssumption DEF Init, Mix
<1>2. table \in Table /\ old \in Table /\ chroma \in [Col -> Vectors]
  BY EmptyTypes DEF Init, Table, Named
<1>3. /\ pc \in [Threads -> Steps] /\ local \in [Threads -> Local]
      /\ \A u \in Threads : Knows(pc[u], local[u])
  BY EmptyTypes DEF Init, Steps, Knows, Changes
<1>4. /\ mix \in Mixes /\ registry \in Registry
      /\ journal \in Seq(Entry) /\ drift \in BOOLEAN /\ torn \in BOOLEAN
      /\ had \in [PK -> SUBSET Col] /\ alone \in [Threads -> BOOLEAN]
  <2>1. journal = <<>>
    BY DEF Init
  <2>2. journal \in Seq(Entry)
    BY <2>1
  <2>3. alone \in [Threads -> BOOLEAN]
    BY DEF Init
  <2>4. /\ mix \in Mixes /\ registry \in Registry
        /\ drift \in BOOLEAN /\ torn \in BOOLEAN
        /\ had \in [PK -> SUBSET Col]
    BY <1>1 DEF Init
  <2> QED BY <2>2, <2>3, <2>4
<1>5. fts \in Indexes /\ fts \in [Col -> Index]
  <2>1. ASSUME NEW c \in Col
        PROVE  fts[c] \in Index /\ (fts[c].on = "none" => fts[c].reads = c)
    <3> DEFINE there == c \in LongText(registry)
               on    == IF there THEN "table" ELSE "none"
    <3>1. fts[c] = [NoIndex(c) EXCEPT !.there = there, !.on = on]
      BY DEF Init
    <3>2. NoIndex(c) \in Index /\ NoIndex(c).reads = c
      BY DEF NoIndex, NoDocs, Index
    <3>3. there \in BOOLEAN /\ on \in {"none", "table", "old"}
      OBVIOUS
    <3> HIDE DEF there, on
    <3> QED BY <3>1, <3>2, <3>3 DEF Index
  <2> QED BY <2>1 DEF Init, Indexes
<1> QED BY <1>2, <1>3, <1>4, <1>5, Zenon DEF TInv, TypeOK

LEMMA StepKeeps ==
  ASSUME TInv, NEW t \in Threads, Step(t)
  PROVE  TInv'
<1>1. ASSUME NEW change \in mix.changes, StartChange(t, change) PROVE TInv'
  BY <1>1, StartChangeKeeps
<1> QED BY <1>1, RowOpsKeep, ProcessKeeps, AddKeeps, DropKeeps, DropHalfKeeps,
           RenameKeeps, RenameHalfKeeps, CreateKeeps, ReindexKeeps DEF Step

LEMMA NextTInv == TInv /\ [Next]_vars => TInv'
<1> SUFFICES ASSUME TInv, [Next]_vars PROVE TInv'
  OBVIOUS
<1>1. CASE Next
  <2>1. ASSUME NEW t \in mix.threads, Step(t) PROVE TInv'
    BY <2>1, MixType, StepKeeps
  <2> QED BY <1>1, <2>1, RestartKeeps DEF Next
<1>2. CASE UNCHANGED vars
  BY <1>2 DEF vars, sqlite, flaws, TInv, TypeOK
<1> QED BY <1>1, <1>2

\* Tables, registrations, vectors, entries and threads keep their types, for any
\* columns, keys, threads and mixes of operations.
THEOREM SchemaTypes == Spec => []TypeOK
<1>1. TInv => TypeOK
  BY DEF TInv
<1> QED BY InitTInv, NextTInv, <1>1, PTL DEF Spec

-----------------------------------------------------------------------------
(***************************************************************************)
(* The table has its registered columns, and their full-text indexes have  *)
(* its rows.                                                               *)
(***************************************************************************)
\* The triggers of the index of column c, if there are any, are those of a table
\* with these columns and read its column.
Own(index, c, cols) ==
  /\ index.reads = c /\ index.on # "old"
  /\ index.on = "table" => c \in cols

\* The index has the documents of the rows, and triggers that keep it so.
Current(index, c, rows) ==
  index.there /\ index.on = "table" /\ index.docs = Docs(rows, c)

\* Indexes, a table and its registration that belong together.
Fit(F, tab, reg) ==
  /\ tab.there /\ Named(reg) \subseteq tab.cols
  /\ \A c \in Col : Own(F[c], c, tab.cols)
  /\ \A c \in LongText(reg) : Current(F[c], c, tab.rows)

Fits == ~torn => Fit(fts, table, registry)

LEMMA BuiltFits ==
  ASSUME NEW F \in Indexes, NEW c \in Col, NEW rows \in Rows, NEW cols,
         Own(F[c], c, cols), c \in cols
  PROVE  /\ Own(Built(F, c, rows)[c], c, cols)
         /\ Current(Built(F, c, rows)[c], c, rows)
         /\ \A d \in Col : d # c => Built(F, c, rows)[d] = F[d]
<1>1. F[c].on \in {"none", "table", "old"}
  BY DEF Indexes, Index
<1> QED BY <1>1, BuiltValue DEF Own, Current

\* An index that is not filled yet is not another column's.
LEMMA StartedFits ==
  ASSUME NEW F \in Indexes, NEW c \in Col, NEW cols, NEW G \in Started(F, c),
         Own(F[c], c, cols), c \in cols
  PROVE  /\ Own(G[c], c, cols)
         /\ \A rows : Current(F[c], c, rows) => Current(G[c], c, rows)
         /\ \A d \in Col : d # c => G[d] = F[d]
<1>1. F[c] \in Index /\ F \in [Col -> Index]
  BY DEF Indexes
<1>2. CASE G = F
  BY <1>2
<1>3. CASE G = Made(F, c)
  BY <1>1, <1>3, MadeValue DEF Own, Current, Index
<1>4. CASE G = [F EXCEPT ![c].there = TRUE]
  <2>1. /\ G[c].there /\ G[c].on = F[c].on /\ G[c].reads = F[c].reads
        /\ G[c].docs = F[c].docs
        /\ \A d \in Col : d # c => G[d] = F[d]
    BY <1>1, <1>4 DEF Index
  <2> QED BY <2>1 DEF Own, Current
<1> QED BY <1>2, <1>3, <1>4 DEF Started

LEMMA WriteRowFits ==
  ASSUME TInv, Fits, NEW t, NEW op, NEW k \in PK, NEW row \in Row \cup {NoRow},
         WriteRow(t, op, k, row)
  PROVE  Fits'
<1> SUFFICES ASSUME ~torn PROVE Fit(fts', table', registry')
  BY DEF WriteRow, flaws, Fits
<1>1. Fit(fts, table, registry)
  BY DEF Fits
<1>2. table \in Table /\ fts \in [Col -> Index] /\ fts \in Indexes
  BY DEF TInv, TypeOK
<1>3. /\ table'.there = table.there /\ table'.cols = table.cols
      /\ table'.rows = [table.rows EXCEPT ![k] = row]
  BY <1>2 DEF WriteRow, Table
<1>4. registry' = registry /\ fts' = Fired(k, row)
  BY DEF WriteRow
<1>5. ASSUME NEW c \in Col PROVE Own(fts'[c], c, table'.cols)
  <2>1. fts'[c].on = fts[c].on /\ fts'[c].reads = fts[c].reads
    BY <1>2, <1>4 DEF Fired, Index
  <2> QED BY <1>1, <1>3, <2>1 DEF Fit, Own
<1>6. ASSUME NEW c \in LongText(registry) PROVE Current(fts'[c], c, table'.rows)
  <2> DEFINE doc == IF row = NoRow THEN Null ELSE row[c]
  <2>1. c \in Col /\ Own(fts[c], c, table.cols) /\ Current(fts[c], c, table.rows)
    BY <1>1 DEF Fit, LongText
  <2>2. fts'[c] = [fts[c] EXCEPT !.docs[k] = doc]
    BY <1>4, <2>1 DEF Fired, Own, Current
  <2>3. /\ fts'[c].there = fts[c].there /\ fts'[c].on = fts[c].on
        /\ fts'[c].docs = [fts[c].docs EXCEPT ![k] = doc]
    BY <1>2, <2>1, <2>2 DEF Index
  <2>4. [Docs(table.rows, c) EXCEPT ![k] = doc] = Docs(table'.rows, c)
    <3>1. table.rows \in [PK -> Row \cup {NoRow}]
      BY <1>2 DEF Table, Rows
    <3> QED BY <1>3, <3>1 DEF Docs
  <2> QED BY <2>1, <2>3, <2>4 DEF Current
<1> QED BY <1>1, <1>3, <1>4, <1>5, <1>6 DEF Fit

LEMMA RowOpsFit ==
  ASSUME TInv, Fits, NEW t \in Threads,
         \/ \E k \in mix.keys, row \in Row : Insert(t, k, row)
         \/ \E k \in mix.keys, c \in Col, d \in mix.docs : Update(t, k, c, d)
         \/ \E k \in mix.keys : Delete(t, k)
  PROVE  Fits'
<1>1. ASSUME NEW k \in mix.keys, NEW row \in Row, Insert(t, k, row)
      PROVE  Fits'
  BY <1>1, MixType, WriteRowFits DEF Insert
<1>2. ASSUME NEW k \in mix.keys, NEW c \in Col, NEW d \in mix.docs,
             Update(t, k, c, d)
      PROVE  Fits'
  <2>1. k \in PK /\ d \in Doc \cup {Null}
    BY MixType
  <2>2. table.rows[k] \in Row
    BY <1>2, <2>1 DEF Update, TInv, TypeOK, Table, Rows
  <2>3. [table.rows[k] EXCEPT ![c] = d] \in Row
    BY <2>1, <2>2 DEF Row
  <2> QED BY <1>2, <2>1, <2>3, WriteRowFits DEF Update
<1>3. ASSUME NEW k \in mix.keys, Delete(t, k)
      PROVE  Fits'
  BY <1>3, MixType, WriteRowFits DEF Delete
<1> QED BY <1>1, <1>2, <1>3

LEMMA RaiseFits ==
  ASSUME Fits, NEW t, Raise(t)
  PROVE  Fits'
BY DEF Raise, sqlite, flaws, Fits

LEMMA AddFits ==
  ASSUME TInv, Fits, NEW t \in Threads, Add(t) \/ AddHalf(t)
  PROVE  Fits'
<1> DEFINE c == local[t].change.col
           kind == local[t].change.kind
<1>1. CASE Raise(t)
  BY <1>1, RaiseFits
<1>2. CASE ~Raise(t)
  <2>1. /\ c \in Col /\ kind \in Kind /\ table \in Table /\ registry \in Registry
        /\ local[t].meta \in Registry /\ fts \in Indexes
    BY HeldChange DEF TInv, TypeOK
  <2>2. table' = [table EXCEPT !.cols = @ \cup {c}] /\ c \notin table.cols
    BY <1>2 DEF Add, AddHalf
  <2>3. /\ table'.there = table.there /\ table'.cols = table.cols \cup {c}
        /\ table'.rows = table.rows /\ table.rows \in Rows
    BY <2>1, <2>2 DEF Table
  <2> SUFFICES ASSUME ~torn' PROVE Fit(fts', table', registry')
    BY DEF Fits
  <2>4. ~torn
    BY <1>2 DEF Add, AddHalf, flaws
  <2>5. Fit(fts, table, registry)
    BY <2>4 DEF Fits
  <2>6. c \notin Named(registry) /\ Own(fts[c], c, table'.cols)
    BY <2>1, <2>2, <2>3, <2>5 DEF Fit, Own
  <2>7. \A d \in Col : Own(fts[d], d, table'.cols)
    BY <2>3, <2>5 DEF Fit, Own
  <2>8. \A d \in LongText(registry) : d # c /\ Current(fts[d], d, table'.rows)
    BY <2>3, <2>5, <2>6 DEF Fit, LongText, Named
  <2>9. c \in table'.cols
    BY <2>3
  <2>10. CASE Add(t)
    <3>1. /\ registry = local[t].meta
          /\ registry' = [local[t].meta EXCEPT ![c] = kind]
          /\ fts' = IF kind = "LONGTEXT" THEN Built(fts, c, table'.rows) ELSE fts
      BY <1>2, <2>10 DEF Add, Overlapped
    <3>2. /\ Named(registry') \subseteq Named(registry) \cup {c}
          /\ LongText(registry') \subseteq
               LongText(registry) \cup (IF kind = "LONGTEXT" THEN {c} ELSE {})
      BY <2>1, <3>1 DEF Named, LongText, Registry
    <3>3. CASE kind = "LONGTEXT"
      <4>1. /\ Own(fts'[c], c, table'.cols) /\ Current(fts'[c], c, table'.rows)
            /\ \A d \in Col : d # c => fts'[d] = fts[d]
        BY <2>1, <2>3, <2>6, <2>9, <3>1, <3>3, BuiltFits
      <4>2. \A d \in Col : Own(fts'[d], d, table'.cols)
        BY <2>7, <4>1
      <4>3. \A d \in LongText(registry') : Current(fts'[d], d, table'.rows)
        BY <2>8, <3>2, <4>1 DEF LongText
      <4> QED BY <2>3, <2>5, <3>2, <4>2, <4>3 DEF Fit
    <3>4. CASE kind # "LONGTEXT"
      <4>1. \A d \in LongText(registry') : Current(fts'[d], d, table'.rows)
        BY <2>8, <3>1, <3>2, <3>4
      <4> QED BY <2>3, <2>5, <2>7, <3>1, <3>2, <3>4, <4>1 DEF Fit
    <3> QED BY <3>3, <3>4
  <2>11. CASE AddHalf(t)
    <3>1. registry' = registry /\ fts' \in Started(fts, c) \cup {fts}
      BY <2>11 DEF AddHalf
    <3>2. /\ Own(fts'[c], c, table'.cols)
          /\ \A d \in Col : d # c => fts'[d] = fts[d]
      BY <2>1, <2>6, <2>9, <3>1, StartedFits
    <3>3. \A d \in Col : Own(fts'[d], d, table'.cols)
      BY <2>7, <3>2
    <3>4. \A d \in LongText(registry) : Current(fts'[d], d, table'.rows)
      BY <2>8, <3>2 DEF LongText
    <3> QED BY <2>3, <2>5, <3>1, <3>3, <3>4 DEF Fit
  <2> QED BY <2>10, <2>11
<1> QED BY <1>1, <1>2

\* What is rebuilt from the rows is current.
LEMMA RebuiltFits ==
  ASSUME NEW F, NEW C \in SUBSET Col, NEW rows, NEW cols, C \subseteq cols,
         \A c \in Col \ C : Own(F[c], c, cols)
  PROVE  /\ \A c \in Col : Own(Rebuilt(F, C, rows)[c], c, cols)
         /\ \A c \in C : Current(Rebuilt(F, C, rows)[c], c, rows)
<1>1. ASSUME NEW c \in Col, c \notin C
      PROVE  Own(Rebuilt(F, C, rows)[c], c, cols)
  BY <1>1 DEF Rebuilt
<1>2. ASSUME NEW c \in C
      PROVE  /\ Own(Rebuilt(F, C, rows)[c], c, cols)
             /\ Current(Rebuilt(F, C, rows)[c], c, rows)
  <2>1. Rebuilt(F, C, rows)[c] =
          [there |-> TRUE, docs |-> Docs(rows, c), on |-> "table", reads |-> c]
    BY DEF Rebuilt
  <2> QED BY <2>1 DEF Own, Current
<1> QED BY <1>1, <1>2

LEMMA DropFits ==
  ASSUME TInv, Fits, NEW t \in Threads, Drop(t)
  PROVE  Fits'
<1> DEFINE c == local[t].change.col
           F == IF local[t].meta[c] = "LONGTEXT"
                THEN Dropped(WithoutTriggers, c) ELSE WithoutTriggers
<1>1. CASE ~CanMove
  BY <1>1, RaiseFits DEF Drop
<1>2. CASE CanMove
  <2>1. /\ table' = Copied(t)
        /\ registry' = [local[t].meta EXCEPT ![c] = "none"]
        /\ fts' = Rebuilt(F, LongText(registry'), table'.rows)
        /\ torn' = (torn \/ Overlapped(t))
    BY <1>2 DEF Drop
  <2> SUFFICES ASSUME ~torn' PROVE Fit(fts', table', registry')
    BY DEF Fits
  <2>2. table'.there /\ table'.cols = Kept(t)
    BY <2>1 DEF Copied
  <2>3. /\ LongText(registry') \subseteq Named(registry')
        /\ Named(registry') \subseteq Kept(t)
    BY <2>1, HeldChange DEF Named, LongText, Kept, Registry
  <2>4. ASSUME NEW d \in Col PROVE Own(F[d], d, Kept(t))
    <3>1. Fit(fts, table, registry) /\ fts \in [Col -> Index]
      BY <2>1 DEF Fits, TInv, TypeOK
    <3>2. Own(fts[d], d, table.cols) /\ fts[d] \in Index
      BY <3>1 DEF Fit
    <3>3. /\ WithoutTriggers[d].reads = d
          /\ WithoutTriggers[d].on = "none"
      BY <3>2 DEF WithoutTriggers, Own, Index
    <3>4. Dropped(WithoutTriggers, c)[d] \in {NoIndex(d), WithoutTriggers[d]}
      BY DEF Dropped, WithoutTriggers
    <3> QED BY <3>3, <3>4 DEF Own, NoIndex
  <2> HIDE DEF F
  <2>5. LongText(registry') \in SUBSET Col
    BY DEF LongText
  <2> QED BY <2>1, <2>2, <2>3, <2>4, <2>5, RebuiltFits DEF Fit
<1> QED BY <1>1, <1>2

LEMMA RenameFits ==
  ASSUME TInv, Fits, NEW t \in Threads, Rename(t)
  PROVE  Fits'
<1> DEFINE c == local[t].change.col
           d == local[t].change.to
           F == RenamedTriggers(c, d)
<1>1. CASE ~CanRename(t)
  BY <1>1, RaiseFits DEF Rename
<1>2. CASE CanRename(t)
  <2>1. /\ table' = Renamed(t)
        /\ \E kind \in {local[t].meta[c], local[t].meta[d]} \ {"none"} :
             registry' = RenamedRegistry(t, kind)
        /\ fts' = IF local[t].meta[c] = "LONGTEXT"
                  THEN Built(Dropped(F, c), d, table'.rows) ELSE F
        /\ torn' = (torn \/ Overlapped(t) \/ KeepsIndex(t))
    BY <1>2 DEF Rename
  <2> SUFFICES ASSUME ~torn' PROVE Fit(fts', table', registry')
    BY DEF Fits
  <2>2. /\ Fit(fts, table, registry) /\ registry = local[t].meta
        /\ registry[c] # "LONGTEXT" => fts[c].on = "none"
    BY <2>1 DEF Fits, Overlapped, KeepsIndex
  <2>3. /\ c \in Col /\ d \in Col /\ c # d /\ c \in table.cols /\ d \notin table.cols
        /\ registry \in Registry /\ table \in Table /\ fts \in Indexes
        /\ fts \in [Col -> Index]
    BY <1>2, HeldChange DEF CanRename, TInv, TypeOK
  <2>4. table'.there = table.there /\ table'.cols = (table.cols \ {c}) \cup {d}
    BY <2>1, <2>3 DEF Renamed, Table
  <2>5. table' \in Table /\ table'.rows \in Rows
    BY <2>1, RenamedType DEF Table
  <2>6. registry[d] = "none"
    BY <2>2, <2>3 DEF Fit, Named
  <2>7. registry' = [registry EXCEPT ![c] = "none", ![d] = registry[c]]
    BY <2>1, <2>2, <2>6 DEF RenamedRegistry
  <2>8. /\ Named(registry') \subseteq (Named(registry) \ {c}) \cup {d}
        /\ LongText(registry') \subseteq (LongText(registry) \ {c})
             \cup (IF registry[c] = "LONGTEXT" THEN {d} ELSE {})
    BY <2>3, <2>7 DEF Named, LongText, Registry
  <2>9. ASSUME NEW e \in Col, e # c
        PROVE  F[e] = fts[e] /\ Own(F[e], e, table'.cols)
    <3>1. Own(fts[e], e, table.cols)
      BY <2>2 DEF Fit
    <3>2. F[e] = fts[e]
      BY <2>9, <3>1 DEF RenamedTriggers, Own
    <3> QED BY <2>4, <2>9, <3>1, <3>2 DEF Own
  <2>10. ASSUME NEW e \in LongText(registry), e # c
         PROVE  e \in Col /\ Current(F[e], e, table'.rows)
    <3>1. e \in Col /\ e # d /\ Current(fts[e], e, table.rows)
      BY <2>2, <2>6 DEF Fit, LongText
    <3>2. Docs(table.rows, e) = Docs(table'.rows, e)
      <4>1. table'.rows = [k \in PK |-> IF table.rows[k] = NoRow THEN NoRow
                             ELSE [table.rows[k] EXCEPT ![d] = table.rows[k][c],
                                                        ![c] = Null]]
        BY <2>1, <2>3 DEF Renamed, Table
      <4>2. ASSUME NEW k \in PK, table.rows[k] # NoRow
            PROVE  table'.rows[k] # NoRow /\ table'.rows[k][e] = table.rows[k][e]
        <5>1. table.rows[k] \in Row
          BY <2>3, <4>2 DEF Table, Rows
        <5>2. table'.rows[k] = [table.rows[k] EXCEPT ![d] = table.rows[k][c],
                                                     ![c] = Null]
          BY <4>1, <4>2
        <5>3. table'.rows[k] \in Row /\ table'.rows[k][e] = table.rows[k][e]
          BY <2>3, <2>10, <3>1, <5>1, <5>2 DEF Row
        <5> QED BY <5>3, NullAssumption
      <4>3. ASSUME NEW k \in PK, table.rows[k] = NoRow
            PROVE  table'.rows[k] = NoRow
        BY <4>1, <4>3
      <4> QED BY <4>2, <4>3 DEF Docs
    <3> QED BY <2>9, <2>10, <3>1, <3>2 DEF Current
  <2>11. CASE registry[c] = "LONGTEXT"
    <3>1. F \in Indexes /\ Dropped(F, c) \in Indexes
      BY <2>3, TriggersType, StartedType
    <3>2. /\ Dropped(F, c)[c] = NoIndex(c)
          /\ \A e \in Col : e # c => Dropped(F, c)[e] = F[e]
      BY <2>3, <3>1 DEF Dropped, Indexes
    <3>3. Own(Dropped(F, c)[d], d, table'.cols) /\ d \in table'.cols
      BY <2>3, <2>4, <2>9, <3>2
    <3>4. fts' = Built(Dropped(F, c), d, table'.rows)
      BY <2>1, <2>2, <2>11
    <3> HIDE DEF F
    <3>5. /\ Own(fts'[d], d, table'.cols) /\ Current(fts'[d], d, table'.rows)
          /\ \A e \in Col : e # d => fts'[e] = Dropped(F, c)[e]
      BY <2>3, <2>5, <3>1, <3>3, <3>4, BuiltFits
    <3>6. \A e \in Col : Own(fts'[e], e, table'.cols)
      <4>1. Own(NoIndex(c), c, table'.cols)
        BY DEF Own, NoIndex
      <4> QED BY <2>9, <3>2, <3>5, <4>1
    <3>7. \A e \in LongText(registry') : Current(fts'[e], e, table'.rows)
      BY <2>3, <2>8, <2>10, <3>2, <3>5
    <3> QED BY <2>2, <2>4, <2>8, <3>6, <3>7 DEF Fit
  <2>12. CASE registry[c] # "LONGTEXT"
    <3>1. fts' = F
      BY <2>1, <2>2, <2>12
    <3>2. F[c] = fts[c] /\ Own(fts[c], c, table'.cols)
      BY <2>2, <2>3, <2>12 DEF RenamedTriggers, Fit, Own
    <3> HIDE DEF F
    <3>3. \A e \in Col : Own(fts'[e], e, table'.cols)
      BY <2>9, <3>1, <3>2
    <3>4. \A e \in LongText(registry') : Current(fts'[e], e, table'.rows)
      BY <2>8, <2>10, <2>12, <3>1
    <3> QED BY <2>2, <2>4, <2>8, <3>3, <3>4 DEF Fit
  <2> QED BY <2>11, <2>12
<1> QED BY <1>1, <1>2

LEMMA CreateFits ==
  ASSUME TInv, Fits, NEW t \in Threads, CreateTable(t)
  PROVE  Fits'
<1> SUFFICES ASSUME ~torn' PROVE Fit(fts', table', registry')
  BY DEF Fits
<1>1. /\ table' = Created /\ table \in Table /\ fts \in Indexes
      /\ mix.declared \in Registry
  BY MixType DEF CreateTable, TInv, TypeOK
<1>2. Fit(fts, table, registry)
  BY DEF CreateTable, Fits
<1>3. /\ table'.there /\ table.cols \subseteq table'.cols
      /\ table'.rows = table.rows /\ table.rows \in Rows
  BY <1>1, <1>2 DEF Created, Table, Fit
<1>4. \A c \in Col : Own(fts[c], c, table'.cols)
  BY <1>2, <1>3 DEF Fit, Own
<1>5. CASE /\ LongText(mix.declared) \subseteq table'.cols
           /\ registry' = mix.declared
           /\ fts' = AllBuilt(fts, table'.rows)
           /\ torn' = (torn \/ ~(Named(registry') \subseteq table'.cols))
  <2>1. ASSUME NEW c \in LongText(mix.declared)
        PROVE  Own(fts'[c], c, table'.cols) /\ Current(fts'[c], c, table'.rows)
    <3>1. c \in Col /\ c \in table'.cols /\ fts'[c] = Built(fts, c, table'.rows)[c]
      BY <1>5 DEF AllBuilt, LongText
    <3> QED BY <1>1, <1>3, <1>4, <3>1, BuiltFits
  <2>2. ASSUME NEW c \in Col, c \notin LongText(mix.declared)
        PROVE  fts'[c] = fts[c]
    BY <1>5, <2>2 DEF AllBuilt
  <2> QED BY <1>3, <1>4, <1>5, <2>1, <2>2 DEF Fit
<1>6. CASE /\ \E c \in LongText(mix.declared) : fts' \in Started(fts, c)
           /\ torn' = (torn \/ Jammed(fts', table'.cols))
           /\ UNCHANGED <<registry, drift>>
  <2>1. PICK c \in LongText(mix.declared) : fts' \in Started(fts, c)
    BY <1>6
  <2>2. c \in Col /\ ~Jammed(fts', table'.cols)
    BY <1>6 DEF LongText
  <2>3. Own(fts[c], c, table'.cols \cup {c})
    BY <1>4, <2>2 DEF Own
  <2>4. /\ Own(fts'[c], c, table'.cols \cup {c})
        /\ Current(fts[c], c, table.rows) => Current(fts'[c], c, table.rows)
        /\ \A d \in Col : d # c => fts'[d] = fts[d]
    BY <1>1, <2>1, <2>2, <2>3, StartedFits
  <2>5. Own(fts'[c], c, table'.cols)
    BY <2>2, <2>4 DEF Own, Jammed
  <2>6. \A d \in LongText(registry) : Current(fts'[d], d, table'.rows)
    BY <1>2, <1>3, <2>4 DEF Fit, LongText
  <2>7. \A d \in Col : Own(fts'[d], d, table'.cols)
    BY <1>4, <2>4, <2>5
  <2> QED BY <1>2, <1>3, <1>6, <2>6, <2>7 DEF Fit
<1> QED BY <1>5, <1>6 DEF CreateTable

LEMMA ReindexFits ==
  ASSUME TInv, Fits, NEW t \in Threads,
         \/ StartReindex(t) \/ ReindexHalf(t)
         \/ \E c \in Col : ReindexRead(t, c)
         \/ ReindexWrite(t) \/ ReindexDone(t)
  PROVE  Fits'
<1>1. CASE StartReindex(t)
  <2>1. /\ fts' = Rebuilt(fts, LongText(registry), table.rows)
        /\ torn' = ~Sound(fts', table.cols)
        /\ table' = table /\ registry' = registry /\ table.there
    BY <1>1 DEF StartReindex, CanReindex
  <2> SUFFICES ASSUME Sound(fts', table.cols) PROVE Fit(fts', table, registry)
    BY <2>1 DEF Fits
  <2>2. LongText(registry) \in SUBSET Col
    BY DEF LongText
  <2>3. \A c \in Col : Own(fts'[c], c, table.cols)
    <3>1. ASSUME NEW c \in Col, fts'[c].on = "none" PROVE fts'[c].reads = c
      <4>1. fts' \in Indexes
        BY <2>1, RebuiltType DEF TInv, TypeOK, Table
      <4> QED BY <3>1, <4>1 DEF Indexes
    <3>2. fts' \in [Col -> Index]
      BY <2>1, RebuiltType DEF TInv, TypeOK, Table, Indexes
    <3> QED BY <3>1, <3>2 DEF Sound, Own, Index
  <2>4. \A c \in LongText(registry) : Current(fts'[c], c, table.rows)
    <3> SUFFICES ASSUME NEW c \in LongText(registry)
                 PROVE  Current(fts'[c], c, table.rows)
      OBVIOUS
    <3>1. fts'[c] = [there |-> TRUE, docs |-> Docs(table.rows, c),
                     on |-> "table", reads |-> c]
      BY <2>1, <2>2 DEF Rebuilt
    <3> QED BY <3>1 DEF Current
  <2> QED BY <2>1, <2>3, <2>4 DEF Fit, Sound
<1>2. CASE ReindexHalf(t)
  BY <1>2 DEF ReindexHalf, Fits
<1>3. CASE (\E c \in Col : ReindexRead(t, c)) \/ ReindexWrite(t) \/ ReindexDone(t)
  BY <1>3 DEF ReindexRead, ReindexWrite, ReindexDone, sqlite, Fits
<1> QED BY <1>1, <1>2, <1>3

LEMMA StepFits ==
  ASSUME TInv, Fits, NEW t \in Threads, Step(t)
  PROVE  Fits'
<1>1. CASE Process(t) \/ \E change \in mix.changes : StartChange(t, change)
  BY <1>1 DEF Process, StartChange, sqlite, flaws, Fits
<1>2. CASE DropHalf(t) \/ RenameHalf(t)
  BY <1>2 DEF DropHalf, RenameHalf, Fits
<1> QED BY <1>1, <1>2, RowOpsFit, AddFits, DropFits, RenameFits, CreateFits,
           ReindexFits DEF Step

LEMMA SpecFits == Spec => []Fits
<1>1. Init => Fits
  <2> SUFFICES ASSUME Init PROVE Fit(fts, table, registry)
    BY DEF Fits
  <2>1. /\ table = [there |-> TRUE, cols |-> Named(registry), rows |-> NoRows]
        /\ LongText(registry) \subseteq Named(registry)
    BY DEF Init, LongText, Named
  <2>2. ASSUME NEW c \in Col
        PROVE  /\ fts[c].there = (c \in LongText(registry))
               /\ fts[c].on = IF c \in LongText(registry) THEN "table" ELSE "none"
               /\ fts[c].docs = NoDocs /\ fts[c].reads = c
    <3>1. fts[c] = [NoIndex(c) EXCEPT
                      !.there = c \in LongText(registry),
                      !.on = IF c \in LongText(registry) THEN "table" ELSE "none"]
      BY DEF Init
    <3> QED BY <3>1 DEF NoIndex
  <2>3. \A c \in Col : Docs(NoRows, c) = NoDocs
    BY DEF Docs, NoRows, NoDocs
  <2>4. ASSUME NEW c \in Col PROVE Own(fts[c], c, table.cols)
    BY <2>1, <2>2 DEF Own
  <2>5. ASSUME NEW c \in LongText(registry) PROVE Current(fts[c], c, table.rows)
    BY <2>1, <2>2, <2>3 DEF Current, LongText
  <2> QED BY <2>1, <2>4, <2>5 DEF Fit
<1>2. TInv /\ Fits /\ [Next]_vars => Fits'
  <2> SUFFICES ASSUME TInv, Fits, [Next]_vars PROVE Fits'
    OBVIOUS
  <2>1. CASE Next
    <3>1. ASSUME NEW t \in mix.threads, Step(t) PROVE Fits'
      BY <3>1, MixType, StepFits
    <3>2. CASE Restart
      BY <3>2 DEF Restart, sqlite, flaws, Fits
    <3> QED BY <2>1, <3>1, <3>2 DEF Next
  <2>2. CASE UNCHANGED vars
    BY <2>2 DEF vars, sqlite, flaws, Fits
  <2> QED BY <2>1, <2>2
<1> QED BY InitTInv, NextTInv, <1>1, <1>2, PTL DEF Spec

\* Whatever changes are made, by any number of threads, broken off or not: as
\* long as none has run into another or broken off, the table is there and has
\* every column that _schema registers and that a trigger reads.
THEOREM TableHasItsColumns == Spec => []SchemaIsTable
<1>1. Fits => SchemaIsTable
  BY DEF Fits, Fit, Own, SchemaIsTable, Jammed
<1> QED BY SpecFits, <1>1, PTL

\* ... and a keyword search in a LONGTEXT column finds every row that holds the
\* document and no other.
THEOREM KeywordSearchAlwaysFinds == Spec => []KeywordSearchFinds
<1>1. Fits => KeywordSearchFinds
  <2> SUFFICES ASSUME Fit(fts, table, registry),
                      NEW c \in LongText(registry), NEW d \in Doc
               PROVE  KeywordSearch(c, d) = {k \in Present(table.rows) :
                                               table.rows[k][c] = d}
    BY DEF Fits, KeywordSearchFinds
  <2>1. /\ table.there /\ registry[c] = "LONGTEXT" /\ fts[c].there
        /\ fts[c].docs = Docs(table.rows, c)
    BY DEF Fit, Current, LongText
  <2>2. \A k \in Present(table.rows) : fts[c].docs[k] = table.rows[k][c]
    BY <2>1 DEF Docs, Present
  <2> QED BY <2>1, <2>2 DEF KeywordSearch
<1> QED BY SpecFits, <1>1, PTL

-----------------------------------------------------------------------------
(***************************************************************************)
(* No change loses a row.                                                  *)
(***************************************************************************)
\* A step moves the thread that takes it, and no other.
LEMMA StepGoes ==
  ASSUME NEW t \in Threads, Step(t)
  PROVE  \E step, l : Goto(t, step, l)
<1>1. CASE \/ \E k \in mix.keys, row \in Row : Insert(t, k, row)
           \/ \E k \in mix.keys, c \in Col, d \in mix.docs : Update(t, k, c, d)
           \/ \E k \in mix.keys : Delete(t, k)
           \/ Process(t)
  BY <1>1 DEF Insert, Update, Delete, Process, WriteRow, Return
<1>2. CASE Add(t) \/ AddHalf(t)
  BY <1>2 DEF Add, AddHalf, Raise, Return
<1>3. CASE Drop(t) \/ DropHalf(t)
  BY <1>3 DEF Drop, DropHalf, Raise, Return
<1>4. CASE Rename(t) \/ RenameHalf(t)
  BY <1>4 DEF Rename, RenameHalf, Raise, Return
<1>5. CASE \/ StartReindex(t) \/ ReindexHalf(t)
           \/ (\E c \in Col : ReindexRead(t, c)) \/ ReindexDone(t)
  BY <1>5 DEF StartReindex, ReindexHalf, ReindexRead, ReindexDone, Return
<1>6. CASE ReindexWrite(t)
  BY <1>6 DEF ReindexWrite, Return
<1>7. CASE (\E change \in mix.changes : StartChange(t, change)) \/ CreateTable(t)
  BY <1>7 DEF StartChange, CreateTable, Return
<1> QED BY <1>1, <1>2, <1>3, <1>4, <1>5, <1>6, <1>7 DEF Step

\* A change ends by a step of its own, or with the process.
LEMMA ChangeEnds ==
  ASSUME TInv, Next, NEW t \in Threads, Changing(t)
  PROVE  \/ Restart
         \/ Add(t) \/ AddHalf(t)
         \/ Drop(t) \/ DropHalf(t)
         \/ Rename(t) \/ RenameHalf(t)
<1>1. ASSUME NEW u \in mix.threads, Step(u), u # t PROVE FALSE
  <2>1. \E step, l : Goto(u, step, l)
    BY <1>1, MixType, StepGoes
  <2>2. pc'[t] = pc[t]
    BY <1>1, <2>1 DEF Goto, TInv, TypeOK
  <2> QED BY <2>2 DEF Changing
<1>2. ASSUME Step(t)
      PROVE  \/ Add(t) \/ AddHalf(t) \/ Drop(t) \/ DropHalf(t)
             \/ Rename(t) \/ RenameHalf(t)
  BY <1>2 DEF Step, Changing, Insert, Update, Delete, Process, StartChange,
              CreateTable, StartReindex, ReindexHalf, ReindexRead,
              ReindexWrite, ReindexDone, Begin
<1> QED BY <1>1, <1>2 DEF Next

\* What RowsSurvive says of one thread.
Survives(t) ==
  /\ old.there => old' = old
  /\ ~mix.implicit =>
       \/ table' = table \/ old' = table
       \/ \A k \in Present(table.rows) :
            /\ table'.rows[k] # NoRow
            /\ Stays(t, table.rows[k], table'.rows[k])

LEMMA AddSurvives ==
  ASSUME TInv, NEW t \in Threads, Add(t) \/ AddHalf(t)
  PROVE  Survives(t)
<1>1. local[t].change.op = "add"
  BY DEF Add, AddHalf, TInv, Knows, Changes
<1>2. CASE Raise(t)
  BY <1>2 DEF Raise, sqlite, Survives
<1>3. CASE /\ table' = [table EXCEPT !.cols = @ \cup {local[t].change.col}]
           /\ old' = old
  <2>1. table'.rows = table.rows
    BY <1>3 DEF TInv, TypeOK, Table
  <2> QED BY <1>1, <1>3, <2>1 DEF Survives, Stays, Present
<1> QED BY <1>2, <1>3 DEF Add, AddHalf

LEMMA DropSurvives ==
  ASSUME TInv, NEW t \in Threads, Drop(t) \/ DropHalf(t), ~Overlapped(t)
  PROVE  Survives(t)
<1> DEFINE c == local[t].change.col
<1>1. local[t].change.op = "drop"
  BY DEF Drop, DropHalf, TInv, Knows, Changes
<1>2. CASE DropHalf(t)
  BY <1>2 DEF DropHalf, CanMove, MovedAway, Survives
<1>3. CASE Drop(t) /\ ~CanMove
  BY <1>3 DEF Drop, Raise, sqlite, Survives
<1>4. CASE Drop(t) /\ CanMove
  <2>1. old' = old /\ table' = Copied(t)
    BY <1>4 DEF Drop
  <2>2. ASSUME ~mix.implicit, NEW k \in Present(table.rows)
        PROVE  /\ table'.rows[k] # NoRow
               /\ Stays(t, table.rows[k], table'.rows[k])
    <3>1. k \in PK /\ table.rows[k] # NoRow
      BY <2>2 DEF Present
    <3>2. Renumbered(table.rows) = table.rows
      BY <2>2 DEF Renumbered
    <3>3. table'.rows[k] = [d \in Col |-> IF d \in Kept(t) THEN table.rows[k][d]
                                          ELSE Null]
      BY <2>1, <3>1, <3>2 DEF Copied
    <3>4. table.rows[k] \in Row
      BY <3>1 DEF TInv, TypeOK, Table, Rows
    <3>5. table'.rows[k] \in Row
      BY <3>3, <3>4 DEF Row
    <3>6. table'.rows[k] # NoRow
      BY <3>5, NullAssumption
    <3>7. ASSUME NEW d \in (Named(registry) \cap table.cols) \ {c}
          PROVE  table'.rows[k][d] = table.rows[k][d]
      <4>1. d \in Col /\ d \in Kept(t)
        BY <3>7 DEF Overlapped, Kept, Named
      <4> QED BY <3>3, <4>1
    <3> QED BY <1>1, <3>6, <3>7 DEF Stays
  <2> QED BY <1>4, <2>1, <2>2 DEF Survives
<1> QED BY <1>2, <1>3, <1>4

LEMMA RenameSurvives ==
  ASSUME TInv, NEW t \in Threads, Rename(t) \/ RenameHalf(t)
  PROVE  Survives(t)
<1> DEFINE c == local[t].change.col
           d == local[t].change.to
<1>1. CASE Rename(t) /\ ~CanRename(t)
  BY <1>1 DEF Rename, Raise, sqlite, Survives
<1>2. CASE CanRename(t)
  <2>1. old' = old /\ table' = Renamed(t)
    BY <1>2 DEF Rename, RenameHalf
  <2>2. ASSUME NEW k \in Present(table.rows)
        PROVE  /\ table'.rows[k] # NoRow
               /\ Stays(t, table.rows[k], table'.rows[k])
    <3>1. k \in PK /\ table.rows[k] # NoRow
      BY <2>2 DEF Present
    <3>2. table.rows[k] \in Row
      BY <3>1 DEF TInv, TypeOK, Table, Rows
    <3>3. table'.rows = [i \in PK |-> IF table.rows[i] = NoRow THEN NoRow
                            ELSE [table.rows[i] EXCEPT ![d] = table.rows[i][c],
                                                       ![c] = Null]]
      BY <2>1 DEF Renamed, TInv, TypeOK, Table
    <3>4. table'.rows[k] = [table.rows[k] EXCEPT ![d] = table.rows[k][c],
                                                 ![c] = Null]
      BY <3>1, <3>3
    <3>5. c \in Col /\ d \in Col /\ c # d
      BY <1>2, HeldChange DEF CanRename
    <3>6. table'.rows[k] \in Row
      BY <3>2, <3>4, <3>5 DEF Row
    <3>7. table'.rows[k] # NoRow
      BY <3>6, NullAssumption
    <3>8. table'.rows[k][d] = table.rows[k][c]
      BY <3>2, <3>4, <3>5 DEF Row
    <3>9. ASSUME NEW e \in (Named(registry) \cap table.cols) \ {c}
          PROVE  table'.rows[k][e] = table.rows[k][e]
      <4>1. e \in Col /\ e # c /\ e # d
        BY <1>2, <3>9 DEF CanRename, Named
      <4> QED BY <3>2, <3>4, <4>1 DEF Row
    <3> QED BY <3>7, <3>8, <3>9 DEF Stays
  <2> QED BY <2>1, <2>2 DEF Survives
<1> QED BY <1>1, <1>2 DEF RenameHalf

\* No schema change loses a row or what it holds in another column, for any
\* columns, keys and threads: the table keeps it, or it is what _t_old is now.
THEOREM RowsAlwaysSurvive == Spec => RowsSurvive
<1> DEFINE A == \A t \in Threads : Changing(t) /\ ~Overlapped(t) => Survives(t)
<1>1. TInv /\ [Next]_vars => [A]_vars
  <2> SUFFICES ASSUME TInv, Next PROVE A
    OBVIOUS
  <2> SUFFICES ASSUME NEW t \in Threads, Changing(t), ~Overlapped(t)
               PROVE  Survives(t)
    OBVIOUS
  <2>1. CASE Restart
    BY <2>1 DEF Restart, sqlite, Survives
  <2> QED BY <2>1, ChangeEnds, AddSurvives, DropSurvives, RenameSurvives
<1>2. A <=> \A t \in Threads : Changing(t) /\ ~Overlapped(t) =>
              /\ old.there => old' = old
              /\ ~mix.implicit =>
                   \/ table' = table \/ old' = table
                   \/ \A k \in Present(table.rows) :
                        /\ table'.rows[k] # NoRow
                        /\ Stays(t, table.rows[k], table'.rows[k])
  BY DEF Survives
<1> QED BY InitTInv, NextTInv, <1>1, <1>2, PTL DEF Spec, RowsSurvive
=============================================================================

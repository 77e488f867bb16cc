--------------------------- MODULE Journal_proofs ---------------------------
(***************************************************************************)
(* Proofs about Journal, for any threads, documents, limits and bounds:    *)
(*   - types, and that hybrid search is not left off;                      *)
(*   - the pending entries are exactly what Chroma lacks, for tables with  *)
(*     an INTEGER primary key and as long as no other thread is there      *)
(*     while one reconciles, and what that makes of a drained journal;     *)
(*   - what a reconcile that nobody disturbs leaves;                       *)
(*   - the pending entries are exactly what the mirror lacks.              *)
(***************************************************************************)
EXTENDS Journal, SequenceTheorems, WellFoundedInduction, TLAPS

(***************************************************************************)
(* Types.  An entry names a rowid, so a row must have one.                 *)
(***************************************************************************)
RowsHaveIds == \A p \in Present(rows) : rowid[p] \in RowIds

TInv == TypeOK /\ RowsHaveIds

\* The entries of a write are entries.
LEMMA EntryTypes ==
  ASSUME NEW r \in RowIds, NEW p \in PK, NEW d \in Doc
  PROVE  /\ AddEntries(r, d) \in Seq(Entry)
         /\ UpdateEntries(r, d) \in Seq(Entry)
         /\ DeleteEntries(p) \in Seq(Entry)
         /\ MoveEntries(p, r, d) \in Seq(Entry)
<1>1. r \in Keys /\ p \in Keys /\ d \in Content /\ NoDoc \in Content
  BY DEF Keys, Content
<1>2. /\ VectorEntry("add", r, d) \in Entry
      /\ VectorEntry("update", r, d) \in Entry
      /\ VectorEntry("delete", p, NoDoc) \in Entry
      /\ RowEntry("row_add", r) \in Entry
      /\ RowEntry("row_update", r) \in Entry
      /\ RowEntry("row_delete", p) \in Entry
  BY <1>1 DEF VectorEntry, RowEntry, Entry, VectorOps, RowOps
<1> HIDE DEF Entry
<1> QED  BY <1>2 DEF AddEntries, UpdateEntries, DeleteEntries, MoveEntries

\* What a write leaves: rows with rowids, and entries behind the journal.
CommitOK(t) ==
  /\ rows' \in [PK -> Content]
  /\ rowid' \in [PK -> RowIds \cup {0}]
  /\ RowsHaveIds'
  /\ \E es \in Seq(Entry), after \in {"idle", "process", "drain"} :
       Commit(t, es, after)

\* Every write leaves that.
LEMMA WritesCommit ==
  ASSUME TInv, NEW t \in Threads, Writes(t)
  PROVE  CommitOK(t)
<1>1. /\ rows \in [PK -> Content] /\ rowid \in [PK -> RowIds \cup {0}]
      /\ \A p \in PK : rows[p] # NoDoc => rowid[p] \in RowIds
      /\ \A d \in Doc : d \in Content /\ d # NoDoc
      /\ NoDoc \in Content
  BY NoDocAssumption DEF TInv, TypeOK, RowsHaveIds, Present, Content
<1>2. RowsHaveIds' <=> \A p \in PK : rows'[p] # NoDoc => rowid'[p] \in RowIds
  BY DEF RowsHaveIds, Present
<1>3. ASSUME NEW p \in PK, NEW d \in Doc, NEW after \in {"idle", "process"},
             Insert(t, p, d, after)
      PROVE  CommitOK(t)
  <2>1. PICK r \in RowIds : /\ rowid' = [rowid EXCEPT ![p] = r]
                            /\ Commit(t, AddEntries(r, d), after)
    BY <1>3 DEF Insert
  <2>2. rows' = [rows EXCEPT ![p] = d]
    BY <1>3 DEF Insert
  <2>3. AddEntries(r, d) \in Seq(Entry)
    BY EntryTypes
  <2> QED  BY <1>1, <1>2, <2>1, <2>2, <2>3 DEF CommitOK
<1>4. ASSUME NEW p \in PK, NEW q \in PK, NEW d \in Doc,
             NEW after \in {"idle", "drain"}, InsertBatch(t, p, q, d, after)
      PROVE  CommitOK(t)
  <2>1. PICK r, s \in RowIds :
          /\ rowid' = [rowid EXCEPT ![p] = r, ![q] = s]
          /\ Commit(t, AddEntries(r, d) \o AddEntries(s, d), after)
    BY <1>4 DEF InsertBatch
  <2>2. rows' = [rows EXCEPT ![p] = d, ![q] = d]
    BY <1>4 DEF InsertBatch
  <2>3. AddEntries(r, d) \o AddEntries(s, d) \in Seq(Entry)
    BY EntryTypes, ConcatProperties
  <2> QED  BY <1>1, <1>2, <2>1, <2>2, <2>3 DEF CommitOK
<1>5. ASSUME NEW p \in PK, NEW d \in Doc, NEW after \in {"idle", "process"},
             Update(t, p, d, after)
      PROVE  CommitOK(t)
  <2>1. /\ rows[p] # NoDoc /\ rows' = [rows EXCEPT ![p] = d]
        /\ rowid' = rowid /\ Commit(t, UpdateEntries(rowid[p], d), after)
    BY <1>5 DEF Update
  <2>2. UpdateEntries(rowid[p], d) \in Seq(Entry)
    BY <1>1, <2>1, EntryTypes
  <2> QED  BY <1>1, <1>2, <2>1, <2>2 DEF CommitOK
<1>6. ASSUME NEW p \in PK, NEW q \in PK, NEW d \in Doc,
             NEW after \in {"idle", "process"}, ChangeKey(t, p, q, d, after)
      PROVE  CommitOK(t)
  <2> DEFINE r == IF IntegerKey THEN q ELSE rowid[p]
  <2>1. /\ p # q /\ rows[p] # NoDoc
        /\ rows' = [rows EXCEPT ![p] = NoDoc, ![q] = d]
        /\ rowid' = [rowid EXCEPT ![p] = 0, ![q] = r]
        /\ Commit(t, MoveEntries(p, r, d), after)
    BY <1>6 DEF ChangeKey
  <2>2. r \in RowIds
    BY <1>1, <2>1, KeyAssumption
  <2> HIDE DEF r
  <2>3. MoveEntries(p, r, d) \in Seq(Entry)
    BY <2>2, EntryTypes
  <2> QED  BY <1>1, <1>2, <2>1, <2>2, <2>3 DEF CommitOK
<1>7. ASSUME NEW p \in PK, NEW after \in {"idle", "process"},
             Delete(t, p, after)
      PROVE  CommitOK(t)
  <2>1. /\ rows[p] # NoDoc
        /\ rows' = [rows EXCEPT ![p] = NoDoc]
        /\ rowid' = [rowid EXCEPT ![p] = 0]
        /\ Commit(t, DeleteEntries(p), after)
    BY <1>7 DEF Delete
  <2>2. rowid[p] \in RowIds /\ rows[p] \in Doc
    BY <1>1, <2>1 DEF Content
  <2>3. DeleteEntries(p) \in Seq(Entry)
    BY <2>2, EntryTypes
  <2> QED  BY <1>1, <1>2, <2>1, <2>3 DEF CommitOK
<1> QED  BY <1>3, <1>4, <1>5, <1>6, <1>7 DEF Writes

-----------------------------------------------------------------------------
(***************************************************************************)
(* The entry of a batch that decides about a key exists: the newest.       *)
(***************************************************************************)

\* A set of positions has a largest one.
LEMMA Largest ==
  ASSUME NEW n \in Nat, NEW S, S \subseteq 1 .. n, S # {}
  PROVE  \E m \in S : \A j \in S : j <= m
<1> DEFINE T == {x \in Nat : n - x \in S}
<1>1. T \subseteq Nat /\ T # {}
  <2>1. PICK i \in S : i \in 1 .. n
    OBVIOUS
  <2>2. n - i \in Nat /\ n - (n - i) = i
    BY <2>1
  <2> QED  BY <2>1, <2>2
<1>2. PICK x \in T : \A y \in T : <<y, x>> \notin OpToRel(<, Nat)
  <2> HIDE DEF T
  <2> QED  BY <1>1, NatLessThanWellFounded, WFMin
<1>3. ASSUME NEW j \in S
      PROVE  j <= n - x
  <2>1. j \in 1 .. n /\ n - j \in Nat /\ n - (n - j) = j
    OBVIOUS
  <2>2. n - j \in T
    BY <2>1
  <2>3. ~ (n - j < x)
    BY <1>2, <2>2 DEF OpToRel
  <2> QED  BY <2>1, <2>3
<1> QED  BY <1>2, <1>3

\* A touched key has a deciding entry.
LEMMA SomeEntryDecides ==
  ASSUME NEW s \in Seq(Entry), NEW k \in Touched(s)
  PROVE  \E i \in DOMAIN s : Decides(s, k, i)
<1> DEFINE T == {i \in DOMAIN s : Touches(s[i], k)}
<1>1. DOMAIN s = 1 .. Len(s) /\ Len(s) \in Nat
  BY LenProperties
<1>2. T \subseteq 1 .. Len(s) /\ T # {}
  BY <1>1 DEF Touched
<1>3. PICK i \in T : \A j \in T : j <= i
  <2> HIDE DEF T
  <2> QED  BY <1>1, <1>2, Largest
<1>4. \A j \in i + 1 .. Len(s) : ~Touches(s[j], k)
  BY <1>1, <1>2, <1>3
<1> QED  BY <1>3, <1>4 DEF Decides

\* What Chroma holds after a batch is a document, or no vector, per key.
LEMMA ChromaAfterType ==
  ASSUME chroma \in [Keys -> Content], NEW s \in Seq(Entry)
  PROVE  /\ ChromaAfter(s) \in [Keys -> Content]
         /\ ChromaDeletesOnly(s) \in [Keys -> Content]
<1>1. ASSUME NEW k \in Touched(s)
      PROVE  s[CHOOSE i \in DOMAIN s : Decides(s, k, i)].doc \in Content
  <2> DEFINE i == CHOOSE j \in DOMAIN s : Decides(s, k, j)
  <2>1. i \in DOMAIN s
    BY SomeEntryDecides
  <2>2. s[i] \in Entry
    BY <2>1, LenProperties, ElementOfSeq
  <2> HIDE DEF i
  <2>3. s[i].doc \in Content
    BY <2>2 DEF Entry
  <2> QED  BY <2>3 DEF i
<1>2. ChromaAfter(s) \in [Keys -> Content]
  BY <1>1 DEF ChromaAfter
<1>3. NoDoc \in Content
  BY DEF Content
<1> QED  BY <1>2, <1>3 DEF ChromaDeletesOnly

\* A batch is a first part of the journal, and the rest is what is left.
LEMMA JournalIsBatchAndRest ==
  ASSUME journal \in Seq(Entry)
  PROVE  /\ Batch \in Seq(Entry) /\ Rest \in Seq(Entry)
         /\ Batch \o Rest = journal
         /\ Len(Rest) <= Len(journal)
<1> DEFINE n == IF BatchLimit < Len(journal) THEN BatchLimit ELSE Len(journal)
<1>1. /\ Len(journal) \in Nat /\ n \in 0 .. Len(journal)
      /\ \A i \in 1 .. Len(journal) : journal[i] \in Entry
  BY LenProperties, ElementOfSeq, BoundAssumption
<1>2. Batch = SubSeq(journal, 1, n)
  BY DEF Batch
<1> HIDE DEF n
<1>3. Batch \in Seq(Entry) /\ Len(Batch) = n
  <2>1. \A i \in 1 .. n : journal[i] \in Entry
    BY <1>1
  <2> QED  BY <1>1, <1>2, <2>1, SubSeqProperties, Z3
<1>4. Rest = SubSeq(journal, n + 1, Len(journal))
  BY <1>3 DEF Rest
<1>5. Rest \in Seq(Entry) /\ Len(Rest) <= Len(journal)
  <2>1. \A i \in n + 1 .. Len(journal) : journal[i] \in Entry
    BY <1>1
  <2> QED  BY <1>1, <1>4, <2>1, SubSeqProperties, Z3
<1>6. SubSeq(journal, 1, Len(journal)) = journal
  BY SubSeqFull
<1>7. SubSeq(journal, 1, n) \o SubSeq(journal, n + 1, Len(journal))
        = SubSeq(journal, 1, Len(journal))
  <2>1. /\ 1 \in 1 .. Len(journal) + 1 /\ n \in 1 - 1 .. Len(journal)
        /\ Len(journal) \in n .. Len(journal)
    BY <1>1
  <2> QED  BY <2>1, ConcatAdjacentSubSeq
<1> QED  BY <1>2, <1>3, <1>4, <1>5, <1>6, <1>7

-----------------------------------------------------------------------------
(***************************************************************************)
(* Every step keeps the types.                                             *)
(***************************************************************************)
ThreadTypes == pc \in [Threads -> Steps] /\ local \in [Threads -> Locals]

LEMMA BlankType == Blank \in Locals
BY DEF Blank, Locals, NoRows, Content

LEMMA GotoTypes ==
  ASSUME ThreadTypes, NEW t \in Threads, NEW step \in Steps, NEW l \in Locals,
         Goto(t, step, l)
  PROVE  ThreadTypes'
BY DEF ThreadTypes, Goto

LEMMA ReturnTypes ==
  ASSUME ThreadTypes, NEW t \in Threads, Return(t)
  PROVE  ThreadTypes'
<1>1. (IF local[t].drain THEN "drain" ELSE "idle") \in Steps
  BY DEF Steps
<1> QED  BY <1>1, BlankType, GotoTypes DEF Return

\* What DuckDB holds after a batch, or half of one, is a document per key.
LEMMA MirrorAfterType ==
  ASSUME rows \in [PK -> Content], mirror \in [PK -> Content], NEW s
  PROVE  /\ MirrorAfter(s) \in [PK -> Content]
         /\ MirrorHalfway(s) \in [PK -> Content]
         /\ RowsOf(s) \subseteq PK
<1>1. NoDoc \in Content
  BY DEF Content
<1> QED  BY <1>1 DEF MirrorAfter, MirrorHalfway, RowsOf, Refreshed, Dropped, Present

LEMMA WritesTypes ==
  ASSUME TInv, NEW t \in Threads, Writes(t)
  PROVE  TInv'
<1>1. CommitOK(t)
  BY WritesCommit
<1>2. PICK es \in Seq(Entry), after \in {"idle", "process", "drain"} :
        Commit(t, es, after)
  BY <1>1 DEF CommitOK
<1>3. journal' \in Seq(Entry)
  BY <1>2, ConcatProperties DEF Commit, TInv, TypeOK
<1>4. ThreadTypes'
  <2>1. Goto(t, after, Blank) /\ after \in Steps /\ ThreadTypes
    BY <1>2 DEF Commit, Steps, TInv, TypeOK, ThreadTypes
  <2> QED  BY <2>1, BlankType, GotoTypes
<1> QED
  BY <1>1, <1>2, <1>3, <1>4
  DEF CommitOK, Commit, vector, duck, TInv, TypeOK, ThreadTypes

LEMMA ProcessTypes ==
  ASSUME TInv, NEW t \in Threads,
         Process(t) \/ ProcessRaises(t) \/ ProcessDies(t)
  PROVE  TInv'
<1>1. TypeOK /\ RowsHaveIds /\ ThreadTypes
  BY DEF TInv, TypeOK, ThreadTypes
<1>2. Batch \in Seq(Entry) /\ Rest \in Seq(Entry)
  BY <1>1, JournalIsBatchAndRest DEF TypeOK
<1>3. /\ ChromaAfter(Batch) \in [Keys -> Content]
      /\ ChromaDeletesOnly(Batch) \in [Keys -> Content]
      /\ MirrorAfter(Batch) \in [PK -> Content]
      /\ MirrorHalfway(Batch) \in [PK -> Content]
      /\ RowsOf(Batch) \subseteq PK /\ Touched(Batch) \subseteq Keys
  BY <1>1, <1>2, ChromaAfterType, MirrorAfterType DEF TypeOK, Touched
<1>4. (rows' = rows /\ rowid' = rowid) => RowsHaveIds'
  BY <1>1 DEF RowsHaveIds, Present
<1>5. CASE Process(t)
  <2>1. chroma' \in [Keys -> Content] /\ lost' \subseteq Keys /\ up' = up
    BY <1>1, <1>3, <1>5 DEF Process, ApplyToChroma, TypeOK
  <2>2. /\ mirror' \in [PK -> Content] /\ lostMirror' \subseteq PK
        /\ duckUp' = duckUp /\ mirrored' = mirrored
    <3>1. /\ ApplyToMirror(Batch)
          /\ mirror \in [PK -> Content] /\ lostMirror \subseteq PK
      BY <1>1, <1>5 DEF Process, TypeOK
    <3>2. CASE /\ mirrored
               /\ mirror' \in {mirror} \cup (IF duckUp
                                           THEN {MirrorHalfway(Batch)} ELSE {})
               /\ lostMirror' = lostMirror \cup RowsOf(Batch)
      BY <1>3, <3>1, <3>2 DEF ApplyToMirror
    <3> QED  BY <1>3, <3>1, <3>2 DEF ApplyToMirror
  <2>3. [Blank EXCEPT !.drain = pc[t] = "drain"] \in Locals
    BY BlankType DEF Locals
  <2>4. ThreadTypes'
    BY <1>1, <1>5, <2>3, GotoTypes DEF Process, Steps
  <2> QED
    BY <1>1, <1>2, <1>4, <1>5, <2>1, <2>2, <2>4
    DEF Process, FlagOverflow, sqlite, TInv, TypeOK, ThreadTypes
<1>6. CASE ProcessRaises(t)
  <2>1. ThreadTypes'
    BY <1>1, <1>6, BlankType, GotoTypes DEF ProcessRaises, Steps
  <2> QED
    BY <1>1, <1>3, <1>4, <1>6, <2>1
    DEF ProcessRaises, FlagOverflow, sqlite, duck, TInv, TypeOK, ThreadTypes
<1>7. CASE ProcessDies(t)
  <2>1. ThreadTypes' /\ up' \in BOOLEAN /\ duckUp' \in BOOLEAN
    BY <1>7, BlankType, SwitchAssumption
    DEF ProcessDies, Reopen, ThreadTypes, Steps
  <2>2. chroma' \in [Keys -> Content] /\ mirror' \in [PK -> Content]
    BY <1>1, <1>3, <1>7 DEF ProcessDies, TypeOK
  <2> QED
    BY <1>1, <1>4, <1>7, <2>1, <2>2
    DEF ProcessDies, Reopen, sqlite, TInv, TypeOK, ThreadTypes
<1> QED  BY <1>5, <1>6, <1>7

LEMMA ContinueTypes ==
  ASSUME TInv, NEW t \in Threads,
         Continue(t) \/ ReconcileIds(t) \/ ReconcileRaises(t)
  PROVE  TInv'
<1>1. TypeOK /\ RowsHaveIds /\ ThreadTypes
  BY DEF TInv, TypeOK, ThreadTypes
<1>2. (rows' = rows /\ rowid' = rowid) => RowsHaveIds'
  BY <1>1 DEF RowsHaveIds, Present
<1>3. local[t] \in Locals
  BY <1>1 DEF ThreadTypes
<1>4. CASE ProcessNothing(t) \/ ReconcileRaises(t)
  <2>1. ThreadTypes'
    BY <1>1, <1>4, BlankType, GotoTypes
    DEF ProcessNothing, ReconcileRaises, Steps
  <2> QED
    BY <1>1, <1>2, <1>4, <2>1
    DEF ProcessNothing, ReconcileRaises, sqlite, vector, duck, TInv, TypeOK,
        ThreadTypes
<1>5. CASE Recheck(t) \/ Clear(t)
  <2>1. ThreadTypes'
    BY <1>1, <1>3, <1>5, GotoTypes, ReturnTypes DEF Recheck, Clear, Steps
  <2> QED
    BY <1>1, <1>2, <1>5, <2>1
    DEF Recheck, Clear, sqlite, vector, duck, TInv, TypeOK, ThreadTypes
<1>6. CASE ReconcileIds(t)
  <2>1. [Blank EXCEPT !.ids = {k \in Keys : chroma[k] # NoDoc}] \in Locals
    BY BlankType DEF Locals
  <2>2. ThreadTypes'
    BY <1>1, <1>6, <2>1, GotoTypes DEF ReconcileIds, Steps
  <2> QED
    BY <1>1, <1>2, <1>6, <2>2
    DEF ReconcileIds, sqlite, vector, duck, TInv, TypeOK, ThreadTypes
<1>7. CASE ReconcileRows(t)
  <2>1. [local[t] EXCEPT !.docs = rows] \in Locals
    BY <1>1, <1>3 DEF Locals, TypeOK
  <2>2. ThreadTypes'
    BY <1>1, <1>7, <2>1, GotoTypes DEF ReconcileRows, Steps
  <2> QED
    BY <1>1, <1>2, <1>7, <2>2
    DEF ReconcileRows, sqlite, vector, duck, TInv, TypeOK, ThreadTypes
<1>8. CASE ReconcileGhosts(t)
  <2>1. ThreadTypes'
    BY <1>1, <1>3, <1>8, GotoTypes DEF ReconcileGhosts, Steps
  <2>2. chroma' \in [Keys -> Content] /\ lost' \subseteq Keys
    BY <1>1, <1>8 DEF ReconcileGhosts, TypeOK, Content
  <2> QED
    BY <1>1, <1>2, <1>8, <2>1, <2>2
    DEF ReconcileGhosts, sqlite, duck, TInv, TypeOK, ThreadTypes
<1>9. CASE ReconcileMissing(t)
  <2>1. ThreadTypes'
    BY <1>1, <1>9, BlankType, GotoTypes DEF ReconcileMissing, Steps
  <2>2. chroma' \in [Keys -> Content] /\ lost' \subseteq Keys
    <3>1. \A k \in Missing(local[t]) : local[t].docs[k] \in Content
      BY <1>3 DEF Missing, Present, Locals
    <3> QED  BY <1>1, <1>9, <3>1 DEF ReconcileMissing, TypeOK
  <2> QED
    BY <1>1, <1>2, <1>9, <2>1, <2>2
    DEF ReconcileMissing, sqlite, duck, TInv, TypeOK, ThreadTypes
<1> QED  BY <1>4, <1>5, <1>6, <1>7, <1>8, <1>9 DEF Continue

LEMMA MirrorAndRestartTypes ==
  ASSUME TInv,
         \/ Restart
         \/ \E t \in Threads :
              SyncMirror(t) \/ SyncMirrorFails(t) \/ UnregisterMirror(t)
  PROVE  TInv'
<1>1. TypeOK /\ RowsHaveIds
  BY DEF TInv
<1>2. (rows' = rows /\ rowid' = rowid) => RowsHaveIds'
  BY <1>1 DEF RowsHaveIds, Present
<1>3. NoRows \in [PK -> Content]
  BY DEF NoRows, Content
<1>4. CASE Restart
  <2>1. ThreadTypes' /\ up' \in BOOLEAN /\ duckUp' \in BOOLEAN
    BY <1>4, BlankType, SwitchAssumption
    DEF Restart, Reopen, ThreadTypes, Steps
  <2>2. /\ mirrored' \in BOOLEAN /\ mirror' \in [PK -> Content]
        /\ lostMirror' \subseteq PK
    BY <1>1, <1>3, <1>4 DEF Restart, DropMirror, TypeOK
  <2> QED
    BY <1>1, <1>2, <1>4, <2>1, <2>2
    DEF Restart, Reopen, sqlite, TInv, TypeOK, ThreadTypes
<1>5. ASSUME NEW t \in Threads,
             SyncMirror(t) \/ SyncMirrorFails(t) \/ UnregisterMirror(t)
      PROVE  TInv'
  BY <1>1, <1>2, <1>3, <1>5
  DEF SyncMirror, SyncMirrorFails, UnregisterMirror, DropMirror, sqlite,
      vector, thread, TInv, TypeOK
<1> QED  BY <1>4, <1>5

LEMMA TypesInductive == TInv /\ [Next]_vars => TInv'
<1> SUFFICES ASSUME TInv, [Next]_vars PROVE TInv'
  OBVIOUS
<1>1. CASE Restart
  BY <1>1, MirrorAndRestartTypes
<1>2. ASSUME NEW t \in Threads, ThreadStep(t)
      PROVE  TInv'
  BY <1>2, WritesTypes, ProcessTypes, ContinueTypes, MirrorAndRestartTypes
  DEF ThreadStep
<1>3. CASE UNCHANGED vars
  BY <1>3 DEF vars, TInv, TypeOK, RowsHaveIds, Present
<1> QED  BY <1>1, <1>2, <1>3 DEF Next

LEMMA TypesInitially == Init => TInv
<1> SUFFICES ASSUME Init PROVE TInv
  OBVIOUS
<1>1. NoDoc \in Content /\ NoRows \in [PK -> Content]
  BY DEF Content, NoRows
<1>2. RowsHaveIds
  BY DEF Init, RowsHaveIds, Present, NoRows
<1>3. up \in BOOLEAN /\ duckUp \in BOOLEAN
  BY SwitchAssumption DEF Init
<1>4. pc \in [Threads -> Steps] /\ local \in [Threads -> Locals]
  BY BlankType DEF Init, Steps
<1>5. journal \in Seq(Entry)
  BY EmptySeq DEF Init
<1> QED  BY <1>1, <1>2, <1>3, <1>4, <1>5 DEF Init, TInv, TypeOK

\* Type correctness, for keys of either kind and any number of threads: the
\* journal holds only entries for the keys and rowids there are, whatever
\* is changed, moved, reconciled or interrupted (crud.py, journal.py).
THEOREM TypesAlways == Spec => []TypeOK
<1>1. Spec => []TInv
  BY TypesInitially, TypesInductive, PTL DEF Spec
<1>2. TInv => TypeOK
  BY DEF TInv
<1> QED  BY <1>1, <1>2, PTL

-----------------------------------------------------------------------------
(***************************************************************************)
(* Hybrid search is not left off.                                          *)
(***************************************************************************)

\* A thread that is not about to count again, or to clear the flag, may move
\* as long as it does not shorten the journal.
LEMMA OthersStillCount ==
  ASSUME OffOnlyInOverflow, TInv, NEW t \in Threads, NEW step,
         pc[t] \notin {"recheck", "clear"}, pc' = [pc EXCEPT ![t] = step],
         disabled' => disabled \/ Len(journal) > Cap,
         Len(journal') \in Nat, Len(journal') >= Len(journal)
  PROVE  OffOnlyInOverflow'
<1>1. Len(journal) \in Nat /\ Cap \in Nat /\ pc \in [Threads -> Steps]
  BY LenProperties, BoundAssumption DEF TInv, TypeOK
<1>2. CASE ~disabled'
  BY <1>2 DEF OffOnlyInOverflow
<1>3. CASE Len(journal) > Cap
  BY <1>1, <1>3 DEF OffOnlyInOverflow
<1>4. CASE \E s \in Threads : pc[s] \in {"recheck", "clear"}
  <2>1. PICK s \in Threads : pc[s] \in {"recheck", "clear"}
    BY <1>4
  <2>2. s # t /\ pc'[s] = pc[s]
    BY <1>1, <2>1
  <2> QED  BY <2>1, <2>2 DEF OffOnlyInOverflow
<1> QED  BY <1>2, <1>3, <1>4 DEF OffOnlyInOverflow

LEMMA OffInductive ==
  TInv /\ OffOnlyInOverflow /\ [Next]_vars => OffOnlyInOverflow'
<1> SUFFICES ASSUME TInv, OffOnlyInOverflow, [Next]_vars
             PROVE  OffOnlyInOverflow'
  OBVIOUS
<1>1. Len(journal) \in Nat /\ Cap \in Nat /\ pc \in [Threads -> Steps]
  BY LenProperties, BoundAssumption DEF TInv, TypeOK
<1>2. CASE Restart
  BY <1>2 DEF Restart, Reopen, OffOnlyInOverflow
<1>3. ASSUME NEW t \in Threads, ThreadStep(t)
      PROVE  OffOnlyInOverflow'
  <2>1. CASE Writes(t)
    <3>1. PICK es \in Seq(Entry), after \in {"idle", "process", "drain"} :
            Commit(t, es, after)
      BY <2>1, WritesCommit DEF CommitOK
    <3>2. Len(journal') = Len(journal) + Len(es) /\ Len(es) \in Nat
      BY <3>1, ConcatProperties, LenProperties DEF Commit, TInv, TypeOK
    <3>3. /\ pc[t] \notin {"recheck", "clear"}
          /\ pc' = [pc EXCEPT ![t] = after]
          /\ disabled' => disabled \/ Len(journal) > Cap
      BY <3>1 DEF Commit, Goto
    <3>4. Len(journal') \in Nat /\ Len(journal') >= Len(journal)
      BY <1>1, <3>2
    <3> QED  BY <3>3, <3>4, OthersStillCount, Zenon
  <2>2. CASE Process(t)
    <3>1. pc'[t] = "recheck"
      BY <1>1, <2>2 DEF Process, Goto
    <3> QED  BY <3>1 DEF OffOnlyInOverflow
  <2>3. CASE ProcessRaises(t)
    <3>1. /\ pc[t] \notin {"recheck", "clear"} /\ journal' = journal
          /\ pc' = [pc EXCEPT ![t] = "idle"]
          /\ disabled' => disabled \/ Len(journal) > Cap
      BY <2>3 DEF ProcessRaises, Callable, Goto, FlagOverflow
    <3>2. Len(journal') \in Nat /\ Len(journal') >= Len(journal)
      BY <1>1, <3>1
    <3> QED  BY <3>1, <3>2, OthersStillCount, Zenon
  <2>4. CASE \/ ProcessNothing(t) \/ ReconcileRows(t) \/ ReconcileGhosts(t)
             \/ ReconcileIds(t) \/ ReconcileRaises(t)
    <3>1. PICK step \in Steps : pc' = [pc EXCEPT ![t] = step]
      BY <2>4 DEF ProcessNothing, ReconcileRows, ReconcileGhosts, ReconcileIds,
                  ReconcileRaises, Goto, Steps
    <3>2. /\ pc[t] \notin {"recheck", "clear"}
          /\ journal' = journal
          /\ disabled' => disabled \/ Len(journal) > Cap
      BY <2>4 DEF ProcessNothing, ReconcileRows, ReconcileGhosts, ReconcileIds,
                  ReconcileRaises
    <3>3. Len(journal') \in Nat /\ Len(journal') >= Len(journal)
      BY <1>1, <3>2
    <3> QED  BY <3>1, <3>2, <3>3, OthersStillCount, Zenon
  <2>5. CASE Recheck(t)
    <3>1. CASE Recovered
      <4>1. pc'[t] = "clear"
        BY <1>1, <2>5, <3>1 DEF Recheck, Goto
      <4> QED  BY <4>1 DEF OffOnlyInOverflow
    <3>2. CASE ~Recovered
      BY <1>1, <2>5, <3>2 DEF Recheck, Recovered, OffOnlyInOverflow
    <3> QED  BY <3>1, <3>2
  <2>6. CASE Clear(t) \/ ReconcileMissing(t) \/ ProcessDies(t)
    <3>1. disabled' = FALSE
      BY <2>6 DEF Clear, ReconcileMissing, ProcessDies, Reopen
    <3> QED  BY <3>1 DEF OffOnlyInOverflow
  <2>7. CASE SyncMirror(t) \/ SyncMirrorFails(t) \/ UnregisterMirror(t)
    BY <2>7 DEF SyncMirror, SyncMirrorFails, UnregisterMirror, thread,
                OffOnlyInOverflow
  <2> QED
    BY <1>3, <2>1, <2>2, <2>3, <2>4, <2>5, <2>6, <2>7 DEF ThreadStep, Continue
<1>4. CASE UNCHANGED vars
  BY <1>4 DEF vars, OffOnlyInOverflow
<1> QED  BY <1>2, <1>3, <1>4 DEF Next

\* Whatever the threads do in between: as long as too much is not pending,
\* hybrid search is on or a thread is on its way to turn it on
\* (_process_journal, journal.py; reconcile, maintenance.py).
THEOREM SearchNotLeftOff == Spec => []OffOnlyInOverflow
<1>1. Init => OffOnlyInOverflow
  BY DEF Init, OffOnlyInOverflow
<1>2. Spec => [](TInv /\ OffOnlyInOverflow)
  BY <1>1, TypesInitially, TypesInductive, OffInductive, PTL DEF Spec
<1> QED  BY <1>2, PTL

-----------------------------------------------------------------------------
(***************************************************************************)
(* A reconcile that nobody disturbs: what it has read stays true, for the  *)
(* only thread that could change it is the one that reconciles.            *)
(***************************************************************************)
\* Only a thread that is alone reconciles, if any does.
Undisturbed == \A t \in Reconcilers, u \in Threads : t = u

InReconcile(t) == pc[t] \in {"rc_rows", "rc_ghosts", "rc_missing"}

IdsCurrent(l) == l.ids = {k \in Keys : chroma[k] # NoDoc}

\* The ghosts are gone, and nothing else.
GhostsGone(l) ==
  \A k \in Keys : chroma[k] # NoDoc <=> k \in l.ids /\ k \in Present(l.docs)

ReadCurrent(t) ==
  /\ t \in Reconcilers /\ ~local[t].drain
  /\ pc[t] = "rc_rows" => IdsCurrent(local[t])
  /\ pc[t] = "rc_ghosts" => IdsCurrent(local[t]) /\ local[t].docs = rows
  /\ pc[t] = "rc_missing" => GhostsGone(local[t]) /\ local[t].docs = rows

ReconcileInv == \A t \in Threads : InReconcile(t) => ReadCurrent(t)

\* Nobody gets into a reconcile but by its steps.
LEMMA OutsideStaysOutside ==
  ASSUME TInv, NEW t \in Threads, NEW u \in Threads, ThreadStep(u),
         ~InReconcile(t), InReconcile(t)'
  PROVE  ReconcileIds(u) /\ t = u
<1>1. pc \in [Threads -> Steps]
  BY DEF TInv, TypeOK
<1>2. CASE Writes(u)
  BY <1>1, <1>2
  DEF Writes, Insert, InsertBatch, Update, ChangeKey, Delete, Commit, Goto,
      InReconcile
<1>3. CASE Process(u) \/ ProcessRaises(u) \/ ReconcileRaises(u)
  BY <1>1, <1>3 DEF Process, ProcessRaises, ReconcileRaises, Goto, InReconcile
<1>4. CASE ProcessNothing(u) \/ Recheck(u) \/ Clear(u)
  BY <1>1, <1>4 DEF ProcessNothing, Recheck, Clear, Return, Goto, InReconcile
<1>5. CASE ReconcileRows(u) \/ ReconcileGhosts(u) \/ ReconcileMissing(u)
  BY <1>1, <1>5
  DEF ReconcileRows, ReconcileGhosts, ReconcileMissing, Goto, InReconcile
<1>6. CASE SyncMirror(u) \/ SyncMirrorFails(u) \/ UnregisterMirror(u)
  BY <1>6
  DEF SyncMirror, SyncMirrorFails, UnregisterMirror, thread, InReconcile
<1>7. CASE ProcessDies(u)
  BY <1>7 DEF ProcessDies, Reopen, InReconcile
<1>8. CASE ReconcileIds(u)
  BY <1>1, <1>8 DEF ReconcileIds, Goto, InReconcile
<1> QED
  BY <1>2, <1>3, <1>4, <1>5, <1>6, <1>7, <1>8 DEF ThreadStep, Continue

\* A thread in reconcile does nothing but reconcile, or dies.
LEMMA InsideOnlyReconciles ==
  ASSUME TInv, NEW t \in Threads, ThreadStep(t), InReconcile(t),
         InReconcile(t)'
  PROVE  ReconcileRows(t) \/ ReconcileGhosts(t)
<1>1. pc \in [Threads -> Steps]
  BY DEF TInv, TypeOK
<1>2. ~Writes(t)
  BY DEF Writes, Insert, InsertBatch, Update, ChangeKey, Delete, Commit,
         InReconcile
<1>3. ~Process(t) /\ ~ProcessRaises(t) /\ ~ProcessDies(t)
  BY DEF Process, ProcessRaises, ProcessDies, Callable, InReconcile
<1>4. ~ProcessNothing(t) /\ ~Recheck(t) /\ ~Clear(t) /\ ~ReconcileIds(t)
  BY DEF ProcessNothing, Recheck, Clear, ReconcileIds, InReconcile
<1>5. ~SyncMirror(t) /\ ~SyncMirrorFails(t) /\ ~UnregisterMirror(t)
  BY DEF SyncMirror, SyncMirrorFails, UnregisterMirror, InReconcile
<1>6. ~ReconcileMissing(t) /\ ~ReconcileRaises(t)
  BY <1>1 DEF ReconcileMissing, ReconcileRaises, Goto, InReconcile
<1> QED
  BY <1>2, <1>3, <1>4, <1>5, <1>6 DEF ThreadStep, Continue

\* Its own steps keep what it has read current.
LEMMA StepKeepsRead ==
  ASSUME TInv, NEW t \in Threads,
         \/ ReconcileIds(t)
         \/ (ReconcileRows(t) \/ ReconcileGhosts(t)) /\ ReadCurrent(t)
  PROVE  ReadCurrent(t)'
<1>1. /\ pc \in [Threads -> Steps] /\ local \in [Threads -> Locals]
      /\ local[t] \in Locals /\ chroma \in [Keys -> Content]
  BY DEF TInv, TypeOK
<1>2. CASE ReconcileIds(t)
  <2> DEFINE l == [Blank EXCEPT !.ids = {k \in Keys : chroma[k] # NoDoc}]
  <2>1. ~l.drain /\ IdsCurrent(l)
    BY DEF Blank, IdsCurrent
  <2>2. /\ pc'[t] = "rc_rows" /\ local'[t] = l /\ chroma' = chroma
        /\ t \in Reconcilers
    BY <1>1, <1>2 DEF ReconcileIds, Goto, vector
  <2> QED  BY <2>1, <2>2 DEF ReadCurrent, IdsCurrent
<1>3. CASE ReconcileRows(t) /\ ReadCurrent(t)
  <2> DEFINE l == [local[t] EXCEPT !.docs = rows]
  <2>1. l.drain = local[t].drain /\ l.ids = local[t].ids /\ l.docs = rows
    BY <1>1 DEF Locals
  <2>2. /\ pc[t] = "rc_rows" /\ pc'[t] = "rc_ghosts" /\ local'[t] = l
        /\ chroma' = chroma /\ rows' = rows
    BY <1>1, <1>3 DEF ReconcileRows, Goto, vector, sqlite
  <2> QED  BY <1>3, <2>1, <2>2 DEF ReadCurrent, IdsCurrent
<1>4. CASE ReconcileGhosts(t) /\ ReadCurrent(t)
  <2>1. /\ pc[t] = "rc_ghosts" /\ pc'[t] = "rc_missing"
        /\ local'[t] = local[t] /\ rows' = rows
        /\ chroma' = [k \in Keys |-> IF k \in Ghosts(local[t]) THEN NoDoc
                                     ELSE chroma[k]]
    BY <1>1, <1>4 DEF ReconcileGhosts, Goto, sqlite
  <2>2. IdsCurrent(local[t]) /\ local[t].docs = rows
    BY <1>4, <2>1 DEF ReadCurrent
  <2>3. GhostsGone(local[t])'
    BY <2>1, <2>2 DEF GhostsGone, IdsCurrent, Ghosts, Present
  <2> QED  BY <1>4, <2>1, <2>2, <2>3 DEF ReadCurrent
<1> QED  BY <1>2, <1>3, <1>4

LEMMA ReconcileInductive ==
  ASSUME Undisturbed
  PROVE  TInv /\ ReconcileInv /\ [Next]_vars => ReconcileInv'
<1> SUFFICES ASSUME TInv, ReconcileInv, [Next]_vars,
                    NEW t \in Threads, InReconcile(t)'
             PROVE  ReadCurrent(t)'
  BY DEF ReconcileInv
<1>1. CASE Restart
  BY <1>1 DEF Restart, Reopen, InReconcile
<1>2. ASSUME NEW u \in Threads, ThreadStep(u)
      PROVE  ReadCurrent(t)'
  <2>1. CASE ~InReconcile(t)
    BY <1>2, <2>1, OutsideStaysOutside, StepKeepsRead
  <2>2. CASE InReconcile(t)
    <3>1. ReadCurrent(t)
      BY <2>2 DEF ReconcileInv
    <3>2. t = u
      BY <3>1 DEF ReadCurrent, Undisturbed
    <3> QED  BY <1>2, <2>2, <3>1, <3>2, InsideOnlyReconciles, StepKeepsRead
  <2> QED  BY <2>1, <2>2
<1>3. CASE UNCHANGED vars
  BY <1>3 DEF vars, InReconcile, ReconcileInv, ReadCurrent, IdsCurrent,
              GhostsGone, Present
<1> QED  BY <1>1, <1>2, <1>3 DEF Next

LEMMA ReconcileInitially == Init => ReconcileInv
BY DEF Init, ReconcileInv, InReconcile

\* A reconcile ends with a vector under the key of every row and under no
\* other, for keys of either kind and any number of rows, whatever was lost,
\* pending or left behind before, where no other thread is there to disturb
\* it (maintenance.py: it reads ids and rows, and acts on both later).
THEOREM ReconcileAlwaysAligns ==
  ASSUME Undisturbed
  PROVE  Spec => ReconcileAligns
<1> DEFINE Aligns(t) ==
      ReconcileMissing(t) =>
        \A k \in Keys : chroma'[k] # NoDoc <=> RowDoc(k) # NoDoc
<1>1. ASSUME ReconcileInv, NEW t \in Threads
      PROVE  Aligns(t)
  <2> SUFFICES ASSUME ReconcileMissing(t), NEW k \in Keys
               PROVE  chroma'[k] # NoDoc <=> RowDoc(k) # NoDoc
    OBVIOUS
  <2>1. /\ GhostsGone(local[t]) /\ local[t].docs = rows
        /\ chroma' = [j \in Keys |-> IF j \in Missing(local[t])
                                     THEN local[t].docs[j] ELSE chroma[j]]
    BY <1>1 DEF ReconcileInv, InReconcile, ReadCurrent, ReconcileMissing
  <2>2. chroma[k] # NoDoc <=> k \in local[t].ids /\ k \in Present(rows)
    BY <2>1 DEF GhostsGone
  <2>3. k \in Missing(local[t]) <=> k \in Present(rows) /\ k \notin local[t].ids
    BY <2>1 DEF Missing
  <2>4. RowDoc(k) # NoDoc <=> k \in Present(rows)
    BY DEF RowDoc, Present
  <2>5. k \in Present(rows) => rows[k] # NoDoc
    BY DEF Present
  <2> QED  BY <2>1, <2>2, <2>3, <2>4, <2>5
<1>2. ReconcileInv => [\A t \in Threads : Aligns(t)]_vars
  BY <1>1
<1> QED
  BY <1>2, ReconcileInitially, ReconcileInductive, TypesInitially,
     TypesInductive, PTL
  DEF Spec, ReconcileAligns

-----------------------------------------------------------------------------
(***************************************************************************)
(* What a sequence of entries leaves under a key, wherever it is cut: the  *)
(* document of its last entry for the key, or what was there.  The key of  *)
(* an entry is `at`, as it is for an INTEGER primary key.                  *)
(***************************************************************************)
IsFor(e, k)     == e.op \in VectorOps /\ e.at = k
HasEntry(s, k)  == \E i \in DOMAIN s : IsFor(s[i], k)
IsLast(s, k, i) == IsFor(s[i], k) /\ \A j \in i + 1 .. Len(s) : ~IsFor(s[j], k)
LastFor(s, k)   == CHOOSE i \in DOMAIN s : IsLast(s, k, i)
Leaves(s, k, c) == IF HasEntry(s, k) THEN s[LastFor(s, k)].doc ELSE c

LEMMA LastExists ==
  ASSUME NEW s \in Seq(Entry), NEW k, HasEntry(s, k)
  PROVE  LastFor(s, k) \in DOMAIN s /\ IsLast(s, k, LastFor(s, k))
<1> DEFINE T == {i \in DOMAIN s : IsFor(s[i], k)}
<1>1. DOMAIN s = 1 .. Len(s) /\ Len(s) \in Nat
  BY LenProperties
<1>2. T \subseteq 1 .. Len(s) /\ T # {}
  BY <1>1 DEF HasEntry
<1>3. PICK i \in T : \A j \in T : j <= i
  <2> HIDE DEF T
  <2> QED  BY <1>1, <1>2, Largest
<1>4. \A j \in i + 1 .. Len(s) : ~IsFor(s[j], k)
  BY <1>1, <1>2, <1>3
<1> QED  BY <1>3, <1>4 DEF IsLast, LastFor

\* There is only one last entry for a key.
LEMMA LastIsLast ==
  ASSUME NEW s \in Seq(Entry), NEW k, NEW i \in DOMAIN s, IsLast(s, k, i),
         NEW c
  PROVE  Leaves(s, k, c) = s[i].doc
<1>1. HasEntry(s, k)
  BY DEF HasEntry, IsLast
<1>2. LastFor(s, k) \in DOMAIN s /\ IsLast(s, k, LastFor(s, k))
  BY <1>1, LastExists
<1>3. DOMAIN s = 1 .. Len(s) /\ Len(s) \in Nat
  BY LenProperties
<1>4. LastFor(s, k) = i
  BY <1>2, <1>3 DEF IsLast
<1> QED  BY <1>1, <1>4 DEF Leaves

\* Two sequences, one after the other.
LEMMA LeavesConcat ==
  ASSUME NEW s \in Seq(Entry), NEW u \in Seq(Entry), NEW k, NEW c
  PROVE  /\ HasEntry(s \o u, k) <=> HasEntry(s, k) \/ HasEntry(u, k)
         /\ Leaves(s \o u, k, c) = Leaves(u, k, Leaves(s, k, c))
<1>1. /\ DOMAIN s = 1 .. Len(s) /\ Len(s) \in Nat
      /\ DOMAIN u = 1 .. Len(u) /\ Len(u) \in Nat
      /\ s \o u \in Seq(Entry)
      /\ DOMAIN (s \o u) = 1 .. Len(s) + Len(u)
      /\ Len(s \o u) = Len(s) + Len(u)
  BY LenProperties, ConcatProperties
<1>2. \A i \in 1 .. Len(s) : i \in DOMAIN (s \o u) /\ (s \o u)[i] = s[i]
  BY <1>1, ConcatProperties
<1>3. \A i \in 1 .. Len(u) : /\ Len(s) + i \in DOMAIN (s \o u)
                             /\ (s \o u)[Len(s) + i] = u[i]
  BY <1>1, ConcatProperties
<1>4. \A i \in DOMAIN (s \o u) :
        i \notin 1 .. Len(s) => \E j \in 1 .. Len(u) : i = Len(s) + j
  <2>1. \A i \in DOMAIN (s \o u) :
          i \notin 1 .. Len(s) =>
            i - Len(s) \in 1 .. Len(u) /\ i = Len(s) + (i - Len(s))
    BY <1>1
  <2> QED  BY <2>1
<1>5. HasEntry(s \o u, k) <=> HasEntry(s, k) \/ HasEntry(u, k)
  BY <1>1, <1>2, <1>3, <1>4 DEF HasEntry
<1>6. CASE HasEntry(u, k)
  <2>1. PICK i \in DOMAIN u : IsLast(u, k, i)
    BY <1>6, LastExists
  <2>2. IsLast(s \o u, k, Len(s) + i)
    <3>1. IsFor((s \o u)[Len(s) + i], k)
      BY <1>1, <1>3, <2>1 DEF IsLast
    <3>2. ASSUME NEW j \in Len(s) + i + 1 .. Len(s \o u)
          PROVE  ~IsFor((s \o u)[j], k)
      <4>1. j - Len(s) \in i + 1 .. Len(u) /\ j - Len(s) \in 1 .. Len(u)
            /\ Len(s) + (j - Len(s)) = j
        BY <1>1
      <4>2. ~IsFor(u[j - Len(s)], k)
        BY <2>1, <4>1 DEF IsLast
      <4> QED  BY <1>3, <4>1, <4>2
    <3> QED  BY <3>1, <3>2 DEF IsLast
  <2>3. Leaves(s \o u, k, c) = (s \o u)[Len(s) + i].doc
    <3>1. Len(s) + i \in DOMAIN (s \o u) /\ s \o u \in Seq(Entry)
      BY <1>1, <1>3
    <3> QED  BY <2>2, <3>1, LastIsLast
  <2>4. Leaves(u, k, Leaves(s, k, c)) = u[i].doc
    BY <2>1, LastIsLast
  <2> QED  BY <1>1, <1>3, <1>5, <2>1, <2>3, <2>4
<1>7. CASE HasEntry(s, k) /\ ~HasEntry(u, k)
  <2>1. PICK i \in DOMAIN s : IsLast(s, k, i)
    BY <1>7, LastExists
  <2>2. IsLast(s \o u, k, i)
    <3>1. IsFor((s \o u)[i], k)
      BY <1>1, <1>2, <2>1 DEF IsLast
    <3>2. ASSUME NEW j \in i + 1 .. Len(s \o u)
          PROVE  ~IsFor((s \o u)[j], k)
      <4>1. CASE j \in 1 .. Len(s)
        BY <1>1, <1>2, <2>1, <4>1 DEF IsLast
      <4>2. CASE j \notin 1 .. Len(s)
        <5>1. PICK n \in 1 .. Len(u) : j = Len(s) + n
          BY <1>1, <1>4, <2>1, <4>2
        <5> QED  BY <1>1, <1>3, <1>7, <5>1 DEF HasEntry
      <4> QED  BY <4>1, <4>2
    <3> QED  BY <3>1, <3>2 DEF IsLast
  <2>3. Leaves(s \o u, k, c) = (s \o u)[i].doc
    BY <1>1, <1>2, <2>1, <2>2, LastIsLast
  <2>4. Leaves(s, k, c) = s[i].doc
    BY <2>1, LastIsLast
  <2> QED  BY <1>1, <1>2, <1>5, <1>7, <2>1, <2>3, <2>4 DEF Leaves
<1>8. CASE ~HasEntry(s, k) /\ ~HasEntry(u, k)
  BY <1>5, <1>8 DEF Leaves
<1> QED  BY <1>6, <1>7, <1>8

\* What the entries of one write leave under a key.
LEMMA PairLeaves ==
  ASSUME NEW e \in Entry, NEW f \in Entry,
         e.op \in VectorOps, f.op \notin VectorOps, NEW k, NEW c
  PROVE  /\ HasEntry(<<e, f>>, k) <=> k = e.at
         /\ Leaves(<<e, f>>, k, c) = IF k = e.at THEN e.doc ELSE c
<1> DEFINE s == <<e, f>>
<1>1. /\ s \in Seq(Entry) /\ DOMAIN s = 1 .. 2 /\ Len(s) = 2
      /\ s[1] = e /\ s[2] = f
  OBVIOUS
<1> HIDE DEF s
<1>2. HasEntry(s, k) <=> k = e.at
  <2>1. \A i \in 1 .. 2 : i = 1 \/ i = 2
    OBVIOUS
  <2> QED  BY <1>1, <2>1 DEF HasEntry, IsFor
<1>3. ASSUME k = e.at
      PROVE  Leaves(s, k, c) = e.doc
  <2>1. 1 \in DOMAIN s
    BY <1>1
  <2>2. IsLast(s, k, 1)
    <3>1. \A j \in 1 + 1 .. Len(s) : j = 2
      BY <1>1
    <3> QED  BY <1>1, <1>3, <3>1 DEF IsLast, IsFor
  <2>3. Leaves(s, k, c) = s[1].doc
    BY <1>1, <2>1, <2>2, LastIsLast
  <2> QED  BY <1>1, <2>3
<1>4. k # e.at => Leaves(s, k, c) = c
  BY <1>2 DEF Leaves
<1> QED  BY <1>2, <1>3, <1>4 DEF s

\* An add, an update, a delete.
LEMMA EntriesLeave ==
  ASSUME NEW r \in RowIds, NEW p \in PK, NEW d \in Doc, NEW k, NEW c
  PROVE  /\ HasEntry(AddEntries(r, d), k) <=> k = r
         /\ Leaves(AddEntries(r, d), k, c) = IF k = r THEN d ELSE c
         /\ HasEntry(UpdateEntries(r, d), k) <=> k = r
         /\ Leaves(UpdateEntries(r, d), k, c) = IF k = r THEN d ELSE c
         /\ HasEntry(DeleteEntries(p), k) <=> k = p
         /\ Leaves(DeleteEntries(p), k, c) = IF k = p THEN NoDoc ELSE c
<1>1. ASSUME NEW op \in VectorOps, NEW rop \in RowOps, NEW n \in Keys,
             NEW x \in Content
      PROVE  /\ HasEntry(<<VectorEntry(op, n, x), RowEntry(rop, n)>>, k)
                  <=> k = n
             /\ Leaves(<<VectorEntry(op, n, x), RowEntry(rop, n)>>, k, c)
                  = IF k = n THEN x ELSE c
  <2> DEFINE e == VectorEntry(op, n, x)
             f == RowEntry(rop, n)
  <2>1. /\ e \in Entry /\ e.op = op /\ e.at = n /\ e.doc = x
        /\ f \in Entry /\ f.op = rop /\ rop \notin VectorOps
    BY DEF VectorEntry, RowEntry, Entry, Content, VectorOps, RowOps
  <2> HIDE DEF e, f
  <2>2. /\ HasEntry(<<e, f>>, k) <=> k = n
        /\ Leaves(<<e, f>>, k, c) = IF k = n THEN x ELSE c
    BY <2>1, PairLeaves
  <2> QED  BY <2>2 DEF e, f
<1>2. /\ r \in Keys /\ p \in Keys /\ d \in Content /\ NoDoc \in Content
      /\ "add" \in VectorOps /\ "update" \in VectorOps /\ "delete" \in VectorOps
      /\ "row_add" \in RowOps /\ "row_update" \in RowOps
      /\ "row_delete" \in RowOps
  BY DEF Keys, Content, VectorOps, RowOps
<1> QED
  BY <1>1, <1>2 DEF AddEntries, UpdateEntries, DeleteEntries

\* A change of key.
LEMMA MoveLeaves ==
  ASSUME NEW r \in RowIds, NEW p \in PK, p # r, NEW d \in Doc, NEW k, NEW c
  PROVE  /\ HasEntry(MoveEntries(p, r, d), k) <=> k \in {p, r}
         /\ Leaves(MoveEntries(p, r, d), k, c)
              = IF k = r THEN d ELSE IF k = p THEN NoDoc ELSE c
<1> DEFINE s == MoveEntries(p, r, d)
<1>1. /\ s \in Seq(Entry) /\ DOMAIN s = 1 .. 4 /\ Len(s) = 4
      /\ s[1].op = "delete" /\ s[1].at = p /\ s[1].doc = NoDoc
      /\ s[2].op = "add" /\ s[2].at = r /\ s[2].doc = d
      /\ s[3].op = "row_delete" /\ s[4].op = "row_add"
  BY EntryTypes DEF MoveEntries, VectorEntry, RowEntry
<1> HIDE DEF s
<1>2. /\ IsFor(s[1], k) <=> k = p
      /\ IsFor(s[2], k) <=> k = r
      /\ ~IsFor(s[3], k) /\ ~IsFor(s[4], k)
  BY <1>1 DEF IsFor, VectorOps
<1>3. /\ \A i \in 1 .. 4 : i = 1 \/ i = 2 \/ i = 3 \/ i = 4
      /\ 1 \in 1 .. 4 /\ 2 \in 1 .. 4
      /\ \A i \in 1 + 1 .. 4 : i = 2 \/ i = 3 \/ i = 4
      /\ \A i \in 2 + 1 .. 4 : i = 3 \/ i = 4
  OBVIOUS
<1>4. HasEntry(s, k) <=> k \in {p, r}
  BY <1>1, <1>2, <1>3 DEF HasEntry
<1>5. ASSUME k = r PROVE Leaves(s, k, c) = d
  <2>1. 2 \in DOMAIN s /\ IsLast(s, k, 2)
    BY <1>1, <1>2, <1>3, <1>5 DEF IsLast
  <2> QED  BY <1>1, <2>1, LastIsLast
<1>6. ASSUME k = p PROVE Leaves(s, k, c) = NoDoc
  <2>1. 1 \in DOMAIN s /\ IsLast(s, k, 1)
    BY <1>1, <1>2, <1>3, <1>6 DEF IsLast
  <2> QED  BY <1>1, <2>1, LastIsLast
<1>7. k \notin {p, r} => Leaves(s, k, c) = c
  BY <1>4 DEF Leaves
<1> QED  BY <1>4, <1>5, <1>6, <1>7 DEF s

-----------------------------------------------------------------------------
(***************************************************************************)
(* The gap.  An INTEGER primary key is the rowid, so the key of an entry   *)
(* does not depend on the rows there are when it is applied.  That the     *)
(* pending entries lead to the rows holds of every key that was not given  *)
(* up in an outage, and again of a key that was once it has an entry:      *)
(* from there on the invariant is inductive.  A reconcile brings a key to  *)
(* its row, for nobody disturbs it.                                        *)
(***************************************************************************)
RowIdIsKey == \A p \in PK : rowid[p] = IF rows[p] = NoDoc THEN 0 ELSE p

EntriesLeadToRows ==
  \A k \in Keys :
    k \notin lost \/ HasEntry(journal, k)
      => Leaves(journal, k, chroma[k]) = rows[k]

GapInv == RowIdIsKey /\ EntriesLeadToRows

LEMMA KeyIsAt ==
  ASSUME IntegerKey, TInv, RowIdIsKey, NEW e \in Entry
  PROVE  KeyOf(e) = e.at
<1>1. \A p \in Present(rows) : rowid[p] = p
  BY DEF RowIdIsKey, Present
<1> QED  BY <1>1 DEF KeyOf

LEMMA ChromaAfterLeaves ==
  ASSUME IntegerKey, TInv, RowIdIsKey, NEW s \in Seq(Entry), NEW k \in Keys
  PROVE  /\ k \in Touched(s) <=> HasEntry(s, k)
         /\ ChromaAfter(s)[k] = Leaves(s, k, chroma[k])
<1>1. DOMAIN s = 1 .. Len(s) /\ Len(s) \in Nat
  BY LenProperties
<1>2. \A i \in 1 .. Len(s) : Touches(s[i], k) <=> IsFor(s[i], k)
  <2>1. ASSUME NEW i \in 1 .. Len(s)
        PROVE  Touches(s[i], k) <=> IsFor(s[i], k)
    <3>1. s[i] \in Entry
      BY ElementOfSeq
    <3> QED  BY <3>1, KeyIsAt DEF Touches, IsFor
  <2> QED  BY <2>1
<1>3. k \in Touched(s) <=> HasEntry(s, k)
  BY <1>1, <1>2 DEF Touched, HasEntry
<1>4. CASE k \in Touched(s)
  <2> DEFINE i == CHOOSE j \in DOMAIN s : Decides(s, k, j)
  <2>1. i \in DOMAIN s /\ Decides(s, k, i)
    BY <1>4, SomeEntryDecides
  <2>2. ChromaAfter(s)[k] = s[i].doc
    BY <1>4 DEF ChromaAfter
  <2> HIDE DEF i
  <2>3. IsLast(s, k, i)
    <3>1. \A j \in i + 1 .. Len(s) : j \in 1 .. Len(s)
      BY <1>1, <2>1
    <3> QED  BY <1>1, <1>2, <2>1, <3>1 DEF Decides, IsLast
  <2> QED  BY <1>3, <2>1, <2>2, <2>3, LastIsLast
<1>5. CASE k \notin Touched(s)
  BY <1>3, <1>5 DEF ChromaAfter, Leaves
<1> QED  BY <1>3, <1>4, <1>5

\* Every write changes the rows as the entries it commits say, and no others.
EntriesMatchRows(es) ==
  \A k \in Keys : \A c :
    IF HasEntry(es, k) THEN Leaves(es, k, c) = rows'[k] ELSE rows'[k] = rows[k]

MatchingCommit(t) ==
  /\ RowIdIsKey'
  /\ \E es \in Seq(Entry), after \in {"idle", "process", "drain"} :
       Commit(t, es, after) /\ EntriesMatchRows(es)

LEMMA WritesMatch ==
  ASSUME IntegerKey, TInv, RowIdIsKey, NEW t \in Threads, Writes(t)
  PROVE  MatchingCommit(t)
<1>1. /\ rows \in [PK -> Content] /\ rowid \in [PK -> RowIds \cup {0}]
      /\ \A p \in PK : rowid[p] = IF rows[p] = NoDoc THEN 0 ELSE p
      /\ \A p \in PK : rows[p] # NoDoc => rows[p] \in Doc
      /\ \A d \in Doc : d # NoDoc
      /\ RowIds = PK /\ Keys = PK
  BY NoDocAssumption, KeyAssumption
  DEF TInv, TypeOK, RowIdIsKey, Content, Keys
<1>2. RowIdIsKey' <=>
        \A p \in PK : rowid'[p] = IF rows'[p] = NoDoc THEN 0 ELSE p
  BY DEF RowIdIsKey
<1>3. ASSUME NEW p \in PK, NEW d \in Doc, NEW after \in {"idle", "process"},
             Insert(t, p, d, after)
      PROVE  MatchingCommit(t)
  <2>1. /\ rows' = [rows EXCEPT ![p] = d] /\ rowid' = [rowid EXCEPT ![p] = p]
        /\ Commit(t, AddEntries(p, d), after)
    BY <1>3 DEF Insert, IsNewRowId
  <2>2. RowIdIsKey' /\ AddEntries(p, d) \in Seq(Entry)
    BY <1>1, <1>2, <2>1, EntryTypes
  <2>3. EntriesMatchRows(AddEntries(p, d))
    BY <1>1, <2>1, EntriesLeave DEF EntriesMatchRows
  <2> QED  BY <2>1, <2>2, <2>3 DEF MatchingCommit
<1>4. ASSUME NEW p \in PK, NEW q \in PK, NEW d \in Doc,
             NEW after \in {"idle", "drain"}, InsertBatch(t, p, q, d, after)
      PROVE  MatchingCommit(t)
  <2> DEFINE es == AddEntries(p, d) \o AddEntries(q, d)
  <2>1. /\ p # q /\ rows' = [rows EXCEPT ![p] = d, ![q] = d]
        /\ rowid' = [rowid EXCEPT ![p] = p, ![q] = q]
        /\ Commit(t, es, after)
    BY <1>4 DEF InsertBatch, IsNewRowId
  <2>2. /\ AddEntries(p, d) \in Seq(Entry) /\ AddEntries(q, d) \in Seq(Entry)
    BY <1>1, EntryTypes
  <2>3. RowIdIsKey' /\ es \in Seq(Entry)
    BY <1>1, <1>2, <2>1, <2>2, ConcatProperties
  <2>4. ASSUME NEW k \in Keys, NEW c
        PROVE  /\ HasEntry(es, k) <=> k = p \/ k = q
               /\ Leaves(es, k, c) = IF k = p \/ k = q THEN d ELSE c
    BY <1>1, <2>2, LeavesConcat, EntriesLeave
  <2> HIDE DEF es
  <2>5. EntriesMatchRows(es)
    BY <1>1, <2>1, <2>4 DEF EntriesMatchRows
  <2> QED  BY <2>1, <2>3, <2>5 DEF MatchingCommit
<1>5. ASSUME NEW p \in PK, NEW d \in Doc, NEW after \in {"idle", "process"},
             Update(t, p, d, after)
      PROVE  MatchingCommit(t)
  <2>1. /\ rows[p] # NoDoc /\ rows' = [rows EXCEPT ![p] = d]
        /\ rowid' = rowid /\ Commit(t, UpdateEntries(p, d), after)
    BY <1>1, <1>5 DEF Update
  <2>2. RowIdIsKey' /\ UpdateEntries(p, d) \in Seq(Entry)
    BY <1>1, <1>2, <2>1, EntryTypes
  <2>3. EntriesMatchRows(UpdateEntries(p, d))
    BY <1>1, <2>1, EntriesLeave DEF EntriesMatchRows
  <2> QED  BY <2>1, <2>2, <2>3 DEF MatchingCommit
<1>6. ASSUME NEW p \in PK, NEW q \in PK, NEW d \in Doc,
             NEW after \in {"idle", "process"}, ChangeKey(t, p, q, d, after)
      PROVE  MatchingCommit(t)
  <2>1. /\ p # q /\ rows' = [rows EXCEPT ![p] = NoDoc, ![q] = d]
        /\ rowid' = [rowid EXCEPT ![p] = 0, ![q] = q]
        /\ Commit(t, MoveEntries(p, q, d), after)
    BY <1>6 DEF ChangeKey
  <2>2. RowIdIsKey' /\ MoveEntries(p, q, d) \in Seq(Entry)
    BY <1>1, <1>2, <2>1, EntryTypes
  <2>3. EntriesMatchRows(MoveEntries(p, q, d))
    BY <1>1, <2>1, MoveLeaves DEF EntriesMatchRows
  <2> QED  BY <2>1, <2>2, <2>3 DEF MatchingCommit
<1>7. ASSUME NEW p \in PK, NEW after \in {"idle", "process"},
             Delete(t, p, after)
      PROVE  MatchingCommit(t)
  <2>1. /\ rows[p] \in Doc /\ rows' = [rows EXCEPT ![p] = NoDoc]
        /\ rowid' = [rowid EXCEPT ![p] = 0]
        /\ Commit(t, DeleteEntries(p), after)
    BY <1>1, <1>7 DEF Delete
  <2>2. RowIdIsKey' /\ DeleteEntries(p) \in Seq(Entry)
    BY <1>1, <1>2, <2>1, EntryTypes
  <2>3. EntriesMatchRows(DeleteEntries(p))
    BY <1>1, <2>1, EntriesLeave DEF EntriesMatchRows
  <2> QED  BY <2>1, <2>2, <2>3 DEF MatchingCommit
<1> QED  BY <1>3, <1>4, <1>5, <1>6, <1>7 DEF Writes

LEMMA WritesKeepGap ==
  ASSUME IntegerKey, TInv, GapInv, NEW t \in Threads, Writes(t)
  PROVE  GapInv'
<1>1. MatchingCommit(t)
  BY WritesMatch DEF GapInv
<1>2. PICK es \in Seq(Entry), after \in {"idle", "process", "drain"} :
        Commit(t, es, after) /\ EntriesMatchRows(es)
  BY <1>1 DEF MatchingCommit
<1>3. /\ journal \in Seq(Entry) /\ journal' = journal \o es
      /\ chroma' = chroma /\ lost' = lost
      /\ pc' = [pc EXCEPT ![t] = after] /\ pc \in [Threads -> Steps]
  BY <1>2 DEF Commit, Goto, vector, TInv, TypeOK
<1>4. ASSUME NEW k \in Keys, k \notin lost \/ HasEntry(journal \o es, k)
      PROVE  Leaves(journal \o es, k, chroma[k]) = rows'[k]
  <2> DEFINE c == Leaves(journal, k, chroma[k])
  <2>1. /\ HasEntry(journal \o es, k) <=> HasEntry(journal, k) \/ HasEntry(es, k)
        /\ Leaves(journal \o es, k, chroma[k]) = Leaves(es, k, c)
    BY <1>3, LeavesConcat
  <2>2. IF HasEntry(es, k) THEN Leaves(es, k, c) = rows'[k]
                           ELSE rows'[k] = rows[k]
    BY <1>2 DEF EntriesMatchRows
  <2>3. CASE HasEntry(es, k)
    BY <2>1, <2>2, <2>3
  <2>4. CASE ~HasEntry(es, k)
    <3>1. c = rows[k]
      BY <1>4, <2>1, <2>4 DEF GapInv, EntriesLeadToRows
    <3>2. Leaves(es, k, c) = c
      BY <2>4 DEF Leaves
    <3> QED  BY <2>1, <2>2, <2>4, <3>1, <3>2
  <2> QED  BY <2>3, <2>4
<1>5. EntriesLeadToRows'
  BY <1>3, <1>4 DEF EntriesLeadToRows
<1>6. RowIdIsKey'
  BY <1>1 DEF MatchingCommit
<1> QED  BY <1>5, <1>6 DEF GapInv

\* A batch that is applied and removed, or passed over without a client.
LEMMA ProcessKeepsGap ==
  ASSUME IntegerKey, TInv, GapInv, NEW t \in Threads, Process(t)
  PROVE  GapInv'
<1>1. /\ Batch \in Seq(Entry) /\ Rest \in Seq(Entry) /\ journal' = Rest
      /\ journal = Batch \o Rest /\ chroma \in [Keys -> Content]
      /\ pc' = [pc EXCEPT ![t] = "recheck"] /\ pc \in [Threads -> Steps]
      /\ rows' = rows /\ rowid' = rowid
  BY JournalIsBatchAndRest DEF Process, Goto, sqlite, TInv, TypeOK
<1>2. ASSUME NEW k \in Keys, k \notin lost' \/ HasEntry(Rest, k)
      PROVE  Leaves(Rest, k, chroma'[k]) = rows[k]
  <2> DEFINE c == Leaves(Batch, k, chroma[k])
  <2>1. /\ HasEntry(journal, k) <=> HasEntry(Batch, k) \/ HasEntry(Rest, k)
        /\ Leaves(journal, k, chroma[k]) = Leaves(Rest, k, c)
    BY <1>1, LeavesConcat
  <2>2. /\ k \in Touched(Batch) <=> HasEntry(Batch, k)
        /\ ChromaAfter(Batch)[k] = c
    BY <1>1, ChromaAfterLeaves DEF GapInv
  <2>3. k \notin lost \/ HasEntry(journal, k)
    BY <1>2, <2>1, <2>2 DEF Process, ApplyToChroma
  <2>4. Leaves(Rest, k, c) = rows[k]
    BY <2>1, <2>3 DEF GapInv, EntriesLeadToRows
  <2>5. CASE up
    <3>1. chroma'[k] = c
      BY <2>2, <2>5 DEF Process, ApplyToChroma
    <3> QED  BY <2>4, <3>1
  <2>6. CASE ~up
    <3>1. chroma' = chroma /\ lost' = lost \cup Touched(Batch)
      BY <2>6 DEF Process, ApplyToChroma
    <3>2. CASE HasEntry(Rest, k)
      BY <2>4, <3>2 DEF Leaves
    <3>3. CASE ~HasEntry(Rest, k)
      <4>1. ~HasEntry(Batch, k)
        BY <1>2, <2>2, <3>1, <3>3
      <4>2. c = chroma[k]
        BY <4>1 DEF Leaves
      <4> QED  BY <2>4, <3>1, <4>2
    <3> QED  BY <3>2, <3>3
  <2> QED  BY <2>5, <2>6
<1>3. EntriesLeadToRows'
  BY <1>1, <1>2 DEF EntriesLeadToRows
<1>4. RowIdIsKey'
  BY <1>1 DEF GapInv, RowIdIsKey
<1> QED  BY <1>3, <1>4 DEF GapInv

\* A batch that is applied, in part or in full, and stays.
LEMMA RepeatKeepsGap ==
  ASSUME IntegerKey, TInv, GapInv, NEW t \in Threads,
         ProcessRaises(t) \/ ProcessDies(t)
  PROVE  GapInv'
<1>1. /\ Batch \in Seq(Entry) /\ Rest \in Seq(Entry)
      /\ journal = Batch \o Rest /\ chroma \in [Keys -> Content]
      /\ journal' = journal /\ lost' = lost /\ rows' = rows /\ rowid' = rowid
      /\ pc \in [Threads -> Steps]
  BY JournalIsBatchAndRest
  DEF ProcessRaises, ProcessDies, Reopen, sqlite, TInv, TypeOK
<1>2. chroma' \in {chroma, ChromaDeletesOnly(Batch), ChromaAfter(Batch)}
  BY DEF ProcessRaises, ProcessDies
<1>3. ASSUME NEW k \in Keys, k \notin lost \/ HasEntry(journal, k)
      PROVE  Leaves(journal, k, chroma'[k]) = rows[k]
  <2>1. Leaves(journal, k, chroma[k]) = rows[k]
    BY <1>3 DEF GapInv, EntriesLeadToRows
  <2>2. HasEntry(journal, k) <=> HasEntry(Batch, k) \/ HasEntry(Rest, k)
    BY <1>1, LeavesConcat
  <2>3. k \in Touched(Batch) <=> HasEntry(Batch, k)
    BY <1>1, ChromaAfterLeaves DEF GapInv
  <2>4. CASE HasEntry(journal, k)
    BY <2>1, <2>4 DEF Leaves
  <2>5. CASE ~HasEntry(journal, k)
    <3>1. chroma'[k] = chroma[k]
      BY <1>2, <2>2, <2>3, <2>5 DEF ChromaAfter, ChromaDeletesOnly
    <3> QED  BY <2>1, <3>1
  <2> QED  BY <2>4, <2>5
<1>4. EntriesLeadToRows'
  BY <1>1, <1>3 DEF EntriesLeadToRows
<1>5. RowIdIsKey'
  BY <1>1 DEF GapInv, RowIdIsKey
<1> QED  BY <1>4, <1>5 DEF GapInv

\* A reconcile that deletes the ghosts or adds the missing documents.
LEMMA ReconcileKeepsGap ==
  ASSUME IntegerKey, TInv, GapInv, ReconcileInv, NEW t \in Threads,
         ReconcileGhosts(t) \/ ReconcileMissing(t)
  PROVE  GapInv'
<1>1. /\ UNCHANGED <<rows, rowid, journal>>
      /\ InReconcile(t) /\ pc[t] # "rc_rows"
  BY DEF ReconcileGhosts, ReconcileMissing, sqlite, InReconcile
<1>2. local[t].docs = rows
  BY <1>1 DEF ReconcileInv, ReadCurrent, InReconcile
<1>3. ASSUME NEW k \in Keys
      PROVE  \/ chroma'[k] = rows[k]
             \/ chroma'[k] = chroma[k] /\ (k \in lost' <=> k \in lost)
  <2>1. k \in PK
    BY KeyAssumption DEF Keys
  <2>2. k \notin Present(rows) => rows[k] = NoDoc
    BY <2>1 DEF Present
  <2> QED
    BY <1>2, <2>2 DEF ReconcileGhosts, ReconcileMissing, Ghosts, Missing
<1>4. ASSUME NEW k \in Keys, k \notin lost' \/ HasEntry(journal, k)
      PROVE  Leaves(journal, k, chroma'[k]) = rows[k]
  <2>1. CASE HasEntry(journal, k)
    BY <2>1 DEF GapInv, EntriesLeadToRows, Leaves
  <2>2. CASE ~HasEntry(journal, k)
    BY <1>3, <1>4, <2>2 DEF GapInv, EntriesLeadToRows, Leaves
  <2> QED  BY <2>1, <2>2
<1>5. EntriesLeadToRows'
  BY <1>1, <1>4 DEF EntriesLeadToRows
<1>6. RowIdIsKey'
  BY <1>1 DEF GapInv, RowIdIsKey
<1> QED  BY <1>5, <1>6 DEF GapInv

\* A step that touches neither the rows nor the journal nor Chroma.
LEMMA OthersKeepGap ==
  ASSUME GapInv, UNCHANGED <<rows, rowid, journal, chroma, lost>>
  PROVE  GapInv'
BY DEF GapInv, RowIdIsKey, EntriesLeadToRows

LEMMA GapInductive ==
  ASSUME IntegerKey
  PROVE  TInv /\ ReconcileInv /\ GapInv /\ [Next]_vars => GapInv'
<1> SUFFICES ASSUME TInv, ReconcileInv, GapInv, [Next]_vars PROVE GapInv'
  OBVIOUS
<1>1. CASE Restart
  BY <1>1, OthersKeepGap DEF Restart, Reopen, sqlite
<1>2. ASSUME NEW t \in Threads, ThreadStep(t)
      PROVE  GapInv'
  <2>1. CASE Writes(t)
    BY <2>1, WritesKeepGap
  <2>2. CASE Process(t)
    BY <2>2, ProcessKeepsGap
  <2>3. CASE ProcessRaises(t) \/ ProcessDies(t)
    BY <2>3, RepeatKeepsGap
  <2>4. CASE ReconcileGhosts(t) \/ ReconcileMissing(t)
    BY <2>4, ReconcileKeepsGap
  <2>5. CASE \/ ProcessNothing(t) \/ Recheck(t) \/ Clear(t)
             \/ ReconcileIds(t) \/ ReconcileRows(t) \/ ReconcileRaises(t)
             \/ SyncMirror(t) \/ SyncMirrorFails(t) \/ UnregisterMirror(t)
    <3>1. UNCHANGED <<rows, rowid, journal, chroma, lost>>
      BY <2>5
      DEF ProcessNothing, Recheck, Clear, ReconcileIds, ReconcileRows,
          ReconcileRaises, SyncMirror, SyncMirrorFails, UnregisterMirror,
          sqlite, vector
    <3> QED  BY <3>1, OthersKeepGap
  <2> QED
    BY <1>2, <2>1, <2>2, <2>3, <2>4, <2>5 DEF ThreadStep, Continue
<1>3. CASE UNCHANGED vars
  BY <1>3, OthersKeepGap DEF vars
<1> QED  BY <1>1, <1>2, <1>3 DEF Next

LEMMA GapInitially ==
  ASSUME IntegerKey
  PROVE  Init => GapInv
<1> SUFFICES ASSUME Init PROVE GapInv
  OBVIOUS
<1>1. Keys = PK /\ \A k \in Keys : ~HasEntry(journal, k)
  BY KeyAssumption DEF Init, Keys, HasEntry
<1>2. EntriesLeadToRows
  BY <1>1 DEF Init, NoRows, EntriesLeadToRows, Leaves
<1> QED
  BY <1>2 DEF Init, NoRows, GapInv, RowIdIsKey

LEMMA GapIsClosed ==
  ASSUME IntegerKey, TInv, GapInv
  PROVE  JournalClosesGap
<1> SUFFICES ASSUME NEW k \in Keys \ lost
             PROVE  ChromaAfter(journal)[k] = RowDoc(k)
  BY DEF JournalClosesGap
<1>1. ChromaAfter(journal)[k] = Leaves(journal, k, chroma[k])
  BY ChromaAfterLeaves DEF TInv, TypeOK, GapInv
<1>2. k \in PK
  BY KeyAssumption DEF Keys
<1> QED  BY <1>1, <1>2 DEF GapInv, EntriesLeadToRows, RowDoc

\* The three parts are kept together.
LEMMA GapAlways ==
  ASSUME IntegerKey, Undisturbed
  PROVE  Spec => [](TInv /\ ReconcileInv /\ GapInv)
BY TypesInitially, TypesInductive, ReconcileInitially, ReconcileInductive,
   GapInitially, GapInductive, PTL DEF Spec

\* The pending entries are exactly what Chroma lacks: of every key not given
\* up in an outage, for any number of threads that write, process in batches
\* of any size, fail or die at any point of it and begin again, over a table
\* with an INTEGER primary key; or for one thread that also reconciles it
\* (crud.py, journal.py, maintenance.py).
THEOREM GapClosed ==
  ASSUME IntegerKey, Undisturbed
  PROVE  Spec => []JournalClosesGap
<1>1. TInv /\ GapInv => JournalClosesGap
  BY GapIsClosed
<1> QED  BY <1>1, GapAlways, PTL

\* Where the journal is drained, Chroma is current.
LEMMA DrainedIsCurrent ==
  ASSUME JournalClosesGap, journal = <<>>, NEW k \in Keys \ lost
  PROVE  chroma[k] = RowDoc(k)
<1>1. Touched(journal) = {}
  BY DEF Touched
<1>2. ChromaAfter(journal)[k] = chroma[k]
  BY <1>1 DEF ChromaAfter
<1> QED  BY <1>2 DEF JournalClosesGap

\* insert_batch(sync=True) returns with Chroma current, for any number of
\* threads that write and process beside it and batches of any size, over a
\* table with an INTEGER primary key that no other thread is there to
\* reconcile (crud.py): it comes back only from a journal found empty.
THEOREM BatchAlwaysReturnsCurrent ==
  ASSUME IntegerKey, Undisturbed
  PROVE  Spec => BatchReturnsCurrent
<1> DEFINE Current(t) ==
      Continue(t) /\ (pc[t] = "drain" \/ local[t].drain) /\ pc'[t] = "idle"
        => \A k \in Keys \ lost : chroma[k] = RowDoc(k)
<1>1. ASSUME TInv, ReconcileInv, GapInv, NEW t \in Threads PROVE Current(t)
  <2> SUFFICES ASSUME Continue(t), pc[t] = "drain" \/ local[t].drain,
                      pc'[t] = "idle"
               PROVE  \A k \in Keys \ lost : chroma[k] = RowDoc(k)
    OBVIOUS
  <2>1. pc \in [Threads -> Steps]
    BY <1>1 DEF TInv, TypeOK
  <2>2. ~InReconcile(t)
    BY <1>1 DEF ReconcileInv, ReadCurrent, InReconcile
  <2>3. ~Recheck(t) /\ ~Clear(t)
    BY <2>1 DEF Recheck, Clear, Return, Goto
  <2>4. journal = <<>>
    BY <2>2, <2>3
    DEF Continue, ProcessNothing, ReconcileRows, ReconcileGhosts,
        ReconcileMissing, InReconcile
  <2> QED  BY <1>1, <2>4, GapIsClosed, DrainedIsCurrent
<1>2. TInv /\ ReconcileInv /\ GapInv => [\A t \in Threads : Current(t)]_vars
  BY <1>1
<1> QED
  BY <1>2, GapAlways, PTL DEF Spec, BatchReturnsCurrent

(***************************************************************************)
(* What the documentation promises of a drained journal, refuted for TEXT  *)
(* keys and after an outage, follows where there is neither.               *)
(***************************************************************************)
NothingGivenUp == up /\ lost = {}

LEMMA NothingGivenUpInductive ==
  ASSUME ChromaStarts = {TRUE}
  PROVE  NothingGivenUp /\ [Next]_vars => NothingGivenUp'
<1> SUFFICES ASSUME NothingGivenUp, [Next]_vars PROVE NothingGivenUp'
  OBVIOUS
<1>1. Reopen => NothingGivenUp'
  BY DEF Reopen, NothingGivenUp
<1>2. ASSUME NEW t \in Threads, Writes(t)
      PROVE  NothingGivenUp'
  <2>1. UNCHANGED vector
    BY <1>2
    DEF Writes, Insert, InsertBatch, Update, ChangeKey, Delete, Commit
  <2> QED  BY <2>1 DEF vector, NothingGivenUp
<1>3. ASSUME NEW t \in Threads, ThreadStep(t), ~Writes(t)
      PROVE  NothingGivenUp'
  <2>1. CASE ProcessDies(t)
    BY <1>1, <2>1 DEF ProcessDies
  <2>2. CASE Process(t)
    BY <2>2 DEF Process, ApplyToChroma, NothingGivenUp
  <2>3. CASE ~ProcessDies(t) /\ ~Process(t)
    <3>1. up' = up /\ lost' \subseteq lost
      BY <1>3, <2>3
      DEF ThreadStep, ProcessRaises, Continue, ProcessNothing, Recheck, Clear,
          ReconcileIds, ReconcileRows, ReconcileGhosts, ReconcileMissing,
          ReconcileRaises, SyncMirror, SyncMirrorFails, UnregisterMirror, vector
    <3> QED  BY <3>1 DEF NothingGivenUp
  <2> QED  BY <2>1, <2>2, <2>3
<1>4. CASE UNCHANGED vars
  BY <1>4 DEF vars, NothingGivenUp
<1> QED  BY <1>1, <1>2, <1>3, <1>4 DEF Next, Restart

\* With INTEGER keys and a Chroma client in every session, a drained journal
\* means that Chroma holds the documents of the rows and nothing else
\* (journal.py; "Now ChromaDB is consistent with SQLite" of docs/spec.md).
THEOREM DrainedInSync ==
  ASSUME IntegerKey, Undisturbed, ChromaStarts = {TRUE}
  PROVE  Spec => []DrainedMeansInSync
<1>1. Init => NothingGivenUp
  BY DEF Init, NothingGivenUp
<1>2. JournalClosesGap /\ NothingGivenUp => DrainedMeansInSync
  <2> SUFFICES ASSUME JournalClosesGap, lost = {}, journal = <<>>, NEW k \in Keys
               PROVE  chroma[k] = RowDoc(k)
    BY DEF DrainedMeansInSync, NothingGivenUp
  <2> QED  BY DrainedIsCurrent
<1>3. Spec => []NothingGivenUp
  BY <1>1, NothingGivenUpInductive, PTL DEF Spec
<1>4. Spec => []JournalClosesGap
  BY GapClosed
<1> QED  BY <1>2, <1>3, <1>4, PTL

-----------------------------------------------------------------------------
(***************************************************************************)
(* The same of the mirror, for keys of either kind and whoever reconciles. *)
(* A row entry only says which row to copy, and the row may be copied      *)
(* before the entry is there, so what a cut of the journal needs is an     *)
(* order: as long as the row is there, a delete of its key in the journal  *)
(* has a refresh of the row behind it.                                     *)
(***************************************************************************)
Drops(e, p)     == e.op = "row_delete" /\ e.at = p
Refreshes(e, r) == e.op \in {"row_add", "row_update"} /\ e.at = r

HasDrop(s, p)    == \E i \in DOMAIN s : Drops(s[i], p)
HasRefresh(s, r) == \E i \in DOMAIN s : Refreshes(s[i], r)

DropsFollowed(s, p, r) ==
  \A i \in DOMAIN s :
    Drops(s[i], p) => \E j \in i + 1 .. Len(s) : Refreshes(s[j], r)

PresentRowsCopied ==
  \A p \in Present(rows) :
    /\ DropsFollowed(journal, p, rowid[p])
    /\ mirrored /\ p \notin lostMirror
         => HasRefresh(journal, rowid[p]) \/ mirror[p] = rows[p]

AbsentRowsDropped ==
  \A p \in PK \ Present(rows) :
    mirrored /\ p \notin lostMirror
      => HasDrop(journal, p) \/ mirror[p] = NoDoc

MirrorInv == PresentRowsCopied /\ AbsentRowsDropped

\* Two sequences, one after the other.
LEMMA RowEntriesConcat ==
  ASSUME NEW s \in Seq(Entry), NEW u \in Seq(Entry), NEW p, NEW r
  PROVE  /\ HasDrop(s \o u, p) <=> HasDrop(s, p) \/ HasDrop(u, p)
         /\ HasRefresh(s \o u, r) <=> HasRefresh(s, r) \/ HasRefresh(u, r)
         /\ DropsFollowed(s \o u, p, r) => DropsFollowed(u, p, r)
         /\ /\ DropsFollowed(u, p, r)
            /\ DropsFollowed(s, p, r) \/ HasRefresh(u, r)
            => DropsFollowed(s \o u, p, r)
<1>1. /\ DOMAIN s = 1 .. Len(s) /\ Len(s) \in Nat
      /\ DOMAIN u = 1 .. Len(u) /\ Len(u) \in Nat
      /\ DOMAIN (s \o u) = 1 .. Len(s) + Len(u)
      /\ Len(s \o u) = Len(s) + Len(u)
  BY LenProperties, ConcatProperties
<1>2. \A i \in 1 .. Len(s) : i \in DOMAIN (s \o u) /\ (s \o u)[i] = s[i]
  BY <1>1, ConcatProperties
<1>3. \A i \in 1 .. Len(u) : /\ Len(s) + i \in DOMAIN (s \o u)
                             /\ (s \o u)[Len(s) + i] = u[i]
  BY <1>1, ConcatProperties
<1>4. \A i \in DOMAIN (s \o u) :
        i \notin 1 .. Len(s) =>
          i - Len(s) \in 1 .. Len(u) /\ i = Len(s) + (i - Len(s))
  BY <1>1
<1>5. HasDrop(s \o u, p) <=> HasDrop(s, p) \/ HasDrop(u, p)
  BY <1>1, <1>2, <1>3, <1>4 DEF HasDrop
<1>6. HasRefresh(s \o u, r) <=> HasRefresh(s, r) \/ HasRefresh(u, r)
  BY <1>1, <1>2, <1>3, <1>4 DEF HasRefresh
<1>7. ASSUME DropsFollowed(s \o u, p, r) PROVE DropsFollowed(u, p, r)
  <2> SUFFICES ASSUME NEW i \in DOMAIN u, Drops(u[i], p)
               PROVE  \E j \in i + 1 .. Len(u) : Refreshes(u[j], r)
    BY DEF DropsFollowed
  <2>1. PICK j \in Len(s) + i + 1 .. Len(s \o u) : Refreshes((s \o u)[j], r)
    BY <1>1, <1>3, <1>7 DEF DropsFollowed
  <2>2. j - Len(s) \in i + 1 .. Len(u) /\ j - Len(s) \in 1 .. Len(u)
        /\ j = Len(s) + (j - Len(s))
    BY <1>1
  <2> QED  BY <1>3, <2>1, <2>2
<1>8. ASSUME DropsFollowed(u, p, r), DropsFollowed(s, p, r) \/ HasRefresh(u, r)
      PROVE  DropsFollowed(s \o u, p, r)
  <2> SUFFICES ASSUME NEW i \in DOMAIN (s \o u), Drops((s \o u)[i], p)
               PROVE  \E j \in i + 1 .. Len(s \o u) : Refreshes((s \o u)[j], r)
    BY DEF DropsFollowed
  <2>1. CASE i \in 1 .. Len(s) /\ DropsFollowed(s, p, r)
    <3>1. PICK j \in i + 1 .. Len(s) : Refreshes(s[j], r)
      BY <1>1, <1>2, <2>1 DEF DropsFollowed
    <3>2. j \in 1 .. Len(s) /\ j \in i + 1 .. Len(s \o u)
      BY <1>1, <2>1
    <3> QED  BY <1>2, <3>1, <3>2
  <2>2. CASE i \in 1 .. Len(s) /\ HasRefresh(u, r)
    <3>1. PICK j \in 1 .. Len(u) : Refreshes(u[j], r)
      BY <1>1, <2>2 DEF HasRefresh
    <3>2. Len(s) + j \in i + 1 .. Len(s \o u)
      BY <1>1, <2>2
    <3> QED  BY <1>3, <3>1, <3>2
  <2>3. CASE i \notin 1 .. Len(s)
    <3> DEFINE n == i - Len(s)
    <3>1. n \in 1 .. Len(u) /\ i = Len(s) + n
      BY <1>4, <2>3
    <3> HIDE DEF n
    <3>2. PICK j \in n + 1 .. Len(u) : Refreshes(u[j], r)
      BY <1>1, <1>3, <1>8, <3>1 DEF DropsFollowed
    <3>3. j \in 1 .. Len(u) /\ Len(s) + j \in i + 1 .. Len(s \o u)
      BY <1>1, <3>1
    <3> QED  BY <1>3, <3>2, <3>3
  <2> QED  BY <1>8, <2>1, <2>2, <2>3
<1> QED  BY <1>5, <1>6, <1>7, <1>8

\* A delete that is followed has a refresh behind it.
LEMMA DropBringsRefresh ==
  ASSUME NEW s \in Seq(Entry), NEW p, NEW r,
         DropsFollowed(s, p, r), HasDrop(s, p)
  PROVE  HasRefresh(s, r)
<1>1. DOMAIN s = 1 .. Len(s) /\ Len(s) \in Nat
  BY LenProperties
<1>2. PICK i \in DOMAIN s : Drops(s[i], p)
  BY DEF HasDrop
<1>3. PICK j \in i + 1 .. Len(s) : Refreshes(s[j], r)
  BY <1>2 DEF DropsFollowed
<1>4. j \in DOMAIN s
  BY <1>1
<1> QED  BY <1>3, <1>4 DEF HasRefresh

LEMMA NoDropsToFollow ==
  ASSUME NEW s, NEW p, NEW r, ~HasDrop(s, p)
  PROVE  DropsFollowed(s, p, r)
BY DEF HasDrop, DropsFollowed

\* The row entries of each write.
LEMMA RowEntriesOfWrites ==
  ASSUME NEW r \in RowIds, NEW q \in PK, NEW d \in Doc, NEW p
  PROVE  /\ ~HasDrop(AddEntries(r, d), p) /\ HasRefresh(AddEntries(r, d), r)
         /\ ~HasDrop(UpdateEntries(r, d), p)
         /\ HasRefresh(UpdateEntries(r, d), r)
         /\ HasDrop(DeleteEntries(q), p) <=> p = q
         /\ HasDrop(MoveEntries(q, r, d), p) <=> p = q
         /\ HasRefresh(MoveEntries(q, r, d), r)
<1>1. /\ 1 \in 1 .. 2 /\ 2 \in 1 .. 2 /\ \A i \in 1 .. 2 : i = 1 \/ i = 2
      /\ 3 \in 1 .. 4 /\ 4 \in 1 .. 4
      /\ \A i \in 1 .. 4 : i = 1 \/ i = 2 \/ i = 3 \/ i = 4
  OBVIOUS
<1>2. /\ ~HasDrop(AddEntries(r, d), p) /\ HasRefresh(AddEntries(r, d), r)
  <2> DEFINE s == AddEntries(r, d)
  <2>1. /\ DOMAIN s = 1 .. 2 /\ s[1].op = "add"
        /\ s[2].op = "row_add" /\ s[2].at = r
    BY DEF AddEntries, VectorEntry, RowEntry
  <2> HIDE DEF s
  <2>2. ~HasDrop(s, p) /\ HasRefresh(s, r)
    BY <1>1, <2>1 DEF HasDrop, HasRefresh, Drops, Refreshes
  <2> QED  BY <2>2 DEF s
<1>3. ~HasDrop(UpdateEntries(r, d), p) /\ HasRefresh(UpdateEntries(r, d), r)
  <2> DEFINE s == UpdateEntries(r, d)
  <2>1. /\ DOMAIN s = 1 .. 2 /\ s[1].op = "update"
        /\ s[2].op = "row_update" /\ s[2].at = r
    BY DEF UpdateEntries, VectorEntry, RowEntry
  <2> HIDE DEF s
  <2>2. ~HasDrop(s, p) /\ HasRefresh(s, r)
    BY <1>1, <2>1 DEF HasDrop, HasRefresh, Drops, Refreshes
  <2> QED  BY <2>2 DEF s
<1>4. HasDrop(DeleteEntries(q), p) <=> p = q
  <2> DEFINE s == DeleteEntries(q)
  <2>1. /\ DOMAIN s = 1 .. 2 /\ s[1].op = "delete"
        /\ s[2].op = "row_delete" /\ s[2].at = q
    BY DEF DeleteEntries, VectorEntry, RowEntry
  <2> HIDE DEF s
  <2>2. HasDrop(s, p) <=> p = q
    BY <1>1, <2>1 DEF HasDrop, Drops
  <2> QED  BY <2>2 DEF s
<1>5. /\ HasDrop(MoveEntries(q, r, d), p) <=> p = q
      /\ HasRefresh(MoveEntries(q, r, d), r)
  <2> DEFINE s == MoveEntries(q, r, d)
  <2>1. /\ DOMAIN s = 1 .. 4 /\ s[1].op = "delete" /\ s[2].op = "add"
        /\ s[3].op = "row_delete" /\ s[3].at = q
        /\ s[4].op = "row_add" /\ s[4].at = r
    BY DEF MoveEntries, VectorEntry, RowEntry
  <2> HIDE DEF s
  <2>2. (HasDrop(s, p) <=> p = q) /\ HasRefresh(s, r)
    BY <1>1, <2>1 DEF HasDrop, HasRefresh, Drops, Refreshes
  <2> QED  BY <2>2 DEF s
<1> QED  BY <1>2, <1>3, <1>4, <1>5

\* What a write tells the mirror of each row, there or gone.
TellsMirror(es) ==
  \A p \in PK :
    IF rows'[p] # NoDoc
    THEN /\ DropsFollowed(es, p, rowid'[p])
         /\ \/ HasRefresh(es, rowid'[p])
            \/ rows'[p] = rows[p] /\ rowid'[p] = rowid[p] /\ ~HasDrop(es, p)
    ELSE HasDrop(es, p) \/ rows[p] = NoDoc

TellingCommit(t) ==
  \E es \in Seq(Entry), after \in {"idle", "process", "drain"} :
    Commit(t, es, after) /\ TellsMirror(es)

LEMMA WritesTellMirror ==
  ASSUME TInv, NEW t \in Threads, Writes(t)
  PROVE  TellingCommit(t)
<1>1. /\ rows \in [PK -> Content] /\ rowid \in [PK -> RowIds \cup {0}]
      /\ \A p \in PK : rows[p] # NoDoc => rowid[p] \in RowIds
      /\ \A p \in PK : rows[p] # NoDoc => rows[p] \in Doc
      /\ \A d \in Doc : d # NoDoc
  BY NoDocAssumption DEF TInv, TypeOK, RowsHaveIds, Present, Content
<1>2. ASSUME NEW p \in PK, NEW d \in Doc, NEW after \in {"idle", "process"},
             Insert(t, p, d, after)
      PROVE  TellingCommit(t)
  <2>1. PICK r \in RowIds : /\ rowid' = [rowid EXCEPT ![p] = r]
                            /\ Commit(t, AddEntries(r, d), after)
    BY <1>2 DEF Insert
  <2>2. rows' = [rows EXCEPT ![p] = d]
    BY <1>2 DEF Insert
  <2>3. TellsMirror(AddEntries(r, d))
    BY <1>1, <2>1, <2>2, RowEntriesOfWrites, NoDropsToFollow DEF TellsMirror
  <2>4. AddEntries(r, d) \in Seq(Entry)
    BY EntryTypes
  <2> QED  BY <2>1, <2>3, <2>4 DEF TellingCommit
<1>3. ASSUME NEW p \in PK, NEW q \in PK, NEW d \in Doc,
             NEW after \in {"idle", "drain"}, InsertBatch(t, p, q, d, after)
      PROVE  TellingCommit(t)
  <2>1. PICK r, s \in RowIds :
          /\ rowid' = [rowid EXCEPT ![p] = r, ![q] = s]
          /\ Commit(t, AddEntries(r, d) \o AddEntries(s, d), after)
    BY <1>3 DEF InsertBatch
  <2>2. p # q /\ rows' = [rows EXCEPT ![p] = d, ![q] = d]
    BY <1>3 DEF InsertBatch
  <2> DEFINE es == AddEntries(r, d) \o AddEntries(s, d)
  <2>3. AddEntries(r, d) \in Seq(Entry) /\ AddEntries(s, d) \in Seq(Entry)
    BY <2>2, EntryTypes
  <2>4. /\ HasRefresh(AddEntries(r, d), r) /\ HasRefresh(AddEntries(s, d), s)
        /\ \A x : ~HasDrop(AddEntries(r, d), x) /\ ~HasDrop(AddEntries(s, d), x)
    BY <1>3, RowEntriesOfWrites
  <2>5. es \in Seq(Entry) /\ HasRefresh(es, r) /\ HasRefresh(es, s)
    BY <2>3, <2>4, RowEntriesConcat, ConcatProperties
  <2>6. \A x : ~HasDrop(es, x)
    BY <2>3, <2>4, RowEntriesConcat
  <2> HIDE DEF es
  <2>7. TellsMirror(es)
    BY <1>1, <2>1, <2>2, <2>5, <2>6, NoDropsToFollow DEF TellsMirror
  <2> QED  BY <2>1, <2>5, <2>7 DEF TellingCommit, es
<1>4. ASSUME NEW p \in PK, NEW d \in Doc, NEW after \in {"idle", "process"},
             Update(t, p, d, after)
      PROVE  TellingCommit(t)
  <2>1. /\ rowid[p] \in RowIds /\ rows' = [rows EXCEPT ![p] = d]
        /\ rowid' = rowid /\ Commit(t, UpdateEntries(rowid[p], d), after)
    BY <1>1, <1>4 DEF Update
  <2>2. TellsMirror(UpdateEntries(rowid[p], d))
    BY <1>1, <2>1, RowEntriesOfWrites, NoDropsToFollow DEF TellsMirror
  <2>3. UpdateEntries(rowid[p], d) \in Seq(Entry)
    BY <2>1, EntryTypes
  <2> QED  BY <2>1, <2>2, <2>3 DEF TellingCommit
<1>5. ASSUME NEW p \in PK, NEW q \in PK, NEW d \in Doc,
             NEW after \in {"idle", "process"}, ChangeKey(t, p, q, d, after)
      PROVE  TellingCommit(t)
  <2> DEFINE r == IF IntegerKey THEN q ELSE rowid[p]
  <2>1. /\ p # q /\ rows[p] # NoDoc
        /\ rows' = [rows EXCEPT ![p] = NoDoc, ![q] = d]
        /\ rowid' = [rowid EXCEPT ![p] = 0, ![q] = r]
        /\ Commit(t, MoveEntries(p, r, d), after)
    BY <1>5 DEF ChangeKey
  <2>2. r \in RowIds
    BY <1>1, <2>1, KeyAssumption
  <2> HIDE DEF r
  <2>3. TellsMirror(MoveEntries(p, r, d))
    BY <1>1, <2>1, <2>2, RowEntriesOfWrites, NoDropsToFollow DEF TellsMirror
  <2>4. MoveEntries(p, r, d) \in Seq(Entry)
    BY <2>2, EntryTypes
  <2> QED  BY <2>1, <2>3, <2>4 DEF TellingCommit
<1>6. ASSUME NEW p \in PK, NEW after \in {"idle", "process"},
             Delete(t, p, after)
      PROVE  TellingCommit(t)
  <2>1. /\ rows[p] \in Doc /\ rowid[p] \in RowIds
        /\ rows' = [rows EXCEPT ![p] = NoDoc]
        /\ rowid' = [rowid EXCEPT ![p] = 0]
        /\ Commit(t, DeleteEntries(p), after)
    BY <1>1, <1>6 DEF Delete
  <2>2. TellsMirror(DeleteEntries(p))
    BY <1>1, <2>1, RowEntriesOfWrites, NoDropsToFollow DEF TellsMirror
  <2>3. DeleteEntries(p) \in Seq(Entry)
    BY <2>1, EntryTypes
  <2> QED  BY <2>1, <2>2, <2>3 DEF TellingCommit
<1> QED  BY <1>2, <1>3, <1>4, <1>5, <1>6 DEF Writes

LEMMA WritesKeepMirror ==
  ASSUME TInv, MirrorInv, NEW t \in Threads, Writes(t)
  PROVE  MirrorInv'
<1>1. PICK es \in Seq(Entry), after \in {"idle", "process", "drain"} :
        Commit(t, es, after) /\ TellsMirror(es)
  BY WritesTellMirror DEF TellingCommit
<1>2. /\ journal \in Seq(Entry) /\ journal' = journal \o es
      /\ mirrored' = mirrored /\ mirror' = mirror /\ lostMirror' = lostMirror
  BY <1>1 DEF Commit, duck, TInv, TypeOK
<1>3. ASSUME NEW p \in PK, rows'[p] # NoDoc
      PROVE  /\ DropsFollowed(journal', p, rowid'[p])
             /\ mirrored /\ p \notin lostMirror
                  => HasRefresh(journal', rowid'[p]) \/ mirror[p] = rows'[p]
  <2> DEFINE r == rowid'[p]
  <2>1. /\ DropsFollowed(es, p, r)
        /\ \/ HasRefresh(es, r)
           \/ rows'[p] = rows[p] /\ r = rowid[p]
    BY <1>1, <1>3 DEF TellsMirror
  <2>2. /\ HasRefresh(journal \o es, r)
             <=> HasRefresh(journal, r) \/ HasRefresh(es, r)
        /\ DropsFollowed(journal, p, r) \/ HasRefresh(es, r)
             => DropsFollowed(journal \o es, p, r)
    BY <1>2, <2>1, RowEntriesConcat
  <2>3. CASE HasRefresh(es, r)
    BY <1>2, <2>2, <2>3
  <2>4. CASE rows'[p] = rows[p] /\ r = rowid[p]
    BY <1>2, <1>3, <2>2, <2>4 DEF MirrorInv, PresentRowsCopied, Present
  <2> QED  BY <2>1, <2>3, <2>4
<1>4. ASSUME NEW p \in PK, rows'[p] = NoDoc, mirrored, p \notin lostMirror
      PROVE  HasDrop(journal', p) \/ mirror[p] = NoDoc
  <2>1. HasDrop(es, p) \/ rows[p] = NoDoc
    BY <1>1, <1>4 DEF TellsMirror
  <2>2. HasDrop(journal \o es, p) <=> HasDrop(journal, p) \/ HasDrop(es, p)
    BY <1>2, RowEntriesConcat
  <2> QED
    BY <1>2, <1>4, <2>1, <2>2 DEF MirrorInv, AbsentRowsDropped, Present
<1> QED
  BY <1>2, <1>3, <1>4 DEF MirrorInv, PresentRowsCopied, AbsentRowsDropped, Present

\* A batch that is removed, whatever DuckDB did with it.
LEMMA ProcessKeepsMirror ==
  ASSUME TInv, MirrorInv, NEW t \in Threads, Process(t)
  PROVE  MirrorInv'
<1>1. /\ Batch \in Seq(Entry) /\ Rest \in Seq(Entry) /\ journal' = Rest
      /\ journal = Batch \o Rest
      /\ rows' = rows /\ rowid' = rowid /\ mirrored' = mirrored
      /\ mirror \in [PK -> Content]
  BY JournalIsBatchAndRest
  DEF Process, ApplyToMirror, sqlite, TInv, TypeOK
<1>2. ASSUME mirrored
      PROVE  \/ /\ mirror' = MirrorAfter(Batch)
                /\ lostMirror' = lostMirror \ RowsOf(Batch)
             \/ /\ mirror' \in {mirror, MirrorHalfway(Batch)}
                /\ lostMirror' = lostMirror \cup RowsOf(Batch)
  BY <1>2 DEF Process, ApplyToMirror
<1>3. ASSUME NEW p \in Present(rows)
      PROVE  /\ DropsFollowed(Rest, p, rowid[p])
             /\ mirrored /\ p \notin lostMirror'
                  => HasRefresh(Rest, rowid[p]) \/ mirror'[p] = rows[p]
  <2> DEFINE r == rowid[p]
  <2>1. /\ DropsFollowed(journal, p, r)
        /\ mirrored /\ p \notin lostMirror
             => HasRefresh(journal, r) \/ mirror[p] = rows[p]
    BY DEF MirrorInv, PresentRowsCopied
  <2>2. /\ DropsFollowed(Rest, p, r)
        /\ HasDrop(journal, p) <=> HasDrop(Batch, p) \/ HasDrop(Rest, p)
        /\ HasRefresh(journal, r) <=> HasRefresh(Batch, r) \/ HasRefresh(Rest, r)
    BY <1>1, <2>1, RowEntriesConcat
  <2>3. HasDrop(Batch, p) => HasRefresh(Batch, r) \/ HasRefresh(Rest, r)
    BY <1>1, <2>1, <2>2, DropBringsRefresh DEF TInv, TypeOK
  <2>4. /\ p \in PK
        /\ p \in Refreshed(Batch) <=> HasRefresh(Batch, r)
        /\ p \in Dropped(Batch) <=> HasDrop(Batch, p)
    BY DEF Refreshed, Dropped, HasRefresh, HasDrop, Refreshes, Drops, Present
  <2>5. ASSUME mirrored, p \notin lostMirror', ~HasRefresh(Rest, r)
        PROVE  mirror'[p] = rows[p]
    <3>1. CASE /\ mirror' = MirrorAfter(Batch)
               /\ lostMirror' = lostMirror \ RowsOf(Batch)
      BY <2>1, <2>2, <2>3, <2>4, <2>5, <3>1 DEF MirrorAfter, RowsOf
    <3>2. CASE /\ mirror' \in {mirror, MirrorHalfway(Batch)}
               /\ lostMirror' = lostMirror \cup RowsOf(Batch)
      BY <2>1, <2>2, <2>3, <2>4, <2>5, <3>2 DEF MirrorHalfway, RowsOf
    <3> QED  BY <1>2, <2>5, <3>1, <3>2
  <2> QED  BY <2>2, <2>5
<1>4. ASSUME NEW p \in PK \ Present(rows), mirrored, p \notin lostMirror'
      PROVE  HasDrop(Rest, p) \/ mirror'[p] = NoDoc
  <2>1. HasDrop(journal, p) <=> HasDrop(Batch, p) \/ HasDrop(Rest, p)
    BY <1>1, RowEntriesConcat
  <2>2. p \notin Refreshed(Batch) /\ (p \in Dropped(Batch) <=> HasDrop(Batch, p))
    BY DEF Refreshed, Dropped, HasDrop, Drops
  <2>3. p \notin lostMirror => HasDrop(journal, p) \/ mirror[p] = NoDoc
    BY <1>4 DEF MirrorInv, AbsentRowsDropped
  <2>4. CASE /\ mirror' = MirrorAfter(Batch)
             /\ lostMirror' = lostMirror \ RowsOf(Batch)
    BY <1>4, <2>1, <2>2, <2>3, <2>4 DEF MirrorAfter, RowsOf
  <2>5. CASE /\ mirror' \in {mirror, MirrorHalfway(Batch)}
             /\ lostMirror' = lostMirror \cup RowsOf(Batch)
    BY <1>4, <2>1, <2>2, <2>3, <2>5 DEF MirrorHalfway, RowsOf
  <2> QED  BY <1>2, <1>4, <2>4, <2>5
<1> QED
  BY <1>1, <1>3, <1>4 DEF MirrorInv, PresentRowsCopied, AbsentRowsDropped, Present

\* A batch that stays, whatever DuckDB did with it before the process died.
LEMMA DeathKeepsMirror ==
  ASSUME TInv, MirrorInv, NEW t \in Threads, ProcessDies(t)
  PROVE  MirrorInv'
<1>1. /\ Batch \in Seq(Entry) /\ Rest \in Seq(Entry) /\ journal' = journal
      /\ journal = Batch \o Rest /\ journal \in Seq(Entry)
      /\ rows' = rows /\ rowid' = rowid
      /\ mirrored' = mirrored /\ lostMirror' = lostMirror
      /\ mirror' \in {mirror, MirrorHalfway(Batch), MirrorAfter(Batch)}
  BY JournalIsBatchAndRest DEF ProcessDies, Reopen, sqlite, TInv, TypeOK
<1>2. ASSUME NEW p \in Present(rows), mirrored, p \notin lostMirror
      PROVE  HasRefresh(journal, rowid[p]) \/ mirror'[p] = rows[p]
  <2> DEFINE r == rowid[p]
  <2>1. /\ DropsFollowed(journal, p, r)
        /\ HasRefresh(journal, r) \/ mirror[p] = rows[p]
    BY <1>2 DEF MirrorInv, PresentRowsCopied
  <2>2. /\ HasDrop(journal, p) <=> HasDrop(Batch, p) \/ HasDrop(Rest, p)
        /\ HasRefresh(journal, r) <=> HasRefresh(Batch, r) \/ HasRefresh(Rest, r)
    BY <1>1, RowEntriesConcat
  <2>3. HasDrop(Batch, p) => HasRefresh(journal, r)
    BY <1>1, <2>1, <2>2, DropBringsRefresh
  <2>4. /\ p \in PK
        /\ p \in Refreshed(Batch) <=> HasRefresh(Batch, r)
        /\ p \in Dropped(Batch) <=> HasDrop(Batch, p)
    BY DEF Refreshed, Dropped, HasRefresh, HasDrop, Refreshes, Drops, Present
  <2>5. CASE ~HasRefresh(journal, r)
    BY <1>1, <2>1, <2>2, <2>3, <2>4, <2>5 DEF MirrorAfter, MirrorHalfway, RowsOf
  <2> QED  BY <2>5
<1>3. ASSUME NEW p \in PK \ Present(rows), mirrored, p \notin lostMirror
      PROVE  HasDrop(journal, p) \/ mirror'[p] = NoDoc
  <2>1. HasDrop(journal, p) <=> HasDrop(Batch, p) \/ HasDrop(Rest, p)
    BY <1>1, RowEntriesConcat
  <2>2. p \notin Refreshed(Batch) /\ (p \in Dropped(Batch) <=> HasDrop(Batch, p))
    BY DEF Refreshed, Dropped, HasDrop, Drops
  <2>3. HasDrop(journal, p) \/ mirror[p] = NoDoc
    BY <1>3 DEF MirrorInv, AbsentRowsDropped
  <2> QED  BY <1>1, <2>1, <2>2, <2>3 DEF MirrorAfter, MirrorHalfway, RowsOf
<1> QED
  BY <1>1, <1>2, <1>3 DEF MirrorInv, PresentRowsCopied, AbsentRowsDropped, Present

\* A mirror that is copied in full, emptied, given up, or left alone.
LEMMA OthersKeepMirror ==
  ASSUME TInv, MirrorInv, UNCHANGED <<rows, rowid, journal>>,
         \/ UNCHANGED <<mirrored, mirror, lostMirror>>
         \/ mirror' = rows
         \/ lostMirror' = PK
         \/ ~mirrored'
  PROVE  MirrorInv'
<1>1. PresentRowsCopied'
  BY DEF MirrorInv, PresentRowsCopied, Present
<1>2. AbsentRowsDropped'
  BY DEF MirrorInv, AbsentRowsDropped, Present
<1> QED  BY <1>1, <1>2 DEF MirrorInv

LEMMA MirrorInductive == TInv /\ MirrorInv /\ [Next]_vars => MirrorInv'
<1> SUFFICES ASSUME TInv, MirrorInv, [Next]_vars PROVE MirrorInv'
  OBVIOUS
<1>1. CASE Restart
  BY <1>1, OthersKeepMirror DEF Restart, Reopen, DropMirror, sqlite
<1>2. ASSUME NEW t \in Threads, ThreadStep(t)
      PROVE  MirrorInv'
  <2>1. CASE Writes(t)
    BY <2>1, WritesKeepMirror
  <2>2. CASE Process(t)
    BY <2>2, ProcessKeepsMirror
  <2>3. CASE ProcessDies(t)
    BY <2>3, DeathKeepsMirror
  <2>4. CASE SyncMirror(t) \/ SyncMirrorFails(t) \/ UnregisterMirror(t)
    BY <2>4, OthersKeepMirror
    DEF SyncMirror, SyncMirrorFails, UnregisterMirror, DropMirror, sqlite
  <2>5. CASE \/ ProcessRaises(t) \/ Continue(t)
             \/ ReconcileIds(t) \/ ReconcileRaises(t)
    <3>1. UNCHANGED <<rows, rowid, journal, mirrored, mirror, lostMirror>>
      BY <2>5
      DEF ProcessRaises, Continue, ProcessNothing, Recheck, Clear, ReconcileIds,
          ReconcileRows, ReconcileGhosts, ReconcileMissing, ReconcileRaises,
          sqlite, duck
    <3> QED  BY <3>1, OthersKeepMirror
  <2> QED  BY <1>2, <2>1, <2>2, <2>3, <2>4, <2>5 DEF ThreadStep
<1>3. CASE UNCHANGED vars
  BY <1>3, OthersKeepMirror DEF vars
<1> QED  BY <1>1, <1>2, <1>3 DEF Next

\* The pending entries are exactly what the mirror lacks, but for rows DuckDB
\* failed to copy: for keys of either kind, any number of threads and batches
\* of any size, whoever reconciles, fails or dies (journal.py, analytics.py).
THEOREM MirrorGapClosed == Spec => []MirrorClosesGap
<1>1. Init => MirrorInv
  BY DEF Init, NoRows, MirrorInv, PresentRowsCopied, AbsentRowsDropped, Present
<1>2. TInv /\ MirrorInv => MirrorClosesGap
  <2> SUFFICES ASSUME TInv, MirrorInv, mirrored, NEW p \in PK \ lostMirror
               PROVE  MirrorAfter(journal)[p] = rows[p]
    BY DEF MirrorClosesGap
  <2>1. CASE p \in Present(rows)
    <3>1. /\ p \in Refreshed(journal) <=> HasRefresh(journal, rowid[p])
          /\ p \in Dropped(journal) <=> HasDrop(journal, p)
      BY <2>1 DEF Refreshed, Dropped, HasRefresh, HasDrop, Refreshes, Drops
    <3>2. /\ HasDrop(journal, p) => HasRefresh(journal, rowid[p])
          /\ HasRefresh(journal, rowid[p]) \/ mirror[p] = rows[p]
      BY <2>1, DropBringsRefresh DEF TInv, TypeOK, MirrorInv, PresentRowsCopied
    <3> QED  BY <3>1, <3>2 DEF MirrorAfter
  <2>2. CASE p \notin Present(rows)
    <3>1. /\ p \notin Refreshed(journal) /\ rows[p] = NoDoc
          /\ p \in Dropped(journal) <=> HasDrop(journal, p)
      BY <2>2 DEF Refreshed, Dropped, HasDrop, Drops, Present
    <3>2. HasDrop(journal, p) \/ mirror[p] = NoDoc
      BY <2>2 DEF MirrorInv, AbsentRowsDropped
    <3> QED  BY <3>1, <3>2 DEF MirrorAfter
  <2> QED  BY <2>1, <2>2
<1>3. Spec => [](TInv /\ MirrorInv)
  BY <1>1, TypesInitially, TypesInductive, MirrorInductive, PTL DEF Spec
<1> QED  BY <1>2, <1>3, PTL
=============================================================================

--------------------------- MODULE VersionedTable ---------------------------
(***************************************************************************)
(* One versioned table: its rows, its history table with the hash chain,   *)
(* its checkpoints and prune anchors (versioning.py), and the writes that  *)
(* record history (crud.py, schema.py).                                    *)
(*                                                                         *)
(* An action is one SQLite transaction: `_connect` holds the instance's    *)
(* RLock from the opening of the connection to the commit, so threads      *)
(* interleave between transactions and nowhere else.  `upsert`, `rollback` *)
(* and `prune` are several transactions; what a thread carries from one to *)
(* the next is in `local`.  The journal rows that the same transactions    *)
(* write are the subject of Journal.                                       *)
(***************************************************************************)
EXTENDS ChangeLog

CONSTANTS
  Threads,    \* the threads that use the instance
  Labels,     \* checkpoint labels
  Keep,       \* the values of keep_checkpoints callers pass to prune
  MaxEvents   \* bound: no write that would record more events than this

ASSUME KeepAssumption == Keep \subseteq BOOLEAN
ASSUME MaxEventsAssumption == MaxEvents \in Nat
ASSUME PKNonempty == PK # {}

VARIABLES
  rows,         \* the table
  versioned,    \* the table is in _versioned_tables
  hist,         \* <table>__history, in _seq order
  cut,          \* the events pruned; hist[i] has _seq = cut + i
  anchors,      \* _chain_anchors: <<anchor_seq, anchor_hash>>
  checkpoints,  \* _version_checkpoints: the seq of a label
  pc, local,    \* per thread: the operation in progress and what it holds
  past,         \* auxiliary: every change recorded, pruned or not
  goal          \* auxiliary: the rows when a label was last set

store == <<rows, versioned, hist, cut, anchors, checkpoints>>
aux   == <<past, goal>>
vars  == <<rows, versioned, hist, cut, anchors, checkpoints, pc, local,
           past, goal>>

NoSeq == -1

(***************************************************************************)
(* The hash chain.  SHA-256 is modelled as ideal: the hash of an event is  *)
(* the list of all changes from the genesis hash to it, so two hashes are  *)
(* equal only when everything before them is.                              *)
(***************************************************************************)
Hash    == Seq(Change)
GENESIS == <<>>
Event   == [what : Change, prev : Hash, hash : Hash]

EventHash(prev, c) == Append(prev, c)

HeadHash == IF hist = <<>> THEN GENESIS ELSE hist[Len(hist)].hash

\* Seeded bugs: no COALESCE; the position the next event will take.
MaxSeqOrNull == IF hist = <<>> THEN NoRow ELSE cut + Len(hist)
MaxSeqNext   == cut + Len(hist) + 1

\* SELECT COALESCE(MAX(_seq), 0): an empty history has no MAX, whatever was
\* pruned from it.
MaxSeq == IF hist = <<>> THEN 0 ELSE cut + Len(hist)

\* Seeded bug: the head is read once and not threaded through the batch.
ChainUnthreaded(prev, cs) ==
  [i \in 1 .. Len(cs) |->
     [what |-> cs[i], prev |-> prev, hash |-> EventHash(prev, cs[i])]]

\* The events of a batch of changes, the head threaded from one to the next.
Chain(prev, cs) ==
  [i \in 1 .. Len(cs) |->
     LET before == prev \o SubSeq(cs, 1, i - 1) IN
     [what |-> cs[i], prev |-> before, hash |-> EventHash(before, cs[i])]]

Record(prev, cs) ==
  /\ Len(past) + Len(cs) <= MaxEvents
  /\ hist' = hist \o Chain(prev, cs)
  /\ past' = past \o cs

\* A write to the table: versioned tables record it, others do not.
Write(table, cs) ==
  /\ rows' = table
  /\ IF versioned THEN Record(HeadHash, cs) ELSE UNCHANGED <<hist, past>>
  /\ UNCHANGED <<versioned, cut, anchors, checkpoints, goal>>

\* Seeded bug: the position is taken for a count of the events that are left.
StateAtIndex(seq) ==
  Replay([i \in 1 .. IF seq < Len(hist) THEN seq ELSE Len(hist)
            |-> hist[i].what])

\* _state_at_raw: the rows at a log position, as far as the history left by
\* prune tells.
StateAt(seq) ==
  LET n == IF seq <= cut THEN 0
           ELSE IF seq - cut < Len(hist) THEN seq - cut ELSE Len(hist)
  IN Replay([i \in 1 .. n |-> hist[i].what])

-----------------------------------------------------------------------------
(***************************************************************************)
(* What a thread holds between transactions.                               *)
(***************************************************************************)
Steps == {"idle", "upsert_insert", "upsert_update",
          "rb_target", "rb_current", "rb_remove", "rb_restore", "prune"}

Locals == [seq : Int, pk : PK, row : Content, target : Table, current : Table]

Blank == [seq |-> 0, pk |-> CHOOSE p \in PK : TRUE, row |-> NoRow,
          target |-> Empty, current |-> Empty]

Init ==
  /\ rows = Empty
  /\ versioned = FALSE
  /\ hist = <<>>
  /\ cut = 0
  /\ anchors = {}
  /\ checkpoints = [l \in Labels |-> NoSeq]
  /\ pc = [t \in Threads |-> "idle"]
  /\ local = [t \in Threads |-> Blank]
  /\ past = <<>>
  /\ goal = [l \in Labels |-> Empty]

Goto(t, step, l) ==
  /\ pc' = [pc EXCEPT ![t] = step]
  /\ local' = [local EXCEPT ![t] = l]

Finish(t) == Goto(t, "idle", Blank)

Idle(t) == pc[t] = "idle" /\ UNCHANGED <<pc, local>>

-----------------------------------------------------------------------------
(***************************************************************************)
(* create_table(versioned=True): the rows already there become inserts, in *)
(* a chain that starts at the genesis hash.                                *)
(***************************************************************************)
EnableVersioning(t) ==
  /\ Idle(t)
  /\ versioned' = TRUE
  /\ \E s \in Ascending(Present(rows)) :
       Record(GENESIS, [i \in DOMAIN s |-> Ins(s[i], rows[s[i]])])
  /\ UNCHANGED <<rows, cut, anchors, checkpoints, goal>>

CreateTable(t) == ~versioned /\ EnableVersioning(t)

(***************************************************************************)
(* Writes of one transaction.                                              *)
(***************************************************************************)
InsertRow(p, v) ==
  rows[p] = NoRow /\ Write([rows EXCEPT ![p] = v], <<Ins(p, v)>>)

Insert(t, p, v) == Idle(t) /\ InsertRow(p, v)

\* A batch is all or nothing: one duplicate key fails the transaction.
InsertBatch(t, p, q, v) ==
  /\ Idle(t)
  /\ p # q /\ rows[p] = NoRow /\ rows[q] = NoRow
  /\ Write([rows EXCEPT ![p] = v, ![q] = v], <<Ins(p, v), Ins(q, v)>>)

UpdateRow(p, v) ==
  rows[p] # NoRow /\ Write([rows EXCEPT ![p] = v], <<Upd(p, v)>>)

Update(t, p, v) == Idle(t) /\ UpdateRow(p, v)

\* Seeded bugs: no tombstone for the old key; no event for the new one; the
\* two events in the other order.
MoveUntombed(p, q, v)  == <<Upd(q, v)>>
MoveUnrecorded(p, q, v) == <<Del(p, v)>>
MoveReversed(p, q, v)  == <<Upd(q, v), Del(p, v)>>

\* An update that changes the primary key buries the old key under the new
\* content and records the new key as an update.
Move(p, q, v) == <<Del(p, v), Upd(q, v)>>

ChangeKey(t, p, q, v) ==
  /\ Idle(t)
  /\ p # q /\ rows[p] # NoRow /\ rows[q] = NoRow
  /\ Write([rows EXCEPT ![p] = NoRow, ![q] = v], Move(p, q, v))

Delete(t, p) ==
  /\ Idle(t)
  /\ rows[p] # NoRow
  /\ Write([rows EXCEPT ![p] = NoRow], <<Del(p, rows[p])>>)

(***************************************************************************)
(* upsert looks the key up in one transaction and writes in another.       *)
(***************************************************************************)
UpsertLook(t, p, v) ==
  /\ pc[t] = "idle"
  /\ Goto(t, IF rows[p] = NoRow THEN "upsert_insert" ELSE "upsert_update",
          [Blank EXCEPT !.pk = p, !.row = v])
  /\ UNCHANGED <<store, aux>>

UpsertWrite(t) ==
  LET p == local[t].pk
      v == local[t].row
  IN /\ \/ pc[t] = "upsert_insert" /\ InsertRow(p, v)
        \/ pc[t] = "upsert_update" /\ UpdateRow(p, v)
     /\ Finish(t)

\* The row came or went in between: the insert raises an integrity error,
\* the update returns False, and nothing is written.
UpsertMiss(t) ==
  /\ \/ pc[t] = "upsert_insert" /\ rows[local[t].pk] # NoRow
     \/ pc[t] = "upsert_update" /\ rows[local[t].pk] = NoRow
  /\ Finish(t)
  /\ UNCHANGED <<store, aux>>

-----------------------------------------------------------------------------
Checkpoint(t, l) ==
  /\ Idle(t)
  /\ versioned
  /\ checkpoints' = [checkpoints EXCEPT ![l] = MaxSeq]
  /\ goal' = [goal EXCEPT ![l] = rows]
  /\ UNCHANGED <<rows, versioned, hist, cut, anchors, past>>

(***************************************************************************)
(* rollback(at_seq=) and rollback(checkpoint=): a label is a log position. *)
(* Nothing to do when no event follows the position.                       *)
(***************************************************************************)
RollbackBegin(t, seq) ==
  /\ pc[t] = "idle"
  /\ versioned
  /\ seq < MaxSeq
  /\ Goto(t, "rb_target", [Blank EXCEPT !.seq = seq])
  /\ UNCHANGED <<store, aux>>

RollbackTarget(t) ==
  /\ pc[t] = "rb_target"
  /\ Goto(t, "rb_current",
          [local[t] EXCEPT !.target = StateAt(local[t].seq)])
  /\ UNCHANGED <<store, aux>>

RollbackCurrent(t) ==
  /\ pc[t] = "rb_current"
  /\ Goto(t, "rb_remove", [local[t] EXCEPT !.current = rows])
  /\ UNCHANGED <<store, aux>>

Removals(l) == Present(l.current) \ Present(l.target)

Inserts(l) == Present(l.target) \ Present(l.current)

\* Seeded bug: rows that are present are never compared with the target.
UpdatesNone(l) == {}

Updates(l) ==
  {p \in Present(l.target) \cap Present(l.current) :
     l.target[p] # l.current[p]}

\* Phase 1: the rows the target does not have, deleted and buried with what
\* they hold now.
RollbackRemove(t) ==
  LET gone == Removals(local[t]) IN
  /\ pc[t] = "rb_remove"
  /\ gone \subseteq Present(rows)
  /\ Goto(t, "rb_restore", local[t])
  /\ IF gone = {}
     THEN UNCHANGED <<store, aux>>
     ELSE \E s \in Ascending(gone) :
            Write([p \in PK |-> IF p \in gone THEN NoRow ELSE rows[p]],
                  [i \in DOMAIN s |-> Del(s[i], rows[s[i]])])

\* Phase 2: insert-restores, then update-restores, in one transaction.  The
\* UPDATE of a row that vanished since phase 0 changes nothing; its event is
\* recorded all the same.
RollbackRestore(t) ==
  LET target == local[t].target
      ins    == Inserts(local[t])
      upd    == Updates(local[t])
  IN /\ pc[t] = "rb_restore"
     /\ ins \cap Present(rows) = {}
     /\ Finish(t)
     /\ IF ins \cup upd = {}
        THEN UNCHANGED <<store, aux>>
        ELSE \E a \in Ascending(ins), b \in Ascending(upd) :
               Write([p \in PK |->
                        IF p \in ins \cup (upd \cap Present(rows))
                        THEN target[p] ELSE rows[p]],
                     [i \in DOMAIN a |-> Ins(a[i], target[a[i]])]
                     \o [i \in DOMAIN b |-> Upd(b[i], target[b[i]])])

\* Another thread removed a row phase 1 wants to remove (KeyError), or wrote
\* one phase 2 wants to insert (IntegrityError): the phase is rolled back
\* and the exception ends the rollback.
RollbackFail(t) ==
  /\ \/ pc[t] = "rb_remove" /\ ~(Removals(local[t]) \subseteq Present(rows))
     \/ pc[t] = "rb_restore" /\ Inserts(local[t]) \cap Present(rows) # {}
  /\ Finish(t)
  /\ UNCHANGED <<store, aux>>

(***************************************************************************)
(* prune(before_seq=); prune(checkpoint=) is prune at the label's seq + 1. *)
(* The checkpoints are looked at in one transaction and the events deleted *)
(* in another.                                                             *)
(***************************************************************************)
PruneBegin(t, before, keep) ==
  /\ pc[t] = "idle"
  /\ versioned
  /\ keep => \A l \in Labels :
               checkpoints[l] = NoSeq \/ checkpoints[l] >= before
  /\ Goto(t, "prune", [Blank EXCEPT !.seq = before])
  /\ UNCHANGED <<store, aux>>

\* Seeded bug: the newest events are deleted instead of the oldest.
RetainedOldest(n) == SubSeq(hist, 1, Len(hist) - n)

Retained(n) == SubSeq(hist, n + 1, Len(hist))

PruneDelete(t) ==
  LET before == local[t].seq
      n      == IF before - 1 - cut < Len(hist)
                THEN before - 1 - cut ELSE Len(hist)
  IN /\ pc[t] = "prune"
     /\ Finish(t)
     /\ IF n <= 0
        THEN UNCHANGED store
        ELSE /\ hist' = Retained(n)
             /\ cut' = cut + n
             /\ anchors' = anchors \cup {<<cut + n, hist[n].hash>>}
             /\ UNCHANGED <<rows, versioned, checkpoints>>
     /\ UNCHANGED aux

\* The process dies: what threads held is lost, every commit stays.
Crash ==
  /\ pc' = [t \in Threads |-> "idle"]
  /\ local' = [t \in Threads |-> Blank]
  /\ UNCHANGED <<store, aux>>

-----------------------------------------------------------------------------
ThreadStep(t) ==
  \/ CreateTable(t)
  \/ \E p \in PK, v \in Values :
       Insert(t, p, v) \/ Update(t, p, v) \/ UpsertLook(t, p, v)
  \/ \E p, q \in PK, v \in Values :
       InsertBatch(t, p, q, v) \/ ChangeKey(t, p, q, v)
  \/ \E p \in PK : Delete(t, p)
  \/ UpsertWrite(t) \/ UpsertMiss(t)
  \/ \E l \in Labels : Checkpoint(t, l)
  \/ \E seq \in 0 .. MaxEvents : RollbackBegin(t, seq)
  \/ RollbackTarget(t) \/ RollbackCurrent(t)
  \/ RollbackRemove(t) \/ RollbackRestore(t) \/ RollbackFail(t)
  \/ \E before \in 1 .. MaxEvents + 1, keep \in Keep :
       PruneBegin(t, before, keep)
  \/ PruneDelete(t)

Next == Crash \/ \E t \in Threads : ThreadStep(t)

Spec == Init /\ [][Next]_vars

\* create_table(versioned=True) repeated on a table that is versioned.
NextRecreate == Next \/ \E t \in Threads : EnableVersioning(t)

SpecRecreate == Init /\ [][NextRecreate]_vars

-----------------------------------------------------------------------------
(***************************************************************************)
(* Properties.                                                             *)
(***************************************************************************)

\* Every variable has its type.
TypeOK ==
  /\ rows \in Table
  /\ versioned \in BOOLEAN
  /\ hist \in Seq(Event)
  /\ cut \in Nat
  /\ anchors \subseteq Nat \X Hash
  /\ checkpoints \in [Labels -> Nat \cup {NoSeq}]
  /\ pc \in [Threads -> Steps]
  /\ local \in [Threads -> Locals]
  /\ past \in Seq(Change)
  /\ goal \in [Labels -> Table]

\* verify_chain reports the chain valid: every event carries the hash of its
\* predecessor or continues an anchor, and its own hash is that of what it
\* says.  This is versioning.py's promise for any mix of batches, rollbacks,
\* prunes and crashes, whichever threads they run in.
ChainValid ==
  \A i \in DOMAIN hist :
    /\ \/ hist[i].prev = IF i = 1 THEN GENESIS ELSE hist[i - 1].hash
       \/ <<cut + i - 1, hist[i].prev>> \in anchors
    /\ hist[i].hash = EventHash(hist[i].prev, hist[i].what)

\* Whatever the table holds, history recorded, and nothing later: the row a
\* reader gets is the last post-image of its key, however the transactions
\* of concurrent writers and rollbacks interleave.
RowsAreLogged ==
  versioned => \A p \in Present(rows) : Replay(past)[p] = rows[p]

\* The table is what its history says, missing rows included: nobody changes
\* a row without recording it, and nothing is recorded that did not happen.
TableIsReplay == versioned => rows = Replay(past)

\* as_of and diff are never wrong about a row they return, at any position
\* that is still in the log and whatever was pruned before it; and they miss
\* no row while nothing is pruned.
AsOfSound ==
  \A seq \in cut + 1 .. cut + Len(hist) :
    LET then == Replay(SubSeq(past, 1, seq)) IN
    /\ \A p \in Present(StateAt(seq)) : StateAt(seq)[p] = then[p]
    /\ cut = 0 => StateAt(seq) = then

\* A checkpoint names the rows that were there when it was set, as long as
\* nothing is pruned.
CheckpointNamesState ==
  \A l \in Labels :
    checkpoints[l] # NoSeq /\ cut = 0 => StateAt(checkpoints[l]) = goal[l]

\* The same whatever was pruned with keep_checkpoints=True, which "refuses to
\* cut past a checkpoint".
CheckpointRestorable ==
  \A l \in Labels :
    checkpoints[l] # NoSeq => StateAt(checkpoints[l]) = goal[l]

\* The chain never rewinds: no step changes or reorders an event that stays,
\* and events leave only from the front.
ChainNeverRewinds ==
  [][/\ cut' >= cut
     /\ \A i \in DOMAIN hist :
          cut + i > cut' =>
            /\ cut + i - cut' \in DOMAIN hist'
            /\ hist'[cut + i - cut'] = hist[i]]_vars

\* A rollback that nobody disturbs ends with the rows of its target: what
\* phase 1 removes and phase 2 restores is all that differs.
RollbackRestores ==
  [][\A t \in Threads : RollbackRestore(t) => rows' = local[t].target]_vars

Abstract == INSTANCE VersionedStore
              WITH table <- rows, recording <- versioned, log <- past

\* The table and its log behave as VersionedStore says.
ImplementsStore == Abstract!Spec
=============================================================================

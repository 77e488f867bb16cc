---------------------------- MODULE ChromaPool ----------------------------
(***************************************************************************)
(* The Chroma client of one vector directory, shared by all HybridDB       *)
(* instances of the process that open it (db.py, maintenance.py).          *)
(*                                                                         *)
(* chromadb keeps one System per path; a client of a stopped System, or of *)
(* a System bound to a directory that was swapped away, fails on its next  *)
(* use.  db.py pools the client, remembers which instances hold the path,  *)
(* evicts client and System when the last holder goes, and replaces them   *)
(* when the directory is swapped (force_rebuild_chroma_index, restore).    *)
(*                                                                         *)
(* A step is what a thread does under _chroma_pool_lock, or between two    *)
(* steps of that kind.  The per-path lock and the instance's _db_lock are  *)
(* held over several steps.  Both are re-entrant.                          *)
(***************************************************************************)
EXTENDS Naturals, FiniteSets

CONSTANTS
  Threads,  \* the threads of the process
  Inst,     \* HybridDB objects on the path
  Ops,      \* the operations threads call
  Systems   \* names for chromadb Systems, reused once nothing refers to them

AllOps == {"open", "close", "search", "journal", "rebuild", "restore"}

None     == 0
NoThread == "none"

ASSUME OpsAssumption    == Ops \subseteq AllOps
ASSUME ThreadAssumption ==
  IsFiniteSet(Threads) /\ Threads # {} /\ NoThread \notin Threads
ASSUME InstAssumption   == IsFiniteSet(Inst) /\ Inst # {}
ASSUME SystemsAssumption ==
  /\ IsFiniteSet(Systems) /\ Systems \subseteq Nat \ {0}
  /\ Cardinality(Systems) > Cardinality(Inst) + 2 * Cardinality(Threads) + 2

VARIABLES
  live,      \* the Systems that are started and not stopped
  current,   \* those bound to the directory now at the path
  cached,    \* SharedSystemClient._identifier_to_system of the path
  pool,      \* _chroma_client_pool of the path: a client is its System
  holders,   \* _chroma_path_holders of the path ...
  listed,    \* ... and whether the path has an entry there at all
  pending,   \* the path is in _chroma_evict_pending
  opened,    \* the instances that are constructed and not collected
  client,    \* _chroma
  stale,     \* _chroma_stale
  pathLock,  \* the thread in chroma_path_lock, or NoThread
  dbLock,    \* the thread in an instance's _db_lock, or NoThread
  pc, local, \* per thread: the operation in progress and what it holds
  exposed    \* auxiliary: see Begin

chromadb == <<live, current, cached>>
registry == <<pool, holders, listed, pending>>
instance == <<opened, client, stale>>
locks    == <<pathLock, dbLock>>
vars == <<live, current, cached, pool, holders, listed, pending, opened,
          client, stale, pathLock, dbLock, pc, local, exposed>>

Steps == {"idle", "db_lock", "ensure", "ready",
          "open_lock", "attach_take", "attach_evict", "attach_stop",
          "attach_find", "attach_make", "attach_put", "attach_hold",
          "attach_check",
          "close_release", "close_mark", "close_take", "close_evict",
          "close_stop",
          "rb_count", "rb_lock", "rb_mark", "rs_lock", "swap_evict",
          "swap_stop", "swap_done", "rb_make", "rb_pool"}

\* `swapped`: the directory swap of this rebuild or restore has begun.
Locals == [inst : Inst, op : AllOps, swapped : BOOLEAN,
           system : Systems \cup {None}]

Init ==
  /\ live = {} /\ current = {} /\ cached = None
  /\ pool = None /\ holders = {} /\ listed = FALSE /\ pending = FALSE
  /\ opened = {}
  /\ client = [i \in Inst |-> None]
  /\ stale = [i \in Inst |-> FALSE]
  /\ pathLock = NoThread
  /\ dbLock = [i \in Inst |-> NoThread]
  /\ pc = [t \in Threads |-> "idle"]
  /\ local \in [Threads -> {[inst |-> CHOOSE i \in Inst : TRUE,
                             op |-> "open", swapped |-> FALSE,
                             system |-> None]}]
  /\ exposed = FALSE

I(t) == local[t].inst

Busy(i) == {t \in Threads : pc[t] # "idle" /\ I(t) = i}

Goto(t, step) == pc' = [pc EXCEPT ![t] = step] /\ UNCHANGED local

Keep(t, step, s) ==
  /\ pc' = [pc EXCEPT ![t] = step]
  /\ local' = [local EXCEPT ![t].system = s]

Return(t) ==
  /\ pc' = [pc EXCEPT ![t] = "idle"]
  /\ local' = [local EXCEPT ![t].swapped = FALSE, ![t].system = None]

LockPath(t)   == pathLock = NoThread /\ pathLock' = t
UnlockPath(t) == pathLock' = NoThread

UnlockDb(t) ==
  dbLock' = [dbLock EXCEPT ![I(t)] = IF @ = t THEN NoThread ELSE @]

-----------------------------------------------------------------------------
(***************************************************************************)
(* An application opens, uses, closes and drops instances.  It uses one    *)
(* once its constructor has returned, from several threads if it likes, and*)
(* closes it, or lets it be collected, when no thread uses it any more.    *)
(***************************************************************************)
FirstStep(op) ==
  CASE op = "open"                   -> "open_lock"
    [] op = "close"                  -> "close_release"
    [] op \in {"search", "rebuild"}  -> "ensure"
    [] op \in {"journal", "restore"} -> "db_lock"

\* `exposed` records that operations (or an operation and a collection)
\* overlapped, or that a restore began under other holders, which nothing in
\* restore looks for.
Begin(t, i, op) ==
  /\ pc[t] = "idle"
  /\ op = "open" <=> i \notin opened
  /\ \A u \in Busy(i) : local[u].op \notin {"open", "close"}
  /\ op = "close" => client[i] # None /\ Busy(i) = {}
  /\ op = "rebuild" => client[i] # None
  /\ opened' = opened \cup {i}
  /\ pc' = [pc EXCEPT ![t] = FirstStep(op)]
  /\ local' = [local EXCEPT ![t] = [inst |-> i, op |-> op, swapped |-> FALSE,
                                    system |-> None]]
  /\ exposed' = \/ exposed
                \/ \E u \in Threads : pc[u] # "idle"
                \/ op = "restore" /\ holders \ {i} # {}
  /\ UNCHANGED <<chromadb, registry, client, stale, locks>>

\* The garbage collector takes an instance; holders is a WeakSet.
Collect(i) ==
  /\ i \in opened /\ Busy(i) = {}
  /\ opened' = opened \ {i}
  /\ client' = [client EXCEPT ![i] = None]
  /\ stale' = [stale EXCEPT ![i] = FALSE]
  /\ holders' = holders \ {i}
  /\ exposed' = (exposed \/ \E u \in Threads : pc[u] # "idle")
  /\ UNCHANGED <<chromadb, pool, listed, pending, locks, pc, local>>

-----------------------------------------------------------------------------
(***************************************************************************)
(* Sweep, drain and evict.                                                 *)
(***************************************************************************)

\* Seeded bug: paths whose instances were collected unclosed are not swept.
CollectedNever == FALSE

Collected == listed /\ holders = {}

\* _sweep_collected_chroma_holders, then the first half of
\* _drain_pending_chroma_evictions: the pending paths are copied and cleared.
Take(t, evict, skip) ==
  /\ pending' = FALSE
  /\ listed' = (listed /\ ~Collected)
  /\ Goto(t, IF pending \/ Collected THEN evict ELSE skip)
  /\ UNCHANGED <<chromadb, pool, holders, instance, locks, exposed>>

\* Seeded bug: the System stays in chromadb's cache.
StillCached == cached

UncachedSystem == None

\* Seeded bug: the pooled client's System is stopped, not the cached one.
EvictPooled(t, stop) ==
  /\ pool' = None
  /\ cached' = UncachedSystem
  /\ Keep(t, stop, pool)
  /\ UNCHANGED <<live, current, holders, listed, pending, instance, locks,
                 exposed>>

\* _evict_chroma_path_clients: everything of the path is dropped under the
\* pool lock ...
Evict(t, stop) ==
  /\ pool' = None
  /\ cached' = UncachedSystem
  /\ Keep(t, stop, cached)
  /\ UNCHANGED <<live, current, holders, listed, pending, instance, locks,
                 exposed>>

\* ... and the System stopped outside of it.
Stop(t, after) ==
  /\ live' = live \ {local[t].system}
  /\ Keep(t, after, None)
  /\ UNCHANGED <<current, cached, registry, instance, locks, exposed>>

-----------------------------------------------------------------------------
(***************************************************************************)
(* _init_chroma_locked, in the path lock.                                  *)
(***************************************************************************)
OpenLock(t) ==
  /\ pc[t] = "open_lock"
  /\ LockPath(t)
  /\ Goto(t, "attach_take")
  /\ UNCHANGED <<chromadb, registry, instance, dbLock, exposed>>

AttachTake(t)  == pc[t] = "attach_take" /\ Take(t, "attach_evict", "attach_find")
AttachEvict(t) == pc[t] = "attach_evict" /\ Evict(t, "attach_stop")
AttachStop(t)  == pc[t] = "attach_stop" /\ Stop(t, "attach_find")

\* A pooled client that answers heartbeat() is taken, any other dropped.
AttachFind(t) ==
  /\ pc[t] = "attach_find"
  /\ IF pool \in live
     THEN /\ client' = [client EXCEPT ![I(t)] = pool]
          /\ Goto(t, "attach_hold")
          /\ UNCHANGED pool
     ELSE /\ pool' = None
          /\ Goto(t, "attach_make")
          /\ UNCHANGED client
  /\ UNCHANGED <<chromadb, holders, listed, pending, opened, stale, locks,
                 exposed>>

Unused ==
  Systems \ (live \cup {pool, cached} \cup {client[i] : i \in Inst}
                  \cup {local[t].system : t \in Threads})

\* PersistentClient: attached to the path's cached System, or to a new one.
MakeSystem(s) ==
  /\ s = IF cached # None THEN cached
         ELSE CHOOSE u \in Unused : \A v \in Unused : u <= v
  /\ cached' = s
  /\ IF cached # None
     THEN UNCHANGED <<live, current>>
     ELSE live' = live \cup {s} /\ current' = current \cup {s}

AttachMake(t) ==
  /\ pc[t] = "attach_make"
  /\ \E s \in Systems : MakeSystem(s) /\ Keep(t, "attach_put", s)
  /\ UNCHANGED <<registry, instance, locks, exposed>>

AttachPut(t) ==
  /\ pc[t] = "attach_put"
  /\ pool' = local[t].system
  /\ client' = [client EXCEPT ![I(t)] = local[t].system]
  /\ Keep(t, "attach_hold", None)
  /\ UNCHANGED <<chromadb, holders, listed, pending, opened, stale, locks,
                 exposed>>

AttachHold(t) ==
  /\ pc[t] = "attach_hold"
  /\ holders' = holders \cup {I(t)}
  /\ listed' = TRUE
  /\ Goto(t, "attach_check")
  /\ UNCHANGED <<chromadb, pool, pending, instance, locks, exposed>>

\* What the caller of _init_chroma_locked does with the client.
AttachEnd(t) ==
  /\ UnlockPath(t)
  /\ stale' = [stale EXCEPT ![I(t)] = @ /\ client[I(t)] = None]
  /\ IF local[t].op = "open" \/ local[t].swapped
     THEN Return(t) /\ UnlockDb(t)
     ELSE Goto(t, "ready") /\ UNCHANGED dbLock
  /\ UNCHANGED <<chromadb, registry, opened, client, exposed>>

\* The embedding labels are read from _schema, through _connect.
AttachCheck(t) ==
  /\ pc[t] = "attach_check"
  /\ dbLock[I(t)] \in {NoThread, t}
  /\ AttachEnd(t)

\* chromadb raises: the instance has no client and is no holder.
AttachFails(t) == pc[t] = "attach_make" /\ AttachEnd(t)

-----------------------------------------------------------------------------
(***************************************************************************)
(* _get_collection: _process_journal calls it in the _db_lock, search      *)
(* without.  _ensure_chroma_client attaches again when the client is stale.*)
(***************************************************************************)
DbLock(t) ==
  /\ pc[t] = "db_lock"
  /\ dbLock[I(t)] = NoThread
  /\ dbLock' = [dbLock EXCEPT ![I(t)] = t]
  /\ Goto(t, "ensure")
  /\ UNCHANGED <<chromadb, registry, instance, pathLock, exposed>>

Ensure(t) ==
  /\ pc[t] = "ensure" /\ ~stale[I(t)]
  /\ Goto(t, "ready")
  /\ UNCHANGED <<chromadb, registry, instance, locks, exposed>>

\* Seeded bug: the flag is cleared before the client is attached.
EnsureCleared(t) ==
  /\ pc[t] = "ensure" /\ stale[I(t)]
  /\ LockPath(t)
  /\ client' = [client EXCEPT ![I(t)] = None]
  /\ stale' = [stale EXCEPT ![I(t)] = FALSE]
  /\ Goto(t, "attach_take")
  /\ UNCHANGED <<chromadb, registry, opened, dbLock, exposed>>

EnsureStale(t) ==
  /\ pc[t] = "ensure" /\ stale[I(t)]
  /\ LockPath(t)
  /\ client' = [client EXCEPT ![I(t)] = None]
  /\ Goto(t, "attach_take")
  /\ UNCHANGED <<chromadb, registry, opened, stale, dbLock, exposed>>

\* The client is used, and the operation goes on.
Ready(t) ==
  /\ pc[t] = "ready"
  /\ CASE local[t].op = "rebuild" -> Goto(t, "rb_count") /\ UNCHANGED dbLock
       [] local[t].op = "restore" -> Goto(t, "rs_lock") /\ UNCHANGED dbLock
       [] OTHER                   -> Return(t) /\ UnlockDb(t)
  /\ UNCHANGED <<chromadb, registry, instance, pathLock, exposed>>

(***************************************************************************)
(* close.                                                                  *)
(***************************************************************************)

\* Seeded bug: the path's entry is popped although others hold the path.
HoldersPopped(i) == {}

\* Seeded bug: a dead reference is left in the instance's place.
HoldersDead(i) == (holders \ {i}) \cup {None}

HoldersWithout(i) == holders \ {i}

CloseRelease(t) ==
  LET left == HoldersWithout(I(t)) IN
  /\ pc[t] = "close_release"
  /\ holders' = left
  /\ listed' = (listed /\ left # {})
  /\ pending' = (pending \/ (listed /\ left = {}))
  /\ Goto(t, "close_mark")
  /\ UNCHANGED <<chromadb, pool, instance, locks, exposed>>

CloseMark(t) ==
  /\ pc[t] = "close_mark"
  /\ stale' = [stale EXCEPT ![I(t)] = TRUE]
  /\ Goto(t, "close_take")
  /\ UNCHANGED <<chromadb, registry, opened, client, locks, exposed>>

CloseTake(t)  == pc[t] = "close_take" /\ Take(t, "close_evict", "idle")
CloseEvict(t) == pc[t] = "close_evict" /\ Evict(t, "close_stop")
CloseStop(t)  == pc[t] = "close_stop" /\ Stop(t, "idle")

(***************************************************************************)
(* The directory swaps.                                                    *)
(***************************************************************************)

\* Seeded bug: the other holders of the path are not looked for.
OthersNone(i) == {}

Others(i) == holders \ {i}

\* force_rebuild_chroma_index(force=False) refuses if others hold the path.
RebuildCount(t) ==
  /\ pc[t] = "rb_count"
  /\ IF Others(I(t)) # {} \/ client[I(t)] = None
     THEN Return(t)
     ELSE Goto(t, "rb_lock")
  /\ UNCHANGED <<chromadb, registry, instance, locks, exposed>>

RebuildLock(t) ==
  /\ pc[t] = "rb_lock"
  /\ LockPath(t)
  /\ Goto(t, "rb_mark")
  /\ UNCHANGED <<chromadb, registry, instance, dbLock, exposed>>

\* The collections are copied to a directory aside; a failure there leaves
\* everything as it was.
RebuildMark(t) ==
  /\ pc[t] = "rb_mark"
  /\ stale' = [stale EXCEPT ![I(t)] = TRUE]
  /\ pc' = [pc EXCEPT ![t] = "swap_evict"]
  /\ local' = [local EXCEPT ![t].swapped = TRUE]
  /\ UNCHANGED <<chromadb, registry, opened, client, locks, exposed>>

RebuildCopyFails(t) ==
  /\ pc[t] = "rb_mark"
  /\ UnlockPath(t)
  /\ Return(t)
  /\ UNCHANGED <<chromadb, registry, instance, dbLock, exposed>>

\* restore moves the directory first and evicts the System bound to it after.
RestoreSwap(t) ==
  /\ pc[t] = "rs_lock"
  /\ LockPath(t)
  /\ current' = {}
  /\ stale' = [stale EXCEPT ![I(t)] = TRUE]
  /\ pc' = [pc EXCEPT ![t] = "swap_evict"]
  /\ local' = [local EXCEPT ![t].swapped = TRUE]
  /\ UNCHANGED <<live, cached, registry, opened, client, dbLock, exposed>>

SwapEvict(t) == pc[t] = "swap_evict" /\ Evict(t, "swap_stop")
SwapStop(t)  == pc[t] = "swap_stop" /\ Stop(t, "swap_done")

\* rebuild moves the new directory in; restore attaches.
SwapDone(t) ==
  /\ pc[t] = "swap_done"
  /\ IF local[t].op = "rebuild"
     THEN current' = {} /\ Goto(t, "rb_make") /\ UNCHANGED client
     ELSE /\ client' = [client EXCEPT ![I(t)] = None]
          /\ Goto(t, "attach_take")
          /\ UNCHANGED current
  /\ UNCHANGED <<live, cached, registry, opened, stale, locks, exposed>>

\* The move is undone, or chromadb raises after it: rebuild attaches to the
\* directory that is there.
RebuildFails(t) ==
  /\ pc[t] \in {"swap_done", "rb_make"} /\ local[t].op = "rebuild"
  /\ client' = [client EXCEPT ![I(t)] = None]
  /\ Goto(t, "attach_take")
  /\ UNCHANGED <<chromadb, registry, opened, stale, locks, exposed>>

RebuildMake(t) ==
  /\ pc[t] = "rb_make"
  /\ \E s \in Systems :
       /\ MakeSystem(s)
       /\ client' = [client EXCEPT ![I(t)] = s]
  /\ stale' = [stale EXCEPT ![I(t)] = FALSE]
  /\ Goto(t, "rb_pool")
  /\ UNCHANGED <<registry, opened, locks, exposed>>

RebuildPool(t) ==
  /\ pc[t] = "rb_pool"
  /\ pool' = client[I(t)]
  /\ holders' = holders \cup {I(t)}
  /\ listed' = TRUE
  /\ UnlockPath(t)
  /\ Return(t)
  /\ UNCHANGED <<chromadb, pending, instance, dbLock, exposed>>

-----------------------------------------------------------------------------
Continue(t) ==
  \/ OpenLock(t) \/ DbLock(t)
  \/ AttachTake(t) \/ AttachEvict(t) \/ AttachStop(t) \/ AttachFind(t)
  \/ AttachMake(t) \/ AttachPut(t) \/ AttachHold(t) \/ AttachCheck(t)
  \/ AttachFails(t)
  \/ Ensure(t) \/ EnsureStale(t) \/ Ready(t)
  \/ CloseRelease(t) \/ CloseMark(t)
  \/ CloseTake(t) \/ CloseEvict(t) \/ CloseStop(t)
  \/ RebuildCount(t) \/ RebuildLock(t) \/ RebuildMark(t)
  \/ RebuildCopyFails(t)
  \/ RestoreSwap(t) \/ SwapEvict(t) \/ SwapStop(t) \/ SwapDone(t)
  \/ RebuildFails(t) \/ RebuildMake(t) \/ RebuildPool(t)

Next ==
  \/ \E t \in Threads : Continue(t)
  \/ \E t \in Threads, i \in Inst, op \in Ops : Begin(t, i, op)
  \/ \E i \in Inst : Collect(i)

Spec == Init /\ [][Next]_vars

-----------------------------------------------------------------------------
(***************************************************************************)
(* Properties.                                                             *)
(***************************************************************************)

\* Every variable has its type.
TypeOK ==
  /\ live \subseteq Systems /\ current \subseteq Systems
  /\ {cached, pool} \subseteq Systems \cup {None}
  /\ holders \subseteq Inst /\ opened \subseteq Inst
  /\ {listed, pending, exposed} \subseteq BOOLEAN
  /\ client \in [Inst -> Systems \cup {None}]
  /\ stale \in [Inst -> BOOLEAN]
  /\ pathLock \in Threads \cup {NoThread}
  /\ dbLock \in [Inst -> Threads \cup {NoThread}]
  /\ pc \in [Threads -> Steps]
  /\ local \in [Threads -> Locals]

Works(s) == s \in live /\ s \in current

Settled(i) == i \in opened /\ Busy(i) = {}

\* An instance that nobody is working on and that is not marked stale has a
\* client that works: "evicting here cannot strand a live user".
NoStranded ==
  pathLock = NoThread =>
    \A i \in Inst :
      Settled(i) /\ client[i] # None /\ ~stale[i] => Works(client[i])

\* So it is as long as operations do not overlap, in whatever order instances
\* are opened, used, closed, collected, rebuilt and restored.
SerialUseStrandsNobody == ~exposed => NoStranded

\* However operations overlap, the System chromadb would hand out is started
\* and bound to the directory that is there: acquisition never sees a swap
\* halfway.
CachedSystemWorks ==
  cached # None /\ pathLock = NoThread => Works(cached)

\* No System is forgotten while it runs: it is the one in chromadb's cache,
\* or a thread is about to stop it.
NoSystemLeaks ==
  \A s \in live :
    s = cached \/ \E t \in Threads : local[t].system = s

\* A path that nobody holds, because its instances were closed or collected, is
\* released before it is attached to again: no System of an earlier life is met.
UnheldIsReleased ==
  \A t \in Threads :
    ~exposed /\ pc[t] = "attach_find" /\ holders = {} => live = {}

\* An instance with a client that is not stale is counted as a holder, so no
\* swap or eviction overlooks it: `others` in force_rebuild is right.
ClientsAreHeld ==
  \A i \in Inst :
    Settled(i) /\ client[i] # None /\ ~stale[i] => i \in holders /\ listed

WaitsForPath(t) ==
  /\ pathLock \notin {NoThread, t}
  /\ \/ pc[t] \in {"open_lock", "rb_lock", "rs_lock"}
     \/ pc[t] = "ensure" /\ stale[I(t)]

\* The path lock is taken inside an instance's _db_lock by the journal and by
\* restore, and the _db_lock inside the path lock by whoever attaches.  Threads
\* can wait for each other, but only on an instance whose client is stale.
InversionNeedsStale ==
  \A t, u \in Threads :
    /\ pathLock = t /\ pc[t] = "attach_check"
    /\ dbLock[I(t)] = u /\ u # t /\ WaitsForPath(u)
    => stale[I(t)]
=============================================================================

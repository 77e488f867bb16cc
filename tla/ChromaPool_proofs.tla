-------------------------- MODULE ChromaPool_proofs --------------------------
(***************************************************************************)
(* Theorems about ChromaPool, for any number of threads and instances.     *)
(***************************************************************************)
EXTENDS ChromaPool, FiniteSetTheorems, FunctionTheorems, NaturalsInduction,
        WellFoundedInduction, TLAPS

StopSteps  == {"attach_stop", "close_stop", "swap_stop"}
CloseSteps == {"close_release", "close_mark", "close_take", "close_evict",
               "close_stop"}

\* An instance that is attaching has no client yet ...
NoClientYet == {"attach_take", "attach_evict", "attach_stop", "attach_find",
                "attach_make", "attach_put"}
AttachSteps == NoClientYet \cup {"attach_hold", "attach_check"}
SwapSteps   == {"swap_evict", "swap_stop", "swap_done"}

\* ... and is stale, unless it is being opened.
StaleSteps == AttachSteps \cup SwapSteps \cup {"rb_make"}

\* What a thread does in the path lock.
PathSteps == StaleSteps \cup {"rb_mark", "rb_pool"}

\* Which operation a thread can be in where it stands.
Fits(step, op) ==
  /\ step = "open_lock" => op = "open"
  /\ step \in CloseSteps => op = "close"
  /\ step = "db_lock" => op \in {"journal", "restore"}
  /\ step \in {"ensure", "ready"} => op \notin {"open", "close"}
  /\ step \in AttachSteps => op # "close"
  /\ step \in {"rb_count", "rb_lock", "rb_mark", "rb_make", "rb_pool"} =>
       op = "rebuild"
  /\ step = "rs_lock" => op = "restore"
  /\ step \in SwapSteps => op \in {"rebuild", "restore"}

\* Locks are with those who are in them, and nobody else works on an instance
\* that is opened or closed.
Control ==
  /\ \A t \in Threads : pc[t] \in PathSteps <=> pathLock = t
  /\ \A i \in Inst : dbLock[i] # NoThread =>
       /\ pc[dbLock[i]] # "idle" /\ I(dbLock[i]) = i
       /\ local[dbLock[i]].op \in {"journal", "restore"}
  /\ \A t \in Threads : pc[t] # "idle" =>
       /\ Fits(pc[t], local[t].op)
       /\ I(t) \in opened
       /\ \A u \in Threads : pc[u] # "idle" /\ I(u) = I(t) /\ u # t =>
            local[t].op \notin {"open", "close"}

\* Every running System is chromadb's, or about to be stopped, and not both.
SystemsInv ==
  /\ \A s \in live :
       s = cached \/ \E t \in Threads : pc[t] \in StopSteps /\ local[t].system = s
  /\ cached # None =>
       /\ cached \in live
       /\ cached \in current \/ \E t \in Threads : pc[t] = "swap_evict"
  /\ \A t \in Threads :
       /\ pc[t] \in StopSteps /\ local[t].system # None =>
            local[t].system # cached
       /\ pc[t] \in {"swap_stop", "swap_done", "rb_make"} => cached = None

\* A client is a holder's, or nearly.
ClientsInv ==
  /\ holders # {} => listed
  /\ \A i \in Inst :
       /\ client[i] # None => i \in opened
       /\ client[i] # None /\ ~stale[i] =>
            \/ i \in holders
            \/ \E t \in Threads : /\ pc[t] \in {"attach_hold", "close_mark", "rb_pool"}
                                  /\ I(t) = i
  /\ \A t \in Threads :
       /\ pc[t] \in NoClientYet \cup {"open_lock"} => client[I(t)] = None
       /\ pc[t] \in StaleSteps /\ local[t].op # "open" => stale[I(t)]
       /\ pc[t] = "attach_check" => I(t) \in holders

\* How things stand while t, and t alone, is at work, or nobody: the clients that
\* are not stale are those of the pool, and there are none when it is evicted.
At(t) ==
  /\ pool # None => pool = cached
  /\ pending => holders = {} /\ pc[t] \in {"close_mark", "close_take"}
  /\ \A i \in Inst : client[i] # None /\ ~stale[i] =>
       client[i] = pool \/ (pc[t] = "rb_pool" /\ I(t) = i)
  /\ pc[t] \in {"attach_evict", "close_evict", "swap_evict"} =>
       \A i \in Inst : client[i] = None \/ stale[i]
  /\ pc[t] \in {"attach_make", "attach_put", "swap_stop", "swap_done", "rb_make",
                "rb_pool"} => pool = None
  /\ pc[t] = "attach_put" => local[t].system = cached /\ cached # None
  /\ pc[t] = "rb_pool" => client[I(t)] = cached
  /\ pc[t] \in {"attach_hold", "attach_check"} => client[I(t)] \in {None, pool}
  /\ \/ pc[t] \in {"rb_lock", "rb_mark"}
     \/ pc[t] # "idle" /\ local[t].op = "restore"
     => holders \subseteq {I(t)}
  /\ pc[t] \in StopSteps => cached = None
  /\ holders = {} /\ ~listed /\ ~pending /\ cached # None =>
       pc[t] \in {"attach_evict", "close_evict", "attach_put", "attach_hold", "rb_pool"}
  /\ pc[t] = "attach_find" /\ holders = {} => cached = None

\* So they do as long as no operations overlap.
SerialInv ==
  ~exposed =>
    /\ \A t, u \in Threads : pc[t] # "idle" /\ pc[u] # "idle" => t = u
    /\ \A t \in Threads : (\A u \in Threads \ {t} : pc[u] = "idle") => At(t)

PInv == TypeOK /\ Control /\ SystemsInv /\ ClientsInv /\ SerialInv

-----------------------------------------------------------------------------
(***************************************************************************)
(* What a step does to its thread.                                         *)
(***************************************************************************)
Moved(t, step) ==
  /\ pc' \in [Threads -> Steps] /\ local' \in [Threads -> Locals]
  /\ pc'[t] = step
  /\ local'[t].inst = local[t].inst /\ local'[t].op = local[t].op
  /\ \A u \in Threads \ {t} : pc'[u] = pc[u] /\ local'[u] = local[u]

LEMMA GotoMoves ==
  ASSUME TypeOK, NEW t \in Threads, NEW step \in Steps, Goto(t, step)
  PROVE  Moved(t, step) /\ local'[t] = local[t]
  BY DEF TypeOK, Goto, Moved

LEMMA KeepMoves ==
  ASSUME TypeOK, NEW t \in Threads, NEW step \in Steps,
         NEW s \in Systems \cup {None}, Keep(t, step, s)
  PROVE  Moved(t, step) /\ local'[t].system = s
  BY DEF TypeOK, Keep, Moved, Locals

LEMMA ReturnMoves ==
  ASSUME TypeOK, NEW t \in Threads, Return(t)
  PROVE  Moved(t, "idle") /\ local'[t].system = None
  BY DEF TypeOK, Return, Moved, Locals, Steps

LEMMA SwapMoves ==
  ASSUME TypeOK, NEW t \in Threads,
         pc' = [pc EXCEPT ![t] = "swap_evict"],
         local' = [local EXCEPT ![t].swapped = TRUE]
  PROVE  Moved(t, "swap_evict") /\ local'[t].system = local[t].system
  BY DEF TypeOK, Moved, Locals, Steps


LEMMA ContinueMoves ==
  ASSUME TypeOK, NEW t \in Threads, Continue(t)
  PROVE  pc[t] # "idle" /\ \E step \in Steps : Moved(t, step)
<1>1. CASE \/ OpenLock(t) \/ DbLock(t) \/ AttachTake(t) \/ AttachFind(t)
           \/ AttachHold(t)
  BY <1>1, GotoMoves DEF OpenLock, DbLock, AttachTake, AttachFind, AttachHold,
                         Take, Steps
<1>2. CASE AttachEvict(t) \/ AttachStop(t) \/ AttachMake(t) \/ AttachPut(t)
  <2>1. cached \in Systems \cup {None} /\ None \in Systems \cup {None}
    BY DEF TypeOK
  <2> QED BY <1>2, <2>1, KeepMoves DEF AttachEvict, AttachStop, AttachMake,
             AttachPut, Evict, Stop, Steps
<1>3. CASE AttachCheck(t) \/ AttachFails(t)
  BY <1>3, GotoMoves, ReturnMoves DEF AttachCheck, AttachFails, AttachEnd, Steps
<1>4. CASE Ensure(t) \/ EnsureStale(t) \/ Ready(t)
  <2>1. CASE Ensure(t) \/ EnsureStale(t)
    BY <2>1, GotoMoves DEF Ensure, EnsureStale, Steps
  <2>2. CASE Ready(t)
    BY <2>2, GotoMoves, ReturnMoves DEF Ready, Steps
  <2> QED BY <1>4, <2>1, <2>2
<1>5. CASE CloseRelease(t) \/ CloseMark(t) \/ CloseTake(t)
  BY <1>5, GotoMoves DEF CloseRelease, CloseMark, CloseTake, Take, Steps
<1>6. CASE CloseEvict(t) \/ CloseStop(t) \/ SwapEvict(t) \/ SwapStop(t)
  <2>1. cached \in Systems \cup {None} /\ None \in Systems \cup {None}
    BY DEF TypeOK
  <2> QED BY <1>6, <2>1, KeepMoves DEF CloseEvict, CloseStop, SwapEvict,
             SwapStop, Evict, Stop, Steps
<1>7. CASE RebuildCount(t) \/ RebuildLock(t) \/ RebuildCopyFails(t) \/ SwapDone(t)
  BY <1>7, GotoMoves, ReturnMoves DEF RebuildCount, RebuildLock, RebuildCopyFails,
     SwapDone, Steps
<1>8. CASE RebuildMark(t) \/ RestoreSwap(t)
  BY <1>8, SwapMoves DEF RebuildMark, RestoreSwap, Steps
<1>9. CASE RebuildFails(t) \/ RebuildMake(t) \/ RebuildPool(t)
  BY <1>9, GotoMoves, ReturnMoves DEF RebuildFails, RebuildMake, RebuildPool, Steps
<1> QED BY <1>1, <1>2, <1>3, <1>4, <1>5, <1>6, <1>7, <1>8, <1>9 DEF Continue

-----------------------------------------------------------------------------
(***************************************************************************)
(* Types.                                                                  *)
(***************************************************************************)
LEMMA InitTypes == Init => TypeOK
<1> SUFFICES ASSUME Init PROVE TypeOK
  OBVIOUS
<1> DEFINE i0 == CHOOSE i \in Inst : TRUE
<1>1. i0 \in Inst
  BY InstAssumption
<1>2. local \in [Threads -> {[inst |-> i0, op |-> "open", swapped |-> FALSE,
                              system |-> None]}]
  BY DEF Init
<1> HIDE DEF i0
<1>3. local \in [Threads -> Locals]
  <2>1. [inst |-> i0, op |-> "open", swapped |-> FALSE, system |-> None] \in Locals
    BY <1>1 DEF Locals, AllOps
  <2> QED BY <1>2, <2>1
<1>4. /\ live \subseteq Systems /\ current \subseteq Systems
      /\ {cached, pool} \subseteq Systems \cup {None}
      /\ holders \subseteq Inst /\ opened \subseteq Inst
      /\ {listed, pending, exposed} \subseteq BOOLEAN
  BY DEF Init
<1>5. /\ client \in [Inst -> Systems \cup {None}] /\ stale \in [Inst -> BOOLEAN]
      /\ pathLock \in Threads \cup {NoThread}
      /\ dbLock \in [Inst -> Threads \cup {NoThread}]
      /\ pc \in [Threads -> Steps]
  BY DEF Init, Steps
<1> QED BY <1>3, <1>4, <1>5, Zenon DEF TypeOK

\* The values of the variables but for pc and local.
SharedTypes ==
  /\ live \subseteq Systems /\ current \subseteq Systems
  /\ {cached, pool} \subseteq Systems \cup {None}
  /\ holders \subseteq Inst /\ opened \subseteq Inst
  /\ {listed, pending, exposed} \subseteq BOOLEAN
  /\ client \in [Inst -> Systems \cup {None}]
  /\ stale \in [Inst -> BOOLEAN]
  /\ pathLock \in Threads \cup {NoThread}
  /\ dbLock \in [Inst -> Threads \cup {NoThread}]

LEMMA ContinueTypes ==
  ASSUME TypeOK, NEW t \in Threads, Continue(t)
  PROVE  TypeOK'
<1>0. /\ SharedTypes /\ I(t) \in Inst /\ local[t].system \in Systems \cup {None}
      /\ holders \cup {I(t)} \subseteq Inst /\ holders \ {I(t)} \subseteq Inst
  BY DEF TypeOK, SharedTypes, I, Locals
<1>1. ASSUME SharedTypes' PROVE TypeOK'
  BY <1>1, ContinueMoves DEF TypeOK, SharedTypes, Moved
<1>2. CASE \/ OpenLock(t) \/ DbLock(t) \/ Ensure(t) \/ RebuildCount(t)
           \/ RebuildLock(t) \/ RebuildCopyFails(t)
  BY <1>0, <1>1, <1>2 DEF OpenLock, DbLock, Ensure, RebuildCount, RebuildLock,
     RebuildCopyFails, LockPath, UnlockPath, chromadb, registry, instance, locks,
     SharedTypes
<1>3. CASE AttachTake(t) \/ CloseTake(t)
  BY <1>0, <1>1, <1>3 DEF AttachTake, CloseTake, Take, chromadb, instance, locks,
     SharedTypes
<1>4. CASE AttachEvict(t) \/ CloseEvict(t) \/ SwapEvict(t)
  BY <1>0, <1>1, <1>4 DEF AttachEvict, CloseEvict, SwapEvict, Evict,
     UncachedSystem, instance, locks, SharedTypes
<1>5. CASE AttachStop(t) \/ CloseStop(t) \/ SwapStop(t)
  BY <1>0, <1>1, <1>5 DEF AttachStop, CloseStop, SwapStop, Stop, registry,
     instance, locks, SharedTypes
<1>6. CASE AttachFind(t) \/ AttachPut(t) \/ AttachHold(t)
  BY <1>0, <1>1, <1>6 DEF AttachFind, AttachPut, AttachHold, chromadb, instance,
     locks, SharedTypes
<1>7. CASE AttachMake(t) \/ RebuildMake(t)
  BY <1>0, <1>1, <1>7 DEF AttachMake, RebuildMake, MakeSystem, registry, instance,
     locks, SharedTypes
<1>8. CASE AttachCheck(t) \/ AttachFails(t)
  BY <1>0, <1>1, <1>8 DEF AttachCheck, AttachFails, AttachEnd, UnlockPath,
     UnlockDb, chromadb, registry, SharedTypes
<1>9. CASE EnsureStale(t) \/ Ready(t)
  BY <1>0, <1>1, <1>9 DEF EnsureStale, Ready, LockPath, UnlockDb, chromadb,
     registry, instance, SharedTypes
<1>10. CASE CloseRelease(t) \/ CloseMark(t)
  BY <1>0, <1>1, <1>10 DEF CloseRelease, HoldersWithout, CloseMark, chromadb,
     registry, instance, locks, SharedTypes
<1>11. CASE RebuildMark(t) \/ RestoreSwap(t)
  BY <1>0, <1>1, <1>11 DEF RebuildMark, RestoreSwap, LockPath, chromadb, registry,
     locks, SharedTypes
<1>12. CASE SwapDone(t) \/ RebuildFails(t) \/ RebuildPool(t)
  BY <1>0, <1>1, <1>12 DEF SwapDone, RebuildFails, RebuildPool, UnlockPath,
     chromadb, registry, instance, locks, SharedTypes
<1> QED BY <1>2, <1>3, <1>4, <1>5, <1>6, <1>7, <1>8, <1>9, <1>10, <1>11, <1>12
     DEF Continue

LEMMA FirstStepType == \A op \in AllOps : FirstStep(op) \in Steps /\ FirstStep(op) # "idle"
  BY DEF FirstStep, AllOps, Steps

LEMMA BeginTypes ==
  ASSUME TypeOK, NEW t \in Threads, NEW i \in Inst, NEW op \in Ops, Begin(t, i, op)
  PROVE  TypeOK'
<1>1. pc' \in [Threads -> Steps] /\ local' \in [Threads -> Locals]
  BY FirstStepType, OpsAssumption DEF Begin, TypeOK, Locals
<1> QED BY <1>1 DEF Begin, TypeOK, chromadb, registry, locks

LEMMA CollectTypes ==
  ASSUME TypeOK, NEW i \in Inst, Collect(i)
  PROVE  TypeOK'
  BY DEF Collect, TypeOK, chromadb, locks

LEMMA NextTypes == TypeOK /\ [Next]_vars => TypeOK'
<1> SUFFICES ASSUME TypeOK, [Next]_vars PROVE TypeOK'
  OBVIOUS
<1>1. CASE UNCHANGED vars
  BY <1>1 DEF vars, TypeOK
<1> QED BY <1>1, ContinueTypes, BeginTypes, CollectTypes DEF Next

\* Every variable of the pool keeps its type, for any threads and instances.
THEOREM PoolTypes == Spec => []TypeOK
  BY InitTypes, NextTypes, PTL DEF Spec

-----------------------------------------------------------------------------
(***************************************************************************)
(* Who holds the locks.                                                    *)
(***************************************************************************)
\* What a step of t may do to the locks for Control to stay.
LEMMA ControlKept ==
  ASSUME TypeOK, Control, NEW t \in Threads, pc[t] # "idle",
         NEW step \in Steps, Moved(t, step),
         step # "idle" => Fits(step, local[t].op),
         opened' = opened,
         step \in PathSteps <=> pathLock' = t,
         \A u \in Threads \ {t} : pathLock' = u <=> pathLock = u,
         \A i \in Inst : dbLock'[i] # NoThread =>
           \/ dbLock'[i] = dbLock[i] /\ (dbLock[i] = t => step # "idle")
           \/ /\ dbLock'[i] = t /\ i = I(t) /\ step # "idle"
              /\ local[t].op \in {"journal", "restore"}
  PROVE  Control'
<1>1. \A u \in Threads : pc'[u] \in PathSteps <=> pathLock' = u
  BY DEF Control, Moved
<1>2. \A u \in Threads : local'[u].inst = local[u].inst /\ local'[u].op = local[u].op
  BY DEF Moved
<1>3. ASSUME NEW i \in Inst, dbLock'[i] # NoThread
      PROVE  /\ pc'[dbLock'[i]] # "idle" /\ local'[dbLock'[i]].inst = i
             /\ local'[dbLock'[i]].op \in {"journal", "restore"}
  <2>1. CASE dbLock'[i] = dbLock[i] /\ (dbLock[i] = t => step # "idle")
    <3>1. dbLock[i] \in Threads
      BY <1>3, <2>1 DEF TypeOK
    <3> QED BY <1>2, <1>3, <2>1, <3>1 DEF Control, Moved, I
  <2>2. CASE /\ dbLock'[i] = t /\ i = I(t) /\ step # "idle"
             /\ local[t].op \in {"journal", "restore"}
    BY <1>2, <2>2 DEF Moved, I
  <2> QED BY <1>3, <2>1, <2>2
<1>4. ASSUME NEW u \in Threads, pc'[u] # "idle"
      PROVE  /\ Fits(pc'[u], local'[u].op) /\ local'[u].inst \in opened'
             /\ \A v \in Threads :
                  pc'[v] # "idle" /\ local'[v].inst = local'[u].inst /\ v # u =>
                    local'[u].op \notin {"open", "close"}
  <2>1. pc[u] # "idle" /\ \A v \in Threads : pc'[v] # "idle" => pc[v] # "idle"
    BY <1>4 DEF Moved
  <2>2. Fits(pc'[u], local'[u].op)
    BY <1>2, <1>4, <2>1 DEF Control, Moved
  <2> QED BY <1>2, <2>1, <2>2 DEF Control, I
<1> QED BY <1>1, <1>3, <1>4 DEF Control, I

LEMMA ContinueControl ==
  ASSUME TypeOK, Control, NEW t \in Threads, Continue(t)
  PROVE  Control'
<1> USE DEF AttachSteps, NoClientYet, SwapSteps, StaleSteps, CloseSteps, PathSteps
<1>0. /\ pc[t] # "idle" /\ Fits(pc[t], local[t].op)
      /\ pc[t] \in PathSteps <=> pathLock = t
      /\ t # NoThread /\ NoThread \notin Threads
      /\ None \in Systems \cup {None} /\ cached \in Systems \cup {None}
      /\ \A i \in Inst : dbLock[i] = t => I(t) = i /\ local[t].op \in {"journal", "restore"}
  BY ContinueMoves, ThreadAssumption DEF Control, TypeOK
\* A step that leaves the locks alone.
<1>1. ASSUME NEW step \in Steps, Moved(t, step), Fits(step, local[t].op),
             step # "idle", opened' = opened, UNCHANGED locks,
             pc[t] \in PathSteps <=> step \in PathSteps
      PROVE  Control'
  BY <1>0, <1>1, ControlKept DEF locks
<1>2. ASSUME NEW step \in Steps, Moved(t, step), Fits(step, local[t].op),
             step # "idle", opened' = opened, dbLock' = dbLock, LockPath(t),
             step \in PathSteps
      PROVE  Control'
  BY <1>0, <1>2, ControlKept DEF LockPath
<1>3. CASE OpenLock(t) \/ EnsureStale(t) \/ RebuildLock(t)
  <2>1. "attach_take" \in Steps /\ "rb_mark" \in Steps
    BY DEF Steps
  <2> QED BY <1>0, <1>2, <1>3, <2>1, GotoMoves
          DEF OpenLock, EnsureStale, RebuildLock, instance, Fits
<1>4. CASE RestoreSwap(t)
  BY <1>0, <1>2, <1>4, SwapMoves DEF RestoreSwap, Fits, Steps
<1>5. CASE DbLock(t)
  <2>1. Moved(t, "ensure")
    BY <1>5, GotoMoves DEF DbLock, Steps
  <2>2. opened' = opened /\ pathLock' = pathLock
    BY <1>5 DEF DbLock, instance
  <2>3. local[t].op \in {"journal", "restore"} /\ Fits("ensure", local[t].op)
    BY <1>0, <1>5 DEF DbLock, Fits
  <2>4. \A i \in Inst : dbLock'[i] = IF i = I(t) THEN t ELSE dbLock[i]
    BY <1>5 DEF DbLock, TypeOK
  <2> QED BY <1>0, <1>5, <2>1, <2>2, <2>3, <2>4, ControlKept DEF DbLock, Steps
<1>6. CASE AttachTake(t) \/ AttachFind(t) \/ AttachHold(t)
  BY <1>0, <1>1, <1>6, GotoMoves DEF AttachTake, AttachFind, AttachHold, Take,
     instance, locks, Fits, Steps
<1>7. CASE AttachEvict(t) \/ AttachStop(t)
  BY <1>0, <1>1, <1>7, KeepMoves DEF AttachEvict, AttachStop, Evict, Stop,
     instance, Fits, Steps
<1>8. CASE AttachMake(t) \/ AttachPut(t)
  <2>1. local[t].op # "close"
    BY <1>0, <1>8 DEF AttachMake, AttachPut, Fits
  <2> QED BY <1>0, <1>1, <1>8, <2>1, KeepMoves DEF AttachMake, AttachPut, instance,
          Fits, Steps
<1>9. CASE AttachCheck(t) \/ AttachFails(t)
  <2>1. AttachEnd(t) /\ pc[t] \in {"attach_check", "attach_make"}
    BY <1>9 DEF AttachCheck, AttachFails
  <2>2. opened' = opened /\ pathLock' = NoThread
    BY <2>1 DEF AttachEnd, UnlockPath
  <2>3. pathLock = t
    BY <1>0, <2>1
  <2>4. CASE local[t].op = "open" \/ local[t].swapped
    <3>1. Moved(t, "idle")
      BY <2>1, <2>4, ReturnMoves DEF AttachEnd
    <3>2. \A i \in Inst : dbLock'[i] = IF i = I(t) /\ dbLock[i] = t THEN NoThread
                                      ELSE dbLock[i]
      BY <2>1, <2>4 DEF AttachEnd, UnlockDb, TypeOK
    <3>3. \A i \in Inst : dbLock'[i] # NoThread => dbLock'[i] = dbLock[i] /\ dbLock[i] # t
      BY <1>0, <3>2
    <3> QED BY <1>0, <2>2, <2>3, <3>1, <3>3, ControlKept DEF Steps
  <2>5. CASE ~(local[t].op = "open" \/ local[t].swapped)
    <3>1. Moved(t, "ready") /\ dbLock' = dbLock
      BY <2>1, <2>5, GotoMoves DEF AttachEnd, Steps
    <3>2. Fits("ready", local[t].op)
      BY <1>0, <2>1, <2>5 DEF Fits
    <3> QED BY <1>0, <2>2, <2>3, <3>1, <3>2, ControlKept DEF Steps
  <2> QED BY <2>4, <2>5
<1>10. CASE Ensure(t)
  BY <1>0, <1>1, <1>10, GotoMoves DEF Ensure, instance, Fits, Steps
<1>11. CASE Ready(t)
  <2>1. opened' = opened /\ pathLock' = pathLock /\ pathLock # t
    BY <1>0, <1>11 DEF Ready, instance
  <2>2. CASE local[t].op \in {"rebuild", "restore"}
    <3>1. dbLock' = dbLock /\ \/ Moved(t, "rb_count") /\ local[t].op = "rebuild"
                              \/ Moved(t, "rs_lock") /\ local[t].op = "restore"
      BY <1>11, <2>2, GotoMoves DEF Ready, Steps
    <3> QED BY <1>0, <1>1, <2>1, <3>1 DEF Fits, Steps, locks
  <2>3. CASE local[t].op \notin {"rebuild", "restore"}
    <3>1. Moved(t, "idle") /\ UnlockDb(t)
      BY <1>11, <2>3, ReturnMoves DEF Ready
    <3>2. \A i \in Inst : dbLock'[i] = IF i = I(t) /\ dbLock[i] = t THEN NoThread
                                      ELSE dbLock[i]
      BY <3>1 DEF UnlockDb, TypeOK
    <3>3. \A i \in Inst : dbLock'[i] # NoThread => dbLock'[i] = dbLock[i] /\ dbLock[i] # t
      BY <1>0, <3>2
    <3> QED BY <1>0, <2>1, <3>1, <3>3, ControlKept DEF Steps
  <2> QED BY <2>2, <2>3
<1>12. CASE CloseRelease(t) \/ CloseMark(t)
  BY <1>0, <1>1, <1>12, GotoMoves DEF CloseRelease, CloseMark, instance, Fits, Steps
\* A step that ends an operation other than journal and restore.
<1>13. ASSUME Moved(t, "idle"), opened' = opened, dbLock' = dbLock,
              local[t].op \in {"close", "rebuild"},
              pathLock' = IF pathLock = t THEN NoThread ELSE pathLock
       PROVE  Control'
  BY <1>0, <1>13, ControlKept DEF Steps
<1>14. CASE CloseTake(t)
  <2>1. Moved(t, "close_evict") \/ Moved(t, "idle")
    BY <1>14, GotoMoves DEF CloseTake, Take, Steps
  <2> QED BY <1>0, <1>1, <1>13, <1>14, <2>1 DEF CloseTake, Take, instance, locks,
          Fits, Steps
<1>15. CASE CloseEvict(t) \/ SwapEvict(t) \/ SwapStop(t)
  BY <1>0, <1>1, <1>15, KeepMoves DEF CloseEvict, SwapEvict, SwapStop, Evict, Stop,
     instance, Fits, Steps
<1>16. CASE CloseStop(t)
  <2>1. Moved(t, "idle")
    BY <1>0, <1>16, KeepMoves DEF CloseStop, Stop, Steps
  <2> QED BY <1>0, <1>13, <1>16, <2>1 DEF CloseStop, Stop, instance, locks, Fits
<1>17. CASE RebuildCount(t)
  <2>1. Moved(t, "rb_lock") \/ Moved(t, "idle")
    BY <1>17, GotoMoves, ReturnMoves DEF RebuildCount, Steps
  <2> QED BY <1>0, <1>1, <1>13, <1>17, <2>1 DEF RebuildCount, instance, locks,
          Fits, Steps
<1>18. CASE RebuildMark(t)
  BY <1>0, <1>1, <1>18, SwapMoves DEF RebuildMark, Fits, Steps
<1>19. CASE RebuildCopyFails(t) \/ RebuildPool(t)
  <2>1. Moved(t, "idle")
    BY <1>19, ReturnMoves DEF RebuildCopyFails, RebuildPool
  <2> QED BY <1>0, <1>13, <1>19, <2>1 DEF RebuildCopyFails, RebuildPool, UnlockPath,
          instance, Fits
<1>20. CASE SwapDone(t) \/ RebuildFails(t) \/ RebuildMake(t)
  BY <1>0, <1>1, <1>20, GotoMoves DEF SwapDone, RebuildFails, RebuildMake, Fits, Steps
<1> QED BY <1>3, <1>4, <1>5, <1>6, <1>7, <1>8, <1>9, <1>10, <1>11, <1>12, <1>14,
       <1>15, <1>16, <1>17, <1>18, <1>19, <1>20 DEF Continue

LEMMA NextControl == TypeOK /\ Control /\ [Next]_vars => Control'
<1> SUFFICES ASSUME TypeOK, Control, [Next]_vars PROVE Control'
  OBVIOUS
<1>1. CASE UNCHANGED vars
  BY <1>1 DEF vars, Control, I
<1>2. ASSUME NEW t \in Threads, NEW i \in Inst, NEW op \in Ops, Begin(t, i, op)
      PROVE  Control'
  <2>1. /\ pc' = [pc EXCEPT ![t] = FirstStep(op)] /\ opened' = opened \cup {i}
        /\ local' = [local EXCEPT ![t] = [inst |-> i, op |-> op, swapped |-> FALSE,
                                          system |-> None]]
        /\ pathLock' = pathLock /\ dbLock' = dbLock /\ pc[t] = "idle"
    BY <1>2 DEF Begin, locks
  <2>2. FirstStep(op) \notin PathSteps /\ FirstStep(op) # "idle" /\ Fits(FirstStep(op), op)
    BY OpsAssumption DEF FirstStep, AllOps, PathSteps, StaleSteps, AttachSteps,
       NoClientYet, SwapSteps, CloseSteps, Fits
  <2>3. pathLock # t /\ \A j \in Inst : dbLock[j] # t
    BY <2>1, ThreadAssumption DEF Control, PathSteps, StaleSteps, AttachSteps,
       NoClientYet, SwapSteps
  <2>4. /\ pc'[t] = FirstStep(op) /\ local'[t].inst = i /\ local'[t].op = op
        /\ \A u \in Threads \ {t} : pc'[u] = pc[u] /\ local'[u] = local[u]
    BY <2>1 DEF TypeOK
  <2>5. \A u \in Threads : pc'[u] \in PathSteps <=> pathLock' = u
    BY <2>1, <2>2, <2>3, <2>4 DEF Control
  <2>6. \A j \in Inst : dbLock'[j] # NoThread =>
          /\ pc'[dbLock'[j]] # "idle" /\ local'[dbLock'[j]].inst = j
          /\ local'[dbLock'[j]].op \in {"journal", "restore"}
    BY <2>1, <2>3, <2>4 DEF Control, TypeOK, I
  <2>7. \A u \in Threads \ {t} : pc[u] # "idle" /\ I(u) = i =>
          local[u].op \notin {"open", "close"} /\ op \notin {"open", "close"}
    <3>1. \A u \in Threads : pc[u] # "idle" /\ I(u) = i => u \in Busy(i) /\ i \in opened
      BY DEF Busy, Control
    <3> QED BY <1>2, <3>1 DEF Begin
  <2>8. \A u \in Threads : pc'[u] # "idle" =>
          /\ Fits(pc'[u], local'[u].op) /\ local'[u].inst \in opened'
          /\ \A v \in Threads :
               pc'[v] # "idle" /\ local'[v].inst = local'[u].inst /\ v # u =>
                 local'[u].op \notin {"open", "close"}
    <3>1. ASSUME NEW u \in Threads, pc'[u] # "idle"
          PROVE  Fits(pc'[u], local'[u].op) /\ local'[u].inst \in opened'
      BY <2>1, <2>2, <2>4, <3>1 DEF Control, I
    <3>2. ASSUME NEW u \in Threads, pc'[u] # "idle", NEW v \in Threads,
                 pc'[v] # "idle", local'[v].inst = local'[u].inst, v # u
          PROVE  local'[u].op \notin {"open", "close"}
      <4>1. CASE u = t
        BY <2>4, <2>7, <3>2, <4>1 DEF I
      <4>2. CASE v = t
        BY <2>4, <2>7, <3>2, <4>2 DEF I
      <4>3. CASE u # t /\ v # t
        BY <2>4, <3>2, <4>3 DEF Control, I
      <4> QED BY <4>1, <4>2, <4>3
    <3> QED BY <3>1, <3>2
  <2> QED BY <2>5, <2>6, <2>8 DEF Control, I
<1>3. ASSUME NEW i \in Inst, Collect(i) PROVE Control'
  <2>1. /\ pc' = pc /\ local' = local /\ pathLock' = pathLock /\ dbLock' = dbLock
        /\ opened' = opened \ {i}
        /\ \A u \in Threads : pc[u] # "idle" => I(u) # i
    BY <1>3 DEF Collect, locks, Busy
  <2> QED BY <2>1 DEF Control, I
<1> QED BY <1>1, <1>2, <1>3, ContinueControl DEF Next

-----------------------------------------------------------------------------
(***************************************************************************)
(* Systems.                                                                *)
(***************************************************************************)
LEMMA ImageBound ==
  ASSUME NEW S, IsFiniteSet(S), NEW T, NEW f \in [S -> T]
  PROVE  /\ IsFiniteSet({f[x] : x \in S})
         /\ Cardinality({f[x] : x \in S}) <= Cardinality(S)
<1>1. f \in Surjection(S, {f[x] : x \in S})
  BY DEF Surjection
<1> QED BY <1>1, FS_Surjection

LEMMA UnionBound ==
  ASSUME NEW S, NEW T, IsFiniteSet(S), IsFiniteSet(T)
  PROVE  /\ IsFiniteSet(S \cup T)
         /\ Cardinality(S \cup T) <= Cardinality(S) + Cardinality(T)
<1>1. /\ IsFiniteSet(S \cup T) /\ IsFiniteSet(S \cap T)
      /\ Cardinality(S \cup T) = Cardinality(S) + Cardinality(T) - Cardinality(S \cap T)
  BY FS_Union, FS_Intersection
<1>2. Cardinality(S \cap T) \in Nat /\ Cardinality(S) \in Nat /\ Cardinality(T) \in Nat
  BY <1>1, FS_CardinalityType
<1> QED BY <1>1, <1>2

\* There is always a name for a new System: what runs is cached or held by the
\* thread that will stop it.
LEMMA SomeUnused ==
  ASSUME TypeOK, SystemsInv
  PROVE  Unused # {}
<1> DEFINE systems == [t \in Threads |-> local[t].system]
           P == {pool, cached}
           C == {client[i] : i \in Inst}
           L == {systems[t] : t \in Threads}
<1>1. IsFiniteSet(P) /\ Cardinality(P) <= 2
  <2>1. IsFiniteSet({pool}) /\ Cardinality({pool}) = 1 /\ P = {pool} \cup {cached}
    BY FS_Singleton
  <2>2. /\ IsFiniteSet({pool} \cup {cached})
        /\ Cardinality({pool} \cup {cached}) = IF cached \in {pool} THEN 1 ELSE 2
    BY <2>1, FS_AddElement
  <2> QED BY <2>1, <2>2
<1>2. IsFiniteSet(C) /\ Cardinality(C) <= Cardinality(Inst)
  BY InstAssumption, ImageBound DEF TypeOK
<1>3. IsFiniteSet(L) /\ Cardinality(L) <= Cardinality(Threads)
  <2>1. systems \in [Threads -> Systems \cup {None}]
    BY DEF TypeOK, Locals
  <2> HIDE DEF systems
  <2> QED BY <2>1, ThreadAssumption, ImageBound
<1>4. L = {local[t].system : t \in Threads}
  OBVIOUS
<1>5. live \subseteq P \cup L
  BY <1>4 DEF SystemsInv
<1>6. Unused = Systems \ ((P \cup C) \cup L)
  BY <1>4, <1>5 DEF Unused
<1> HIDE DEF P, C, L
<1>7. /\ IsFiniteSet((P \cup C) \cup L)
      /\ Cardinality(P \cup C) <= Cardinality(P) + Cardinality(C)
      /\ Cardinality((P \cup C) \cup L) <= Cardinality(P \cup C) + Cardinality(L)
      /\ IsFiniteSet(P \cup C)
  BY <1>1, <1>2, <1>3, UnionBound
<1>8. /\ Cardinality(P) \in Nat /\ Cardinality(C) \in Nat /\ Cardinality(L) \in Nat
      /\ Cardinality(P \cup C) \in Nat /\ Cardinality((P \cup C) \cup L) \in Nat
      /\ Cardinality(Inst) \in Nat /\ Cardinality(Threads) \in Nat
      /\ Cardinality(Systems) \in Nat
  BY <1>1, <1>2, <1>3, <1>7, InstAssumption, ThreadAssumption, SystemsAssumption,
     FS_CardinalityType
<1>9. Cardinality((P \cup C) \cup L) < Cardinality(Systems)
  BY <1>1, <1>2, <1>3, <1>7, <1>8, SystemsAssumption
<1> SUFFICES ASSUME Unused = {} PROVE FALSE
  OBVIOUS
<1>10. Systems \in SUBSET ((P \cup C) \cup L)
  BY <1>6
<1>11. Cardinality(Systems) <= Cardinality((P \cup C) \cup L)
  BY <1>7, <1>10, FS_Subset
<1> QED BY <1>8, <1>9, <1>11

\* A new System is one that nothing refers to.
LEMMA NewIsUnused ==
  ASSUME TypeOK, SystemsInv, NEW s, MakeSystem(s), cached = None
  PROVE  s \in Unused
<1>1. Unused \subseteq Nat
  BY SystemsAssumption DEF Unused
<1>2. PICK u \in Unused : \A v \in Unused : <<v, u>> \notin OpToRel(<, Nat)
  BY <1>1, SomeUnused, NatLessThanWellFounded, WFMin
<1>3. ASSUME NEW v \in Unused PROVE u <= v
  <2>1. u \in Nat /\ v \in Nat
    BY <1>1
  <2>2. ~ (v < u)
    BY <1>2, <2>1 DEF OpToRel
  <2> QED BY <2>1, <2>2
<1>4. s = CHOOSE w \in Unused : \A v \in Unused : w <= v
  BY DEF MakeSystem
<1> QED BY <1>3, <1>4

LEMMA NoneIsNoSystem == None \notin Systems
  BY SystemsAssumption DEF None

\* A step that does nothing to Systems, nor stands where they are counted on.
LEMMA SystemsKept ==
  ASSUME TypeOK, SystemsInv, NEW t \in Threads, NEW step \in Steps, Moved(t, step),
         UNCHANGED chromadb,
         pc[t] \notin StopSteps \cup {"swap_evict"},
         step \in StopSteps \cup {"swap_done", "rb_make"} =>
           pc[t] \in {"swap_done", "rb_make"} /\ step \notin StopSteps
  PROVE  SystemsInv'
<1>1. live' = live /\ cached' = cached /\ current' = current
  BY DEF chromadb
<1>2. \A u \in Threads : pc[u] \in StopSteps \cup {"swap_evict"} =>
        pc'[u] = pc[u] /\ local'[u] = local[u]
  BY DEF Moved
<1>3. \A u \in Threads :
        /\ pc'[u] \in StopSteps => pc'[u] = pc[u] /\ local'[u] = local[u]
        /\ pc'[u] \in {"swap_done", "rb_make", "swap_stop"} =>
             pc[u] \in {"swap_done", "rb_make", "swap_stop"}
  BY DEF Moved, StopSteps
<1> QED BY <1>1, <1>2, <1>3 DEF SystemsInv, StopSteps

LEMMA EvictSystems ==
  ASSUME TypeOK, SystemsInv, NEW t \in Threads, NEW stop \in StopSteps,
         pc[t] \notin StopSteps, Evict(t, stop)
  PROVE  SystemsInv'
<1>1. /\ live' = live /\ cached' = None /\ current' = current
      /\ Moved(t, stop) /\ local'[t].system = cached
  BY KeepMoves DEF Evict, UncachedSystem, TypeOK, Steps, StopSteps
<1>2. ASSUME NEW s \in live'
      PROVE  \E u \in Threads : pc'[u] \in StopSteps /\ local'[u].system = s
  <2>1. CASE s = cached
    BY <1>1, <2>1 DEF Moved
  <2>2. CASE s # cached
    BY <1>1, <1>2, <2>2 DEF SystemsInv, Moved
  <2> QED BY <2>1, <2>2
<1> QED BY <1>1, <1>2 DEF SystemsInv

LEMMA StopSystems ==
  ASSUME TypeOK, SystemsInv, NEW t \in Threads, NEW after \in Steps \ StopSteps,
         pc[t] \in StopSteps, after \in {"swap_done", "rb_make"} => pc[t] = "swap_stop",
         Stop(t, after)
  PROVE  SystemsInv'
<1>1. /\ live' = live \ {local[t].system} /\ cached' = cached /\ current' = current
      /\ Moved(t, after) /\ local'[t].system = None
  BY KeepMoves DEF Stop, TypeOK
<1>2. \A s \in live' :
        s = cached \/ \E u \in Threads : pc'[u] \in StopSteps /\ local'[u].system = s
  BY <1>1 DEF SystemsInv, Moved
<1>3. cached # None => cached \in live'
  BY <1>1 DEF SystemsInv
<1>4. \A u \in Threads : pc[u] = "swap_evict" => pc'[u] = "swap_evict"
  BY <1>1 DEF Moved, StopSteps
<1>5. \A u \in Threads :
        /\ pc'[u] \in StopSteps => pc[u] \in StopSteps /\ local'[u] = local[u]
        /\ pc'[u] \in {"swap_stop", "swap_done", "rb_make"} =>
             pc[u] \in {"swap_stop", "swap_done", "rb_make"}
  BY <1>1 DEF Moved, StopSteps
<1> QED BY <1>1, <1>2, <1>3, <1>4, <1>5 DEF SystemsInv

LEMMA MakeSystems ==
  ASSUME TypeOK, Control, SystemsInv, NEW t \in Threads,
         NEW step \in {"attach_put", "rb_pool"}, Moved(t, step),
         pc[t] \in {"attach_make", "rb_make"}, NEW s \in Systems, MakeSystem(s)
  PROVE  SystemsInv'
<1>1. cached' = s /\ s # None
  BY NoneIsNoSystem DEF MakeSystem
<1>2. \A u \in Threads : pc'[u] \in PathSteps => u = t
  BY DEF Control, Moved, PathSteps, StaleSteps, AttachSteps, NoClientYet
<1>3. \A u \in Threads : pc'[u] \notin {"swap_stop", "swap_done", "rb_make"}
  BY <1>2 DEF Moved, PathSteps, StaleSteps, SwapSteps
<1>4. \A u \in Threads : /\ pc[u] \in StopSteps => pc'[u] = pc[u] /\ local'[u] = local[u]
                         /\ pc'[u] \in StopSteps => pc'[u] = pc[u] /\ local'[u] = local[u]
                         /\ pc[u] = "swap_evict" => pc'[u] = "swap_evict"
  BY DEF Moved, StopSteps
<1>5. CASE cached # None
  BY <1>1, <1>3, <1>4, <1>5 DEF SystemsInv, MakeSystem
<1>6. CASE cached = None
  <2>1. live' = live \cup {s} /\ current' = current \cup {s}
    BY <1>6 DEF MakeSystem
  <2>2. \A u \in Threads : local[u].system # s
    BY <1>6, NewIsUnused DEF Unused
  <2>3. None \notin live
    BY NoneIsNoSystem DEF TypeOK
  <2> QED BY <1>1, <1>3, <1>4, <1>6, <2>1, <2>2, <2>3 DEF SystemsInv
<1> QED BY <1>5, <1>6

LEMMA ContinueSystems ==
  ASSUME TypeOK, Control, SystemsInv, NEW t \in Threads, Continue(t)
  PROVE  SystemsInv'
<1>1. CASE \/ OpenLock(t) \/ DbLock(t) \/ AttachTake(t) \/ AttachFind(t)
           \/ AttachHold(t) \/ Ensure(t) \/ EnsureStale(t)
  BY <1>1, GotoMoves, SystemsKept DEF OpenLock, DbLock, AttachTake, AttachFind,
     AttachHold, Ensure, EnsureStale, Take, Steps, StopSteps
<1>2. CASE AttachEvict(t) \/ CloseEvict(t) \/ SwapEvict(t)
  BY <1>2, EvictSystems DEF AttachEvict, CloseEvict, SwapEvict, StopSteps
<1>3. CASE AttachStop(t) \/ CloseStop(t) \/ SwapStop(t)
  BY <1>3, StopSystems DEF AttachStop, CloseStop, SwapStop, StopSteps, Steps
<1>4. CASE AttachMake(t)
  BY <1>4, KeepMoves, MakeSystems DEF AttachMake, Steps
<1>5. CASE RebuildMake(t)
  BY <1>5, GotoMoves, MakeSystems DEF RebuildMake, Steps
<1>6. CASE AttachPut(t)
  <2>1. local[t].system \in Systems \cup {None} /\ None \in Systems \cup {None}
    BY DEF TypeOK, Locals
  <2> QED BY <1>6, <2>1, KeepMoves, SystemsKept DEF AttachPut, Steps, StopSteps
<1>7. CASE AttachCheck(t) \/ AttachFails(t)
  BY <1>7, GotoMoves, ReturnMoves, SystemsKept DEF AttachCheck, AttachFails,
     AttachEnd, Steps, StopSteps
<1>8. CASE Ready(t)
  BY <1>8, GotoMoves, ReturnMoves, SystemsKept DEF Ready, Steps, StopSteps
<1>9. CASE CloseRelease(t) \/ CloseMark(t) \/ CloseTake(t)
  BY <1>9, GotoMoves, SystemsKept DEF CloseRelease, CloseMark, CloseTake, Take,
     Steps, StopSteps
<1>10. CASE RebuildCount(t) \/ RebuildLock(t) \/ RebuildCopyFails(t) \/ RebuildPool(t)
  BY <1>10, GotoMoves, ReturnMoves, SystemsKept DEF RebuildCount, RebuildLock,
     RebuildCopyFails, RebuildPool, Steps, StopSteps
<1>11. CASE RebuildMark(t)
  BY <1>11, SwapMoves, SystemsKept DEF RebuildMark, Steps, StopSteps
<1>12. CASE RestoreSwap(t)
  <2>1. Moved(t, "swap_evict") /\ live' = live /\ cached' = cached
    BY <1>12, SwapMoves DEF RestoreSwap
  <2>2. \A u \in Threads :
          /\ pc'[u] \in StopSteps => pc'[u] = pc[u] /\ local'[u] = local[u]
          /\ pc[u] \in StopSteps => pc'[u] = pc[u] /\ local'[u] = local[u]
          /\ pc'[u] \in {"swap_stop", "swap_done", "rb_make"} => pc'[u] = pc[u]
    BY <1>12, <2>1 DEF RestoreSwap, Moved, StopSteps
  <2>3. pc'[t] = "swap_evict"
    BY <2>1 DEF Moved
  <2> QED BY <2>1, <2>2, <2>3 DEF SystemsInv
<1>13. CASE SwapDone(t)
  <2>1. cached = None /\ live' = live /\ cached' = cached
    BY <1>13 DEF SwapDone, SystemsInv
  <2>2. Moved(t, "rb_make") \/ Moved(t, "attach_take")
    BY <1>13, GotoMoves DEF SwapDone, Steps
  <2>3. \A u \in Threads :
          /\ pc'[u] \in StopSteps => pc'[u] = pc[u] /\ local'[u] = local[u]
          /\ pc[u] \in StopSteps => pc'[u] = pc[u] /\ local'[u] = local[u]
    BY <1>13, <2>2 DEF SwapDone, Moved, StopSteps
  <2> QED BY <2>1, <2>3 DEF SystemsInv
<1>14. CASE RebuildFails(t)
  BY <1>14, GotoMoves, SystemsKept DEF RebuildFails, Steps, StopSteps
<1> QED BY <1>1, <1>2, <1>3, <1>4, <1>5, <1>6, <1>7, <1>8, <1>9, <1>10, <1>11, <1>12,
       <1>13, <1>14 DEF Continue

\* Begin and Collect leave the Systems alone, and the threads that are at work.
LEMMA OtherSystems ==
  ASSUME TypeOK, SystemsInv, UNCHANGED chromadb,
         \A u \in Threads : \/ pc'[u] = pc[u] /\ local'[u] = local[u]
                            \/ /\ pc[u] = "idle"
                               /\ pc'[u] \in {"open_lock", "close_release", "ensure", "db_lock"}
  PROVE  SystemsInv'
  BY DEF SystemsInv, chromadb, StopSteps

LEMMA NextSystems == TypeOK /\ Control /\ SystemsInv /\ [Next]_vars => SystemsInv'
<1> SUFFICES ASSUME TypeOK, Control, SystemsInv, [Next]_vars PROVE SystemsInv'
  OBVIOUS
<1>1. CASE UNCHANGED vars
  BY <1>1, OtherSystems DEF vars, chromadb
<1>2. ASSUME NEW t \in Threads, NEW i \in Inst, NEW op \in Ops, Begin(t, i, op)
      PROVE  SystemsInv'
  <2>1. FirstStep(op) \in {"open_lock", "close_release", "ensure", "db_lock"}
    BY OpsAssumption DEF FirstStep, AllOps
  <2>2. \A u \in Threads : \/ pc'[u] = pc[u] /\ local'[u] = local[u]
                           \/ pc[u] = "idle" /\ pc'[u] = FirstStep(op)
    BY <1>2 DEF Begin, TypeOK
  <2> QED BY <1>2, <2>1, <2>2, OtherSystems DEF Begin
<1>3. ASSUME NEW i \in Inst, Collect(i) PROVE SystemsInv'
  BY <1>3, OtherSystems DEF Collect
<1> QED BY <1>1, <1>2, <1>3, ContinueSystems DEF Next

-----------------------------------------------------------------------------
(***************************************************************************)
(* Clients and holders.                                                    *)
(***************************************************************************)
\* The instance of a thread that attaches an instance it opens is its alone.
LEMMA ControlFacts ==
  ASSUME Control, TypeOK, NEW t \in Threads, pc[t] # "idle"
  PROVE  /\ Fits(pc[t], local[t].op) /\ I(t) \in opened /\ I(t) \in Inst
         /\ pc[t] \in PathSteps => \A u \in Threads : pc[u] \in PathSteps => u = t
         /\ local[t].op \in {"open", "close"} =>
              \A u \in Threads : pc[u] # "idle" /\ I(u) = I(t) => u = t
         /\ \A u \in Threads : pc[u] # "idle" /\ I(u) = I(t) /\ u # t =>
              local[u].op \notin {"open", "close"}
  BY DEF Control, TypeOK, I, Locals

LEMMA ContinueClients ==
  ASSUME TypeOK, Control, SystemsInv, ClientsInv, NEW t \in Threads, Continue(t)
  PROVE  ClientsInv'
<1> DEFINE Near == {"attach_hold", "close_mark", "rb_pool"}
<1> USE DEF StaleSteps, AttachSteps, SwapSteps, NoClientYet
<1>0. /\ pc[t] # "idle" /\ Fits(pc[t], local[t].op) /\ I(t) \in opened /\ I(t) \in Inst
      /\ pc[t] \in PathSteps => \A u \in Threads : pc[u] \in PathSteps => u = t
      /\ local[t].op \in {"open", "close"} =>
           \A u \in Threads : pc[u] # "idle" /\ I(u) = I(t) => u = t
      /\ \A u \in Threads : pc[u] # "idle" /\ I(u) = I(t) /\ u # t =>
           local[u].op \notin {"open", "close"}
  BY ContinueMoves, ControlFacts
\* A step that changes neither clients nor holders.
<1>1. ASSUME NEW step \in Steps, Moved(t, step), UNCHANGED <<holders, instance>>,
             listed => listed' \/ holders = {},
             pc[t] \notin Near,
             step \in NoClientYet =>
               \/ client[I(t)] = None
               \/ pc[t] \in NoClientYet \cup {"open_lock"},
             step \in StaleSteps /\ local[t].op # "open" =>
               stale[I(t)] \/ pc[t] \in StaleSteps,
             step \in {"open_lock", "attach_check"} => pc[t] = step
      PROVE  ClientsInv'
  <2>1. /\ holders' = holders /\ client' = client /\ stale' = stale /\ opened' = opened
        /\ holders # {} => listed'
    BY <1>1 DEF instance, ClientsInv
  <2>2. \A u \in Threads : /\ local'[u].inst = local[u].inst /\ local'[u].op = local[u].op
                           /\ pc[u] \in Near => pc'[u] = pc[u]
                           /\ u # t => pc'[u] = pc[u]
    BY <1>1 DEF Moved
  <2>3. pc'[t] = step
    BY <1>1 DEF Moved
  <2> QED BY <1>1, <2>1, <2>2, <2>3 DEF ClientsInv, I
<1>2. CASE OpenLock(t) \/ DbLock(t) \/ Ensure(t) \/ RebuildCount(t) \/ RebuildLock(t)
           \/ RebuildCopyFails(t) \/ Ready(t)
  <2>1. CASE OpenLock(t)
    BY <1>0, <1>1, <2>1, GotoMoves DEF OpenLock, ClientsInv, registry, Steps, Fits
  <2>2. CASE DbLock(t) \/ Ensure(t) \/ RebuildLock(t)
    BY <1>1, <2>2, GotoMoves DEF DbLock, Ensure, RebuildLock, registry, Steps
  <2>3. CASE RebuildCount(t) \/ RebuildCopyFails(t) \/ Ready(t)
    BY <1>1, <2>3, GotoMoves, ReturnMoves DEF RebuildCount, RebuildCopyFails, Ready,
       registry, Steps
  <2> QED BY <1>2, <2>1, <2>2, <2>3
<1>3. CASE AttachTake(t) \/ CloseTake(t)
  BY <1>1, <1>3, GotoMoves DEF AttachTake, CloseTake, Take, Collected, Steps
<1>4. CASE AttachEvict(t) \/ CloseEvict(t) \/ SwapEvict(t)
  <2>1. cached \in Systems \cup {None}
    BY DEF TypeOK
  <2> QED BY <1>1, <1>4, <2>1, KeepMoves DEF AttachEvict, CloseEvict, SwapEvict,
          Evict, Steps
<1>5. CASE AttachStop(t) \/ CloseStop(t) \/ SwapStop(t)
  BY <1>1, <1>5, KeepMoves DEF AttachStop, CloseStop, SwapStop, Stop, registry, Steps
<1>6. CASE AttachMake(t)
  BY <1>1, <1>6, KeepMoves DEF AttachMake, registry, Steps
\* A step that changes no client but that of the instance it is about, while
\* nobody else attaches that instance.
<1>7. ASSUME NEW step \in Steps, Moved(t, step), opened' = opened,
             \A u \in Threads \ {t} : pc[u] \in StaleSteps \cup {"open_lock"} =>
                                        I(u) # I(t),
             \A i \in Inst \ {I(t)} :
               /\ client'[i] = client[i] /\ stale'[i] = stale[i]
               /\ i \in holders <=> i \in holders',
             holders' # {} => listed',
             client'[I(t)] # None /\ ~stale'[I(t)] =>
               I(t) \in holders' \/ step \in Near,
             step \in NoClientYet \cup {"open_lock"} => client'[I(t)] = None,
             step \in StaleSteps /\ local[t].op # "open" => stale'[I(t)],
             step = "attach_check" => I(t) \in holders'
      PROVE  ClientsInv'
  <2>1. \A u \in Threads : /\ local'[u].inst = I(u) /\ local'[u].op = local[u].op
                           /\ I(u) \in Inst
                           /\ u # t => pc'[u] = pc[u]
    BY <1>7 DEF Moved, I, TypeOK, Locals
  <2>2. pc'[t] = step
    BY <1>7 DEF Moved
  <2>3. ASSUME NEW i \in Inst
        PROVE  /\ client'[i] # None => i \in opened'
               /\ client'[i] # None /\ ~stale'[i] =>
                    \/ i \in holders'
                    \/ \E u \in Threads : pc'[u] \in Near /\ local'[u].inst = i
    <3>1. CASE i = I(t)
      BY <1>0, <1>7, <2>1, <2>2, <3>1
    <3>2. CASE i # I(t)
      BY <1>7, <2>1, <3>2 DEF ClientsInv
    <3> QED BY <3>1, <3>2
  <2>4. ASSUME NEW u \in Threads
        PROVE  /\ pc'[u] \in NoClientYet \cup {"open_lock"} =>
                    client'[local'[u].inst] = None
               /\ pc'[u] \in StaleSteps /\ local'[u].op # "open" =>
                    stale'[local'[u].inst]
               /\ pc'[u] = "attach_check" => local'[u].inst \in holders'
    <3>1. CASE u = t
      BY <1>7, <2>1, <2>2, <3>1
    <3>2. CASE u # t
      BY <1>7, <2>1, <3>2 DEF ClientsInv
    <3> QED BY <3>1, <3>2
  <2> QED BY <1>7, <2>3, <2>4 DEF ClientsInv, I
\* Nobody does while t is in the path lock.
<1>8. ASSUME pc[t] \in PathSteps, NEW u \in Threads \ {t},
             pc[u] \in StaleSteps \cup {"open_lock"}
      PROVE  I(u) # I(t)
  <2>1. pc[u] = "open_lock"
    BY <1>0, <1>8 DEF PathSteps
  <2>2. local[u].op = "open"
    BY <2>1, ControlFacts DEF Fits
  <2> QED BY <1>0, <2>1, <2>2
<1>9. CASE AttachFind(t)
  <2>1. CASE pool \in live
    <3>1. Moved(t, "attach_hold")
      BY <1>9, <2>1, GotoMoves DEF AttachFind, Steps
    <3>2. \A i \in Inst : client'[i] = IF i = I(t) THEN pool ELSE client[i]
      BY <1>9, <2>1 DEF AttachFind, TypeOK
    <3> QED BY <1>7, <1>8, <1>9, <3>1, <3>2 DEF AttachFind, ClientsInv, PathSteps, Steps
  <2>2. CASE pool \notin live
    <3>1. Moved(t, "attach_make")
      BY <1>9, <2>2, GotoMoves DEF AttachFind, Steps
    <3> QED BY <1>1, <1>9, <2>2, <3>1 DEF AttachFind, instance, Steps
  <2> QED BY <2>1, <2>2
<1>10. CASE AttachPut(t)
  <2>1. Moved(t, "attach_hold")
    BY <1>10, KeepMoves DEF AttachPut, Steps
  <2>2. \A i \in Inst : client'[i] = IF i = I(t) THEN local[t].system ELSE client[i]
    BY <1>10 DEF AttachPut, TypeOK
  <2> QED BY <1>7, <1>8, <1>10, <2>1, <2>2 DEF AttachPut, ClientsInv, PathSteps, Steps
<1>11. CASE AttachHold(t)
  <2>1. Moved(t, "attach_check")
    BY <1>11, GotoMoves DEF AttachHold, Steps
  <2> QED BY <1>7, <1>8, <1>11, <2>1 DEF AttachHold, instance, ClientsInv, PathSteps, Steps
<1>12. CASE AttachCheck(t) \/ AttachFails(t)
  <2>1. AttachEnd(t) /\ pc[t] \in {"attach_check", "attach_make"}
    BY <1>12 DEF AttachCheck, AttachFails
  <2>2. \E step \in {"idle", "ready"} : Moved(t, step)
    BY <2>1, GotoMoves, ReturnMoves DEF AttachEnd, Steps
  <2>3. \A i \in Inst : stale'[i] = IF i = I(t) THEN stale[i] /\ client[i] = None
                                    ELSE stale[i]
    BY <2>1 DEF AttachEnd, TypeOK
  <2>4. /\ client' = client /\ opened' = opened
        /\ holders' = holders /\ listed' = listed
    BY <2>1 DEF AttachEnd, registry
  <2>5. client[I(t)] # None => I(t) \in holders
    BY <2>1 DEF ClientsInv
  <2> QED BY <1>7, <1>8, <2>1, <2>2, <2>3, <2>4, <2>5 DEF ClientsInv, PathSteps, Steps
<1>13. CASE EnsureStale(t)
  <2>1. Moved(t, "attach_take") /\ pathLock = NoThread
    BY <1>13, GotoMoves DEF EnsureStale, LockPath, Steps
  <2>2. \A i \in Inst : client'[i] = IF i = I(t) THEN None ELSE client[i]
    BY <1>13 DEF EnsureStale, TypeOK
  <2>3. \A u \in Threads : pc[u] \notin PathSteps
    BY <2>1, ThreadAssumption DEF Control
  <2>4. \A u \in Threads \ {t} : pc[u] \in StaleSteps \cup {"open_lock"} => I(u) # I(t)
    <3>1. \A u \in Threads : pc[u] = "open_lock" => local[u].op = "open"
      BY ControlFacts DEF Fits
    <3> QED BY <1>0, <2>3, <3>1 DEF PathSteps
  <2> QED BY <1>0, <1>7, <1>13, <2>1, <2>2, <2>4 DEF EnsureStale, registry, ClientsInv, Steps
<1>14. CASE CloseRelease(t) \/ CloseMark(t)
  <2>1. \A u \in Threads \ {t} : pc[u] # "idle" => I(u) # I(t)
    BY <1>0, <1>14 DEF CloseRelease, CloseMark, Fits, CloseSteps
  <2>2. CASE CloseRelease(t)
    <3>1. Moved(t, "close_mark")
      BY <2>2, GotoMoves DEF CloseRelease, Steps
    <3> QED BY <1>7, <2>1, <2>2, <3>1 DEF CloseRelease, HoldersWithout, instance,
            ClientsInv, Steps
  <2>3. CASE CloseMark(t)
    <3>1. Moved(t, "close_take")
      BY <2>3, GotoMoves DEF CloseMark, Steps
    <3>2. \A i \in Inst : stale'[i] = IF i = I(t) THEN TRUE ELSE stale[i]
      BY <2>3 DEF CloseMark, TypeOK
    <3> QED BY <1>0, <1>7, <2>1, <2>3, <3>1, <3>2 DEF CloseMark, registry, ClientsInv, Steps
  <2> QED BY <1>14, <2>2, <2>3
<1>15. CASE RebuildMark(t) \/ RestoreSwap(t)
  <2>1. Moved(t, "swap_evict")
    BY <1>15, SwapMoves DEF RebuildMark, RestoreSwap
  <2>2. \A i \in Inst : stale'[i] = IF i = I(t) THEN TRUE ELSE stale[i]
    BY <1>15 DEF RebuildMark, RestoreSwap, TypeOK
  <2>3. /\ client' = client /\ opened' = opened
        /\ holders' = holders /\ listed' = listed
    BY <1>15 DEF RebuildMark, RestoreSwap, registry
  <2>4. CASE RebuildMark(t)
    BY <1>0, <1>7, <1>8, <2>1, <2>2, <2>3, <2>4 DEF RebuildMark, ClientsInv, PathSteps, Steps
  <2>5. CASE RestoreSwap(t)
    <3>1. \A u \in Threads : pc[u] \notin PathSteps
      BY <2>5, ThreadAssumption DEF RestoreSwap, LockPath, Control
    <3>2. \A u \in Threads : pc[u] = "open_lock" => local[u].op = "open"
      BY ControlFacts DEF Fits
    <3>3. \A u \in Threads \ {t} : pc[u] \in StaleSteps \cup {"open_lock"} => I(u) # I(t)
      BY <1>0, <3>1, <3>2 DEF PathSteps
    <3> QED BY <1>0, <1>7, <2>1, <2>2, <2>3, <3>3 DEF ClientsInv, Steps
  <2> QED BY <1>15, <2>4, <2>5
<1>16. CASE SwapDone(t)
  <2>1. CASE local[t].op = "rebuild"
    <3>1. Moved(t, "rb_make") /\ UNCHANGED client
      BY <1>16, <2>1, GotoMoves DEF SwapDone, Steps
    <3> QED BY <1>1, <1>16, <3>1 DEF SwapDone, registry, instance, Steps
  <2>2. CASE local[t].op # "rebuild"
    <3>1. Moved(t, "attach_take")
      BY <1>16, <2>2, GotoMoves DEF SwapDone, Steps
    <3>2. \A i \in Inst : client'[i] = IF i = I(t) THEN None ELSE client[i]
      BY <1>16, <2>2 DEF SwapDone, TypeOK
    <3>3. local[t].op # "open" /\ stale[I(t)]
      BY <1>0, <1>16 DEF SwapDone, ClientsInv, Fits
    <3> QED BY <1>0, <1>7, <1>8, <1>16, <3>1, <3>2, <3>3 DEF SwapDone, registry,
            ClientsInv, PathSteps, Steps
  <2> QED BY <2>1, <2>2
<1>17. CASE RebuildFails(t)
  <2>1. Moved(t, "attach_take")
    BY <1>17, GotoMoves DEF RebuildFails, Steps
  <2>2. \A i \in Inst : client'[i] = IF i = I(t) THEN None ELSE client[i]
    BY <1>17 DEF RebuildFails, TypeOK
  <2>3. local[t].op # "open" /\ stale[I(t)]
    BY <1>17 DEF RebuildFails, ClientsInv
  <2> QED BY <1>0, <1>7, <1>8, <1>17, <2>1, <2>2, <2>3 DEF RebuildFails, registry,
          ClientsInv, PathSteps, Steps
<1>18. CASE RebuildMake(t)
  <2>1. Moved(t, "rb_pool")
    BY <1>18, GotoMoves DEF RebuildMake, Steps
  <2>2. \A i \in Inst \ {I(t)} : client'[i] = client[i] /\ stale'[i] = stale[i]
    BY <1>18 DEF RebuildMake, TypeOK
  <2> QED BY <1>7, <1>8, <1>18, <2>1, <2>2 DEF RebuildMake, registry, ClientsInv,
          PathSteps, Steps
<1>19. CASE RebuildPool(t)
  <2>1. Moved(t, "idle")
    BY <1>19, ReturnMoves DEF RebuildPool
  <2> QED BY <1>7, <1>8, <1>19, <2>1 DEF RebuildPool, instance, PathSteps, Steps
<1> QED BY <1>2, <1>3, <1>4, <1>5, <1>6, <1>9, <1>10, <1>11, <1>12, <1>13, <1>14,
       <1>15, <1>16, <1>17, <1>18, <1>19 DEF Continue

LEMMA NextClients ==
  TypeOK /\ Control /\ SystemsInv /\ ClientsInv /\ [Next]_vars => ClientsInv'
<1> SUFFICES ASSUME TypeOK, Control, SystemsInv, ClientsInv, [Next]_vars
             PROVE  ClientsInv'
  OBVIOUS
<1> USE DEF StaleSteps, AttachSteps, SwapSteps, NoClientYet
<1>1. CASE UNCHANGED vars
  BY <1>1 DEF vars, ClientsInv, I
<1>2. ASSUME NEW t \in Threads, NEW i \in Inst, NEW op \in Ops, Begin(t, i, op)
      PROVE  ClientsInv'
  <2>1. /\ FirstStep(op) \in {"open_lock", "close_release", "ensure", "db_lock"}
        /\ FirstStep(op) = "open_lock" => op = "open"
    BY OpsAssumption DEF FirstStep, AllOps
  <2>2. /\ pc[t] = "idle" /\ pc'[t] = FirstStep(op) /\ local'[t].inst = i
        /\ \A u \in Threads \ {t} : pc'[u] = pc[u] /\ local'[u] = local[u]
    BY <1>2 DEF Begin, TypeOK
  <2>3. /\ client' = client /\ stale' = stale /\ holders' = holders
        /\ listed' = listed /\ opened' = opened \cup {i}
        /\ op = "open" => i \notin opened
    BY <1>2 DEF Begin, registry
  <2>4. \A j \in Inst : client[j] # None => j \in opened
    BY DEF ClientsInv
  <2>5. op = "open" => client[i] = None
    BY <2>3, <2>4
  <2>6. \A u \in Threads : pc[u] \in {"attach_hold", "close_mark", "rb_pool"} =>
          pc'[u] = pc[u] /\ local'[u].inst = I(u)
    BY <2>2 DEF I
  <2>7. ASSUME NEW u \in Threads
        PROVE  /\ pc'[u] \in NoClientYet \cup {"open_lock"} => client[local'[u].inst] = None
               /\ pc'[u] \in StaleSteps /\ local'[u].op # "open" => stale[local'[u].inst]
               /\ pc'[u] = "attach_check" => local'[u].inst \in holders
    <3>1. CASE u = t
      BY <2>1, <2>2, <2>5, <3>1
    <3>2. CASE u # t
      BY <2>2, <3>2 DEF ClientsInv, I
    <3> QED BY <3>1, <3>2
  <2> QED BY <2>3, <2>6, <2>7 DEF ClientsInv, I
<1>3. ASSUME NEW i \in Inst, Collect(i) PROVE ClientsInv'
  <2>1. /\ pc' = pc /\ local' = local /\ opened' = opened \ {i}
        /\ holders' = holders \ {i} /\ listed' = listed
        /\ \A u \in Threads : pc[u] # "idle" => I(u) # i
    BY <1>3 DEF Collect, Busy
  <2>2. \A j \in Inst : /\ client'[j] = IF j = i THEN None ELSE client[j]
                        /\ stale'[j] = IF j = i THEN FALSE ELSE stale[j]
    BY <1>3 DEF Collect, TypeOK
  <2>3. \A u \in Threads : I(u) \in Inst
    BY DEF I, TypeOK, Locals
  <2> QED BY <2>1, <2>2, <2>3 DEF ClientsInv, I
<1> QED BY <1>1, <1>2, <1>3, ContinueClients DEF Next

-----------------------------------------------------------------------------
(***************************************************************************)
(* One operation at a time.                                                *)
(***************************************************************************)
LEMMA ContinueAt ==
  ASSUME TypeOK, Control, SystemsInv, ClientsInv, NEW t \in Threads, At(t),
         \A u \in Threads \ {t} : pc[u] = "idle", Continue(t)
  PROVE  At(t)'
<1> USE DEF StopSteps
<1>0. /\ pc[t] # "idle" /\ Fits(pc[t], local[t].op) /\ I(t) \in Inst
      /\ cached \in Systems \cup {None} /\ None \notin live /\ None \in Systems \cup {None}
  BY ContinueMoves, ControlFacts, NoneIsNoSystem DEF TypeOK
\* Clients that are not stale are held, but for those of t in two steps.
<1>1. ASSUME NEW i \in Inst, client[i] # None, ~stale[i], i \notin holders
      PROVE  i = I(t) /\ pc[t] \in {"attach_hold", "close_mark", "rb_pool"}
  BY <1>1 DEF ClientsInv
<1>2. ASSUME NEW step, Moved(t, step)
      PROVE  pc'[t] = step /\ local'[t].inst = I(t) /\ local'[t].op = local[t].op
  BY <1>2 DEF Moved, I
\* A step that changes nothing that is shared.
<1>3. ASSUME NEW step, Moved(t, step), UNCHANGED <<chromadb, registry, client>>,
             \A i \in Inst : stale[i] => stale'[i],
             ~(pending \/ (holders = {} /\ cached # None /\ ~listed)),
             pc[t] # "rb_pool",
             step \notin {"attach_evict", "close_evict", "swap_evict",
                          "attach_put", "rb_pool", "attach_hold", "attach_find"},
             step \in StopSteps => cached = None,
             step \in {"attach_make", "swap_stop", "swap_done", "rb_make"} =>
               pool = None,
             step = "attach_check" => pc[t] = "attach_hold",
             step \in {"rb_lock", "rb_mark"} => holders \subseteq {I(t)}
      PROVE  At(t)'
  <2>1. /\ cached' = cached /\ pool' = pool /\ holders' = holders
        /\ listed' = listed /\ pending' = pending /\ client' = client
    BY <1>3 DEF chromadb, registry
  <2> QED BY <1>0, <1>2, <1>3, <2>1 DEF At, I
\* When there is nothing pending and, without holders, no System.
<1>4. pc[t] \notin {"close_mark", "close_take", "attach_evict", "close_evict", "attach_put",
                    "attach_hold", "rb_pool"} =>
        ~(pending \/ (holders = {} /\ cached # None /\ ~listed))
  BY DEF At
<1>5. CASE OpenLock(t) \/ DbLock(t) \/ Ensure(t) \/ EnsureStale(t) \/ RebuildLock(t)
  <2>1. CASE OpenLock(t) \/ DbLock(t) \/ Ensure(t)
    BY <1>3, <1>4, <2>1, GotoMoves DEF OpenLock, DbLock, Ensure, instance, Steps
  <2>2. CASE RebuildLock(t)
    BY <1>3, <1>4, <2>2, GotoMoves DEF RebuildLock, instance, Steps, At
  <2>3. CASE EnsureStale(t)
    <3>1. Moved(t, "attach_take") /\ UNCHANGED <<chromadb, registry, stale>>
      BY <2>3, GotoMoves DEF EnsureStale, Steps
    <3>2. \A i \in Inst : client'[i] = IF i = I(t) THEN None ELSE client[i]
      BY <2>3 DEF EnsureStale, TypeOK
    <3>3. pc[t] = "ensure"
      BY <2>3 DEF EnsureStale
    <3> QED BY <1>0, <1>2, <3>1, <3>2, <3>3 DEF chromadb, registry, At, I
  <2> QED BY <1>5, <2>1, <2>2, <2>3
<1>6. CASE AttachTake(t)
  <2>1. /\ pc[t] = "attach_take" /\ pending' = FALSE /\ listed' = (listed /\ ~Collected)
        /\ UNCHANGED <<chromadb, pool, holders, instance>>
    BY <1>6 DEF AttachTake, Take
  <2>2. ~pending
    BY <2>1 DEF At
  <2>3. CASE Collected
    <3>1. Moved(t, "attach_evict")
      BY <1>6, <2>3, GotoMoves DEF AttachTake, Take, Steps
    <3>2. \A i \in Inst : client[i] = None \/ stale[i]
      BY <1>1, <2>1, <2>3 DEF Collected
    <3> QED BY <1>0, <1>2, <2>1, <3>1, <3>2 DEF chromadb, instance, At, I
  <2>4. CASE ~Collected
    <3>1. Moved(t, "attach_find")
      BY <1>6, <2>2, <2>4, GotoMoves DEF AttachTake, Take, Steps
    <3>2. holders = {} => cached = None
      BY <2>1, <2>2, <2>4 DEF Collected, At
    <3> QED BY <1>0, <1>2, <2>1, <3>1, <3>2 DEF chromadb, instance, At, I
  <2> QED BY <2>3, <2>4
<1>7. CASE CloseTake(t)
  <2>1. /\ pc[t] = "close_take" /\ pending' = FALSE /\ listed' = (listed /\ ~Collected)
        /\ UNCHANGED <<chromadb, pool, holders, instance>>
    BY <1>7 DEF CloseTake, Take
  <2>2. CASE pending \/ Collected
    <3>1. Moved(t, "close_evict")
      BY <1>7, <2>2, GotoMoves DEF CloseTake, Take, Steps
    <3>2. holders = {}
      BY <2>2 DEF Collected, At
    <3>3. \A i \in Inst : client[i] = None \/ stale[i]
      BY <1>1, <2>1, <3>2
    <3> QED BY <1>0, <1>2, <2>1, <3>1, <3>3 DEF chromadb, instance, At, I
  <2>3. CASE ~(pending \/ Collected)
    <3>1. Moved(t, "idle")
      BY <1>7, <2>3, GotoMoves DEF CloseTake, Take, Steps
    <3>2. holders = {} => cached = None
      BY <2>1, <2>3 DEF Collected, At
    <3> QED BY <1>0, <1>2, <2>1, <3>1, <3>2 DEF chromadb, instance, At, I
  <2> QED BY <2>2, <2>3
<1>8. CASE AttachEvict(t) \/ CloseEvict(t) \/ SwapEvict(t)
  <2>1. \E step \in StopSteps : Moved(t, step)
    BY <1>0, <1>8, KeepMoves DEF AttachEvict, CloseEvict, SwapEvict, Evict, Steps
  <2>2. /\ pool' = None /\ cached' = None
        /\ UNCHANGED <<holders, listed, pending, instance>>
    BY <1>8 DEF AttachEvict, CloseEvict, SwapEvict, Evict, UncachedSystem
  <2>3. \A i \in Inst : client[i] = None \/ stale[i]
    BY <1>8 DEF AttachEvict, CloseEvict, SwapEvict, At
  <2>4. pc[t] \in {"attach_evict", "close_evict", "swap_evict"}
    BY <1>8 DEF AttachEvict, CloseEvict, SwapEvict
  <2> QED BY <1>0, <1>2, <2>1, <2>2, <2>3, <2>4 DEF instance, At, I
<1>9. CASE AttachStop(t) \/ CloseStop(t) \/ SwapStop(t)
  <2>1. /\ pc[t] \in StopSteps
        /\ \E step \in {"attach_find", "idle", "swap_done"} :
             Moved(t, step) /\ (step = "swap_done" => pc[t] = "swap_stop")
    BY <1>0, <1>9, KeepMoves DEF AttachStop, CloseStop, SwapStop, Stop, Steps
  <2>2. UNCHANGED <<cached, registry, instance>>
    BY <1>9 DEF AttachStop, CloseStop, SwapStop, Stop
  <2> QED BY <1>0, <1>2, <2>1, <2>2 DEF registry, instance, At, I
<1>10. CASE AttachFind(t)
  <2>0. pc[t] = "attach_find" /\ UNCHANGED <<chromadb, holders, listed, pending, stale>>
    BY <1>10 DEF AttachFind
  <2>1. CASE pool \in live
    <3>1. Moved(t, "attach_hold") /\ UNCHANGED pool
      BY <1>10, <2>1, GotoMoves DEF AttachFind, Steps
    <3>2. \A i \in Inst : client'[i] = IF i = I(t) THEN pool ELSE client[i]
      BY <1>10, <2>1 DEF AttachFind, TypeOK
    <3> QED BY <1>0, <1>2, <2>0, <3>1, <3>2 DEF chromadb, At, I
  <2>2. CASE pool \notin live
    <3>1. Moved(t, "attach_make") /\ UNCHANGED client /\ pool' = None
      BY <1>10, <2>2, GotoMoves DEF AttachFind, Steps
    <3>2. pool = None
      BY <2>2 DEF At, SystemsInv
    <3> QED BY <1>0, <1>2, <2>0, <3>1, <3>2 DEF chromadb, At, I
  <2> QED BY <2>1, <2>2
<1>11. CASE AttachMake(t)
  <2>1. PICK s \in Systems : MakeSystem(s) /\ Keep(t, "attach_put", s)
    BY <1>11 DEF AttachMake
  <2>2. Moved(t, "attach_put") /\ local'[t].system = s /\ cached' = s /\ s # None
    BY <2>1, KeepMoves, NoneIsNoSystem DEF MakeSystem, Steps
  <2>3. pc[t] = "attach_make" /\ UNCHANGED <<registry, instance>>
    BY <1>11 DEF AttachMake
  <2> QED BY <1>0, <1>2, <2>2, <2>3 DEF registry, instance, At, I
<1>12. CASE AttachPut(t)
  <2>1. Moved(t, "attach_hold")
    BY <1>0, <1>12, KeepMoves DEF AttachPut, Steps
  <2>2. /\ pc[t] = "attach_put" /\ pool' = local[t].system
        /\ UNCHANGED <<chromadb, holders, listed, pending, stale>>
    BY <1>12 DEF AttachPut
  <2>3. \A i \in Inst : client'[i] = IF i = I(t) THEN local[t].system ELSE client[i]
    BY <1>12 DEF AttachPut, TypeOK
  <2> QED BY <1>0, <1>2, <2>1, <2>2, <2>3 DEF chromadb, At, I
<1>13. CASE AttachHold(t)
  <2>1. Moved(t, "attach_check")
    BY <1>13, GotoMoves DEF AttachHold, Steps
  <2>2. /\ pc[t] = "attach_hold" /\ holders' = holders \cup {I(t)} /\ listed'
        /\ UNCHANGED <<chromadb, pool, pending, instance>>
    BY <1>13 DEF AttachHold
  <2> QED BY <1>0, <1>2, <2>1, <2>2 DEF chromadb, instance, At, I
<1>14. CASE AttachCheck(t) \/ AttachFails(t)
  <2>1. AttachEnd(t) /\ pc[t] \in {"attach_check", "attach_make"}
    BY <1>14 DEF AttachCheck, AttachFails
  <2>2. \E step \in {"idle", "ready"} : Moved(t, step)
    BY <2>1, GotoMoves, ReturnMoves DEF AttachEnd, Steps
  <2>3. \A i \in Inst : stale'[i] = IF i = I(t) THEN stale[i] /\ client[i] = None
                                    ELSE stale[i]
    BY <2>1 DEF AttachEnd, TypeOK
  <2>4. UNCHANGED <<chromadb, registry, client>>
    BY <2>1 DEF AttachEnd
  <2>5. client[I(t)] \in {None, pool}
    BY <2>1 DEF ClientsInv, NoClientYet, At
  <2>6. ~(pending \/ (holders = {} /\ cached # None /\ ~listed))
    BY <1>4, <2>1
  <2> QED BY <1>0, <1>2, <2>1, <2>2, <2>3, <2>4, <2>5, <2>6 DEF chromadb, registry, At, I
<1>15. CASE Ready(t)
  <2>1. \E step \in {"idle", "rb_count", "rs_lock"} : Moved(t, step)
    BY <1>15, GotoMoves, ReturnMoves DEF Ready, Steps
  <2> QED BY <1>3, <1>4, <1>15, <2>1 DEF Ready, instance
<1>16. CASE CloseRelease(t)
  <2>1. Moved(t, "close_mark")
    BY <1>16, GotoMoves DEF CloseRelease, Steps
  <2>2. /\ pc[t] = "close_release" /\ UNCHANGED <<chromadb, pool, instance>>
        /\ holders' = holders \ {I(t)}
        /\ listed' = (listed /\ holders' # {})
        /\ pending' = (pending \/ (listed /\ holders' = {}))
    BY <1>16 DEF CloseRelease, HoldersWithout
  <2>3. local[t].op = "close" /\ ~pending
    BY <1>0, <2>2 DEF Fits, CloseSteps, At
  <2>4. holders' = {} /\ ~listed' /\ ~pending' => holders = {} /\ ~listed
    BY <2>2 DEF ClientsInv
  <2>5. /\ pending' => holders' = {}
        /\ holders' = {} /\ ~listed' /\ ~pending' => cached' = None
    BY <1>4, <2>2, <2>3, <2>4 DEF chromadb
  <2>6. /\ pool' # None => pool' = cached'
        /\ \A i \in Inst : client'[i] # None /\ ~stale'[i] => client'[i] = pool'
    BY <2>2 DEF chromadb, instance, At
  <2> QED BY <1>2, <2>1, <2>3, <2>5, <2>6 DEF At, I
<1>17. CASE CloseMark(t)
  <2>1. Moved(t, "close_take")
    BY <1>17, GotoMoves DEF CloseMark, Steps
  <2>2. \A i \in Inst : stale'[i] = IF i = I(t) THEN TRUE ELSE stale[i]
    BY <1>17 DEF CloseMark, TypeOK
  <2>3. pc[t] = "close_mark" /\ UNCHANGED <<chromadb, registry, client>>
    BY <1>17 DEF CloseMark
  <2>4. local[t].op = "close"
    BY <1>0, <2>3 DEF Fits, CloseSteps
  <2>5. /\ pending' => holders' = {}
        /\ holders' = {} /\ ~listed' /\ ~pending' => cached' = None
    BY <2>3 DEF chromadb, registry, At
  <2>6. /\ pool' # None => pool' = cached'
        /\ \A i \in Inst : client'[i] # None /\ ~stale'[i] => client'[i] = pool'
    BY <1>0, <2>2, <2>3 DEF chromadb, registry, At
  <2> QED BY <1>2, <2>1, <2>4, <2>5, <2>6 DEF At, I
<1>18. CASE RebuildCount(t)
  <2>1. \E step \in {"idle", "rb_lock"} :
          Moved(t, step) /\ (step = "rb_lock" => holders \subseteq {I(t)})
    BY <1>18, GotoMoves, ReturnMoves DEF RebuildCount, Others, Steps
  <2> QED BY <1>3, <1>4, <1>18, <2>1 DEF RebuildCount, instance
<1>19. CASE RebuildCopyFails(t)
  BY <1>3, <1>4, <1>19, ReturnMoves DEF RebuildCopyFails, instance
<1>20. CASE RebuildMark(t) \/ RestoreSwap(t)
  <2>1. Moved(t, "swap_evict")
    BY <1>20, SwapMoves DEF RebuildMark, RestoreSwap
  <2>2. \A i \in Inst : stale'[i] = IF i = I(t) THEN TRUE ELSE stale[i]
    BY <1>20 DEF RebuildMark, RestoreSwap, TypeOK
  <2>3. /\ pc[t] \in {"rb_mark", "rs_lock"}
        /\ UNCHANGED <<cached, registry, client>>
    BY <1>20 DEF RebuildMark, RestoreSwap, chromadb
  <2>4. holders \subseteq {I(t)}
    BY <1>0, <2>3 DEF Fits, At
  <2>5. \A i \in Inst : client[i] = None \/ stale'[i]
    BY <1>1, <2>2, <2>3, <2>4
  <2>6. ~(pending \/ (holders = {} /\ cached # None /\ ~listed))
    BY <1>4, <2>3
  <2> QED BY <1>0, <1>2, <2>1, <2>3, <2>4, <2>5, <2>6 DEF registry, At, I
<1>21. CASE SwapDone(t) \/ RebuildFails(t)
  <2>1. \E step \in {"rb_make", "attach_take"} : Moved(t, step)
    BY <1>21, GotoMoves DEF SwapDone, RebuildFails, Steps
  <2>2. /\ pc[t] \in {"swap_done", "rb_make"}
        /\ UNCHANGED <<cached, registry, stale>>
    BY <1>21 DEF SwapDone, RebuildFails, chromadb
  <2>3. \A i \in Inst : client'[i] \in {None, client[i]}
    BY <1>21 DEF SwapDone, RebuildFails, TypeOK
  <2>4. ~(pending \/ (holders = {} /\ cached # None /\ ~listed))
    BY <1>4, <2>2
  <2> QED BY <1>0, <1>2, <2>1, <2>2, <2>3, <2>4 DEF registry, At, I
<1>22. CASE RebuildMake(t)
  <2>1. PICK s \in Systems : MakeSystem(s) /\ client' = [client EXCEPT ![I(t)] = s]
    BY <1>22 DEF RebuildMake
  <2>2. Moved(t, "rb_pool") /\ cached' = s
    BY <1>22, <2>1, GotoMoves DEF RebuildMake, MakeSystem, Steps
  <2>3. pc[t] = "rb_make" /\ UNCHANGED registry
    BY <1>22 DEF RebuildMake
  <2>4. \A i \in Inst : /\ client'[i] = IF i = I(t) THEN s ELSE client[i]
                        /\ i # I(t) => stale'[i] = stale[i]
    BY <1>22, <2>1 DEF RebuildMake, TypeOK
  <2>5. local[t].op = "rebuild"
    BY <1>0, <2>3 DEF Fits
  <2> QED BY <1>0, <1>2, <2>2, <2>3, <2>4, <2>5 DEF registry, At, I
<1>23. CASE RebuildPool(t)
  <2>1. Moved(t, "idle")
    BY <1>23, ReturnMoves DEF RebuildPool
  <2>2. /\ pc[t] = "rb_pool" /\ pool' = client[I(t)] /\ listed'
        /\ UNCHANGED <<chromadb, pending, instance>>
    BY <1>23 DEF RebuildPool
  <2> QED BY <1>0, <1>2, <2>1, <2>2 DEF chromadb, instance, At, I
<1> QED BY <1>5, <1>6, <1>7, <1>8, <1>9, <1>10, <1>11, <1>12, <1>13, <1>14, <1>15,
       <1>16, <1>17, <1>18, <1>19, <1>20, <1>21, <1>22, <1>23 DEF Continue

\* At rest it does not matter of which thread one says it.
LEMMA AtRest ==
  ASSUME NEW t \in Threads, NEW u \in Threads, pc[t] = "idle", pc[u] = "idle", At(t)
  PROVE  At(u)
  BY DEF At, StopSteps

LEMMA NextSerial ==
  TypeOK /\ Control /\ SystemsInv /\ ClientsInv /\ SerialInv /\ [Next]_vars => SerialInv'
<1> SUFFICES ASSUME TypeOK, Control, SystemsInv, ClientsInv, SerialInv, [Next]_vars,
                    ~exposed'
             PROVE  SerialInv'
  BY DEF SerialInv
<1>1. CASE UNCHANGED vars
  BY <1>1 DEF vars, SerialInv, At, I
<1>2. ASSUME NEW t \in Threads, Continue(t) PROVE SerialInv'
  <2>1. ~exposed
    BY <1>2 DEF Continue, OpenLock, DbLock, AttachTake, AttachEvict, AttachStop,
       AttachFind, AttachMake, AttachPut, AttachHold, AttachCheck, AttachFails,
       AttachEnd, Ensure, EnsureStale, Ready, CloseRelease, CloseMark, CloseTake,
       CloseEvict, CloseStop, RebuildCount, RebuildLock, RebuildMark,
       RebuildCopyFails, RestoreSwap, SwapEvict, SwapStop, SwapDone, RebuildFails,
       RebuildMake, RebuildPool, Take, Evict, Stop
  <2>2. pc[t] # "idle" /\ \A u \in Threads \ {t} : pc[u] = "idle" /\ pc'[u] = "idle"
    BY <1>2, <2>1, ContinueMoves DEF SerialInv, Moved
  <2>3. At(t)'
    BY <1>2, <2>1, <2>2, ContinueAt DEF SerialInv
  <2>4. ASSUME NEW u \in Threads \ {t}, \A v \in Threads \ {u} : pc'[v] = "idle"
        PROVE  At(u)'
    BY <2>2, <2>3, <2>4 DEF At, StopSteps
  <2> QED BY <2>2, <2>3, <2>4 DEF SerialInv
<1>3. ASSUME NEW t \in Threads, NEW i \in Inst, NEW op \in Ops, Begin(t, i, op)
      PROVE  SerialInv'
  <2>1. /\ ~exposed /\ \A u \in Threads : pc[u] = "idle"
        /\ op = "restore" => holders \subseteq {i}
    BY <1>3 DEF Begin
  <2>2. At(t)
    BY <2>1 DEF SerialInv
  <2>3. /\ FirstStep(op) \in {"open_lock", "close_release", "ensure", "db_lock"}
        /\ pc'[t] = FirstStep(op) /\ local'[t].inst = i /\ local'[t].op = op
        /\ \A u \in Threads \ {t} : pc'[u] = pc[u]
    BY <1>3, OpsAssumption DEF Begin, FirstStep, AllOps, TypeOK
  <2>4. UNCHANGED <<chromadb, registry, client, stale>>
    BY <1>3 DEF Begin
  <2>5. At(t)'
    BY <2>1, <2>2, <2>3, <2>4 DEF At, I, StopSteps, chromadb, registry
  <2> QED BY <2>1, <2>3, <2>5 DEF SerialInv
<1>4. ASSUME NEW i \in Inst, Collect(i) PROVE SerialInv'
  <2>1. /\ ~exposed /\ \A u \in Threads : pc[u] = "idle"
        /\ pc' = pc /\ local' = local
        /\ UNCHANGED <<chromadb, pool, listed, pending>>
        /\ holders' = holders \ {i}
    BY <1>4 DEF Collect
  <2>2. \A j \in Inst : client'[j] = (IF j = i THEN None ELSE client[j])
                        /\ (j # i => stale'[j] = stale[j])
    BY <1>4 DEF Collect, TypeOK
  <2>3. holders' = {} /\ ~listed' => holders = {} /\ ~listed
    BY <2>1 DEF ClientsInv
  <2>4. ASSUME NEW u \in Threads PROVE At(u)'
    <3>1. At(u) /\ pc[u] = "idle"
      BY <2>1 DEF SerialInv
    <3> QED BY <2>1, <2>2, <2>3, <3>1 DEF At, I, StopSteps, chromadb
  <2> QED BY <2>1, <2>4 DEF SerialInv
<1> QED BY <1>1, <1>2, <1>3, <1>4 DEF Next

-----------------------------------------------------------------------------
(***************************************************************************)
(* What follows for any interleaving.                                      *)
(***************************************************************************)
LEMMA InitPInv == Init => PInv
<1> SUFFICES ASSUME Init PROVE PInv
  OBVIOUS
<1>1. TypeOK
  BY InitTypes
<1>2. Control
  BY ThreadAssumption DEF Init, Control, PathSteps, StaleSteps, AttachSteps,
     NoClientYet, SwapSteps
<1>3. SystemsInv
  BY DEF Init, SystemsInv, StopSteps
<1>4. ClientsInv
  BY DEF Init, ClientsInv, StaleSteps, AttachSteps, NoClientYet, SwapSteps
<1>5. SerialInv
  BY DEF Init, SerialInv, At, StopSteps
<1> QED BY <1>1, <1>2, <1>3, <1>4, <1>5 DEF PInv

LEMMA NextPInv == PInv /\ [Next]_vars => PInv'
  BY NextTypes, NextControl, NextSystems, NextClients, NextSerial DEF PInv

\* No System is forgotten while it runs, for any threads and instances.
THEOREM SystemsNeverLeak == Spec => []NoSystemLeaks
<1>1. PInv => NoSystemLeaks
  BY DEF PInv, SystemsInv, NoSystemLeaks
<1> QED BY InitPInv, NextPInv, <1>1, PTL DEF Spec

\* Outside the path lock, the System that chromadb would hand out is started and
\* bound to the directory at the path.
THEOREM CachedAlwaysWorks == Spec => []CachedSystemWorks
<1>1. PInv => CachedSystemWorks
  <2> SUFFICES ASSUME PInv, cached # None, pathLock = NoThread PROVE Works(cached)
    BY DEF CachedSystemWorks
  <2>1. \A t \in Threads : pc[t] # "swap_evict"
    BY ThreadAssumption DEF PInv, Control, PathSteps, StaleSteps, SwapSteps
  <2> QED BY <2>1 DEF PInv, SystemsInv, Works
<1> QED BY InitPInv, NextPInv, <1>1, PTL DEF Spec

\* An instance with a client that is not stale is counted as a holder.
THEOREM ClientsAlwaysHeld == Spec => []ClientsAreHeld
<1>1. PInv => ClientsAreHeld
  <2> SUFFICES ASSUME PInv, NEW i \in Inst, Settled(i), client[i] # None, ~stale[i]
               PROVE  i \in holders /\ listed
    BY DEF ClientsAreHeld
  <2>1. \A t \in Threads : pc[t] # "idle" => I(t) # i
    BY DEF Settled, Busy
  <2> QED BY <2>1 DEF PInv, ClientsInv
<1> QED BY InitPInv, NextPInv, <1>1, PTL DEF Spec

\* Threads can wait for each other's locks only over an instance that is stale.
THEOREM InversionAlwaysStale == Spec => []InversionNeedsStale
<1>1. PInv => InversionNeedsStale
  <2> SUFFICES ASSUME PInv, NEW t \in Threads, NEW u \in Threads,
                      pc[t] = "attach_check", dbLock[I(t)] = u, u # t
               PROVE  stale[I(t)]
    BY DEF InversionNeedsStale
  <2>1. I(t) \in Inst /\ u # NoThread /\ TypeOK /\ Control
    BY ThreadAssumption DEF PInv, TypeOK, I, Locals
  <2>2. pc[u] # "idle" /\ I(u) = I(t)
    BY <2>1 DEF Control
  <2>3. local[t].op # "open"
    BY <2>1, <2>2, ControlFacts
  <2> QED BY <2>3 DEF PInv, ClientsInv, StaleSteps, AttachSteps
<1> QED BY InitPInv, NextPInv, <1>1, PTL DEF Spec

\* As long as no operations overlap, no client that is not stale is stranded, for
\* any number of instances, opened, used, closed, collected, rebuilt and restored in
\* whatever order by any threads.
THEOREM SerialNeverStrands == Spec => []SerialUseStrandsNobody
<1>1. PInv => SerialUseStrandsNobody
  <2> SUFFICES ASSUME PInv, ~exposed, pathLock = NoThread, NEW i \in Inst,
                      Settled(i), client[i] # None, ~stale[i]
               PROVE  Works(client[i])
    BY DEF SerialUseStrandsNobody, NoStranded
  <2>1. \A t \in Threads : pc[t] \notin {"swap_evict", "rb_pool"}
    BY ThreadAssumption DEF PInv, Control, PathSteps, StaleSteps, SwapSteps
  <2>2. \E t \in Threads : \A u \in Threads \ {t} : pc[u] = "idle"
    <3>1. CASE \E t \in Threads : pc[t] # "idle"
      BY <3>1 DEF PInv, SerialInv
    <3>2. CASE \A t \in Threads : pc[t] = "idle"
      BY <3>2, ThreadAssumption
    <3> QED BY <3>1, <3>2
  <2>3. client[i] = pool /\ pool = cached
    BY <2>1, <2>2 DEF PInv, SerialInv, At
  <2> QED BY <2>1, <2>3 DEF PInv, SystemsInv, Works
<1> QED BY InitPInv, NextPInv, <1>1, PTL DEF Spec

\* A path that nobody holds is released before it is attached to again.
THEOREM UnheldAlwaysReleased == Spec => []UnheldIsReleased
<1>1. PInv => UnheldIsReleased
  <2> SUFFICES ASSUME PInv, NEW t \in Threads, ~exposed, pc[t] = "attach_find",
                      holders = {}
               PROVE  live = {}
    BY DEF UnheldIsReleased
  <2>1. \A u \in Threads \ {t} : pc[u] = "idle"
    BY DEF PInv, SerialInv
  <2>2. cached = None
    BY <2>1 DEF PInv, SerialInv, At
  <2>3. None \notin live
    BY NoneIsNoSystem DEF PInv, TypeOK
  <2> QED BY <2>1, <2>2, <2>3 DEF PInv, SystemsInv, StopSteps
<1> QED BY InitPInv, NextPInv, <1>1, PTL DEF Spec
=============================================================================

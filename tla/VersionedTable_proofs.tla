------------------------ MODULE VersionedTable_proofs ------------------------
(***************************************************************************)
(* For any set of threads, keys, contents and labels and any bound: the    *)
(* hash chain of a versioned table is valid in every reachable state, and  *)
(* what as_of returns is what the full log says.                           *)
(***************************************************************************)
EXTENDS VersionedTable, SequenceTheorems, FiniteSetTheorems, TLAPS

\* A threaded batch is a chain of events that starts at the given hash.
LEMMA ChainIsThreaded ==
  ASSUME NEW prev \in Hash, NEW cs \in Seq(Change)
  PROVE  /\ Chain(prev, cs) \in Seq(Event)
         /\ Len(Chain(prev, cs)) = Len(cs)
         /\ \A i \in 1 .. Len(cs) :
              /\ Chain(prev, cs)[i].what = cs[i]
              /\ Chain(prev, cs)[i].hash
                   = EventHash(Chain(prev, cs)[i].prev, cs[i])
              /\ Chain(prev, cs)[i].prev
                   = IF i = 1 THEN prev ELSE Chain(prev, cs)[i - 1].hash
<1> DEFINE before(i) == prev \o SubSeq(cs, 1, i - 1)
           e(i) == [what |-> cs[i], prev |-> before(i),
                    hash |-> EventHash(before(i), cs[i])]
<1>1. \A i \in 1 .. Len(cs) : before(i) \in Hash
  <2> TAKE i \in 1 .. Len(cs)
  <2>1. SubSeq(cs, 1, i - 1) \in Seq(Change)
    BY SubSeqProperties
  <2> QED  BY <2>1, ConcatProperties DEF Hash
<1>2. \A i \in 1 .. Len(cs) : e(i) \in Event
  <2> TAKE i \in 1 .. Len(cs)
  <2>1. cs[i] \in Change
    BY ElementOfSeq
  <2>2. EventHash(before(i), cs[i]) \in Hash
    BY <1>1, <2>1, AppendProperties DEF Hash, EventHash
  <2> QED  BY <1>1, <2>1, <2>2 DEF Event
<1>3. Chain(prev, cs) = [i \in 1 .. Len(cs) |-> e(i)]
  BY DEF Chain
<1>4. Len(cs) \in Nat
  BY LenProperties
<1> HIDE DEF e
<1>5. /\ Chain(prev, cs) \in Seq(Event)
      /\ Len(Chain(prev, cs)) = Len(cs)
      /\ \A i \in 1 .. Len(cs) : Chain(prev, cs)[i] = e(i)
  BY <1>2, <1>3, <1>4, IsASeq
<1>6. before(1) = prev
  BY SubSeqEmpty, ConcatEmptySeq DEF Hash
<1>7. \A i \in 2 .. Len(cs) : before(i) = EventHash(before(i - 1), cs[i - 1])
  <2> TAKE i \in 2 .. Len(cs)
  <2>1. /\ i - 1 \in 1 .. Len(cs)
        /\ cs[i - 1] \in Change
    BY ElementOfSeq, <1>4
  <2>2. SubSeq(cs, 1, i - 1) = SubSeq(cs, 1, i - 2) \o <<cs[i - 1]>>
    BY <2>1, <1>4, SubSeqRecursiveSecond
  <2>3. SubSeq(cs, 1, i - 2) \in Seq(Change) /\ <<cs[i - 1]>> \in Seq(Change)
    BY <2>1, <1>4, SubSeqProperties, ElementOfSeq
  <2>4. before(i) = (prev \o SubSeq(cs, 1, i - 2)) \o <<cs[i - 1]>>
    BY <2>2, <2>3, ConcatAssociative DEF Hash
  <2>5. before(i - 1) = prev \o SubSeq(cs, 1, i - 2)
    BY <1>4
  <2>6. Append(before(i - 1), cs[i - 1]) = before(i - 1) \o <<cs[i - 1]>>
    BY <1>1, <2>1, AppendIsConcat DEF Hash
  <2> QED  BY <2>4, <2>5, <2>6 DEF EventHash
<1>8. \A i \in 1 .. Len(cs) :
        /\ e(i).what = cs[i]
        /\ e(i).prev = before(i)
        /\ e(i).hash = EventHash(before(i), cs[i])
  BY DEF e
<1> HIDE DEF before
<1> QED  BY <1>4, <1>5, <1>6, <1>7, <1>8

-----------------------------------------------------------------------------
\* A log says, of every key, some content or that there is no row.
LEMMA ReplayType ==
  ASSUME NEW lg \in Seq(Change)
  PROVE  Replay(lg) \in Table
<1> SUFFICES ASSUME NEW p \in PK, \E i \in 1 .. Len(lg) : IsLatest(lg, p, i)
             PROVE  Post(lg[CHOOSE i \in 1 .. Len(lg) : IsLatest(lg, p, i)])
                      \in Content
  BY DEF Replay, Table, Content
<1>1. PICK i \in 1 .. Len(lg) :
        i = CHOOSE j \in 1 .. Len(lg) : IsLatest(lg, p, j)
  OBVIOUS
<1>2. lg[i] \in Change
  BY ElementOfSeq
<1> QED  BY <1>1, <1>2 DEF Post, Change, Content

\* The order in which a set of keys is visited is a sequence of those keys.
LEMMA AscendingType ==
  ASSUME NEW S \in SUBSET PK, NEW s \in Ascending(S)
  PROVE  /\ s \in Seq(S)
         /\ Len(s) \in Nat
         /\ DOMAIN s = 1 .. Len(s)
         /\ \A i \in 1 .. Len(s) : s[i] \in S
<1>1. Cardinality(S) \in Nat
  BY PKAssumption, FS_Subset, FS_CardinalityType
<1>2. s \in [1 .. Cardinality(S) -> S]
  BY DEF Ascending
<1>3. s = [i \in 1 .. Cardinality(S) |-> s[i]]
  BY <1>2
<1>4. [i \in 1 .. Cardinality(S) |-> s[i]] \in Seq(S)
  BY <1>1, <1>2, IsASeq
<1> QED  BY <1>2, <1>3, <1>4, LenProperties, ElementOfSeq

\* A batch made of one change per visited key is a sequence of changes.
LEMMA BatchType ==
  ASSUME NEW S \in SUBSET PK, NEW s \in Ascending(S), NEW c \in [S -> Change]
  PROVE  [i \in DOMAIN s |-> c[s[i]]] \in Seq(Change)
<1>1. /\ DOMAIN s = 1 .. Len(s) /\ Len(s) \in Nat
      /\ \A i \in 1 .. Len(s) : s[i] \in S
  BY AscendingType
<1>2. \A i \in 1 .. Len(s) : c[s[i]] \in Change
  BY <1>1
<1>3. [i \in 1 .. Len(s) |-> c[s[i]]] \in Seq(Change)
  BY <1>1, <1>2, IsASeq
<1> QED  BY <1>1, <1>3

\* The three batches the code builds from a set of keys.
LEMMA Batches ==
  ASSUME NEW S \in SUBSET PK, NEW s \in Ascending(S), NEW tb \in Table,
         S \subseteq Present(tb)
  PROVE  /\ [i \in DOMAIN s |-> Ins(s[i], tb[s[i]])] \in Seq(Change)
         /\ [i \in DOMAIN s |-> Upd(s[i], tb[s[i]])] \in Seq(Change)
         /\ [i \in DOMAIN s |-> Del(s[i], tb[s[i]])] \in Seq(Change)
<1>1. \A i \in DOMAIN s : s[i] \in S
  BY AscendingType
<1>2. \A p \in S : p \in PK /\ tb[p] \in Values
  BY DEF Present, Table, Content
<1> DEFINE ins == [p \in S |-> Ins(p, tb[p])]
           upd == [p \in S |-> Upd(p, tb[p])]
           del == [p \in S |-> Del(p, tb[p])]
<1>3. ins \in [S -> Change] /\ upd \in [S -> Change] /\ del \in [S -> Change]
  BY <1>2 DEF Ins, Upd, Del, Change
<1>4. /\ [i \in DOMAIN s |-> ins[s[i]]] \in Seq(Change)
      /\ [i \in DOMAIN s |-> upd[s[i]]] \in Seq(Change)
      /\ [i \in DOMAIN s |-> del[s[i]]] \in Seq(Change)
  <2> HIDE DEF ins, upd, del
  <2> QED  BY <1>3, BatchType
<1>5. /\ [i \in DOMAIN s |-> ins[s[i]]] = [i \in DOMAIN s |-> Ins(s[i], tb[s[i]])]
      /\ [i \in DOMAIN s |-> upd[s[i]]] = [i \in DOMAIN s |-> Upd(s[i], tb[s[i]])]
      /\ [i \in DOMAIN s |-> del[s[i]]] = [i \in DOMAIN s |-> Del(s[i], tb[s[i]])]
  BY <1>1
<1> QED  BY <1>4, <1>5

-----------------------------------------------------------------------------
(***************************************************************************)
(* The inductive invariant.  ChainValid alone is not inductive: a write    *)
(* extends the chain from its head, so versioning must start with an empty *)
(* history; and as_of is right only because the history is the tail of the *)
(* full log.                                                               *)
(***************************************************************************)
HistoryIsTail ==
  /\ Len(past) = cut + Len(hist)
  /\ \A i \in DOMAIN hist : hist[i].what = past[cut + i]

NoHistoryBefore == ~versioned => hist = <<>> /\ past = <<>> /\ cut = 0

LogOK ==
  /\ hist \in Seq(Event)
  /\ past \in Seq(Change)
  /\ cut \in Nat
  /\ anchors \subseteq Nat \X Hash
  /\ HistoryIsTail
  /\ NoHistoryBefore
  /\ ChainValid

StoreOK ==
  /\ rows \in Table
  /\ versioned \in BOOLEAN
  /\ checkpoints \in [Labels -> Nat \cup {NoSeq}]
  /\ goal \in [Labels -> Table]
  /\ LogOK

ThreadsOK ==
  /\ pc \in [Threads -> Steps]
  /\ local \in [Threads -> Locals]

\* A thread in the middle of an upsert holds a row to write.
UpsertContent ==
  \A t \in Threads :
    pc[t] \in {"upsert_insert", "upsert_update"} => local[t].row \in Values

IInv == StoreOK /\ ThreadsOK /\ UpsertContent

\* The head of the history is a hash.
LEMMA HeadHashType ==
  ASSUME hist \in Seq(Event)
  PROVE  HeadHash \in Hash
<1>1. CASE hist = <<>>
  BY <1>1, EmptySeq DEF HeadHash, GENESIS, Hash
<1>2. CASE hist # <<>>
  <2>1. Len(hist) \in 1 .. Len(hist)
    BY <1>2, EmptySeq, LenProperties
  <2>2. hist[Len(hist)] \in Event
    BY <2>1, ElementOfSeq
  <2> QED  BY <1>2, <2>2 DEF HeadHash, Event
<1> QED  BY <1>1, <1>2

\* Recording a batch from the head of the chain keeps the log in order.
LEMMA RecordKeepsLog ==
  ASSUME LogOK, NEW cs \in Seq(Change), Record(HeadHash, cs), versioned',
         UNCHANGED <<cut, anchors>>
  PROVE  LogOK'
<1> DEFINE new == Chain(HeadHash, cs)
<1>0. /\ hist \in Seq(Event) /\ past \in Seq(Change)
      /\ cut \in Nat /\ anchors \subseteq Nat \X Hash
      /\ HistoryIsTail /\ ChainValid
      /\ cut' = cut /\ anchors' = anchors
  BY DEF LogOK
<1>1. HeadHash \in Hash
  BY <1>0, HeadHashType
<1>2. new \in Seq(Event) /\ Len(new) = Len(cs)
  BY <1>1, ChainIsThreaded
<1>3. \A i \in 1 .. Len(cs) :
        /\ new[i].what = cs[i]
        /\ new[i].hash = EventHash(new[i].prev, new[i].what)
        /\ new[i].prev = IF i = 1 THEN HeadHash ELSE new[i - 1].hash
  BY <1>1, ChainIsThreaded
<1>r. hist' = hist \o new /\ past' = past \o cs
  BY DEF Record
<1> HIDE DEF new
<1>4. /\ hist' \in Seq(Event)
      /\ Len(hist') = Len(hist) + Len(cs)
      /\ \A i \in 1 .. Len(hist) + Len(cs) :
           hist'[i] = IF i <= Len(hist) THEN hist[i] ELSE new[i - Len(hist)]
  <2>1. hist \in Seq(Event)
    BY <1>0
  <2>2. /\ hist \o new \in Seq(Event)
        /\ Len(hist \o new) = Len(hist) + Len(new)
        /\ \A i \in 1 .. Len(hist) + Len(new) :
             (hist \o new)[i]
               = IF i <= Len(hist) THEN hist[i] ELSE new[i - Len(hist)]
    BY <2>1, <1>2, ConcatProperties
  <2> QED  BY <2>2, <1>2, <1>r
<1>5. /\ past' \in Seq(Change)
      /\ Len(past') = Len(past) + Len(cs)
      /\ \A i \in 1 .. Len(past) + Len(cs) :
           past'[i] = IF i <= Len(past) THEN past[i] ELSE cs[i - Len(past)]
  BY <1>0, <1>r, ConcatProperties
<1>6. /\ Len(hist) \in Nat /\ Len(past) \in Nat /\ Len(cs) \in Nat
      /\ DOMAIN hist = 1 .. Len(hist) /\ DOMAIN hist' = 1 .. Len(hist')
  BY <1>0, <1>4, LenProperties
<1>7. HistoryIsTail'
  <2>1. /\ Len(past) = cut + Len(hist)
        /\ \A i \in 1 .. Len(hist) : hist[i].what = past[cut + i]
    BY <1>0, <1>6 DEF HistoryIsTail
  <2>2. ASSUME NEW i \in 1 .. Len(hist')
        PROVE  hist'[i].what = past'[cut + i]
    <3>1. CASE i <= Len(hist)
      <4>1. hist'[i] = hist[i] /\ past'[cut + i] = past[cut + i]
        BY <3>1, <2>1, <1>0, <1>4, <1>5, <1>6
      <4> QED  BY <4>1, <3>1, <2>1, <1>6
    <3>2. CASE i > Len(hist)
      <4> DEFINE k == i - Len(hist)
      <4>1. /\ k \in 1 .. Len(cs)
            /\ hist'[i] = new[k] /\ past'[cut + i] = cs[k]
        BY <3>2, <2>1, <1>0, <1>4, <1>5, <1>6
      <4> QED  BY <4>1, <1>3
    <3> QED  BY <3>1, <3>2, <1>6, <1>4
  <2> QED  BY <2>1, <2>2, <1>0, <1>4, <1>5, <1>6 DEF HistoryIsTail
<1>8. ChainValid'
  <2> SUFFICES ASSUME NEW i \in 1 .. Len(hist')
               PROVE  /\ \/ hist'[i].prev
                              = IF i = 1 THEN GENESIS ELSE hist'[i - 1].hash
                         \/ <<cut + i - 1, hist'[i].prev>> \in anchors
                      /\ hist'[i].hash = EventHash(hist'[i].prev, hist'[i].what)
    BY <1>0, <1>6 DEF ChainValid, EventHash
  <2>1. CASE i <= Len(hist)
    <3>1. hist'[i] = hist[i] /\ (i > 1 => hist'[i - 1] = hist[i - 1])
      BY <2>1, <1>2, <1>4, <1>6
    <3>2. /\ \/ hist[i].prev = IF i = 1 THEN GENESIS ELSE hist[i - 1].hash
             \/ <<cut + i - 1, hist[i].prev>> \in anchors
          /\ hist[i].hash = EventHash(hist[i].prev, hist[i].what)
      <4>1. i \in DOMAIN hist
        BY <2>1, <1>4, <1>6
      <4> QED  BY <4>1, <1>0, Zenon DEF ChainValid
    <3> QED  BY <3>1, <3>2, <1>6, <1>4
  <2>2. CASE i = Len(hist) + 1
    <3>1. hist'[i] = new[1] /\ 1 \in 1 .. Len(cs)
      BY <2>2, <1>2, <1>4, <1>6
    <3>2. new[1].prev = HeadHash /\ new[1].hash = EventHash(new[1].prev, new[1].what)
      BY <3>1, <1>3
    <3>3. HeadHash = IF i = 1 THEN GENESIS ELSE hist'[i - 1].hash
      <4>1. CASE hist = <<>>
        BY <4>1, <2>2, <1>6, EmptySeq DEF HeadHash
      <4>2. CASE hist # <<>>
        <5>1. Len(hist) > 0
          BY <4>2, <1>6, EmptySeq
        <5>2. hist'[Len(hist)] = hist[Len(hist)]
          BY <5>1, <1>2, <1>4, <1>6
        <5> QED  BY <4>2, <5>1, <5>2, <2>2, <1>6 DEF HeadHash
      <4> QED  BY <4>1, <4>2
    <3> QED  BY <3>1, <3>2, <3>3
  <2>3. CASE i > Len(hist) + 1
    <3> DEFINE k == i - Len(hist)
    <3>1. /\ k \in 1 .. Len(cs) /\ k # 1 /\ i # 1
          /\ hist'[i] = new[k] /\ hist'[i - 1] = new[k - 1]
      <4>1. k \in 1 .. Len(cs) /\ k # 1 /\ i # 1
        BY <2>3, <1>4, <1>6
      <4>2. hist'[i] = new[i - Len(hist)]
        BY <2>3, <1>4, <1>6
      <4>3. hist'[i - 1] = new[i - 1 - Len(hist)] /\ i - 1 - Len(hist) = k - 1
        BY <2>3, <1>4, <1>6
      <4> QED  BY <4>1, <4>2, <4>3
    <3>2. /\ new[k].prev = new[k - 1].hash
          /\ new[k].hash = EventHash(new[k].prev, new[k].what)
      BY <3>1, <1>3
    <3> QED  BY <3>1, <3>2
  <2> QED  BY <2>1, <2>2, <2>3, <1>6
<1> QED  BY <1>0, <1>4, <1>5, <1>7, <1>8 DEF LogOK, NoHistoryBefore

-----------------------------------------------------------------------------
(***************************************************************************)
(* The chain only grows at its end and is only cut at its front.           *)
(***************************************************************************)
\* The body of ChainNeverRewinds.
EventsStay ==
  /\ cut' >= cut
  /\ \A i \in DOMAIN hist :
       cut + i > cut' =>
         /\ cut + i - cut' \in DOMAIN hist'
         /\ hist'[cut + i - cut'] = hist[i]

\* Appending to the history moves no event that is there.
LEMMA SameEventsStay ==
  ASSUME LogOK, cut' = cut,
         hist' = hist \/ \E new \in Seq(Event) : hist' = hist \o new
  PROVE  EventsStay
<1>1. /\ hist \in Seq(Event) /\ cut \in Nat
      /\ Len(hist) \in Nat /\ DOMAIN hist = 1 .. Len(hist)
  BY LenProperties DEF LogOK
<1>2. \A i \in DOMAIN hist : i \in DOMAIN hist' /\ hist'[i] = hist[i]
  <2>1. CASE hist' = hist
    BY <2>1
  <2>2. ASSUME NEW new \in Seq(Event), hist' = hist \o new
        PROVE  \A i \in DOMAIN hist : i \in DOMAIN hist' /\ hist'[i] = hist[i]
    <3>1. /\ hist \o new \in Seq(Event) /\ Len(new) \in Nat
          /\ Len(hist \o new) = Len(hist) + Len(new)
          /\ \A i \in 1 .. Len(hist) + Len(new) : (hist \o new)[i] =
               IF i <= Len(hist) THEN hist[i] ELSE new[i - Len(hist)]
      BY <1>1, ConcatProperties, LenProperties
    <3>2. DOMAIN (hist \o new) = 1 .. Len(hist) + Len(new)
      BY <3>1, LenProperties
    <3>3. ASSUME NEW i \in 1 .. Len(hist)
          PROVE  i \in DOMAIN (hist \o new) /\ (hist \o new)[i] = hist[i]
      <4>1. i \in 1 .. Len(hist) + Len(new) /\ i <= Len(hist)
        BY <1>1, <3>1
      <4> QED  BY <4>1, <3>1, <3>2
    <3> QED  BY <1>1, <2>2, <3>3
  <2> QED  BY <2>1, <2>2
<1>3. ASSUME NEW i \in DOMAIN hist
      PROVE  /\ cut + i - cut' \in DOMAIN hist'
             /\ hist'[cut + i - cut'] = hist[i]
  <2>1. cut + i - cut' = i
    BY <1>1
  <2> QED  BY <2>1, <1>2
<1>4. cut' >= cut
  BY <1>1
<1> QED  BY <1>3, <1>4 DEF EventsStay

\* A write records its batch or, before versioning, leaves the log alone.
LEMMA WriteKeepsStore ==
  ASSUME StoreOK, NEW tb \in Table, NEW cs \in Seq(Change), Write(tb, cs)
  PROVE  StoreOK' /\ EventsStay
<1>1. /\ rows' = tb
      /\ UNCHANGED <<versioned, cut, anchors, checkpoints, goal>>
  BY DEF Write
<1>2. LogOK'
  <2>1. CASE versioned
    BY <2>1, <1>1, RecordKeepsLog DEF Write, StoreOK
  <2>2. CASE ~versioned
    <3>1. UNCHANGED <<hist, past>>
      BY <2>2 DEF Write
    <3> QED  BY <3>1, <1>1 DEF StoreOK, LogOK, HistoryIsTail,
                               NoHistoryBefore, ChainValid
  <2> QED  BY <2>1, <2>2
<1>3. EventsStay
  <2>1. Chain(HeadHash, cs) \in Seq(Event)
    BY HeadHashType, ChainIsThreaded DEF StoreOK, LogOK
  <2> QED  BY <2>1, <1>1, SameEventsStay DEF Write, Record, StoreOK
<1> QED  BY <1>1, <1>2, <1>3 DEF StoreOK

\* A step that leaves the tables alone keeps the invariant of the tables.
LEMMA UnchangedKeepsStore ==
  ASSUME StoreOK, UNCHANGED <<store, aux>>
  PROVE  StoreOK' /\ EventsStay
<1>1. StoreOK'
  BY DEF StoreOK, LogOK, HistoryIsTail, NoHistoryBefore, ChainValid, store, aux
<1>2. EventsStay
  BY SameEventsStay DEF StoreOK, store
<1> QED  BY <1>1, <1>2

\* What prune leaves is a tail of the chain, and the anchor it records is
\* the hash that tail continues.
LEMMA PruneKeepsStore ==
  ASSUME StoreOK, NEW t \in Threads, local[t] \in Locals, PruneDelete(t)
  PROVE  StoreOK' /\ EventsStay
<1> DEFINE before == local[t].seq
           n == IF before - 1 - cut < Len(hist)
                THEN before - 1 - cut ELSE Len(hist)
<1>0. /\ hist \in Seq(Event) /\ past \in Seq(Change)
      /\ cut \in Nat /\ anchors \subseteq Nat \X Hash
      /\ HistoryIsTail /\ ChainValid
  BY DEF StoreOK, LogOK
<1>1. /\ Len(hist) \in Nat /\ DOMAIN hist = 1 .. Len(hist)
      /\ n \in Int /\ n <= Len(hist)
  BY <1>0, LenProperties DEF Locals
<1>2. CASE n <= 0
  <2>1. UNCHANGED <<store, aux>>
    BY <1>2 DEF PruneDelete
  <2> QED  BY <2>1, UnchangedKeepsStore
<1>3. CASE n > 0
  <2>1. /\ hist' = SubSeq(hist, n + 1, Len(hist))
        /\ cut' = cut + n
        /\ anchors' = anchors \cup {<<cut + n, hist[n].hash>>}
        /\ UNCHANGED <<rows, versioned, checkpoints, past, goal>>
    <3>1. ~(n <= 0)
      BY <1>1, <1>3
    <3> QED  BY <3>1, Zenon DEF PruneDelete, Retained, aux
  <2> HIDE DEF n
  <2>2. /\ n \in 1 .. Len(hist)
        /\ \A i \in n + 1 .. Len(hist) : hist[i] \in Event
    BY <1>0, <1>1, <1>3, ElementOfSeq
  <2>3. /\ hist' \in Seq(Event)
        /\ Len(hist') = Len(hist) - n
        /\ \A i \in 1 .. Len(hist) - n : hist'[i] = hist[n + i]
    <3>1. /\ SubSeq(hist, n + 1, Len(hist)) \in Seq(Event)
          /\ Len(SubSeq(hist, n + 1, Len(hist)))
               = IF n + 1 <= Len(hist) THEN Len(hist) - (n + 1) + 1 ELSE 0
          /\ \A i \in 1 .. Len(hist) - (n + 1) + 1 :
               SubSeq(hist, n + 1, Len(hist))[i] = hist[n + 1 + i - 1]
      BY <2>2, <1>1, SubSeqProperties
    <3>2. n \in Int /\ Len(hist) \in Int /\ n <= Len(hist)
      BY <2>2, <1>1
    <3>3. Len(hist) - (n + 1) + 1 = Len(hist) - n
      BY <3>2
    <3>4. Len(SubSeq(hist, n + 1, Len(hist))) = Len(hist) - n
      BY <3>1, <3>2
    <3>5. ASSUME NEW i \in 1 .. Len(hist) - n
          PROVE  SubSeq(hist, n + 1, Len(hist))[i] = hist[n + i]
      <4>1. SubSeq(hist, n + 1, Len(hist))[i] = hist[n + 1 + i - 1]
        BY <3>1, <3>3
      <4>2. n + 1 + i - 1 = n + i
        BY <3>2
      <4> QED  BY <4>1, <4>2
    <3> QED  BY <3>1, <3>4, <3>5, <2>1
  <2>4. DOMAIN hist' = 1 .. Len(hist')
    BY <2>3, LenProperties
  <2>5. HistoryIsTail'
    <3>1. ASSUME NEW i \in 1 .. Len(hist')
          PROVE  hist'[i].what = past[cut + n + i]
      <4>1. hist'[i] = hist[n + i] /\ n + i \in DOMAIN hist
        BY <2>2, <2>3, <1>1
      <4>2. hist[n + i].what = past[cut + (n + i)]
        BY <4>1, <1>0 DEF HistoryIsTail
      <4> QED  BY <4>1, <4>2, <1>0, <1>1, <2>3
    <3>2. past' = past /\ cut' = cut + n
      BY <2>1
    <3>3. Len(past) = cut + n + Len(hist')
      BY <2>2, <2>3, <1>0, <1>1 DEF HistoryIsTail
    <3> QED  BY <3>1, <3>2, <3>3, <2>4 DEF HistoryIsTail
  <2>6. ChainValid'
    <3> SUFFICES ASSUME NEW i \in 1 .. Len(hist')
                 PROVE  /\ \/ hist'[i].prev
                                = IF i = 1 THEN GENESIS ELSE hist'[i - 1].hash
                           \/ <<cut' + i - 1, hist'[i].prev>> \in anchors'
                        /\ hist'[i].hash = EventHash(hist'[i].prev, hist'[i].what)
      BY <2>4 DEF ChainValid, EventHash
    <3> DEFINE k == n + i
    <3>1. /\ k \in DOMAIN hist /\ k # 1 /\ hist'[i] = hist[k]
          /\ i # 1 => hist'[i - 1] = hist[k - 1]
          /\ cut' + i - 1 = cut + k - 1
      <4>1. /\ n \in Nat /\ n > 0 /\ i \in Nat /\ i > 0
            /\ i <= Len(hist) - n
        BY <2>2, <2>3, <1>1
      <4>2. k \in DOMAIN hist /\ k # 1
        BY <4>1, <1>1
      <4>3. hist'[i] = hist[k]
        BY <4>1, <2>3, <1>1
      <4>4. i # 1 => hist'[i - 1] = hist[n + (i - 1)] /\ n + (i - 1) = k - 1
        BY <4>1, <2>3, <1>1
      <4>5. cut' + i - 1 = cut + k - 1
        BY <4>1, <2>1, <1>0
      <4> QED  BY <4>2, <4>3, <4>4, <4>5
    <3>2. /\ \/ hist[k].prev = IF k = 1 THEN GENESIS ELSE hist[k - 1].hash
             \/ <<cut + k - 1, hist[k].prev>> \in anchors
          /\ hist[k].hash = EventHash(hist[k].prev, hist[k].what)
      <4>1. k \in DOMAIN hist
        BY <3>1
      <4> HIDE DEF k
      <4> QED  BY <4>1, <1>0, Zenon DEF ChainValid
    <3>3. hist[k].prev = hist[k - 1].hash
            \/ <<cut + k - 1, hist[k].prev>> \in anchors
      BY <3>1, <3>2
    <3>4. i = 1 => k - 1 = n /\ cut' + i - 1 = cut + n
      BY <2>1, <2>2, <1>0
    <3> QED  BY <3>1, <3>2, <3>3, <3>4, <2>1
  <2>7. anchors' \subseteq Nat \X Hash /\ cut' \in Nat
    <3>1. hist[n] \in Event /\ cut + n \in Nat
      BY <2>2, <1>0, ElementOfSeq
    <3> QED  BY <3>1, <2>1, <1>0 DEF Event
  <2>8. versioned
    BY <2>2, <1>1, EmptySeq DEF StoreOK, LogOK, NoHistoryBefore
  <2>9. StoreOK'
    BY <2>1, <2>3, <2>5, <2>6, <2>7, <2>8 DEF StoreOK, LogOK, NoHistoryBefore
  <2>10. EventsStay
    <3>1. ASSUME NEW i \in DOMAIN hist, cut + i > cut'
          PROVE  /\ cut + i - cut' \in DOMAIN hist'
                 /\ hist'[cut + i - cut'] = hist[i]
      <4>0. /\ n \in Int /\ i \in 1 .. Len(hist) /\ cut \in Int
            /\ cut' = cut + n /\ Len(hist) \in Int
        BY <2>1, <2>2, <1>0, <1>1
      <4>1. /\ cut + i - cut' = i - n /\ i - n \in 1 .. Len(hist) - n
            /\ n + (i - n) = i
        BY <3>1, <4>0
      <4>2. hist'[i - n] = hist[n + (i - n)]
        BY <4>1, <2>3
      <4> QED  BY <4>1, <4>2, <2>3, <2>4
    <3>2. cut' >= cut
      BY <2>1, <2>2, <1>0
    <3> QED  BY <3>1, <3>2 DEF EventsStay
  <2> QED  BY <2>9, <2>10
<1> QED  BY <1>1, <1>2, <1>3

\* Versioning starts its chain at the genesis hash, over an empty history.
LEMMA EnableKeepsStore ==
  ASSUME StoreOK, NEW t \in Threads, CreateTable(t)
  PROVE  StoreOK' /\ EventsStay
<1>1. PICK s \in Ascending(Present(rows)) :
        Record(GENESIS, [i \in DOMAIN s |-> Ins(s[i], rows[s[i]])])
  BY DEF CreateTable, EnableVersioning
<1>2. /\ versioned' = TRUE
      /\ UNCHANGED <<rows, cut, anchors, checkpoints, goal>>
      /\ HeadHash = GENESIS
  BY DEF CreateTable, EnableVersioning, StoreOK, LogOK, NoHistoryBefore, HeadHash
<1>3. [i \in DOMAIN s |-> Ins(s[i], rows[s[i]])] \in Seq(Change)
  <2>1. Present(rows) \in SUBSET PK /\ Present(rows) \subseteq Present(rows)
    BY DEF Present
  <2>2. rows \in Table
    BY DEF StoreOK
  <2> QED  BY <2>1, <2>2, Batches
<1>4. LogOK'
  BY <1>1, <1>2, <1>3, RecordKeepsLog DEF StoreOK
<1>5. EventsStay
  <2>1. GENESIS \in Hash
    BY <1>2, HeadHashType DEF StoreOK, LogOK
  <2>2. Chain(GENESIS, [i \in DOMAIN s |-> Ins(s[i], rows[s[i]])]) \in Seq(Event)
    BY <2>1, <1>3, ChainIsThreaded
  <2> QED  BY <2>2, <1>1, <1>2, SameEventsStay DEF Record, StoreOK
<1> QED  BY <1>2, <1>4, <1>5 DEF StoreOK

-----------------------------------------------------------------------------
(***************************************************************************)
(* What threads hold has its type.                                         *)
(***************************************************************************)
\* What an idle thread holds has the type of what threads hold.
LEMMA BlankType == Blank \in Locals
BY PKNonempty DEF Blank, Locals, Empty, Table, Content

\* A thread that moves to a step with well-typed values keeps the threads well
\* typed.
LEMMA GotoKeepsThreads ==
  ASSUME ThreadsOK, NEW t \in Threads, NEW step \in Steps, NEW l \in Locals,
         Goto(t, step, l)
  PROVE  ThreadsOK'
BY DEF ThreadsOK, Goto

\* A thread that ends its operation keeps the threads well typed.
LEMMA FinishKeepsThreads ==
  ASSUME ThreadsOK, NEW t \in Threads, Finish(t)
  PROVE  ThreadsOK'
BY BlankType, GotoKeepsThreads DEF Finish, Steps

\* The state at a log position is a table.
LEMMA StateAtType ==
  ASSUME LogOK, NEW seq \in Int
  PROVE  StateAt(seq) \in Table
<1> DEFINE n == IF seq <= cut THEN 0
                ELSE IF seq - cut < Len(hist) THEN seq - cut ELSE Len(hist)
           lg == [i \in 1 .. n |-> hist[i].what]
<1>1. /\ n \in Nat /\ n <= Len(hist)
      /\ \A i \in 1 .. n : hist[i].what \in Change
  <2>1. hist \in Seq(Event) /\ cut \in Nat /\ Len(hist) \in Nat
    BY LenProperties DEF LogOK
  <2>2. n \in Nat /\ n <= Len(hist)
    BY <2>1
  <2>3. \A i \in 1 .. n : hist[i] \in Event
    <3> HIDE DEF n
    <3> QED  BY <2>1, <2>2, ElementOfSeq
  <2> QED  BY <2>2, <2>3 DEF Event
<1> HIDE DEF n
<1>2. lg \in Seq(Change)
  BY <1>1, IsASeq
<1>3. Replay(lg) \in Table
  <2> HIDE DEF lg
  <2> QED  BY <1>2, ReplayType
<1> QED  BY <1>3 DEF StateAt, n

\* One step of any thread leaves it, and the others, with values of the
\* right type.
LEMMA StepKeepsThreads ==
  ASSUME IInv, NEW t \in Threads, ThreadStep(t)
  PROVE  ThreadsOK'
<1> USE DEF IInv
<1>1. local[t] \in Locals /\ rows \in Table /\ LogOK
  BY DEF ThreadsOK, StoreOK
<1>2. CASE Idle(t)
  BY <1>2 DEF Idle, ThreadsOK
<1>3. CASE Finish(t)
  BY <1>3, FinishKeepsThreads
<1>4. ASSUME NEW p \in PK, NEW v \in Values, UpsertLook(t, p, v)
      PROVE  ThreadsOK'
  <2>1. [Blank EXCEPT !.pk = p, !.row = v] \in Locals
    BY BlankType DEF Locals, Content
  <2> DEFINE step == IF rows[p] = NoRow THEN "upsert_insert" ELSE "upsert_update"
  <2>2. step \in Steps /\ Goto(t, step, [Blank EXCEPT !.pk = p, !.row = v])
    BY <1>4 DEF Steps, UpsertLook
  <2> QED  BY <2>1, <2>2, GotoKeepsThreads
<1>5. ASSUME NEW seq \in Int, NEW step \in Steps,
             Goto(t, step, [Blank EXCEPT !.seq = seq])
      PROVE  ThreadsOK'
  <2>1. [Blank EXCEPT !.seq = seq] \in Locals
    BY BlankType DEF Locals
  <2> QED  BY <1>5, <2>1, GotoKeepsThreads
<1>6. CASE RollbackTarget(t)
  <2>1. StateAt(local[t].seq) \in Table
    BY <1>1, StateAtType DEF Locals
  <2>2. [local[t] EXCEPT !.target = StateAt(local[t].seq)] \in Locals
    BY <1>1, <2>1 DEF Locals
  <2> QED  BY <1>6, <2>2, GotoKeepsThreads DEF RollbackTarget, Steps
<1>7. CASE RollbackCurrent(t)
  <2>1. [local[t] EXCEPT !.current = rows] \in Locals
    BY <1>1 DEF Locals
  <2> QED  BY <1>7, <2>1, GotoKeepsThreads DEF RollbackCurrent, Steps
<1>8. CASE RollbackRemove(t)
  BY <1>1, <1>8, GotoKeepsThreads DEF RollbackRemove, Steps
<1>9. ASSUME NEW seq \in 0 .. MaxEvents, RollbackBegin(t, seq)
      PROVE  ThreadsOK'
  BY <1>5, <1>9, MaxEventsAssumption DEF RollbackBegin, Steps
<1>10. ASSUME NEW before \in 1 .. MaxEvents + 1, NEW keep \in Keep,
              PruneBegin(t, before, keep)
       PROVE  ThreadsOK'
  BY <1>5, <1>10, MaxEventsAssumption DEF PruneBegin, Steps
<1>11. CASE CreateTable(t) \/ \E l \in Labels : Checkpoint(t, l)
  BY <1>2, <1>11 DEF CreateTable, EnableVersioning, Checkpoint
<1>12. ASSUME NEW p \in PK, NEW v \in Values, Insert(t, p, v) \/ Update(t, p, v)
       PROVE  ThreadsOK'
  BY <1>2, <1>12 DEF Insert, Update
<1>13. ASSUME NEW p \in PK, NEW q \in PK, NEW v \in Values,
              InsertBatch(t, p, q, v) \/ ChangeKey(t, p, q, v)
       PROVE  ThreadsOK'
  BY <1>2, <1>13 DEF InsertBatch, ChangeKey
<1>14. ASSUME NEW p \in PK, Delete(t, p)
       PROVE  ThreadsOK'
  BY <1>2, <1>14 DEF Delete
<1>15. CASE \/ UpsertWrite(t) \/ UpsertMiss(t) \/ RollbackRestore(t)
            \/ RollbackFail(t) \/ PruneDelete(t)
  BY <1>3, <1>15 DEF UpsertWrite, UpsertMiss, RollbackRestore, RollbackFail,
                     PruneDelete
<1> QED  BY <1>4, <1>6, <1>7, <1>8, <1>9, <1>10, <1>11, <1>12, <1>13, <1>14,
            <1>15 DEF ThreadStep

-----------------------------------------------------------------------------
(***************************************************************************)
(* What a write records and what it leaves in the table have their types.  *)
(***************************************************************************)
\* Phases 1 and 2 of a rollback append their batches to the head of the chain.
LEMMA RollbackKeepsStore ==
  ASSUME IInv, NEW t \in Threads, RollbackRemove(t) \/ RollbackRestore(t)
  PROVE  StoreOK' /\ EventsStay
<1>1. /\ StoreOK /\ rows \in Table /\ local[t] \in Locals
      /\ local[t].target \in Table /\ local[t].current \in Table
  BY DEF IInv, StoreOK, ThreadsOK, Locals
<1>2. CASE RollbackRemove(t)
  <2> DEFINE gone == Removals(local[t])
  <2>1. CASE gone = {}
    BY <1>1, <1>2, <2>1, UnchangedKeepsStore DEF RollbackRemove
  <2>2. CASE gone # {}
    <3>1. PICK s \in Ascending(gone) :
            Write([p \in PK |-> IF p \in gone THEN NoRow ELSE rows[p]],
                  [i \in DOMAIN s |-> Del(s[i], rows[s[i]])])
      BY <1>2, <2>2 DEF RollbackRemove
    <3>2. gone \subseteq PK /\ gone \subseteq Present(rows)
      BY <1>2 DEF RollbackRemove, Present
    <3> HIDE DEF gone
    <3>3. [i \in DOMAIN s |-> Del(s[i], rows[s[i]])] \in Seq(Change)
      BY <3>2, <1>1, Batches
    <3>4. [p \in PK |-> IF p \in gone THEN NoRow ELSE rows[p]] \in Table
      BY <1>1 DEF Table, Content
    <3> QED  BY <1>1, <3>1, <3>3, <3>4, WriteKeepsStore
  <2> QED  BY <2>1, <2>2
<1>3. CASE RollbackRestore(t)
  <2> DEFINE target == local[t].target
             ins == Inserts(local[t])
             upd == Updates(local[t])
             after == [p \in PK |->
                         IF p \in ins \cup (upd \cap Present(rows))
                         THEN target[p] ELSE rows[p]]
  <2>1. CASE ins \cup upd = {}
    BY <1>1, <1>3, <2>1, UnchangedKeepsStore DEF RollbackRestore
  <2>2. CASE ins \cup upd # {}
    <3>1. PICK a \in Ascending(ins), b \in Ascending(upd) :
            Write(after, [i \in DOMAIN a |-> Ins(a[i], target[a[i]])]
                         \o [i \in DOMAIN b |-> Upd(b[i], target[b[i]])])
      BY <1>3, <2>2 DEF RollbackRestore
    <3>2. /\ ins \subseteq PK /\ ins \subseteq Present(target)
          /\ upd \subseteq PK /\ upd \subseteq Present(target)
      BY DEF Inserts, Updates, Present
    <3> HIDE DEF ins, upd
    <3>3. after \in Table
      BY <1>1 DEF Table
    <3>4. /\ [i \in DOMAIN a |-> Ins(a[i], target[a[i]])] \in Seq(Change)
          /\ [i \in DOMAIN b |-> Upd(b[i], target[b[i]])] \in Seq(Change)
      <4> HIDE DEF target
      <4>1. target \in Table
        BY <1>1 DEF target
      <4> QED  BY <3>2, <4>1, Batches
    <3>5. [i \in DOMAIN a |-> Ins(a[i], target[a[i]])]
            \o [i \in DOMAIN b |-> Upd(b[i], target[b[i]])] \in Seq(Change)
      BY <3>4, ConcatProperties
    <3> HIDE DEF after
    <3> QED  BY <1>1, <3>1, <3>3, <3>5, WriteKeepsStore
  <2> QED  BY <2>1, <2>2
<1> QED  BY <1>2, <1>3

\* An insert appends its event to the head of the chain.
LEMMA InsertKeepsStore ==
  ASSUME StoreOK, NEW p \in PK, NEW v \in Values, InsertRow(p, v)
  PROVE  StoreOK' /\ EventsStay
<1>1. [rows EXCEPT ![p] = v] \in Table
  BY DEF StoreOK, Table, Content
<1>2. <<Ins(p, v)>> \in Seq(Change)
  BY DEF Ins, Change
<1> QED  BY <1>1, <1>2, WriteKeepsStore DEF InsertRow

\* An update appends its event to the head of the chain.
LEMMA UpdateKeepsStore ==
  ASSUME StoreOK, NEW p \in PK, NEW v \in Values, UpdateRow(p, v)
  PROVE  StoreOK' /\ EventsStay
<1>1. [rows EXCEPT ![p] = v] \in Table
  BY DEF StoreOK, Table, Content
<1>2. <<Upd(p, v)>> \in Seq(Change)
  BY DEF Upd, Change
<1> QED  BY <1>1, <1>2, WriteKeepsStore DEF UpdateRow

\* An upsert that looked a key up writes the content it was given.
LEMMA UpsertKeepsStore ==
  ASSUME IInv, NEW t \in Threads, UpsertWrite(t)
  PROVE  StoreOK' /\ EventsStay
<1>1. local[t].pk \in PK /\ local[t].row \in Values /\ StoreOK
  BY DEF IInv, ThreadsOK, Locals, UpsertContent, UpsertWrite
<1> QED  BY <1>1, InsertKeepsStore, UpdateKeepsStore DEF UpsertWrite

\* Every step of a thread keeps the chain and the log.
LEMMA StepKeepsStore ==
  ASSUME IInv, NEW t \in Threads, ThreadStep(t)
  PROVE  StoreOK' /\ EventsStay
<1>1. StoreOK /\ rows \in Table /\ local[t] \in Locals
  BY DEF IInv, StoreOK, ThreadsOK
<1>2. CASE CreateTable(t)
  BY <1>1, <1>2, EnableKeepsStore
<1>3. ASSUME NEW p \in PK, NEW v \in Values, Insert(t, p, v) \/ Update(t, p, v)
      PROVE  StoreOK' /\ EventsStay
  BY <1>1, <1>3, InsertKeepsStore, UpdateKeepsStore DEF Insert, Update
<1>4. ASSUME NEW p \in PK, NEW q \in PK, NEW v \in Values,
             InsertBatch(t, p, q, v)
      PROVE  StoreOK' /\ EventsStay
  <2>1. [rows EXCEPT ![p] = v, ![q] = v] \in Table
    BY <1>1 DEF Table, Content
  <2>2. <<Ins(p, v), Ins(q, v)>> \in Seq(Change)
    BY DEF Ins, Change
  <2> QED  BY <1>1, <1>4, <2>1, <2>2, WriteKeepsStore DEF InsertBatch
<1>5. ASSUME NEW p \in PK, NEW q \in PK, NEW v \in Values,
             ChangeKey(t, p, q, v)
      PROVE  StoreOK' /\ EventsStay
  <2>1. [rows EXCEPT ![p] = NoRow, ![q] = v] \in Table
    BY <1>1 DEF Table, Content
  <2>2. Move(p, q, v) \in Seq(Change)
    BY DEF Move, Del, Upd, Change
  <2> QED  BY <1>1, <1>5, <2>1, <2>2, WriteKeepsStore DEF ChangeKey
<1>6. ASSUME NEW p \in PK, Delete(t, p)
      PROVE  StoreOK' /\ EventsStay
  <2>1. [rows EXCEPT ![p] = NoRow] \in Table
    BY <1>1 DEF Table, Content
  <2>2. rows[p] \in Values
    BY <1>1, <1>6 DEF Delete, Table, Content
  <2>3. <<Del(p, rows[p])>> \in Seq(Change)
    BY <2>2 DEF Del, Change
  <2> QED  BY <1>1, <1>6, <2>1, <2>3, WriteKeepsStore DEF Delete
<1>7. ASSUME NEW l \in Labels, Checkpoint(t, l)
      PROVE  StoreOK' /\ EventsStay
  <2>1. MaxSeq \in Nat
    BY <1>1, LenProperties DEF StoreOK, LogOK, MaxSeq
  <2>2. /\ checkpoints' \in [Labels -> Nat \cup {NoSeq}]
        /\ goal' \in [Labels -> Table]
    BY <1>1, <1>7, <2>1 DEF Checkpoint, StoreOK
  <2>3. UNCHANGED <<rows, versioned, hist, cut, anchors, past>>
    BY <1>7 DEF Checkpoint
  <2>4. StoreOK'
    BY <1>1, <2>2, <2>3
       DEF StoreOK, LogOK, HistoryIsTail, NoHistoryBefore, ChainValid
  <2> QED  BY <2>3, <2>4, <1>1, SameEventsStay DEF StoreOK
<1>8. CASE UpsertWrite(t)
  BY <1>8, UpsertKeepsStore
<1>9. CASE RollbackRemove(t) \/ RollbackRestore(t)
  BY <1>9, RollbackKeepsStore
<1>10. CASE PruneDelete(t)
  BY <1>1, <1>10, PruneKeepsStore
<1>11. ASSUME \/ \E p \in PK, v \in Values : UpsertLook(t, p, v)
              \/ UpsertMiss(t)
              \/ \E seq \in 0 .. MaxEvents : RollbackBegin(t, seq)
              \/ RollbackTarget(t) \/ RollbackCurrent(t) \/ RollbackFail(t)
              \/ \E before \in 1 .. MaxEvents + 1, keep \in Keep :
                   PruneBegin(t, before, keep)
       PROVE  StoreOK' /\ EventsStay
  <2>1. UNCHANGED <<store, aux>>
    BY <1>11 DEF UpsertLook, UpsertMiss, RollbackBegin, RollbackTarget,
                 RollbackCurrent, RollbackFail, PruneBegin
  <2> QED  BY <1>1, <2>1, UnchangedKeepsStore
<1> QED  BY <1>2, <1>3, <1>4, <1>5, <1>6, <1>7, <1>8, <1>9, <1>10, <1>11
         DEF ThreadStep

\* Every step of a thread keeps what an upsert holds between its transactions.
LEMMA StepKeepsUpserts ==
  ASSUME IInv, NEW t \in Threads, ThreadStep(t)
  PROVE  UpsertContent'
<1>1. /\ pc \in [Threads -> Steps] /\ local \in [Threads -> Locals]
      /\ UpsertContent
  BY DEF IInv, ThreadsOK
<1>2. CASE Idle(t)
  BY <1>1, <1>2 DEF Idle, UpsertContent
<1>3. ASSUME NEW p \in PK, NEW v \in Values, UpsertLook(t, p, v)
      PROVE  UpsertContent'
  <2>1. /\ local' = [local EXCEPT ![t] = [Blank EXCEPT !.pk = p, !.row = v]]
        /\ \A u \in Threads \ {t} : pc'[u] = pc[u]
    BY <1>1, <1>3 DEF UpsertLook, Goto
  <2>2. local'[t].row = v /\ \A u \in Threads \ {t} : local'[u] = local[u]
    BY <1>1, <2>1 DEF Blank
  <2> QED  BY <1>1, <2>1, <2>2 DEF UpsertContent
<1>4. ASSUME NEW step \in Steps \ {"upsert_insert", "upsert_update"}, NEW l,
             Goto(t, step, l)
      PROVE  UpsertContent'
  BY <1>1, <1>4 DEF UpsertContent, Goto
<1>5. CASE Finish(t)
  BY <1>4, <1>5 DEF Finish, Steps
<1>6. CASE \/ CreateTable(t)
           \/ \E p \in PK, v \in Values : Insert(t, p, v) \/ Update(t, p, v)
           \/ \E p, q \in PK, v \in Values :
                InsertBatch(t, p, q, v) \/ ChangeKey(t, p, q, v)
           \/ \E p \in PK : Delete(t, p)
           \/ \E l \in Labels : Checkpoint(t, l)
  BY <1>2, <1>6 DEF CreateTable, EnableVersioning, Insert, Update, InsertBatch,
                    ChangeKey, Delete, Checkpoint
<1>7. CASE \/ UpsertWrite(t) \/ UpsertMiss(t) \/ RollbackRestore(t)
           \/ RollbackFail(t) \/ PruneDelete(t)
  BY <1>5, <1>7 DEF UpsertWrite, UpsertMiss, RollbackRestore, RollbackFail,
                    PruneDelete
<1>8. CASE \/ \E seq \in 0 .. MaxEvents : RollbackBegin(t, seq)
           \/ RollbackTarget(t) \/ RollbackCurrent(t) \/ RollbackRemove(t)
           \/ \E before \in 1 .. MaxEvents + 1, keep \in Keep :
                PruneBegin(t, before, keep)
  BY <1>4, <1>8 DEF RollbackBegin, RollbackTarget, RollbackCurrent,
                    RollbackRemove, PruneBegin, Steps
<1> QED  BY <1>3, <1>6, <1>7, <1>8 DEF ThreadStep

-----------------------------------------------------------------------------
\* The invariant holds of an empty table.
LEMMA InitIsOK == Init => IInv
<1> SUFFICES ASSUME Init PROVE IInv
  OBVIOUS
<1>1. LogOK
  BY EmptySeq DEF Init, LogOK, HistoryIsTail, NoHistoryBefore, ChainValid
<1>2. Empty \in Table
  BY DEF Empty, Table, Content
<1>3. StoreOK
  BY <1>1, <1>2 DEF Init, StoreOK, NoSeq
<1>4. ThreadsOK /\ UpsertContent
  BY BlankType DEF Init, ThreadsOK, UpsertContent, Steps
<1> QED  BY <1>3, <1>4 DEF IInv

\* The invariant is inductive.
LEMMA StepKeepsIInv == IInv /\ [Next]_vars => IInv'
<1> SUFFICES ASSUME IInv, [Next]_vars PROVE IInv'
  OBVIOUS
<1>1. ASSUME NEW t \in Threads, ThreadStep(t) PROVE IInv'
  BY <1>1, StepKeepsStore, StepKeepsThreads, StepKeepsUpserts DEF IInv
<1>2. CASE Crash
  <2>1. StoreOK'
    BY <1>2, UnchangedKeepsStore DEF Crash, IInv
  <2>2. ThreadsOK' /\ UpsertContent'
    BY <1>2, BlankType DEF Crash, ThreadsOK, UpsertContent, Steps
  <2> QED  BY <2>1, <2>2 DEF IInv
<1>3. CASE UNCHANGED vars
  <2>1. StoreOK'
    BY <1>3, UnchangedKeepsStore DEF vars, store, aux, IInv
  <2>2. ThreadsOK' /\ UpsertContent'
    BY <1>3 DEF vars, IInv, ThreadsOK, UpsertContent
  <2> QED  BY <2>1, <2>2 DEF IInv
<1> QED  BY <1>1, <1>2, <1>3 DEF Next

\* The invariant holds in every state any number of threads can reach.
THEOREM IInvAlways == Spec => []IInv
<1> QED  BY InitIsOK, StepKeepsIInv, PTL DEF Spec

\* Every variable keeps its type.
THEOREM TypeCorrect == Spec => []TypeOK
<1>1. IInv => TypeOK
  BY DEF IInv, StoreOK, LogOK, ThreadsOK, TypeOK
<1> QED  BY <1>1, IInvAlways, PTL

\* verify_chain finds every reachable history valid, for any interleaving of
\* writers, rollbacks and prunes and any crash.
THEOREM ChainAlwaysValid == Spec => []ChainValid
<1>1. IInv => ChainValid
  BY DEF IInv, StoreOK, LogOK
<1> QED  BY <1>1, IInvAlways, PTL

-----------------------------------------------------------------------------
(***************************************************************************)
(* Point-in-time reads.                                                    *)
(***************************************************************************)

\* There is one latest change of a key, and the key has what it left.
LEMMA ReplayAtLatest ==
  ASSUME NEW lg \in Seq(Change), NEW p \in PK,
         NEW i \in 1 .. Len(lg), IsLatest(lg, p, i)
  PROVE  Replay(lg)[p] = Post(lg[i])
<1>1. Len(lg) \in Nat
  BY LenProperties
<1>2. ASSUME NEW j \in 1 .. Len(lg), IsLatest(lg, p, j)
      PROVE  j = i
  BY <1>1, <1>2 DEF IsLatest
<1>3. i = CHOOSE j \in 1 .. Len(lg) : IsLatest(lg, p, j)
  BY <1>2
<1> QED  BY <1>3 DEF Replay

\* A row that as_of returns is the last post-image of its key in the full log.
LEMMA AsOfFollowsLog ==
  ASSUME LogOK
  PROVE  AsOfSound
<1> SUFFICES ASSUME NEW seq \in cut + 1 .. cut + Len(hist)
             PROVE  /\ \A p \in Present(StateAt(seq)) :
                         StateAt(seq)[p] = Replay(SubSeq(past, 1, seq))[p]
                    /\ cut = 0 => StateAt(seq) = Replay(SubSeq(past, 1, seq))
  BY DEF AsOfSound
<1> DEFINE n == seq - cut
           lg == [i \in 1 .. n |-> hist[i].what]
           full == SubSeq(past, 1, seq)
<1>1. /\ hist \in Seq(Event) /\ past \in Seq(Change) /\ cut \in Nat
      /\ Len(hist) \in Nat /\ DOMAIN hist = 1 .. Len(hist)
      /\ Len(past) = cut + Len(hist)
      /\ \A i \in 1 .. Len(hist) : hist[i].what = past[cut + i]
  BY LenProperties DEF LogOK, HistoryIsTail
<1>2. n \in 1 .. Len(hist) /\ seq \in 1 .. Len(past) /\ seq = cut + n
  BY <1>1
<1>3. StateAt(seq) = Replay(lg)
  <2>1. ~(seq <= cut)
    BY <1>1
  <2>2. (IF seq - cut < Len(hist) THEN seq - cut ELSE Len(hist)) = n
    BY <1>1
  <2> QED  BY <2>1, <2>2 DEF StateAt
<1>4. /\ lg \in Seq(Change) /\ Len(lg) = n
      /\ \A i \in 1 .. n : lg[i] = past[cut + i]
  <2>1. \A i \in 1 .. n : hist[i] \in Event /\ hist[i].what = past[cut + i]
    <3> HIDE DEF n
    <3> QED  BY <1>1, <1>2, ElementOfSeq
  <2>2. \A i \in 1 .. n : hist[i].what \in Change
    BY <2>1 DEF Event
  <2>3. n \in Nat
    BY <1>2, <1>1
  <2> HIDE DEF n
  <2> QED  BY <2>1, <2>2, <2>3, IsASeq
<1>5. /\ full \in Seq(Change) /\ Len(full) = seq
      /\ \A i \in 1 .. seq : full[i] = past[i]
  <2>1. \A i \in 1 .. seq : past[i] \in Change
    BY <1>1, <1>2, ElementOfSeq
  <2>2. seq \in Int /\ 1 <= seq /\ 1 \in Int
    BY <1>2
  <2>3. /\ full \in Seq(Change)
        /\ Len(full) = IF 1 <= seq THEN seq - 1 + 1 ELSE 0
        /\ \A i \in 1 .. seq - 1 + 1 : full[i] = past[1 + i - 1]
    BY <2>1, <2>2, SubSeqProperties
  <2> QED  BY <2>2, <2>3
<1> HIDE DEF lg, full
<1>6. ASSUME NEW p \in PK, StateAt(seq)[p] # NoRow
      PROVE  StateAt(seq)[p] = Replay(full)[p]
  <2>1. PICK i \in 1 .. n : IsLatest(lg, p, i)
    BY <1>3, <1>4, <1>6 DEF Replay
  <2>2. cut + i \in 1 .. seq /\ full[cut + i] = lg[i]
    BY <1>1, <1>2, <1>4, <1>5, <2>1
  <2>3. IsLatest(full, p, cut + i)
    <3>1. full[cut + i].pk = p
      BY <2>1, <2>2 DEF IsLatest
    <3>2. ASSUME NEW j \in cut + i + 1 .. seq
          PROVE  full[j].pk # p
      <4> DEFINE k == j - cut
      <4>1. k \in i + 1 .. n /\ k \in 1 .. n /\ cut + k = j /\ j \in 1 .. seq
        BY <1>1, <1>2, <2>1
      <4>2. lg[k] = full[j]
        BY <4>1, <1>4, <1>5
      <4> QED  BY <4>1, <4>2, <2>1, <1>4 DEF IsLatest
    <3> QED  BY <3>1, <3>2, <1>5 DEF IsLatest
  <2>4. Replay(lg)[p] = Post(lg[i])
    BY <2>1, <1>4, ReplayAtLatest
  <2>5. Replay(full)[p] = Post(full[cut + i])
    BY <2>2, <2>3, <1>5, ReplayAtLatest
  <2> QED  BY <2>2, <2>4, <2>5, <1>3
<1>7. cut = 0 => StateAt(seq) = Replay(full)
  <2> SUFFICES ASSUME cut = 0 PROVE lg = full
    BY <1>3
  <2>1. Len(lg) = Len(full) /\ \A i \in 1 .. Len(lg) : lg[i] = full[i]
    BY <1>1, <1>2, <1>4, <1>5
  <2> QED  BY <2>1, <1>4, <1>5, SeqEqual
<1> QED  BY <1>6, <1>7 DEF Present, full

\* as_of never returns a row that was not there at that position.
THEOREM AsOfAlwaysSound == Spec => []AsOfSound
<1>1. IInv => AsOfSound
  BY AsOfFollowsLog DEF IInv, StoreOK
<1> QED  BY <1>1, IInvAlways, PTL

-----------------------------------------------------------------------------
\* No step of any thread, and no crash, rewrites an event that stays.
THEOREM ChainNeverRewritten == Spec => ChainNeverRewinds
<1>1. ASSUME IInv, [Next]_vars
      PROVE  EventsStay
  <2>1. ASSUME NEW t \in Threads, ThreadStep(t) PROVE EventsStay
    BY <1>1, <2>1, StepKeepsStore
  <2>2. CASE Crash \/ UNCHANGED vars
    BY <1>1, <2>2, UnchangedKeepsStore DEF Crash, vars, store, aux, IInv
  <2> QED  BY <1>1, <2>1, <2>2 DEF Next
<1>2. IInv /\ [Next]_vars => [EventsStay]_vars
  BY <1>1
<1>3. [][EventsStay]_vars => ChainNeverRewinds
  BY PTL DEF EventsStay, ChainNeverRewinds
<1> QED  BY <1>2, <1>3, IInvAlways, PTL DEF Spec
=============================================================================

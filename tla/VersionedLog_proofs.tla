------------------------ MODULE VersionedLog_proofs ------------------------
(***************************************************************************)
(* What the log of a versioned table says of its rows: for any threads,    *)
(* that every row is the last post-image of its key; for one thread, that  *)
(* the table is the replay of its log, that a checkpoint names the rows it *)
(* was set on and a rollback ends with its target.                         *)
(***************************************************************************)
EXTENDS VersionedTable_proofs, WellFoundedInduction

(***************************************************************************)
(* The end of a log decides.                                               *)
(***************************************************************************)
Mentions(cs, p) == \E i \in 1 .. Len(cs) : cs[i].pk = p

Leaves(cs, p, c) == \A i \in 1 .. Len(cs) : cs[i].pk = p => Post(cs[i]) = c

\* A set of positions has a largest one.
LEMMA LargestPosition ==
  ASSUME NEW n \in Nat, NEW S, S \subseteq 1 .. n, S # {}
  PROVE  \E m \in S : \A j \in S : j <= m
<1> DEFINE T == {x \in Nat : n - x \in S}
<1>1. T \subseteq Nat /\ T # {}
  <2>1. PICK i \in S : i \in 1 .. n
    OBVIOUS
  <2>2. n - i \in Nat /\ n - (n - i) = i
    BY <2>1
  <2> QED  BY <2>1, <2>2
<1>2. PICK x \in T : \A y \in T : <<y, x>> \notin OpToRel(<, Nat)
  <2> HIDE DEF T
  <2> QED  BY <1>1, NatLessThanWellFounded, WFMin
<1>3. ASSUME NEW j \in S
      PROVE  j <= n - x
  <2>1. j \in 1 .. n /\ n - j \in Nat /\ n - (n - j) = j
    OBVIOUS
  <2>2. n - j \in T
    BY <2>1
  <2>3. ~ (n - j < x)
    BY <1>2, <2>2 DEF OpToRel
  <2> QED  BY <2>1, <2>3
<1> QED  BY <1>2, <1>3

\* A key that is mentioned has a latest change.
LEMMA LatestExists ==
  ASSUME NEW lg \in Seq(Change), NEW p, Mentions(lg, p)
  PROVE  \E i \in 1 .. Len(lg) : IsLatest(lg, p, i)
<1> DEFINE S == {i \in 1 .. Len(lg) : lg[i].pk = p}
<1>1. Len(lg) \in Nat
  BY LenProperties
<1>2. S \subseteq 1 .. Len(lg) /\ S # {}
  BY DEF Mentions
<1>3. PICK i \in S : \A j \in S : j <= i
  <2> HIDE DEF S
  <2> QED  BY <1>1, <1>2, LargestPosition
<1>4. \A j \in i + 1 .. Len(lg) : lg[j].pk # p
  BY <1>1, <1>3
<1> QED  BY <1>3, <1>4 DEF IsLatest

\* A batch that mentions a key decides what the log says of it; one that does
\* not changes nothing.
LEMMA ReplayOfMore ==
  ASSUME NEW lg \in Seq(Change), NEW cs \in Seq(Change), NEW p \in PK, NEW c
  PROVE  /\ ~Mentions(cs, p) => Replay(lg \o cs)[p] = Replay(lg)[p]
         /\ Mentions(cs, p) /\ Leaves(cs, p, c) => Replay(lg \o cs)[p] = c
<1> DEFINE all == lg \o cs
<1>1. /\ all \in Seq(Change) /\ Len(lg) \in Nat /\ Len(cs) \in Nat
      /\ Len(all) = Len(lg) + Len(cs)
      /\ \A i \in 1 .. Len(lg) : all[i] = lg[i]
      /\ \A i \in 1 .. Len(cs) : all[Len(lg) + i] = cs[i]
  BY ConcatProperties, LenProperties
<1> HIDE DEF all
<1>2. ASSUME ~Mentions(cs, p)
      PROVE  Replay(all)[p] = Replay(lg)[p]
  <2>1. \A i \in 1 .. Len(all) :
          all[i].pk = p => i \in 1 .. Len(lg) /\ lg[i].pk = p
    <3> SUFFICES ASSUME NEW i \in 1 .. Len(all), all[i].pk = p
                 PROVE  i \in 1 .. Len(lg) /\ lg[i].pk = p
      OBVIOUS
    <3>1. CASE i \in 1 .. Len(lg)
      BY <1>1, <3>1
    <3>2. CASE i \notin 1 .. Len(lg)
      <4>1. i - Len(lg) \in 1 .. Len(cs) /\ Len(lg) + (i - Len(lg)) = i
        BY <1>1, <3>2
      <4> QED BY <1>1, <1>2, <4>1 DEF Mentions
    <3> QED BY <3>1, <3>2
  <2>2. CASE Mentions(lg, p)
    <3>1. PICK i \in 1 .. Len(lg) : IsLatest(lg, p, i)
      BY <2>2, LatestExists
    <3>2. i \in 1 .. Len(all) /\ all[i] = lg[i]
      BY <1>1
    <3>3. \A j \in i + 1 .. Len(all) : all[j].pk # p
      <4> SUFFICES ASSUME NEW j \in i + 1 .. Len(all), all[j].pk = p
                   PROVE  FALSE
        OBVIOUS
      <4>1. j \in 1 .. Len(all)
        BY <3>2
      <4>2. j \in 1 .. Len(lg) /\ lg[j].pk = p
        BY <2>1, <4>1
      <4> QED BY <3>1, <4>2 DEF IsLatest
    <3>4. IsLatest(all, p, i)
      BY <3>1, <3>2, <3>3 DEF IsLatest
    <3> QED BY <1>1, <3>1, <3>2, <3>4, ReplayAtLatest
  <2>3. CASE ~Mentions(lg, p)
    <3>1. /\ ~\E i \in 1 .. Len(all) : IsLatest(all, p, i)
          /\ ~\E i \in 1 .. Len(lg) : IsLatest(lg, p, i)
      BY <2>1, <2>3 DEF IsLatest, Mentions
    <3> QED BY <3>1 DEF Replay
  <2> QED BY <2>2, <2>3
<1>3. ASSUME Mentions(cs, p), Leaves(cs, p, c)
      PROVE  Replay(all)[p] = c
  <2>1. PICK i \in 1 .. Len(cs) : IsLatest(cs, p, i)
    BY <1>3, LatestExists
  <2>2. Len(lg) + i \in 1 .. Len(all) /\ all[Len(lg) + i] = cs[i]
    BY <1>1
  <2>3. \A j \in Len(lg) + i + 1 .. Len(all) : all[j].pk # p
    <3> SUFFICES ASSUME NEW j \in Len(lg) + i + 1 .. Len(all)
                 PROVE  all[j].pk # p
      OBVIOUS
    <3>1. /\ j - Len(lg) \in i + 1 .. Len(cs) /\ Len(lg) + (j - Len(lg)) = j
          /\ j - Len(lg) \in 1 .. Len(cs)
      BY <1>1
    <3> QED BY <1>1, <2>1, <3>1 DEF IsLatest
  <2>4. IsLatest(all, p, Len(lg) + i)
    BY <2>1, <2>2, <2>3 DEF IsLatest
  <2>5. Replay(all)[p] = Post(cs[i])
    BY <1>1, <2>2, <2>4, ReplayAtLatest
  <2> QED BY <1>3, <2>1, <2>5 DEF Leaves, IsLatest
<1> QED BY <1>2, <1>3 DEF all

\* Keys are visited once each, and none is left out.
LEMMA AscendingVisits ==
  ASSUME NEW S \in SUBSET PK, NEW s \in Ascending(S)
  PROVE  /\ \A p \in S : \E i \in 1 .. Len(s) : s[i] = p
         /\ \A i, j \in 1 .. Len(s) : s[i] = s[j] => i = j
         /\ Len(s) = Cardinality(S)
<1> DEFINE n == Cardinality(S)
<1>1. IsFiniteSet(S) /\ n \in Nat
  BY PKAssumption, FS_Subset, FS_CardinalityType
<1>2. s \in [1 .. n -> S] /\ \A i, j \in 1 .. n : i < j => s[i] < s[j]
  BY DEF Ascending
<1>3. Len(s) = n
  BY <1>1, <1>2, AscendingType, LenProperties
<1>4. \A i \in 1 .. n : s[i] \in Int
  BY <1>2, PKAssumption
<1>5. \A i, j \in 1 .. n : s[i] = s[j] => i = j
  <2> SUFFICES ASSUME NEW i \in 1 .. n, NEW j \in 1 .. n, i # j
               PROVE  s[i] # s[j]
    OBVIOUS
  <2>1. i < j \/ j < i
    BY <1>1
  <2> QED BY <1>2, <1>4, <2>1
<1>6. s \in Injection(1 .. n, S)
  BY <1>2, <1>5 DEF Injection, IsInjective
<1>7. Cardinality(1 .. n) = n
  BY <1>1, FS_Interval
<1>8. s \in Surjection(1 .. n, S)
  BY <1>1, <1>6, <1>7, FS_Injection
<1> QED BY <1>3, <1>5, <1>8 DEF Surjection

-----------------------------------------------------------------------------
(***************************************************************************)
(* Every write tells the log what it does to each key.                     *)
(***************************************************************************)
\* The log says of a key what the table says.
Logged(p) == versioned => Replay(past)[p] = rows[p]

\* A batch says of a key what a table has, or neither says anything new.
Told(tb, cs, p) ==
  IF Mentions(cs, p) THEN Leaves(cs, p, tb[p]) ELSE tb[p] = rows[p]

\* A write that tells the log of a key leaves the key logged.
LEMMA WriteKeepsLogged ==
  ASSUME LogOK, versioned \in BOOLEAN, NEW tb \in Table,
         NEW cs \in Seq(Change), Write(tb, cs), NEW p \in PK,
         Told(tb, cs, p), rows'[p] = rows[p] => Logged(p)
  PROVE  Logged(p)'
<1>1. rows' = tb /\ versioned' = versioned /\ past \in Seq(Change)
  BY DEF Write, LogOK
<1>2. CASE versioned
  <2>1. past' = past \o cs
    BY <1>2 DEF Write, Record
  <2>2. CASE Mentions(cs, p)
    <3>1. Replay(past \o cs)[p] = tb[p]
      BY <1>1, <2>2, ReplayOfMore DEF Told
    <3> QED BY <1>1, <2>1, <3>1 DEF Logged
  <2>3. CASE ~Mentions(cs, p)
    <3>1. Replay(past \o cs)[p] = Replay(past)[p]
      BY <1>1, <2>3, ReplayOfMore
    <3>2. tb[p] = rows[p]
      BY <2>3 DEF Told
    <3> QED BY <1>1, <1>2, <2>1, <3>1, <3>2 DEF Logged
  <2> QED BY <2>2, <2>3
<1>3. CASE ~versioned
  BY <1>1, <1>3 DEF Logged
<1> QED BY <1>1, <1>2, <1>3

\* The batches the code builds from a set of keys.
Inserting(s, tb) == [i \in DOMAIN s |-> Ins(s[i], tb[s[i]])]

Updating(s, tb) == [i \in DOMAIN s |-> Upd(s[i], tb[s[i]])]

Deleting(s, tb) == [i \in DOMAIN s |-> Del(s[i], tb[s[i]])]

\* They say of the keys of the set what the table has, or that they are gone;
\* of others nothing.
LEMMA BatchesTell ==
  ASSUME NEW S \in SUBSET PK, NEW s \in Ascending(S), NEW tb \in Table,
         NEW p \in PK
  PROVE  /\ Mentions(Inserting(s, tb), p) <=> p \in S
         /\ Mentions(Updating(s, tb), p) <=> p \in S
         /\ Mentions(Deleting(s, tb), p) <=> p \in S
         /\ Leaves(Inserting(s, tb), p, tb[p])
         /\ Leaves(Updating(s, tb), p, tb[p])
         /\ Leaves(Deleting(s, tb), p, NoRow)
<1> DEFINE ins == Inserting(s, tb)
           upd == Updating(s, tb)
           del == Deleting(s, tb)
<1>1. /\ DOMAIN s = 1 .. Len(s) /\ Len(s) \in Nat
      /\ \A i \in 1 .. Len(s) : s[i] \in S
      /\ \A q \in S : \E i \in 1 .. Len(s) : s[i] = q
  BY AscendingType, AscendingVisits
<1>2. Len(ins) = Len(s) /\ Len(upd) = Len(s) /\ Len(del) = Len(s)
  BY <1>1 DEF Inserting, Updating, Deleting
<1>3. \A i \in 1 .. Len(s) :
        /\ ins[i].pk = s[i] /\ Post(ins[i]) = tb[s[i]]
        /\ upd[i].pk = s[i] /\ Post(upd[i]) = tb[s[i]]
        /\ del[i].pk = s[i] /\ Post(del[i]) = NoRow
  BY <1>1 DEF Inserting, Updating, Deleting, Ins, Upd, Del, Post
<1> HIDE DEF ins, upd, del
<1>4. ASSUME NEW cs, Len(cs) = Len(s),
             \A i \in 1 .. Len(s) : cs[i].pk = s[i]
      PROVE  Mentions(cs, p) <=> p \in S
  <2>1. Mentions(cs, p) => p \in S
    BY <1>1, <1>4 DEF Mentions
  <2>2. ASSUME p \in S PROVE Mentions(cs, p)
    <3>1. PICK i \in 1 .. Len(s) : s[i] = p
      BY <1>1, <2>2
    <3> QED BY <1>4, <3>1 DEF Mentions
  <2> QED BY <2>1, <2>2
<1>5. /\ Leaves(ins, p, tb[p]) /\ Leaves(upd, p, tb[p])
      /\ Leaves(del, p, NoRow)
  BY <1>2, <1>3 DEF Leaves
<1>6. /\ Mentions(ins, p) <=> p \in S
      /\ Mentions(upd, p) <=> p \in S
      /\ Mentions(del, p) <=> p \in S
  BY <1>2, <1>3, <1>4
<1> QED BY <1>5, <1>6 DEF ins, upd, del

\* A batch in two parts mentions what its parts mention and leaves what both
\* leave.
LEMMA TwoParts ==
  ASSUME NEW a \in Seq(Change), NEW b \in Seq(Change), NEW p, NEW c,
         Leaves(a, p, c), Leaves(b, p, c)
  PROVE  /\ Mentions(a \o b, p) <=> Mentions(a, p) \/ Mentions(b, p)
         /\ Leaves(a \o b, p, c)
<1> DEFINE ab == a \o b
<1>1. /\ Len(a) \in Nat /\ Len(b) \in Nat /\ Len(ab) = Len(a) + Len(b)
      /\ \A i \in 1 .. Len(a) : i \in 1 .. Len(ab) /\ ab[i] = a[i]
      /\ \A i \in 1 .. Len(b) :
           Len(a) + i \in 1 .. Len(ab) /\ ab[Len(a) + i] = b[i]
      /\ \A i \in 1 .. Len(ab) :
           ab[i] = IF i <= Len(a) THEN a[i] ELSE b[i - Len(a)]
  BY ConcatProperties, LenProperties
<1> HIDE DEF ab
<1>2. ASSUME NEW i \in 1 .. Len(ab)
      PROVE  \/ i \in 1 .. Len(a) /\ ab[i] = a[i]
             \/ \E k \in 1 .. Len(b) : ab[i] = b[k]
  <2>1. CASE i <= Len(a)
    BY <1>1, <2>1
  <2>2. CASE i > Len(a)
    <3>1. i - Len(a) \in 1 .. Len(b) /\ ~(i <= Len(a))
      BY <1>1, <2>2
    <3> QED BY <1>1, <3>1
  <2> QED BY <1>1, <2>1, <2>2
<1>3. Mentions(ab, p) <=> Mentions(a, p) \/ Mentions(b, p)
  <2>1. Mentions(ab, p) => Mentions(a, p) \/ Mentions(b, p)
    BY <1>2 DEF Mentions
  <2>2. Mentions(a, p) => Mentions(ab, p)
    BY <1>1 DEF Mentions
  <2>3. Mentions(b, p) => Mentions(ab, p)
    <3> SUFFICES ASSUME NEW k \in 1 .. Len(b), b[k].pk = p
                 PROVE  Mentions(ab, p)
      BY DEF Mentions
    <3>1. Len(a) + k \in 1 .. Len(ab) /\ ab[Len(a) + k].pk = p
      BY <1>1
    <3> QED BY <3>1 DEF Mentions
  <2> QED BY <2>1, <2>2, <2>3
<1>4. Leaves(ab, p, c)
  BY <1>2 DEF Leaves
<1> QED BY <1>3, <1>4 DEF ab

\* A step that leaves table and log alone leaves the key logged.
LEMMA QuietKeepsLogged ==
  ASSUME UNCHANGED <<rows, versioned, past>>, NEW p \in PK,
         rows'[p] = rows[p] => Logged(p)
  PROVE  Logged(p)'
BY DEF Logged

\* Versioning starts with an insert for each row.
LEMMA CreateLogs ==
  ASSUME StoreOK, NEW t \in Threads, CreateTable(t), NEW p \in PK
  PROVE  Logged(p)'
<1> DEFINE S == Present(rows)
<1>1. PICK s \in Ascending(S) :
        Record(GENESIS, [i \in DOMAIN s |-> Ins(s[i], rows[s[i]])])
  BY DEF CreateTable, EnableVersioning
<1> DEFINE cs == Inserting(s, rows)
<1>2. /\ past' = past \o cs /\ rows' = rows
      /\ past = <<>> /\ past \in Seq(Change) /\ rows \in Table
  BY <1>1 DEF CreateTable, EnableVersioning, Record, StoreOK, LogOK,
              NoHistoryBefore, Inserting
<1>3. S \in SUBSET PK
  BY DEF Present
<1>4. cs \in Seq(Change)
  BY <1>2, <1>3, Batches DEF Inserting
<1>5. (Mentions(cs, p) <=> p \in S) /\ Leaves(cs, p, rows[p])
  BY <1>2, <1>3, BatchesTell
<1> HIDE DEF cs
<1>6. Replay(past \o cs)[p] = rows[p]
  <2>1. CASE p \in S
    BY <1>2, <1>4, <1>5, <2>1, ReplayOfMore
  <2>2. CASE p \notin S
    <3>1. Replay(past \o cs)[p] = Replay(past)[p]
      BY <1>2, <1>4, <1>5, <2>2, ReplayOfMore
    <3>2. Len(past) = 0
      BY <1>2, EmptySeq
    <3>3. Replay(past)[p] = NoRow
      BY <3>2 DEF Replay
    <3> QED BY <2>2, <3>1, <3>3 DEF Present
  <2> QED BY <2>1, <2>2
<1> QED BY <1>2, <1>6 DEF Logged

\* Phase 1 of a rollback buries what it removes.
LEMMA RemoveLogs ==
  ASSUME IInv, NEW t \in Threads, RollbackRemove(t), NEW p \in PK,
         rows'[p] = rows[p] => Logged(p)
  PROVE  Logged(p)'
<1> DEFINE gone == Removals(local[t])
           tb == [q \in PK |-> IF q \in gone THEN NoRow ELSE rows[q]]
<1>0. LogOK /\ versioned \in BOOLEAN /\ rows \in Table
  BY DEF IInv, StoreOK
<1>1. gone \subseteq Present(rows) /\ gone \in SUBSET PK
  BY DEF RollbackRemove, Present
<1>2. CASE gone = {}
  <2>1. UNCHANGED <<rows, versioned, past>>
    BY <1>2 DEF RollbackRemove, store, aux
  <2> QED BY <2>1, QuietKeepsLogged
<1>3. CASE gone # {}
  <2>1. PICK s \in Ascending(gone) :
          Write(tb, [i \in DOMAIN s |-> Del(s[i], rows[s[i]])])
    BY <1>3 DEF RollbackRemove
  <2> DEFINE cs == Deleting(s, rows)
  <2>2. tb \in Table /\ (p \in gone => tb[p] = NoRow)
        /\ (p \notin gone => tb[p] = rows[p])
    BY <1>0 DEF Table, Content
  <2> HIDE DEF gone, tb
  <2>3. cs \in Seq(Change)
    BY <1>0, <1>1, Batches DEF Deleting
  <2>4. (Mentions(cs, p) <=> p \in gone) /\ Leaves(cs, p, NoRow)
    BY <1>0, <1>1, BatchesTell
  <2> HIDE DEF cs
  <2>5. Told(tb, cs, p)
    BY <2>2, <2>4 DEF Told
  <2>6. Write(tb, cs)
    BY <2>1 DEF cs, Deleting
  <2> QED BY <1>0, <2>2, <2>3, <2>5, <2>6, WriteKeepsLogged
<1> QED BY <1>2, <1>3

\* Phase 2 records what it restores.  The one thing it may record and not do
\* is an update of a row that has vanished; its key has no row then.
LEMMA RestoreLogs ==
  ASSUME IInv, NEW t \in Threads, RollbackRestore(t), NEW p \in PK,
         rows'[p] = rows[p] => Logged(p),
         rows'[p] # NoRow \/ Updates(local[t]) \subseteq Present(rows)
  PROVE  Logged(p)'
<1> DEFINE target == local[t].target
           ins == Inserts(local[t])
           upd == Updates(local[t])
           tb == [q \in PK |->
                    IF q \in ins \cup (upd \cap Present(rows))
                    THEN target[q] ELSE rows[q]]
<1>0. /\ LogOK /\ versioned \in BOOLEAN /\ rows \in Table
      /\ target \in Table
  BY DEF IInv, StoreOK, ThreadsOK, Locals
<1>1. /\ ins \in SUBSET PK /\ ins \subseteq Present(target)
      /\ upd \in SUBSET PK /\ upd \subseteq Present(target)
  BY DEF Inserts, Updates, Present
<1>2. CASE ins \cup upd = {}
  <2>1. UNCHANGED <<rows, versioned, past>>
    BY <1>2 DEF RollbackRestore, store, aux
  <2> QED BY <2>1, QuietKeepsLogged
<1>3. CASE ins \cup upd # {}
  <2>1. PICK a \in Ascending(ins), b \in Ascending(upd) :
          Write(tb, [i \in DOMAIN a |-> Ins(a[i], target[a[i]])]
                    \o [i \in DOMAIN b |-> Upd(b[i], target[b[i]])])
    BY <1>3 DEF RollbackRestore
  <2> DEFINE ca == Inserting(a, target)
             cb == Updating(b, target)
  <2>2. /\ tb \in Table
        /\ p \in ins \cup (upd \cap Present(rows)) => tb[p] = target[p]
        /\ p \notin ins \cup (upd \cap Present(rows)) => tb[p] = rows[p]
    BY <1>0 DEF Table
  <2>r. rows' = tb
    BY <2>1 DEF Write
  <2> HIDE DEF ins, upd, tb, target
  <2>3. ca \in Seq(Change) /\ cb \in Seq(Change)
    BY <1>0, <1>1, Batches DEF Inserting, Updating
  <2>4. /\ Mentions(ca, p) <=> p \in ins
        /\ Mentions(cb, p) <=> p \in upd
        /\ Leaves(ca, p, target[p]) /\ Leaves(cb, p, target[p])
    BY <1>0, <1>1, BatchesTell
  <2> HIDE DEF ca, cb
  <2>5. /\ Mentions(ca \o cb, p) <=> p \in ins \cup upd
        /\ Leaves(ca \o cb, p, target[p])
        /\ ca \o cb \in Seq(Change)
    BY <2>3, <2>4, TwoParts, ConcatProperties
  <2>6. p \in upd => p \in Present(rows)
    <3> SUFFICES ASSUME p \in upd, p \notin Present(rows) PROVE FALSE
      OBVIOUS
    <3>1. rows[p] = NoRow /\ rows'[p] # NoRow
      BY DEF Present, upd
    <3>2. p \notin ins
      BY DEF ins, upd, Inserts, Updates
    <3> QED BY <2>2, <2>r, <3>1, <3>2
  <2>7. Told(tb, ca \o cb, p)
    BY <2>2, <2>5, <2>6 DEF Told
  <2>8. Write(tb, ca \o cb)
    BY <2>1 DEF ca, cb, Inserting, Updating
  <2> QED BY <1>0, <2>2, <2>5, <2>7, <2>8, WriteKeepsLogged
<1> QED BY <1>2, <1>3

\* A batch of one change mentions its key, one of two changes both keys.
LEMMA SmallBatches ==
  ASSUME NEW c \in Change, NEW d \in Change, NEW p \in PK
  PROVE  /\ Mentions(<<c>>, p) <=> c.pk = p
         /\ Leaves(<<c>>, p, Post(c))
         /\ Mentions(<<c, d>>, p) <=> c.pk = p \/ d.pk = p
         /\ c.pk = p /\ d.pk # p => Leaves(<<c, d>>, p, Post(c))
         /\ d.pk = p /\ c.pk # p => Leaves(<<c, d>>, p, Post(d))
BY DEF Mentions, Leaves

\* A row written is told.
LEMMA RowLogs ==
  ASSUME StoreOK, NEW p \in PK, NEW q \in PK, NEW v \in Values,
         InsertRow(q, v) \/ UpdateRow(q, v),
         rows'[p] = rows[p] => Logged(p)
  PROVE  Logged(p)'
<1> DEFINE tb == [rows EXCEPT ![q] = v]
<1>1. LogOK /\ versioned \in BOOLEAN /\ rows \in Table
  BY DEF StoreOK
<1>2. tb \in Table /\ tb[q] = v /\ (p # q => tb[p] = rows[p])
  BY <1>1 DEF Table, Content
<1>3. PICK c \in {Ins(q, v), Upd(q, v)} : Write(tb, <<c>>)
  BY DEF InsertRow, UpdateRow
<1> HIDE DEF tb
<1>4. c \in Change /\ c.pk = q /\ Post(c) = v
  BY DEF Ins, Upd, Change, Post
<1>5. <<c>> \in Seq(Change)
  BY <1>4
<1>6. Told(tb, <<c>>, p)
  BY <1>2, <1>4, SmallBatches DEF Told
<1> QED BY <1>1, <1>2, <1>3, <1>5, <1>6, WriteKeepsLogged

\* So are two rows written together, or a row that moves to another key.
LEMMA PairLogs ==
  ASSUME StoreOK, NEW t \in Threads, NEW p \in PK, NEW q \in PK, NEW r \in PK,
         NEW v \in Values, InsertBatch(t, q, r, v) \/ ChangeKey(t, q, r, v),
         rows'[p] = rows[p] => Logged(p)
  PROVE  Logged(p)'
<1>1. LogOK /\ versioned \in BOOLEAN /\ rows \in Table /\ q # r
  BY DEF StoreOK, InsertBatch, ChangeKey
<1>2. ASSUME NEW x \in Content, NEW c \in Change, NEW d \in Change,
             c.pk = q, d.pk = r, Post(c) = x, Post(d) = v,
             Write([rows EXCEPT ![q] = x, ![r] = v], <<c, d>>)
      PROVE  Logged(p)'
  <2> DEFINE tb == [rows EXCEPT ![q] = x, ![r] = v]
  <2>1. /\ tb \in Table /\ tb[q] = x /\ tb[r] = v
        /\ p # q /\ p # r => tb[p] = rows[p]
    BY <1>1 DEF Table, Content
  <2>2. <<c, d>> \in Seq(Change)
    OBVIOUS
  <2>3. Write(tb, <<c, d>>)
    BY <1>2
  <2> HIDE DEF tb
  <2>4. Told(tb, <<c, d>>, p)
    <3>1. /\ Mentions(<<c, d>>, p) <=> q = p \/ r = p
          /\ q = p => Leaves(<<c, d>>, p, x)
          /\ r = p => Leaves(<<c, d>>, p, v)
      BY <1>1, <1>2, SmallBatches
    <3> QED BY <1>1, <2>1, <3>1 DEF Told
  <2> QED BY <1>1, <2>1, <2>2, <2>3, <2>4, WriteKeepsLogged
<1>3. CASE InsertBatch(t, q, r, v)
  <2>1. /\ Ins(q, v) \in Change /\ Ins(r, v) \in Change
        /\ Ins(q, v).pk = q /\ Ins(r, v).pk = r
        /\ Post(Ins(q, v)) = v /\ Post(Ins(r, v)) = v
        /\ v \in Content
    BY DEF Ins, Change, Post, Content
  <2> QED BY <1>2, <1>3, <2>1 DEF InsertBatch
<1>4. CASE ChangeKey(t, q, r, v)
  <2>1. /\ Del(q, v) \in Change /\ Upd(r, v) \in Change
        /\ Del(q, v).pk = q /\ Upd(r, v).pk = r
        /\ Post(Del(q, v)) = NoRow /\ Post(Upd(r, v)) = v
        /\ NoRow \in Content
    BY DEF Del, Upd, Change, Post, Content
  <2> QED BY <1>2, <1>4, <2>1 DEF ChangeKey, Move
<1> QED BY <1>3, <1>4

\* And a row deleted.
LEMMA DeleteLogs ==
  ASSUME StoreOK, NEW t \in Threads, NEW p \in PK, NEW q \in PK, Delete(t, q),
         rows'[p] = rows[p] => Logged(p)
  PROVE  Logged(p)'
<1> DEFINE tb == [rows EXCEPT ![q] = NoRow]
           c == Del(q, rows[q])
<1>1. LogOK /\ versioned \in BOOLEAN /\ rows \in Table
  BY DEF StoreOK
<1>2. tb \in Table /\ tb[q] = NoRow /\ (p # q => tb[p] = rows[p])
  BY <1>1 DEF Table, Content
<1>3. Write(tb, <<c>>) /\ rows[q] \in Values
  BY <1>1 DEF Delete, Table, Content
<1>4. c \in Change /\ c.pk = q /\ Post(c) = NoRow
  BY <1>3 DEF Del, Change, Post
<1> HIDE DEF tb, c
<1>5. <<c>> \in Seq(Change)
  BY <1>4
<1>6. Told(tb, <<c>>, p)
  BY <1>2, <1>4, SmallBatches DEF Told
<1> QED BY <1>1, <1>2, <1>3, <1>5, <1>6, WriteKeepsLogged

\* A step of a thread leaves a key logged if it was, or if the step writes it.
LEMMA StepLogs ==
  ASSUME IInv, NEW t \in Threads, ThreadStep(t), NEW p \in PK,
         rows'[p] = rows[p] => Logged(p),
         \/ rows'[p] # NoRow
         \/ RollbackRestore(t) => Updates(local[t]) \subseteq Present(rows)
  PROVE  Logged(p)'
<1>0. StoreOK
  BY DEF IInv
<1>1. CASE CreateTable(t)
  BY <1>0, <1>1, CreateLogs
<1>2. ASSUME NEW q \in PK, NEW v \in Values, Insert(t, q, v) \/ Update(t, q, v)
      PROVE  Logged(p)'
  BY <1>0, <1>2, RowLogs DEF Insert, Update
<1>3. ASSUME NEW q \in PK, NEW r \in PK, NEW v \in Values,
             InsertBatch(t, q, r, v) \/ ChangeKey(t, q, r, v)
      PROVE  Logged(p)'
  BY <1>0, <1>3, PairLogs
<1>4. ASSUME NEW q \in PK, Delete(t, q)
      PROVE  Logged(p)'
  BY <1>0, <1>4, DeleteLogs
<1>5. CASE UpsertWrite(t)
  <2>1. local[t].pk \in PK /\ local[t].row \in Values
    BY <1>5 DEF IInv, ThreadsOK, Locals, UpsertContent, UpsertWrite
  <2> QED BY <1>0, <1>5, <2>1, RowLogs DEF UpsertWrite
<1>6. CASE RollbackRemove(t)
  BY <1>6, RemoveLogs
<1>7. CASE RollbackRestore(t)
  BY <1>7, RestoreLogs
<1>8. CASE \/ \E q \in PK, v \in Values : UpsertLook(t, q, v)
           \/ UpsertMiss(t)
           \/ \E l \in Labels : Checkpoint(t, l)
           \/ \E seq \in 0 .. MaxEvents : RollbackBegin(t, seq)
           \/ RollbackTarget(t) \/ RollbackCurrent(t) \/ RollbackFail(t)
           \/ \E before \in 1 .. MaxEvents + 1, keep \in Keep :
                PruneBegin(t, before, keep)
           \/ PruneDelete(t)
  <2>1. UNCHANGED <<rows, versioned, past>>
    BY <1>8 DEF UpsertLook, UpsertMiss, Checkpoint, RollbackBegin,
                RollbackTarget, RollbackCurrent, RollbackFail, PruneBegin,
                PruneDelete, store, aux
  <2> QED BY <2>1, QuietKeepsLogged
<1> QED BY <1>1, <1>2, <1>3, <1>4, <1>5, <1>6, <1>7, <1>8 DEF ThreadStep

\* Whatever a versioned table holds is the last post-image of its key, however
\* writers and rollbacks of any number of threads interleave.
THEOREM RowsAlwaysLogged == Spec => []RowsAreLogged
<1>1. IInv /\ RowsAreLogged /\ [Next]_vars => RowsAreLogged'
  <2> SUFFICES ASSUME IInv, RowsAreLogged, [Next]_vars, versioned',
                      NEW p \in PK, rows'[p] # NoRow
               PROVE  Logged(p)'
    BY DEF RowsAreLogged, Present, Logged
  <2>1. rows'[p] = rows[p] => Logged(p)
    BY DEF RowsAreLogged, Present, Logged
  <2>2. CASE Crash \/ UNCHANGED vars
    <3>1. UNCHANGED <<rows, versioned, past>>
      BY <2>2 DEF Crash, vars, store, aux
    <3> QED BY <2>1, <3>1, QuietKeepsLogged
  <2>3. ASSUME NEW t \in Threads, ThreadStep(t)
        PROVE  Logged(p)'
    BY <2>1, <2>3, StepLogs
  <2> QED BY <2>2, <2>3 DEF Next
<1>2. Init => RowsAreLogged
  BY DEF Init, RowsAreLogged
<1> QED BY <1>1, <1>2, IInvAlways, PTL DEF Spec

-----------------------------------------------------------------------------
(***************************************************************************)
(* One thread.  What it read in the phases of a rollback is still true in  *)
(* the next, for nobody else writes.                                       *)
(***************************************************************************)
OneThread == \A t, u \in Threads : t = u

Kept(l) ==
  [p \in PK |-> IF p \in Removals(l) THEN NoRow ELSE l.current[p]]

SoleRollback ==
  \A t \in Threads :
    /\ pc[t] = "rb_remove" => local[t].current = rows
    /\ pc[t] = "rb_restore" => rows = Kept(local[t])

\* Before phase 2 every row it updates is there.
LEMMA NothingVanished ==
  ASSUME IInv, SoleRollback, NEW t \in Threads, pc[t] = "rb_restore"
  PROVE  Updates(local[t]) \subseteq Present(rows)
<1>1. rows = Kept(local[t])
  BY DEF SoleRollback
<1>2. ASSUME NEW p \in Updates(local[t]) PROVE p \in Present(rows)
  <2>1. /\ p \in PK /\ local[t].target[p] # NoRow
        /\ local[t].current[p] # NoRow /\ p \notin Removals(local[t])
    BY DEF Updates, Present, Removals
  <2> QED BY <1>1, <2>1 DEF Kept, Present
<1> QED BY <1>2

\* Phase 2 ends with the target.
LEMMA RestoreReaches ==
  ASSUME IInv, SoleRollback, NEW t \in Threads, RollbackRestore(t)
  PROVE  rows' = local[t].target
<1> DEFINE target == local[t].target
           ins == Inserts(local[t])
           upd == Updates(local[t])
           tb == [q \in PK |->
                    IF q \in ins \cup (upd \cap Present(rows))
                    THEN target[q] ELSE rows[q]]
<1>0. rows \in Table /\ target \in Table /\ rows = Kept(local[t])
  BY DEF IInv, StoreOK, ThreadsOK, Locals, SoleRollback, RollbackRestore
<1>1. upd \subseteq Present(rows)
  BY NothingVanished DEF RollbackRestore
<1>2. ASSUME NEW p \in PK, p \notin ins, p \notin upd
      PROVE  rows[p] = target[p]
  <2>1. CASE target[p] = NoRow
    BY <1>0, <2>1 DEF Kept, Removals, Present
  <2>2. CASE target[p] # NoRow
    <3>1. p \in Present(local[t].current) /\ local[t].current[p] = target[p]
      BY <1>2, <2>2 DEF Inserts, Updates, Present
    <3> QED BY <1>0, <2>2, <3>1 DEF Kept, Removals, Present
  <2> QED BY <2>1, <2>2
<1>3. rows' \in Table /\ \A p \in PK : rows'[p] = target[p]
  <2>1. CASE ins \cup upd = {}
    <3>1. rows' = rows
      BY <2>1 DEF RollbackRestore, store
    <3> QED BY <1>0, <1>2, <2>1, <3>1
  <2>2. CASE ins \cup upd # {}
    <3>1. rows' = tb
      BY <2>2 DEF RollbackRestore, Write
    <3> HIDE DEF ins, upd, target
    <3>2. tb \in Table
      BY <1>0 DEF Table
    <3>3. \A p \in PK : tb[p] = target[p]
      BY <1>1, <1>2
    <3> QED BY <3>1, <3>2, <3>3
  <2> QED BY <2>1, <2>2
<1> HIDE DEF target
<1>4. rows' = target
  BY <1>0, <1>3 DEF Table
<1> QED BY <1>4 DEF target

\* A step of the only thread keeps what its rollback has read.
LEMMA StepKeepsSole ==
  ASSUME OneThread, IInv, SoleRollback, NEW t \in Threads, ThreadStep(t)
  PROVE  SoleRollback'
<1>1. /\ pc \in [Threads -> Steps] /\ local \in [Threads -> Locals]
      /\ rows \in Table /\ \A u \in Threads : u = t
  BY DEF IInv, ThreadsOK, StoreOK, OneThread
<1>2. ASSUME NEW step, NEW l, Goto(t, step, l),
             step \notin {"rb_remove", "rb_restore"}
      PROVE  SoleRollback'
  BY <1>1, <1>2 DEF Goto, SoleRollback
<1>3. CASE Idle(t)
  BY <1>1, <1>3 DEF Idle, SoleRollback
<1>4. CASE RollbackCurrent(t)
  <2>1. /\ pc'[t] = "rb_remove" /\ local'[t].current = rows
        /\ rows' = rows
    BY <1>1, <1>4 DEF RollbackCurrent, Goto, Locals, store
  <2> QED BY <1>1, <2>1 DEF SoleRollback
<1>5. CASE RollbackRemove(t)
  <2>1. pc'[t] = "rb_restore" /\ local'[t] = local[t]
    BY <1>1, <1>5 DEF RollbackRemove, Goto
  <2>2. local[t].current = rows
    BY <1>5 DEF RollbackRemove, SoleRollback
  <2>3. rows' = Kept(local[t])
    <3>1. CASE Removals(local[t]) = {}
      <4>1. rows' = rows
        BY <1>5, <3>1 DEF RollbackRemove, store
      <4> QED BY <1>1, <2>2, <3>1, <4>1 DEF Kept, Table
    <3>2. CASE Removals(local[t]) # {}
      BY <1>5, <2>2, <3>2 DEF RollbackRemove, Write, Kept
    <3> QED BY <3>1, <3>2
  <2> QED BY <1>1, <2>1, <2>3 DEF SoleRollback
<1>6. CASE \/ CreateTable(t)
           \/ \E p \in PK, v \in Values : Insert(t, p, v) \/ Update(t, p, v)
           \/ \E p, q \in PK, v \in Values :
                InsertBatch(t, p, q, v) \/ ChangeKey(t, p, q, v)
           \/ \E p \in PK : Delete(t, p)
           \/ \E l \in Labels : Checkpoint(t, l)
  BY <1>3, <1>6 DEF CreateTable, EnableVersioning, Insert, Update, InsertBatch,
                    ChangeKey, Delete, Checkpoint
<1>7. CASE \/ UpsertWrite(t) \/ UpsertMiss(t) \/ RollbackRestore(t)
           \/ RollbackFail(t) \/ PruneDelete(t)
  BY <1>2, <1>7 DEF UpsertWrite, UpsertMiss, RollbackRestore, RollbackFail,
                    PruneDelete, Finish
<1>8. CASE \/ \E seq \in 0 .. MaxEvents : RollbackBegin(t, seq)
           \/ RollbackTarget(t)
           \/ \E before \in 1 .. MaxEvents + 1, keep \in Keep :
                PruneBegin(t, before, keep)
  <2>1. \E step \in {"rb_target", "rb_current", "prune"} :
          \E l : Goto(t, step, l)
    BY <1>8 DEF RollbackBegin, RollbackTarget, PruneBegin
  <2> QED BY <1>2, <2>1
<1>9. ASSUME NEW p \in PK, NEW v \in Values, UpsertLook(t, p, v)
      PROVE  SoleRollback'
  <2>1. PICK step \in {"upsert_insert", "upsert_update"} :
          Goto(t, step, [Blank EXCEPT !.pk = p, !.row = v])
    BY <1>9 DEF UpsertLook
  <2> QED BY <1>2, <2>1
<1> QED BY <1>4, <1>5, <1>6, <1>7, <1>8, <1>9 DEF ThreadStep

\* With one thread the table is the replay of its log, whatever phases of a
\* rollback are still to come.
LEMMA SoleStepsLog ==
  ASSUME OneThread, IInv, SoleRollback, TableIsReplay, [Next]_vars
  PROVE  SoleRollback' /\ TableIsReplay'
<1>1. \A p \in PK : Logged(p)
  BY DEF TableIsReplay, Logged
<1>2. SoleRollback' /\ \A p \in PK : Logged(p)'
  <2>1. CASE Crash \/ UNCHANGED vars
    <3>1. UNCHANGED <<rows, versioned, past>>
      BY <2>1 DEF Crash, vars, store, aux
    <3>2. \A p \in PK : Logged(p)'
      BY <1>1, <3>1, QuietKeepsLogged
    <3>3. SoleRollback'
      BY <2>1, <3>1 DEF Crash, vars, SoleRollback
    <3> QED BY <3>2, <3>3
  <2>2. ASSUME NEW t \in Threads, ThreadStep(t)
        PROVE  SoleRollback' /\ \A p \in PK : Logged(p)'
    <3>1. RollbackRestore(t) => Updates(local[t]) \subseteq Present(rows)
      BY NothingVanished DEF RollbackRestore
    <3>2. ASSUME NEW p \in PK PROVE Logged(p)'
      BY <1>1, <2>2, <3>1, StepLogs
    <3> QED BY <2>2, <3>2, StepKeepsSole
  <2> QED BY <2>1, <2>2 DEF Next
<1>3. rows' \in Table /\ Replay(past') \in Table
  <2>1. IInv'
    BY StepKeepsIInv
  <2> QED BY <2>1, ReplayType DEF IInv, StoreOK, LogOK
<1>4. versioned' => rows' = Replay(past')
  BY <1>2, <1>3 DEF Logged, Table
<1> QED BY <1>2, <1>4 DEF TableIsReplay

\* The two hold from the start.
LEMMA SoleInitially == Init => SoleRollback /\ TableIsReplay
BY DEF Init, SoleRollback, TableIsReplay

\* With one thread a versioned table is, in every reachable state, what its
\* log says, missing rows included.
THEOREM TableAlwaysReplay ==
  ASSUME OneThread
  PROVE  Spec => []TableIsReplay
<1>1. IInv /\ SoleRollback /\ TableIsReplay /\ [Next]_vars
        => SoleRollback' /\ TableIsReplay'
  BY SoleStepsLog
<1> QED BY <1>1, SoleInitially, IInvAlways, PTL DEF Spec

\* With one thread a rollback ends with the rows of its target.
THEOREM RollbackAlwaysRestores ==
  ASSUME OneThread
  PROVE  Spec => RollbackRestores
<1> DEFINE Restores ==
      \A t \in Threads : RollbackRestore(t) => rows' = local[t].target
<1>1. IInv /\ SoleRollback /\ TableIsReplay /\ [Next]_vars
        => SoleRollback' /\ TableIsReplay'
  BY SoleStepsLog
<1>2. IInv /\ SoleRollback => Restores
  BY RestoreReaches
<1>3. IInv /\ SoleRollback => [Restores]_vars
  BY <1>2
<1>4. [][Restores]_vars => RollbackRestores
  BY PTL DEF RollbackRestores
<1> HIDE DEF Restores
<1> QED BY <1>1, <1>3, <1>4, SoleInitially, IInvAlways, PTL DEF Spec

-----------------------------------------------------------------------------
(***************************************************************************)
(* Checkpoints.  The rows at a label are the replay of the log up to it.   *)
(***************************************************************************)
GoalsLogged ==
  \A l \in Labels :
    checkpoints[l] # NoSeq /\ cut = 0 =>
      /\ checkpoints[l] \in 0 .. Len(past)
      /\ goal[l] = Replay(SubSeq(past, 1, checkpoints[l]))

\* While nothing is cut the log only grows at its end.
LEMMA LogOnlyGrows ==
  ASSUME IInv, IInv', EventsStay, cut' = 0
  PROVE  /\ cut = 0 /\ Len(past) <= Len(past')
         /\ \A i \in 1 .. Len(past) : past'[i] = past[i]
<1>1. /\ hist \in Seq(Event) /\ cut \in Nat /\ HistoryIsTail
      /\ hist' \in Seq(Event) /\ HistoryIsTail'
      /\ Len(hist) \in Nat /\ DOMAIN hist = 1 .. Len(hist)
      /\ Len(hist') \in Nat /\ DOMAIN hist' = 1 .. Len(hist')
  BY LenProperties DEF IInv, StoreOK, LogOK
<1>2. cut = 0
  BY <1>1 DEF EventsStay
<1>3. Len(past) = Len(hist) /\ Len(past') = Len(hist')
  BY <1>1, <1>2 DEF HistoryIsTail
<1>4. \A i \in 1 .. Len(hist) : i \in 1 .. Len(hist') /\ hist'[i] = hist[i]
  <2> SUFFICES ASSUME NEW i \in 1 .. Len(hist)
               PROVE  i \in 1 .. Len(hist') /\ hist'[i] = hist[i]
    OBVIOUS
  <2>1. cut + i > cut' /\ cut + i - cut' = i
    BY <1>2
  <2> QED BY <1>1, <2>1 DEF EventsStay
<1>5. /\ \A i \in 1 .. Len(hist) : hist[i].what = past[i]
      /\ \A i \in 1 .. Len(hist') : hist'[i].what = past'[i]
  <2>1. ASSUME NEW i \in 1 .. Len(hist) PROVE hist[i].what = past[i]
    <3>1. cut + i = i
      BY <1>2
    <3> QED BY <1>1, <3>1 DEF HistoryIsTail
  <2>2. ASSUME NEW i \in 1 .. Len(hist') PROVE hist'[i].what = past'[i]
    <3>1. cut' + i = i
      OBVIOUS
    <3> QED BY <1>1, <3>1 DEF HistoryIsTail
  <2> QED BY <2>1, <2>2
<1>6. Len(past) <= Len(past')
  BY <1>1, <1>3, <1>4
<1> QED BY <1>2, <1>3, <1>4, <1>5, <1>6

\* A part of the log that stays is the part it was.
LEMMA PartStays ==
  ASSUME NEW a \in Seq(Change), NEW b \in Seq(Change), Len(a) <= Len(b),
         \A i \in 1 .. Len(a) : b[i] = a[i], NEW k \in 0 .. Len(a)
  PROVE  k \in 0 .. Len(b) /\ SubSeq(b, 1, k) = SubSeq(a, 1, k)
<1>1. Len(a) \in Nat /\ Len(b) \in Nat /\ k \in Int /\ 1 \in Int
  BY LenProperties
<1>2. /\ \A i \in 1 .. k : a[i] \in Change
      /\ \A i \in 1 .. k : b[i] \in Change
  BY <1>1, ElementOfSeq
<1>3. /\ SubSeq(a, 1, k) \in Seq(Change) /\ Len(SubSeq(a, 1, k)) = k
      /\ SubSeq(b, 1, k) \in Seq(Change) /\ Len(SubSeq(b, 1, k)) = k
      /\ \A i \in 1 .. k : SubSeq(a, 1, k)[i] = a[i]
      /\ \A i \in 1 .. k : SubSeq(b, 1, k)[i] = b[i]
  BY <1>1, <1>2, SubSeqProperties
<1>4. \A i \in 1 .. k : SubSeq(a, 1, k)[i] = SubSeq(b, 1, k)[i]
  BY <1>1, <1>3
<1>5. SubSeq(b, 1, k) = SubSeq(a, 1, k)
  BY <1>3, <1>4, SeqEqual
<1> QED BY <1>1, <1>5

\* Labels are set by Checkpoint and by nothing else.
LEMMA LabelsStay ==
  ASSUME [Next]_vars
  PROVE  \/ UNCHANGED <<checkpoints, goal>>
         \/ \E t \in Threads, l \in Labels : Checkpoint(t, l)
<1>1. ASSUME NEW t \in Threads, ThreadStep(t),
             ~\E l \in Labels : Checkpoint(t, l)
      PROVE  UNCHANGED <<checkpoints, goal>>
  <2>1. CASE \/ UpsertWrite(t) \/ RollbackRemove(t) \/ RollbackRestore(t)
             \/ PruneDelete(t) \/ CreateTable(t)
    BY <2>1 DEF UpsertWrite, InsertRow, UpdateRow, RollbackRemove,
                RollbackRestore, PruneDelete, CreateTable, EnableVersioning,
                Write, store, aux
  <2>2. CASE \/ \E p \in PK, v \in Values : Insert(t, p, v) \/ Update(t, p, v)
             \/ \E p, q \in PK, v \in Values :
                  InsertBatch(t, p, q, v) \/ ChangeKey(t, p, q, v)
             \/ \E p \in PK : Delete(t, p)
    BY <2>2 DEF Insert, InsertRow, Update, UpdateRow, InsertBatch, ChangeKey,
                Delete, Write
  <2>3. CASE \/ \E p \in PK, v \in Values : UpsertLook(t, p, v)
             \/ UpsertMiss(t)
             \/ \E seq \in 0 .. MaxEvents : RollbackBegin(t, seq)
             \/ RollbackTarget(t) \/ RollbackCurrent(t) \/ RollbackFail(t)
             \/ \E before \in 1 .. MaxEvents + 1, keep \in Keep :
                  PruneBegin(t, before, keep)
    BY <2>3 DEF UpsertLook, UpsertMiss, RollbackBegin, RollbackTarget,
                RollbackCurrent, RollbackFail, PruneBegin, store, aux
  <2> QED BY <1>1, <2>1, <2>2, <2>3 DEF ThreadStep
<1>2. CASE Crash \/ UNCHANGED vars
  BY <1>2 DEF Crash, vars, store, aux
<1> QED BY <1>1, <1>2 DEF Next

\* A step keeps the rows of labels the replay of the log up to them.
LEMMA StepKeepsGoals ==
  ASSUME IInv, TableIsReplay, GoalsLogged, [Next]_vars
  PROVE  GoalsLogged'
<1>1. IInv' /\ EventsStay
  <2>1. ASSUME NEW t \in Threads, ThreadStep(t) PROVE EventsStay
    BY <2>1, StepKeepsStore
  <2>2. ASSUME Crash \/ UNCHANGED vars PROVE EventsStay
    BY <2>2, UnchangedKeepsStore DEF Crash, vars, store, aux, IInv
  <2> QED BY <2>1, <2>2, StepKeepsIInv DEF Next
<1>2. SUFFICES ASSUME NEW l \in Labels, checkpoints'[l] # NoSeq, cut' = 0
               PROVE  /\ checkpoints'[l] \in 0 .. Len(past')
                      /\ goal'[l] = Replay(SubSeq(past', 1, checkpoints'[l]))
  BY DEF GoalsLogged
<1>3. /\ cut = 0 /\ Len(past) <= Len(past')
      /\ \A i \in 1 .. Len(past) : past'[i] = past[i]
  BY <1>1, <1>2, LogOnlyGrows
<1>4. /\ past \in Seq(Change) /\ past' \in Seq(Change)
      /\ Len(past) \in Nat /\ hist \in Seq(Event) /\ Len(hist) \in Nat
      /\ Len(past) = cut + Len(hist)
      /\ checkpoints \in [Labels -> Nat \cup {NoSeq}]
      /\ goal \in [Labels -> Table]
  BY <1>1, LenProperties DEF IInv, StoreOK, LogOK, HistoryIsTail
<1>5. CASE checkpoints'[l] = checkpoints[l] /\ goal'[l] = goal[l]
  <2>1. /\ checkpoints[l] \in 0 .. Len(past)
        /\ goal[l] = Replay(SubSeq(past, 1, checkpoints[l]))
    BY <1>2, <1>3, <1>5 DEF GoalsLogged
  <2> QED BY <1>3, <1>4, <1>5, <2>1, PartStays
<1>6. ASSUME NEW t \in Threads, Checkpoint(t, l)
      PROVE  /\ checkpoints'[l] \in 0 .. Len(past')
             /\ goal'[l] = Replay(SubSeq(past', 1, checkpoints'[l]))
  <2>1. /\ checkpoints'[l] = MaxSeq /\ goal'[l] = rows
        /\ past' = past /\ rows = Replay(past)
    BY <1>4, <1>6 DEF Checkpoint, TableIsReplay
  <2>2. MaxSeq = Len(past)
    <3>1. hist = <<>> => Len(hist) = 0
      BY EmptySeq
    <3> QED BY <1>3, <1>4, <3>1 DEF MaxSeq
  <2>3. SubSeq(past, 1, Len(past)) = past
    BY <1>4, SubSeqFull
  <2>4. checkpoints'[l] \in 0 .. Len(past')
    BY <1>4, <2>1, <2>2
  <2>5. SubSeq(past', 1, checkpoints'[l]) = past
    BY <2>1, <2>2, <2>3
  <2> QED BY <2>1, <2>4, <2>5
<1>7. ASSUME NEW t \in Threads, NEW m \in Labels, Checkpoint(t, m), m # l
      PROVE  checkpoints'[l] = checkpoints[l] /\ goal'[l] = goal[l]
  BY <1>4, <1>7 DEF Checkpoint
<1> QED BY <1>5, <1>6, <1>7, LabelsStay

\* So as_of a label returns the rows that were there when it was set.
LEMMA GoalsAreStates ==
  ASSUME IInv, GoalsLogged
  PROVE  CheckpointNamesState
<1> SUFFICES ASSUME NEW l \in Labels, checkpoints[l] # NoSeq, cut = 0
             PROVE  StateAt(checkpoints[l]) = goal[l]
  BY DEF CheckpointNamesState
<1> DEFINE k == checkpoints[l]
<1>1. /\ k \in 0 .. Len(past) /\ goal[l] = Replay(SubSeq(past, 1, k))
      /\ Len(past) = Len(hist) /\ Len(hist) \in Nat /\ past \in Seq(Change)
  BY LenProperties DEF GoalsLogged, IInv, StoreOK, LogOK, HistoryIsTail
<1> HIDE DEF k
<1>2. CASE k = 0
  <2>1. Replay(SubSeq(past, 1, 0)) = Empty
    <3>1. SubSeq(past, 1, 0) = <<>> /\ Len(SubSeq(past, 1, 0)) = 0
      BY <1>1, SubSeqEmpty, EmptySeq
    <3> QED BY <3>1 DEF Replay, Empty
  <2>2. StateAt(0) = Empty
    <3> DEFINE none == [i \in 1 .. 0 |-> hist[i].what]
    <3>1. Len(none) = 0
      BY LenProperties
    <3>2. StateAt(0) = Replay(none)
      BY DEF StateAt
    <3> HIDE DEF none
    <3> QED BY <3>1, <3>2 DEF Replay, Empty
  <2> QED BY <1>1, <1>2, <2>1, <2>2 DEF k
<1>3. CASE k # 0
  <2>1. k \in cut + 1 .. cut + Len(hist)
    BY <1>1, <1>3
  <2>2. AsOfSound
    BY AsOfFollowsLog DEF IInv, StoreOK
  <2>3. StateAt(k) = Replay(SubSeq(past, 1, k))
    BY <2>1, <2>2 DEF AsOfSound
  <2> QED BY <1>1, <2>3 DEF k
<1> QED BY <1>2, <1>3

\* With one thread a checkpoint names, until something is pruned, the rows it
\* was set on.
THEOREM CheckpointsNameStates ==
  ASSUME OneThread
  PROVE  Spec => []CheckpointNamesState
<1>1. IInv /\ TableIsReplay /\ GoalsLogged /\ [Next]_vars => GoalsLogged'
  BY StepKeepsGoals
<1>2. Init => GoalsLogged
  BY DEF Init, GoalsLogged
<1>3. IInv /\ GoalsLogged => CheckpointNamesState
  BY GoalsAreStates
<1> QED BY <1>1, <1>2, <1>3, TableAlwaysReplay, IInvAlways, PTL DEF Spec

-----------------------------------------------------------------------------
(***************************************************************************)
(* The refinement.  A write is a step of VersionedStore whose log grows by *)
(* the batch; all other steps stutter.                                     *)
(***************************************************************************)
\* The two modules mean the same by the size of a set.
LEMMA SameSize ==
  ASSUME NEW S
  PROVE  Abstract!Cardinality(S) = Cardinality(S)
BY DEF Abstract!Cardinality, Cardinality

\* And by a replay.
LEMMA SameReplay ==
  ASSUME NEW lg
  PROVE  Abstract!Replay(lg) = Replay(lg)
BY DEF Abstract!Replay, Replay, Abstract!IsLatest, IsLatest, Abstract!Post, Post

\* What a batch adds to a log is the batch.
LEMMA AddedIsBatch ==
  ASSUME NEW lg \in Seq(Change), NEW cs \in Seq(Change), cs # <<>>
  PROVE  /\ Len(lg \o cs) > Len(lg)
         /\ SubSeq(lg \o cs, 1, Len(lg)) = lg
         /\ SubSeq(lg \o cs, Len(lg) + 1, Len(lg \o cs)) = cs
<1>1. /\ Len(lg) \in Nat /\ Len(cs) \in Nat /\ Len(cs) > 0
      /\ lg \o cs \in Seq(Change) /\ Len(lg \o cs) = Len(lg) + Len(cs)
      /\ \A i \in 1 .. Len(lg) : (lg \o cs)[i] = lg[i]
  BY ConcatProperties, LenProperties, EmptySeq
<1> DEFINE all == lg \o cs
<1>2. SubSeq(all, 1, Len(lg)) = lg
  <2>1. Len(lg) <= Len(all) /\ Len(lg) \in 0 .. Len(lg)
    BY <1>1
  <2>2. SubSeq(all, 1, Len(lg)) = SubSeq(lg, 1, Len(lg))
    <3> HIDE DEF all
    <3> QED BY <1>1, <2>1, PartStays DEF all
  <2> QED BY <2>2, SubSeqFull
<1>3. SubSeq(all, Len(lg) + 1, Len(all)) = cs
  <2>1. /\ Len(lg) + 1 \in Len(lg) + 1 .. Len(lg) + Len(cs)
        /\ Len(all) \in Len(lg) + 1 .. Len(lg) + Len(cs)
        /\ Len(lg) + 1 - Len(lg) = 1 /\ Len(all) - Len(lg) = Len(cs)
    BY <1>1
  <2>2. SubSeq(all, Len(lg) + 1, Len(all)) = SubSeq(cs, 1, Len(cs))
    BY <2>1, SubSeqOfConcat2
  <2> QED BY <2>2, SubSeqFull
<1> QED BY <1>1, <1>2, <1>3

\* A write of a legal batch is a step of the store.
LEMMA WriteImplements ==
  ASSUME StoreOK, TableIsReplay', NEW tb \in Table, NEW cs \in Seq(Change),
         cs # <<>>, Write(tb, cs), Abstract!Legal(cs)
  PROVE  Abstract!Next
<1>1. rows' = tb /\ versioned' = versioned /\ past \in Seq(Change)
      /\ versioned \in BOOLEAN
  BY DEF Write, StoreOK, LogOK
<1>2. CASE versioned
  <2>1. past' = past \o cs
    BY <1>2 DEF Write, Record
  <2>2. /\ Len(past') > Len(past) /\ SubSeq(past', 1, Len(past)) = past
        /\ SubSeq(past', Len(past) + 1, Len(past')) = cs
    BY <1>1, <2>1, AddedIsBatch
  <2>3. rows' = Abstract!Replay(past')
    BY <1>1, <1>2, SameReplay DEF TableIsReplay
  <2>4. Abstract!Record
    BY <1>1, <1>2, <2>2, <2>3 DEF Abstract!Record
  <2> QED BY <2>4 DEF Abstract!Next
<1>3. CASE ~versioned
  <2>1. Abstract!Load
    BY <1>1, <1>3
       DEF Write, Abstract!Load, Abstract!Table, Abstract!Content, Table, Content
  <2> QED BY <2>1 DEF Abstract!Next
<1> QED BY <1>1, <1>2, <1>3

\* The start of versioning is a step of the store.
LEMMA CreateImplements ==
  ASSUME StoreOK, TableIsReplay', NEW t \in Threads, CreateTable(t)
  PROVE  Abstract!Next
<1> DEFINE S == Present(rows)
<1>1. PICK s \in Ascending(S) :
        Record(GENESIS, [i \in DOMAIN s |-> Ins(s[i], rows[s[i]])])
  BY DEF CreateTable, EnableVersioning
<1> DEFINE cs == Inserting(s, rows)
<1>2. /\ past' = past \o cs /\ rows' = rows /\ versioned' = TRUE /\ ~versioned
      /\ past = <<>> /\ past \in Seq(Change) /\ rows \in Table
  BY <1>1 DEF CreateTable, EnableVersioning, Record, StoreOK, LogOK,
              NoHistoryBefore, Inserting
<1>3. S \in SUBSET PK
  BY DEF Present
<1>4. cs \in Seq(Change)
  BY <1>2, <1>3, Batches DEF Inserting
<1>5. /\ Len(s) = Cardinality(S) /\ DOMAIN s = 1 .. Len(s) /\ Len(s) \in Nat
  BY <1>3, AscendingType, AscendingVisits
<1>6. /\ Len(cs) = Len(s) /\ DOMAIN cs = DOMAIN s
      /\ \A i \in DOMAIN cs : cs[i].op = "insert"
  BY <1>5 DEF Inserting, Ins
<1> HIDE DEF cs
<1>7. past' = cs
  BY <1>2, <1>4, ConcatEmptySeq
<1>8. rows' = Abstract!Replay(past')
  BY <1>2, SameReplay DEF TableIsReplay
<1>9. Abstract!Present(rows) = S
  BY DEF Abstract!Present, Present
<1>10. Abstract!StartRecording
  <2>1. ~versioned /\ versioned' /\ rows' = rows
    BY <1>2
  <2>2. \A i \in DOMAIN past' : past'[i].op = "insert"
    BY <1>6, <1>7
  <2>3. Len(past') = Abstract!Cardinality(Abstract!Present(rows))
    BY <1>5, <1>6, <1>7, <1>9, SameSize
  <2>4. Abstract!Replay(past') = rows
    BY <1>2, <1>8
  <2> HIDE DEF S
  <2> QED BY <2>1, <2>2, <2>3, <2>4 DEF Abstract!StartRecording
<1> QED BY <1>10 DEF Abstract!Next

\* A change of one row that is not there, or is, as it should be is legal.
LEMMA LegalAlone ==
  ASSUME NEW c \in Change,
         IF c.op = "insert" THEN rows[c.pk] = NoRow ELSE rows[c.pk] # NoRow
  PROVE  Abstract!Legal(<<c>>)
BY DEF Abstract!Legal, Abstract!IsMove

\* So are two inserts, and a delete with the update it moves to.
LEMMA LegalPair ==
  ASSUME NEW p \in PK, NEW q \in PK, NEW v \in Values, p # q, rows[q] = NoRow
  PROVE  /\ rows[p] = NoRow => Abstract!Legal(<<Ins(p, v), Ins(q, v)>>)
         /\ rows[p] # NoRow => Abstract!Legal(Move(p, q, v))
BY DEF Abstract!Legal, Abstract!IsMove, Abstract!Del, Ins, Del, Upd, Move

\* A write of one row is a step of the store.
LEMMA RowImplements ==
  ASSUME StoreOK, TableIsReplay', NEW p \in PK, NEW v \in Values,
         InsertRow(p, v) \/ UpdateRow(p, v)
  PROVE  Abstract!Next
<1>1. [rows EXCEPT ![p] = v] \in Table
  BY DEF StoreOK, Table, Content
<1>2. PICK c \in {Ins(p, v), Upd(p, v)} :
        /\ Write([rows EXCEPT ![p] = v], <<c>>)
        /\ c.pk = p
        /\ IF c.op = "insert" THEN rows[p] = NoRow ELSE rows[p] # NoRow
  BY DEF InsertRow, UpdateRow, Ins, Upd
<1>3. c \in Change
  BY DEF Ins, Upd, Change
<1>4. <<c>> \in Seq(Change) /\ <<c>> # <<>> /\ Abstract!Legal(<<c>>)
  BY <1>2, <1>3, LegalAlone
<1> QED BY <1>1, <1>2, <1>4, WriteImplements

\* So is a delete.
LEMMA DeleteImplements ==
  ASSUME StoreOK, TableIsReplay', NEW t \in Threads, NEW p \in PK, Delete(t, p)
  PROVE  Abstract!Next
<1> DEFINE c == Del(p, rows[p])
<1>1. [rows EXCEPT ![p] = NoRow] \in Table
  BY DEF StoreOK, Table, Content
<1>2. c \in Change /\ c.op = "delete" /\ c.pk = p /\ rows[p] # NoRow
  BY DEF Delete, StoreOK, Table, Content, Del, Change
<1>3. Write([rows EXCEPT ![p] = NoRow], <<c>>)
  BY DEF Delete
<1> HIDE DEF c
<1>4. <<c>> \in Seq(Change) /\ <<c>> # <<>> /\ Abstract!Legal(<<c>>)
  BY <1>2, LegalAlone
<1> QED BY <1>1, <1>3, <1>4, WriteImplements

\* So is a batch, or a row that moves.
LEMMA PairImplements ==
  ASSUME StoreOK, TableIsReplay', NEW t \in Threads, NEW p \in PK, NEW q \in PK,
         NEW v \in Values, InsertBatch(t, p, q, v) \/ ChangeKey(t, p, q, v)
  PROVE  Abstract!Next
<1>1. rows \in Table /\ p # q /\ rows[q] = NoRow
  BY DEF StoreOK, InsertBatch, ChangeKey
<1>2. CASE InsertBatch(t, p, q, v)
  <2>1. [rows EXCEPT ![p] = v, ![q] = v] \in Table
    BY <1>1 DEF Table, Content
  <2>2. <<Ins(p, v), Ins(q, v)>> \in Seq(Change)
    BY DEF Ins, Change
  <2>3. Abstract!Legal(<<Ins(p, v), Ins(q, v)>>)
    BY <1>1, <1>2, LegalPair DEF InsertBatch
  <2>4. Write([rows EXCEPT ![p] = v, ![q] = v], <<Ins(p, v), Ins(q, v)>>)
    BY <1>2 DEF InsertBatch
  <2>5. <<Ins(p, v), Ins(q, v)>> # <<>>
    OBVIOUS
  <2> QED BY <2>1, <2>2, <2>3, <2>4, <2>5, WriteImplements
<1>3. CASE ChangeKey(t, p, q, v)
  <2>1. [rows EXCEPT ![p] = NoRow, ![q] = v] \in Table
    BY <1>1 DEF Table, Content
  <2>2. Move(p, q, v) \in Seq(Change) /\ Move(p, q, v) # <<>>
    BY DEF Move, Del, Upd, Change
  <2>3. Abstract!Legal(Move(p, q, v))
    BY <1>1, <1>3, LegalPair DEF ChangeKey
  <2>4. Write([rows EXCEPT ![p] = NoRow, ![q] = v], Move(p, q, v))
    BY <1>3 DEF ChangeKey
  <2> QED BY <2>1, <2>2, <2>3, <2>4, WriteImplements
<1> QED BY <1>2, <1>3

\* A batch without moves, of other rows each, is legal.
LEMMA LegalWithoutMoves ==
  ASSUME NEW cs \in Seq(Change),
         \A i, j \in 1 .. Len(cs) : cs[i].pk = cs[j].pk => i = j,
         \A i \in 1 .. Len(cs) :
           IF cs[i].op = "insert" THEN rows[cs[i].pk] = NoRow
                                  ELSE rows[cs[i].pk] # NoRow,
         \/ \A i \in 1 .. Len(cs) : cs[i].op # "update"
         \/ \A i \in 1 .. Len(cs) : cs[i].op # "delete"
  PROVE  Abstract!Legal(cs)
<1>1. DOMAIN cs = 1 .. Len(cs) /\ Len(cs) \in Nat
  BY LenProperties
<1>2. ASSUME NEW i \in 1 .. Len(cs) PROVE ~Abstract!IsMove(cs, i)
  <2> SUFFICES ASSUME i > 1, cs[i].op = "update",
                      cs[i - 1] = Abstract!Del(cs[i - 1].pk, cs[i].row)
               PROVE  FALSE
    BY DEF Abstract!IsMove
  <2>1. i - 1 \in 1 .. Len(cs) /\ cs[i - 1].op = "delete"
    BY <1>1 DEF Abstract!Del
  <2> QED BY <2>1
<1> QED BY <1>1, <1>2 DEF Abstract!Legal

\* Phase 1 of a rollback is a step of the store, or changes nothing.
LEMMA RemoveImplements ==
  ASSUME IInv, TableIsReplay', NEW t \in Threads, RollbackRemove(t)
  PROVE  Abstract!Next \/ UNCHANGED <<rows, versioned, past>>
<1> DEFINE gone == Removals(local[t])
           tb == [q \in PK |-> IF q \in gone THEN NoRow ELSE rows[q]]
<1>0. StoreOK /\ rows \in Table
  BY DEF IInv, StoreOK
<1>1. gone \subseteq Present(rows) /\ gone \in SUBSET PK
  BY DEF RollbackRemove, Present
<1>2. CASE gone = {}
  BY <1>2 DEF RollbackRemove, store, aux
<1>3. CASE gone # {}
  <2>1. PICK s \in Ascending(gone) :
          Write(tb, [i \in DOMAIN s |-> Del(s[i], rows[s[i]])])
    BY <1>3 DEF RollbackRemove
  <2> DEFINE cs == Deleting(s, rows)
  <2>2. tb \in Table
    BY <1>0 DEF Table, Content
  <2> HIDE DEF gone, tb
  <2>3. cs \in Seq(Change) /\ Write(tb, cs)
    BY <1>0, <1>1, <2>1, Batches DEF Deleting
  <2>4. /\ DOMAIN s = 1 .. Len(s) /\ Len(s) \in Nat
        /\ \A i \in 1 .. Len(s) : s[i] \in gone
        /\ \A i, j \in 1 .. Len(s) : s[i] = s[j] => i = j
        /\ \A q \in gone : \E i \in 1 .. Len(s) : s[i] = q
    BY <1>1, AscendingType, AscendingVisits
  <2>5. /\ Len(cs) = Len(s)
        /\ \A i \in 1 .. Len(s) : cs[i].pk = s[i] /\ cs[i].op = "delete"
    BY <2>4 DEF Deleting, Del
  <2> HIDE DEF cs
  <2>6. cs # <<>>
    BY <1>3, <2>4, <2>5, EmptySeq
  <2>7. /\ \A i, j \in 1 .. Len(cs) : cs[i].pk = cs[j].pk => i = j
        /\ \A i \in 1 .. Len(cs) : cs[i].op = "delete"
        /\ \A i \in 1 .. Len(cs) : rows[cs[i].pk] # NoRow
    BY <1>1, <2>4, <2>5 DEF Present
  <2>8. Abstract!Legal(cs)
    BY <2>3, <2>7, LegalWithoutMoves
  <2> QED BY <1>0, <2>2, <2>3, <2>6, <2>8, WriteImplements
<1> QED BY <1>2, <1>3

\* So is phase 2, once nothing it updates has vanished.
LEMMA RestoreImplements ==
  ASSUME IInv, TableIsReplay', NEW t \in Threads, RollbackRestore(t),
         Updates(local[t]) \subseteq Present(rows)
  PROVE  Abstract!Next \/ UNCHANGED <<rows, versioned, past>>
<1> DEFINE target == local[t].target
           ins == Inserts(local[t])
           upd == Updates(local[t])
           tb == [q \in PK |->
                    IF q \in ins \cup (upd \cap Present(rows))
                    THEN target[q] ELSE rows[q]]
<1>0. StoreOK /\ rows \in Table /\ target \in Table
  BY DEF IInv, StoreOK, ThreadsOK, Locals
<1>1. /\ ins \in SUBSET PK /\ ins \subseteq Present(target)
      /\ upd \in SUBSET PK /\ upd \subseteq Present(target)
      /\ upd \subseteq Present(rows) /\ ins \cap Present(rows) = {}
      /\ ins \cap upd = {}
  BY DEF Inserts, Updates, Present, RollbackRestore
<1>2. CASE ins \cup upd = {}
  BY <1>2 DEF RollbackRestore, store, aux
<1>3. CASE ins \cup upd # {}
  <2>1. PICK a \in Ascending(ins), b \in Ascending(upd) :
          Write(tb, [i \in DOMAIN a |-> Ins(a[i], target[a[i]])]
                    \o [i \in DOMAIN b |-> Upd(b[i], target[b[i]])])
    BY <1>3 DEF RollbackRestore
  <2> DEFINE ca == Inserting(a, target)
             cb == Updating(b, target)
             cs == ca \o cb
  <2>2. tb \in Table
    BY <1>0 DEF Table
  <2> HIDE DEF ins, upd, tb, target
  <2>3. ca \in Seq(Change) /\ cb \in Seq(Change) /\ Write(tb, cs)
    BY <1>0, <1>1, <2>1, Batches DEF Inserting, Updating
  <2>4. /\ DOMAIN a = 1 .. Len(a) /\ Len(a) \in Nat
        /\ \A i \in 1 .. Len(a) : a[i] \in ins
        /\ \A i, j \in 1 .. Len(a) : a[i] = a[j] => i = j
        /\ \A q \in ins : \E i \in 1 .. Len(a) : a[i] = q
    BY <1>1, AscendingType, AscendingVisits
  <2>5. /\ DOMAIN b = 1 .. Len(b) /\ Len(b) \in Nat
        /\ \A i \in 1 .. Len(b) : b[i] \in upd
        /\ \A i, j \in 1 .. Len(b) : b[i] = b[j] => i = j
        /\ \A q \in upd : \E i \in 1 .. Len(b) : b[i] = q
    BY <1>1, AscendingType, AscendingVisits
  <2>6. /\ Len(ca) = Len(a) /\ Len(cb) = Len(b)
        /\ \A i \in 1 .. Len(a) : ca[i].pk = a[i] /\ ca[i].op = "insert"
        /\ \A i \in 1 .. Len(b) : cb[i].pk = b[i] /\ cb[i].op = "update"
    BY <2>4, <2>5 DEF Inserting, Updating, Ins, Upd
  <2> HIDE DEF ca, cb
  <2>7. /\ cs \in Seq(Change) /\ Len(cs) = Len(a) + Len(b)
        /\ \A i \in 1 .. Len(cs) :
             cs[i] = IF i <= Len(a) THEN ca[i] ELSE cb[i - Len(a)]
    <3>1. /\ ca \o cb \in Seq(Change) /\ Len(ca \o cb) = Len(ca) + Len(cb)
          /\ \A i \in 1 .. Len(ca) + Len(cb) :
               (ca \o cb)[i] = IF i <= Len(ca) THEN ca[i] ELSE cb[i - Len(ca)]
      BY <2>3, ConcatProperties
    <3>2. Len(ca) = Len(a) /\ Len(cb) = Len(b)
      BY <2>6
    <3> QED BY <3>1, <3>2
  <2> HIDE DEF cs
  <2>8. ASSUME NEW i \in 1 .. Len(cs)
        PROVE  \/ /\ i \in 1 .. Len(a) /\ cs[i].op = "insert"
                  /\ cs[i].pk = a[i] /\ a[i] \in ins
               \/ /\ i - Len(a) \in 1 .. Len(b) /\ cs[i].op = "update"
                  /\ cs[i].pk = b[i - Len(a)] /\ b[i - Len(a)] \in upd
    <3>1. CASE i <= Len(a)
      <4>1. i \in 1 .. Len(a) /\ cs[i] = ca[i]
        BY <2>4, <2>7, <3>1
      <4> QED BY <2>4, <2>6, <4>1
    <3>2. CASE ~(i <= Len(a))
      <4>1. i - Len(a) \in 1 .. Len(b) /\ cs[i] = cb[i - Len(a)]
        BY <2>4, <2>5, <2>7, <3>2
      <4> QED BY <2>5, <2>6, <4>1
    <3> QED BY <3>1, <3>2
  <2>9. \A i, j \in 1 .. Len(cs) : cs[i].pk = cs[j].pk => i = j
    <3> SUFFICES ASSUME NEW i \in 1 .. Len(cs), NEW j \in 1 .. Len(cs),
                        cs[i].pk = cs[j].pk
                 PROVE  i = j
      OBVIOUS
    <3>1. CASE cs[i].pk \in ins
      <4>1. /\ i \in 1 .. Len(a) /\ cs[i].pk = a[i]
            /\ j \in 1 .. Len(a) /\ cs[j].pk = a[j]
        BY <1>1, <2>8, <3>1
      <4> QED BY <2>4, <4>1
    <3>2. CASE cs[i].pk \notin ins
      <4>1. /\ i - Len(a) \in 1 .. Len(b) /\ cs[i].pk = b[i - Len(a)]
            /\ j - Len(a) \in 1 .. Len(b) /\ cs[j].pk = b[j - Len(a)]
        BY <2>8, <3>2
      <4>2. i - Len(a) = j - Len(a)
        BY <2>5, <4>1
      <4> QED BY <2>4, <2>5, <2>7, <4>2
    <3> QED BY <3>1, <3>2
  <2>10. \A i \in 1 .. Len(cs) :
           IF cs[i].op = "insert" THEN rows[cs[i].pk] = NoRow
                                  ELSE rows[cs[i].pk] # NoRow
    BY <1>1, <2>8 DEF Present
  <2>11. \A i \in 1 .. Len(cs) : cs[i].op # "delete"
    BY <2>8
  <2>12. cs # <<>>
    <3>1. Len(a) > 0 \/ Len(b) > 0
      BY <1>3, <2>4, <2>5
    <3> QED BY <2>4, <2>5, <2>7, <3>1, EmptySeq
  <2>13. Abstract!Legal(cs)
    BY <2>7, <2>9, <2>10, <2>11, LegalWithoutMoves
  <2>14. Write(tb, cs)
    BY <2>3 DEF cs
  <2> QED BY <1>0, <2>2, <2>7, <2>12, <2>13, <2>14, WriteImplements
<1> QED BY <1>2, <1>3

\* Every step of the only thread is a step of the store or a stutter.
LEMMA StepImplements ==
  ASSUME IInv, SoleRollback, TableIsReplay', [Next]_vars
  PROVE  Abstract!Next \/ UNCHANGED <<rows, versioned, past>>
<1>1. ASSUME NEW t \in Threads, ThreadStep(t)
      PROVE  Abstract!Next \/ UNCHANGED <<rows, versioned, past>>
  <2>0. StoreOK
    BY DEF IInv
  <2>1. CASE CreateTable(t)
    BY <2>0, <2>1, CreateImplements
  <2>2. ASSUME NEW q \in PK, NEW v \in Values,
               Insert(t, q, v) \/ Update(t, q, v)
        PROVE  Abstract!Next
    BY <2>0, <2>2, RowImplements DEF Insert, Update
  <2>3. ASSUME NEW q \in PK, NEW r \in PK, NEW v \in Values,
               InsertBatch(t, q, r, v) \/ ChangeKey(t, q, r, v)
        PROVE  Abstract!Next
    BY <2>0, <2>3, PairImplements
  <2>4. ASSUME NEW q \in PK, Delete(t, q)
        PROVE  Abstract!Next
    BY <2>0, <2>4, DeleteImplements
  <2>5. CASE UpsertWrite(t)
    <3>1. local[t].pk \in PK /\ local[t].row \in Values
      BY <2>5 DEF IInv, ThreadsOK, Locals, UpsertContent, UpsertWrite
    <3> QED BY <2>0, <2>5, <3>1, RowImplements DEF UpsertWrite
  <2>6. CASE RollbackRemove(t)
    BY <2>6, RemoveImplements
  <2>7. CASE RollbackRestore(t)
    BY <2>7, NothingVanished, RestoreImplements DEF RollbackRestore
  <2>8. CASE \/ \E q \in PK, v \in Values : UpsertLook(t, q, v)
             \/ UpsertMiss(t)
             \/ \E l \in Labels : Checkpoint(t, l)
             \/ \E seq \in 0 .. MaxEvents : RollbackBegin(t, seq)
             \/ RollbackTarget(t) \/ RollbackCurrent(t) \/ RollbackFail(t)
             \/ \E before \in 1 .. MaxEvents + 1, keep \in Keep :
                  PruneBegin(t, before, keep)
             \/ PruneDelete(t)
    BY <2>8 DEF UpsertLook, UpsertMiss, Checkpoint, RollbackBegin,
                RollbackTarget, RollbackCurrent, RollbackFail, PruneBegin,
                PruneDelete, store, aux
  <2> QED BY <1>1, <2>1, <2>2, <2>3, <2>4, <2>5, <2>6, <2>7, <2>8
          DEF ThreadStep
<1>2. CASE Crash \/ UNCHANGED vars
  BY <1>2 DEF Crash, vars, store, aux
<1> QED BY <1>1, <1>2 DEF Next

\* With one thread a versioned table implements VersionedStore: its log is
\* every change of the table, in order and once, and holds nothing else.
THEOREM StoreIsImplemented ==
  ASSUME OneThread
  PROVE  Spec => ImplementsStore
<1>1. Init => Abstract!Init
  BY DEF Init, Abstract!Init, Empty, Abstract!Empty
<1>2. IInv /\ SoleRollback /\ TableIsReplay /\ [Next]_vars
        => SoleRollback' /\ TableIsReplay'
  BY SoleStepsLog
<1>3. IInv /\ SoleRollback /\ TableIsReplay /\ [Next]_vars
        => [Abstract!Next]_(Abstract!vars)
  BY SoleStepsLog, StepImplements DEF Abstract!vars
<1> QED BY <1>1, <1>2, <1>3, SoleInitially, IInvAlways, PTL
        DEF Spec, ImplementsStore, Abstract!Spec
=============================================================================

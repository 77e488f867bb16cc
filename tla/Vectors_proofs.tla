--------------------------- MODULE Vectors_proofs ---------------------------
(***************************************************************************)
(* What Schema promises of the collections: once the journal is processed, *)
(* the vectors are those of the rows and their metadata have the names of  *)
(* the row, but for those it had and set to NULL; for every set of         *)
(* columns, keys and threads and every mix of operations.                  *)
(***************************************************************************)
EXTENDS Schema_proofs, WellFoundedInduction

-----------------------------------------------------------------------------
(***************************************************************************)
(* The invariant.  Of a column it says, for every key, what the entry that *)
(* decides will make of its vector or, if there is none, what the vector   *)
(* is: the documents are the row's.  The metadata name every column of the *)
(* row and none that no row under the key had, unless a meta_update comes  *)
(* after.                                                                  *)
(***************************************************************************)
Filterable(reg) == {c \in Col : reg[c] = "INTEGER"}

\* A meta_update for the column comes after position i.
MetaAfter(s, c, i) ==
  \E j \in DOMAIN s : j > i /\ s[j].op = "meta_update" /\ s[j].col = c

EntryFollows(c, i, row) ==
  IF row = NoRow THEN journal[i].op = "delete"
  ELSE /\ journal[i].op # "delete" /\ journal[i].doc = row[c]
       /\ MetaAfter(journal, c, i) \/ Meta(row) \subseteq journal[i].meta

VectorFollows(c, v, row) ==
  IF row = NoRow THEN v = NoVec
  ELSE IF v = NoVec THEN row[c] = Null \/ MetaPending(journal, c)
  ELSE /\ v.doc = row[c]
       /\ MetaPending(journal, c) \/ Meta(row) \subseteq v.meta

RowFollows(c, k) ==
  /\ \A i \in Last(journal, c, k) : EntryFollows(c, i, table.rows[k])
  /\ Matching(journal, c, k) = {} =>
       VectorFollows(c, chroma[c][k], table.rows[k])

EntriesName(c) ==
  \A k \in PK : \A i \in Matching(journal, c, k) :
    MetaAfter(journal, c, i) \/ journal[i].meta \subseteq had[k]

VectorsName(c) ==
  \/ MetaPending(journal, c)
  \/ \A k \in PK : chroma[c][k] # NoVec => chroma[c][k].meta \subseteq had[k]

\* The names that are remembered are of columns that a search may filter by, and
\* those of the row are among them.
Remembered ==
  \A k \in PK : /\ Names(table.rows[k]) \subseteq had[k]
                /\ had[k] \subseteq Filterable(registry)

Column(c) == EntriesName(c) /\ VectorsName(c) /\ \A k \in PK : RowFollows(c, k)

\* What a row holds is in columns of the table.
Shaped ==
  \A k \in PK, c \in Col : table.rows[k] # NoRow /\ c \notin table.cols
                             => table.rows[k][c] = Null

Whole == table.there /\ Named(registry) \subseteq table.cols

\* The vector that reindex makes.
Remade(c, k) ==
  IF table.rows[k] = NoRow THEN NoVec
  ELSE [doc |-> table.rows[k][c], meta |-> Meta(table.rows[k])]

\* What a reindex has done so far, if nobody else has done anything.
ReindexSees(t) ==
  alone[t] /\ pc[t] \in {"reindex", "reindex_write"} =>
    /\ \A c \in LongText(registry) \ local[t].cols, k \in PK :
         chroma[c][k] = Remade(c, k)
    /\ pc[t] = "reindex_write" =>
         /\ local[t].rows = table.rows
         /\ \A k \in PK : chroma[local[t].change.col][k] = NoVec

ColumnsFollow ==
  ~drift => Whole /\ Remembered /\ \A c \in LongText(registry) : Column(c)

VInv == Shaped /\ ColumnsFollow /\ \A t \in Threads : ReindexSees(t)

-----------------------------------------------------------------------------
(***************************************************************************)
(* The entry that decides.                                                 *)
(***************************************************************************)

\* A set of positions has a largest one.
LEMMA LargestPosition ==
  ASSUME NEW n \in Nat, NEW S, S \subseteq 1 .. n, S # {}
  PROVE  \E m \in S : \A j \in S : j <= m
<1> DEFINE T == {x \in Nat : n - x \in S}
<1>1. T \subseteq Nat /\ T # {}
  <2>1. PICK i \in S : i \in 1 .. n
    OBVIOUS
  <2>2. n - i \in Nat /\ n - (n - i) = i
    BY <2>1
  <2> QED BY <2>1, <2>2
<1>2. PICK x \in T : \A y \in T : <<y, x>> \notin OpToRel(<, Nat)
  <2> HIDE DEF T
  <2> QED BY <1>1, NatLessThanWellFounded, WFMin
<1>3. ASSUME NEW j \in S PROVE j <= n - x
  <2>1. j \in 1 .. n /\ n - j \in Nat /\ n - (n - j) = j
    OBVIOUS
  <2>2. n - j \in T
    BY <2>1
  <2>3. ~(n - j < x)
    BY <1>2, <2>2 DEF OpToRel
  <2> QED BY <2>1, <2>3
<1> QED BY <1>2, <1>3

LEMMA LastExists ==
  ASSUME NEW s \in Seq(Entry), NEW c, NEW k
  PROVE  /\ Last(s, c, k) \subseteq Matching(s, c, k)
         /\ Matching(s, c, k) \subseteq 1 .. Len(s) /\ Len(s) \in Nat
         /\ Matching(s, c, k) # {} => \E i \in 1 .. Len(s) : Last(s, c, k) = {i}
<1> DEFINE M == Matching(s, c, k)
<1>1. M \subseteq 1 .. Len(s) /\ Len(s) \in Nat /\ Last(s, c, k) \subseteq M
  BY LenProperties DEF Matching, Last
<1>2. ASSUME M # {} PROVE \E i \in 1 .. Len(s) : Last(s, c, k) = {i}
  <2>1. Last(s, c, k) = {i \in M : \A j \in M : j <= i}
    BY DEF Last
  <2> HIDE DEF M
  <2>2. PICK i \in M : \A j \in M : j <= i
    BY <1>1, <1>2, LargestPosition
  <2>3. \A h \in M : (\A j \in M : j <= h) => h = i
    BY <1>1, <2>2
  <2> QED BY <1>1, <2>1, <2>2, <2>3
<1> QED BY <1>1, <1>2

\* What a batch leaves under a key, but for its meta_updates.
LEMMA AppliedValue ==
  ASSUME NEW s \in Seq(Entry), NEW c \in Col, NEW k \in PK
  PROVE  /\ Matching(s, c, k) = {} => Applied(s)[c][k] = chroma[c][k]
         /\ \A i \in Last(s, c, k) :
              Applied(s)[c][k] =
                IF s[i].op = "delete" THEN NoVec
                ELSE Upserted(chroma[c][k], s[i].doc, s[i].meta)
<1>1. Matching(s, c, k) = {} => Last(s, c, k) = {}
  BY DEF Last
<1>2. ASSUME NEW i \in Last(s, c, k)
      PROVE  i = CHOOSE j \in DOMAIN s : j \in Last(s, c, k)
  <2>1. Last(s, c, k) = {i} /\ i \in DOMAIN s
    BY LastExists, LenProperties
  <2> QED BY <2>1
<1> DEFINE n == CHOOSE j \in DOMAIN s : j \in Last(s, c, k)
<1>3. Applied(s)[c][k] =
        IF Last(s, c, k) = {} THEN chroma[c][k]
        ELSE IF s[n].op = "delete" THEN NoVec
             ELSE Upserted(chroma[c][k], s[n].doc, s[n].meta)
  BY Zenon DEF Applied
<1>4. \A i \in Last(s, c, k) : i = n
  BY <1>2
<1> HIDE DEF n
<1> QED BY <1>1, <1>3, <1>4, Zenon

\* The positions of a sequence that is cut in two.
LEMMA Concatenated ==
  ASSUME NEW s \in Seq(Entry), NEW u \in Seq(Entry)
  PROVE  /\ Len(s) \in Nat /\ DOMAIN s = 1 .. Len(s)
         /\ Len(u) \in Nat /\ DOMAIN u = 1 .. Len(u)
         /\ DOMAIN (s \o u) = 1 .. Len(s) + Len(u) /\ s \o u \in Seq(Entry)
         /\ \A i \in DOMAIN s : i \in DOMAIN (s \o u) /\ (s \o u)[i] = s[i]
         /\ \A j \in DOMAIN u : /\ Len(s) + j \in DOMAIN (s \o u)
                                /\ (s \o u)[Len(s) + j] = u[j]
         /\ \A i \in DOMAIN (s \o u) :
              i \in DOMAIN s \/ \E j \in DOMAIN u : i = Len(s) + j
<1>1. /\ Len(s) \in Nat /\ DOMAIN s = 1 .. Len(s)
      /\ Len(u) \in Nat /\ DOMAIN u = 1 .. Len(u)
  BY LenProperties
<1>2. /\ s \o u \in Seq(Entry) /\ Len(s \o u) = Len(s) + Len(u)
      /\ DOMAIN (s \o u) = 1 .. Len(s \o u)
      /\ \A i \in 1 .. Len(s) + Len(u) :
           (s \o u)[i] = IF i <= Len(s) THEN s[i] ELSE u[i - Len(s)]
  BY ConcatProperties, LenProperties
<1>3. \A j \in 1 .. Len(u) : /\ Len(s) + j \in 1 .. Len(s) + Len(u)
                             /\ ~(Len(s) + j <= Len(s))
                             /\ (Len(s) + j) - Len(s) = j
  BY <1>1
<1>4. \A i \in 1 .. Len(s) + Len(u) :
        i \in 1 .. Len(s) \/ (i - Len(s) \in 1 .. Len(u) /\ i = Len(s) + (i - Len(s)))
  BY <1>1
<1>5. \A i \in 1 .. Len(s) : i \in 1 .. Len(s) + Len(u) /\ i <= Len(s)
  BY <1>1
<1> QED BY <1>1, <1>2, <1>3, <1>4, <1>5

LEMMA LastOfConcat ==
  ASSUME NEW s \in Seq(Entry), NEW u \in Seq(Entry), NEW c, NEW k
  PROVE  /\ Matching(s \o u, c, k) =
              Matching(s, c, k) \cup {Len(s) + j : j \in Matching(u, c, k)}
         /\ Matching(u, c, k) = {} => Last(s \o u, c, k) = Last(s, c, k)
         /\ Matching(u, c, k) # {} =>
              Last(s \o u, c, k) = {Len(s) + j : j \in Last(u, c, k)}
<1> DEFINE m == Matching(s, c, k)
           n == Matching(u, c, k)
           w == Matching(s \o u, c, k)
<1>1. w = m \cup {Len(s) + j : j \in n}
  BY Concatenated DEF Matching
<1>2. /\ m \subseteq 1 .. Len(s) /\ n \subseteq 1 .. Len(u)
      /\ Len(s) \in Nat /\ Len(u) \in Nat
  BY LastExists
<1>3. /\ Last(s \o u, c, k) = {i \in w : \A j \in w : j <= i}
      /\ Last(s, c, k) = {i \in m : \A j \in m : j <= i}
      /\ Last(u, c, k) = {i \in n : \A j \in n : j <= i}
  BY DEF Last
<1> HIDE DEF m, n, w
<1>4. n = {} => Last(s \o u, c, k) = Last(s, c, k)
  BY <1>1, <1>3
<1>5. ASSUME n # {}
      PROVE  Last(s \o u, c, k) = {Len(s) + j : j \in Last(u, c, k)}
  <2>1. ASSUME NEW i \in Last(s \o u, c, k)
        PROVE  \E j \in Last(u, c, k) : i = Len(s) + j
    <3>1. i \in w /\ \A j \in n : Len(s) + j <= i
      BY <1>1, <1>3, <2>1
    <3>2. PICK j \in n : i = Len(s) + j
      <4>1. PICK h \in n : Len(s) + h <= i
        BY <1>5, <3>1
      <4>2. h \in 1 .. Len(u)
        BY <1>2
      <4>3. i \notin 1 .. Len(s)
        BY <1>2, <4>1, <4>2
      <4>4. i \notin m
        BY <1>2, <4>3
      <4> QED BY <1>1, <3>1, <4>4, Zenon
    <3>3. \A h \in n : h <= j
      BY <1>2, <3>1, <3>2
    <3> QED BY <1>3, <3>2, <3>3
  <2>2. ASSUME NEW j \in Last(u, c, k) PROVE Len(s) + j \in Last(s \o u, c, k)
    <3>1. j \in n /\ \A h \in n : h <= j
      BY <1>3, <2>2
    <3>2. Len(s) + j \in w /\ \A h \in m : h <= Len(s) + j
      BY <1>1, <1>2, <3>1
    <3>3. \A h \in n : Len(s) + h <= Len(s) + j
      BY <1>2, <3>1
    <3> QED BY <1>1, <1>3, <3>2, <3>3
  <2> QED BY <2>1, <2>2
<1> QED BY <1>1, <1>4, <1>5 DEF m, n, w

LEMMA MetaOfConcat ==
  ASSUME NEW s \in Seq(Entry), NEW u \in Seq(Entry), NEW c
  PROVE  /\ MetaPending(s \o u, c) <=> MetaPending(s, c) \/ MetaPending(u, c)
         /\ \A i \in DOMAIN s : MetaAfter(s \o u, c, i) <=>
                                  MetaAfter(s, c, i) \/ MetaPending(u, c)
         /\ \A j \in DOMAIN u : MetaAfter(s \o u, c, Len(s) + j) <=>
                                  MetaAfter(u, c, j)
<1> DEFINE w == s \o u
<1>1. /\ \A i \in DOMAIN s : i \in DOMAIN w /\ w[i] = s[i]
      /\ \A j \in DOMAIN u : Len(s) + j \in DOMAIN w /\ w[Len(s) + j] = u[j]
      /\ \A i \in DOMAIN w : i \in DOMAIN s \/ \E j \in DOMAIN u : i = Len(s) + j
  BY Concatenated
<1>2. /\ \A i \in DOMAIN s, j \in DOMAIN u :
           Len(s) + j > i /\ ~(i > Len(s) + j)
      /\ \A h, j \in DOMAIN u : Len(s) + h > Len(s) + j <=> h > j
  <2>1. /\ Len(s) \in Nat /\ DOMAIN s = 1 .. Len(s)
        /\ Len(u) \in Nat /\ DOMAIN u = 1 .. Len(u)
    BY Concatenated
  <2> QED BY <2>1
<1> HIDE DEF w
<1>3. MetaPending(w, c) <=> MetaPending(s, c) \/ MetaPending(u, c)
  <2>1. ASSUME MetaPending(s, c) PROVE MetaPending(w, c)
    BY <1>1, <2>1, Zenon DEF MetaPending
  <2>2. ASSUME MetaPending(u, c) PROVE MetaPending(w, c)
    BY <1>1, <2>2, Zenon DEF MetaPending
  <2>3. ASSUME MetaPending(w, c) PROVE MetaPending(s, c) \/ MetaPending(u, c)
    <3>1. PICK h \in DOMAIN w : w[h].op = "meta_update" /\ w[h].col = c
      BY <2>3, Zenon DEF MetaPending
    <3>2. CASE h \in DOMAIN s
      BY <1>1, <3>1, <3>2, Zenon DEF MetaPending
    <3>3. ASSUME NEW j \in DOMAIN u, h = Len(s) + j PROVE MetaPending(u, c)
      BY <1>1, <3>1, <3>3, Zenon DEF MetaPending
    <3> QED BY <1>1, <3>2, <3>3, Zenon
  <2> QED BY <2>1, <2>2, <2>3
<1>4. ASSUME NEW i \in DOMAIN s
      PROVE  MetaAfter(w, c, i) <=> MetaAfter(s, c, i) \/ MetaPending(u, c)
  <2>1. ASSUME MetaAfter(s, c, i) PROVE MetaAfter(w, c, i)
    BY <1>1, <2>1, Zenon DEF MetaAfter
  <2>2. ASSUME MetaPending(u, c) PROVE MetaAfter(w, c, i)
    BY <1>1, <1>2, <2>2, Zenon DEF MetaPending, MetaAfter
  <2>3. ASSUME MetaAfter(w, c, i)
        PROVE  MetaAfter(s, c, i) \/ MetaPending(u, c)
    <3>1. PICK h \in DOMAIN w :
            h > i /\ w[h].op = "meta_update" /\ w[h].col = c
      BY <2>3, Zenon DEF MetaAfter
    <3>2. CASE h \in DOMAIN s
      BY <1>1, <3>1, <3>2, Zenon DEF MetaAfter
    <3>3. ASSUME NEW j \in DOMAIN u, h = Len(s) + j PROVE MetaPending(u, c)
      BY <1>1, <3>1, <3>3, Zenon DEF MetaPending
    <3> QED BY <1>1, <3>2, <3>3, Zenon
  <2> QED BY <2>1, <2>2, <2>3
<1>5. ASSUME NEW j \in DOMAIN u
      PROVE  MetaAfter(w, c, Len(s) + j) <=> MetaAfter(u, c, j)
  <2>1. ASSUME MetaAfter(u, c, j) PROVE MetaAfter(w, c, Len(s) + j)
    BY <1>1, <1>2, <2>1, Zenon DEF MetaAfter
  <2>2. ASSUME MetaAfter(w, c, Len(s) + j) PROVE MetaAfter(u, c, j)
    <3>1. PICK h \in DOMAIN w :
            h > Len(s) + j /\ w[h].op = "meta_update" /\ w[h].col = c
      BY <2>2, Zenon DEF MetaAfter
    <3>2. PICK g \in DOMAIN u : h = Len(s) + g
      BY <1>1, <1>2, <3>1, Zenon
    <3> QED BY <1>1, <1>2, <3>1, <3>2, Zenon DEF MetaAfter
  <2> QED BY <2>1, <2>2
<1> QED BY <1>3, <1>4, <1>5 DEF w

LEMMA NoEntries ==
  ASSUME NEW c, NEW k
  PROVE  /\ <<>> \in Seq(Entry) /\ DOMAIN <<>> = {}
         /\ Matching(<<>>, c, k) = {} /\ ~MetaPending(<<>>, c)
<1>1. <<>> \in Seq(Entry) /\ DOMAIN <<>> = {}
  BY EmptySeq, LenProperties
<1> QED BY <1>1 DEF Matching, MetaPending

-----------------------------------------------------------------------------
(***************************************************************************)
(* What is journaled: one entry for each column.                           *)
(***************************************************************************)
LEMMA ListedOnto ==
  ASSUME NEW S \in SUBSET Col
  PROVE  /\ \A c \in S : \E i \in 1 .. Cardinality(S) : Listed(S)[i] = c
         /\ \A i, j \in 1 .. Cardinality(S) : Listed(S)[i] = Listed(S)[j] => i = j
<1> DEFINE n == Cardinality(S)
<1>1. IsFiniteSet(S) /\ n \in Nat /\ ExistsBijection(1 .. n, S)
  BY ColAssumption, FS_Subset, FS_CardinalityType
<1>2. \E f \in [1 .. n -> S] : \A i, j \in DOMAIN f : f[i] = f[j] => i = j
  BY <1>1 DEF ExistsBijection, Bijection, Injection, IsInjective
<1>3. /\ Listed(S) \in [1 .. n -> S]
      /\ \A i, j \in 1 .. n : Listed(S)[i] = Listed(S)[j] => i = j
  BY <1>2 DEF Listed
<1>4. Listed(S) \in Injection(1 .. n, S)
  BY <1>3 DEF Injection, IsInjective
<1>5. Cardinality(1 .. n) = n
  BY <1>1, FS_Interval
<1>6. Listed(S) \in Surjection(1 .. n, S)
  BY <1>1, <1>4, <1>5, FS_Injection
<1> QED BY <1>3, <1>6 DEF Surjection

LEMMA JournaledEntries ==
  ASSUME NEW C \in SUBSET Col, NEW entry \in [C -> Entry],
         \A c \in C : entry[c].col = c, Journaled(entry)
  PROVE  \E m \in Seq(Entry) :
           /\ journal' = journal \o m
           /\ \A i \in DOMAIN m : m[i].col \in C /\ m[i] = entry[m[i].col]
           /\ \A c \in C : \E i \in DOMAIN m : m[i] = entry[c]
           /\ \A i, j \in DOMAIN m : m[i].col = m[j].col => i = j
<1> DEFINE columns == Listed(C)
           n == Cardinality(C)
           m == [i \in DOMAIN columns |-> entry[columns[i]]]
<1>1. n \in Nat /\ columns \in [1 .. n -> C] /\ DOMAIN columns = 1 .. n
  BY ListedType
<1>2. m \in [1 .. n -> Entry]
  BY <1>1
<1>3. m \in Seq(Entry) /\ DOMAIN m = 1 .. n
  BY <1>1, <1>2
<1>4. journal' = journal \o m
  BY DEF Journaled
<1>5. \A i \in 1 .. n : m[i] = entry[columns[i]] /\ m[i].col = columns[i]
  BY <1>1
<1>6. /\ \A c \in C : \E i \in 1 .. n : columns[i] = c
      /\ \A i, j \in 1 .. n : columns[i] = columns[j] => i = j
  BY ListedOnto
<1> HIDE DEF m, columns, n
<1>7. /\ \A i \in DOMAIN m : m[i].col \in C /\ m[i] = entry[m[i].col]
      /\ \A c \in C : \E i \in DOMAIN m : m[i] = entry[c]
      /\ \A i, j \in DOMAIN m : m[i].col = m[j].col => i = j
  BY <1>1, <1>3, <1>5, <1>6
<1> QED BY <1>3, <1>4, <1>7

\* A schema change leaves a meta_update for every LONGTEXT column there is.
LEMMA MetaUpdatesAll ==
  ASSUME NEW reg, MetaUpdates(reg)
  PROVE  \E m \in Seq(Entry) :
           /\ journal' = journal \o m
           /\ \A i \in DOMAIN m : m[i].op = "meta_update"
           /\ \A c \in LongText(reg) : MetaPending(m, c)
<1> DEFINE entry == [c \in LongText(reg) |->
                       [op |-> "meta_update", col |-> c, at |-> 0,
                        doc |-> Null, meta |-> {}]]
<1>1. LongText(reg) \in SUBSET Col
  BY DEF LongText
<1>2. ASSUME NEW c \in LongText(reg)
      PROVE  /\ entry[c] \in Entry
             /\ entry[c].op = "meta_update" /\ entry[c].col = c
  BY <1>1 DEF Entry
<1>3. entry \in [LongText(reg) -> Entry] /\ Journaled(entry)
  BY <1>2 DEF MetaUpdates
<1> HIDE DEF entry
<1>4. PICK m \in Seq(Entry) :
        /\ journal' = journal \o m
        /\ \A i \in DOMAIN m :
             m[i].col \in LongText(reg) /\ m[i] = entry[m[i].col]
        /\ \A c \in LongText(reg) : \E i \in DOMAIN m : m[i] = entry[c]
  <2>1. \A c \in LongText(reg) : entry[c].col = c
    BY <1>2
  <2> HIDE DEF entry
  <2> DEFINE C == LongText(reg)
  <2>2. \E m \in Seq(Entry) :
           /\ journal' = journal \o m
           /\ \A i \in DOMAIN m : m[i].col \in C /\ m[i] = entry[m[i].col]
           /\ \A c \in C : \E i \in DOMAIN m : m[i] = entry[c]
           /\ \A i, j \in DOMAIN m : m[i].col = m[j].col => i = j
    <3> HIDE DEF C
    <3> QED BY <1>1, <1>3, <2>1, JournaledEntries DEF C
  <2> QED BY <2>2
<1>5. \A i \in DOMAIN m : m[i].op = "meta_update"
  <2> TAKE i \in DOMAIN m
  <2>1. m[i].col \in LongText(reg) /\ m[i] = entry[m[i].col]
    BY <1>4
  <2>2. entry[m[i].col].op = "meta_update"
    BY <1>2, <2>1
  <2> QED BY <2>1, <2>2
<1>6. \A c \in LongText(reg) : MetaPending(m, c)
  BY <1>2, <1>4 DEF MetaPending
<1> QED BY <1>4, <1>5, <1>6

-----------------------------------------------------------------------------
(***************************************************************************)
(* A column that a step leaves as it is, but for its meta_updates, and one *)
(* of which nothing is pending.                                            *)
(***************************************************************************)
LEMMA KeptColumn ==
  ASSUME TInv, TInv', NEW c \in Col, Column(c),
         NEW m \in Seq(Entry), journal' = journal \o m,
         \A i \in DOMAIN m : m[i].op = "meta_update",
         chroma'[c] = chroma[c],
         \A k \in PK : /\ table'.rows[k] = NoRow <=> table.rows[k] = NoRow
                       /\ table.rows[k] # NoRow =>
                            table'.rows[k][c] = table.rows[k][c],
         \/ MetaPending(m, c)
         \/ /\ had' = had
            /\ \A k \in PK : table.rows[k] # NoRow =>
                 Meta(table.rows[k])' \subseteq Meta(table.rows[k])
  PROVE  Column(c)'
<1> DEFINE w == journal \o m
<1>1. journal \in Seq(Entry) /\ journal' = w /\ w \in Seq(Entry)
  BY Concatenated DEF TInv, TypeOK
<1>2. \A k \in PK : Matching(m, c, k) = {}
  BY DEF Matching
<1>3. \A k \in PK : /\ Matching(w, c, k) = Matching(journal, c, k)
                    /\ Last(w, c, k) = Last(journal, c, k)
  <2> TAKE k \in PK
  <2>1. /\ Matching(w, c, k) = Matching(journal, c, k)
                                 \cup {Len(journal) + j : j \in Matching(m, c, k)}
        /\ Matching(m, c, k) = {} => Last(w, c, k) = Last(journal, c, k)
    BY <1>1, LastOfConcat
  <2> QED BY <1>2, <2>1
<1>4. /\ \A i \in DOMAIN journal : i \in DOMAIN w /\ w[i] = journal[i]
      /\ \A i \in DOMAIN w : i \in DOMAIN journal \/ w[i].op = "meta_update"
  BY <1>1, Concatenated
<1>5. /\ MetaPending(w, c) <=> MetaPending(journal, c) \/ MetaPending(m, c)
      /\ \A i \in DOMAIN journal :
           MetaAfter(w, c, i) <=> MetaAfter(journal, c, i) \/ MetaPending(m, c)
  BY <1>1, MetaOfConcat
<1> HIDE DEF w
<1>6. EntriesName(c)'
  <2> SUFFICES ASSUME NEW k \in PK, NEW i \in Matching(w, c, k),
                      ~MetaAfter(w, c, i)
               PROVE  w[i].meta \subseteq had'[k]
    BY <1>1 DEF EntriesName
  <2>1. i \in Matching(journal, c, k) /\ i \in DOMAIN journal /\ w[i] = journal[i]
    BY <1>3, <1>4 DEF Matching
  <2>2. ~MetaPending(m, c) /\ ~MetaAfter(journal, c, i)
    BY <1>5, <2>1
  <2> QED BY <2>1, <2>2 DEF Column, EntriesName
<1>7. VectorsName(c)'
  BY <1>1, <1>5 DEF Column, VectorsName
<1>8. ASSUME NEW k \in PK PROVE RowFollows(c, k)'
  <2> DEFINE row == table.rows[k]
  <2>1. RowFollows(c, k)
    BY DEF Column
  <2>2. /\ row' = NoRow <=> row = NoRow
        /\ row # NoRow => row'[c] = row[c]
        /\ row # NoRow => MetaPending(m, c) \/ Meta(row)' \subseteq Meta(row)
    OBVIOUS
  <2>3. ASSUME NEW i \in Last(w, c, k)
        PROVE  /\ row' = NoRow => w[i].op = "delete"
               /\ row' # NoRow =>
                    /\ w[i].op # "delete" /\ w[i].doc = row'[c]
                    /\ MetaAfter(w, c, i) \/ Meta(row)' \subseteq w[i].meta
    <3>1. i \in Last(journal, c, k) /\ EntryFollows(c, i, row)
      BY <1>3, <2>1, <2>3 DEF RowFollows
    <3>2. i \in DOMAIN journal /\ w[i] = journal[i]
      BY <1>4, <3>1 DEF Last, Matching
    <3> QED BY <1>5, <2>2, <3>1, <3>2 DEF EntryFollows
  <2>4. ASSUME Matching(w, c, k) = {}
        PROVE  VectorFollows(c, chroma[c][k], row)'
    <3>1. VectorFollows(c, chroma[c][k], row)
      BY <1>3, <2>1, <2>4 DEF RowFollows
    <3> QED BY <1>1, <1>5, <2>2, <3>1 DEF VectorFollows
  <2> QED BY <1>1, <2>3, <2>4 DEF RowFollows, EntryFollows
<1> QED BY <1>6, <1>7, <1>8 DEF Column

LEMMA NewColumn ==
  ASSUME TInv', NEW c \in Col, Pending(c)' = {},
         VectorsName(c)',
         \A k \in PK : VectorFollows(c, chroma[c][k], table.rows[k])'
  PROVE  Column(c)'
<1>1. \A i \in DOMAIN journal' :
        journal'[i].op = "meta_update" \/ journal'[i].col # c
  BY DEF Pending
<1>2. \A k \in PK : Matching(journal', c, k) = {} /\ Last(journal', c, k) = {}
  BY <1>1 DEF Matching, Last
<1>3. EntriesName(c)'
  BY <1>2 DEF EntriesName
<1> QED BY <1>2, <1>3 DEF Column, RowFollows

-----------------------------------------------------------------------------
(***************************************************************************)
(* A row is written: the last entry of each column tells of it.            *)
(***************************************************************************)
LEMMA WriteRowColumn ==
  ASSUME TInv, TInv', NEW t \in Threads, NEW k \in PK,
         NEW row \in Row \cup {NoRow},
         NEW op \in {"add", "update", "delete"},
         op = "delete" <=> row = NoRow, WriteRow(t, op, k, row),
         NEW c \in LongText(registry), Column(c)
  PROVE  Column(c)'
<1> DEFINE entry == [d \in LongText(registry) |->
                       [op |-> op, col |-> d, at |-> k,
                        doc  |-> IF row = NoRow THEN Null ELSE row[d],
                        meta |-> Names(row)]]
<1>1. /\ Journaled(entry) /\ LongText(registry) \in SUBSET Col
      /\ registry' = registry /\ chroma' = chroma
      /\ table' = [table EXCEPT !.rows[k] = row]
  BY DEF WriteRow, LongText
<1>2. ASSUME NEW d \in LongText(registry)
      PROVE  /\ entry[d] \in Entry /\ entry[d].col = d
             /\ entry[d].op = op /\ entry[d].at = k
             /\ row # NoRow => entry[d].doc = row[d]
             /\ entry[d].meta = Names(row)
  BY <1>1, NamesType DEF Entry, Row
<1>3. entry \in [LongText(registry) -> Entry]
  BY <1>2
<1> HIDE DEF entry
<1>4. PICK m \in Seq(Entry) :
        /\ journal' = journal \o m
        /\ \A i \in DOMAIN m :
             m[i].col \in LongText(registry) /\ m[i] = entry[m[i].col]
        /\ \A d \in LongText(registry) : \E i \in DOMAIN m : m[i] = entry[d]
        /\ \A i, j \in DOMAIN m : m[i].col = m[j].col => i = j
  <2>1. \A d \in LongText(registry) : entry[d].col = d
    BY <1>2
  <2> DEFINE C == LongText(registry)
  <2> HIDE DEF C
  <2>2. \E m \in Seq(Entry) :
           /\ journal' = journal \o m
           /\ \A i \in DOMAIN m : m[i].col \in C /\ m[i] = entry[m[i].col]
           /\ \A d \in C : \E i \in DOMAIN m : m[i] = entry[d]
           /\ \A i, j \in DOMAIN m : m[i].col = m[j].col => i = j
    BY <1>1, <1>3, <2>1, JournaledEntries DEF C
  <2> QED BY <2>2 DEF C
<1>5. PICK n \in DOMAIN m : m[n] = entry[c] /\ m[n].col = c
  BY <1>2, <1>4
<1>6. \A i \in DOMAIN m : m[i].op = op /\ (m[i].col = c => i = n)
  BY <1>2, <1>4, <1>5
<1>7. op # "meta_update" /\ ~MetaPending(m, c)
      /\ \A i : ~MetaAfter(m, c, i)
  BY <1>6 DEF MetaPending, MetaAfter
<1>8. /\ Matching(m, c, k) = {n} /\ Last(m, c, k) = {n}
      /\ \A p \in PK : p # k => Matching(m, c, p) = {}
  <2>1. m[n].at = k /\ m[n].op # "meta_update" /\ n <= n
    BY <1>2, <1>4, <1>5, <1>7, LenProperties
  <2>2. Matching(m, c, k) = {n}
    BY <1>5, <1>6, <2>1 DEF Matching
  <2>3. Last(m, c, k) = {n}
    BY <2>1, <2>2 DEF Last
  <2> QED BY <1>5, <1>6, <2>1, <2>2, <2>3 DEF Matching
<1> DEFINE w == journal \o m
<1>9. journal \in Seq(Entry) /\ journal' = w /\ c \in Col
  BY <1>1, <1>4 DEF TInv, TypeOK
<1>10. /\ Matching(w, c, k) # {} /\ Last(w, c, k) = {Len(journal) + n}
       /\ \A p \in PK : p # k =>
            /\ Matching(w, c, p) = Matching(journal, c, p)
            /\ Last(w, c, p) = Last(journal, c, p)
  <2>1. \A p \in PK :
          /\ Matching(w, c, p) = Matching(journal, c, p)
                                   \cup {Len(journal) + j : j \in Matching(m, c, p)}
          /\ Matching(m, c, p) = {} => Last(w, c, p) = Last(journal, c, p)
          /\ Matching(m, c, p) # {} =>
               Last(w, c, p) = {Len(journal) + j : j \in Last(m, c, p)}
    BY <1>9, LastOfConcat
  <2> HIDE DEF w
  <2>2. Last(w, c, k) = {Len(journal) + n} /\ Matching(w, c, k) # {}
    <3>1. /\ {Len(journal) + j : j \in Last(m, c, k)} = {Len(journal) + n}
          /\ {Len(journal) + j : j \in Matching(m, c, k)} = {Len(journal) + n}
      BY <1>8
    <3>2. Matching(m, c, k) # {}
      BY <1>8
    <3> QED BY <2>1, <3>1, <3>2
  <2>3. ASSUME NEW p \in PK, p # k
        PROVE  /\ Matching(w, c, p) = Matching(journal, c, p)
               /\ Last(w, c, p) = Last(journal, c, p)
    <3>1. Matching(m, c, p) = {}
      BY <1>8, <2>3
    <3> QED BY <2>1, <3>1
  <2> QED BY <2>2, <2>3
<1>11. /\ \A i \in DOMAIN journal : i \in DOMAIN w /\ w[i] = journal[i]
       /\ w[Len(journal) + n] = m[n]
       /\ \A i \in DOMAIN w :
            i \in DOMAIN journal \/ \E j \in DOMAIN m : /\ i = Len(journal) + j
                                                        /\ w[i] = m[j]
  BY <1>9, Concatenated
<1>12. /\ MetaPending(w, c) <=> MetaPending(journal, c)
       /\ \A i \in DOMAIN journal : MetaAfter(w, c, i) <=> MetaAfter(journal, c, i)
  BY <1>7, <1>9, MetaOfConcat
<1> HIDE DEF w
<1>13. /\ \A p \in PK : p # k => table'.rows[p] = table.rows[p]
       /\ table'.rows[k] = row
       /\ \A r : Meta(r)' = Meta(r)
  BY <1>1 DEF TInv, TypeOK, Table, Rows, Meta
<1>14. /\ Names(row) \subseteq had'[k]
       /\ \/ had[k] \subseteq had'[k]
          \/ chroma[c][k] = NoVec /\ Matching(journal, c, k) = {}
       /\ \A p \in PK : p # k => had'[p] = had[p]
  BY DEF WriteRow, NothingLeft, TInv, TypeOK
<1>15. EntriesName(c)'
  <2> SUFFICES ASSUME NEW p \in PK, NEW i \in Matching(w, c, p),
                      ~MetaAfter(w, c, i)
               PROVE  w[i].meta \subseteq had'[p]
    BY <1>9 DEF EntriesName
  <2>1. CASE i \in DOMAIN journal
    <3>1. i \in Matching(journal, c, p) /\ w[i] = journal[i]
      BY <1>11, <2>1 DEF Matching
    <3>2. w[i].meta \subseteq had[p]
      BY <1>12, <2>1, <3>1 DEF Column, EntriesName
    <3> QED BY <1>14, <3>1, <3>2
  <2>2. CASE i \notin DOMAIN journal
    <3>1. i \in DOMAIN w /\ w[i].col = c /\ w[i].at = p
      BY DEF Matching
    <3>2. w[i] = entry[c]
      BY <1>5, <1>6, <1>11, <2>2, <3>1
    <3> QED BY <1>2, <1>14, <3>1, <3>2
  <2> QED BY <2>1, <2>2
<1>16. VectorsName(c)'
  <2> SUFFICES ASSUME ~MetaPending(journal, c), NEW p \in PK,
                      chroma[c][p] # NoVec
               PROVE  chroma[c][p].meta \subseteq had'[p]
    BY <1>1, <1>9, <1>12 DEF VectorsName
  <2>1. chroma[c][p].meta \subseteq had[p]
    BY DEF Column, VectorsName
  <2> QED BY <1>14, <2>1
<1>17. RowFollows(c, k)'
  <2>1. PICK q : q = Len(journal) + n
    OBVIOUS
  <2>2. w[q] = entry[c]
    BY <1>5, <1>11, <2>1
  <2>3. /\ entry[c].op = op
        /\ row # NoRow => entry[c].doc = row[c]
        /\ row # NoRow => entry[c].meta = Meta(row)
    BY <1>2 DEF Names
  <2>4. EntryFollows(c, q, row)'
    BY <1>9, <1>13, <2>2, <2>3 DEF EntryFollows
  <2>5. Last(w, c, k) = {q} /\ Matching(w, c, k) # {}
    BY <1>10, <2>1
  <2>6. RowFollows(c, k)' <=>
          /\ \A i \in Last(w, c, k) : EntryFollows(c, i, row)'
          /\ Matching(w, c, k) = {} =>
               VectorFollows(c, chroma[c][k], table.rows[k])'
    BY <1>9, <1>13 DEF RowFollows
  <2> QED BY <2>4, <2>5, <2>6
<1>18. ASSUME NEW p \in PK, p # k PROVE RowFollows(c, p)'
  <2>1. RowFollows(c, p)
    BY DEF Column
  <2>2. ASSUME NEW i \in Last(w, c, p)
        PROVE  EntryFollows(c, i, table.rows[p])'
    <3>1. i \in Last(journal, c, p) /\ EntryFollows(c, i, table.rows[p])
      BY <1>10, <1>18, <2>1, <2>2 DEF RowFollows
    <3>2. i \in DOMAIN journal /\ w[i] = journal[i]
      BY <1>11, <3>1 DEF Last, Matching
    <3> QED BY <1>9, <1>12, <1>13, <1>18, <3>1, <3>2 DEF EntryFollows
  <2>3. ASSUME Matching(w, c, p) = {}
        PROVE  VectorFollows(c, chroma[c][p], table.rows[p])'
    BY <1>1, <1>9, <1>10, <1>12, <1>13, <1>18, <2>1, <2>3
       DEF RowFollows, VectorFollows
  <2> QED BY <1>9, <2>2, <2>3 DEF RowFollows
<1> QED BY <1>15, <1>16, <1>17, <1>18 DEF Column

-----------------------------------------------------------------------------
(***************************************************************************)
(* A batch is processed.                                                   *)
(***************************************************************************)
LEMMA MetaUpdatedValue ==
  ASSUME TInv, NEW vectors \in Vectors, NEW c \in Col, NEW k \in PK,
         \A p \in Present(table.rows) : ~Refused(table.rows[p])
  PROVE  LET row == table.rows[k]
             v   == MetaUpdated(vectors, c)[k] IN
         IF row = NoRow THEN v = vectors[k]
         ELSE /\ v = NoVec => vectors[k] = NoVec /\ c \notin table.cols
              /\ v # NoVec => /\ v.meta = Meta(row)
                              /\ \/ vectors[k] = NoVec /\ v.doc = row[c]
                                 \/ vectors[k] # NoVec /\ v.doc = vectors[k].doc
<1> DEFINE row  == table.rows[k]
           v    == MetaUpdated(vectors, c)[k]
           have == {p \in Present(table.rows) : vectors[p] # NoVec}
           lack == Present(table.rows) \ have
           made == [doc |-> row[c], meta |-> Meta(row)]
           set  == [vectors[k] EXCEPT !.meta = Meta(row)]
<1>1. /\ ~(\E p \in have : Refused(table.rows[p]))
      /\ ~(\E p \in lack : Refused(table.rows[p]))
  OBVIOUS
<1>2. v = IF k \in have THEN set
          ELSE IF k \in lack /\ c \in table.cols THEN made ELSE vectors[k]
  BY <1>1 DEF MetaUpdated
<1>3. /\ k \in have <=> row # NoRow /\ vectors[k] # NoVec
      /\ k \in lack <=> row # NoRow /\ vectors[k] = NoVec
  BY DEF Present
<1>4. vectors[k] \in Vec \cup {NoVec} /\ row \in Row \cup {NoRow}
  BY DEF Vectors, TInv, TypeOK, Table, Rows
<1>5. vectors[k] # NoVec =>
        /\ set \in Vec /\ set # NoVec
        /\ set.meta = Meta(row) /\ set.doc = vectors[k].doc
  BY <1>4, MetaType, NullAssumption DEF Vec
<1>6. row # NoRow =>
        /\ made \in Vec /\ made # NoVec
        /\ made.meta = Meta(row) /\ made.doc = row[c]
  BY <1>4, MetaType, NullAssumption DEF Vec, Row
<1> HIDE DEF v, have, lack, made, set
<1> QED BY <1>2, <1>3, <1>5, <1>6 DEF v

\* What a batch makes of a vector that no later entry decides on.
LEMMA AfterBatch ==
  ASSUME TInv, Whole, NEW c \in LongText(registry), Column(c),
         NEW s \in Seq(Entry), NEW u \in Seq(Entry), journal = s \o u,
         ~Loses(s), NEW k \in PK, Matching(u, c, k) = {}
  PROVE  LET row == table.rows[k]
             v   == ChromaAfter(s)[c][k] IN
         IF row = NoRow THEN v = NoVec
         ELSE IF v = NoVec THEN row[c] = Null \/ MetaPending(u, c)
         ELSE /\ v.doc = row[c]
              /\ MetaPending(u, c) \/ Meta(row) \subseteq v.meta
<1> DEFINE row == table.rows[k]
           a   == Applied(s)[c][k]
           v   == ChromaAfter(s)[c][k]
<1>1. /\ c \in Col /\ chroma[c][k] \in Vec \cup {NoVec}
      /\ row \in Row \cup {NoRow} /\ RowFollows(c, k)
  BY DEF TInv, TypeOK, Vectors, Table, Rows, LongText, Column
<1>2. /\ Matching(s, c, k) = Matching(journal, c, k)
      /\ Last(s, c, k) = Last(journal, c, k)
  <2>1. /\ Matching(journal, c, k) =
             Matching(s, c, k) \cup {Len(s) + j : j \in Matching(u, c, k)}
        /\ Matching(u, c, k) = {} => Last(journal, c, k) = Last(s, c, k)
    BY LastOfConcat
  <2> QED BY <2>1
<1>3. /\ MetaPending(journal, c) <=> MetaPending(s, c) \/ MetaPending(u, c)
      /\ \A i \in DOMAIN s : MetaAfter(journal, c, i) =>
                               MetaPending(s, c) \/ MetaPending(u, c)
      /\ \A i \in DOMAIN s : journal[i] = s[i]
  <2>1. \A i \in DOMAIN s : MetaAfter(s, c, i) => MetaPending(s, c)
    BY DEF MetaAfter, MetaPending
  <2> QED BY <2>1, MetaOfConcat, Concatenated
<1>4. /\ row = NoRow => a = NoVec
      /\ row # NoRow =>
           /\ a = NoVec =>
                row[c] = Null \/ MetaPending(s, c) \/ MetaPending(u, c)
           /\ a # NoVec => /\ a.doc = row[c]
                           /\ \/ MetaPending(s, c) \/ MetaPending(u, c)
                              \/ Meta(row) \subseteq a.meta
  <2>1. CASE Matching(s, c, k) = {}
    <3>1. a = chroma[c][k] /\ VectorFollows(c, chroma[c][k], row)
      BY <1>1, <1>2, <2>1, AppliedValue DEF RowFollows
    <3> QED BY <1>3, <3>1 DEF VectorFollows
  <2>2. CASE Matching(s, c, k) # {}
    <3>1. PICK i \in 1 .. Len(s) : Last(s, c, k) = {i}
      BY <2>2, LastExists
    <3>2. i \in DOMAIN s /\ journal[i] = s[i] /\ EntryFollows(c, i, row)
      BY <1>1, <1>2, <1>3, <3>1, LenProperties DEF RowFollows
    <3>3. a = IF s[i].op = "delete" THEN NoVec
              ELSE Upserted(chroma[c][k], s[i].doc, s[i].meta)
      BY <1>1, <3>1, AppliedValue
    <3>4. /\ Upserted(chroma[c][k], s[i].doc, s[i].meta) \in Vec
          /\ Upserted(chroma[c][k], s[i].doc, s[i].meta).doc = s[i].doc
          /\ s[i].meta \subseteq
               Upserted(chroma[c][k], s[i].doc, s[i].meta).meta
      <4>1. s[i] \in Entry
        BY <3>1
      <4>2. s[i].doc \in Doc \cup {Null} /\ s[i].meta \in SUBSET Col
        BY <4>1 DEF Entry
      <4> QED BY <1>1, <4>2, UpsertedType DEF Upserted
    <3>5. NoVec \notin Vec
      BY NullAssumption
    <3> HIDE DEF a, row
    <3>6. CASE row = NoRow
      BY <3>2, <3>3, <3>6 DEF EntryFollows
    <3>7. CASE row # NoRow
      <4>1. /\ s[i].op # "delete" /\ s[i].doc = row[c]
            /\ \/ MetaPending(s, c) \/ MetaPending(u, c)
               \/ Meta(row) \subseteq s[i].meta
        BY <1>3, <3>2, <3>7 DEF EntryFollows
      <4> QED BY <3>3, <3>4, <3>5, <3>7, <4>1
    <3> QED BY <3>6, <3>7
  <2> QED BY <2>1, <2>2
<1>5. CASE ~MetaPending(s, c)
  <2>1. v = a
    BY <1>1, <1>5 DEF ChromaAfter
  <2> QED BY <1>4, <1>5, <2>1
<1>6. CASE MetaPending(s, c)
  <2>1. v = MetaUpdated(Applied(s)[c], c)[k]
    BY <1>1, <1>6 DEF ChromaAfter
  <2>2. \A p \in Present(table.rows) : ~Refused(table.rows[p])
    BY <1>1, <1>6 DEF Loses
  <2>3. Applied(s)[c] \in Vectors
    BY <1>1, AppliedType
  <2>4. c \in table.cols
    BY DEF Whole, Named, LongText
  <2>5. IF row = NoRow THEN v = a
        ELSE /\ v # NoVec /\ v.meta = Meta(row)
             /\ v.doc = IF a = NoVec THEN row[c] ELSE a.doc
    BY <1>1, <2>1, <2>2, <2>3, <2>4, MetaUpdatedValue
  <2> HIDE DEF v, a, row
  <2>6. CASE row = NoRow
    BY <1>4, <2>5, <2>6 DEF row, v
  <2>7. CASE row # NoRow
    BY <1>4, <2>5, <2>7 DEF row, v
  <2> QED BY <2>6, <2>7
<1> QED BY <1>5, <1>6

\* ... and of the names its metadata have.
LEMMA NamesAfterBatch ==
  ASSUME TInv, Whole, Remembered, NEW c \in LongText(registry), Column(c),
         NEW s \in Seq(Entry), NEW u \in Seq(Entry), journal = s \o u,
         ~Loses(s), ~MetaPending(u, c), NEW k \in PK,
         MetaPending(s, c) => table.rows[k] # NoRow,
         ChromaAfter(s)[c][k] # NoVec
  PROVE  ChromaAfter(s)[c][k].meta \subseteq had[k]
<1> DEFINE row == table.rows[k]
           a   == Applied(s)[c][k]
           v   == ChromaAfter(s)[c][k]
<1>1. /\ c \in Col /\ chroma[c][k] \in Vec \cup {NoVec}
      /\ row # NoRow => Meta(row) \subseteq had[k]
  BY DEF TInv, TypeOK, Vectors, LongText, Remembered, Names
<1>2. CASE MetaPending(s, c)
  <2>1. v = MetaUpdated(Applied(s)[c], c)[k]
    BY <1>1, <1>2 DEF ChromaAfter
  <2>2. \A p \in Present(table.rows) : ~Refused(table.rows[p])
    BY <1>1, <1>2 DEF Loses
  <2>3. Applied(s)[c] \in Vectors
    BY <1>1, AppliedType
  <2>4. v.meta = Meta(row)
    BY <1>1, <1>2, <2>1, <2>2, <2>3, MetaUpdatedValue
  <2> QED BY <1>1, <1>2, <2>4
<1>3. CASE ~MetaPending(s, c)
  <2>1. v = a
    BY <1>1, <1>3 DEF ChromaAfter
  <2>2. ~MetaPending(journal, c) /\ \A i : ~MetaAfter(journal, c, i)
    <3>1. ~MetaPending(journal, c)
      BY <1>3, MetaOfConcat
    <3> QED BY <3>1 DEF MetaPending, MetaAfter
  <2>3. chroma[c][k] # NoVec => chroma[c][k].meta \subseteq had[k]
    BY <2>2 DEF Column, VectorsName
  <2>4. CASE Matching(s, c, k) = {}
    BY <1>1, <2>1, <2>3, <2>4, AppliedValue
  <2>5. CASE Matching(s, c, k) # {}
    <3>1. PICK i \in 1 .. Len(s) : Last(s, c, k) = {i}
      BY <2>5, LastExists
    <3>2. i \in Matching(journal, c, k) /\ journal[i] = s[i]
      BY <3>1, Concatenated DEF Last, Matching
    <3>3. s[i].meta \subseteq had[k]
      BY <2>2, <3>2 DEF Column, EntriesName
    <3>4. a = IF s[i].op = "delete" THEN NoVec
              ELSE Upserted(chroma[c][k], s[i].doc, s[i].meta)
      BY <1>1, <3>1, AppliedValue
    <3> QED BY <2>1, <2>3, <3>3, <3>4 DEF Upserted
  <2> QED BY <2>4, <2>5
<1> QED BY <1>2, <1>3

\* The batch is the first part of the journal, and the rest stays.
LEMMA BatchCut ==
  ASSUME TInv, NEW rest, rest = SubSeq(journal, Len(Batch) + 1, Len(journal))
  PROVE  Batch \in Seq(Entry) /\ rest \in Seq(Entry) /\ journal = Batch \o rest
<1> DEFINE n == IF Len(journal) < BatchLimit THEN Len(journal) ELSE BatchLimit
           N == Len(journal)
<1>1. journal \in Seq(Entry) /\ N \in Nat
  BY LenProperties DEF TInv, TypeOK
<1>2. n \in Nat /\ n <= N
  BY <1>1, LimitAssumption
<1>3. Batch = SubSeq(journal, 1, n) /\ Batch \in Seq(Entry) /\ rest \in Seq(Entry)
  BY <1>1, BatchType DEF Batch
<1> HIDE DEF n
<1>4. /\ Len(Batch) = n /\ \A i \in 1 .. n : Batch[i] = journal[i]
  BY <1>1, <1>2, <1>3
<1>5. Len(rest) = N - n /\ \A i \in 1 .. N - n : rest[i] = journal[n + i]
  BY <1>1, <1>2, <1>4
<1>13. ASSUME NEW a \in Seq(Entry), NEW b \in Seq(Entry),
             Len(a) = n, Len(b) = N - n
      PROVE  /\ a \o b \in Seq(Entry) /\ Len(a \o b) = N
             /\ \A i \in 1 .. N :
                  (a \o b)[i] = IF i <= n THEN a[i] ELSE b[i - n]
  <2>1. /\ a \o b \in Seq(Entry) /\ Len(a \o b) = Len(a) + Len(b)
        /\ \A i \in 1 .. Len(a) + Len(b) :
             (a \o b)[i] = IF i <= Len(a) THEN a[i] ELSE b[i - Len(a)]
    BY ConcatProperties
  <2>2. n + (N - n) = N
    BY <1>1, <1>2
  <2> QED BY <1>13, <2>1, <2>2
<1>6. /\ Batch \o rest \in Seq(Entry) /\ Len(Batch \o rest) = N
      /\ \A i \in 1 .. N :
           (Batch \o rest)[i] = IF i <= n THEN Batch[i] ELSE rest[i - n]
  BY <1>3, <1>4, <1>5, <1>13, Zenon
<1>7. ASSUME NEW i \in 1 .. N PROVE (Batch \o rest)[i] = journal[i]
  <2>1. (Batch \o rest)[i] = IF i <= n THEN Batch[i] ELSE rest[i - n]
    BY <1>6
  <2>2. CASE i <= n
    BY <1>2, <1>4, <2>1, <2>2
  <2>3. CASE ~(i <= n)
    <3>1. i - n \in 1 .. N - n /\ n + (i - n) = i
      BY <1>1, <1>2, <2>3
    <3> QED BY <1>5, <2>1, <2>3, <3>1
  <2> QED BY <2>2, <2>3
<1>8. journal = Batch \o rest
  BY <1>1, <1>6, <1>7, SeqEqual
<1> QED BY <1>3, <1>8

LEMMA ProcessColumn ==
  ASSUME TInv, TInv', Whole, Remembered, NEW t \in Threads, Process(t), ~drift',
         NEW c \in LongText(registry), Column(c)
  PROVE  Column(c)'
<1>1. PICK s \in Seq(Entry), u \in Seq(Entry) :
        s = Batch /\ journal = s \o u /\ journal' = u
  BY BatchCut DEF Process
<1>2. /\ chroma' = ChromaAfter(s) /\ ~Loses(s) /\ ~PassesOver(s)
      /\ table' = table /\ registry' = registry /\ had' = had /\ c \in Col
  BY <1>1 DEF Process, sqlite, LongText
<1>3. \A r : Meta(r)' = Meta(r)
  BY <1>2 DEF Meta
<1>4. /\ Len(s) \in Nat
      /\ \A j \in DOMAIN u : /\ Len(s) + j \in DOMAIN journal
                             /\ journal[Len(s) + j] = u[j]
                             /\ MetaAfter(journal, c, Len(s) + j) <=>
                                  MetaAfter(u, c, j)
  BY <1>1, Concatenated, MetaOfConcat
<1>5. EntriesName(c)'
  <2> SUFFICES ASSUME NEW k \in PK, NEW j \in Matching(u, c, k),
                      ~MetaAfter(u, c, j)
               PROVE  u[j].meta \subseteq had[k]
    BY <1>1, <1>2 DEF EntriesName
  <2>1. j \in DOMAIN u /\ Len(s) + j \in Matching(journal, c, k)
    BY <1>4 DEF Matching
  <2> QED BY <1>4, <2>1 DEF Column, EntriesName
<1>6. VectorsName(c)'
  <2> SUFFICES ASSUME ~MetaPending(u, c), NEW k \in PK,
                      ChromaAfter(s)[c][k] # NoVec
               PROVE  ChromaAfter(s)[c][k].meta \subseteq had[k]
    BY <1>1, <1>2 DEF VectorsName
  <2>1. MetaPending(s, c) => table.rows[k] # NoRow
    BY <1>2 DEF PassesOver
  <2> QED BY <1>1, <1>2, <2>1, NamesAfterBatch
<1>7. ASSUME NEW k \in PK PROVE RowFollows(c, k)'
  <2> DEFINE row == table.rows[k]
  <2>1. ASSUME NEW j \in Last(u, c, k)
        PROVE  EntryFollows(c, j, table.rows[k])'
    <3>1. j \in Matching(u, c, k) /\ j \in DOMAIN u
      BY <2>1 DEF Last, Matching
    <3>2. Len(s) + j \in Last(journal, c, k)
      BY <1>1, <2>1, <3>1, LastOfConcat
    <3>3. EntryFollows(c, Len(s) + j, row)
      BY <3>2 DEF Column, RowFollows
    <3> QED BY <1>1, <1>2, <1>3, <1>4, <3>1, <3>3 DEF EntryFollows
  <2>2. ASSUME Matching(u, c, k) = {}
        PROVE  VectorFollows(c, chroma[c][k], table.rows[k])'
    <3> DEFINE v == ChromaAfter(s)[c][k]
    <3>1. IF row = NoRow THEN v = NoVec
          ELSE IF v = NoVec THEN row[c] = Null \/ MetaPending(u, c)
          ELSE /\ v.doc = row[c]
               /\ MetaPending(u, c) \/ Meta(row) \subseteq v.meta
      <4>1. Matching(u, c, k) = {} /\ journal = s \o u /\ ~Loses(s)
        BY <1>1, <1>2, <2>2
      <4> QED BY <4>1, AfterBatch
    <3>2. /\ journal' = u /\ row' = row /\ Meta(row)' = Meta(row)
          /\ chroma'[c][k] = ChromaAfter(s)[c][k]
      BY <1>1, <1>2, <1>3
    <3> QED BY <3>1, <3>2 DEF VectorFollows
  <2> QED BY <1>1, <2>1, <2>2 DEF RowFollows
<1> QED BY <1>5, <1>6, <1>7 DEF Column

\* What the invariant says of the end of the journal.
LEMMA VInvFollows ==
  ASSUME TInv, ColumnsFollow
  PROVE  VectorsFollow /\ MetadataFollows
<1> SUFFICES ASSUME ~drift, ~Loses(journal), NEW c \in LongText(registry),
                    NEW k \in PK
             PROVE  LET v   == ChromaAfter(journal)[c][k]
                        row == table.rows[k] IN
                    IF row = NoRow THEN v = NoVec
                    ELSE /\ row[c] # Null => v # NoVec
                         /\ v # NoVec => /\ v.doc = row[c]
                                         /\ v.meta \ Lost(k) = Meta(row)
                                         /\ v.meta \subseteq Filterable(registry)
  BY DEF VectorsFollow, MetadataFollows, Filterable
<1>1. Whole /\ Remembered /\ Column(c)
  BY DEF ColumnsFollow
<1>2. /\ journal \in Seq(Entry) /\ journal = journal \o <<>>
      /\ <<>> \in Seq(Entry) /\ Matching(<<>>, c, k) = {} /\ ~MetaPending(<<>>, c)
  BY NoEntries, ConcatEmptySeq DEF TInv, TypeOK
<1> DEFINE v   == ChromaAfter(journal)[c][k]
           row == table.rows[k]
<1>3. IF row = NoRow THEN v = NoVec
      ELSE IF v = NoVec THEN row[c] = Null
      ELSE v.doc = row[c] /\ Meta(row) \subseteq v.meta
  BY <1>1, <1>2, AfterBatch
<1>4. row # NoRow /\ v # NoVec => v.meta \subseteq had[k]
  BY <1>1, <1>2, NamesAfterBatch
<1>5. had[k] \subseteq Filterable(registry)
  BY <1>1 DEF Remembered
<1>6. row # NoRow => Lost(k) = had[k] \ Meta(row)
  BY DEF Lost, Names
<1> HIDE DEF v, row
<1> QED BY <1>3, <1>4, <1>5, <1>6 DEF v, row

-----------------------------------------------------------------------------
(***************************************************************************)
(* Rows that are numbered anew and are under the same keys as before are   *)
(* where they were.                                                        *)
(***************************************************************************)
UpTo(rows, p) == {q \in Present(rows) : q <= p}

LEMMA Keys ==
  \A p \in PK : /\ p \in Nat /\ 1 <= p
               /\ \A q \in Nat : 1 <= q /\ q <= p => q \in PK
<1> DEFINE n == Cardinality(PK)
<1>1. n \in Nat /\ PK = 1 .. n
  BY KeyAssumption, FS_CardinalityType
<1> HIDE DEF n
<1> QED BY <1>1

LEMMA RankRises ==
  ASSUME NEW rows, NEW p \in Present(rows)
  PROVE  /\ p \in Nat /\ Cardinality(UpTo(rows, p)) \in Nat
         /\ Cardinality(UpTo(rows, p)) <= p
         /\ \A q \in PK : q < p =>
              Cardinality(UpTo(rows, q)) < Cardinality(UpTo(rows, p))
<1>1. /\ Present(rows) \subseteq PK /\ p \in PK
      /\ \A q \in PK : q \in Nat /\ 1 <= q
  BY Keys DEF Present
<1>2. UpTo(rows, p) \subseteq 1 .. p
  BY <1>1 DEF UpTo
<1>3. IsFiniteSet(1 .. p) /\ Cardinality(1 .. p) = p
  BY <1>1, FS_Interval
<1>4. /\ IsFiniteSet(UpTo(rows, p)) /\ Cardinality(UpTo(rows, p)) <= p
  BY <1>2, <1>3, FS_Subset
<1>5. Cardinality(UpTo(rows, p)) \in Nat
  BY <1>4, FS_CardinalityType
<1>6. ASSUME NEW q \in PK, q < p
      PROVE  Cardinality(UpTo(rows, q)) < Cardinality(UpTo(rows, p))
  <2>1. UpTo(rows, q) \subseteq UpTo(rows, p) /\ p \in UpTo(rows, p)
        /\ p \notin UpTo(rows, q)
    BY <1>1, <1>6 DEF UpTo
  <2>2. /\ Cardinality(UpTo(rows, q)) <= Cardinality(UpTo(rows, p))
        /\ Cardinality(UpTo(rows, q)) # Cardinality(UpTo(rows, p))
        /\ IsFiniteSet(UpTo(rows, q))
    BY <1>4, <2>1, FS_Subset
  <2>3. Cardinality(UpTo(rows, q)) \in Nat
    BY <2>2, FS_CardinalityType
  <2> QED BY <1>5, <2>2, <2>3
<1> QED BY <1>1, <1>4, <1>5, <1>6

LEMMA RenumberedSame ==
  ASSUME NEW rows \in Rows, Present(Renumbered(rows)) = Present(rows)
  PROVE  Renumbered(rows) = rows
<1> DEFINE P == Present(rows)
           r(p) == Cardinality(UpTo(rows, p))
           Nth(k) == {p \in P : r(p) = k}
<1>1. CASE ~mix.implicit
  BY <1>1 DEF Renumbered
<1>2. CASE mix.implicit
  <2>1. Renumbered(rows) =
          [k \in PK |-> IF Nth(k) = {} THEN NoRow
                        ELSE rows[CHOOSE p \in PK : p \in Nth(k)]]
    BY <1>2 DEF Renumbered, UpTo
  <2>2. P \subseteq PK /\ PK \subseteq Nat /\ \A p \in P : rows[p] # NoRow
    BY Keys DEF Present
  <2>3. \A p \in P : /\ r(p) \in Nat /\ r(p) <= p
                     /\ \A q \in PK : q < p => r(q) < r(p)
    BY RankRises
  <2> HIDE DEF r
  <2>4. ASSUME NEW k \in PK, Nth(k) # {}
        PROVE  k \in P
    <3>1. (CHOOSE p \in PK : p \in Nth(k)) \in Nth(k)
      BY <2>2, <2>4
    <3>2. Renumbered(rows)[k] # NoRow
      BY <2>1, <2>2, <2>4, <3>1
    <3> QED BY <3>2 DEF Present
  <2>5. \A p \in P : r(p) = p
    <3> DEFINE W == {p \in P : r(p) # p}
    <3> SUFFICES ASSUME W # {} PROVE FALSE
      OBVIOUS
    <3>1. W \subseteq Nat
      BY <2>2
    <3>2. PICK p \in W : \A q \in W : ~(q < p)
      <4>1. \A q, p \in Nat : <<q, p>> \in OpToRel(<, Nat) <=> q < p
        BY DEF OpToRel
      <4> HIDE DEF W
      <4>2. PICK p \in W : \A q \in W : <<q, p>> \notin OpToRel(<, Nat)
        BY <3>1, NatLessThanWellFounded, WFMin
      <4> QED BY <3>1, <4>1, <4>2
    <3>3. /\ p \in P /\ r(p) \in Nat /\ r(p) < p
          /\ \A q \in PK : q < p => r(q) < r(p)
      <4>1. p \in P /\ r(p) # p /\ p \in PK
        BY <2>2, <3>2
      <4>2. p \in Nat
        BY <4>1, Keys
      <4> HIDE DEF P
      <4>3. r(p) \in Nat /\ r(p) <= p /\ \A q \in PK : q < p => r(q) < r(p)
        BY <2>3, <4>1
      <4> QED BY <4>1, <4>2, <4>3
    <3>4. r(p) \in PK
      <4>0. p \in PK /\ p \in Nat
        BY <2>2, <3>3, Keys
      <4>1. p \in UpTo(rows, p) /\ UpTo(rows, p) \subseteq PK
        BY <2>2, <3>3, <4>0 DEF UpTo
      <4>2. IsFiniteSet(UpTo(rows, p))
        BY <4>1, KeyAssumption, FS_Subset
      <4>3. r(p) # 0
        BY <4>1, <4>2, FS_EmptySet DEF r
      <4>4. r(p) <= p /\ 1 <= r(p)
        BY <3>3, <4>0, <4>3
      <4> QED BY <3>3, <4>0, <4>4, Keys
    <3>5. r(p) \in P
      BY <2>4, <3>3, <3>4
    <3>6. r(p) \notin W
      BY <3>2, <3>3
    <3>7. r(r(p)) = r(p) /\ r(r(p)) < r(p)
      BY <3>3, <3>4, <3>5, <3>6
    <3> QED BY <3>3, <3>7
  <2>6. ASSUME NEW k \in PK PROVE Renumbered(rows)[k] = rows[k]
    <3>1. CASE k \in P
      <4>1. Nth(k) = {k}
        BY <2>5, <3>1
      <4> QED BY <2>1, <4>1
    <3>2. CASE k \notin P
      <4>1. Nth(k) = {} /\ rows[k] = NoRow
        BY <2>5, <3>2 DEF Present
      <4> QED BY <2>1, <4>1
    <3> QED BY <3>1, <3>2
  <2> QED BY <2>1, <2>6 DEF Rows
<1> QED BY <1>1, <1>2

-----------------------------------------------------------------------------
(***************************************************************************)
(* Each step keeps the columns.                                            *)
(***************************************************************************)
Settled == Shaped /\ ColumnsFollow

LEMMA StillColumn ==
  ASSUME TInv, TInv', NEW c \in Col, Column(c), journal' = journal,
         chroma'[c] = chroma[c],
         \A k \in PK : /\ table'.rows[k] = NoRow <=> table.rows[k] = NoRow
                       /\ table.rows[k] # NoRow =>
                            table'.rows[k][c] = table.rows[k][c],
         had' = had,
         \A k \in PK : table.rows[k] # NoRow =>
           Meta(table.rows[k])' \subseteq Meta(table.rows[k])
  PROVE  Column(c)'
<1>1. /\ <<>> \in Seq(Entry) /\ journal' = journal \o <<>>
      /\ \A i \in DOMAIN <<>> : <<>>[i].op = "meta_update"
  BY NoEntries, ConcatEmptySeq DEF TInv, TypeOK
<1> QED BY <1>1, KeptColumn

\* What is remembered is enough while rows do not get names.
LEMMA StillRemembered ==
  ASSUME Remembered, had' = had,
         Filterable(registry) \subseteq Filterable(registry'),
         \A k \in PK : Names(table.rows[k])' \subseteq Names(table.rows[k])
  PROVE  Remembered'
<1> SUFFICES ASSUME NEW k \in PK
             PROVE  /\ Names(table.rows[k])' \subseteq had[k]
                    /\ had[k] \subseteq Filterable(registry')
  BY DEF Remembered
<1>1. /\ Names(table.rows[k]) \subseteq had[k]
      /\ had[k] \subseteq Filterable(registry)
  BY DEF Remembered
<1> QED BY <1>1

\* ... and when metadata are made anew.
LEMMA AnewRemembered ==
  ASSUME MadeAnew PROVE Remembered'
<1>1. \A k \in PK : had'[k] = Names(table.rows[k])'
  BY DEF MadeAnew, NamesNow
<1>2. \A k \in PK : Names(table.rows[k])' \subseteq Filterable(registry')
  BY DEF Names, Meta, Filterable
<1> QED BY <1>1, <1>2 DEF Remembered

\* Nothing that the invariant is about has changed.
LEMMA NothingChanges ==
  ASSUME Settled, UNCHANGED <<table, registry, journal, chroma, drift, had>>
  PROVE  Settled'
  BY DEF Settled, Shaped, ColumnsFollow, Whole, Column, EntriesName, VectorsName,
         RowFollows, EntryFollows, VectorFollows, Meta, Remembered, Names

LEMMA WriteRowSettled ==
  ASSUME TInv, TInv', Settled, NEW t \in Threads, NEW k \in PK,
         NEW row \in Row \cup {NoRow},
         NEW op \in {"add", "update", "delete"},
         op = "delete" <=> row = NoRow, WriteRow(t, op, k, row),
         row # NoRow => \A c \in Col : row[c] # Null => c \in table.cols
  PROVE  Settled'
<1>1. /\ table' = [table EXCEPT !.rows[k] = row]
      /\ registry' = registry /\ drift' = drift
  BY DEF WriteRow, flaws
<1>2. /\ table'.there = table.there /\ table'.cols = table.cols
      /\ table'.rows[k] = row
      /\ \A p \in PK : p # k => table'.rows[p] = table.rows[p]
  BY <1>1 DEF TInv, TypeOK, Table, Rows
<1>3. Shaped'
  BY <1>2 DEF Settled, Shaped
<1>4. ColumnsFollow'
  <2> SUFFICES ASSUME ~drift
               PROVE  /\ Whole' /\ Remembered'
                      /\ \A c \in LongText(registry) : Column(c)'
    BY <1>1 DEF ColumnsFollow
  <2>1. Whole' /\ Remembered /\ \A c \in LongText(registry) : Column(c)
    BY <1>1, <1>2 DEF Settled, ColumnsFollow, Whole
  <2>2. /\ Names(row) \subseteq had'[k] /\ had'[k] \subseteq had[k] \cup Names(row)
        /\ \A p \in PK : p # k => had'[p] = had[p]
    BY DEF WriteRow, TInv, TypeOK
  <2>3. /\ Names(row) \subseteq Filterable(registry)
        /\ \A r : Names(r)' = Names(r)
    BY <1>1 DEF Names, Meta, Filterable
  <2>4. ASSUME NEW p \in PK
        PROVE  /\ Names(table'.rows[p]) \subseteq had'[p]
               /\ had'[p] \subseteq Filterable(registry)
    <3>1. CASE p = k
      BY <1>2, <2>1, <2>2, <2>3, <3>1 DEF Remembered
    <3>2. CASE p # k
      BY <1>2, <2>1, <2>2, <3>2 DEF Remembered
    <3> QED BY <3>1, <3>2
  <2>5. Remembered'
    BY <1>1, <2>3, <2>4 DEF Remembered
  <2> QED BY <2>1, <2>5, WriteRowColumn
<1> QED BY <1>3, <1>4 DEF Settled

LEMMA RowOpsSettled ==
  ASSUME TInv, TInv', Settled, NEW t \in Threads,
         \/ \E k \in mix.keys, row \in Row : Insert(t, k, row)
         \/ \E k \in mix.keys, c \in Col, d \in mix.docs : Update(t, k, c, d)
         \/ \E k \in mix.keys : Delete(t, k)
  PROVE  Settled'
<1>1. ASSUME NEW k \in mix.keys, NEW row \in Row, Insert(t, k, row)
      PROVE  Settled'
  <2>1. k \in PK /\ row # NoRow
    BY MixType, NullAssumption
  <2>2. WriteRow(t, "add", k, row) /\ Writable(row)
    BY <1>1 DEF Insert
  <2> QED BY <2>1, <2>2, WriteRowSettled DEF Writable
<1>2. ASSUME NEW k \in mix.keys, NEW c \in Col, NEW d \in mix.docs,
             Update(t, k, c, d)
      PROVE  Settled'
  <2> DEFINE row == [table.rows[k] EXCEPT ![c] = d]
  <2>1. k \in PK /\ d \in Doc \cup {Null}
    BY MixType
  <2>2. table.rows[k] \in Row /\ table.rows[k] # NoRow
    BY <1>2, <2>1 DEF Update, TInv, TypeOK, Table, Rows
  <2>3. row \in Row /\ \A e \in Col : e # c => row[e] = table.rows[k][e]
    BY <2>1, <2>2 DEF Row
  <2>4. c \in table.cols /\ WriteRow(t, "update", k, row)
    BY <1>2 DEF Update
  <2>5. \A e \in Col : row[e] # Null => e \in table.cols
    BY <2>1, <2>2, <2>3, <2>4 DEF Settled, Shaped
  <2>6. row # NoRow
    BY <2>3, NullAssumption
  <2> HIDE DEF row
  <2> QED BY <2>1, <2>3, <2>4, <2>5, <2>6, WriteRowSettled
<1>3. ASSUME NEW k \in mix.keys, Delete(t, k)
      PROVE  Settled'
  <2>1. k \in PK /\ WriteRow(t, "delete", k, NoRow)
    BY <1>3, MixType DEF Delete
  <2> QED BY <2>1, WriteRowSettled
<1> QED BY <1>1, <1>2, <1>3

LEMMA ProcessSettled ==
  ASSUME TInv, TInv', Settled, NEW t \in Threads, Process(t)
  PROVE  Settled'
<1>1. /\ UNCHANGED <<table, registry, had>>
      /\ drift' = (drift \/ Loses(Batch) \/ PassesOver(Batch))
  BY DEF Process, sqlite
<1>2. Shaped'
  BY <1>1 DEF Settled, Shaped
<1>3. ColumnsFollow'
  <2> SUFFICES ASSUME ~drift'
               PROVE  /\ Whole' /\ Remembered'
                      /\ \A c \in LongText(registry) : Column(c)'
    BY <1>1 DEF ColumnsFollow
  <2>1. Whole /\ Remembered /\ \A c \in LongText(registry) : Column(c)
    BY <1>1 DEF Settled, ColumnsFollow
  <2>2. Whole' /\ Remembered'
    BY <1>1, <2>1 DEF Whole, Remembered, Names, Meta
  <2> QED BY <2>1, <2>2, ProcessColumn
<1> QED BY <1>2, <1>3 DEF Settled

\* A new column of the table, of which nothing is left behind.
LEMMA FreshColumn ==
  ASSUME TInv, TInv', Shaped', NEW c \in Col, ~Leftover(c),
         journal' = journal, chroma' = chroma,
         \A k \in PK : table'.rows[k] # NoRow => table'.rows[k][c] = Null
  PROVE  Column(c)'
<1>1. Pending(c)' = {} /\ \A k \in PK : chroma'[c][k] = NoVec
  BY DEF Leftover, Pending
<1>2. VectorsName(c)'
  BY <1>1 DEF VectorsName
<1>3. \A k \in PK : VectorFollows(c, chroma[c][k], table.rows[k])'
  BY <1>1 DEF VectorFollows
<1> QED BY <1>1, <1>2, <1>3, NewColumn

LEMMA AddSettled ==
  ASSUME TInv, TInv', Settled, NEW t \in Threads, Add(t) \/ AddHalf(t)
  PROVE  Settled'
<1>0. PICK c \in Col, kind \in Kind :
        c = local[t].change.col /\ kind = local[t].change.kind
  BY HeldChange
<1>1. CASE Add(t) /\ (~table.there \/ c \in table.cols)
  BY <1>0, <1>1, NothingChanges DEF Add, Raise, sqlite, flaws
<1>2. CASE ~(Add(t) /\ (~table.there \/ c \in table.cols))
  <2>1. /\ c \in Col /\ c \notin table.cols
        /\ table' = [table EXCEPT !.cols = @ \cup {c}]
        /\ journal' = journal /\ chroma' = chroma /\ had' = had
    BY <1>0, <1>2 DEF Add, AddHalf
  <2>2. /\ table'.there = table.there /\ table'.rows = table.rows
        /\ table'.cols = table.cols \cup {c}
    BY <2>1 DEF TInv, TypeOK, Table
  <2>3. \/ registry' = registry /\ drift' = drift
        \/ /\ registry' = [local[t].meta EXCEPT ![c] = kind]
           /\ drift' = (\/ drift \/ Overlapped(t)
                        \/ kind = "LONGTEXT" /\ Leftover(c))
    BY <1>0, <1>2 DEF Add, AddHalf, flaws
  <2>4. Shaped' /\ \A k \in PK : table'.rows[k] # NoRow =>
                                   table'.rows[k][c] = Null
    BY <2>1, <2>2 DEF Settled, Shaped
  <2>5. ASSUME ~drift'
        PROVE  /\ Whole' /\ Remembered'
               /\ \A d \in LongText(registry') : Column(d)'
    <3>1. /\ Whole /\ Remembered /\ \A d \in LongText(registry) : Column(d)
          /\ \/ registry' = registry
             \/ /\ registry' = [registry EXCEPT ![c] = kind]
                /\ kind = "LONGTEXT" => ~Leftover(c)
      BY <2>3, <2>5 DEF Settled, ColumnsFollow, Overlapped
    <3>2. registry \in Registry /\ registry[c] = "none"
      BY <2>1, <3>1 DEF Whole, Named, TInv, TypeOK
    <3>3. \A d \in Col : d # c => registry'[d] = registry[d]
      BY <3>1, <3>2 DEF Registry
    <3>4. Whole'
      BY <2>2, <3>1, <3>3 DEF Whole, Named
    <3>5. Filterable(registry) \subseteq Filterable(registry')
      BY <3>2, <3>3 DEF Filterable
    <3>6. \A k \in PK : table.rows[k] # NoRow =>
            Meta(table.rows[k])' \subseteq Meta(table.rows[k])
      BY <2>2, <2>4, <3>3 DEF Meta
    <3>7. ASSUME NEW d \in LongText(registry'), d # c PROVE Column(d)'
      <4>1. d \in Col /\ Column(d)
        BY <3>1, <3>3, <3>7 DEF LongText
      <4> QED BY <2>1, <2>2, <3>6, <4>1, StillColumn
    <3>8. ASSUME c \in LongText(registry') PROVE Column(c)'
      <4>1. ~Leftover(c)
        BY <3>1, <3>2, <3>8 DEF LongText, Registry
      <4> QED BY <2>1, <2>4, <4>1, FreshColumn
    <3>9. Remembered'
      <4>1. \A k \in PK : Names(table.rows[k])' \subseteq Names(table.rows[k])
        BY <2>2, <3>6 DEF Names
      <4> QED BY <2>1, <3>1, <3>5, <4>1, StillRemembered
    <3> QED BY <3>4, <3>7, <3>8, <3>9
  <2> QED BY <2>4, <2>5 DEF Settled, ColumnsFollow
<1> QED BY <1>1, <1>2

LEMMA DropSettled ==
  ASSUME TInv, TInv', Settled, NEW t \in Threads, Drop(t)
  PROVE  Settled'
<1>1. CASE ~CanMove
  BY <1>1, NothingChanges DEF Drop, Raise, sqlite, flaws
<1>2. CASE CanMove
  <2>1. PICK c \in Col : c = local[t].change.col
    BY HeldChange
  <2>2. /\ table' = Copied(t)
        /\ registry' = [local[t].meta EXCEPT ![c] = "none"]
        /\ MetaUpdates(registry')
        /\ chroma' = Cleared(t) \/ chroma' = chroma
        /\ drift' = (\/ drift \/ Overlapped(t)
                     \/ Present(table'.rows) # Present(table.rows))
    BY <1>2, <2>1 DEF Drop
  <2> DEFINE new == Renumbered(table.rows)
  <2>3. PICK C \in SUBSET Col : C = Kept(t)
    BY HeldChange
  <2>4. new \in Rows
    BY RenumberedType DEF TInv, TypeOK, Table
  <2>5. /\ table'.there /\ table'.cols = C
        /\ \A k \in PK : table'.rows[k] =
             IF new[k] = NoRow THEN NoRow
             ELSE [e \in Col |-> IF e \in C THEN new[k][e] ELSE Null]
    BY <2>2, <2>3 DEF Copied
  <2>6. \A k \in PK : new[k] # NoRow =>
          /\ table'.rows[k] # NoRow
          /\ \A e \in Col : table'.rows[k][e] =
                              IF e \in C THEN new[k][e] ELSE Null
    <3> SUFFICES ASSUME NEW k \in PK, new[k] # NoRow
                 PROVE  /\ table'.rows[k] # NoRow
                        /\ \A e \in Col : table'.rows[k][e] =
                                            IF e \in C THEN new[k][e] ELSE Null
      OBVIOUS
    <3> DEFINE r == [e \in Col |-> IF e \in C THEN new[k][e] ELSE Null]
    <3>1. new[k] \in Row
      BY <2>4 DEF Rows
    <3> HIDE DEF new
    <3>2. r \in Row
      BY <3>1 DEF Row
    <3>3. table'.rows[k] = r
      BY <2>5
    <3> QED BY <3>2, <3>3, NullAssumption
  <2> HIDE DEF new
  <2>7. Shaped'
    BY <2>5, <2>6 DEF Shaped
  <2>8. ASSUME ~drift'
        PROVE  /\ Whole' /\ Remembered'
               /\ \A d \in LongText(registry') : Column(d)'
    <3>1. /\ Whole /\ \A d \in LongText(registry) : Column(d)
          /\ registry' = [registry EXCEPT ![c] = "none"]
          /\ C = Named(registry) \ {c}
          /\ Present(table'.rows) = Present(table.rows)
      BY <2>1, <2>2, <2>3, <2>8 DEF Settled, ColumnsFollow, Overlapped, Kept
    <3>2. registry' \in Registry /\ registry \in Registry
      BY DEF TInv, TypeOK
    <3>3. /\ registry'[c] = "none"
          /\ \A d \in Col : d # c => registry'[d] = registry[d]
      BY <3>1, <3>2 DEF Registry
    <3>4. Whole'
      BY <2>5, <3>1, <3>3 DEF Whole, Named
    <3>5. new = table.rows
      <4>1. Present(new) = Present(table.rows)
        BY <2>5, <2>6, <3>1 DEF Present
      <4>2. table.rows \in Rows
        BY DEF TInv, TypeOK, Table
      <4> QED BY <4>1, <4>2, RenumberedSame DEF new
    <3>6. PICK m \in Seq(Entry) :
            /\ journal' = journal \o m
            /\ \A i \in DOMAIN m : m[i].op = "meta_update"
            /\ \A d \in LongText(registry') : MetaPending(m, d)
      BY <2>2, MetaUpdatesAll
    <3>7. ASSUME NEW d \in LongText(registry') PROVE Column(d)'
      <4>1. d \in Col /\ d # c /\ d \in C /\ Column(d)
        BY <3>1, <3>3 DEF LongText, Named
      <4>2. chroma'[d] = chroma[d]
        BY <2>1, <2>2, <4>1 DEF Cleared, TInv, TypeOK
      <4>3. \A k \in PK : /\ table'.rows[k] = NoRow <=> table.rows[k] = NoRow
                          /\ table.rows[k] # NoRow =>
                               table'.rows[k][d] = table.rows[k][d]
        BY <2>5, <2>6, <3>5, <4>1
      <4>4. MetaPending(m, d)
        BY <3>6
      <4> QED BY <3>6, <4>1, <4>2, <4>3, <4>4, KeptColumn
    <3>8. Remembered'
      BY <2>2, AnewRemembered DEF MetaUpdates
    <3> QED BY <3>4, <3>7, <3>8
  <2> QED BY <2>7, <2>8 DEF Settled, ColumnsFollow
<1> QED BY <1>1, <1>2

\* A column that is renamed takes its place in every row.
LEMMA RenamedRows ==
  ASSUME TInv, NEW t \in Threads, NEW c \in Col, NEW d \in Col,
         c = local[t].change.col, d = local[t].change.to,
         CanRename(t), table' = Renamed(t)
  PROVE  /\ c # d /\ c \in table.cols /\ d \notin table.cols
         /\ table'.there /\ table'.cols = (table.cols \ {c}) \cup {d}
         /\ \A k \in PK :
              /\ table'.rows[k] = NoRow <=> table.rows[k] = NoRow
              /\ table.rows[k] # NoRow =>
                   /\ table'.rows[k][d] = table.rows[k][c]
                   /\ table'.rows[k][c] = Null
                   /\ \A e \in Col \ {c, d} :
                        table'.rows[k][e] = table.rows[k][e]
<1>1. /\ c \in table.cols /\ d \notin table.cols /\ table.there
      /\ table \in Table
  BY DEF CanRename, TInv, TypeOK
<1>2. /\ table'.there = table.there
      /\ table'.cols = (table.cols \ {c}) \cup {d}
      /\ table'.rows = [k \in PK |-> LET row == table.rows[k] IN
                          IF row = NoRow THEN NoRow
                          ELSE [row EXCEPT ![d] = row[c], ![c] = Null]]
  BY <1>1 DEF Renamed, Table
<1>3. ASSUME NEW k \in PK, table.rows[k] # NoRow
      PROVE  /\ table'.rows[k] # NoRow
             /\ table'.rows[k][d] = table.rows[k][c]
             /\ table'.rows[k][c] = Null
             /\ \A e \in Col \ {c, d} : table'.rows[k][e] = table.rows[k][e]
  <2> DEFINE row == table.rows[k]
             r == [row EXCEPT ![d] = row[c], ![c] = Null]
  <2>1. row \in Row
    BY <1>1, <1>3 DEF Table, Rows
  <2>2. table'.rows[k] = r
    BY <1>2, <1>3
  <2> HIDE DEF row
  <2>3. r \in Row /\ r[d] = row[c] /\ r[c] = Null
        /\ \A e \in Col \ {c, d} : r[e] = row[e]
    BY <1>1, <2>1 DEF Row
  <2> HIDE DEF r
  <2> QED BY <2>2, <2>3, NullAssumption DEF row
<1>4. \A k \in PK : table.rows[k] = NoRow => table'.rows[k] = NoRow
  BY <1>2
<1> QED BY <1>1, <1>2, <1>3, <1>4

LEMMA RenamedShaped ==
  ASSUME TInv, Shaped, NEW t \in Threads, CanRename(t), table' = Renamed(t)
  PROVE  Shaped'
<1>1. PICK c \in Col, d \in Col :
        c = local[t].change.col /\ d = local[t].change.to
  BY HeldChange
<1>2. /\ c # d /\ table'.cols = (table.cols \ {c}) \cup {d}
      /\ \A k \in PK :
           /\ table'.rows[k] = NoRow <=> table.rows[k] = NoRow
           /\ table.rows[k] # NoRow =>
                /\ table'.rows[k][c] = Null
                /\ \A e \in Col \ {c, d} : table'.rows[k][e] = table.rows[k][e]
  BY <1>1, RenamedRows
<1> QED BY <1>2 DEF Shaped

\* Its vectors are those of the old name, or none if the copy fails.
LEMMA CarriedColumn ==
  ASSUME TInv, TInv', NEW c \in Col, NEW d \in Col, c # d, Column(c),
         ~Leftover(d), \A i \in Pending(c) : chroma[c][journal[i].at] = NoVec,
         NEW m \in Seq(Entry), journal' = journal \o m,
         \A i \in DOMAIN m : m[i].op = "meta_update", MetaPending(m, d),
         chroma'[d] = chroma[d] \/ chroma'[d] = Carried(c, d),
         \A k \in PK :
           /\ table'.rows[k] = NoRow <=> table.rows[k] = NoRow
           /\ table.rows[k] # NoRow => table'.rows[k][d] = table.rows[k][c]
  PROVE  Column(d)'
<1>1. journal \in Seq(Entry)
  BY DEF TInv, TypeOK
<1>2. Pending(d)' = {}
  <2>1. \A i \in DOMAIN (journal \o m) :
          \/ i \in DOMAIN journal /\ (journal \o m)[i] = journal[i]
          \/ (journal \o m)[i].op = "meta_update"
    BY <1>1, Concatenated
  <2>2. Pending(d) = {}
    BY DEF Leftover
  <2> QED BY <2>1, <2>2 DEF Pending
<1>3. MetaPending(journal', d)
  BY <1>1, MetaOfConcat
<1>4. VectorsName(d)'
  BY <1>3 DEF VectorsName
<1>5. ASSUME NEW k \in PK PROVE VectorFollows(d, chroma[d][k], table.rows[k])'
  <2>1. chroma[d][k] = NoVec
    BY DEF Leftover
  <2>2. CASE chroma'[d][k] = NoVec
    BY <1>3, <2>2 DEF VectorFollows
  <2>3. CASE chroma'[d][k] # NoVec
    <3>1. /\ chroma[c][k] # NoVec
          /\ chroma'[d][k] =
               Upserted(chroma[d][k], chroma[c][k].doc, chroma[c][k].meta)
      BY <2>1, <2>3 DEF Carried
    <3>2. chroma'[d][k].doc = chroma[c][k].doc
      BY <3>1 DEF Upserted
    <3>3. Matching(journal, c, k) = {}
      BY <3>1 DEF Matching, Pending
    <3>4. VectorFollows(c, chroma[c][k], table.rows[k])
      BY <3>3 DEF Column, RowFollows
    <3> QED BY <1>3, <2>3, <3>1, <3>2, <3>4 DEF VectorFollows
  <2> QED BY <2>2, <2>3
<1> QED BY <1>2, <1>4, <1>5, NewColumn

LEMMA RenameSettled ==
  ASSUME TInv, TInv', Settled, NEW t \in Threads, Rename(t)
  PROVE  Settled'
<1>1. CASE ~CanRename(t)
  BY <1>1, NothingChanges DEF Rename, Raise, sqlite, flaws
<1>2. CASE CanRename(t)
  <2>1. PICK c \in Col, d \in Col :
          c = local[t].change.col /\ d = local[t].change.to
    BY HeldChange
  <2>2. /\ table' = Renamed(t) /\ MetaUpdates(registry') /\ Carry(t)
        /\ drift' = (drift \/ Overlapped(t) \/ Misses(t))
    BY <1>2 DEF Rename
  <2>3. PICK kind \in {local[t].meta[c], local[t].meta[d]} \ {"none"} :
          registry' = [local[t].meta EXCEPT ![c] = "none", ![d] = kind]
    BY <1>2, <2>1 DEF Rename, RenamedRegistry
  <2>4. Shaped'
    BY <1>2, <2>2, RenamedShaped DEF Settled
  <2>5. /\ c # d /\ c \in table.cols /\ d \notin table.cols
        /\ table'.there /\ table'.cols = (table.cols \ {c}) \cup {d}
        /\ \A k \in PK :
             /\ table'.rows[k] = NoRow <=> table.rows[k] = NoRow
             /\ table.rows[k] # NoRow =>
                  /\ table'.rows[k][d] = table.rows[k][c]
                  /\ \A e \in Col \ {c, d} :
                       table'.rows[k][e] = table.rows[k][e]
    BY <1>2, <2>1, <2>2, RenamedRows
  <2>6. ASSUME ~drift'
        PROVE  /\ Whole' /\ Remembered'
               /\ \A e \in LongText(registry') : Column(e)'
    <3>1. /\ Whole /\ \A e \in LongText(registry) : Column(e)
          /\ registry = local[t].meta /\ ~Misses(t)
      BY <2>2, <2>6 DEF Settled, ColumnsFollow, Overlapped
    <3>2. registry \in Registry /\ registry[d] = "none" /\ kind = registry[c]
      BY <2>3, <2>5, <3>1 DEF Whole, Named, TInv, TypeOK
    <3>3. /\ registry'[c] = "none" /\ registry'[d] = registry[c]
          /\ \A e \in Col \ {c, d} : registry'[e] = registry[e]
      BY <2>3, <2>5, <3>1, <3>2 DEF Registry
    <3>4. Whole'
      BY <2>5, <3>1, <3>3 DEF Whole, Named
    <3>5. PICK m \in Seq(Entry) :
            /\ journal' = journal \o m
            /\ \A i \in DOMAIN m : m[i].op = "meta_update"
            /\ \A e \in LongText(registry') : MetaPending(m, e)
      BY <2>2, MetaUpdatesAll
    <3>6. /\ \A e \in Col \ {c, d} : chroma'[e] = chroma[e]
          /\ registry[c] = "LONGTEXT" =>
               chroma'[d] = chroma[d] \/ chroma'[d] = Carried(c, d)
      BY <2>1, <2>2, <2>5, <3>1 DEF Carry, TInv, TypeOK
    <3>7. ASSUME NEW e \in LongText(registry'), e # d PROVE Column(e)'
      <4>1. e \in Col \ {c, d} /\ Column(e) /\ MetaPending(m, e)
        BY <3>1, <3>3, <3>5, <3>7 DEF LongText
      <4>2. \A k \in PK : /\ table'.rows[k] = NoRow <=> table.rows[k] = NoRow
                          /\ table.rows[k] # NoRow =>
                               table'.rows[k][e] = table.rows[k][e]
        BY <2>5, <4>1
      <4> QED BY <3>5, <3>6, <4>1, <4>2, KeptColumn
    <3>8. ASSUME d \in LongText(registry') PROVE Column(d)'
      <4>1. /\ registry[c] = "LONGTEXT" /\ Column(c) /\ MetaPending(m, d)
        BY <3>1, <3>3, <3>5, <3>8 DEF LongText
      <4>2. /\ ~Leftover(d)
            /\ \A i \in Pending(c) : chroma[c][journal[i].at] = NoVec
        BY <2>1, <3>1, <4>1 DEF Misses
      <4>3. \A k \in PK :
              /\ table'.rows[k] = NoRow <=> table.rows[k] = NoRow
              /\ table.rows[k] # NoRow => table'.rows[k][d] = table.rows[k][c]
        BY <2>5
      <4> QED BY <2>5, <3>5, <3>6, <4>1, <4>2, <4>3, CarriedColumn
    <3>9. Remembered'
      BY <2>2, AnewRemembered DEF MetaUpdates
    <3> QED BY <3>4, <3>7, <3>8, <3>9
  <2> QED BY <2>4, <2>6 DEF Settled, ColumnsFollow
<1> QED BY <1>1, <1>2

\* A change that breaks off promises nothing but the shape of the rows.
LEMMA HalvesSettled ==
  ASSUME TInv, TInv', Settled, NEW t \in Threads, DropHalf(t) \/ RenameHalf(t)
  PROVE  Settled'
<1>1. CASE DropHalf(t)
  <2>1. drift' /\ \A k \in PK : table'.rows[k] = NoRow
    BY <1>1 DEF DropHalf, MovedAway, Gone, NoRows
  <2> QED BY <2>1 DEF Settled, Shaped, ColumnsFollow
<1>2. CASE RenameHalf(t)
  <2>1. drift' /\ Shaped'
    BY <1>2, RenamedShaped DEF RenameHalf, Settled
  <2> QED BY <2>1 DEF Settled, ColumnsFollow
<1> QED BY <1>1, <1>2

LEMMA CreateSettled ==
  ASSUME TInv, TInv', Settled, NEW t \in Threads, CreateTable(t)
  PROVE  Settled'
<1>1. /\ table' = Created /\ journal' = journal /\ chroma' = chroma
      /\ had' = had
      /\ \/ registry' = registry /\ drift' = drift
         \/ /\ registry' = mix.declared
            /\ drift' = (\/ drift
                         \/ ~(Named(registry') \subseteq table'.cols)
                         \/ \E c \in Col : Unforeseen(c))
  BY DEF CreateTable
<1>2. /\ table'.there
      /\ ~table.there => \A k \in PK : table'.rows[k] = NoRow
      /\ table.there => /\ table'.rows = table.rows
                        /\ table.cols \subseteq table'.cols
  BY <1>1 DEF Created, NoRows, TInv, TypeOK, Table
<1>3. Shaped'
  BY <1>2 DEF Settled, Shaped
<1>4. ASSUME ~drift'
      PROVE  /\ Whole' /\ Remembered'
             /\ \A c \in LongText(registry') : Column(c)'
  <2>1. /\ Whole /\ Remembered /\ \A c \in LongText(registry) : Column(c)
        /\ \/ registry' = registry
           \/ /\ registry' = mix.declared /\ \A c \in Col : ~Unforeseen(c)
              /\ Named(registry') \subseteq table'.cols
    BY <1>1, <1>4 DEF Settled, ColumnsFollow
  <2>2. /\ table'.rows = table.rows /\ table.cols \subseteq table'.cols
        /\ registry \in Registry
    BY <1>2, <2>1 DEF Whole, TInv, TypeOK
  <2>3. Whole'
    BY <1>2, <2>1, <2>2 DEF Whole
  <2>4. \A c \in Col : c \in table.cols => registry'[c] = registry[c]
    BY <2>1 DEF Unforeseen
  <2>5. \A c \in Col : registry[c] # "none" => registry'[c] = registry[c]
    BY <2>1, <2>4 DEF Whole, Named
  <2>6. Filterable(registry) \subseteq Filterable(registry')
    BY <2>5 DEF Filterable
  <2>7. \A k \in PK : table.rows[k] # NoRow =>
          Meta(table.rows[k])' \subseteq Meta(table.rows[k])
    BY <2>2, <2>4 DEF Meta, Settled, Shaped
  <2>8. ASSUME NEW c \in LongText(registry') PROVE Column(c)'
    <3>1. c \in Col
      BY DEF LongText
    <3>2. CASE registry[c] = "LONGTEXT"
      <4>1. Column(c)
        BY <2>1, <3>1, <3>2 DEF LongText
      <4> QED BY <1>1, <2>2, <2>7, <3>1, <4>1, StillColumn
    <3>3. CASE registry[c] # "LONGTEXT"
      <4>1. c \notin table.cols /\ ~Leftover(c)
        BY <2>1, <3>1, <3>3 DEF Unforeseen, LongText
      <4>2. \A k \in PK : table'.rows[k] # NoRow => table'.rows[k][c] = Null
        BY <2>2, <3>1, <4>1 DEF Settled, Shaped
      <4> QED BY <1>1, <1>3, <3>1, <4>1, <4>2, FreshColumn
    <3> QED BY <3>2, <3>3
  <2>9. Remembered'
    <3>1. \A k \in PK : Names(table.rows[k])' \subseteq Names(table.rows[k])
      BY <2>2, <2>7 DEF Names
    <3> QED BY <1>1, <2>1, <2>6, <3>1, StillRemembered
  <2> QED BY <2>3, <2>8, <2>9
<1> QED BY <1>3, <1>4 DEF Settled, ColumnsFollow

LEMMA ReindexSettled ==
  ASSUME TInv, TInv', Settled, NEW t \in Threads,
         \/ StartReindex(t) \/ ReindexHalf(t)
         \/ \E c \in Col : ReindexRead(t, c)
         \/ ReindexWrite(t)
  PROVE  Settled'
<1>1. drift' /\ table' = table
  BY DEF StartReindex, ReindexHalf, ReindexRead, ReindexWrite, sqlite
<1> QED BY <1>1 DEF Settled, Shaped, ColumnsFollow

\* What a reindex has remade alone, with no entry pending, follows the rows.
LEMMA ReindexDoneSettled ==
  ASSUME TInv, TInv', Settled, NEW t \in Threads, ReindexSees(t), ReindexDone(t)
  PROVE  Settled'
<1>1. /\ UNCHANGED <<table, registry, journal, chroma>>
      /\ pc[t] = "reindex" /\ local[t].cols = {}
      /\ drift' = ~(/\ alone[t] /\ journal = <<>>
                    /\ table.there /\ Named(registry) \subseteq table.cols)
      /\ MadeAnew
  BY DEF ReindexDone, sqlite
<1>2. Shaped'
  BY <1>1 DEF Settled, Shaped
<1>3. ASSUME ~drift'
      PROVE  /\ Whole' /\ Remembered'
             /\ \A c \in LongText(registry') : Column(c)'
  <2>1. alone[t] /\ journal = <<>> /\ Whole
    BY <1>1, <1>3 DEF Whole
  <2>2. Whole' /\ Remembered'
    BY <1>1, <2>1, AnewRemembered DEF Whole
  <2>3. ASSUME NEW c \in LongText(registry) PROVE Column(c)'
    <3>1. c \in Col
      BY DEF LongText
    <3>2. \A k \in PK : chroma[c][k] = Remade(c, k)
      BY <1>1, <2>1 DEF ReindexSees
    <3>3. \A k \in PK : table.rows[k] # NoRow =>
            /\ chroma[c][k] # NoVec /\ chroma[c][k].doc = table.rows[k][c]
            /\ chroma[c][k].meta = Meta(table.rows[k])
      <4> SUFFICES ASSUME NEW k \in PK, table.rows[k] # NoRow
                   PROVE  /\ chroma[c][k] # NoVec
                          /\ chroma[c][k].doc = table.rows[k][c]
                          /\ chroma[c][k].meta = Meta(table.rows[k])
        OBVIOUS
      <4> DEFINE v == [doc |-> table.rows[k][c], meta |-> Meta(table.rows[k])]
      <4>1. table.rows[k] \in Row
        BY DEF TInv, TypeOK, Table, Rows
      <4>2. table.rows[k][c] \in Doc \cup {Null}
        BY <3>1, <4>1 DEF Row
      <4>3. v \in Vec
        BY <4>2, MetaType DEF Vec
      <4>4. chroma[c][k] = v
        BY <3>2 DEF Remade
      <4>5. v # NoVec /\ v.doc = table.rows[k][c] /\ v.meta = Meta(table.rows[k])
        BY <4>3, NullAssumption
      <4> QED BY <4>4, <4>5
    <3>4. \A k \in PK : table.rows[k] = NoRow => chroma[c][k] = NoVec
      BY <3>2 DEF Remade
    <3>5. Pending(c)' = {}
      BY <1>1, <2>1, NoEntries DEF Pending
    <3>6. \A r : Meta(r)' = Meta(r) /\ Names(r)' = Names(r)
      BY <1>1 DEF Meta, Names
    <3>9. \A k \in PK : table.rows[k] # NoRow => Meta(table.rows[k]) = had'[k]
      BY <1>1, <3>6 DEF MadeAnew, NamesNow, Names
    <3>7. VectorsName(c)'
      BY <1>1, <3>3, <3>4, <3>9 DEF VectorsName
    <3>8. \A k \in PK : VectorFollows(c, chroma[c][k], table.rows[k])'
      BY <1>1, <3>3, <3>4, <3>6 DEF VectorFollows
    <3> QED BY <3>1, <3>5, <3>7, <3>8, NewColumn
  <2> QED BY <1>1, <2>2, <2>3
<1> QED BY <1>2, <1>3 DEF Settled, ColumnsFollow

-----------------------------------------------------------------------------
(***************************************************************************)
(* What a reindex has done so far.                                         *)
(***************************************************************************)
\* A step ends what another thread could say of being alone.
LEMMA OthersSee ==
  ASSUME TInv, NEW t \in Threads, NEW step, NEW l, Goto(t, step, l),
         step \notin {"reindex", "reindex_write"} \/ ReindexSees(t)'
  PROVE  \A u \in Threads : ReindexSees(u)'
<1> SUFFICES ASSUME NEW u \in Threads PROVE ReindexSees(u)'
  OBVIOUS
<1>1. CASE u # t
  <2>1. ~alone'[u]
    BY <1>1 DEF Goto
  <2> QED BY <2>1 DEF ReindexSees
<1>2. CASE u = t
  <2>1. pc'[t] = step
    BY DEF Goto, TInv, TypeOK
  <2> QED BY <1>2, <2>1 DEF ReindexSees
<1> QED BY <1>1, <1>2

LEMMA ReindexReadSees ==
  ASSUME TInv, NEW t \in Threads, ReindexSees(t), NEW c \in Col,
         ReindexRead(t, c)
  PROVE  \A u \in Threads : ReindexSees(u)'
<1>1. CASE Return(t)
  BY <1>1, OthersSee DEF Return
<1>2. CASE ~Return(t)
  <2> DEFINE l == [local[t] EXCEPT !.change.col = c, !.rows = table.rows]
  <2>1. /\ Goto(t, "reindex_write", l) /\ pc[t] = "reindex"
        /\ c \in local[t].cols
        /\ chroma' = [chroma EXCEPT ![c] = NoVectors]
        /\ table' = table /\ registry' = registry
    BY <1>2 DEF ReindexRead, sqlite
  <2>2. l.change.col = c /\ l.rows = table.rows /\ l.cols = local[t].cols
    BY HeldChange DEF Local, Change
  <2>3. local'[t] = l /\ pc'[t] = "reindex_write" /\ (alone'[t] => alone[t])
    BY <2>1 DEF Goto, TInv, TypeOK
  <2> HIDE DEF l
  <2>4. /\ \A d \in Col : d # c => chroma'[d] = chroma[d]
        /\ \A k \in PK : chroma'[c][k] = NoVec
    BY <2>1 DEF NoVectors, TInv, TypeOK
  <2>5. \A d, k : Remade(d, k)' = Remade(d, k)
    BY <2>1 DEF Remade, Meta
  <2>6. ReindexSees(t)'
    <3>1. ASSUME alone'[t], NEW d \in LongText(registry) \ l.cols, NEW k \in PK
          PROVE  chroma'[d][k] = Remade(d, k)
      <4>1. d \in Col /\ d # c
        BY <2>1, <2>2 DEF LongText
      <4>2. chroma[d][k] = Remade(d, k)
        BY <2>1, <2>2, <2>3, <3>1 DEF ReindexSees
      <4> QED BY <2>4, <4>1, <4>2
    <3> QED BY <2>1, <2>2, <2>3, <2>4, <2>5, <3>1 DEF ReindexSees
  <2> QED BY <2>1, <2>6, OthersSee
<1> QED BY <1>1, <1>2

LEMMA ReindexWriteSees ==
  ASSUME TInv, NEW t \in Threads, ReindexSees(t), ReindexWrite(t)
  PROVE  \A u \in Threads : ReindexSees(u)'
<1>1. CASE Return(t)
  BY <1>1, OthersSee DEF Return
<1>2. CASE ~Return(t)
  <2>1. PICK c \in Col : c = local[t].change.col
    BY HeldChange
  <2> DEFINE l == [local[t] EXCEPT !.cols = @ \ {c}, !.rows = NoRows]
             rows == local[t].rows
  <2>2. /\ Goto(t, "reindex", l) /\ pc[t] = "reindex_write"
        /\ chroma' = [chroma EXCEPT ![c] = [k \in PK |->
             IF rows[k] = NoRow THEN chroma[c][k]
             ELSE Upserted(chroma[c][k], rows[k][c], Meta(rows[k]))]]
        /\ table' = table /\ registry' = registry
    BY <1>2, <2>1 DEF ReindexWrite, sqlite
  <2>3. l.cols = local[t].cols \ {c}
    BY HeldChange DEF Local
  <2>4. local'[t] = l /\ pc'[t] = "reindex" /\ (alone'[t] => alone[t])
    BY <2>2 DEF Goto, TInv, TypeOK
  <2> HIDE DEF l
  <2>5. /\ \A d \in Col : d # c => chroma'[d] = chroma[d]
        /\ \A k \in PK : chroma'[c][k] =
             IF rows[k] = NoRow THEN chroma[c][k]
             ELSE Upserted(chroma[c][k], rows[k][c], Meta(rows[k]))
    BY <2>2 DEF TInv, TypeOK
  <2>6. \A d, k : Remade(d, k)' = Remade(d, k)
    BY <2>2 DEF Remade, Meta
  <2>7. ReindexSees(t)'
    <3>1. ASSUME alone'[t], NEW d \in LongText(registry) \ l.cols, NEW k \in PK
          PROVE  chroma'[d][k] = Remade(d, k)
      <4>1. d \in Col /\ alone[t] /\ rows = table.rows
        BY <2>2, <2>4, <3>1 DEF LongText, ReindexSees
      <4>2. CASE d # c
        <5>1. chroma[d][k] = Remade(d, k)
          BY <2>2, <2>3, <4>1, <4>2 DEF ReindexSees
        <5> QED BY <2>5, <4>1, <4>2, <5>1
      <4>3. CASE d = c
        <5>1. chroma[c][k] = NoVec
          BY <2>1, <2>2, <4>1 DEF ReindexSees
        <5> QED BY <2>5, <4>1, <4>3, <5>1 DEF Remade, Upserted
      <4> QED BY <4>2, <4>3
    <3> QED BY <2>2, <2>4, <2>6, <3>1 DEF ReindexSees
  <2> QED BY <2>2, <2>7, OthersSee
<1> QED BY <1>1, <1>2

LEMMA StepSees ==
  ASSUME TInv, NEW t \in Threads, ReindexSees(t), Step(t)
  PROVE  \A u \in Threads : ReindexSees(u)'
<1>1. CASE \/ \E k \in mix.keys, row \in Row : Insert(t, k, row)
           \/ \E k \in mix.keys, c \in Col, d \in mix.docs : Update(t, k, c, d)
           \/ \E k \in mix.keys : Delete(t, k)
           \/ Process(t) \/ Add(t) \/ AddHalf(t) \/ Drop(t) \/ DropHalf(t)
           \/ Rename(t) \/ RenameHalf(t) \/ CreateTable(t)
           \/ ReindexHalf(t) \/ ReindexDone(t)
  <2>1. Return(t)
    BY <1>1 DEF Insert, Update, Delete, WriteRow, Process, Add, AddHalf, Drop,
                DropHalf, Rename, RenameHalf, CreateTable, ReindexHalf,
                ReindexDone, Raise
  <2> QED BY <2>1, OthersSee DEF Return
<1>2. ASSUME NEW change \in mix.changes, StartChange(t, change)
      PROVE  \A u \in Threads : ReindexSees(u)'
  <2>1. change.op \notin {"reindex", "reindex_write"}
    BY MixType DEF Change
  <2> QED BY <1>2, <2>1, OthersSee DEF StartChange
<1>3. CASE StartReindex(t)
  <2> DEFINE l == [Blank EXCEPT !.cols = LongText(registry)]
  <2>1. Goto(t, "reindex", l) /\ registry' = registry
    BY <1>3 DEF StartReindex
  <2>2. l.cols = LongText(registry)
    BY EmptyTypes DEF Local
  <2>3. local'[t] = l /\ pc'[t] = "reindex"
    BY <2>1 DEF Goto, TInv, TypeOK
  <2> HIDE DEF l
  <2>4. ReindexSees(t)'
    BY <2>1, <2>2, <2>3 DEF ReindexSees
  <2> QED BY <2>1, <2>4, OthersSee
<1> QED BY <1>1, <1>2, <1>3, ReindexReadSees, ReindexWriteSees DEF Step

-----------------------------------------------------------------------------
(***************************************************************************)
(* The invariant holds.                                                    *)
(***************************************************************************)
LEMMA InitVInv == Init => VInv
<1> SUFFICES ASSUME Init PROVE VInv
  OBVIOUS
<1>1. /\ table = [there |-> TRUE, cols |-> Named(registry), rows |-> NoRows]
      /\ journal = <<>> /\ chroma = [c \in Col |-> NoVectors]
      /\ pc = [t \in Threads |-> "idle"]
      /\ had = [k \in PK |-> {}]
  BY DEF Init
<1>2. \A k \in PK : table.rows[k] = NoRow
  BY <1>1 DEF NoRows
<1>3. ASSUME NEW c \in Col PROVE Column(c)
  <2>1. \A k \in PK : /\ chroma[c][k] = NoVec /\ Matching(journal, c, k) = {}
                      /\ Last(journal, c, k) = {}
    BY <1>1, NoEntries DEF NoVectors, Last
  <2>2. EntriesName(c) /\ VectorsName(c)
    BY <1>1, <2>1, NoEntries DEF EntriesName, VectorsName
  <2>3. \A k \in PK : RowFollows(c, k)
    BY <1>2, <2>1 DEF RowFollows, VectorFollows
  <2> QED BY <2>2, <2>3 DEF Column
<1>4. Shaped /\ Whole /\ Remembered
  BY <1>1, <1>2 DEF Shaped, Whole, Remembered, Names
<1>5. \A t \in Threads : ReindexSees(t)
  BY <1>1 DEF ReindexSees
<1> QED BY <1>3, <1>4, <1>5 DEF VInv, ColumnsFollow, LongText

LEMMA StepVInv ==
  ASSUME TInv, TInv', VInv, NEW t \in Threads, Step(t)
  PROVE  VInv'
<1>1. Settled /\ ReindexSees(t)
  BY DEF VInv, Settled
<1>2. ASSUME NEW change \in mix.changes, StartChange(t, change)
      PROVE  Settled'
  BY <1>1, <1>2, NothingChanges DEF StartChange, sqlite, flaws
<1>3. Settled'
  BY <1>1, <1>2, RowOpsSettled, ProcessSettled, AddSettled, DropSettled,
     RenameSettled, HalvesSettled, CreateSettled, ReindexSettled,
     ReindexDoneSettled DEF Step
<1>4. \A u \in Threads : ReindexSees(u)'
  BY <1>1, StepSees
<1> QED BY <1>3, <1>4 DEF VInv, Settled

LEMMA NextVInv == TInv /\ TInv' /\ VInv /\ [Next]_vars => VInv'
<1> SUFFICES ASSUME TInv, TInv', VInv, [Next]_vars PROVE VInv'
  OBVIOUS
<1>1. ASSUME NEW t \in mix.threads, Step(t) PROVE VInv'
  BY <1>1, MixType, StepVInv
<1>2. CASE Restart
  <2>1. Settled'
    BY <1>2, NothingChanges DEF Restart, sqlite, flaws, VInv, Settled
  <2>2. \A u \in Threads : ReindexSees(u)'
    BY <1>2 DEF Restart, ReindexSees
  <2> QED BY <2>1, <2>2 DEF VInv, Settled
<1>3. CASE UNCHANGED vars
  <2>1. Settled'
    BY <1>3, NothingChanges DEF vars, sqlite, flaws, VInv, Settled
  <2>2. \A u \in Threads : ReindexSees(u)'
    BY <1>3 DEF vars, sqlite, VInv, ReindexSees, Remade, Meta
  <2> QED BY <2>1, <2>2 DEF VInv, Settled
<1> QED BY <1>1, <1>2, <1>3 DEF Next

LEMMA SpecFollows == Spec => [](VectorsFollow /\ MetadataFollows)
<1>1. TInv /\ VInv => VectorsFollow /\ MetadataFollows
  BY VInvFollows DEF VInv
<1> QED BY InitTInv, InitVInv, NextTInv, NextVInv, <1>1, PTL DEF Spec

\* Whatever columns are added, dropped, renamed, created or rebuilt while
\* entries are pending, by any number of threads: as long as nothing has
\* happened that the journal cannot repair, the vectors that processing it
\* leaves are those of the rows, made from the documents they hold.
THEOREM VectorsAlwaysFollow == Spec => []VectorsFollow
BY SpecFollows, PTL

\* ... and their metadata have the names of the columns that the row holds a
\* value in and a search may filter by, and no others but those of columns it
\* has set to NULL, or that another row under its key had before.
THEOREM MetadataAlwaysFollows == Spec => []MetadataFollows
BY SpecFollows, PTL
=============================================================================

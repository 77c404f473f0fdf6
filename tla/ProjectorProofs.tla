--------------------------- MODULE ProjectorProofs ---------------------------
(***************************************************************************)
(* Theorems of Projector, for any batch size, any number of rows and       *)
(* failures: what a cursor passes, how often a row is applied, what a stop *)
(* loses, and which rows reach the tracker after younger ones.             *)
(***************************************************************************)
EXTENDS Projector, Numbers, SequenceTheorems, FiniteSetTheorems, TLAPS

-----------------------------------------------------------------------------
(* Finite sets in order. *)

StrictOrderOn(R, S) ==
  /\ \A x \in S : <<x, x>> \notin R
  /\ \A x, y \in S : x # y => <<x, y>> \in R \/ <<y, x>> \in R
  /\ \A x, y, z \in S : <<x, y>> \in R /\ <<y, z>> \in R => <<x, z>> \in R
Below(R, S, x) == {y \in S : <<y, x>> \in R}
RankOf(R, S, x) == Cardinality(Below(R, S, x))

(* In a finite set every rank is taken, once, and ranks are in order. *)
LEMMA EveryRankIsTaken ==
  ASSUME NEW S, IsFiniteSet(S), NEW R, StrictOrderOn(R, S)
  PROVE  /\ Cardinality(S) \in Nat
         /\ \A k \in 1 .. Cardinality(S) : \E x \in S : RankOf(R, S, x) = k - 1
         /\ \A x, y \in S : <<x, y>> \in R => RankOf(R, S, x) < RankOf(R, S, y)
         /\ \A x, y \in S : RankOf(R, S, x) = RankOf(R, S, y) => x = y
         /\ \A x \in S : RankOf(R, S, x) \in 0 .. Cardinality(S) - 1
<1> DEFINE n == Cardinality(S)
           T == 0 .. n - 1
           rank == [x \in S |-> RankOf(R, S, x)]
<1>1. n \in Nat
  BY FS_CardinalityType
<1>2. IsFiniteSet(T) /\ Cardinality(T) = n
  BY <1>1, FS_Interval
<1>3. \A x \in S : /\ Below(R, S, x) \subseteq S /\ x \notin Below(R, S, x)
                   /\ IsFiniteSet(Below(R, S, x)) /\ RankOf(R, S, x) \in Nat
  <2> TAKE x \in S
  <2>1. Below(R, S, x) \subseteq S /\ x \notin Below(R, S, x)
    BY DEF Below, StrictOrderOn
  <2> QED
    BY <2>1, FS_Subset, FS_CardinalityType DEF RankOf
<1> HIDE DEF n
<1>4. ASSUME NEW x \in S, NEW y \in S, <<x, y>> \in R
      PROVE  RankOf(R, S, x) < RankOf(R, S, y)
  <2>1. Below(R, S, x) \subseteq Below(R, S, y) /\ x \in Below(R, S, y)
    BY <1>4 DEF Below, StrictOrderOn
  <2>2. /\ RankOf(R, S, x) <= RankOf(R, S, y)
        /\ RankOf(R, S, y) = RankOf(R, S, x) => Below(R, S, y) = Below(R, S, x)
    BY <1>3, <2>1, FS_Subset DEF RankOf
  <2>3. RankOf(R, S, y) # RankOf(R, S, x)
    BY <1>3, <2>1, <2>2
  <2> QED
    BY <1>3, <2>2, <2>3
<1>5. \A x \in S : RankOf(R, S, x) \in T
  <2> TAKE x \in S
  <2>1. RankOf(R, S, x) <= n /\ (n = RankOf(R, S, x) => S = Below(R, S, x))
    BY <1>3, FS_Subset DEF RankOf, n
  <2>2. n # RankOf(R, S, x)
    BY <1>3, <2>1
  <2> QED
    BY <1>1, <1>3, <2>1, <2>2
<1>6. \A x, y \in S : RankOf(R, S, x) = RankOf(R, S, y) => x = y
  <2> SUFFICES ASSUME NEW x \in S, NEW y \in S, x # y
               PROVE  RankOf(R, S, x) # RankOf(R, S, y)
    OBVIOUS
  <2>1. <<x, y>> \in R \/ <<y, x>> \in R
    BY DEF StrictOrderOn
  <2>2. RankOf(R, S, x) < RankOf(R, S, y) \/ RankOf(R, S, y) < RankOf(R, S, x)
    BY <1>4, <2>1
  <2> QED
    BY <1>3, <2>2
<1>7. rank \in Injection(S, T)
  BY <1>5, <1>6 DEF Injection, IsInjective
<1>8. rank \in Surjection(S, T)
  <2> HIDE DEF rank, T
  <2> QED
    BY <1>2, <1>7, FS_Injection DEF n
<1>9. \A k \in 1 .. n : \E x \in S : RankOf(R, S, x) = k - 1
  <2> TAKE k \in 1 .. n
  <2>1. k - 1 \in T
    BY <1>1
  <2>2. PICK x \in S : rank[x] = k - 1
    <3> HIDE DEF rank, T
    <3> QED
      BY <1>8, <2>1 DEF Surjection
  <2> QED
    BY <2>2
<1> QED
  BY <1>1, <1>4, <1>5, <1>6, <1>9 DEF n

-----------------------------------------------------------------------------
(* The basic invariant: the source only grows and its times do not go      *)
(* back; a batch is what lies behind the cursor, from the first row on.    *)

SrcRow == [at : Nat, ok : BOOLEAN]

SourceInv ==
  /\ \A t \in Tables : \A id \in 1 .. Len(src[t]) :
       src[t][id].at <= clock /\ (src[t][id].ok \/ BadRows)
  /\ \A t \in Tables : \A i, j \in 1 .. Len(src[t]) : i <= j => src[t][i].at <= src[t][j].at
  /\ \A t \in Tables : cursor[t] <= Len(src[t]) /\ applied[t] <= Len(src[t])

(* The tables read in this tick. *)
Read(t) == \/ pc = "apply"
           \/ pc \in Tables /\ ReadRank[t] < ReadRank[pc]

ReadingInv ==
  /\ \A t \in Tables : \A b \in batch[t] :
       /\ b \in 1 .. Len(src[t]) /\ cursor[t] < b /\ b <= cursor[t] + BatchSize /\ src[t][b].ok
       /\ \A id \in cursor[t] + 1 .. b : src[t][id].ok => id \in batch[t]
  /\ \A t \in full : batch[t] # {}
  /\ \A t \in Tables : ~Read(t) => batch[t] = {} /\ t \notin full
  /\ pc # "save" => applied = NoIds

BasicInv == TypeOK /\ SourceInv /\ ReadingInv

LEMMA Fields ==
  ASSUME TypeOK
  PROVE  /\ \A t \in Tables :
              /\ src[t] \in Seq(SrcRow)
              /\ Len(src[t]) \in Nat /\ DOMAIN src[t] = 1 .. Len(src[t])
              /\ \A id \in 1 .. Len(src[t]) : src[t][id].at \in Nat /\ src[t][id].ok \in BOOLEAN
              /\ cursor[t] \in Nat /\ applied[t] \in Nat /\ batch[t] \subseteq Nat
         /\ Len(history) \in Nat /\ DOMAIN history = 1 .. Len(history)
         /\ Len(open) \in Nat /\ DOMAIN open = 1 .. Len(open)
         /\ Len(kept) \in Nat /\ DOMAIN kept = 1 .. Len(kept)
         /\ \A n \in 1 .. Len(history) : history[n].table \in Tables /\ history[n].id \in Nat
         /\ clock \in Nat /\ failures \in Nat
<1>1. \A t \in Tables :
        /\ src[t] \in Seq(SrcRow)
        /\ cursor[t] \in Nat /\ applied[t] \in Nat /\ batch[t] \subseteq Nat
  BY DEF TypeOK, SrcRow
<1>2. \A t \in Tables :
        /\ Len(src[t]) \in Nat /\ DOMAIN src[t] = 1 .. Len(src[t])
        /\ \A id \in 1 .. Len(src[t]) : src[t][id] \in SrcRow
  BY <1>1, LenProperties, ElementOfSeq
<1>3. \A t \in Tables : \A id \in 1 .. Len(src[t]) :
        src[t][id].at \in Nat /\ src[t][id].ok \in BOOLEAN
  BY <1>2 DEF SrcRow
<1>4. \A n \in 1 .. Len(history) : history[n] \in RowId
  BY ElementOfSeq DEF TypeOK
<1>5. \A n \in 1 .. Len(history) : history[n].table \in Tables /\ history[n].id \in Nat
  BY <1>4 DEF RowId
<1> QED
  BY <1>1, <1>2, <1>3, <1>5, LenProperties DEF TypeOK

(* The next table is the one of the next rank. *)
LEMMA NextReads ==
  /\ NextRead("orders") = "sensor_input_toggles"
  /\ NextRead("sensor_input_toggles") = "fsm_step_runs"
  /\ NextRead("fsm_step_runs") = "apply"
  /\ ReadRank["orders"] = 1 /\ ReadRank["sensor_input_toggles"] = 2
  /\ ReadRank["fsm_step_runs"] = 3
<1>1. /\ ReadRank["orders"] = 1 /\ ReadRank["sensor_input_toggles"] = 2
      /\ ReadRank["fsm_step_runs"] = 3
  BY DEF ReadRank
<1>2. (CHOOSE u \in Tables : ReadRank[u] = 2) = "sensor_input_toggles"
  BY <1>1 DEF Tables
<1>3. (CHOOSE u \in Tables : ReadRank[u] = 3) = "fsm_step_runs"
  BY <1>1 DEF Tables
<1>4. ~ \E u \in Tables : ReadRank[u] = 4
  BY <1>1 DEF Tables
<1> QED
  BY <1>1, <1>2, <1>3, <1>4 DEF NextRead, Tables

(* The tables read after a read. *)
LEMMA ReadAdvances ==
  ASSUME NEW t \in Tables, pc = t, pc' = NextRead(t)
  PROVE  /\ pc' \in Tables \cup {"apply"} /\ ~Read(t)
         /\ \A u \in Tables : Read(u)' <=> (Read(u) \/ u = t)
         /\ \A u \in Tables : Read(u) => ReadRank[u] < ReadRank[t]
<1>1. \A u \in Tables : Read(u) <=> ReadRank[u] < ReadRank[t]
  BY DEF Read, Tables
<1>2. CASE t = "orders"
  BY <1>1, <1>2, NextReads DEF Read, Tables
<1>3. CASE t = "sensor_input_toggles"
  BY <1>1, <1>3, NextReads DEF Read, Tables
<1>4. CASE t = "fsm_step_runs"
  BY <1>1, <1>4, NextReads DEF Read, Tables
<1> QED
  BY <1>2, <1>3, <1>4 DEF Tables

(* The controller only appends, at its clock. *)
LEMMA WritesEffect ==
  ASSUME TypeOK, NEW t \in Tables, NEW ok \in BOOLEAN, Writes(t, ok)
  PROVE  /\ src' \in [Tables -> Seq(SrcRow)]
         /\ \A u \in Tables :
              /\ Len(src'[u]) \in Nat /\ Len(src[u]) <= Len(src'[u])
              /\ \A id \in 1 .. Len(src[u]) : src'[u][id] = src[u][id]
              /\ \A id \in 1 .. Len(src'[u]) : id \notin 1 .. Len(src[u]) =>
                   /\ id = Len(src[u]) + 1
                   /\ src'[u][id].at = clock /\ (src'[u][id].ok \/ BadRows)
<1> DEFINE row == [at |-> clock, ok |-> ok]
           n == Len(src[t])
<1>1. row \in SrcRow /\ row.at = clock /\ (row.ok \/ BadRows)
  BY Fields DEF SrcRow, Writes
<1>2. src' = [src EXCEPT ![t] = Append(src[t], row)] /\ src \in [Tables -> Seq(SrcRow)]
  BY DEF Writes, TypeOK, SrcRow
<1> HIDE DEF row
<1>3. /\ Append(src[t], row) \in Seq(SrcRow) /\ Len(Append(src[t], row)) = n + 1
      /\ \A id \in 1 .. n : Append(src[t], row)[id] = src[t][id]
      /\ Append(src[t], row)[n + 1] = row
  BY <1>1, <1>2, AppendProperties
<1>4. src' \in [Tables -> Seq(SrcRow)] /\ \A u \in Tables : u # t => src'[u] = src[u]
  BY <1>2, <1>3
<1>5. src'[t] = Append(src[t], row)
  BY <1>2
<1>6. \A u \in Tables : Len(src[u]) \in Nat
  BY Fields
<1>7. \A id \in 1 .. n + 1 : id \in 1 .. n \/ id = n + 1
  BY <1>6
<1> QED
  BY <1>1, <1>3, <1>4, <1>5, <1>6, <1>7

-----------------------------------------------------------------------------
(* The merged timeline. *)

LEMMA ItemsAre ==
  ASSUME BasicInv
  PROVE  /\ \A r : r \in Items <=> r \in RowId /\ r.id \in batch[r.table]
         /\ \A r \in Items : /\ r.table \in Tables /\ r.id \in 1 .. Len(src[r.table])
                             /\ r.id \in Nat /\ At(r) \in Nat
<1>1. \A t \in Tables : batch[t] \subseteq 1 .. Len(src[t]) /\ batch[t] \subseteq Nat
  BY Fields DEF BasicInv, ReadingInv
<1>2. \A r : r \in Items <=> r \in RowId /\ r.id \in batch[r.table]
  BY <1>1 DEF Items, RowId
<1>3. \A r \in Items : r.table \in Tables /\ r.id \in 1 .. Len(src[r.table]) /\ r.id \in Nat
  BY <1>1, <1>2 DEF RowId
<1> QED
  BY <1>2, <1>3, Fields DEF At, BasicInv

(* An upper bound of the tables' lengths. *)
LEMMA LengthsBounded ==
  ASSUME TypeOK
  PROVE  \E n \in Nat : \A t \in Tables : Len(src[t]) <= n
<1> DEFINE a == Len(src["orders"])
           b == Len(src["sensor_input_toggles"])
           c == Len(src["fsm_step_runs"])
<1>1. a \in Nat /\ b \in Nat /\ c \in Nat
  BY Fields DEF Tables
<1> HIDE DEF a, b, c
<1>2. a + b + c \in Nat /\ a <= a + b + c /\ b <= a + b + c /\ c <= a + b + c
  BY <1>1
<1>3. \A t \in Tables : Len(src[t]) = a \/ Len(src[t]) = b \/ Len(src[t]) = c
  BY DEF Tables, a, b, c
<1>4. \A t \in Tables : Len(src[t]) <= a + b + c
  BY <1>2, <1>3
<1> QED
  BY <1>2, <1>4

LEMMA ItemsFinite ==
  ASSUME BasicInv
  PROVE  IsFiniteSet(Items)
<1>1. PICK n \in Nat : \A t \in Tables : Len(src[t]) <= n
  BY LengthsBounded DEF BasicInv
<1> DEFINE T == 1 .. 3 * n + 3
           f == [r \in Items |-> 3 * r.id + ReadRank[r.table]]
<1>2. \A t \in Tables : ReadRank[t] \in 1 .. 3
  BY NextReads DEF Tables
<1>3. \A t, u \in Tables : ReadRank[t] = ReadRank[u] => t = u
  BY NextReads DEF Tables
<1>4. \A r \in Items : r.id \in Nat /\ r.id <= n /\ ReadRank[r.table] \in 1 .. 3
  <2> TAKE r \in Items
  <2>1. r.table \in Tables /\ r.id \in 1 .. Len(src[r.table]) /\ Len(src[r.table]) \in Nat
    BY ItemsAre, Fields DEF BasicInv
  <2> QED
    BY <1>1, <1>2, <2>1
<1>5. f \in [Items -> T]
  <2>1. \A i, k \in Nat : i <= n /\ k \in 1 .. 3 => 3 * i + k \in T
    OBVIOUS
  <2>2. \A r \in Items : 3 * r.id + ReadRank[r.table] \in T
    BY <1>4, <2>1
  <2> QED
    BY <2>2
<1>6. \A r, q \in Items : f[r] = f[q] => r = q
  <2> SUFFICES ASSUME NEW r \in Items, NEW q \in Items, f[r] = f[q] PROVE r = q
    OBVIOUS
  <2>1. 3 * r.id + ReadRank[r.table] = 3 * q.id + ReadRank[q.table]
    OBVIOUS
  <2>2. \A i, j \in Nat : \A k, l \in 1 .. 3 : 3 * i + k = 3 * j + l => i = j /\ k = l
    OBVIOUS
  <2>3. r.id = q.id /\ ReadRank[r.table] = ReadRank[q.table]
    BY <1>4, <2>1, <2>2
  <2>4. r \in RowId /\ q \in RowId
    BY ItemsAre
  <2> QED
    BY <1>3, <2>3, <2>4 DEF RowId
<1>7. f \in Injection(Items, T)
  <2> HIDE DEF f
  <2> QED
    BY <1>5, <1>6 DEF Injection, IsInjective
<1>8. IsFiniteSet(T)
  BY FS_Interval
<1> QED
  BY <1>7, <1>8, FS_Injection

(* Rows are strictly ordered by time, then kind, then id. *)
LEMMA BeforeOrders ==
  ASSUME BasicInv
  PROVE  /\ \A r \in Items : ~Before(r, r)
         /\ \A r, q \in Items : r # q => Before(r, q) \/ Before(q, r)
         /\ \A r, q, s \in Items : Before(r, q) /\ Before(q, s) => Before(r, s)
         /\ \A r, q \in Items : Before(r, q) => At(r) <= At(q)
<1>1. \A r \in Items : /\ r \in RowId /\ r.table \in Tables /\ r.id \in Nat
                       /\ At(r) \in Nat /\ KindRank[r.table] \in Nat
  BY ItemsAre DEF Tables, KindRank
<1>2. \A t, u \in Tables : t # u => KindRank[t] # KindRank[u]
  BY DEF Tables, KindRank
<1>3. \A r \in Items : ~Before(r, r)
  BY <1>1 DEF Before
<1>4. ASSUME NEW r \in Items, NEW q \in Items, r # q PROVE Before(r, q) \/ Before(q, r)
  <2>1. r.table # q.table \/ r.id # q.id
    BY <1>1, <1>4 DEF RowId
  <2> QED
    BY <1>1, <1>2, <2>1 DEF Before
<1>5. ASSUME NEW r \in Items, NEW q \in Items, NEW s \in Items, Before(r, q), Before(q, s)
      PROVE  Before(r, s)
  BY <1>1, <1>5 DEF Before
<1>6. \A r, q \in Items : Before(r, q) => At(r) <= At(q)
  BY <1>1 DEF Before
<1> QED
  BY <1>3, <1>4, <1>5, <1>6

(* The safe rows, each once, in order. *)
LEMMA MergedRows ==
  ASSUME BasicInv
  PROVE  /\ Merged \in Seq(RowId) /\ Len(Merged) \in Nat /\ DOMAIN Merged = 1 .. Len(Merged)
         /\ \A k \in 1 .. Len(Merged) : Merged[k] \in Items /\ Safe(Merged[k])
         /\ \A r \in Items : Safe(r) => \E k \in 1 .. Len(Merged) : Merged[k] = r
         /\ \A j, k \in 1 .. Len(Merged) : j < k => Before(Merged[j], Merged[k])
<1> DEFINE S == {r \in Items : Safe(r)}
           R == {p \in S \X S : Before(p[1], p[2])}
           n == Cardinality(S)
           e(k) == CHOOSE r \in S : Cardinality({q \in S : Before(q, r)}) = k - 1
<1>1. S \subseteq Items /\ IsFiniteSet(S)
  BY ItemsFinite, FS_Subset
<1>2. \A x, y \in S : <<x, y>> \in R <=> Before(x, y)
  OBVIOUS
<1>3. \A r \in S : {q \in S : Before(q, r)} = Below(R, S, r)
  BY <1>2 DEF Below
<1>4. StrictOrderOn(R, S)
  <2> HIDE DEF S, R
  <2> QED
    BY <1>1, <1>2, BeforeOrders DEF StrictOrderOn
<1>5. Merged = [k \in 1 .. n |-> e(k)]
  BY DEF Merged
<1>6. \A r \in Items : Safe(r) <=> r \in S
  OBVIOUS
<1>7. \A k : e(k) = CHOOSE r \in S : RankOf(R, S, r) = k - 1
  BY <1>3 DEF RankOf
<1> HIDE DEF S, R, n, e
<1>8. /\ n \in Nat
      /\ \A k \in 1 .. n : \E x \in S : RankOf(R, S, x) = k - 1
      /\ \A x, y \in S : <<x, y>> \in R => RankOf(R, S, x) < RankOf(R, S, y)
      /\ \A x, y \in S : RankOf(R, S, x) = RankOf(R, S, y) => x = y
      /\ \A x \in S : RankOf(R, S, x) \in 0 .. n - 1
  BY <1>1, <1>4, EveryRankIsTaken DEF n
<1>9. \A k \in 1 .. n : e(k) \in S /\ RankOf(R, S, e(k)) = k - 1
  BY <1>7, <1>8
<1>10. [k \in 1 .. n |-> e(k)] \in Seq(RowId) /\ Len([k \in 1 .. n |-> e(k)]) = n
  <2>1. \A k \in 1 .. n : e(k) \in RowId
    BY <1>1, <1>9, ItemsAre
  <2> QED
    BY <1>8, <2>1, IsASeq
<1>11. Merged \in Seq(RowId) /\ Len(Merged) = n /\ \A k \in 1 .. n : Merged[k] = e(k)
  BY <1>5, <1>10
<1>12. ASSUME NEW r \in Items, Safe(r) PROVE \E k \in 1 .. n : Merged[k] = r
  <2>1. r \in S /\ RankOf(R, S, r) \in 0 .. n - 1
    BY <1>6, <1>8, <1>12
  <2>2. RankOf(R, S, r) + 1 \in 1 .. n /\ (RankOf(R, S, r) + 1) - 1 = RankOf(R, S, r)
    BY <1>8, <2>1
  <2>3. e(RankOf(R, S, r) + 1) = r
    BY <1>8, <1>9, <2>1, <2>2
  <2> QED
    BY <1>11, <2>2, <2>3
<1>13. ASSUME NEW j \in 1 .. n, NEW k \in 1 .. n, j < k PROVE Before(Merged[j], Merged[k])
  <2>1. e(j) \in S /\ e(k) \in S /\ RankOf(R, S, e(j)) = j - 1 /\ RankOf(R, S, e(k)) = k - 1
    BY <1>9
  <2>2. j \in Int /\ k \in Int
    OBVIOUS
  <2>3. e(j) # e(k)
    BY <1>13, <2>1, <2>2
  <2>4. <<e(j), e(k)>> \in R \/ <<e(k), e(j)>> \in R
    BY <1>4, <2>1, <2>3 DEF StrictOrderOn
  <2>5. ~ k - 1 < j - 1
    BY <1>13, <2>2
  <2>6. <<e(j), e(k)>> \in R
    BY <1>8, <2>1, <2>4, <2>5
  <2> QED
    BY <1>2, <1>11, <2>1, <2>6
<1> QED
  BY <1>1, <1>6, <1>8, <1>9, <1>11, <1>12, <1>13, LenProperties

(* The greatest id of a batch, and of the rows applied. *)
LEMMA LastReadIs ==
  ASSUME BasicInv, NEW t \in Tables, batch[t] # {}
  PROVE  LastRead(t) \in batch[t] /\ \A other \in batch[t] : other <= LastRead(t)
<1>1. batch[t] \in SUBSET (1 .. Len(src[t])) /\ Len(src[t]) \in Nat
  BY Fields DEF BasicInv, ReadingInv
<1>2. \E id \in batch[t] : \A other \in batch[t] : other <= id
  BY <1>1, MinMax
<1> QED
  BY <1>2 DEF LastRead

LEMMA LastAppliedIs ==
  ASSUME BasicInv, NEW t \in Tables
  PROVE  /\ LastApplied(Merged, t) \in Nat
         /\ \/ /\ LastApplied(Merged, t) = 0
               /\ \A k \in 1 .. Len(Merged) : Merged[k].table # t
            \/ /\ \E k \in 1 .. Len(Merged) : Merged[k] = [table |-> t, id |-> LastApplied(Merged, t)]
               /\ \A j \in 1 .. Len(Merged) :
                    Merged[j].table = t => Merged[j].id <= LastApplied(Merged, t)
<1> DEFINE mine == {k \in DOMAIN Merged : Merged[k].table = t}
           n == Len(Merged)
<1>1. /\ n \in Nat /\ DOMAIN Merged = 1 .. n
      /\ \A k \in 1 .. n : Merged[k] \in Items
      /\ \A j, k \in 1 .. n : j < k => Before(Merged[j], Merged[k])
  BY MergedRows
<1>2. CASE mine = {}
  BY <1>1, <1>2 DEF LastApplied
<1>3. CASE mine # {}
  <2> DEFINE last == CHOOSE k \in mine : \A j \in mine : j <= k
  <2>1. mine \in SUBSET (1 .. n)
    BY <1>1
  <2>2. \E k \in mine : \A j \in mine : j <= k
    <3> HIDE DEF mine
    <3> QED
      BY <1>1, <1>3, <2>1, MinMax
  <2>3. last \in mine /\ \A j \in mine : j <= last
    BY <2>2
  <2>4. LastApplied(Merged, t) = Merged[last].id
    BY <1>3 DEF LastApplied
  <2> HIDE DEF last
  <2>5. last \in 1 .. n /\ Merged[last].table = t /\ Merged[last] \in Items
    BY <1>1, <2>3
  <2>6. Merged[last] \in RowId /\ Merged[last].id \in Nat
    BY <2>5, ItemsAre
  <2>7. Merged[last] = [table |-> t, id |-> Merged[last].id]
    BY <2>5, <2>6 DEF RowId
  <2>8. ASSUME NEW j \in 1 .. n, Merged[j].table = t PROVE Merged[j].id <= Merged[last].id
    <3>1. j <= last /\ Merged[j] \in Items
      BY <1>1, <2>3, <2>8
    <3>2. CASE j = last
      BY <2>6, <3>2
    <3>3. CASE j # last
      <4> DEFINE x == Merged[j].id
                 y == Merged[last].id
      <4>1. Before(Merged[j], Merged[last])
        <5>1. j < last
          BY <2>5, <3>1, <3>3
        <5> QED
          BY <1>1, <2>5, <5>1
      <4>2. /\ x \in 1 .. Len(src[t]) /\ y \in 1 .. Len(src[t]) /\ x \in Nat /\ y \in Nat
            /\ src[t][x].at \in Nat /\ src[t][y].at \in Nat
        BY <2>5, <2>8, <3>1, ItemsAre, Fields DEF BasicInv
      <4>3. At(Merged[j]) = src[t][x].at /\ At(Merged[last]) = src[t][y].at
        BY <2>5, <2>8 DEF At
      <4>4. src[t][x].at < src[t][y].at \/ x < y
        BY <2>5, <2>8, <4>1, <4>3 DEF Before, KindRank, Tables
      <4>5. y <= x => src[t][y].at <= src[t][x].at
        BY <4>2 DEF BasicInv, SourceInv
      <4> HIDE DEF x, y
      <4>6. x <= y
        BY <4>2, <4>4, <4>5
      <4> QED
        BY <4>6 DEF x, y
    <3> QED
      BY <3>2, <3>3
  <2> QED
    BY <1>1, <2>4, <2>5, <2>6, <2>7, <2>8
<1> QED
  BY <1>2, <1>3

(* Rows at the end of a sequence. *)
LEMMA RowsAppended ==
  ASSUME NEW old \in Seq(RowId), NEW rows \in Seq(RowId)
  PROVE  /\ old \o rows \in Seq(RowId)
         /\ Len(old) \in Nat /\ Len(rows) \in Nat /\ Len(old \o rows) = Len(old) + Len(rows)
         /\ DOMAIN (old \o rows) = 1 .. Len(old) + Len(rows)
         /\ \A n \in 1 .. Len(old) : (old \o rows)[n] = old[n]
         /\ \A k \in 1 .. Len(rows) : (old \o rows)[Len(old) + k] = rows[k]
         /\ \A n \in 1 .. Len(old) + Len(rows) :
              n \in 1 .. Len(old) \/ \E k \in 1 .. Len(rows) : n = Len(old) + k
<1> DEFINE a == Len(old)
           b == Len(rows)
           all == old \o rows
<1>1. a \in Nat /\ b \in Nat
  BY LenProperties
<1>2. /\ all \in Seq(RowId) /\ Len(all) = a + b
      /\ \A n \in 1 .. a + b : all[n] = IF n <= a THEN old[n] ELSE rows[n - a]
  BY ConcatProperties
<1>3. DOMAIN all = 1 .. a + b
  BY <1>2, LenProperties
<1> HIDE DEF a, b, all
<1>4. \A n \in 1 .. a : all[n] = old[n]
  BY <1>1, <1>2
<1>5. \A k \in 1 .. b : all[a + k] = rows[k]
  BY <1>1, <1>2
<1>6. \A n \in 1 .. a + b : n \in 1 .. a \/ \E k \in 1 .. b : n = a + k
  <2> TAKE n \in 1 .. a + b
  <2>1. CASE n <= a
    BY <1>1, <2>1
  <2>2. CASE a < n
    <3>1. n - a \in 1 .. b /\ n = a + (n - a)
      BY <1>1, <2>2
    <3> QED
      BY <3>1
  <2> QED
    BY <1>1, <2>1, <2>2
<1> QED
  BY <1>1, <1>2, <1>3, <1>4, <1>5, <1>6 DEF a, b, all

LEMMA ApplyEffect ==
  ASSUME BasicInv, ApplyRows
  PROVE  /\ history' = history \o Merged /\ open' = open \o Merged
         /\ history \in Seq(RowId) /\ open \in Seq(RowId) /\ Merged \in Seq(RowId)
         /\ \A t \in Tables : applied'[t] = LastApplied(Merged, t)
         /\ applied' \in [Tables -> Nat]
         /\ pc = "apply" /\ pc' = "save" /\ batch' = NoRows /\ full' = {}
         /\ UNCHANGED <<clock, src, cursor, ending, kept, failures>>
<1>1. /\ history' = history \o Merged /\ open' = open \o Merged
      /\ applied' = [t \in Tables |-> LastApplied(Merged, t)]
      /\ pc = "apply" /\ pc' = "save" /\ batch' = NoRows /\ full' = {}
      /\ UNCHANGED <<clock, src, cursor, ending, kept, failures>>
  BY DEF ApplyRows, source
<1>2. history \in Seq(RowId) /\ open \in Seq(RowId) /\ Merged \in Seq(RowId)
  BY MergedRows DEF BasicInv, TypeOK
<1>3. \A t \in Tables : LastApplied(Merged, t) \in Nat
  BY LastAppliedIs
<1> QED
  BY <1>1, <1>2, <1>3

(* Where the intervals of the open rows end. *)
LEMMA CutsAre ==
  ASSUME TypeOK, Cuts # {}
  PROVE  /\ FirstCut \in 2 .. Len(open) + 1 /\ LastCut \in 2 .. Len(open) + 1
         /\ Len(open) \in Nat
<1>1. Len(open) \in Nat
  BY Fields
<1>2. Cuts \subseteq 2 .. Len(open) + 1
  <2>1. open # <<>> => Len(open) + 1 \in 2 .. Len(open) + 1
    BY <1>1, EmptySeq DEF TypeOK
  <2>2. {k \in 2 .. Len(open) : open[k].table = "orders"} \subseteq 2 .. Len(open) + 1
    BY <1>1
  <2> QED
    BY <2>1, <2>2 DEF Cuts
<1>3. Cuts \in SUBSET (1 .. Len(open) + 1) /\ Len(open) + 1 \in Nat
  BY <1>1, <1>2
<1>4. /\ \E x \in Cuts : \A y \in Cuts : x <= y
      /\ \E x \in Cuts : \A y \in Cuts : y <= x
  BY <1>3, MinMax
<1>5. FirstCut \in Cuts /\ LastCut \in Cuts
  BY <1>4 DEF FirstCut, LastCut
<1> QED
  BY <1>1, <1>2, <1>5

-----------------------------------------------------------------------------
(* Every variable keeps its type. *)

LEMMA FlushTypes ==
  ASSUME TypeOK, Cuts # {}
  PROVE  /\ SubSeq(open, 1, FirstCut - 1) \in Seq(RowId)
         /\ SubSeq(open, FirstCut, Len(open)) \in Seq(RowId)
         /\ SubSeq(open, LastCut, Len(open)) \in Seq(RowId)
<1> DEFINE n == Len(open)
<1>1. /\ FirstCut \in 2 .. n + 1 /\ LastCut \in 2 .. n + 1 /\ n \in Nat
      /\ \A k \in 1 .. n : open[k] \in RowId
  BY CutsAre, ElementOfSeq DEF TypeOK
<1> HIDE DEF n
<1>2. \A i, j \in Int : i >= 1 /\ j <= n => \A k \in i .. j : open[k] \in RowId
  BY <1>1
<1>3. ASSUME NEW i \in Int, NEW j \in Int, i >= 1, j <= n
      PROVE  SubSeq(open, i, j) \in Seq(RowId)
  BY <1>2, <1>3, SubSeqProperties
<1>4. FirstCut \in Int /\ LastCut \in Int /\ FirstCut >= 1 /\ LastCut >= 1 /\ FirstCut - 1 <= n
  BY <1>1
<1> QED
  BY <1>1, <1>3, <1>4 DEF n

LEMMA OverTypes ==
  ASSUME TypeOK, TickOver
  PROVE  /\ pc' \in {"idle", "final"} /\ ending' \in BOOLEAN
         /\ batch' \in [Tables -> SUBSET Nat] /\ full' \in SUBSET Tables
         /\ applied' \in [Tables -> Nat]
         /\ batch' = NoRows /\ full' = {} /\ applied' = NoIds
BY DEF TickOver, NoRows, NoIds

LEMMA TypeStep ==
  ASSUME BasicInv, [Next]_vars
  PROVE  TypeOK'
<1> USE DEF source, reading
<1>0. TypeOK
  BY DEF BasicInv
<1>1. ASSUME NEW t \in Tables, NEW ok \in BOOLEAN, Writes(t, ok) PROVE TypeOK'
  <2>1. src' \in [Tables -> Seq([at : Nat, ok : BOOLEAN])]
    BY <1>0, <1>1, WritesEffect DEF SrcRow
  <2> QED
    BY <1>0, <1>1, <2>1 DEF Writes, TypeOK
<1>2. CASE ClockTicks
  BY <1>0, <1>2 DEF ClockTicks, TypeOK
<1>3. ASSUME NEW stop \in BOOLEAN, BeginTick(stop) PROVE TypeOK'
  BY <1>0, <1>3 DEF BeginTick, TypeOK, Tables
<1>4. ASSUME NEW t \in Tables, ReadTable(t) PROVE TypeOK'
  <2>1. pc' \in Tables \cup {"apply"}
    BY <1>4, ReadAdvances DEF ReadTable
  <2>2. Parsed(t) \in SUBSET Nat
    BY <1>0, Fields DEF Parsed, Window
  <2>3. batch' \in [Tables -> SUBSET Nat]
    BY <1>0, <1>4, <2>2 DEF ReadTable, TypeOK
  <2>4. full' \in SUBSET Tables
    BY <1>0, <1>4 DEF ReadTable, TypeOK
  <2> QED
    BY <1>0, <1>4, <2>1, <2>3, <2>4 DEF ReadTable, TypeOK
<1>5. CASE ApplyRows
  <2>1. history' \in Seq(RowId) /\ open' \in Seq(RowId)
    BY <1>5, ApplyEffect, RowsAppended
  <2>2. batch' \in [Tables -> SUBSET Nat] /\ full' \in SUBSET Tables
    BY <1>5, ApplyEffect DEF NoRows
  <2> QED
    BY <1>0, <1>5, <2>1, <2>2, ApplyEffect DEF TypeOK
<1>6. ASSUME NEW t \in Tables, SetCursor(t) PROVE TypeOK'
  BY <1>0, <1>6 DEF SetCursor, TypeOK
<1>7. CASE CursorsSaved
  BY <1>0, <1>7 DEF CursorsSaved, TypeOK, NoIds
<1>8. CASE FlushInterval
  <2>1. kept' \in Seq(RowId) /\ open' \in Seq(RowId)
    BY <1>0, <1>8, FlushTypes, RowsAppended DEF FlushInterval, TypeOK
  <2> QED
    BY <1>0, <1>8, <2>1 DEF FlushInterval, TypeOK
<1>9. CASE EndFlush
  <2>1. open' \in Seq(RowId)
    BY <1>0, <1>9, EmptySeq DEF EndFlush, TypeOK
  <2> QED
    BY <1>0, <1>9, <2>1, OverTypes DEF EndFlush, TypeOK
<1>10. CASE TickFails
  BY <1>0, <1>10, OverTypes DEF TickFails, Fails, TypeOK
<1>11. CASE FlushFails
  <2>1. open' \in Seq(RowId)
    BY <1>0, <1>11, FlushTypes DEF FlushFails
  <2> QED
    BY <1>0, <1>11, <2>1, OverTypes DEF FlushFails, Fails, TypeOK
<1>12. CASE Crash
  <2>1. open' \in Seq(RowId) /\ failures' \in Nat
    BY <1>0, <1>12, EmptySeq DEF Crash, Fails, TypeOK
  <2>2. NoRows \in [Tables -> SUBSET Nat] /\ NoIds \in [Tables -> Nat]
    BY DEF NoRows, NoIds
  <2> QED
    BY <1>0, <1>12, <2>1, <2>2 DEF Crash, TypeOK
<1>13. CASE UNCHANGED vars
  BY <1>0, <1>13 DEF vars, TypeOK
<1> QED
  BY <1>1, <1>2, <1>3, <1>4, <1>5, <1>6, <1>7, <1>8, <1>9, <1>10, <1>11, <1>12, <1>13
  DEF Next, Tick

(* What the steps of the tick that do not read or apply leave alone.       *)
Reset == batch' = NoRows /\ full' = {} /\ applied' = NoIds

LEMMA ResetKeeps ==
  ASSUME BasicInv, Reset, UNCHANGED <<clock, src, cursor>>
  PROVE  SourceInv' /\ ReadingInv'
<1>1. \A t \in Tables : batch'[t] = {} /\ applied'[t] = 0 /\ Len(src[t]) \in Nat
  BY Fields DEF Reset, NoRows, NoIds, BasicInv
<1>2. SourceInv'
  BY <1>1 DEF BasicInv, SourceInv
<1>3. ReadingInv'
  BY <1>1 DEF Reset, ReadingInv
<1> QED
  BY <1>2, <1>3

LEMMA WritesKeepBasic ==
  ASSUME BasicInv, NEW t \in Tables, NEW ok \in BOOLEAN, Writes(t, ok)
  PROVE  SourceInv' /\ ReadingInv'
<1>1. UNCHANGED <<clock, cursor, pc, batch, full, applied>>
  BY DEF Writes, reading
<1>2. \A u \in Tables :
        /\ Len(src'[u]) \in Nat /\ Len(src[u]) \in Nat /\ Len(src[u]) <= Len(src'[u])
        /\ \A id \in 1 .. Len(src[u]) : id \in 1 .. Len(src'[u]) /\ src'[u][id] = src[u][id]
        /\ \A id \in 1 .. Len(src'[u]) : id \notin 1 .. Len(src[u]) =>
             /\ id = Len(src[u]) + 1
             /\ src'[u][id].at = clock /\ (src'[u][id].ok \/ BadRows)
  BY WritesEffect, Fields DEF BasicInv
<1>3. /\ clock \in Nat
      /\ \A u \in Tables : \A id \in 1 .. Len(src[u]) : src[u][id].at \in Nat
  BY Fields DEF BasicInv
<1>4. SourceInv'
  <2>1. ASSUME NEW u \in Tables, NEW id \in 1 .. Len(src'[u])
        PROVE  src'[u][id].at <= clock /\ (src'[u][id].ok \/ BadRows)
    BY <1>2, <1>3 DEF BasicInv, SourceInv
  <2>2. ASSUME NEW u \in Tables, NEW i \in 1 .. Len(src'[u]), NEW j \in 1 .. Len(src'[u]), i <= j
        PROVE  src'[u][i].at <= src'[u][j].at
    <3>1. CASE j \in 1 .. Len(src[u])
      <4>1. i \in 1 .. Len(src[u])
        BY <1>2, <2>2, <3>1
      <4> QED
        BY <1>2, <2>2, <3>1, <4>1 DEF BasicInv, SourceInv
    <3>2. CASE j \notin 1 .. Len(src[u])
      BY <1>2, <1>3, <2>1, <3>2
    <3> QED
      BY <3>1, <3>2
  <2>3. \A u \in Tables : cursor[u] <= Len(src'[u]) /\ applied[u] <= Len(src'[u])
    BY <1>2, Fields DEF BasicInv, SourceInv
  <2> QED
    BY <1>1, <2>1, <2>2, <2>3 DEF SourceInv
<1>5. ReadingInv'
  <2>1. \A u \in Tables : Read(u)' <=> Read(u)
    BY <1>1 DEF Read
  <2>2. ASSUME NEW u \in Tables, NEW b \in batch[u]
        PROVE  /\ b \in 1 .. Len(src'[u]) /\ cursor[u] < b /\ b <= cursor[u] + BatchSize
               /\ src'[u][b].ok
               /\ \A id \in cursor[u] + 1 .. b : src'[u][id].ok => id \in batch[u]
    <3>1. /\ b \in 1 .. Len(src[u]) /\ cursor[u] < b /\ b <= cursor[u] + BatchSize
          /\ src[u][b].ok
          /\ \A id \in cursor[u] + 1 .. b : src[u][id].ok => id \in batch[u]
      BY DEF BasicInv, ReadingInv
    <3>2. \A id \in cursor[u] + 1 .. b : id \in 1 .. Len(src[u])
      BY <1>2, <3>1, Fields DEF BasicInv
    <3> QED
      BY <1>2, <3>1, <3>2
  <2> QED
    BY <1>1, <2>1, <2>2 DEF BasicInv, ReadingInv
<1> QED
  BY <1>4, <1>5

LEMMA ReadKeepsBasic ==
  ASSUME BasicInv, NEW t \in Tables, ReadTable(t)
  PROVE  SourceInv' /\ ReadingInv'
<1>1. /\ UNCHANGED <<clock, src, cursor, applied>> /\ pc = t /\ pc' = NextRead(t)
      /\ batch' = [batch EXCEPT ![t] = Parsed(t)]
      /\ full' = IF Cardinality(Parsed(t)) >= BatchSize THEN full \cup {t} ELSE full
  BY DEF ReadTable, source
<1>2. SourceInv'
  BY <1>1 DEF BasicInv, SourceInv
<1>3. /\ batch'[t] = Parsed(t) /\ \A u \in Tables : u # t => batch'[u] = batch[u]
  BY <1>1 DEF BasicInv, TypeOK
<1>4. /\ pc' \in Tables \cup {"apply"}
      /\ \A u \in Tables : Read(u)' <=> (Read(u) \/ u = t)
  BY <1>1, ReadAdvances
<1>5. ASSUME NEW b \in Parsed(t)
      PROVE  /\ b \in 1 .. Len(src[t]) /\ cursor[t] < b /\ b <= cursor[t] + BatchSize /\ src[t][b].ok
             /\ \A id \in cursor[t] + 1 .. b : src[t][id].ok => id \in Parsed(t)
  <2>1. /\ b \in 1 .. Len(src[t]) /\ cursor[t] < b /\ b <= cursor[t] + BatchSize /\ src[t][b].ok
        /\ cursor[t] \in Nat /\ Len(src[t]) \in Nat /\ DOMAIN src[t] = 1 .. Len(src[t])
        /\ BatchSize \in Nat
    BY Fields, ProjectorBounds DEF ProjectorBounds, BasicInv, Parsed, Window
  <2>2. \A id \in cursor[t] + 1 .. b : /\ id \in 1 .. Len(src[t]) /\ cursor[t] < id
                                       /\ id <= cursor[t] + BatchSize
    BY <2>1
  <2> QED
    BY <2>1, <2>2 DEF Parsed, Window
<1>6. Cardinality(Parsed(t)) >= BatchSize => Parsed(t) # {}
  <2>1. BatchSize \in Nat /\ BatchSize # 0 /\ Cardinality({}) = 0
    BY FS_EmptySet, ProjectorBounds DEF ProjectorBounds
  <2> QED
    BY <2>1
<1>7. pc # "save" /\ pc' # "save"
  BY <1>1, <1>4 DEF Tables
<1>8. \A u \in Tables : \A b \in batch'[u] :
        /\ b \in 1 .. Len(src[u]) /\ cursor[u] < b /\ b <= cursor[u] + BatchSize /\ src[u][b].ok
        /\ \A id \in cursor[u] + 1 .. b : src[u][id].ok => id \in batch'[u]
  BY <1>3, <1>5 DEF BasicInv, ReadingInv
<1>9. ASSUME NEW u \in full' PROVE batch'[u] # {}
  <2>1. t \notin full /\ full \subseteq Tables
    BY <1>1, ReadAdvances DEF BasicInv, ReadingInv, TypeOK
  <2>2. CASE u = t
    BY <1>1, <1>3, <1>6, <1>9, <2>1, <2>2
  <2>3. CASE u # t
    <3>1. u \in full
      BY <1>1, <1>9, <2>3
    <3> QED
      BY <1>3, <2>1, <2>3, <3>1 DEF BasicInv, ReadingInv
  <2> QED
    BY <2>2, <2>3
<1>10. \A u \in Tables : ~Read(u)' => batch'[u] = {} /\ u \notin full'
  BY <1>1, <1>3, <1>4 DEF BasicInv, ReadingInv
<1>11. ReadingInv'
  BY <1>1, <1>7, <1>8, <1>9, <1>10 DEF BasicInv, ReadingInv
<1> QED
  BY <1>2, <1>11

LEMMA ApplyKeepsBasic ==
  ASSUME BasicInv, ApplyRows
  PROVE  SourceInv' /\ ReadingInv'
<1>1. ASSUME NEW t \in Tables PROVE LastApplied(Merged, t) <= Len(src[t])
  <2>1. CASE LastApplied(Merged, t) = 0
    BY <2>1, Fields DEF BasicInv
  <2>2. CASE \E k \in 1 .. Len(Merged) : Merged[k] = [table |-> t, id |-> LastApplied(Merged, t)]
    <3>1. [table |-> t, id |-> LastApplied(Merged, t)] \in Items
      BY <2>2, MergedRows
    <3> QED
      BY <3>1, ItemsAre, Fields DEF BasicInv
  <2> QED
    BY <2>1, <2>2, LastAppliedIs
<1>2. SourceInv'
  BY <1>1, ApplyEffect DEF BasicInv, SourceInv
<1>3. ReadingInv'
  BY ApplyEffect DEF ReadingInv, NoRows
<1> QED
  BY <1>2, <1>3

LEMMA BasicStep ==
  ASSUME BasicInv, [Next]_vars
  PROVE  BasicInv'
<1> USE DEF source, reading
<1>1. SUFFICES SourceInv' /\ ReadingInv'
  BY TypeStep DEF BasicInv
<1>2. CASE ClockTicks
  <2>1. clock' = clock + 1 /\ UNCHANGED <<src, cursor, pc, batch, full, applied>>
    BY <1>2 DEF ClockTicks
  <2>2. clock \in Nat /\ \A t \in Tables : \A id \in 1 .. Len(src[t]) : src[t][id].at \in Nat
    BY Fields DEF BasicInv
  <2>3. SourceInv'
    BY <2>1, <2>2 DEF BasicInv, SourceInv
  <2> QED
    BY <2>1, <2>3 DEF BasicInv, ReadingInv, Read
<1>3. ASSUME NEW stop \in BOOLEAN, BeginTick(stop) PROVE SourceInv' /\ ReadingInv'
  <2>1. pc = "idle" /\ pc' = "orders" /\ UNCHANGED <<clock, src, cursor, batch, full, applied>>
    BY <1>3 DEF BeginTick
  <2>2. \A t \in Tables : ~Read(t)
    BY <2>1 DEF Read, Tables
  <2> QED
    BY <2>1, <2>2 DEF BasicInv, SourceInv, ReadingInv
<1>4. ASSUME NEW t \in Tables, SetCursor(t) PROVE SourceInv' /\ ReadingInv'
  <2>1. /\ pc = "save" /\ cursor' = [cursor EXCEPT ![t] = applied[t]]
        /\ UNCHANGED <<clock, src, pc, batch, full, applied>>
    BY <1>4 DEF SetCursor
  <2>2. \A u \in Tables : cursor'[u] = cursor[u] \/ cursor'[u] = applied[u]
    BY <2>1 DEF BasicInv, TypeOK
  <2>3. \A u \in Tables : batch[u] = {}
    BY <2>1 DEF BasicInv, ReadingInv, Read, Tables
  <2> QED
    BY <2>1, <2>2, <2>3 DEF BasicInv, SourceInv, ReadingInv, Read
<1>5. CASE CursorsSaved
  <2>1. /\ pc = "save" /\ pc' = "flush" /\ applied' = NoIds
        /\ UNCHANGED <<clock, src, cursor, batch, full>>
    BY <1>5 DEF CursorsSaved
  <2>2. \A u \in Tables : batch[u] = {} /\ applied'[u] = 0 /\ Len(src[u]) \in Nat
    BY <2>1, Fields DEF BasicInv, ReadingInv, Read, Tables, NoIds
  <2>3. full = {}
    BY <2>1 DEF BasicInv, ReadingInv, TypeOK, Read, Tables
  <2> QED
    BY <2>1, <2>2, <2>3 DEF BasicInv, SourceInv, ReadingInv
<1>6. CASE FlushInterval \/ UNCHANGED vars
  BY <1>6 DEF FlushInterval, vars, BasicInv, SourceInv, ReadingInv, Read
<1>7. CASE EndFlush \/ TickFails \/ FlushFails \/ Crash
  BY <1>7, ResetKeeps DEF EndFlush, TickFails, FlushFails, Crash, TickOver, Reset
<1> QED
  BY <1>2, <1>3, <1>4, <1>5, <1>6, <1>7, WritesKeepBasic, ReadKeepsBasic, ApplyKeepsBasic
  DEF Next, Tick

LEMMA BasicInvariant == Spec => []BasicInv
<1>1. Init => BasicInv
  <2> SUFFICES ASSUME Init PROVE BasicInv
    OBVIOUS
  <2>1. \A t \in Tables : src[t] = <<>> /\ batch[t] = {} /\ cursor[t] = 0 /\ applied[t] = 0
    BY DEF Init, NoIds, NoRows
  <2>2. TypeOK
    <3>1. /\ src \in [Tables -> Seq([at : Nat, ok : BOOLEAN])]
          /\ cursor \in [Tables -> Nat] /\ applied \in [Tables -> Nat]
          /\ batch \in [Tables -> SUBSET Nat]
      BY DEF Init, NoIds, NoRows
    <3>2. /\ open \in Seq(RowId) /\ kept \in Seq(RowId) /\ history \in Seq(RowId)
          /\ full \in SUBSET Tables
      BY DEF Init
    <3> QED
      BY <3>1, <3>2 DEF Init, TypeOK
  <2>3. SourceInv
    BY <2>1 DEF SourceInv
  <2>4. ReadingInv
    BY <2>1 DEF Init, ReadingInv
  <2> QED
    BY <2>2, <2>3, <2>4 DEF BasicInv
<1> QED
  BY <1>1, BasicStep, PTL DEF Spec

(* Every variable keeps its type; a batch holds ids and the timeline made  *)
(* of the batches is a sequence of rows.                                   *)
THEOREM TypeCorrect == Spec => []TypeOK
<1>1. BasicInv => TypeOK
  BY DEF BasicInv
<1> QED
  BY <1>1, BasicInvariant, PTL

-----------------------------------------------------------------------------
(* What the other steps do to the source, the cursors and the history.     *)
LEMMA OtherSteps ==
  ASSUME BasicInv, [Next]_vars, ~ApplyRows
  PROVE  /\ history' = history
         /\ applied' = applied \/ applied' = NoIds
         /\ \/ cursor' = cursor
            \/ \E t \in Tables : SetCursor(t) /\ applied' = applied /\ applied[t] > cursor[t]
                 /\ cursor'[t] = applied[t]
                 /\ \A u \in Tables : u # t => cursor'[u] = cursor[u]
         /\ \A t \in Tables :
              /\ Len(src[t]) <= Len(src'[t])
              /\ \A id \in 1 .. Len(src[t]) : src'[t][id] = src[t][id]
<1> USE DEF source, reading
<1>1. ASSUME NEW t \in Tables, NEW ok \in BOOLEAN, Writes(t, ok)
      PROVE  /\ UNCHANGED <<history, applied, cursor>>
             /\ \A u \in Tables :
                  /\ Len(src[u]) <= Len(src'[u])
                  /\ \A id \in 1 .. Len(src[u]) : src'[u][id] = src[u][id]
  BY <1>1, WritesEffect DEF Writes, BasicInv
<1>2. ASSUME NEW t \in Tables, SetCursor(t)
      PROVE  /\ UNCHANGED <<history, applied, src>>
             /\ applied[t] > cursor[t] /\ cursor'[t] = applied[t]
             /\ \A u \in Tables : u # t => cursor'[u] = cursor[u]
  BY <1>2 DEF SetCursor, Unsaved, BasicInv, TypeOK
<1>3. \A t \in Tables : Len(src[t]) <= Len(src[t])
  BY Fields DEF BasicInv
<1>4. ASSUME NEW t \in Tables, ReadTable(t) PROVE UNCHANGED <<history, applied, cursor, src>>
  BY <1>4 DEF ReadTable
<1>5. ASSUME NEW stop \in BOOLEAN, BeginTick(stop) PROVE UNCHANGED <<history, applied, cursor, src>>
  BY <1>5 DEF BeginTick
<1>6. CASE ClockTicks \/ FlushInterval \/ UNCHANGED vars
  BY <1>3, <1>6 DEF ClockTicks, FlushInterval, vars
<1>7. CASE CursorsSaved \/ EndFlush \/ TickFails \/ FlushFails \/ Crash
  BY <1>3, <1>7 DEF CursorsSaved, EndFlush, TickFails, FlushFails, Crash, TickOver
<1> QED
  BY <1>1, <1>2, <1>3, <1>4, <1>5, <1>6, <1>7 DEF Next, Tick

(* Behind a cursor, and behind the id to be saved as one, every row with a *)
(* time that parses was applied.                                           *)
PassedInv ==
  /\ \A n \in 1 .. Len(history) : history[n].id \in 1 .. Len(src[history[n].table])
  /\ \A t \in Tables : \A id \in 1 .. cursor[t] : src[t][id].ok => AppliedRow(t, id)
  /\ \A t \in Tables : \A id \in 1 .. applied[t] : src[t][id].ok => AppliedRow(t, id)

LEMMA ApplyPasses ==
  ASSUME BasicInv, PassedInv, ApplyRows
  PROVE  PassedInv'
<1>1. /\ history' = history \o Merged /\ UNCHANGED <<src, cursor>>
      /\ history \in Seq(RowId) /\ Merged \in Seq(RowId)
      /\ \A t \in Tables : applied'[t] = LastApplied(Merged, t)
  BY ApplyEffect
<1>2. /\ DOMAIN history' = 1 .. Len(history') /\ DOMAIN history = 1 .. Len(history)
      /\ Len(history) \in Nat /\ Len(Merged) \in Nat
      /\ Len(history') = Len(history) + Len(Merged)
      /\ \A n \in 1 .. Len(history) : n \in 1 .. Len(history') /\ history'[n] = history[n]
      /\ \A k \in 1 .. Len(Merged) : /\ Len(history) + k \in 1 .. Len(history')
                                     /\ history'[Len(history) + k] = Merged[k]
      /\ \A n \in 1 .. Len(history') :
           n \in 1 .. Len(history) \/ \E k \in 1 .. Len(Merged) : n = Len(history) + k
  BY <1>1, RowsAppended
<1>3. ASSUME NEW n \in 1 .. Len(history')
      PROVE  history'[n].id \in 1 .. Len(src'[history'[n].table])
  <2>1. CASE n \in 1 .. Len(history)
    BY <1>1, <1>2, <2>1 DEF PassedInv
  <2>2. CASE \E k \in 1 .. Len(Merged) : n = Len(history) + k
    BY <1>1, <1>2, <2>2, MergedRows, ItemsAre
  <2> QED
    BY <1>2, <2>1, <2>2
<1>4. \A t, id : AppliedRow(t, id) => AppliedRow(t, id)'
  BY <1>2 DEF AppliedRow
<1>5. ASSUME NEW t \in Tables, NEW id \in 1 .. LastApplied(Merged, t), src[t][id].ok
      PROVE  AppliedRow(t, id)'
  <2> DEFINE last == LastApplied(Merged, t)
             q == [table |-> t, id |-> last]
             r == [table |-> t, id |-> id]
  <2>1. /\ last \in Nat /\ cursor[t] \in Nat /\ Len(src[t]) \in Nat
        /\ id \in Nat /\ id <= last
    <3>1. last \in Nat /\ id \in 1 .. last
      BY LastAppliedIs
    <3> HIDE DEF last
    <3>2. id \in Nat /\ id <= last
      BY <3>1
    <3> QED
      BY <3>1, <3>2, Fields DEF BasicInv
  <2>2. PICK k \in 1 .. Len(Merged) : Merged[k] = q
    BY <2>1, LastAppliedIs
  <2>3. q \in Items /\ Safe(q)
    BY <2>2, MergedRows
  <2>4. last \in batch[t]
    BY <2>3, ItemsAre
  <2>5. CASE id <= cursor[t]
    <3>1. id \in 1 .. cursor[t]
      BY <2>1, <2>5
    <3> QED
      BY <1>4, <1>5, <3>1 DEF PassedInv
  <2>6. CASE cursor[t] < id
    <3>1. id \in cursor[t] + 1 .. last
      BY <2>1, <2>6
    <3>2. id \in batch[t]
      BY <1>5, <2>4, <3>1 DEF BasicInv, ReadingInv
    <3>3. r \in Items /\ last \in 1 .. Len(src[t])
      BY <2>1, <2>4, <3>2, ItemsAre DEF RowId, BasicInv, ReadingInv
    <3>4. At(r) <= At(q)
      <4>1. id \in 1 .. Len(src[t])
        BY <2>1, <3>3
      <4> QED
        BY <2>1, <3>3, <4>1 DEF BasicInv, SourceInv, At
    <3>5. Safe(r)
      <4> SUFFICES ASSUME NEW u \in full
                   PROVE  At(r) <= At([table |-> u, id |-> LastRead(u)])
        BY DEF Safe
      <4>1. u \in Tables /\ LastRead(u) \in batch[u]
        BY LastReadIs DEF BasicInv, ReadingInv, TypeOK
      <4>2. [table |-> u, id |-> LastRead(u)] \in Items
        BY <4>1, Fields, ItemsAre DEF RowId, BasicInv
      <4>3. At(q) <= At([table |-> u, id |-> LastRead(u)])
        BY <2>3 DEF Safe
      <4>4. At(r) \in Nat /\ At(q) \in Nat /\ At([table |-> u, id |-> LastRead(u)]) \in Nat
        BY <2>3, <3>3, <4>2, ItemsAre
      <4> HIDE DEF r, q
      <4> QED
        BY <3>4, <4>3, <4>4
    <3>6. PICK j \in 1 .. Len(Merged) : Merged[j] = r
      BY <3>3, <3>5, MergedRows
    <3> QED
      BY <1>2, <3>6 DEF AppliedRow
  <2> QED
    BY <2>1, <2>5, <2>6
<1>6. \A t \in Tables : \A id \in 1 .. cursor'[t] : src'[t][id].ok => AppliedRow(t, id)'
  BY <1>1, <1>4 DEF PassedInv
<1>7. \A t \in Tables : \A id \in 1 .. applied'[t] : src'[t][id].ok => AppliedRow(t, id)'
  BY <1>1, <1>5
<1> QED
  BY <1>3, <1>6, <1>7 DEF PassedInv

LEMMA PassedInvariant == Spec => []PassedInv
<1>1. Init => PassedInv
  <2> SUFFICES ASSUME Init PROVE PassedInv
    OBVIOUS
  <2>1. Len(history) = 0 /\ \A t \in Tables : cursor[t] = 0 /\ applied[t] = 0
    BY DEF Init, NoIds
  <2> QED
    BY <2>1 DEF PassedInv
<1>2. BasicInv /\ PassedInv /\ [Next]_vars => PassedInv'
  <2> SUFFICES ASSUME BasicInv, PassedInv, [Next]_vars, ~ApplyRows PROVE PassedInv'
    BY ApplyPasses
  <2>1. /\ history' = history
        /\ \A t \in Tables :
             /\ Len(src[t]) \in Nat /\ Len(src'[t]) \in Nat /\ Len(src[t]) <= Len(src'[t])
             /\ \A id \in 1 .. Len(src[t]) : src'[t][id] = src[t][id]
    <3>1. TypeOK'
      BY TypeStep
    <3>2. \A t \in Tables : Len(src'[t]) \in Nat
      BY <3>1, LenProperties DEF TypeOK
    <3> QED
      BY <3>2, OtherSteps, Fields DEF BasicInv
  <2>2. \A t, id : AppliedRow(t, id)' <=> AppliedRow(t, id)
    BY <2>1 DEF AppliedRow
  <2>3. /\ \A t \in Tables : cursor'[t] \in {cursor[t], applied[t]}
        /\ \A t \in Tables : applied'[t] = applied[t] \/ applied'[t] = 0
    BY OtherSteps DEF NoIds
  <2>4. \A t \in Tables : cursor[t] <= Len(src[t]) /\ applied[t] <= Len(src[t])
    BY DEF BasicInv, SourceInv
  <2>5. \A n \in 1 .. Len(history') : history'[n].id \in 1 .. Len(src'[history'[n].table])
    <3> TAKE n \in 1 .. Len(history')
    <3>1. history[n].table \in Tables /\ history[n].id \in 1 .. Len(src[history[n].table])
      BY <2>1, Fields DEF PassedInv, BasicInv
    <3> QED
      BY <2>1, <3>1
  <2>6. \A t \in Tables : cursor[t] \in Nat /\ applied[t] \in Nat
    BY Fields DEF BasicInv
  <2>7. ASSUME NEW t \in Tables, NEW id \in 1 .. cursor[t], src'[t][id].ok
        PROVE  AppliedRow(t, id)
    <3>1. id \in 1 .. Len(src[t])
      BY <2>1, <2>4, <2>6
    <3> QED
      BY <2>1, <2>7, <3>1 DEF PassedInv
  <2>8. ASSUME NEW t \in Tables, NEW id \in 1 .. applied[t], src'[t][id].ok
        PROVE  AppliedRow(t, id)
    <3>1. id \in 1 .. Len(src[t])
      BY <2>1, <2>4, <2>6
    <3> QED
      BY <2>1, <2>8, <3>1 DEF PassedInv
  <2> QED
    BY <2>2, <2>3, <2>5, <2>7, <2>8 DEF PassedInv
<1> QED
  BY <1>1, <1>2, BasicInvariant, PTL DEF Spec

(* No row is skipped: whatever lies behind a cursor was applied, although  *)
(* the cursor is the last row in time order and rows beyond the safe point *)
(* are left for the next tick.                                             *)
THEOREM NoRowSkipped == Spec => []CursorPassesAppliedRows
<1>1. PassedInv => CursorPassesAppliedRows
  BY DEF PassedInv, CursorPassesAppliedRows
<1> QED
  BY <1>1, PassedInvariant, PTL

-----------------------------------------------------------------------------
(* How often a row is applied: once, when it is behind the cursor or about *)
(* to be, and once for every failure.                                      *)
Places(r) == {n \in DOMAIN history : history[n] = r}
CountInv ==
  \A r \in RowId :
    Cardinality(Places(r)) <=
      failures + (IF r.id <= cursor[r.table] \/ r.id <= applied[r.table] THEN 1 ELSE 0)

LEMMA PlacesFinite ==
  ASSUME TypeOK
  PROVE  \A r : IsFiniteSet(Places(r)) /\ Cardinality(Places(r)) \in Nat
<1>1. IsFiniteSet(1 .. Len(history))
  <2>1. Len(history) \in Int
    BY Fields
  <2> QED
    BY <2>1, FS_Interval
<1>2. \A r : Places(r) \subseteq 1 .. Len(history)
  BY Fields DEF Places
<1> QED
  BY <1>1, <1>2, FS_Subset, FS_CardinalityType

(* Only a failure forgets what is to be saved. *)
LEMMA ForgetsOnlyWhenSaved ==
  ASSUME BasicInv, [Next]_vars, ~ApplyRows
  PROVE  \/ failures' = failures + 1
         \/ /\ failures' = failures
            /\ \A t \in Tables : applied'[t] = applied[t] \/ applied[t] <= cursor[t]
<1> USE DEF source, reading
<1>1. ASSUME NEW t \in Tables, NEW ok \in BOOLEAN, Writes(t, ok)
      PROVE  failures' = failures /\ applied' = applied
  BY <1>1 DEF Writes
<1>2. ASSUME NEW t \in Tables, SetCursor(t) \/ ReadTable(t)
      PROVE  failures' = failures /\ applied' = applied
  BY <1>2 DEF SetCursor, ReadTable
<1>3. ASSUME NEW stop \in BOOLEAN, BeginTick(stop)
      PROVE  failures' = failures /\ applied' = applied
  BY <1>3 DEF BeginTick
<1>4. CASE ClockTicks \/ FlushInterval \/ UNCHANGED vars
  BY <1>4 DEF ClockTicks, FlushInterval, vars
<1>5. CASE CursorsSaved
  BY <1>5, Fields DEF CursorsSaved, Unsaved, BasicInv
<1>6. CASE EndFlush
  <2>1. failures' = failures /\ applied = NoIds
    BY <1>6 DEF EndFlush, BasicInv, ReadingInv
  <2>2. \A t \in Tables : applied[t] <= cursor[t]
    BY <2>1, Fields DEF NoIds, BasicInv
  <2> QED
    BY <2>1, <2>2
<1>7. CASE TickFails \/ FlushFails \/ Crash
  BY <1>7 DEF TickFails, FlushFails, Crash, Fails
<1> QED
  BY <1>1, <1>2, <1>3, <1>4, <1>5, <1>6, <1>7 DEF Next, Tick

LEMMA ApplyCounts ==
  ASSUME BasicInv, CountInv, ApplyRows
  PROVE  CountInv'
<1>1. /\ history' = history \o Merged /\ UNCHANGED <<cursor, failures>> /\ pc = "apply"
      /\ history \in Seq(RowId) /\ Merged \in Seq(RowId)
      /\ \A t \in Tables : applied'[t] = LastApplied(Merged, t)
  BY ApplyEffect
<1> DEFINE a == Len(history)
           b == Len(Merged)
<1>2. /\ DOMAIN history' = 1 .. a + b /\ DOMAIN history = 1 .. a /\ a \in Nat /\ b \in Nat
      /\ \A n \in 1 .. a : history'[n] = history[n]
      /\ \A k \in 1 .. b : history'[a + k] = Merged[k]
      /\ \A n \in 1 .. a + b : n \in 1 .. a \/ \E k \in 1 .. b : n = a + k
  BY <1>1, RowsAppended, Fields DEF BasicInv
<1> HIDE DEF a, b
<1>3. SUFFICES ASSUME NEW r \in RowId
               PROVE  Cardinality(Places(r)') <=
                        failures + (IF r.id <= cursor[r.table] \/ r.id <= applied'[r.table]
                                    THEN 1 ELSE 0)
  BY <1>1 DEF CountInv
<1>4. /\ r.table \in Tables /\ r.id \in Nat /\ r = [table |-> r.table, id |-> r.id]
      /\ cursor[r.table] \in Nat /\ failures \in Nat /\ applied'[r.table] \in Nat
      /\ applied[r.table] = 0 /\ IsFiniteSet(Places(r)) /\ Cardinality(Places(r)) \in Nat
  <2>1. r.table \in Tables /\ r.id \in Nat /\ r = [table |-> r.table, id |-> r.id]
    BY <1>3 DEF RowId
  <2>2. cursor[r.table] \in Nat /\ failures \in Nat /\ applied[r.table] = 0
    BY <1>1, <2>1, Fields DEF BasicInv, ReadingInv, NoIds
  <2>3. applied'[r.table] \in Nat
    BY <2>1, ApplyEffect
  <2>4. IsFiniteSet(Places(r)) /\ Cardinality(Places(r)) \in Nat
    BY PlacesFinite DEF BasicInv
  <2> QED
    BY <2>1, <2>2, <2>3, <2>4
<1>5. CASE \A k \in 1 .. b : Merged[k] # r
  <2>1. Places(r)' = Places(r)
    <3>1. \A n \in 1 .. a : n \in 1 .. a + b
      BY <1>2
    <3> QED
      BY <1>2, <1>5, <3>1 DEF Places
  <2> QED
    BY <1>4, <2>1 DEF CountInv
<1>6. ASSUME NEW k \in 1 .. b, Merged[k] = r
      PROVE  Cardinality(Places(r)') <=
               failures + (IF r.id <= cursor[r.table] \/ r.id <= applied'[r.table] THEN 1 ELSE 0)
  <2>1. r \in Items /\ \A j \in 1 .. b : j # k => Merged[j] # r
    <3>1. \A j \in 1 .. b : Merged[j] \in Items
      BY MergedRows DEF b
    <3>2. ASSUME NEW j \in 1 .. b, j # k, Merged[j] = r PROVE FALSE
      <4>1. j < k \/ k < j
        BY <3>2
      <4>2. Before(r, r)
        BY <1>6, <3>2, <4>1, MergedRows DEF b
      <4> QED
        BY <1>6, <3>1, <4>2, BeforeOrders
    <3> QED
      BY <1>6, <3>1, <3>2
  <2>2. Places(r)' = Places(r) \cup {a + k}
    <3>1. a + k \in 1 .. a + b /\ \A n \in 1 .. a : n \in 1 .. a + b
      BY <1>2
    <3> QED
      <4>1. \A n \in DOMAIN history' :
              history'[n] = r <=> n = a + k \/ (n \in 1 .. a /\ history[n] = r)
        <5> TAKE n \in DOMAIN history'
        <5>1. CASE n \in 1 .. a
          <6>1. n # a + k
            BY <1>2, <5>1
          <6> QED
            BY <1>2, <5>1, <6>1
        <5>2. CASE n \notin 1 .. a
          <6>1. PICK j \in 1 .. b : n = a + j
            BY <1>2, <5>2
          <6>2. history'[n] = Merged[j] /\ (n = a + k <=> j = k)
            BY <1>2, <6>1
          <6> QED
            BY <1>6, <2>1, <5>2, <6>2
        <5> QED
          BY <5>1, <5>2
      <4> QED
        BY <1>2, <3>1, <4>1 DEF Places
  <2>3. Cardinality(Places(r)') <= Cardinality(Places(r)) + 1
    <3> DEFINE P == Places(r)
    <3>1. IsFiniteSet(P) /\ Cardinality(P) \in Nat
      BY <1>4
    <3> HIDE DEF P
    <3>2. Cardinality(P \cup {a + k}) = IF a + k \in P THEN Cardinality(P) ELSE Cardinality(P) + 1
      BY <3>1, FS_AddElement
    <3>3. Cardinality(P \cup {a + k}) <= Cardinality(P) + 1
      BY <3>1, <3>2
    <3> QED
      BY <2>2, <3>3 DEF P
  <2>4. r.id \in batch[r.table]
    BY <2>1, ItemsAre
  <2>5. cursor[r.table] < r.id
    BY <1>4, <2>4 DEF BasicInv, ReadingInv
  <2>6. Cardinality(Places(r)) <= failures
    <3>1. Cardinality(Places(r)) <=
            failures + (IF r.id <= cursor[r.table] \/ r.id <= applied[r.table] THEN 1 ELSE 0)
      BY DEF CountInv
    <3> QED
      BY <1>4, <2>5, <3>1
  <2>7. r.id <= applied'[r.table]
    BY <1>1, <1>4, <1>6, LastAppliedIs DEF b
  <2>8. Cardinality(Places(r)') \in Nat
    <3> DEFINE P == Places(r)
    <3>1. IsFiniteSet(P)
      BY <1>4
    <3> HIDE DEF P
    <3>2. IsFiniteSet(P \cup {a + k})
      BY <3>1, FS_AddElement
    <3>3. Cardinality(P \cup {a + k}) \in Nat
      BY <3>2, FS_CardinalityType
    <3> QED
      BY <2>2, <3>3 DEF P
  <2> QED
    BY <1>4, <2>3, <2>6, <2>7, <2>8
<1> QED
  BY <1>5, <1>6

LEMMA CountInvariant == Spec => []CountInv
<1>1. Init => CountInv
  <2> SUFFICES ASSUME Init, NEW r \in RowId
               PROVE  Cardinality(Places(r)) <=
                        failures + (IF r.id <= cursor[r.table] \/ r.id <= applied[r.table]
                                    THEN 1 ELSE 0)
    BY DEF CountInv
  <2>1. Places(r) = {} /\ failures = 0
    BY DEF Init, Places
  <2> QED
    BY <2>1, FS_EmptySet
<1>2. BasicInv /\ CountInv /\ [Next]_vars => CountInv'
  <2> SUFFICES ASSUME BasicInv, CountInv, [Next]_vars, ~ApplyRows, NEW r \in RowId
               PROVE  Cardinality(Places(r)') <=
                        failures' + (IF r.id <= cursor'[r.table] \/ r.id <= applied'[r.table]
                                     THEN 1 ELSE 0)
    BY ApplyCounts DEF CountInv
  <2>1. Places(r)' = Places(r)
    BY OtherSteps DEF Places
  <2>2. /\ r.table \in Tables /\ r.id \in Nat /\ failures \in Nat
        /\ cursor[r.table] \in Nat /\ applied[r.table] \in Nat
        /\ Cardinality(Places(r)) \in Nat
    BY Fields, PlacesFinite DEF RowId, BasicInv
  <2>3. Cardinality(Places(r)) <=
          failures + (IF r.id <= cursor[r.table] \/ r.id <= applied[r.table] THEN 1 ELSE 0)
    BY DEF CountInv
  <2>4. cursor'[r.table] = cursor[r.table]
        \/ (cursor'[r.table] = applied[r.table] /\ cursor[r.table] < applied[r.table])
    BY <2>2, OtherSteps
  <2>5. CASE failures' = failures + 1
    BY <2>1, <2>2, <2>3, <2>5
  <2>6. CASE /\ failures' = failures
             /\ applied'[r.table] = applied[r.table] \/ applied[r.table] <= cursor[r.table]
    BY <2>1, <2>2, <2>3, <2>4, <2>6
  <2> QED
    BY <2>2, <2>5, <2>6, ForgetsOnlyWhenSaved
<1> QED
  BY <1>1, <1>2, BasicInvariant, PTL DEF Spec

(* No row is applied twice but for a failure, and then once more for each: *)
(* the batch is beyond the cursor, and the cursor is moved past the rows   *)
(* applied before the next batch is read.                                  *)
THEOREM AppliedOnce == Spec => []AppliedOnceUnlessFailed
<1>1. BasicInv /\ CountInv => AppliedOnceUnlessFailed
  <2> SUFFICES ASSUME BasicInv, CountInv, NEW n \in DOMAIN history
               PROVE  Cardinality({m \in DOMAIN history : history[m] = history[n]}) <= 1 + failures
    BY DEF AppliedOnceUnlessFailed
  <2> DEFINE r == history[n]
  <2>1. r \in RowId
    BY ElementOfSeq, Fields DEF BasicInv, TypeOK
  <2>2. Cardinality(Places(r)) \in Nat /\ failures \in Nat
    BY Fields, PlacesFinite DEF BasicInv
  <2>3. Cardinality(Places(r)) <=
          failures + (IF r.id <= cursor[r.table] \/ r.id <= applied[r.table] THEN 1 ELSE 0)
    BY <2>1 DEF CountInv
  <2>4. Cardinality(Places(r)) <= 1 + failures
    BY <2>2, <2>3
  <2> QED
    BY <2>4 DEF Places
<1> QED
  BY <1>1, BasicInvariant, CountInvariant, PTL

-----------------------------------------------------------------------------
(* Without a failure, what was applied is in the tracker or in the replica. *)
HeldInv == failures = 0 => \A n \in 1 .. Len(history) : history[n] \in Held

LEMMA ApplyHolds ==
  ASSUME BasicInv, ApplyRows, NEW r
  PROVE  (r \in Held => r \in Held') /\ (\A k \in 1 .. Len(Merged) : Merged[k] \in Held')
<1>1. /\ open' = open \o Merged /\ kept' = kept
      /\ open \in Seq(RowId) /\ Merged \in Seq(RowId)
  BY ApplyEffect
<1>2. /\ DOMAIN open' = 1 .. Len(open) + Len(Merged) /\ DOMAIN open = 1 .. Len(open)
      /\ Len(open) \in Nat /\ Len(Merged) \in Nat
      /\ \A n \in 1 .. Len(open) : open'[n] = open[n]
      /\ \A k \in 1 .. Len(Merged) : open'[Len(open) + k] = Merged[k]
  BY <1>1, RowsAppended, LenProperties
<1>3. /\ \A n \in 1 .. Len(open) : n \in DOMAIN open'
      /\ \A k \in 1 .. Len(Merged) : Len(open) + k \in DOMAIN open'
  BY <1>2
<1> QED
  BY <1>1, <1>2, <1>3 DEF Held

(* A flush moves rows from the tracker to the replica. *)
LEMMA FlushHolds ==
  ASSUME TypeOK, FlushInterval, NEW r \in Held
  PROVE  r \in Held'
<1> DEFINE n == Len(open)
           c == FirstCut
           first == SubSeq(open, 1, c - 1)
           rest == SubSeq(open, c, n)
           m == Len(kept)
<1>1. /\ kept' = kept \o first /\ open' = rest
      /\ c \in 2 .. n + 1 /\ n \in Nat /\ m \in Nat
      /\ first \in Seq(RowId) /\ rest \in Seq(RowId) /\ kept \in Seq(RowId)
  BY FlushTypes, CutsAre, Fields DEF FlushInterval, TypeOK
<1>2. \A k \in 1 .. n : open[k] \in RowId
  BY ElementOfSeq DEF TypeOK
<1> HIDE DEF n, c, m
<1>3. /\ Len(first) = c - 1 /\ \A k \in 1 .. c - 1 : first[k] = open[k]
  <2>1. 1 \in Int /\ c - 1 \in Int /\ \A k \in 1 .. c - 1 : open[k] \in RowId
    BY <1>1, <1>2
  <2>2. /\ Len(first) = IF 1 <= c - 1 THEN (c - 1) - 1 + 1 ELSE 0
        /\ \A k \in 1 .. (c - 1) - 1 + 1 : first[k] = open[1 + k - 1]
    BY <2>1, SubSeqProperties
  <2>3. \A k \in 1 .. c - 1 : k \in 1 .. (c - 1) - 1 + 1 /\ 1 + k - 1 = k
    BY <1>1
  <2> HIDE DEF first
  <2>4. Len(first) = c - 1
    BY <1>1, <2>2
  <2>5. \A k \in 1 .. c - 1 : first[k] = open[k]
    BY <2>2, <2>3
  <2> QED
    BY <2>4, <2>5
<1>4. /\ Len(rest) = n - c + 1 /\ \A k \in 1 .. n - c + 1 : rest[k] = open[c + k - 1]
  <2>1. c \in Int /\ n \in Int /\ \A k \in c .. n : open[k] \in RowId
    BY <1>1, <1>2
  <2>2. /\ Len(rest) = IF c <= n THEN n - c + 1 ELSE 0
        /\ \A k \in 1 .. n - c + 1 : rest[k] = open[c + k - 1]
    BY <2>1, SubSeqProperties
  <2> HIDE DEF rest
  <2> QED
    BY <1>1, <2>2
<1> HIDE DEF first, rest
<1>5. /\ DOMAIN kept' = 1 .. m + Len(first)
      /\ \A k \in 1 .. m : kept'[k] = kept[k]
      /\ \A k \in 1 .. Len(first) : kept'[m + k] = first[k]
  BY <1>1, RowsAppended DEF m
<1>6. DOMAIN open' = 1 .. Len(rest) /\ DOMAIN open = 1 .. n /\ DOMAIN kept = 1 .. m
  BY <1>1, LenProperties, Fields DEF n, m
<1>7. CASE \E k \in 1 .. m : r = kept[k]
  <2>1. \A k \in 1 .. m : k \in DOMAIN kept'
    BY <1>1, <1>3, <1>5
  <2> QED
    BY <1>5, <1>7, <2>1 DEF Held
<1>8. ASSUME NEW k \in 1 .. n, r = open[k] PROVE r \in Held'
  <2>1. CASE k <= c - 1
    <3>1. k \in 1 .. c - 1 /\ k \in 1 .. Len(first) /\ m + k \in DOMAIN kept'
      BY <1>1, <1>3, <1>5, <2>1
    <3>2. kept'[m + k] = r
      BY <1>3, <1>5, <1>8, <3>1
    <3> QED
      BY <3>1, <3>2 DEF Held
  <2>2. CASE c <= k
    <3> DEFINE j == k - c + 1
    <3>1. j \in 1 .. n - c + 1 /\ c + j - 1 = k /\ j \in DOMAIN open'
      BY <1>1, <1>4, <1>6, <2>2
    <3> HIDE DEF j
    <3>2. open'[j] = r
      BY <1>1, <1>4, <1>8, <3>1
    <3> QED
      BY <3>1, <3>2 DEF Held
  <2> QED
    BY <1>1, <2>1, <2>2
<1> QED
  BY <1>6, <1>7, <1>8 DEF Held

LEMMA HeldInvariant == Spec => []HeldInv
<1>1. Init => HeldInv
  BY DEF Init, HeldInv
<1>2. BasicInv /\ HeldInv /\ [Next]_vars => HeldInv'
  <2> USE DEF source, reading
  <2> SUFFICES ASSUME BasicInv, HeldInv, [Next]_vars, failures' = 0, NEW n \in 1 .. Len(history')
               PROVE  history'[n] \in Held'
    BY DEF HeldInv
  <2>0. failures \in Nat /\ TypeOK
    BY Fields DEF BasicInv
  <2>1. CASE ApplyRows
    <3>1. /\ history' = history \o Merged /\ history \in Seq(RowId) /\ Merged \in Seq(RowId)
          /\ failures' = failures
      BY <2>1, ApplyEffect
    <3>2. /\ \A k \in 1 .. Len(history) : history'[k] = history[k]
          /\ \A k \in 1 .. Len(Merged) : history'[Len(history) + k] = Merged[k]
          /\ n \in 1 .. Len(history) \/ \E k \in 1 .. Len(Merged) : n = Len(history) + k
      BY <3>1, RowsAppended
    <3> QED
      BY <2>1, <3>1, <3>2, ApplyHolds DEF HeldInv
  <2>2. CASE failures' = failures /\ history' = history /\ \A r \in Held : r \in Held'
    BY <2>2 DEF HeldInv
  <2>3. CASE FlushInterval
    BY <2>0, <2>2, <2>3, FlushHolds DEF FlushInterval
  <2>4. CASE EndFlush
    <3>1. open' = open
      <4>1. pc = "final" => open = <<>>
        BY <2>4 DEF EndFlush, Cuts
      <4> QED
        BY <2>4, <4>1 DEF EndFlush
    <3> QED
      BY <2>2, <2>4, <3>1 DEF EndFlush, Held
  <2>5. CASE UNCHANGED <<open, kept, history, failures>>
    BY <2>2, <2>5 DEF Held
  <2>6. ASSUME NEW t \in Tables, NEW ok \in BOOLEAN, Writes(t, ok)
        PROVE  UNCHANGED <<open, kept, history, failures>>
    BY <2>6 DEF Writes
  <2>7. ASSUME NEW t \in Tables, ReadTable(t) \/ SetCursor(t)
        PROVE  UNCHANGED <<open, kept, history, failures>>
    BY <2>7 DEF ReadTable, SetCursor
  <2>8. ASSUME NEW stop \in BOOLEAN, BeginTick(stop)
        PROVE  UNCHANGED <<open, kept, history, failures>>
    BY <2>8 DEF BeginTick
  <2>9. ClockTicks \/ CursorsSaved \/ UNCHANGED vars => UNCHANGED <<open, kept, history, failures>>
    BY DEF ClockTicks, CursorsSaved, vars
  <2>10. ~ (TickFails \/ FlushFails \/ Crash)
    BY <2>0 DEF TickFails, FlushFails, Crash, Fails
  <2> QED
    BY <2>1, <2>3, <2>4, <2>5, <2>6, <2>7, <2>8, <2>9, <2>10 DEF Next, Tick
<1> QED
  BY <1>1, <1>2, BasicInvariant, PTL DEF Spec

(* A stop and a restart lose nothing: without a failure every row behind a *)
(* cursor is in the replica or in the tracker.                             *)
THEOREM NothingLostByStop == Spec => []StopLosesNothing
<1>1. BasicInv /\ PassedInv /\ HeldInv => StopLosesNothing
  <2> SUFFICES ASSUME BasicInv, PassedInv, HeldInv, failures = 0, NEW t \in Tables,
                      NEW id \in 1 .. MaxRows, id <= cursor[t], src[t][id].ok
               PROVE  [table |-> t, id |-> id] \in Held
    BY DEF StopLosesNothing, RowLost
  <2>1. id \in 1 .. cursor[t]
    BY ProjectorBounds, Fields DEF ProjectorBounds, BasicInv
  <2>2. PICK n \in DOMAIN history : history[n] = [table |-> t, id |-> id]
    BY <2>1 DEF PassedInv, AppliedRow
  <2>3. n \in 1 .. Len(history)
    BY Fields DEF BasicInv
  <2> QED
    BY <2>2, <2>3 DEF HeldInv
<1> QED
  BY <1>1, BasicInvariant, PassedInvariant, HeldInvariant, PTL

-----------------------------------------------------------------------------
(* Which rows reach the tracker after younger ones.  A row that waits is   *)
(* one behind the cursor that parses, with no rejected row before it.      *)

TimeOf(t, id) == src[t][id].at
AllParse(t, id) == \A j \in cursor[t] + 1 .. id : src[t][j].ok
Waits(t, id) == cursor[t] < id /\ AllParse(t, id)

(* What was read, and what is to be saved, has no rejected row before it.  *)
ParseInv ==
  \A t \in Tables : (\A b \in batch[t] : AllParse(t, b)) /\ AllParse(t, applied[t])

(* A row that waits and was not read with its table lies beyond a full     *)
(* batch, or is younger than everything read up to that table.             *)
UnreadInv ==
  \A t \in Tables : \A id \in 1 .. Len(src[t]) :
    Read(t) /\ Waits(t, id) /\ id \notin batch[t] =>
      \/ t \in full /\ \A b \in batch[t] : b < id
      \/ \A u \in Tables : ReadRank[u] <= ReadRank[t] =>
           \A b \in batch[u] : TimeOf(u, b) <= TimeOf(t, id)

(* A row that waits is older than one applied only if its table is read    *)
(* earlier.                                                                *)
WaitInv ==
  \A n \in 1 .. Len(history) : \A t \in Tables : \A id \in 1 .. Len(src[t]) :
    Waits(t, id) /\ ~AppliedRow(t, id) /\ TimeOf(t, id) < At(history[n])
      => ReadRank[t] < ReadRank[history[n].table]

(* A row that waits when its table is read is in the batch, or the batch   *)
(* is full of rows before it.                                              *)
LEMMA FullWindow ==
  ASSUME BasicInv, NEW t \in Tables, NEW id \in 1 .. Len(src[t]), Waits(t, id)
  PROVE  \/ id \in Parsed(t)
         \/ Cardinality(Parsed(t)) >= BatchSize /\ \A b \in Parsed(t) : b < id
<1> DEFINE c == cursor[t]
           n == BatchSize
<1>1. /\ c \in Nat /\ n \in Nat /\ Len(src[t]) \in Nat /\ DOMAIN src[t] = 1 .. Len(src[t])
      /\ id \in Nat /\ c < id
  BY Fields, ProjectorBounds DEF ProjectorBounds, BasicInv, Waits
<1>2. \A j \in c + 1 .. id : src[t][j].ok
  BY DEF Waits, AllParse
<1>3. \A j : j \in Parsed(t) <=> j \in 1 .. Len(src[t]) /\ c < j /\ j <= c + n /\ src[t][j].ok
  BY <1>1 DEF Parsed, Window
<1> HIDE DEF c, n
<1>4. CASE id <= c + n
  <2>1. id \in c + 1 .. id
    BY <1>1
  <2> QED
    BY <1>1, <1>2, <1>3, <1>4, <2>1
<1>5. CASE c + n < id
  <2>1. Parsed(t) = c + 1 .. c + n
    <3>1. \A j \in c + 1 .. c + n : j \in c + 1 .. id /\ j \in 1 .. Len(src[t]) /\ c < j /\ j <= c + n
      BY <1>1, <1>5
    <3>2. \A j \in Parsed(t) : j \in c + 1 .. c + n
      BY <1>1, <1>3
    <3> QED
      BY <1>2, <1>3, <3>1, <3>2
  <2>2. Cardinality(c + 1 .. c + n) = n
    <3>1. c + 1 \in Int /\ c + n \in Int
      BY <1>1
    <3>2. Cardinality(c + 1 .. c + n) = IF c + 1 > c + n THEN 0 ELSE (c + n) - (c + 1) + 1
      BY <3>1, FS_Interval
    <3> QED
      BY <1>1, <3>2
  <2>3. \A b \in c + 1 .. c + n : b < id
    BY <1>1, <1>5
  <2> QED
    BY <1>1, <2>1, <2>2, <2>3 DEF n
<1> QED
  BY <1>1, <1>4, <1>5

(* A cursor moves only to what was applied, and the source keeps its rows. *)
LEMMA CursorMoves ==
  ASSUME BasicInv, [Next]_vars, NEW t \in Tables
  PROVE  /\ \/ cursor'[t] = cursor[t]
            \/ cursor'[t] = applied[t] /\ cursor[t] < applied[t]
         /\ Len(src[t]) \in Nat /\ Len(src'[t]) \in Nat /\ Len(src[t]) <= Len(src'[t])
         /\ cursor[t] \in Nat /\ applied[t] \in Nat /\ cursor'[t] \in Nat /\ applied'[t] \in Nat
         /\ \A id \in 1 .. Len(src[t]) : src'[t][id] = src[t][id] /\ TimeOf(t, id)' = TimeOf(t, id)
<1>1. /\ Len(src[t]) \in Nat /\ cursor[t] \in Nat /\ applied[t] \in Nat
  BY Fields DEF BasicInv
<1>2. Len(src'[t]) \in Nat /\ cursor'[t] \in Nat /\ applied'[t] \in Nat
  <2>1. TypeOK'
    BY TypeStep
  <2> QED
    BY <2>1, LenProperties DEF TypeOK
<1>3. CASE ApplyRows
  BY <1>1, <1>2, <1>3, ApplyEffect DEF TimeOf
<1>4. CASE ~ApplyRows
  BY <1>1, <1>2, <1>4, OtherSteps DEF TimeOf
<1> QED
  BY <1>3, <1>4

(* Rows that wait after a step waited before it. *)
LEMMA WaitsKept ==
  ASSUME BasicInv, ParseInv, [Next]_vars, NEW t \in Tables, NEW id \in 0 .. Len(src[t])
  PROVE  (AllParse(t, id) => AllParse(t, id)') /\ (Waits(t, id)' => Waits(t, id))
<1> DEFINE c == cursor[t]
           d == cursor'[t]
           n == Len(src[t])
<1>1. /\ c \in Nat /\ d \in Nat /\ n \in Nat /\ c <= d
      /\ d = c \/ d = applied[t]
      /\ \A j \in 1 .. n : src'[t][j] = src[t][j]
  BY CursorMoves
<1>2. AllParse(t, applied[t])
  BY DEF ParseInv
<1> HIDE DEF c, d, n
<1>3. id \in Nat /\ id <= n
  BY <1>1 DEF n
<1>4. \A j \in d + 1 .. id : j \in 1 .. n /\ j \in c + 1 .. id
  BY <1>1, <1>3
<1>5. AllParse(t, id) => AllParse(t, id)'
  <2> SUFFICES ASSUME AllParse(t, id) PROVE \A j \in d + 1 .. id : src'[t][j].ok
    BY DEF AllParse, d
  <2>1. \A j \in c + 1 .. id : src[t][j].ok
    BY DEF AllParse, c
  <2> QED
    BY <1>1, <1>4, <2>1
<1>6. ASSUME Waits(t, id)' PROVE Waits(t, id)
  <2>1. d < id /\ \A j \in d + 1 .. id : src'[t][j].ok
    BY <1>6 DEF Waits, AllParse, d
  <2>2. c < id
    BY <1>1, <1>3, <2>1
  <2>3. ASSUME NEW j \in c + 1 .. id PROVE src[t][j].ok
    <3>1. CASE d + 1 <= j
      <4>1. j \in d + 1 .. id
        BY <1>1, <1>3, <3>1
      <4>2. j \in 1 .. n
        BY <1>4, <4>1
      <4> QED
        BY <1>1, <2>1, <4>1, <4>2
    <3>2. CASE ~ d + 1 <= j
      <4>1. d # c /\ j \in c + 1 .. d
        BY <1>1, <1>3, <3>2
      <4>2. j \in c + 1 .. applied[t]
        BY <1>1, <4>1
      <4> QED
        BY <1>2, <4>2 DEF AllParse, c
    <3> QED
      BY <3>1, <3>2
  <2> QED
    BY <2>2, <2>3 DEF Waits, AllParse, c
<1> QED
  BY <1>5, <1>6

LEMMA ParseStep ==
  ASSUME BatchSize = 1 \/ ~BadRows, BasicInv, ParseInv, [Next]_vars
  PROVE  ParseInv'
<1> USE DEF source, reading
<1>1. ASSUME NEW t \in Tables, NEW b \in batch[t]
      PROVE  AllParse(t, b)'
  <2>1. b \in 0 .. Len(src[t])
    BY DEF BasicInv, ReadingInv
  <2> QED
    BY <2>1, WaitsKept DEF ParseInv
<1>2. ASSUME NEW t \in Tables, NEW b \in Parsed(t), cursor'[t] = cursor[t], src' = src
      PROVE  AllParse(t, b)'
  <2>1. /\ b \in 1 .. Len(src[t]) /\ cursor[t] < b /\ b <= cursor[t] + BatchSize /\ src[t][b].ok
        /\ cursor[t] \in Nat /\ Len(src[t]) \in Nat
    BY Fields DEF BasicInv, Parsed, Window
  <2>2. CASE ~BadRows
    <3>1. \A j \in cursor[t] + 1 .. b : j \in 1 .. Len(src[t])
      BY <2>1
    <3>2. \A j \in cursor[t] + 1 .. b : src[t][j].ok
      BY <2>2, <3>1 DEF BasicInv, SourceInv
    <3> QED
      BY <1>2, <3>2 DEF AllParse
  <2>3. CASE BatchSize = 1
    <3>1. \A j \in cursor[t] + 1 .. b : j = b
      BY <2>1, <2>3
    <3>2. \A j \in cursor[t] + 1 .. b : src[t][j].ok
      BY <2>1, <3>1
    <3> QED
      BY <1>2, <3>2 DEF AllParse
  <2> QED
    BY <2>2, <2>3
<1>3. ASSUME NEW t \in Tables, applied'[t] = applied[t] \/ applied'[t] = 0
      PROVE  AllParse(t, applied[t])'
  <2>1. applied[t] \in 0 .. Len(src[t]) /\ 0 \in 0 .. Len(src[t])
    BY Fields DEF BasicInv, SourceInv
  <2>2. AllParse(t, applied[t]) /\ AllParse(t, 0)
    <3>1. cursor[t] + 1 .. 0 = {}
      BY Fields DEF BasicInv
    <3> QED
      BY <3>1 DEF ParseInv, AllParse
  <2>3. \A id \in 0 .. Len(src[t]) : AllParse(t, id) => AllParse(t, id)'
    BY WaitsKept
  <2>4. CASE applied'[t] = applied[t]
    BY <2>1, <2>2, <2>3, <2>4 DEF AllParse
  <2>5. CASE applied'[t] = 0
    BY <2>1, <2>2, <2>3, <2>5 DEF AllParse
  <2> QED
    BY <1>3, <2>4, <2>5
<1>4. CASE ApplyRows
  <2>1. ASSUME NEW t \in Tables PROVE AllParse(t, applied[t])'
    <3>1. applied'[t] = 0 \/ applied'[t] \in batch[t]
      <4>1. CASE applied'[t] = 0
        BY <4>1
      <4>2. CASE \E k \in 1 .. Len(Merged) : Merged[k] = [table |-> t, id |-> applied'[t]]
        <5>1. [table |-> t, id |-> applied'[t]] \in Items
          BY <4>2, MergedRows
        <5> QED
          BY <5>1, ItemsAre
      <4> QED
        BY <1>4, <4>1, <4>2, LastAppliedIs, ApplyEffect
    <3>2. CASE applied'[t] \in batch[t]
      <4> DEFINE b == applied'[t]
      <4>1. AllParse(t, b)
        BY <3>2 DEF ParseInv
      <4>2. UNCHANGED <<src, cursor>>
        BY <1>4, ApplyEffect
      <4> QED
        BY <4>1, <4>2 DEF AllParse
    <3> QED
      BY <1>3, <3>1, <3>2
  <2>2. \A t \in Tables : batch'[t] = {}
    BY <1>4, ApplyEffect DEF NoRows
  <2> QED
    BY <2>1, <2>2 DEF ParseInv
<1>5. \A t \in Tables : ~ApplyRows => AllParse(t, applied[t])'
  BY <1>3, OtherSteps DEF NoIds
<1>6. ASSUME NEW t \in Tables, ReadTable(t) PROVE \A u \in Tables : \A b \in batch'[u] : AllParse(u, b)'
  <2>1. /\ UNCHANGED <<src, cursor>> /\ batch'[t] = Parsed(t)
        /\ \A u \in Tables : u # t => batch'[u] = batch[u]
    BY <1>6 DEF ReadTable, BasicInv, TypeOK
  <2> QED
    BY <1>1, <1>2, <2>1
<1>7. ASSUME ~ApplyRows, ~ \E t \in Tables : ReadTable(t)
      PROVE  \A u \in Tables : \A b \in batch'[u] : AllParse(u, b)'
  <2>1. batch' = batch \/ batch' = NoRows
    <3>1. ASSUME NEW t \in Tables, NEW ok \in BOOLEAN, Writes(t, ok) PROVE batch' = batch
      BY <3>1 DEF Writes
    <3>2. ASSUME NEW t \in Tables, SetCursor(t) PROVE batch' = batch
      BY <3>2 DEF SetCursor
    <3>3. ASSUME NEW stop \in BOOLEAN, BeginTick(stop) PROVE batch' = batch
      BY <3>3 DEF BeginTick
    <3>4. CASE ClockTicks \/ CursorsSaved \/ FlushInterval \/ UNCHANGED vars
      BY <3>4 DEF ClockTicks, CursorsSaved, FlushInterval, vars
    <3>5. CASE EndFlush \/ TickFails \/ FlushFails \/ Crash
      BY <3>5 DEF EndFlush, TickFails, FlushFails, Crash, TickOver
    <3> QED
      BY <1>7, <3>1, <3>2, <3>3, <3>4, <3>5 DEF Next, Tick
  <2> QED
    BY <1>1, <2>1 DEF NoRows
<1> QED
  BY <1>4, <1>5, <1>6, <1>7 DEF ParseInv

LEMMA UnreadStep ==
  ASSUME BasicInv, ParseInv, UnreadInv, [Next]_vars
  PROVE  UnreadInv'
<1> USE DEF source, reading
<1> DEFINE Beyond(t, id) == t \in full /\ \A b \in batch[t] : b < id
           Younger(t, id) == \A u \in Tables : ReadRank[u] <= ReadRank[t] =>
                               \A b \in batch[u] : TimeOf(u, b) <= TimeOf(t, id)
<1>1. SUFFICES ASSUME NEW t \in Tables, NEW id \in 1 .. Len(src'[t]),
                      Read(t)', Waits(t, id)', id \notin batch'[t]
               PROVE  Beyond(t, id)' \/ Younger(t, id)'
  BY DEF UnreadInv
<1>2. /\ Len(src[t]) \in Nat /\ id \in Nat
      /\ id \in 1 .. Len(src[t]) => id \in 0 .. Len(src[t]) /\ Waits(t, id)
  <2>1. Len(src[t]) \in Nat /\ Len(src'[t]) \in Nat
    BY CursorMoves
  <2>2. id \in 1 .. Len(src[t]) => id \in 0 .. Len(src[t])
    BY <2>1
  <2> QED
    BY <1>1, <2>1, <2>2, WaitsKept
<1>3. \A u \in Tables : \A b \in batch[u] : b \in 1 .. Len(src[u])
  BY DEF BasicInv, ReadingInv
<1>4. \A u \in Tables : \A b \in 1 .. Len(src[u]) : TimeOf(u, b)' = TimeOf(u, b)
  BY CursorMoves
<1>5. CASE UNCHANGED <<pc, batch, full>>
  <2>1. Read(t)
    BY <1>1, <1>5 DEF Read
  <2>2. CASE id \in 1 .. Len(src[t])
    <3>1. Beyond(t, id) \/ Younger(t, id)
      BY <1>1, <1>2, <1>5, <2>1, <2>2 DEF UnreadInv
    <3>2. Younger(t, id) => Younger(t, id)'
      BY <1>3, <1>4, <1>5, <2>2
    <3> QED
      BY <1>5, <3>1, <3>2
  <2>3. CASE id \notin 1 .. Len(src[t])
    <3>1. ~ UNCHANGED src
      BY <1>1, <2>3
    <3>2. PICK u \in Tables, ok \in BOOLEAN : Writes(u, ok)
      <4>1. ~ (ClockTicks \/ CursorsSaved \/ FlushInterval \/ UNCHANGED vars)
        BY <3>1 DEF ClockTicks, CursorsSaved, FlushInterval, vars
      <4>2. ~ (EndFlush \/ TickFails \/ FlushFails \/ Crash \/ ApplyRows)
        BY <3>1 DEF EndFlush, TickFails, FlushFails, Crash, ApplyRows
      <4>3. ~ \E u \in Tables : SetCursor(u) \/ ReadTable(u)
        BY <3>1 DEF SetCursor, ReadTable
      <4>4. ~ \E stop \in BOOLEAN : BeginTick(stop)
        BY <3>1 DEF BeginTick
      <4> QED
        BY <4>1, <4>2, <4>3, <4>4 DEF Next, Tick
    <3>3. src'[t][id].at = clock
      BY <1>1, <2>3, <3>2, WritesEffect DEF BasicInv
    <3>4. \A v \in Tables : \A b \in batch[v] : TimeOf(v, b)' <= clock
      BY <1>3, <1>4 DEF TimeOf, BasicInv, SourceInv
    <3> QED
      BY <1>5, <3>3, <3>4 DEF TimeOf
  <2> QED
    BY <2>2, <2>3
<1>6. ASSUME NEW r \in Tables, ReadTable(r) PROVE Beyond(t, id)' \/ Younger(t, id)'
  <2>1. /\ pc = r /\ pc' = NextRead(r) /\ UNCHANGED <<src, cursor>>
        /\ batch'[r] = Parsed(r) /\ \A u \in Tables : u # r => batch'[u] = batch[u]
        /\ full' = IF Cardinality(Parsed(r)) >= BatchSize THEN full \cup {r} ELSE full
    BY <1>6 DEF ReadTable, BasicInv, TypeOK
  <2>2. id \in 1 .. Len(src[t]) /\ Waits(t, id)
    BY <1>1, <1>2, <2>1
  <2>3. CASE t = r
    <3>1. Cardinality(Parsed(t)) >= BatchSize /\ \A b \in Parsed(t) : b < id
      BY <1>1, <2>1, <2>2, <2>3, FullWindow
    <3> QED
      BY <2>1, <2>3, <3>1
  <2>4. CASE t # r
    <3>1. Read(t) /\ ReadRank[t] < ReadRank[r]
      BY <1>1, <2>1, <2>4, ReadAdvances
    <3>2. id \notin batch[t] /\ batch'[t] = batch[t]
      BY <1>1, <2>1, <2>4
    <3>3. Beyond(t, id) \/ Younger(t, id)
      BY <2>2, <3>1, <3>2 DEF UnreadInv
    <3>4. Beyond(t, id) => Beyond(t, id)'
      BY <2>1, <3>2
    <3>5. ASSUME NEW u \in Tables, ReadRank[u] <= ReadRank[t] PROVE u # r
      BY <3>1, <3>5, NextReads DEF Tables
    <3>6. Younger(t, id) => Younger(t, id)'
      BY <2>1, <3>5 DEF TimeOf
    <3> QED
      BY <3>3, <3>4, <3>6
  <2> QED
    BY <2>3, <2>4
<1>7. pc' \in Tables \cup {"apply"}
  BY <1>1 DEF Read
<1>8. ~ (ApplyRows \/ CursorsSaved \/ EndFlush \/ TickFails \/ FlushFails \/ Crash)
  BY <1>7 DEF ApplyRows, CursorsSaved, EndFlush, TickFails, FlushFails, Crash, TickOver, Tables
<1>9. ~ \E stop \in BOOLEAN : BeginTick(stop)
  <2> SUFFICES ASSUME NEW stop \in BOOLEAN, BeginTick(stop) PROVE FALSE
    OBVIOUS
  <2>1. pc' = "orders"
    BY DEF BeginTick
  <2> QED
    BY <1>1, <2>1, NextReads DEF Read, Tables
<1>10. ASSUME NEW u \in Tables, SetCursor(u) PROVE UNCHANGED <<pc, batch, full>>
  BY <1>10 DEF SetCursor
<1>11. ASSUME NEW u \in Tables, NEW ok \in BOOLEAN, Writes(u, ok) PROVE UNCHANGED <<pc, batch, full>>
  BY <1>11 DEF Writes
<1>12. ClockTicks \/ FlushInterval \/ UNCHANGED vars => UNCHANGED <<pc, batch, full>>
  BY DEF ClockTicks, FlushInterval, vars
<1> QED
  BY <1>5, <1>6, <1>8, <1>9, <1>10, <1>11, <1>12 DEF Next, Tick

(* The rows applied in this step leave none behind that its table's read   *)
(* could have brought before them.                                         *)
LEMMA MergedWaits ==
  ASSUME BasicInv, UnreadInv, pc = "apply",
         NEW k \in 1 .. Len(Merged), NEW t \in Tables, NEW id \in 1 .. Len(src[t]),
         Waits(t, id), \A j \in 1 .. Len(Merged) : Merged[j] # [table |-> t, id |-> id],
         TimeOf(t, id) < At(Merged[k])
  PROVE  ReadRank[t] < ReadRank[Merged[k].table]
<1> DEFINE q == Merged[k]
           r == [table |-> t, id |-> id]
<1>1. q \in Items /\ Safe(q) /\ q.table \in Tables /\ q.id \in batch[q.table] /\ At(q) \in Nat
  BY MergedRows, ItemsAre
<1>2. At(q) = TimeOf(q.table, q.id) /\ At(r) = TimeOf(t, id) /\ TimeOf(t, id) \in Nat
  BY Fields DEF At, TimeOf, BasicInv
<1>3. \A u \in full : /\ u \in Tables /\ LastRead(u) \in batch[u]
                      /\ TimeOf(u, LastRead(u)) \in Nat
                      /\ At([table |-> u, id |-> LastRead(u)]) = TimeOf(u, LastRead(u))
                      /\ At(q) <= TimeOf(u, LastRead(u))
  <2> TAKE u \in full
  <2>1. u \in Tables /\ LastRead(u) \in batch[u]
    BY LastReadIs DEF BasicInv, ReadingInv, TypeOK
  <2>2. LastRead(u) \in 1 .. Len(src[u])
    BY <2>1 DEF BasicInv, ReadingInv
  <2>3. TimeOf(u, LastRead(u)) \in Nat
    BY <2>1, <2>2, Fields DEF TimeOf, BasicInv
  <2>4. At([table |-> u, id |-> LastRead(u)]) = TimeOf(u, LastRead(u))
    BY DEF At, TimeOf
  <2>5. At(q) <= At([table |-> u, id |-> LastRead(u)])
    BY <1>1 DEF Safe
  <2> QED
    BY <2>1, <2>3, <2>4, <2>5
<1>4. id \notin batch[t]
  <2> SUFFICES ASSUME id \in batch[t] PROVE FALSE
    OBVIOUS
  <2>1. r \in Items
    BY Fields, ItemsAre DEF RowId, BasicInv
  <2>2. ~Safe(r)
    BY <2>1, MergedRows
  <2>3. PICK u \in full : ~ At(r) <= At([table |-> u, id |-> LastRead(u)])
    BY <2>2 DEF Safe
  <2> QED
    BY <1>1, <1>2, <1>3, <2>3
<1>5. Read(t)
  BY DEF Read
<1>6. CASE t \in full /\ \A b \in batch[t] : b < id
  <2>1. LastRead(t) \in 1 .. Len(src[t]) /\ LastRead(t) < id
    BY <1>3, <1>6 DEF BasicInv, ReadingInv
  <2>2. LastRead(t) <= id
    BY <2>1
  <2>3. TimeOf(t, LastRead(t)) <= TimeOf(t, id)
    BY <2>1, <2>2 DEF BasicInv, SourceInv, TimeOf
  <2>4. At(q) <= TimeOf(t, LastRead(t)) /\ TimeOf(t, LastRead(t)) \in Nat
    BY <1>3, <1>6
  <2>5. TimeOf(t, id) < At(q) /\ TimeOf(t, id) \in Nat /\ At(q) \in Nat
    BY <1>1, <1>2
  <2> QED
    BY <2>3, <2>4, <2>5
<1>7. CASE \A u \in Tables : ReadRank[u] <= ReadRank[t] =>
             \A b \in batch[u] : TimeOf(u, b) <= TimeOf(t, id)
  <2>1. ~ At(q) <= TimeOf(t, id)
    BY <1>1, <1>2
  <2>2. ~ ReadRank[q.table] <= ReadRank[t]
    BY <1>1, <1>2, <1>7, <2>1
  <2>3. ReadRank[q.table] \in Nat /\ ReadRank[t] \in Nat
    BY <1>1, NextReads DEF Tables
  <2> QED
    BY <2>2, <2>3
<1> QED
  BY <1>4, <1>5, <1>6, <1>7 DEF UnreadInv

LEMMA WaitStep ==
  ASSUME BasicInv, PassedInv, ParseInv, UnreadInv, WaitInv, [Next]_vars
  PROVE  WaitInv'
<1>1. SUFFICES ASSUME NEW n \in 1 .. Len(history'), NEW t \in Tables, NEW id \in 1 .. Len(src'[t]),
                      Waits(t, id)', ~AppliedRow(t, id)', TimeOf(t, id)' < At(history[n])'
               PROVE  ReadRank[t] < ReadRank[history'[n].table]
  BY DEF WaitInv
<1>2. Len(src[t]) \in Nat /\ Len(src'[t]) \in Nat /\ id \in Nat
  BY CursorMoves
<1>3. \A m \in 1 .. Len(history) :
        /\ history[m].table \in Tables /\ history[m].id \in 1 .. Len(src[history[m].table])
        /\ src'[history[m].table][history[m].id] = src[history[m].table][history[m].id]
        /\ At(history[m]) \in Nat
  <2> TAKE m \in 1 .. Len(history)
  <2>1. history[m].table \in Tables /\ history[m].id \in 1 .. Len(src[history[m].table])
    BY Fields DEF PassedInv, BasicInv
  <2> QED
    BY <2>1, CursorMoves, Fields DEF At, BasicInv
<1>4. CASE ApplyRows
  <2>1. /\ history' = history \o Merged /\ UNCHANGED <<src, cursor>> /\ pc = "apply"
        /\ history \in Seq(RowId) /\ Merged \in Seq(RowId)
    BY <1>4, ApplyEffect
  <2>2. /\ DOMAIN history' = 1 .. Len(history) + Len(Merged) /\ DOMAIN history = 1 .. Len(history)
        /\ Len(history) \in Nat /\ Len(Merged) \in Nat
        /\ \A m \in 1 .. Len(history) : history'[m] = history[m]
        /\ \A k \in 1 .. Len(Merged) : history'[Len(history) + k] = Merged[k]
        /\ n \in 1 .. Len(history) \/ \E k \in 1 .. Len(Merged) : n = Len(history) + k
    BY <2>1, RowsAppended, LenProperties
  <2>3. /\ \A m \in 1 .. Len(history) : m \in DOMAIN history'
        /\ \A k \in 1 .. Len(Merged) : Len(history) + k \in DOMAIN history'
    BY <2>2
  <2>4. ~AppliedRow(t, id) /\ \A k \in 1 .. Len(Merged) : Merged[k] # [table |-> t, id |-> id]
    BY <1>1, <2>2, <2>3 DEF AppliedRow
  <2>5. id \in 1 .. Len(src[t]) /\ Waits(t, id)
    BY <1>1, <2>1 DEF Waits, AllParse
  <2>6. TimeOf(t, id) < At(history'[n])
    BY <1>1, <2>1 DEF At, TimeOf
  <2>7. CASE n \in 1 .. Len(history)
    BY <2>2, <2>4, <2>5, <2>6, <2>7 DEF WaitInv
  <2>8. ASSUME NEW k \in 1 .. Len(Merged), n = Len(history) + k
        PROVE  ReadRank[t] < ReadRank[history'[n].table]
    <3>1. history'[n] = Merged[k]
      BY <2>2, <2>8
    <3> QED
      BY <2>1, <2>4, <2>5, <2>6, <3>1, MergedWaits
  <2> QED
    BY <2>2, <2>7, <2>8
<1>5. CASE ~ApplyRows
  <2>1. history' = history
    BY <1>5, OtherSteps
  <2>2. n \in 1 .. Len(history) /\ ~AppliedRow(t, id)
    BY <1>1, <2>1 DEF AppliedRow
  <2>3. At(history[n])' = At(history[n])
    BY <1>3, <2>1, <2>2 DEF At
  <2>4. CASE id \in 1 .. Len(src[t])
    <3>1. id \in 0 .. Len(src[t])
      BY <1>2, <2>4
    <3>2. Waits(t, id) /\ TimeOf(t, id)' = TimeOf(t, id)
      BY <1>1, <2>4, <3>1, WaitsKept, CursorMoves
    <3> QED
      BY <1>1, <2>1, <2>2, <2>3, <2>4, <3>2 DEF WaitInv
  <2>5. CASE id \notin 1 .. Len(src[t])
    <3> USE DEF source, reading
    <3>1. ~ UNCHANGED src
      BY <1>1, <2>5
    <3>2. PICK u \in Tables, ok \in BOOLEAN : Writes(u, ok)
      <4>1. ~ (ClockTicks \/ CursorsSaved \/ FlushInterval \/ UNCHANGED vars)
        BY <3>1 DEF ClockTicks, CursorsSaved, FlushInterval, vars
      <4>2. ~ (EndFlush \/ TickFails \/ FlushFails \/ Crash)
        BY <3>1 DEF EndFlush, TickFails, FlushFails, Crash
      <4>3. ~ \E v \in Tables : SetCursor(v) \/ ReadTable(v)
        BY <3>1 DEF SetCursor, ReadTable
      <4>4. ~ \E stop \in BOOLEAN : BeginTick(stop)
        BY <3>1 DEF BeginTick
      <4> QED
        BY <1>5, <4>1, <4>2, <4>3, <4>4 DEF Next, Tick
    <3>3. TimeOf(t, id)' = clock
      BY <1>1, <2>5, <3>2, WritesEffect DEF BasicInv, TimeOf
    <3>4. At(history[n]) <= clock /\ At(history[n]) \in Nat /\ clock \in Nat
      BY <1>3, <2>2, Fields DEF BasicInv, SourceInv, At
    <3>5. clock < At(history[n])
      BY <1>1, <2>3, <3>3
    <3> QED
      BY <3>4, <3>5
  <2> QED
    BY <2>4, <2>5
<1> QED
  BY <1>4, <1>5

LEMMA LateStep ==
  ASSUME BasicInv, PassedInv, ParseInv, UnreadInv, WaitInv, LateOnlyAfterLaterTable, [Next]_vars
  PROVE  LateOnlyAfterLaterTable'
<1>1. \A m \in 1 .. Len(history) :
        /\ history[m].table \in Tables
        /\ src'[history[m].table][history[m].id] = src[history[m].table][history[m].id]
  <2> TAKE m \in 1 .. Len(history)
  <2>1. history[m].table \in Tables /\ history[m].id \in 1 .. Len(src[history[m].table])
    BY Fields DEF PassedInv, BasicInv
  <2> QED
    BY <2>1, CursorMoves
<1>2. DOMAIN history = 1 .. Len(history)
  BY Fields DEF BasicInv
<1>3. CASE ~ApplyRows
  <2>1. history' = history
    BY <1>3, OtherSteps
  <2>2. \A m \in 1 .. Len(history) : At(history[m])' = At(history[m])
    BY <1>1, <2>1 DEF At
  <2>3. \A n : FirstTime(n)' <=> FirstTime(n)
    BY <2>1 DEF FirstTime
  <2> QED
    BY <1>2, <2>1, <2>2, <2>3 DEF LateOnlyAfterLaterTable
<1>4. CASE ApplyRows
  <2>1. /\ history' = history \o Merged /\ UNCHANGED <<src, cursor>> /\ pc = "apply"
        /\ history \in Seq(RowId) /\ Merged \in Seq(RowId)
    BY <1>4, ApplyEffect
  <2> DEFINE a == Len(history)
             b == Len(Merged)
  <2>2. /\ DOMAIN history' = 1 .. a + b /\ a \in Nat /\ b \in Nat
        /\ \A m \in 1 .. a : history'[m] = history[m]
        /\ \A k \in 1 .. b : history'[a + k] = Merged[k]
        /\ \A m \in 1 .. a + b : m \in 1 .. a \/ \E k \in 1 .. b : m = a + k
    BY <2>1, RowsAppended
  <2> SUFFICES ASSUME NEW m \in 1 .. a + b, NEW n \in 1 .. a + b,
                      m < n, FirstTime(n)', At(history'[n]) < At(history'[m])
               PROVE  ReadRank[history'[n].table] < ReadRank[history'[m].table]
    <3>1. \A i \in 1 .. a + b : At(history[i])' = At(history'[i])
      BY <2>1 DEF At
    <3> HIDE DEF a, b
    <3> QED
      BY <2>2, <3>1 DEF LateOnlyAfterLaterTable
  <2> HIDE DEF a, b
  <2>3. CASE n \in 1 .. a
    <3>1. m \in 1 .. a
      BY <2>2, <2>3
    <3>2. FirstTime(n)
      <4>1. \A i \in 1 .. n - 1 : i \in 1 .. a
        BY <2>2, <2>3
      <4> QED
        BY <2>2, <2>3, <4>1 DEF FirstTime
    <3> QED
      BY <1>2, <2>2, <2>3, <3>1, <3>2 DEF LateOnlyAfterLaterTable, a
  <2>4. ASSUME NEW k \in 1 .. b, n = a + k
        PROVE  ReadRank[history'[n].table] < ReadRank[history'[m].table]
    <3>1. history'[n] = Merged[k] /\ Merged[k] \in Items
      BY <2>2, <2>4, MergedRows DEF b
    <3>2. CASE m \in 1 .. a
      <4> DEFINE t == Merged[k].table
                 id == Merged[k].id
      <4>1. /\ t \in Tables /\ id \in 1 .. Len(src[t]) /\ id \in batch[t]
            /\ Merged[k] = [table |-> t, id |-> id]
        BY <3>1, ItemsAre DEF RowId
      <4>2. ~AppliedRow(t, id)
        <5>1. \A i \in 1 .. a : i \in 1 .. n - 1
          BY <2>2, <2>4
        <5>2. \A i \in 1 .. a : history[i] # Merged[k]
          BY <2>2, <3>1, <5>1 DEF FirstTime
        <5> QED
          BY <1>2, <4>1, <5>2 DEF AppliedRow, a
      <4>3. Waits(t, id)
        BY <4>1 DEF Waits, ParseInv, BasicInv, ReadingInv
      <4>4. TimeOf(t, id) < At(history[m])
        BY <2>2, <3>1, <3>2 DEF At, TimeOf
      <4>5. ReadRank[t] < ReadRank[history[m].table]
        BY <3>2, <4>1, <4>2, <4>3, <4>4 DEF WaitInv, a
      <4> QED
        BY <2>2, <3>1, <3>2, <4>5
    <3>3. ASSUME NEW j \in 1 .. b, m = a + j PROVE FALSE
      <4>1. j < k
        BY <2>2, <2>4, <3>3
      <4>2. history'[m] = Merged[j]
        BY <2>2, <3>3
      <4>3. Merged[j] \in Items /\ Before(Merged[j], Merged[k])
        BY <4>1, MergedRows DEF b
      <4>4. At(Merged[j]) <= At(Merged[k]) /\ At(Merged[j]) \in Nat /\ At(Merged[k]) \in Nat
        BY <3>1, <4>3, BeforeOrders, ItemsAre
      <4>5. At(Merged[k]) < At(Merged[j])
        BY <3>1, <4>2
      <4> QED
        BY <4>4, <4>5
    <3> QED
      BY <2>2, <3>2, <3>3
  <2> QED
    BY <2>2, <2>3, <2>4
<1> QED
  BY <1>3, <1>4

OrderInv == ParseInv /\ UnreadInv /\ WaitInv /\ LateOnlyAfterLaterTable

(* A row reaches the tracker after a younger row only if the younger one   *)
(* is of a table that collect reads later: what a full batch leaves behind *)
(* is beyond the safe point, and what was written during the tick is       *)
(* younger than every row read before it.  A batch of several rows must be *)
(* without rejected ones, which would make a full batch look short.        *)
THEOREM LateRows ==
  ASSUME BatchSize = 1 \/ ~BadRows
  PROVE  Spec => []LateOnlyAfterLaterTable
<1>1. Init => OrderInv
  <2> SUFFICES ASSUME Init PROVE OrderInv
    OBVIOUS
  <2>1. \A t \in Tables : src[t] = <<>> /\ batch[t] = {} /\ cursor[t] = 0 /\ applied[t] = 0
    BY DEF Init, NoIds, NoRows
  <2>2. history = <<>> /\ Len(history) = 0
    BY DEF Init
  <2> QED
    BY <2>1, <2>2 DEF OrderInv, ParseInv, AllParse, UnreadInv, WaitInv, LateOnlyAfterLaterTable
<1>2. BasicInv /\ PassedInv /\ OrderInv /\ [Next]_vars => OrderInv'
  BY ParseStep, UnreadStep, WaitStep, LateStep DEF OrderInv
<1>3. OrderInv => LateOnlyAfterLaterTable
  BY DEF OrderInv
<1> QED
  BY <1>1, <1>2, <1>3, BasicInvariant, PassedInvariant, PTL DEF Spec
=============================================================================
